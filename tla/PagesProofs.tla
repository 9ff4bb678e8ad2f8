----------------------------- MODULE PagesProofs -----------------------------
(***************************************************************************)
(* Proofs about Pages, for any units, releases, products and files: the    *)
(* mark of a channel is neither lost nor doubled, a page is as current as  *)
(* the order of reads and commits allows, an import is whole, and an       *)
(* export that nothing came between loads back.                            *)
(*                                                                         *)
(* What a unit holds is written of its record x and of the tables d, so    *)
(* that a commit can be reasoned about as a change of d.                   *)
(*                                                                         *)
(* The second part is about Listings, which reads the same rows: a walk    *)
(* along the pages of a listing misses nothing and repeats nothing, and no *)
(* page of a history shows what the plan of its reader leaves out.         *)
(***************************************************************************)
EXTENDS Pages, Listings, FiniteSetTheorems, WellFoundedInduction, TLAPS

PlaceOf(m) == KeyOf(m[1], m[2])
Writing(x) == x.at \in {"refresh", "write", "touch", "commit"}
Publishes(x) == x.kind \in {"latest", "release"}
FlagOf(x) == <<x.rel, ProductOf(x.rel)>>
Changed(x) == Touched({[id |-> r] : r \in x.ins}) \union x.opens \union x.closes
After(d, x) == [d EXCEPT !.releases = @ \union x.ins,
                         !.flagged = (@ \ x.cleared) \union x.marks,
                         !.disputed = (@ \union x.opens) \ x.closes,
                         !.verified = [r \in Rels |-> IF r \in x.confirms THEN x.time ELSE d.verified[r]],
                         !.claims = [p \in Products |->
                            IF p \in x.opens \union x.restates THEN x.time ELSE d.claims[p]]]
Outdated(x) ==
    {at \in Products \X Columns :
        \/ at[2] = "verified" /\ \E r \in x.confirms : at[1] \in Fact[r].products
        \/ at[2] = "claims" /\ at[1] \in x.restates}

\* A release that the registry of this installation knows the products of.
Known(r) == r \in Rels /\ Fact[r].products # {} /\ Fact[r].products \subseteq Registered
Flags(m, rels) == \E r \in rels : \E p \in Fact[r].products : m = <<r, p>>
Unique(flags) == \A m, n \in flags : PlaceOf(m) = PlaceOf(n) => m = n

Tables(d) ==
    /\ DOMAIN d = DOMAIN Empty
    /\ \A r \in d.releases : Known(r)
    /\ \A m \in d.flagged : Flags(m, d.releases)
    /\ Unique(d.flagged)

\* A unit in the middle of its life has the form of its kind and stage.
Form(x) ==
    /\ DOMAIN x = DOMAIN Idle
    /\ (x.at = "idle") = (x.kind = "none")
    /\ x.at \in {"clear", "clearing"} => x.kind = "latest"
    /\ x.at = "insert" => Publishes(x) \/ x.kind = "import"
    /\ x.kind = "import" => x.rel = None
    /\ ~Writing(x) => /\ x.ins = {} /\ x.marks = {} /\ x.opens = {} /\ x.closes = {}
                      /\ x.restates = {} /\ DOMAIN x.rows = {}
    /\ x.at # "commit" => x.confirms = {}
    /\ x.ins # {} => Publishes(x) \/ x.kind = "import"
    /\ x.cleared # {} => x.kind = "latest"
    /\ DOMAIN x.rows \subseteq Products /\ x.todo \subseteq Products
    /\ x.at = "write" => x.read.product \in Products

\* The releases a unit adds are new.
Adds(d, x) ==
    /\ x.ins \intersect d.releases = {}
    /\ \A r \in x.ins : Known(r)
    /\ Publishes(x) => x.rel \in Collected \ d.releases /\ x.ins \subseteq {x.rel}
    /\ x.kind = "import" => x.ins \intersect Collected = {}

\* The marks a unit sets displace those that it clears, and no others.
Marks(d, x) ==
    /\ \A m \in x.marks : Flags(m, x.ins)
    /\ Unique(x.marks)
    /\ x.cleared \subseteq d.flagged
    /\ \A m \in x.marks : \A n \in d.flagged : PlaceOf(m) = PlaceOf(n) => n \in x.cleared
    /\ \A n \in x.cleared \union x.saw : PlaceOf(n) = PlaceOf(FlagOf(x))
    /\ x.kind = "latest" /\ Writing(x) => x.marks = {FlagOf(x)}

\* The lines of a file: what is to be published here is in none of them.
Lines(d, lines) ==
    \A l \in lines : /\ l.id \in Rels /\ l.flags \subseteq Fact[l.id].products
                     /\ l.id \in Collected => l.id \in d.releases
Ids(lines) == {l.id : l \in lines}

Imports(d, x) ==
    x.kind = "import" =>
        /\ Lines(d, x.facts)
        /\ Writing(x) => Ids(x.facts) \subseteq d.releases \union x.ins /\ x.ins \subseteq Ids(x.facts)

\* Every page that should change is refreshed, or has been.
Refreshes(x) ==
    /\ Writing(x) => Changed(x) \subseteq x.todo \union DOMAIN x.rows
    /\ x.at \in {"touch", "commit"} => x.todo = {}

\* What was read is what the tables would say after the unit, column by column, but for what
\* came late and what the unit leaves out.
Says(d, x, p, row) ==
    \A c \in Columns : <<p, c>> \notin x.late \union Outdated(x) => row[c] = SummaryRow(After(d, x), p)[c]
Current(d, x) ==
    /\ \A p \in DOMAIN x.rows : Says(d, x, p, x.rows[p])
    /\ x.at = "write" => Says(d, x, x.read.product, x.read.row)

Sane(d, x) == /\ Form(x) /\ Adds(d, x) /\ Marks(d, x)
              /\ Imports(d, x) /\ Refreshes(x) /\ Current(d, x)

\* What two units hold is apart.
Apart(x, y) ==
    /\ x.cleared \intersect y.cleared = {}
    /\ \A m \in x.marks : \A n \in y.marks : PlaceOf(m) # PlaceOf(n)
    /\ Publishes(x) /\ Publishes(y) => x.rel # y.rel
    /\ x.ins \intersect y.ins = {}

\* The history variables say what they are there to say.
Exported == export # None /\ ~torn => export = {Line(db, r) : r \in db.releases}
ExportLines == export # None =>
    \A l \in export : l.id \in db.releases /\ DOMAIN l = {"id", "withdrawn", "flags"}

Consistent ==
    /\ Tables(db)
    /\ unit = [u \in Units |-> unit[u]]
    /\ \A u \in Units : Sane(db, unit[u])
    /\ \A u, w \in Units : u # w => Apart(unit[u], unit[w])
    /\ Lines(db, file) /\ ExportLines /\ Exported
    /\ PageIsCurrent

-----------------------------------------------------------------------------
(***************************************************************************)
(* Tables, before and after a unit.                                        *)
(***************************************************************************)

LEMMA CollectedKnown ==
    ASSUME NEW r \in Collected
    PROVE  Known(r) /\ Fact[r].products = {ProductOf(r)}
BY PagesAssumption DEF Known, ProductOf

LEMMA AfterIs ==
    ASSUME NEW d, DOMAIN d = DOMAIN Empty, NEW x
    PROVE  /\ DOMAIN After(d, x) = DOMAIN Empty
           /\ After(d, x).releases = d.releases \union x.ins
           /\ After(d, x).flagged = (d.flagged \ x.cleared) \union x.marks
           /\ After(d, x).disputed = (d.disputed \union x.opens) \ x.closes
           /\ After(d, x).withdrawn = d.withdrawn
BY DEF After, Empty

Shaped(d) == DOMAIN d = DOMAIN Empty
LEMMA AfterShows ==
    ASSUME NEW d, Shaped(d), NEW x, NEW e, e = After(d, x)
    PROVE  /\ \A r \in Rels : e.verified[r] = IF r \in x.confirms THEN x.time ELSE d.verified[r]
           /\ \A p \in Products : e.claims[p] =
                IF p \in x.opens \union x.restates THEN x.time ELSE d.claims[p]
BY DEF After, Empty, Shaped

\* A unit keeps the marks of the tables unique.
LEMMA AfterUnique ==
    ASSUME NEW d, NEW x, Tables(d), Adds(d, x), Marks(d, x)
    PROVE  Unique((d.flagged \ x.cleared) \union x.marks)
BY DEF Unique, Tables, Marks

LEMMA AfterTables ==
    ASSUME NEW d, NEW x, Tables(d), Form(x), Adds(d, x), Marks(d, x)
    PROVE  Tables(After(d, x))
<1>1. /\ DOMAIN d = DOMAIN Empty
      /\ DOMAIN After(d, x) = DOMAIN Empty
      /\ After(d, x).releases = d.releases \union x.ins
      /\ After(d, x).flagged = (d.flagged \ x.cleared) \union x.marks
    BY AfterIs DEF Tables
<1>2. \A r \in After(d, x).releases : Known(r)
    BY <1>1 DEF Tables, Adds
<1>3. \A m \in After(d, x).flagged : Flags(m, After(d, x).releases)
    BY <1>1 DEF Tables, Marks, Flags
<1> QED
    BY <1>1, <1>2, <1>3, AfterUnique DEF Tables

LEMMA TouchedIs ==
    ASSUME NEW rels
    PROVE  /\ \A r \in rels : Fact[r].products \subseteq Touched({[id |-> s] : s \in rels})
           /\ \A p \in Touched({[id |-> s] : s \in rels}) : \E r \in rels : p \in Fact[r].products
<1> DEFINE lines == {[id |-> s] : s \in rels}
<1>1. \A r \in rels : [id |-> r] \in lines /\ [id |-> r].id = r
    OBVIOUS
<1>2. \A l \in lines : l.id \in rels
    OBVIOUS
<1>3. \A p : p \in Touched(lines) <=> \E l \in lines : p \in Fact[l.id].products
    BY DEF Touched
<1> HIDE DEF lines
<1>4. \A r \in rels : Fact[r].products \subseteq Touched(lines)
    <2> SUFFICES ASSUME NEW r \in rels, NEW p \in Fact[r].products PROVE p \in Touched(lines)
        OBVIOUS
    <2>1. PICK l \in lines : l.id = r
        BY <1>1
    <2> QED
        BY <1>3, <2>1
<1>5. \A p \in Touched(lines) : \E r \in rels : p \in Fact[r].products
    BY <1>2, <1>3
<1> QED
    BY <1>4, <1>5 DEF lines

\* A unit that disputes nothing should change the pages of what it adds.
LEMMA ChangedIs ==
    ASSUME NEW x, x.opens = {}, x.closes = {}
    PROVE  \A p \in Changed(x) : \E r \in x.ins : p \in Fact[r].products
BY TouchedIs DEF Changed

\* What a unit that is about to write does not touch.
LEMMA Elsewhere ==
    ASSUME NEW d, NEW x, Form(x), Adds(d, x), Marks(d, x), Writing(x), NEW p, p \notin Changed(x)
    PROVE  /\ \A r \in x.ins : p \notin Fact[r].products
           /\ \A r : <<r, p>> \notin x.marks /\ <<r, p>> \notin x.cleared
           /\ p \notin x.opens /\ p \notin x.closes
<1>1. \A r \in x.ins : p \notin Fact[r].products
    BY TouchedIs DEF Changed
<1>2. \A r : <<r, p>> \notin x.marks
    BY <1>1 DEF Marks, Flags
<1>3. ASSUME NEW r, <<r, p>> \in x.cleared PROVE FALSE
    <2>1. x.kind = "latest" /\ x.marks = {FlagOf(x)}
        BY <1>3 DEF Form, Marks
    <2>2. PlaceOf(<<r, p>>) = PlaceOf(FlagOf(x))
        BY <1>3 DEF Marks
    <2>3. p = ProductOf(x.rel)
        BY <2>2 DEF PlaceOf, KeyOf, FlagOf
    <2>4. <<x.rel, p>> \in x.marks
        BY <2>1, <2>3 DEF FlagOf
    <2> QED
        BY <1>2, <2>4
<1> QED
    BY <1>1, <1>2, <1>3 DEF Changed

\* The page of a product is made from its own releases, marks and disputes.
LEMMA SameRow ==
    ASSUME NEW d, NEW e, NEW p, NEW c \in Columns, Mapped(d, p) = Mapped(e, p),
           \A r \in Mapped(d, p) : /\ <<r, p>> \in d.flagged <=> <<r, p>> \in e.flagged
                                   /\ r \in d.withdrawn <=> r \in e.withdrawn,
           p \in d.disputed <=> p \in e.disputed,
           c = "verified" => \A r \in Mapped(d, p) : d.verified[r] = e.verified[r],
           c = "claims" => d.claims[p] = e.claims[p]
    PROVE  SummaryRow(d, p)[c] = SummaryRow(e, p)[c]
<1> DEFINE served(t) == {r \in Mapped(t, p) : Serveable(t, r)}
<1>1. FlaggedFor(d, p) = FlaggedFor(e, p)
    BY DEF FlaggedFor, Serveable
<1>2. served(d) = served(e)
    BY DEF Serveable
<1>3. {r \in Mapped(d, p) : Fact[r].recommended /\ Serveable(d, r)}
        = {r \in Mapped(e, p) : Fact[r].recommended /\ Serveable(e, r)}
    BY DEF Serveable
<1>4. (p \in d.disputed) = (p \in e.disputed)
    OBVIOUS
<1>5. c = "verified" => LastVerified(d, p) = LastVerified(e, p)
    <2> SUFFICES ASSUME c = "verified" PROVE LastVerified(d, p) = LastVerified(e, p)
        OBVIOUS
    <2>1. \A r \in served(d) : d.verified[r] = e.verified[r]
        OBVIOUS
    <2> HIDE DEF served
    <2>2. {d.verified[r] : r \in served(d)} = {e.verified[r] : r \in served(e)}
        BY <1>2, <2>1
    <2> USE DEF served
    <2> QED
        BY <2>2 DEF LastVerified
<1>6. c = "claims" => Claims(d, p) = Claims(e, p)
    BY <1>4 DEF Claims
<1>7. /\ Recommended(d, p) = Recommended(e, p) /\ ReleaseCount(d, p) = ReleaseCount(e, p)
      /\ OfficialSources(d, p) = OfficialSources(e, p)
    BY <1>2, <1>3 DEF Recommended, ReleaseCount, OfficialSources
<1> QED
    BY <1>1, <1>4, <1>5, <1>6, <1>7 DEF SummaryRow, Columns

\* What a unit leaves out of the pages.
LEMMA OutdatedIs ==
    ASSUME NEW x, NEW p \in Products
    PROVE  /\ <<p, "verified">> \notin Outdated(x) => \A r \in x.confirms : p \notin Fact[r].products
           /\ <<p, "claims">> \notin Outdated(x) => p \notin x.restates
<1>1. <<p, "verified">> \in Products \X Columns /\ <<p, "claims">> \in Products \X Columns
    BY DEF Columns
<1> QED
    BY <1>1 DEF Outdated

\* A unit changes no page but those it should, neither as it is nor as another unit sees it,
\* and of these no column that it leaves out.
LEMMA RowElsewhere ==
    ASSUME NEW d, NEW x, Tables(d), Form(x), Adds(d, x), Marks(d, x), Writing(x),
           NEW p \in Products, p \notin Changed(x), NEW c \in Columns
    PROVE  /\ Mapped(After(d, x), p) = Mapped(d, p)
           /\ <<p, c>> \notin Outdated(x) => SummaryRow(After(d, x), p)[c] = SummaryRow(d, p)[c]
<1> DEFINE e == After(d, x)
<1>1. /\ e.releases = d.releases \union x.ins
      /\ e.flagged = (d.flagged \ x.cleared) \union x.marks
      /\ e.disputed = (d.disputed \union x.opens) \ x.closes
      /\ e.withdrawn = d.withdrawn
    BY AfterIs DEF Tables
<1>1a. /\ \A r \in Rels : e.verified[r] = IF r \in x.confirms THEN x.time ELSE d.verified[r]
       /\ e.claims[p] = IF p \in x.opens \union x.restates THEN x.time ELSE d.claims[p]
    BY AfterShows DEF Tables, Shaped
<1> HIDE DEF e
<1>2. Mapped(e, p) = Mapped(d, p)
    BY <1>1, Elsewhere DEF Mapped
<1>3. \A r \in Mapped(e, p) : /\ <<r, p>> \in e.flagged <=> <<r, p>> \in d.flagged
                              /\ r \in e.withdrawn <=> r \in d.withdrawn
    BY <1>1, Elsewhere
<1>4. p \in e.disputed <=> p \in d.disputed
    BY <1>1, Elsewhere
<1>5. ASSUME <<p, c>> \notin Outdated(x) PROVE SummaryRow(e, p)[c] = SummaryRow(d, p)[c]
    <2>1. ASSUME c = "verified", NEW r \in Mapped(e, p) PROVE e.verified[r] = d.verified[r]
        <3>1. r \in Rels /\ p \in Fact[r].products
            BY <1>2 DEF Mapped, Tables, Known
        <3>2. r \notin x.confirms
            BY <1>5, <2>1, <3>1, OutdatedIs
        <3> QED
            BY <1>1a, <3>1, <3>2
    <2>2. c = "claims" => e.claims[p] = d.claims[p]
        BY <1>1a, <1>5, OutdatedIs, Elsewhere
    <2> QED
        BY <1>2, <1>3, <1>4, <2>1, <2>2, SameRow
<1> QED
    BY <1>2, <1>5 DEF e

LEMMA RowBehind ==
    ASSUME NEW d, NEW x, NEW y, Tables(d), Form(x), Adds(d, x), Marks(d, x), Writing(x), Adds(d, y),
           NEW p \in Products, p \notin Changed(x), NEW c \in Columns, <<p, c>> \notin Outdated(x)
    PROVE  SummaryRow(After(After(d, x), y), p)[c] = SummaryRow(After(d, y), p)[c]
<1> DEFINE e == After(d, x)
           f == After(e, y)
           g == After(d, y)
<1>1. DOMAIN d = DOMAIN Empty /\ DOMAIN e = DOMAIN Empty
    BY AfterIs DEF Tables
<1>2. /\ e.releases = d.releases \union x.ins
      /\ e.flagged = (d.flagged \ x.cleared) \union x.marks
      /\ e.disputed = (d.disputed \union x.opens) \ x.closes
      /\ e.withdrawn = d.withdrawn
    BY <1>1, AfterIs
<1>3. /\ f.releases = e.releases \union y.ins
      /\ f.flagged = (e.flagged \ y.cleared) \union y.marks
      /\ f.disputed = (e.disputed \union y.opens) \ y.closes
      /\ f.withdrawn = e.withdrawn
    BY <1>1, AfterIs
<1>4. /\ g.releases = d.releases \union y.ins
      /\ g.flagged = (d.flagged \ y.cleared) \union y.marks
      /\ g.disputed = (d.disputed \union y.opens) \ y.closes
      /\ g.withdrawn = d.withdrawn
    BY <1>1, AfterIs
<1>1a. Shaped(d) /\ Shaped(e)
    BY <1>1 DEF Shaped
<1>0. e = After(d, x) /\ f = After(e, y) /\ g = After(d, y)
    OBVIOUS
<1> HIDE DEF e, f, g
<1>2a. /\ \A r \in Rels : e.verified[r] = IF r \in x.confirms THEN x.time ELSE d.verified[r]
       /\ \A q \in Products : e.claims[q] =
                IF q \in x.opens \union x.restates THEN x.time ELSE d.claims[q]
    BY <1>0, <1>1a, AfterShows
<1>3a. /\ \A r \in Rels : f.verified[r] = IF r \in y.confirms THEN y.time ELSE e.verified[r]
       /\ \A q \in Products : f.claims[q] =
                IF q \in y.opens \union y.restates THEN y.time ELSE e.claims[q]
    <2>1. f = After(e, y) /\ Shaped(e)
        BY <1>0, <1>1a
    <2> QED
        BY ONLY <2>1, AfterShows
<1>4a. /\ \A r \in Rels : g.verified[r] = IF r \in y.confirms THEN y.time ELSE d.verified[r]
       /\ \A q \in Products : g.claims[q] =
                IF q \in y.opens \union y.restates THEN y.time ELSE d.claims[q]
    BY <1>0, <1>1a, AfterShows
<1>5. Mapped(f, p) = Mapped(g, p)
    BY <1>2, <1>3, <1>4, Elsewhere DEF Mapped
<1>6. \A r \in Mapped(f, p) : /\ <<r, p>> \in f.flagged <=> <<r, p>> \in g.flagged
                              /\ r \in f.withdrawn <=> r \in g.withdrawn
    BY <1>2, <1>3, <1>4, Elsewhere
<1>7. p \in f.disputed <=> p \in g.disputed
    BY <1>2, <1>3, <1>4, Elsewhere
<1>8. ASSUME c = "verified", NEW r \in Mapped(f, p) PROVE f.verified[r] = g.verified[r]
    <2>1. r \in Rels /\ p \in Fact[r].products
        BY <1>4, <1>5 DEF Mapped, Tables, Adds, Known
    <2>2. r \notin x.confirms
        BY <1>8, <2>1, OutdatedIs
    <2> QED
        BY <1>2a, <1>3a, <1>4a, <2>1, <2>2
<1>9. c = "claims" => f.claims[p] = g.claims[p]
    BY <1>2a, <1>3a, <1>4a, OutdatedIs, Elsewhere
<1>10. SummaryRow(f, p)[c] = SummaryRow(g, p)[c]
    BY <1>5, <1>6, <1>7, <1>8, <1>9, SameRow
<1> QED
    BY <1>10 DEF e, f, g
-----------------------------------------------------------------------------
(***************************************************************************)
(* The steps of a unit, one at a time.                                     *)
(***************************************************************************)

LEMMA IdleIs ==
    /\ DOMAIN Idle = {"kind", "at", "rel", "saw", "cleared", "ins", "marks", "opens", "closes",
                      "restates", "dup", "confirms", "time", "facts", "todo", "read", "rows", "late"}
    /\ Idle.kind = "none" /\ Idle.at = "idle" /\ Idle.rel = None
    /\ Idle.saw = {} /\ Idle.cleared = {} /\ Idle.ins = {} /\ Idle.marks = {}
    /\ Idle.opens = {} /\ Idle.closes = {} /\ Idle.facts = {} /\ Idle.todo = {}
    /\ Idle.restates = {} /\ Idle.confirms = {}
    /\ DOMAIN Idle.rows = {} /\ Idle.late = {}
BY DEF Idle

\* The unit x and what became of it write the same.
Writes(x, z) ==
    /\ z.kind = x.kind /\ z.rel = x.rel /\ z.facts = x.facts
    /\ z.ins = x.ins /\ z.marks = x.marks /\ z.cleared = x.cleared /\ z.saw = x.saw
    /\ z.opens = x.opens /\ z.closes = x.closes
    /\ z.restates = x.restates /\ z.confirms = x.confirms /\ z.time = x.time /\ z.dup = x.dup

LEMMA WritesSame ==
    ASSUME NEW d, NEW x, NEW z, Writes(x, z), Adds(d, x), Marks(d, x), Imports(d, x),
           Writing(z) <=> Writing(x)
    PROVE  /\ Adds(d, z) /\ Marks(d, z) /\ Imports(d, z)
           /\ After(d, z) = After(d, x) /\ Changed(z) = Changed(x) /\ Outdated(z) = Outdated(x)
           /\ \A y : (Apart(x, y) => Apart(z, y)) /\ (Apart(y, x) => Apart(y, z))
<1>1. Publishes(z) = Publishes(x) /\ FlagOf(z) = FlagOf(x)
    BY DEF Writes, Publishes, FlagOf
<1>2. Adds(d, z)
    BY <1>1 DEF Writes, Adds
<1>3. Marks(d, z)
    BY <1>1 DEF Writes, Marks
<1>4. Imports(d, z)
    BY DEF Writes, Imports
<1>5. After(d, z) = After(d, x)
    BY Zenon DEF Writes, After
<1>6. Changed(z) = Changed(x)
    BY Zenon DEF Writes, Changed
<1>7. \A y : (Apart(x, y) => Apart(z, y)) /\ (Apart(y, x) => Apart(y, z))
    BY <1>1 DEF Writes, Apart
<1>8. Outdated(z) = Outdated(x)
    BY Zenon DEF Writes, Outdated
<1> QED
    BY <1>2, <1>3, <1>4, <1>5, <1>6, <1>7, <1>8

\* A unit that has just begun and writes nothing yet.
Fresh(x) ==
    /\ DOMAIN x = DOMAIN Idle
    /\ x.saw = {} /\ x.cleared = {} /\ x.ins = {} /\ x.marks = {}
    /\ x.opens = {} /\ x.closes = {} /\ DOMAIN x.rows = {} /\ x.todo = {}
    /\ x.restates = {} /\ x.confirms = {}
    /\ x.at \in {"idle", "clear", "insert"}

LEMMA FreshSane ==
    ASSUME NEW d, NEW x, Tables(d), Fresh(x),
           \/ x.kind = "none" /\ x.at = "idle"
           \/ x.kind = "latest" /\ x.at = "clear" /\ x.rel \in Collected \ d.releases
           \/ x.kind = "release" /\ x.at = "insert" /\ x.rel \in Collected \ d.releases
           \/ x.kind = "import" /\ x.at = "insert" /\ x.rel = None /\ Lines(d, x.facts)
    PROVE  Sane(d, x)
<1>1. ~Writing(x) /\ x.at # "commit" /\ x.at # "write" /\ x.at # "refresh"
    BY DEF Fresh, Writing
<1>2. Form(x)
    BY <1>1 DEF Fresh, Form, Publishes
<1>3. Adds(d, x)
    BY DEF Fresh, Adds, Publishes
<1>4. Marks(d, x)
    BY <1>1 DEF Fresh, Marks, Unique
<1>5. Imports(d, x)
    BY <1>1 DEF Imports
<1>6. Refreshes(x)
    BY <1>1 DEF Refreshes
<1>7. Current(d, x)
    BY <1>1 DEF Current, Fresh
<1> QED
    BY <1>2, <1>3, <1>4, <1>5, <1>6, <1>7 DEF Sane

\* A unit that refreshes a page and has nothing else to do, opens or closes a conflict or
\* states it anew, or goes on to confirm a release.
LEMMA RefreshSane ==
    ASSUME NEW d, NEW x, Tables(d), NEW p \in Products,
           DOMAIN x = DOMAIN Idle, x.kind \in {"validate", "sync"}, x.at \in {"refresh", "touch", "commit"},
           x.rel = None, x.saw = {}, x.cleared = {}, x.ins = {}, x.marks = {}, x.confirms = {},
           x.opens \subseteq {p}, x.closes \subseteq {p}, DOMAIN x.rows = {},
           \/ x.at = "refresh" /\ x.todo = {p}
           \/ x.todo = {} /\ x.opens = {} /\ x.closes = {}
    PROVE  Sane(d, x)
<1>1. Form(x) /\ Adds(d, x) /\ Marks(d, x)
    BY DEF Form, Adds, Marks, Publishes, Writing, Unique
<1>2. Imports(d, x) /\ Current(d, x)
    BY DEF Imports, Current
<1>3. Changed(x) \subseteq x.opens \union x.closes
    BY TouchedIs DEF Changed
<1>4. Refreshes(x)
    BY <1>3 DEF Refreshes
<1> QED
    BY <1>1, <1>2, <1>4 DEF Sane

LEMMA ClearingSane ==
    ASSUME NEW d, NEW x, Sane(d, x), x.at = "clear",
           NEW saw, \A n \in saw : PlaceOf(n) = PlaceOf(FlagOf(x))
    PROVE  /\ Sane(d, [x EXCEPT !.at = "clearing", !.saw = saw])
           /\ \A y : Apart(x, y) => Apart([x EXCEPT !.at = "clearing", !.saw = saw], y)
<1> DEFINE z == [x EXCEPT !.at = "clearing", !.saw = saw]
<1>0. Form(x) /\ Adds(d, x) /\ Marks(d, x) /\ Imports(d, x) /\ Refreshes(x) /\ Current(d, x)
    BY DEF Sane
<1>1. /\ DOMAIN z = DOMAIN Idle /\ z.at = "clearing" /\ z.saw = saw /\ z.kind = x.kind
      /\ z.rel = x.rel /\ z.cleared = x.cleared /\ z.ins = x.ins /\ z.marks = x.marks
      /\ z.opens = x.opens /\ z.closes = x.closes /\ z.facts = x.facts /\ z.todo = x.todo
      /\ z.restates = x.restates /\ z.confirms = x.confirms
      /\ z.rows = x.rows /\ z.late = x.late
    BY <1>0, IdleIs DEF Form
<1> HIDE DEF z
<1>2. ~Writing(x) /\ ~Writing(z) /\ FlagOf(z) = FlagOf(x) /\ Publishes(z) = Publishes(x)
    BY <1>1 DEF Writing, FlagOf, Publishes
<1>3. Form(z)
    BY <1>0, <1>1, <1>2 DEF Form
<1>4. Adds(d, z) /\ Imports(d, z)
    BY <1>0, <1>1, <1>2 DEF Adds, Imports
<1>5. Marks(d, z)
    BY <1>0, <1>1, <1>2 DEF Marks
<1>6. Refreshes(z) /\ Current(d, z)
    BY <1>0, <1>1, <1>2 DEF Refreshes, Current, Form
<1>7. \A y : Apart(x, y) => Apart(z, y)
    BY <1>1, <1>2 DEF Apart
<1>8. Sane(d, z)
    BY <1>3, <1>4, <1>5, <1>6 DEF Sane
<1> QED
    BY <1>7, <1>8 DEF z

LEMMA ClearedSane ==
    ASSUME NEW d, NEW x, Sane(d, x), x.at = "clearing"
    PROVE  /\ Sane(d, [x EXCEPT !.at = "insert", !.cleared = x.saw \intersect d.flagged])
           /\ \A y : Apart(x, y) /\ y.cleared \intersect x.saw = {} =>
                     Apart([x EXCEPT !.at = "insert", !.cleared = x.saw \intersect d.flagged], y)
<1> DEFINE z == [x EXCEPT !.at = "insert", !.cleared = x.saw \intersect d.flagged]
<1>0. Form(x) /\ Adds(d, x) /\ Marks(d, x) /\ Imports(d, x) /\ Refreshes(x) /\ Current(d, x)
    BY DEF Sane
<1>1. /\ DOMAIN z = DOMAIN Idle /\ z.at = "insert" /\ z.saw = x.saw /\ z.kind = x.kind
      /\ z.rel = x.rel /\ z.cleared = x.saw \intersect d.flagged
      /\ z.ins = x.ins /\ z.marks = x.marks
      /\ z.opens = x.opens /\ z.closes = x.closes /\ z.facts = x.facts /\ z.todo = x.todo
      /\ z.restates = x.restates /\ z.confirms = x.confirms
      /\ z.rows = x.rows /\ z.late = x.late
    BY <1>0, IdleIs DEF Form
<1> HIDE DEF z
<1>2. /\ ~Writing(x) /\ ~Writing(z) /\ FlagOf(z) = FlagOf(x) /\ Publishes(z) = Publishes(x)
      /\ x.kind = "latest" /\ x.marks = {}
    BY <1>0, <1>1 DEF Writing, FlagOf, Publishes, Form
<1>3. Form(z)
    BY <1>0, <1>1, <1>2 DEF Form, Publishes
<1>4. Adds(d, z) /\ Imports(d, z)
    BY <1>0, <1>1, <1>2 DEF Adds, Imports
<1>5. Marks(d, z)
    BY <1>0, <1>1, <1>2 DEF Marks
<1>6. Refreshes(z) /\ Current(d, z)
    BY <1>0, <1>1, <1>2 DEF Refreshes, Current, Form
<1>7. \A y : Apart(x, y) /\ y.cleared \intersect x.saw = {} => Apart(z, y)
    BY <1>1, <1>2 DEF Apart
<1>8. Sane(d, z)
    BY <1>3, <1>4, <1>5, <1>6 DEF Sane
<1> QED
    BY <1>7, <1>8 DEF z
\* The flags that are there and those of some lines clash nowhere.
LEMMA ClashIs ==
    ASSUME NEW d, NEW lines, NoClash(d, lines)
    PROVE  Unique(d.flagged \union MarksOf(lines))
BY DEF NoClash, Unique, PlaceOf

LEMMA MarksOfIs ==
    ASSUME NEW lines
    PROVE  \A m : m \in MarksOf(lines) <=> \E l \in lines : \E p \in l.flags : m = <<l.id, p>>
BY DEF MarksOf

\* What some marks and those of a unit are for is apart.
Clear(marks, y) == \A m \in marks : \A n \in y.marks : PlaceOf(m) # PlaceOf(n)

\* A release that is published here is in no file, and published by one unit at a time.
LEMMA InNoOther ==
    ASSUME NEW d, NEW y, Form(y), Adds(d, y), NEW r \in Collected, Publishes(y) => y.rel # r
    PROVE  r \notin y.ins
BY DEF Form, Adds

MarkOf(x) == IF x.kind = "latest" THEN {FlagOf(x)} ELSE {}
Inserted(x) == [x EXCEPT !.at = "refresh", !.ins = {x.rel}, !.marks = MarkOf(x),
                         !.todo = {ProductOf(x.rel)}]

LEMMA InsertedSane ==
    ASSUME NEW d, NEW x, Tables(d), Sane(d, x), x.at = "insert", Publishes(x),
           Unique((d.flagged \ x.cleared) \union MarkOf(x))
    PROVE  /\ Sane(d, Inserted(x))
           /\ \A y : Apart(x, y) /\ Clear(MarkOf(x), y) /\ Form(y) /\ Adds(d, y) => Apart(Inserted(x), y)
<1> DEFINE z == Inserted(x)
           marks == MarkOf(x)
<1>0. Form(x) /\ Adds(d, x) /\ Marks(d, x) /\ Imports(d, x) /\ Refreshes(x) /\ Current(d, x)
    BY DEF Sane
<1>1. /\ DOMAIN z = DOMAIN Idle /\ z.at = "refresh" /\ z.saw = x.saw /\ z.kind = x.kind
      /\ z.rel = x.rel /\ z.cleared = x.cleared
      /\ z.ins = {x.rel} /\ z.marks = marks /\ z.todo = {ProductOf(x.rel)}
      /\ z.opens = x.opens /\ z.closes = x.closes /\ z.facts = x.facts
      /\ z.restates = x.restates /\ z.confirms = x.confirms
      /\ z.rows = x.rows /\ z.late = x.late
    BY <1>0, IdleIs DEF Form, Inserted
<1>1a. marks = IF x.kind = "latest" THEN {FlagOf(x)} ELSE {}
    BY DEF MarkOf
<1> HIDE DEF z, marks
<1>2. /\ ~Writing(x) /\ Writing(z) /\ FlagOf(z) = FlagOf(x) /\ Publishes(z)
      /\ x.kind \in {"latest", "release"}
    BY <1>1 DEF Writing, FlagOf, Publishes
<1>3. x.rel \in Collected /\ x.rel \notin d.releases
    BY <1>0 DEF Adds
<1>4. Known(x.rel) /\ Fact[x.rel].products = {ProductOf(x.rel)}
    BY <1>3, CollectedKnown
<1>5. ProductOf(x.rel) \in Products
    BY <1>4 DEF Known, Products
<1>6. Form(z)
    BY <1>0, <1>1, <1>2, <1>5 DEF Form
<1>7. Adds(d, z) /\ Imports(d, z)
    BY <1>0, <1>1, <1>2, <1>3, <1>4 DEF Adds, Imports
<1>8. Marks(d, z)
    <2>1. \A m \in marks : Flags(m, z.ins) /\ m = FlagOf(x)
        BY <1>1, <1>4, <1>1a DEF Flags, FlagOf
    <2>2. Unique(marks)
        BY <2>1 DEF Unique
    <2>3. ASSUME NEW m \in marks, NEW n \in d.flagged, PlaceOf(m) = PlaceOf(n)
          PROVE  n \in x.cleared
        <3>1. SUFFICES ASSUME n \notin x.cleared PROVE FALSE
            OBVIOUS
        <3>2. m = n
            BY <2>3, <3>1 DEF Unique, marks
        <3>3. Flags(n, d.releases)
            BY DEF Tables
        <3> QED
            BY <1>3, <2>1, <3>2, <3>3 DEF Flags, FlagOf
    <2> QED
        BY <1>0, <1>1, <1>2, <1>1a, <2>1, <2>2, <2>3 DEF Marks
<1>9. Changed(z) \subseteq {ProductOf(x.rel)}
    <2>1. z.opens = {} /\ z.closes = {}
        BY <1>0, <1>1, <1>2 DEF Form
    <2>2. \A p \in Changed(z) : \E r \in z.ins : p \in Fact[r].products
        BY <2>1, ChangedIs
    <2> QED
        BY <1>1, <1>4, <2>2
<1>10. Refreshes(z) /\ Current(d, z)
    BY <1>0, <1>1, <1>2, <1>9 DEF Refreshes, Current, Form
<1>11. ASSUME NEW y, Apart(x, y), Clear(marks, y), Form(y), Adds(d, y) PROVE Apart(z, y)
    <2>1. x.rel \notin y.ins
        BY <1>2, <1>3, <1>11, InNoOther DEF Apart, Publishes
    <2> QED
        BY <1>1, <1>2, <1>11, <2>1 DEF Apart, Publishes, Clear
<1>12. Sane(d, z)
    BY <1>6, <1>7, <1>8, <1>10 DEF Sane
<1> QED
    BY <1>11, <1>12 DEF z, marks

Loaded(x, new) == [x EXCEPT !.ins = {l.id : l \in new}, !.marks = MarksOf(new),
                             !.todo = Touched(new),
                             !.at = IF new = {} THEN "commit" ELSE "refresh"]

LEMMA LoadedSane ==
    ASSUME NEW d, NEW x, Tables(d), Sane(d, x), x.at = "insert", x.kind = "import",
           Loads(d, x.facts), NEW new, new = Missing(d, x.facts)
    PROVE  /\ Sane(d, Loaded(x, new))
           /\ \A y : Apart(x, y) /\ Clear(MarksOf(new), y) /\ Ids(new) \intersect y.ins = {}
                        => Apart(Loaded(x, new), y)
<1> DEFINE z == Loaded(x, new)
           marks == MarksOf(new)
           ids == {l.id : l \in new}
           todo == Touched(new)
<1>0. Form(x) /\ Adds(d, x) /\ Marks(d, x) /\ Imports(d, x) /\ Refreshes(x) /\ Current(d, x)
    BY DEF Sane
<1>1. /\ DOMAIN z = DOMAIN Idle /\ z.at = (IF new = {} THEN "commit" ELSE "refresh")
      /\ z.saw = x.saw /\ z.kind = x.kind
      /\ z.rel = x.rel /\ z.cleared = x.cleared
      /\ z.ins = ids /\ z.marks = marks /\ z.todo = todo
      /\ z.opens = x.opens /\ z.closes = x.closes /\ z.facts = x.facts
      /\ z.restates = x.restates /\ z.confirms = x.confirms
      /\ z.rows = x.rows /\ z.late = x.late
    BY <1>0, IdleIs DEF Form, Loaded
<1> HIDE DEF z
<1>2. /\ ~Writing(x) /\ Writing(z) /\ FlagOf(z) = FlagOf(x) /\ ~Publishes(x) /\ ~Publishes(z)
      /\ x.kind # "latest"
    BY <1>1 DEF Writing, FlagOf, Publishes
<1>3. \A l \in new : l \in x.facts /\ l.id \notin d.releases
    BY DEF Missing
<1>4. \A l \in x.facts : /\ Known(l.id) /\ l.flags \subseteq Fact[l.id].products
                         /\ l.id \in Collected => l.id \in d.releases
    BY <1>0 DEF Imports, Lines, Loads, ValidLine, SlugsKnown, Known
<1>5. \A r \in ids : Known(r) /\ r \notin d.releases /\ r \notin Collected
    BY <1>3, <1>4
<1>6. \A p : p \in todo <=> \E l \in new : p \in Fact[l.id].products
    BY DEF Touched
<1>7. todo \subseteq Products
    BY <1>3, <1>4, <1>6 DEF Known, Products
<1>8. \A m \in marks : Flags(m, ids)
    <2> SUFFICES ASSUME NEW m \in marks PROVE Flags(m, ids)
        OBVIOUS
    <2>1. PICK l \in new : \E p \in l.flags : m = <<l.id, p>>
        BY MarksOfIs
    <2>2. l.id \in ids /\ l.flags \subseteq Fact[l.id].products
        BY <1>3, <1>4
    <2> QED
        BY <2>1, <2>2 DEF Flags
<1>9. Unique(d.flagged \union marks)
    BY ClashIs DEF Loads
<1>10. ASSUME NEW m \in marks, NEW n \in d.flagged, PlaceOf(m) = PlaceOf(n) PROVE FALSE
    <2>1. m = n /\ Flags(m, ids) /\ Flags(n, d.releases)
        BY <1>8, <1>9, <1>10 DEF Unique, Tables
    <2>2. m[1] \in ids /\ m[1] \in d.releases
        BY <2>1 DEF Flags
    <2> QED
        BY <1>5, <2>2
<1>11. \A p : (\E r \in ids : p \in Fact[r].products) => p \in todo
    BY <1>6
<1>12. Ids(x.facts) \subseteq d.releases \union ids /\ ids \subseteq Ids(x.facts)
    BY DEF Missing, Ids
<1>13. new = {} => todo = {}
    BY <1>6
<1>13a. Ids(new) = ids
    BY DEF Ids
<1> HIDE DEF marks, ids, todo
<1>14. Form(z)
    BY <1>0, <1>1, <1>2, <1>7 DEF Form
<1>15. Adds(d, z) /\ Imports(d, z)
    BY <1>0, <1>1, <1>2, <1>5, <1>12 DEF Adds, Imports
<1>16. Marks(d, z)
    <2>1. Unique(marks)
        BY <1>9 DEF Unique
    <2>2. z.kind # "latest" /\ z.cleared \subseteq d.flagged
        BY <1>0, <1>1, <1>2 DEF Marks
    <2>3. \A n \in z.cleared \union z.saw : PlaceOf(n) = PlaceOf(FlagOf(z))
        BY <1>0, <1>1, <1>2 DEF Marks
    <2> QED
        BY <1>1, <1>8, <1>10, <2>1, <2>2, <2>3 DEF Marks
<1>17. Changed(z) \subseteq todo
    <2>1. z.opens = {} /\ z.closes = {}
        BY <1>0, <1>1, <1>2 DEF Form
    <2>2. \A p \in Changed(z) : \E r \in z.ins : p \in Fact[r].products
        BY <2>1, ChangedIs
    <2> QED
        BY <1>1, <1>11, <2>2
<1>18. Refreshes(z) /\ Current(d, z)
    <2>1. DOMAIN z.rows = {} /\ z.at # "write"
        BY <1>0, <1>1, <1>2 DEF Form
    <2>2. Current(d, z)
        BY <2>1 DEF Current
    <2>3. z.at \in {"touch", "commit"} => z.todo = {}
        BY <1>1, <1>13
    <2> QED
        BY <1>1, <1>17, <2>2, <2>3 DEF Refreshes
<1>19. \A y : Apart(x, y) /\ Clear(marks, y) /\ Ids(new) \intersect y.ins = {} => Apart(z, y)
    BY <1>1, <1>2, <1>13a DEF Apart, Clear
<1>20. Sane(d, z)
    BY <1>14, <1>15, <1>16, <1>18 DEF Sane
<1> QED
    BY <1>19, <1>20 DEF z, marks

Reading(d, x, p) == [x EXCEPT !.at = "write",
                                !.read = [product |-> p, row |-> SummaryRow(After(d, x), p)]]

LEMMA ReadSane ==
    ASSUME NEW d, NEW x, Sane(d, x), x.at = "refresh", NEW p \in x.todo
    PROVE  /\ Sane(d, Reading(d, x, p))
           /\ \A y : Apart(x, y) => Apart(Reading(d, x, p), y)
<1> DEFINE z == Reading(d, x, p)
<1>0. Form(x) /\ Adds(d, x) /\ Marks(d, x) /\ Imports(d, x) /\ Refreshes(x) /\ Current(d, x)
    BY DEF Sane
<1>1. /\ DOMAIN z = DOMAIN Idle /\ z.at = "write" /\ z.todo = x.todo
      /\ z.read.product = p /\ z.read.row = SummaryRow(After(d, x), p)
      /\ z.rows = x.rows /\ z.late = x.late /\ Writes(x, z)
    BY <1>0, IdleIs DEF Form, Writes, Reading
<1> HIDE DEF z
<1>2. Writing(x) /\ Writing(z)
    BY <1>1 DEF Writing
<1>3. /\ Adds(d, z) /\ Marks(d, z) /\ Imports(d, z)
      /\ After(d, z) = After(d, x) /\ Changed(z) = Changed(x) /\ Outdated(z) = Outdated(x)
      /\ \A y : Apart(x, y) => Apart(z, y)
    BY <1>0, <1>1, <1>2, WritesSame
<1>4. Form(z)
    BY <1>0, <1>1, <1>2 DEF Form, Writes, Publishes
<1>5. Refreshes(z)
    BY <1>0, <1>1, <1>2, <1>3 DEF Refreshes
<1>6. Current(d, z)
    BY <1>0, <1>1, <1>3 DEF Current, Says
<1>7. Sane(d, z)
    BY <1>3, <1>4, <1>5, <1>6 DEF Sane
<1> QED
    BY <1>3, <1>7 DEF z

LEMMA WroteSane ==
    ASSUME NEW d, NEW x, Sane(d, x), x.at = "write", NEW p, p = x.read.product,
           NEW z, DOMAIN z = DOMAIN Idle, Writes(x, z),
           (z.at \in {"touch", "commit"} /\ x.todo = {p}) \/ z.at = "refresh",
           z.todo = x.todo \ {p}, z.late = x.late,
           DOMAIN z.rows = DOMAIN x.rows \union {p}, z.rows[p] = x.read.row,
           \A q \in DOMAIN x.rows \ {p} : z.rows[q] = x.rows[q]
    PROVE  Sane(d, z) /\ \A y : Apart(x, y) => Apart(z, y)
<1>1. Form(x) /\ Adds(d, x) /\ Marks(d, x) /\ Imports(d, x) /\ Refreshes(x) /\ Current(d, x)
    BY DEF Sane
<1>2. Writing(x) /\ Writing(z)
    BY DEF Writing
<1>3. /\ Adds(d, z) /\ Marks(d, z) /\ Imports(d, z)
      /\ After(d, z) = After(d, x) /\ Changed(z) = Changed(x) /\ Outdated(z) = Outdated(x)
      /\ \A y : Apart(x, y) => Apart(z, y)
    BY <1>1, <1>2, WritesSame
<1>4. Form(z)
    BY <1>1, <1>2 DEF Form, Writes, Publishes
<1>5. Refreshes(z)
    BY <1>1, <1>2, <1>3 DEF Refreshes
<1>6. Current(d, z)
    BY <1>1, <1>3 DEF Current, Says
<1> QED
    BY <1>1, <1>3, <1>4, <1>5, <1>6 DEF Sane

Written(x, p) == [x EXCEPT !.rows = Over([q \in {p} |-> x.read.row], x.rows),
                           !.todo = x.todo \ {p}, !.read = None,
                           !.at = IF x.todo = {p} THEN Unrefreshed(x.dup) ELSE "refresh"]

LEMMA WriteSane ==
    ASSUME NEW d, NEW x, Sane(d, x), x.at = "write"
    PROVE  /\ Sane(d, Written(x, x.read.product))
           /\ \A y : Apart(x, y) => Apart(Written(x, x.read.product), y)
<1>0. PICK p : p = x.read.product
    OBVIOUS
<1> DEFINE z == Written(x, p)
           rows == Over([q \in {p} |-> x.read.row], x.rows)
<1>1. Form(x)
    BY DEF Sane
<1>2. /\ DOMAIN z = DOMAIN Idle
      /\ (z.at \in {"touch", "commit"} /\ x.todo = {p}) \/ z.at = "refresh"
      /\ z.todo = x.todo \ {p} /\ z.rows = rows /\ z.late = x.late /\ Writes(x, z)
    BY <1>1, IdleIs DEF Form, Writes, Written, Unrefreshed
<1>3. /\ DOMAIN rows = DOMAIN x.rows \union {p}
      /\ rows[p] = x.read.row
      /\ \A q \in DOMAIN x.rows \ {p} : rows[q] = x.rows[q]
    BY DEF Over
<1> HIDE DEF rows, z
<1>4. Sane(d, z) /\ \A y : Apart(x, y) => Apart(z, y)
    BY <1>0, <1>2, <1>3, WroteSane
<1> QED
    BY <1>0, <1>4 DEF z

Touching(x) == [x EXCEPT !.at = "commit", !.confirms = {x.dup}]

LEMMA TouchSane ==
    ASSUME NEW d, NEW x, Tables(d), Sane(d, x), x.at = "touch"
    PROVE  Sane(d, Touching(x)) /\ \A y : Apart(x, y) => Apart(Touching(x), y)
<1> DEFINE z == Touching(x)
           e == After(d, x)
           f == After(d, z)
<1>0. Form(x) /\ Adds(d, x) /\ Marks(d, x) /\ Imports(d, x) /\ Refreshes(x) /\ Current(d, x)
    BY DEF Sane
<1>1. /\ DOMAIN z = DOMAIN Idle /\ z.at = "commit" /\ z.saw = x.saw /\ z.kind = x.kind
      /\ z.rel = x.rel /\ z.cleared = x.cleared /\ z.ins = x.ins /\ z.marks = x.marks
      /\ z.opens = x.opens /\ z.closes = x.closes /\ z.restates = x.restates
      /\ z.confirms = {x.dup} /\ z.time = x.time /\ z.facts = x.facts /\ z.todo = x.todo
      /\ z.rows = x.rows /\ z.late = x.late
    BY <1>0, IdleIs DEF Form, Touching
<1> HIDE DEF z
<1>2. Writing(x) /\ Writing(z) /\ x.confirms = {} /\ Publishes(z) = Publishes(x) /\ FlagOf(z) = FlagOf(x)
    BY <1>0, <1>1 DEF Writing, Form, Publishes, FlagOf
<1>3. /\ e.releases = d.releases \union x.ins
      /\ e.flagged = (d.flagged \ x.cleared) \union x.marks
      /\ e.disputed = (d.disputed \union x.opens) \ x.closes
      /\ e.withdrawn = d.withdrawn
    BY AfterIs DEF Tables
<1>3a. /\ \A r \in Rels : e.verified[r] = IF r \in x.confirms THEN x.time ELSE d.verified[r]
       /\ \A p \in Products : e.claims[p] =
            IF p \in x.opens \union x.restates THEN x.time ELSE d.claims[p]
    BY AfterShows DEF Tables, Shaped
<1>4. /\ f.releases = d.releases \union z.ins
      /\ f.flagged = (d.flagged \ z.cleared) \union z.marks
      /\ f.disputed = (d.disputed \union z.opens) \ z.closes
      /\ f.withdrawn = d.withdrawn
    BY AfterIs DEF Tables
<1>4a. /\ \A r \in Rels : f.verified[r] = IF r \in z.confirms THEN z.time ELSE d.verified[r]
       /\ \A p \in Products : f.claims[p] =
            IF p \in z.opens \union z.restates THEN z.time ELSE d.claims[p]
    BY AfterShows DEF Tables, Shaped
<1> HIDE DEF e, f
<1>5. Form(z) /\ Adds(d, z) /\ Imports(d, z)
    BY <1>0, <1>1, <1>2 DEF Form, Publishes, Adds, Imports
<1>6. Marks(d, z)
    BY <1>0, <1>1, <1>2 DEF Marks
<1>7. Changed(z) = Changed(x) /\ Refreshes(z)
    <2>1. Changed(z) = Changed(x)
        BY <1>1 DEF Changed
    <2> QED
        BY <1>0, <1>1, <1>2, <2>1 DEF Refreshes
<1>8. ASSUME NEW p \in DOMAIN x.rows, NEW c \in Columns, <<p, c>> \notin z.late \union Outdated(z)
      PROVE  x.rows[p][c] = SummaryRow(f, p)[c]
    <2>1. p \in Products
        BY <1>0 DEF Form
    <2>2. <<p, c>> \notin x.late \union Outdated(x)
        BY <1>1, <1>2, <1>8 DEF Outdated
    <2>3. Mapped(e, p) = Mapped(f, p)
        BY <1>1, <1>3, <1>4 DEF Mapped
    <2>4. ASSUME c = "verified", NEW r \in Mapped(e, p) PROVE e.verified[r] = f.verified[r]
        <3>1. r \in Rels /\ p \in Fact[r].products
            BY <1>0, <1>3 DEF Mapped, Tables, Adds, Known
        <3>2. r \notin z.confirms
            BY <1>8, <2>1, <2>4, <3>1, OutdatedIs
        <3> QED
            BY <1>2, <1>3a, <1>4a, <3>1, <3>2
    <2>5. e.claims[p] = f.claims[p]
        BY <1>1, <1>3a, <1>4a, <2>1
    <2>6. \A r \in Mapped(e, p) : /\ <<r, p>> \in e.flagged <=> <<r, p>> \in f.flagged
                                  /\ r \in e.withdrawn <=> r \in f.withdrawn
        BY <1>1, <1>3, <1>4
    <2>7. p \in e.disputed <=> p \in f.disputed
        BY <1>1, <1>3, <1>4
    <2>8. SummaryRow(e, p)[c] = SummaryRow(f, p)[c]
        BY <2>3, <2>4, <2>5, <2>6, <2>7, SameRow
    <2>9. x.rows[p][c] = SummaryRow(e, p)[c]
        BY <1>0, <2>2 DEF Current, Says, e
    <2> QED
        BY <2>8, <2>9
<1>9. Current(d, z)
    BY <1>1, <1>8 DEF Current, Says, f
<1>10. \A y : Apart(x, y) => Apart(z, y)
    BY <1>1, <1>2 DEF Apart
<1>11. Sane(d, z)
    BY <1>5, <1>6, <1>7, <1>9 DEF Sane
<1> QED
    BY <1>10, <1>11 DEF z

\* A page that is computed goes stale when something that changes it is committed.
ReadBy(y) == DOMAIN y.rows \union (IF y.at = "write" THEN {y.read.product} ELSE {})
Late(y, pairs) == [y EXCEPT !.late = @ \union ((ReadBy(y) \X Columns) \intersect pairs)]
EveryColumn(products) == products \X Columns

LEMMA LateIs ==
    ASSUME NEW y, Form(y), NEW s
    PROVE  /\ DOMAIN Late(y, s) = DOMAIN Idle /\ Writes(y, Late(y, s))
           /\ Late(y, s).at = y.at /\ Late(y, s).todo = y.todo /\ Late(y, s).rows = y.rows
           /\ Late(y, s).read = y.read
           /\ Late(y, s).late = y.late \union ((ReadBy(y) \X Columns) \intersect s)
BY IdleIs DEF Form, Writes, Late

LEMMA LateForm ==
    ASSUME NEW y, NEW s, Form(y), Refreshes(y)
    PROVE  Form(Late(y, s)) /\ Refreshes(Late(y, s)) /\ (Writing(Late(y, s)) <=> Writing(y))
<1> DEFINE z == Late(y, s)
<1>1. /\ DOMAIN z = DOMAIN Idle /\ Writes(y, z)
      /\ z.at = y.at /\ z.todo = y.todo /\ z.rows = y.rows /\ z.read = y.read
    BY LateIs
<1> HIDE DEF z
<1>2. Writing(z) <=> Writing(y)
    BY <1>1 DEF Writing
<1>3. Form(z)
    BY <1>1, <1>2 DEF Form, Writes, Publishes
<1>4. Changed(z) = Changed(y)
    BY <1>1, Zenon DEF Writes, Changed
<1>5. Refreshes(z)
    BY <1>1, <1>2, <1>4 DEF Refreshes
<1> QED
    BY <1>2, <1>3, <1>5 DEF z

\* What a unit that commits changes in the pages, and what of it those before it have read.
Stale(x) == EveryColumn(Changed(x)) \union Outdated(x)

LEMMA SaysAfter ==
    ASSUME NEW d, NEW e, NEW y, NEW z, NEW s, NEW p \in ReadBy(y), NEW row, Says(d, y, p, row),
           z.late = y.late \union ((ReadBy(y) \X Columns) \intersect s), Outdated(z) = Outdated(y),
           \A c \in Columns : <<p, c>> \notin s
               => SummaryRow(After(e, z), p)[c] = SummaryRow(After(d, y), p)[c]
    PROVE  Says(e, z, p, row)
<1> SUFFICES ASSUME NEW c \in Columns, <<p, c>> \notin z.late \union Outdated(z)
             PROVE  row[c] = SummaryRow(After(e, z), p)[c]
    BY DEF Says
<1>1. <<p, c>> \in ReadBy(y) \X Columns
    OBVIOUS
<1>2. <<p, c>> \notin y.late \union Outdated(y) /\ <<p, c>> \notin s
    BY <1>1
<1> QED
    BY <1>2 DEF Says

\* A unit that commits leaves the others as they are, but for what they have read.
LEMMA CommittedSane ==
    ASSUME NEW d, NEW x, NEW y, Tables(d), Sane(d, x), Sane(d, y), Apart(x, y), Apart(y, x),
           Writing(x)
    PROVE  Sane(After(d, x), Late(y, Stale(x)))
<1> DEFINE e == After(d, x)
           z == Late(y, Stale(x))
<1>1. /\ Form(x) /\ Adds(d, x) /\ Marks(d, x)
      /\ Form(y) /\ Adds(d, y) /\ Marks(d, y) /\ Imports(d, y) /\ Refreshes(y) /\ Current(d, y)
    BY DEF Sane
<1>2. /\ e.releases = d.releases \union x.ins
      /\ e.flagged = (d.flagged \ x.cleared) \union x.marks
    BY AfterIs DEF Tables
<1>3. /\ Writes(y, z) /\ z.at = y.at /\ z.rows = y.rows /\ z.read = y.read
      /\ z.late = y.late \union ((ReadBy(y) \X Columns) \intersect Stale(x))
      /\ Form(z) /\ Refreshes(z) /\ (Writing(z) <=> Writing(y))
    BY <1>1, LateIs, LateForm
<1>4. ASSUME NEW p \in Products, NEW c \in Columns, <<p, c>> \notin Stale(x)
      PROVE  SummaryRow(After(e, y), p)[c] = SummaryRow(After(d, y), p)[c]
    <2>1. p \notin Changed(x) /\ <<p, c>> \notin Outdated(x)
        BY <1>4 DEF Stale, EveryColumn
    <2> QED
        BY <1>1, <2>1, RowBehind
<1> HIDE DEF e, z
<1>5. Adds(e, y)
    <2>1. y.ins \intersect x.ins = {}
        BY DEF Apart
    <2>2. ASSUME Publishes(y) PROVE y.rel \notin x.ins
        <3>1. CASE Publishes(x)
            BY <1>1, <2>2, <3>1 DEF Adds, Apart
        <3>2. CASE ~Publishes(x)
            BY <1>1, <2>2, <3>2 DEF Adds, Form
        <3> QED
            BY <3>1, <3>2
    <2> QED
        BY <1>1, <1>2, <2>1, <2>2 DEF Adds
<1>6. Marks(e, y)
    BY <1>1, <1>2 DEF Marks, Apart
<1>7. Imports(e, y)
    BY <1>1, <1>2 DEF Imports, Lines
<1>8. /\ Adds(e, z) /\ Marks(e, z) /\ Imports(e, z) /\ After(e, z) = After(e, y)
      /\ Outdated(z) = Outdated(y)
    BY <1>3, <1>5, <1>6, <1>7, WritesSame
<1>9. Current(e, z)
    <2>1. ASSUME NEW p \in ReadBy(y), NEW row, Says(d, y, p, row) PROVE Says(e, z, p, row)
        <3>1. p \in Products
            BY <1>1, <2>1 DEF Form, ReadBy
        <3>2. \A c \in Columns : <<p, c>> \notin Stale(x)
                => SummaryRow(After(e, z), p)[c] = SummaryRow(After(d, y), p)[c]
            BY <1>4, <1>8, <3>1
        <3> QED
            BY <1>3, <1>8, <2>1, <3>2, SaysAfter
    <2> QED
        BY <1>1, <1>3, <2>1 DEF Current, ReadBy
<1>10. Sane(e, z)
    BY <1>3, <1>8, <1>9 DEF Sane
<1> QED
    BY <1>10 DEF e, z

\* A release withdrawn by hand.
Without(d, r) == [d EXCEPT !.withdrawn = @ \union {r}]

LEMMA WithoutIs ==
    ASSUME NEW d, DOMAIN d = DOMAIN Empty, NEW r
    PROVE  /\ DOMAIN Without(d, r) = DOMAIN Empty
           /\ Without(d, r).releases = d.releases /\ Without(d, r).flagged = d.flagged
           /\ Without(d, r).disputed = d.disputed
           /\ Without(d, r).withdrawn = d.withdrawn \union {r}
           /\ Without(d, r).verified = d.verified /\ Without(d, r).claims = d.claims
BY DEF Without, Empty

LEMMA RowWithout ==
    ASSUME NEW d, NEW y, Tables(d), Adds(d, y), NEW r, NEW p \in Products,
           p \notin Fact[r].products, NEW c \in Columns
    PROVE  /\ SummaryRow(After(Without(d, r), y), p)[c] = SummaryRow(After(d, y), p)[c]
           /\ SummaryRow(Without(d, r), p)[c] = SummaryRow(d, p)[c]
           /\ Mapped(Without(d, r), p) = Mapped(d, p)
<1> DEFINE e == Without(d, r)
           f == After(e, y)
           g == After(d, y)
<1>1. DOMAIN d = DOMAIN Empty /\ DOMAIN e = DOMAIN Empty
    BY WithoutIs DEF Tables
<1>2. /\ e.releases = d.releases /\ e.flagged = d.flagged
      /\ e.disputed = d.disputed /\ e.withdrawn = d.withdrawn \union {r}
      /\ e.verified = d.verified /\ e.claims = d.claims
    BY <1>1, WithoutIs
<1>3. /\ f.releases = e.releases \union y.ins
      /\ f.flagged = (e.flagged \ y.cleared) \union y.marks
      /\ f.disputed = (e.disputed \union y.opens) \ y.closes
      /\ f.withdrawn = e.withdrawn
    BY <1>1, AfterIs
<1>4. /\ g.releases = d.releases \union y.ins
      /\ g.flagged = (d.flagged \ y.cleared) \union y.marks
      /\ g.disputed = (d.disputed \union y.opens) \ y.closes
      /\ g.withdrawn = d.withdrawn
    BY <1>1, AfterIs
<1>1a. Shaped(d) /\ Shaped(e)
    BY <1>1 DEF Shaped
<1>0. f = After(e, y) /\ g = After(d, y)
    OBVIOUS
<1> HIDE DEF e, f, g
<1>3a. /\ \A s \in Rels : f.verified[s] = IF s \in y.confirms THEN y.time ELSE e.verified[s]
       /\ \A q \in Products : f.claims[q] =
                IF q \in y.opens \union y.restates THEN y.time ELSE e.claims[q]
    BY <1>0, <1>1a, AfterShows
<1>4a. /\ \A s \in Rels : g.verified[s] = IF s \in y.confirms THEN y.time ELSE d.verified[s]
       /\ \A q \in Products : g.claims[q] =
                IF q \in y.opens \union y.restates THEN y.time ELSE d.claims[q]
    BY <1>0, <1>1a, AfterShows
<1>5. Mapped(f, p) = Mapped(g, p) /\ Mapped(e, p) = Mapped(d, p)
    BY <1>2, <1>3, <1>4 DEF Mapped
<1>6. \A s : s \in Mapped(f, p) \/ s \in Mapped(d, p) => s # r
    BY <1>5 DEF Mapped
<1>7. \A s \in Mapped(f, p) : s \in Rels
    BY <1>4, <1>5 DEF Mapped, Tables, Adds, Known
<1>8. /\ \A s \in Mapped(f, p) : f.verified[s] = g.verified[s]
      /\ f.claims[p] = g.claims[p]
    BY <1>2, <1>3a, <1>4a, <1>7
<1>9. \A s \in Mapped(f, p) : /\ <<s, p>> \in f.flagged <=> <<s, p>> \in g.flagged
                              /\ s \in f.withdrawn <=> s \in g.withdrawn
    BY <1>2, <1>3, <1>4, <1>6
<1>10. p \in f.disputed <=> p \in g.disputed
    BY <1>2, <1>3, <1>4
<1>11. SummaryRow(f, p)[c] = SummaryRow(g, p)[c]
    BY <1>5, <1>8, <1>9, <1>10, SameRow
<1>12. SummaryRow(e, p)[c] = SummaryRow(d, p)[c]
    BY <1>2, <1>5, <1>6, SameRow
<1> QED
    BY <1>5, <1>11, <1>12 DEF e, f, g

LEMMA WithdrawnSane ==
    ASSUME NEW d, NEW y, Tables(d), Sane(d, y), NEW r
    PROVE  Sane(Without(d, r), Late(y, EveryColumn(Fact[r].products)))
<1> DEFINE e == Without(d, r)
           z == Late(y, EveryColumn(Fact[r].products))
<1>1. /\ Form(y) /\ Adds(d, y) /\ Marks(d, y) /\ Imports(d, y) /\ Refreshes(y) /\ Current(d, y)
    BY DEF Sane
<1>2. e.releases = d.releases /\ e.flagged = d.flagged
    BY WithoutIs DEF Tables
<1>3. /\ Writes(y, z) /\ z.at = y.at /\ z.rows = y.rows /\ z.read = y.read
      /\ z.late = y.late \union ((ReadBy(y) \X Columns) \intersect EveryColumn(Fact[r].products))
      /\ Form(z) /\ Refreshes(z) /\ (Writing(z) <=> Writing(y))
    BY <1>1, LateIs, LateForm
<1>4. ASSUME NEW p \in Products, NEW c \in Columns, <<p, c>> \notin EveryColumn(Fact[r].products)
      PROVE  SummaryRow(After(e, y), p)[c] = SummaryRow(After(d, y), p)[c]
    <2>1. p \notin Fact[r].products
        BY <1>4 DEF EveryColumn
    <2> QED
        BY <1>1, <2>1, RowWithout
<1> HIDE DEF e, z
<1>5. Adds(e, y) /\ Marks(e, y) /\ Imports(e, y)
    BY <1>1, <1>2 DEF Adds, Marks, Imports, Lines
<1>6. /\ Adds(e, z) /\ Marks(e, z) /\ Imports(e, z) /\ After(e, z) = After(e, y)
      /\ Outdated(z) = Outdated(y)
    BY <1>3, <1>5, WritesSame
<1>7. Current(e, z)
    <2>0. PICK s : s = EveryColumn(Fact[r].products)
        OBVIOUS
    <2>1. ASSUME NEW p \in ReadBy(y), NEW row, Says(d, y, p, row) PROVE Says(e, z, p, row)
        <3>1. p \in Products
            BY <1>1, <2>1 DEF Form, ReadBy
        <3>2. \A c \in Columns : <<p, c>> \notin s
                => SummaryRow(After(e, z), p)[c] = SummaryRow(After(d, y), p)[c]
            BY <1>4, <1>6, <2>0, <3>1
        <3>3. z.late = y.late \union ((ReadBy(y) \X Columns) \intersect s) /\ Outdated(z) = Outdated(y)
            BY <1>3, <1>6, <2>0
        <3> QED
            BY <2>1, <3>2, <3>3, SaysAfter
    <2> QED
        BY <1>1, <1>3, <2>1 DEF Current, ReadBy
<1>8. Sane(e, z)
    BY <1>3, <1>6, <1>7 DEF Sane
<1> QED
    BY <1>8 DEF e, z
-----------------------------------------------------------------------------
(***************************************************************************)
(* The invariant.                                                          *)
(***************************************************************************)

LEMMA ConsistentInit == Init => Consistent
<1> SUFFICES ASSUME Init PROVE Consistent
    OBVIOUS
<1>1. /\ DOMAIN db = DOMAIN Empty /\ db.releases = {} /\ db.flagged = {}
    BY DEF Init, Empty
<1>2. Tables(db)
    BY <1>1 DEF Tables, Unique
<1>3. Fresh(Idle) /\ Idle.kind = "none" /\ Idle.at = "idle"
    BY IdleIs DEF Fresh
<1>4. Sane(db, Idle)
    BY <1>2, <1>3, FreshSane
<1>5. Apart(Idle, Idle)
    BY IdleIs DEF Apart, Publishes
<1>6. unit = [u \in Units |-> Idle]
    BY DEF Init
<1>7. Lines(db, file)
    BY PagesAssumption DEF Init, Lines
<1>8. ExportLines /\ Exported
    BY DEF Init, ExportLines, Exported
<1>9. PageIsCurrent
    <2>1. \A p : Mapped(db, p) = {}
        BY <1>1 DEF Mapped
    <2>2. DOMAIN page = {}
        BY DEF Init
    <2> QED
        BY <2>1, <2>2 DEF PageIsCurrent
<1> QED
    BY <1>2, <1>4, <1>5, <1>6, <1>7, <1>8, <1>9 DEF Consistent

LEMMA ApartSymmetric == ASSUME NEW x, NEW y, Apart(x, y) PROVE Apart(y, x)
BY DEF Apart

\* A step of one unit that commits nothing.
LEMMA OwnStep ==
    ASSUME Consistent, NEW u \in Units, NEW x, Set(u, x),
           UNCHANGED <<db, page, file, export, torn, behind>>,
           Sane(db, x), \A w \in Units \ {u} : Apart(x, unit[w])
    PROVE  Consistent'
<1>1. /\ unit' = [w \in Units |-> unit'[w]]
      /\ unit'[u] = x /\ \A w \in Units \ {u} : unit'[w] = unit[w]
    BY DEF Set, Consistent
<1>2. \A w \in Units : Sane(db, unit'[w])
    BY <1>1 DEF Consistent
<1>3. \A v, w \in Units : v # w => Apart(unit'[v], unit'[w])
    BY <1>1, ApartSymmetric DEF Consistent
<1>4. Tables(db)' /\ Lines(db, file)' /\ ExportLines' /\ Exported'
    BY DEF Consistent, ExportLines, Exported
<1>5. PageIsCurrent'
    BY DEF Consistent, PageIsCurrent
<1>6. (\A w \in Units : Sane(db, unit[w]))'
    BY <1>2
<1> QED
    BY <1>1, <1>3, <1>4, <1>5, <1>6 DEF Consistent

LEMMA Roles ==
    ASSUME Consistent, NEW u \in Units
    PROVE  /\ Sane(db, unit[u]) /\ Form(unit[u])
           /\ \A w \in Units \ {u} : Apart(unit[u], unit[w]) /\ Apart(unit[w], unit[u])
           /\ \A w \in Units \ {u} : w \notin Others(u) => unit[w].kind = "none" /\ ~Writing(unit[w])
BY DEF Consistent, Sane, Form, Others, Open, Writing

LEMMA Rolled ==
    ASSUME Consistent, NEW u \in Units, Roll(u)
    PROVE  Consistent'
<1>1. Fresh(Idle) /\ Idle.kind = "none" /\ Idle.at = "idle"
    BY IdleIs DEF Fresh
<1>2. Sane(db, Idle)
    BY <1>1, FreshSane DEF Consistent
<1>3. \A y : Apart(Idle, y)
    BY IdleIs DEF Apart, Publishes
<1>4. /\ Set(u, Idle) /\ UNCHANGED <<db, page, file, export, torn, behind>>
    BY DEF Roll, Step
<1> QED
    BY <1>2, <1>3, <1>4, OwnStep

LEMMA PublishBegins ==
    ASSUME Consistent, NEW u \in Units, NEW r, BeginPublish(u, r)
    PROVE  Consistent'
<1>1. PICK x : /\ Set(u, x) /\ UNCHANGED <<db, page, file, export, torn, behind>>
               /\ \/ x = [Idle EXCEPT !.kind = "latest", !.rel = r, !.at = "clear"]
                  \/ x = [Idle EXCEPT !.kind = "release", !.rel = r, !.at = "insert"]
    BY DEF BeginPublish, Begin
<1>2. /\ Fresh(x) /\ x.rel = r /\ x.cleared = {} /\ x.marks = {} /\ x.ins = {}
      /\ \/ x.kind = "latest" /\ x.at = "clear"
         \/ x.kind = "release" /\ x.at = "insert"
    BY <1>1, IdleIs DEF Fresh
<1>3. r \in Collected \ db.releases /\ \A w \in Others(u) : unit[w].rel # r
    BY DEF BeginPublish
<1>4. Sane(db, x)
    BY <1>2, <1>3, FreshSane DEF Consistent
<1>5. ASSUME NEW w \in Units \ {u} PROVE Apart(x, unit[w])
    <2>1. Publishes(unit[w]) => unit[w].rel # r
        BY <1>3, Roles DEF Publishes
    <2> QED
        BY <1>2, <2>1 DEF Apart
<1> QED
    BY <1>1, <1>4, <1>5, OwnStep

LEMMA PublishClears ==
    ASSUME Consistent, NEW u \in Units, ClearLatestFlag(u) \/ Cleared(u)
    PROVE  Consistent'
<1>1. CASE ClearLatestFlag(u)
    <2> DEFINE saw == {<<r, Key(u)[1]>> : r \in Flagged(db, Key(u))}
    <2>1. PICK x : /\ x = [unit[u] EXCEPT !.at = "clearing", !.saw = saw] /\ Set(u, x)
                   /\ UNCHANGED <<db, page, file, export, torn, behind>>
        BY <1>1 DEF ClearLatestFlag, Step
    <2>2. Key(u) = PlaceOf(FlagOf(unit[u]))
        BY DEF Key, PlaceOf, FlagOf
    <2>3. ASSUME NEW n \in saw PROVE PlaceOf(n) = PlaceOf(FlagOf(unit[u]))
        <3>1. PICK r \in Flagged(db, Key(u)) : n = <<r, Key(u)[1]>>
            OBVIOUS
        <3>2. PICK p \in Fact[r].products : KeyOf(r, p) = Key(u)
            BY DEF Flagged
        <3>3. Key(u)[1] = p
            BY <3>2 DEF KeyOf
        <3> QED
            BY <2>2, <3>1, <3>2, <3>3 DEF PlaceOf
    <2>4. unit[u].at = "clear" /\ Sane(db, unit[u])
        BY <1>1, Roles DEF ClearLatestFlag, At
    <2> HIDE DEF saw
    <2>5. Sane(db, x) /\ \A y : Apart(unit[u], y) => Apart(x, y)
        BY <2>1, <2>3, <2>4, ClearingSane
    <2> QED
        BY <2>1, <2>5, Roles, OwnStep
<1>2. CASE Cleared(u)
    <2>1. PICK x : /\ x = [unit[u] EXCEPT !.at = "insert", !.cleared = unit[u].saw \intersect db.flagged]
                   /\ Set(u, x) /\ UNCHANGED <<db, page, file, export, torn, behind>>
        BY <1>2 DEF Cleared, Step
    <2>2. unit[u].at = "clearing" /\ Sane(db, unit[u])
        BY <1>2, Roles DEF Cleared, At
    <2>3. \A w \in Units \ {u} : unit[w].cleared \intersect unit[u].saw = {}
        <3> SUFFICES ASSUME NEW w \in Units \ {u}, w \notin Others(u)
                     PROVE  unit[w].cleared = {}
            BY <1>2 DEF Cleared
        <3> QED
            BY Roles DEF Form
    <2>4. /\ Sane(db, x)
          /\ \A y : Apart(unit[u], y) /\ y.cleared \intersect unit[u].saw = {} => Apart(x, y)
        BY <2>1, <2>2, ClearedSane
    <2> QED
        BY <2>1, <2>3, <2>4, Roles, OwnStep
<1> QED
    BY <1>1, <1>2

\* What is inserted clashes with nothing that another unit holds.
LEMMA Uncontended ==
    ASSUME Consistent, NEW u \in Units, NEW marks, ~Contended(u, marks)
    PROVE  \A w \in Units \ {u} : Clear(marks, unit[w])
<1> SUFFICES ASSUME NEW w \in Units \ {u}, NEW m \in marks, NEW n \in unit[w].marks
             PROVE  PlaceOf(m) # PlaceOf(n)
    BY DEF Clear
<1>1. w \in Others(u)
    BY Roles DEF Form
<1> QED
    BY <1>1 DEF Contended, PlaceOf

LEMMA PublishInserts ==
    ASSUME Consistent, NEW u \in Units, Insert(u)
    PROVE  Consistent'
<1> DEFINE x == unit[u]
           lines == {[id |-> x.rel, flags |-> {m[2] : m \in Mark(u)}]}
<1>1. x.at = "insert" /\ Publishes(x) /\ ~Contended(u, Mark(u))
    BY Roles DEF Insert, At, Form
<1>2. Mark(u) = MarkOf(x)
    BY DEF Mark, IsLatest, FlagOf, MarkOf
<1>3. CASE Roll(u)
    BY <1>3, Rolled
<1>4. CASE ~Roll(u)
    <2>1. /\ Set(u, Inserted(x)) /\ UNCHANGED <<db, page, file, export, torn, behind>>
          /\ NoClash(View(u), lines)
        BY <1>2, <1>4 DEF Insert, Step, Inserted
    <2>2. MarksOf(lines) = Mark(u)
        <3>1. \A m \in Mark(u) : m = <<x.rel, m[2]>>
            BY <1>2 DEF FlagOf, MarkOf
        <3>2. PICK l : l \in lines /\ l.id = x.rel /\ l.flags = {m[2] : m \in Mark(u)} /\ lines = {l}
            OBVIOUS
        <3>3. \A m : m \in MarksOf(lines) <=> \E p \in l.flags : m = <<x.rel, p>>
            BY <3>2, MarksOfIs
        <3>4. \A m \in Mark(u) : m \in MarksOf(lines)
            BY <3>1, <3>2, <3>3
        <3>5. \A m \in MarksOf(lines) : m \in Mark(u)
            BY <3>1, <3>2, <3>3
        <3> QED
            BY <3>4, <3>5
    <2>3. View(u).flagged = (db.flagged \ x.cleared) \union x.marks /\ x.marks = {}
        BY <1>1, Roles DEF View, Consistent, Tables, Empty, Form, Writing
    <2> HIDE DEF lines
    <2>4. Unique((db.flagged \ x.cleared) \union Mark(u))
        BY <2>1, <2>2, <2>3, ClashIs
    <2>5. Tables(db) /\ Sane(db, x)
        BY Roles DEF Consistent
    <2> HIDE DEF x
    <2>6. /\ Sane(db, Inserted(x))
          /\ \A y : Apart(x, y) /\ Clear(MarkOf(x), y) /\ Form(y) /\ Adds(db, y)
                    => Apart(Inserted(x), y)
        BY <1>1, <1>2, <2>4, <2>5, InsertedSane
    <2> USE DEF x
    <2>7. \A w \in Units \ {u} : Form(unit[w]) /\ Adds(db, unit[w])
        BY DEF Consistent, Sane
    <2> QED
        BY <1>1, <1>2, <2>1, <2>6, <2>7, Roles, Uncontended, OwnStep
<1> QED
    BY <1>3, <1>4
LEMMA ValidatingIs ==
    ASSUME NEW dup
    PROVE  /\ DOMAIN Validating(dup) = DOMAIN Idle /\ Validating(dup).kind = "validate"
           /\ Validating(dup).rel = None /\ Validating(dup).saw = {} /\ Validating(dup).cleared = {}
           /\ Validating(dup).ins = {} /\ Validating(dup).marks = {} /\ Validating(dup).confirms = {}
           /\ Validating(dup).opens = {} /\ Validating(dup).closes = {} /\ Validating(dup).todo = {}
           /\ DOMAIN Validating(dup).rows = {}
BY IdleIs DEF Validating

LEMMA OthersBegin ==
    ASSUME Consistent, NEW u \in Units,
           (\E p \in Products : (\E dup : Validate(u, p, dup)) \/ SyncSummary(u, p)) \/ Import(u)
    PROVE  Consistent'
<1>1. ASSUME NEW p \in Products, NEW dup, Validate(u, p, dup) \/ SyncSummary(u, p)
      PROVE  Consistent'
    <2>1. PICK x : /\ Set(u, x) /\ UNCHANGED <<db, page, file, export, torn, behind>>
                   /\ \/ x = [Validating(dup) EXCEPT !.at = "refresh", !.todo = {p}, !.opens = {p}]
                      \/ x = [Validating(dup) EXCEPT !.at = "refresh", !.todo = {p}, !.closes = {p}]
                      \/ x = [Validating(dup) EXCEPT !.at = Unrefreshed(dup), !.restates = {p}]
                      \/ x = [Validating(dup) EXCEPT !.at = "touch"]
                      \/ x = [Idle EXCEPT !.kind = "sync", !.at = "refresh", !.todo = {p}]
        BY <1>1 DEF Validate, SyncSummary, Begin
    <2>2. /\ DOMAIN x = DOMAIN Idle /\ x.kind \in {"validate", "sync"}
          /\ x.at \in {"refresh", "touch", "commit"}
          /\ x.rel = None /\ x.saw = {} /\ x.cleared = {} /\ x.ins = {} /\ x.marks = {} /\ x.confirms = {}
          /\ x.opens \subseteq {p} /\ x.closes \subseteq {p} /\ DOMAIN x.rows = {}
          /\ \/ x.at = "refresh" /\ x.todo = {p}
             \/ x.todo = {} /\ x.opens = {} /\ x.closes = {}
        <3>1. CASE x = [Validating(dup) EXCEPT !.at = "refresh", !.todo = {p}, !.opens = {p}]
            BY <3>1, IdleIs, ValidatingIs
        <3>2. CASE x = [Validating(dup) EXCEPT !.at = "refresh", !.todo = {p}, !.closes = {p}]
            BY <3>2, IdleIs, ValidatingIs
        <3>3. CASE x = [Validating(dup) EXCEPT !.at = Unrefreshed(dup), !.restates = {p}]
            BY <3>3, IdleIs, ValidatingIs DEF Unrefreshed
        <3>4. CASE x = [Validating(dup) EXCEPT !.at = "touch"]
            BY <3>4, IdleIs, ValidatingIs
        <3>5. CASE x = [Idle EXCEPT !.kind = "sync", !.at = "refresh", !.todo = {p}]
            BY <3>5, IdleIs
        <3> QED
            BY <2>1, <3>1, <3>2, <3>3, <3>4, <3>5
    <2>3. Sane(db, x)
        BY <2>2, RefreshSane DEF Consistent
    <2>4. \A y : Apart(x, y)
        BY <2>2 DEF Apart, Publishes
    <2> QED
        BY <2>1, <2>3, <2>4, OwnStep
<1>2. CASE Import(u)
    <2>1. PICK x : /\ x = [Idle EXCEPT !.kind = "import", !.at = "insert", !.facts = file]
                   /\ Set(u, x) /\ UNCHANGED <<db, page, file, export, torn, behind>>
        BY <1>2 DEF Import, Begin
    <2>2. /\ Fresh(x) /\ x.kind = "import" /\ x.at = "insert" /\ x.rel = None /\ x.facts = file
          /\ x.cleared = {} /\ x.marks = {} /\ x.ins = {}
        BY <2>1, IdleIs DEF Fresh
    <2>3. Sane(db, x)
        BY <2>2, FreshSane DEF Consistent
    <2>4. \A y : Apart(x, y)
        BY <2>2 DEF Apart, Publishes
    <2> QED
        BY <2>1, <2>3, <2>4, OwnStep
<1> QED
    BY <1>1, <1>2

LEMMA ReleaseIsTouched ==
    ASSUME Consistent, NEW u \in Units, TouchVerified(u)
    PROVE  Consistent'
<1>1. /\ Set(u, Touching(unit[u])) /\ UNCHANGED <<db, page, file, export, torn, behind>>
      /\ unit[u].at = "touch"
    BY DEF TouchVerified, Step, Touching, At
<1>2. Sane(db, Touching(unit[u])) /\ \A y : Apart(unit[u], y) => Apart(Touching(unit[u]), y)
    BY <1>1, Roles, TouchSane DEF Consistent
<1> QED
    BY <1>1, <1>2, Roles, OwnStep

LEMMA ImportLoads ==
    ASSUME Consistent, NEW u \in Units, InsertFacts(u)
    PROVE  Consistent'
<1> DEFINE x == unit[u]
           new == Missing(db, x.facts)
<1>1. x.at = "insert" /\ x.kind = "import" /\ ~Contended(u, MarksOf(new)) /\ ~Awaited(u, new)
    BY DEF InsertFacts, At
<1>2. CASE Roll(u)
    BY <1>2, Rolled
<1>3. CASE ~Roll(u)
    <2>1. /\ Set(u, Loaded(x, new)) /\ UNCHANGED <<db, page, file, export, torn, behind>>
          /\ Loads(db, x.facts)
        BY <1>3 DEF InsertFacts, Step, Loaded
    <2>2. Tables(db) /\ Sane(db, x)
        BY Roles DEF Consistent
    <2>3. /\ Sane(db, Loaded(x, new))
          /\ \A y : Apart(x, y) /\ Clear(MarksOf(new), y) /\ Ids(new) \intersect y.ins = {}
                    => Apart(Loaded(x, new), y)
        BY <1>1, <2>1, <2>2, LoadedSane
    <2>4. ASSUME NEW w \in Units \ {u} PROVE Ids(new) \intersect unit[w].ins = {}
        <3>1. CASE w \in Others(u)
            BY <1>1, <3>1 DEF Awaited, Ids
        <3>2. CASE w \notin Others(u)
            BY <3>2, Roles DEF Form
        <3> QED
            BY <3>1, <3>2
    <2> QED
        BY <1>1, <2>1, <2>3, <2>4, Roles, Uncontended, OwnStep
<1> QED
    BY <1>2, <1>3

LEMMA PageIsRead ==
    ASSUME Consistent, NEW u \in Units, NEW p, ReadSummary(u, p)
    PROVE  Consistent'
<1>1. unit[u].at = "refresh" /\ p \in unit[u].todo /\ View(u) = After(db, unit[u])
    BY DEF ReadSummary, At, View, After
<1>2. /\ Set(u, Reading(db, unit[u], p))
      /\ UNCHANGED <<db, page, file, export, torn, behind>>
    BY <1>1 DEF ReadSummary, Step, Reading
<1>3. Sane(db, Reading(db, unit[u], p)) /\ \A y : Apart(unit[u], y) => Apart(Reading(db, unit[u], p), y)
    BY <1>1, Roles, ReadSane
<1> QED
    BY <1>2, <1>3, Roles, OwnStep

LEMMA PageIsWritten ==
    ASSUME Consistent, NEW u \in Units, WriteSummary(u)
    PROVE  Consistent'
<1> DEFINE z == Written(unit[u], unit[u].read.product)
<1>1. Set(u, z) /\ UNCHANGED <<db, page, file, export, torn, behind>>
    BY DEF WriteSummary, Step, Written
<1>2. unit[u].at = "write" /\ Sane(db, unit[u])
    BY Roles DEF WriteSummary, At
<1>3. Sane(db, z) /\ \A y : Apart(unit[u], y) => Apart(z, y)
    BY <1>2, WriteSane
<1> QED
    BY <1>1, <1>3, Roles, OwnStep

LEMMA CommitStep ==
    ASSUME Consistent, NEW u \in Units, Commit(u)
    PROVE  Consistent'
<1> DEFINE x == unit[u]
<1>1. /\ x.at = "commit" /\ Writing(x) /\ Sane(db, x) /\ Tables(db)
      /\ Form(x) /\ Adds(db, x) /\ Marks(db, x) /\ Refreshes(x) /\ Current(db, x)
    BY Roles DEF Commit, At, Writing, Consistent, Sane
<1>2. db' = After(db, x) /\ page' = Over(x.rows, page)
    BY DEF Commit, CommitRows, View, After
<1>3. /\ Changes(u) = Changed(x) /\ Outdates(u) = Outdated(x)
      /\ \A w : HasRead(w) = ReadBy(unit[w])
    BY DEF Changes, Changed, Outdates, Outdated, HasRead, ReadBy, At
<1>4. /\ unit' = [w \in Units |-> unit'[w]] /\ unit'[u] = Idle
      /\ \A w \in Units \ {u} : unit'[w] = Late(unit[w], Stale(x))
    BY <1>3 DEF Commit, Late, Stale, EveryColumn
<1>5. Tables(After(db, x))
    BY <1>1, AfterTables
<1>6. Sane(After(db, x), Idle)
    <2>1. Fresh(Idle) /\ Idle.kind = "none" /\ Idle.at = "idle"
        BY IdleIs DEF Fresh
    <2> QED
        BY <1>5, <2>1, FreshSane
<1>7. \A w \in Units \ {u} : Sane(After(db, x), Late(unit[w], Stale(x)))
    BY <1>1, Roles, CommittedSane
<1>8. \A v, w \in Units : v # w => Apart(unit'[v], unit'[w])
    <2>1. \A y : Apart(Idle, y) /\ Apart(y, Idle)
        BY IdleIs DEF Apart, Publishes
    <2>2. ASSUME NEW v \in Units \ {u}, NEW w \in Units \ {u}, v # w
          PROVE  Apart(Late(unit[v], Stale(x)), Late(unit[w], Stale(x)))
        <3>1. Apart(unit[v], unit[w])
            BY <2>2 DEF Consistent
        <3>2. /\ Writes(unit[v], Late(unit[v], Stale(x)))
              /\ Writes(unit[w], Late(unit[w], Stale(x)))
            BY Roles, LateIs
        <3> QED
            BY <3>1, <3>2 DEF Apart, Writes, Publishes
    <2> QED
        BY <1>4, <2>1, <2>2
<1>9. DOMAIN db = DOMAIN Empty /\ DOMAIN db' = DOMAIN Empty /\ db'.releases = db.releases \union x.ins
    <2>1. DOMAIN db = DOMAIN Empty
        BY <1>1 DEF Tables
    <2> HIDE DEF x
    <2>2. /\ DOMAIN After(db, x) = DOMAIN Empty
          /\ After(db, x).releases = db.releases \union x.ins
        BY <2>1, AfterIs
    <2> QED
        BY <1>2, <2>1, <2>2
<1>10. Lines(db', file')
    BY <1>9 DEF Commit, Lines, Consistent
<1>11. ExportLines' /\ Exported'
    BY <1>9 DEF Commit, ExportLines, Exported, Consistent
<1>12. PageIsCurrent'
    <2> SUFFICES ASSUME NEW p \in Products
                 PROVE  IF p \in DOMAIN page'
                        THEN \A c \in Columns : <<p, c>> \notin behind' => page'[p][c] = SummaryRow(db', p)[c]
                        ELSE Mapped(db', p) = {}
        BY DEF PageIsCurrent
    <2>1. /\ DOMAIN page' = DOMAIN x.rows \union DOMAIN page
          /\ \A q \in DOMAIN x.rows : page'[q] = x.rows[q]
          /\ \A q \in DOMAIN page \ DOMAIN x.rows : page'[q] = page[q]
        BY <1>2 DEF Over
    <2>2. behind' = (behind \ ((DOMAIN x.rows) \X Columns)) \union x.late \union Outdated(x)
        BY <1>3 DEF Commit
    <2>3. CASE p \in DOMAIN x.rows
        BY <1>1, <1>2, <2>1, <2>2, <2>3 DEF Current, Says
    <2>4. CASE p \notin DOMAIN x.rows
        <3>1. p \notin Changed(x)
            BY <1>1, <2>4 DEF Refreshes
        <3>2. \A c : <<p, c>> \notin behind' => <<p, c>> \notin behind /\ <<p, c>> \notin Outdated(x)
            BY <2>2, <2>4
        <3>3. \A c \in Columns : /\ Mapped(db', p) = Mapped(db, p)
                                 /\ <<p, c>> \notin Outdated(x) => SummaryRow(db', p)[c] = SummaryRow(db, p)[c]
            BY <1>1, <1>2, <3>1, RowElsewhere
        <3>4. Mapped(db', p) = Mapped(db, p)
            BY <3>3 DEF Columns
        <3>5. IF p \in DOMAIN page
              THEN \A c \in Columns : <<p, c>> \notin behind => page[p][c] = SummaryRow(db, p)[c]
              ELSE Mapped(db, p) = {}
            BY DEF Consistent, PageIsCurrent
        <3> QED
            BY <2>1, <2>4, <3>2, <3>3, <3>4, <3>5
    <2> QED
        BY <2>3, <2>4
<1>13. (\A w \in Units : Sane(db, unit[w]))'
    BY <1>2, <1>4, <1>6, <1>7
<1> QED
    BY <1>2, <1>4, <1>5, <1>8, <1>10, <1>11, <1>12, <1>13 DEF Consistent

LEMMA Withdrawn ==
    ASSUME Consistent, NEW r \in Rels, Withdraw(r)
    PROVE  Consistent'
<1>1. Tables(db) /\ DOMAIN db = DOMAIN Empty
    BY DEF Consistent, Tables
<1>2. db' = Without(db, r) /\ page' = page /\ file' = file /\ export' = export
    BY DEF Withdraw, Without
<1>3. \A w : HasRead(w) = ReadBy(unit[w])
    BY DEF HasRead, ReadBy, At
<1>4. unit' = [w \in Units |-> unit'[w]]
      /\ \A w \in Units : unit'[w] = Late(unit[w], EveryColumn(Fact[r].products))
    BY <1>3 DEF Withdraw, Late, EveryColumn
<1>5. /\ db'.releases = db.releases /\ db'.flagged = db.flagged /\ DOMAIN db' = DOMAIN Empty
    BY <1>1, <1>2, WithoutIs
<1>6. Tables(db')
    BY <1>1, <1>5 DEF Tables
<1>7. \A w \in Units : Sane(Without(db, r), Late(unit[w], EveryColumn(Fact[r].products)))
    BY <1>1, Roles, WithdrawnSane
<1>8. ASSUME NEW v \in Units, NEW w \in Units, v # w PROVE Apart(unit'[v], unit'[w])
    <2>1. Apart(unit[v], unit[w])
        BY <1>8 DEF Consistent
    <2>2. /\ Writes(unit[v], Late(unit[v], EveryColumn(Fact[r].products)))
          /\ Writes(unit[w], Late(unit[w], EveryColumn(Fact[r].products)))
        BY Roles, LateIs
    <2> QED
        BY <1>4, <2>1, <2>2 DEF Apart, Writes, Publishes
<1>9. Lines(db', file')
    BY <1>2, <1>5 DEF Lines, Consistent
<1>10. ExportLines' /\ Exported'
    BY <1>2, <1>5 DEF Withdraw, ExportLines, Exported, Consistent
<1>11. PageIsCurrent'
    <2> SUFFICES ASSUME NEW p \in Products
                 PROVE  IF p \in DOMAIN page
                        THEN \A c \in Columns : <<p, c>> \notin behind' => page[p][c] = SummaryRow(db', p)[c]
                        ELSE Mapped(db', p) = {}
        BY <1>2 DEF PageIsCurrent
    <2>1. ASSUME NEW c \in Columns, <<p, c>> \notin behind'
          PROVE  <<p, c>> \notin behind /\ SummaryRow(db', p)[c] = SummaryRow(db, p)[c]
        <3>1. <<p, c>> \notin behind /\ p \notin Fact[r].products
            BY <2>1 DEF Withdraw
        <3>2. Adds(db, Idle)
            BY IdleIs DEF Adds, Publishes
        <3> QED
            BY <1>1, <1>2, <3>1, <3>2, RowWithout
    <2>2. Mapped(db', p) = Mapped(db, p)
        BY <1>5 DEF Mapped
    <2> QED
        BY <2>1, <2>2 DEF Consistent, PageIsCurrent
<1>12. (\A w \in Units : Sane(db, unit[w]))'
    BY <1>2, <1>4, <1>7
<1> QED
    BY <1>4, <1>6, <1>8, <1>9, <1>10, <1>11, <1>12 DEF Consistent

LEMMA FileSteps ==
    ASSUME Consistent, ExportFacts \/ WriteFile
    PROVE  Consistent'
<1>1. UNCHANGED <<db, page, unit, behind>>
    BY DEF ExportFacts, WriteFile
<1>2. Lines(db, file')
    <2>1. CASE ExportFacts
        BY <2>1 DEF ExportFacts, Consistent
    <2>2. CASE WriteFile /\ file' = AttachMappings(export)
        <3> SUFFICES ASSUME NEW l \in file'
                     PROVE  l.id \in db.releases /\ l.flags \subseteq Fact[l.id].products
            BY DEF Consistent, Tables, Known, Lines
        <3>1. PICK k \in export :
                  l = [k EXCEPT !.flags = {p \in Fact[k.id].products : <<k.id, p>> \in db.flagged}]
            BY <2>2 DEF AttachMappings, WithMappings
        <3>2. k.id \in db.releases /\ DOMAIN k = {"id", "withdrawn", "flags"}
            BY <2>2 DEF WriteFile, Consistent, ExportLines
        <3>3. l.id = k.id /\ l.flags = {p \in Fact[k.id].products : <<k.id, p>> \in db.flagged}
            BY <3>1, <3>2
        <3> QED
            BY <3>2, <3>3
    <2>3. CASE WriteFile /\ file' = file
        BY <2>3 DEF Consistent
    <2> QED
        BY <2>1, <2>2, <2>3 DEF WriteFile
<1>3. ExportLines' /\ Exported'
    <2>1. CASE ExportFacts
        BY <1>1, <2>1 DEF ExportFacts, ExportLines, Exported, Line
    <2>2. CASE WriteFile
        BY <2>2 DEF WriteFile, ExportLines, Exported
    <2> QED
        BY <2>1, <2>2
<1> QED
    BY <1>1, <1>2, <1>3 DEF Consistent, PageIsCurrent

LEMMA ConsistentStep == Consistent /\ [Next]_vars => Consistent'
<1> SUFFICES ASSUME Consistent, [Next]_vars PROVE Consistent'
    OBVIOUS
<1>1. CASE UNCHANGED vars
    BY <1>1 DEF vars, Consistent, ExportLines, Exported, PageIsCurrent
<1>2. ASSUME NEW u \in Units, ClearLatestFlag(u) \/ Cleared(u) \/ Insert(u) \/ Import(u)
                              \/ InsertFacts(u) \/ WriteSummary(u) \/ TouchVerified(u) \/ Commit(u)
                              \/ Rollback(u)
      PROVE  Consistent'
    BY <1>2, PublishClears, PublishInserts, OthersBegin, ImportLoads, PageIsWritten, ReleaseIsTouched, CommitStep,
       Rolled DEF Rollback
<1>3. ASSUME NEW u \in Units, NEW p \in Products, NEW dup,
             Validate(u, p, dup) \/ SyncSummary(u, p) \/ ReadSummary(u, p)
      PROVE  Consistent'
    BY <1>3, OthersBegin, PageIsRead
<1>4. ASSUME NEW u \in Units, NEW r \in Rels, BeginPublish(u, r) PROVE Consistent'
    BY <1>4, PublishBegins
<1>5. ASSUME NEW r \in Rels, Withdraw(r) PROVE Consistent'
    BY <1>5, Withdrawn
<1>6. CASE ExportFacts \/ WriteFile
    BY <1>6, FileSteps
<1> QED
    BY <1>1, <1>2, <1>3, <1>4, <1>5, <1>6 DEF Next
-----------------------------------------------------------------------------
(***************************************************************************)
(* What follows.                                                           *)
(***************************************************************************)

\* A page says what the tables say, whatever units overlap, fail or wait for one another, but
\* for what was committed after it had been computed (release_repo.go: RefreshProductSummary
\* in the transactions of db.go, Within).
THEOREM PagesStayCurrent == Spec => []PageIsCurrent
<1>1. Consistent => PageIsCurrent
    BY DEF Consistent
<1> QED
    BY <1>1, ConsistentInit, ConsistentStep, PTL DEF Spec

LEMMA TablesChange ==
    ASSUME [Next]_vars
    PROVE  \/ db' = db
           \/ \E u \in Units : Commit(u)
           \/ \E r \in Rels : Withdraw(r)
<1>1. ASSUME NEW u \in Units, NEW p, NEW dup,
             ReadSummary(u, p) \/ Validate(u, p, dup) \/ SyncSummary(u, p) \/ BeginPublish(u, p)
      PROVE  db' = db
    BY <1>1 DEF ReadSummary, Validate, SyncSummary, BeginPublish, Begin, Step
<1>2. ASSUME NEW u \in Units, ClearLatestFlag(u) \/ Cleared(u) \/ Insert(u) \/ Import(u)
                              \/ InsertFacts(u) \/ WriteSummary(u) \/ TouchVerified(u) \/ Rollback(u)
      PROVE  db' = db
    BY <1>2 DEF TouchVerified, ClearLatestFlag, Cleared, Insert, Import, InsertFacts, WriteSummary, Rollback,
                Roll, Begin, Step
<1>3. CASE ExportFacts \/ WriteFile \/ UNCHANGED vars
    BY <1>3 DEF ExportFacts, WriteFile, vars
<1> QED
    BY <1>1, <1>2, <1>3 DEF Next

LEMMA OneOfAPlace ==
    ASSUME NEW d, Tables(d), NEW k, Flagged(d, k) # {}
    PROVE  Cardinality(Flagged(d, k)) = 1
<1>1. PICK r \in Flagged(d, k) : TRUE
    OBVIOUS
<1>2. PICK p : <<r, p>> \in d.flagged /\ KeyOf(r, p) = k
    BY DEF Flagged
<1>3. ASSUME NEW s \in Flagged(d, k) PROVE s = r
    <2>1. PICK q : <<s, q>> \in d.flagged /\ KeyOf(s, q) = k
        BY DEF Flagged
    <2>2. PlaceOf(<<s, q>>) = PlaceOf(<<r, p>>)
        BY <1>2, <2>1 DEF PlaceOf
    <2>3. <<s, q>> = <<r, p>>
        BY <1>2, <2>1, <2>2 DEF Tables, Unique
    <2> QED
        BY <2>3
<1>4. Flagged(d, k) = {r}
    BY <1>3
<1> QED
    BY <1>4, FS_Singleton

LEMMA PlaceIsKept ==
    ASSUME NEW d, NEW x, Tables(d), Sane(d, x), Writing(x), NEW k, Flagged(d, k) # {}
    PROVE  Flagged(After(d, x), k) # {}
<1>1. Form(x) /\ Marks(d, x)
    BY DEF Sane
<1>2. After(d, x).releases = d.releases \union x.ins
      /\ After(d, x).flagged = (d.flagged \ x.cleared) \union x.marks
    BY AfterIs DEF Tables
<1>3. PICK r \in d.releases : \E p \in Fact[r].products : <<r, p>> \in d.flagged /\ KeyOf(r, p) = k
    BY DEF Flagged
<1>4. PICK p \in Fact[r].products : <<r, p>> \in d.flagged /\ KeyOf(r, p) = k
    BY <1>3
<1>5. CASE <<r, p>> \notin x.cleared
    BY <1>2, <1>4, <1>5 DEF Flagged
<1>6. CASE <<r, p>> \in x.cleared
    <2>1. FlagOf(x) \in x.marks /\ PlaceOf(<<r, p>>) = PlaceOf(FlagOf(x))
        BY <1>1, <1>6 DEF Form, Marks
    <2>2. PICK s \in x.ins : \E q \in Fact[s].products : FlagOf(x) = <<s, q>>
        BY <1>1, <2>1 DEF Marks, Flags
    <2>3. PICK q \in Fact[s].products : FlagOf(x) = <<s, q>>
        BY <2>2
    <2>4. KeyOf(s, q) = k
        BY <1>4, <2>1, <2>3 DEF PlaceOf
    <2> QED
        BY <1>2, <2>1, <2>3, <2>4 DEF Flagged
<1> QED
    BY <1>5, <1>6

\* A place of release_mappings_latest_idx that is taken stays taken, by one release, although
\* the latest release is read before the transaction that decides on it (ingest.go:
\* publishRelease; release_repo.go: ClearLatestFlag and Insert).
THEOREM LatestIsKept == Spec => FlagStays
<1>1. Consistent /\ [Next]_vars
        => [\A k \in Keys : Flagged(db, k) # {} => Cardinality(Flagged(db', k)) = 1]_vars
    <2> SUFFICES ASSUME Consistent, [Next]_vars, NEW k \in Keys, Flagged(db, k) # {}
                 PROVE  Cardinality(Flagged(db', k)) = 1
        OBVIOUS
    <2>1. Tables(db) /\ Tables(db')
        BY ConsistentStep DEF Consistent
    <2>2. CASE db' = db
        BY <2>1, <2>2, OneOfAPlace
    <2>3. ASSUME NEW u \in Units, Commit(u) PROVE Flagged(db', k) # {}
        <3>1. db' = After(db, unit[u])
            BY <2>3 DEF Commit, CommitRows, View, After
        <3>2. Sane(db, unit[u]) /\ Writing(unit[u])
            BY <2>3, Roles DEF Commit, At, Writing
        <3> QED
            BY <2>1, <3>1, <3>2, PlaceIsKept
    <2>4. ASSUME NEW r \in Rels, Withdraw(r) PROVE Flagged(db', k) # {}
        <3>1. db'.releases = db.releases /\ db'.flagged = db.flagged
            BY <2>1, <2>4, WithoutIs DEF Withdraw, Without, Tables
        <3> QED
            BY <3>1 DEF Flagged
    <2> QED
        BY <2>1, <2>2, <2>3, <2>4, OneOfAPlace, TablesChange
<1> QED
    BY <1>1, ConsistentInit, ConsistentStep, PTL DEF Spec, FlagStays

\* An import that commits has added every fact of its file, and changed nothing that was
\* there, whoever publishes meanwhile (snapshot_repo.go: ImportReleaseFacts).
THEOREM ImportsAreWhole == Spec => ImportIsWhole
<1> DEFINE Whole == \A u \in Units :
        (unit[u].kind = "import" /\ unit'[u] = Idle /\ db' # db) =>
            /\ db'.releases = db.releases \union {l.id : l \in unit[u].facts}
            /\ {m \in db'.flagged : m[1] \in db.releases} = db.flagged
            /\ db'.withdrawn = db.withdrawn
<1>1. Consistent /\ [Next]_vars => [Whole]_vars
    <2> SUFFICES ASSUME Consistent, [Next]_vars, NEW u \in Units,
                        unit[u].kind = "import", unit'[u] = Idle, db' # db
                 PROVE  /\ db'.releases = db.releases \union {l.id : l \in unit[u].facts}
                        /\ {m \in db'.flagged : m[1] \in db.releases} = db.flagged
                        /\ db'.withdrawn = db.withdrawn
        OBVIOUS
    <2>0. \A s : Writes(unit[u], Late(unit[u], s))
        BY Roles, LateIs
    <2>1. \A s : Late(unit[u], s) # Idle
        BY <2>0, IdleIs DEF Writes
    <2>2. ASSUME NEW r \in Rels, Withdraw(r) PROVE FALSE
        <3>1. unit'[u] = Late(unit[u], Fact[r].products \X Columns)
            BY <2>2 DEF Withdraw, Late, HasRead, ReadBy, At
        <3> QED
            BY <2>1, <3>1
    <2>3. ASSUME NEW w \in Units \ {u}, Commit(w) PROVE FALSE
        <3>1. unit'[u] = Late(unit[u], (Changes(w) \X Columns) \union Outdates(w))
            BY <2>3 DEF Commit, Late, HasRead, ReadBy, At
        <3> QED
            BY <2>1, <3>1
    <2>4. Commit(u)
        BY <2>2, <2>3, TablesChange
    <2>5. db' = After(db, unit[u]) /\ Writing(unit[u])
        BY <2>4 DEF Commit, CommitRows, View, After, At, Writing
    <2>6. /\ Tables(db) /\ Form(unit[u]) /\ Adds(db, unit[u])
          /\ Marks(db, unit[u]) /\ Imports(db, unit[u])
        BY Roles DEF Consistent, Sane
    <2> DEFINE x == unit[u]
    <2>7. /\ db'.releases = db.releases \union x.ins
          /\ db'.flagged = (db.flagged \ x.cleared) \union x.marks
          /\ db'.withdrawn = db.withdrawn
        <3>1. DOMAIN db = DOMAIN Empty
            BY <2>6 DEF Tables
        <3>2. db' = After(db, x)
            BY <2>5
        <3> HIDE DEF x
        <3>3. /\ After(db, x).releases = db.releases \union x.ins
              /\ After(db, x).flagged = (db.flagged \ x.cleared) \union x.marks
              /\ After(db, x).withdrawn = db.withdrawn
            BY <3>1, AfterIs
        <3> QED
            BY ONLY <3>2, <3>3
    <2>8. unit[u].cleared = {}
        BY <2>6 DEF Form
    <2>9. \A m \in unit[u].marks : m[1] \notin db.releases
        BY <2>6 DEF Marks, Flags, Adds
    <2>10. \A m \in db.flagged : m[1] \in db.releases
        BY <2>6 DEF Tables, Flags
    <2>11. Ids(unit[u].facts) \subseteq db.releases \union unit[u].ins
           /\ unit[u].ins \subseteq Ids(unit[u].facts)
        BY <2>5, <2>6 DEF Imports
    <2> QED
        BY <2>7, <2>8, <2>9, <2>10, <2>11 DEF Ids
<1> QED
    BY <1>1, ConsistentInit, ConsistentStep, PTL DEF Spec, ImportIsWhole

\* The marks are filled in and the rest of a line stays what it was.
Completed(l, flags) == [l EXCEPT !.flags = flags]
LEMMA CompletedIs ==
    ASSUME NEW d, NEW r, NEW s
    PROVE  /\ Completed(Line(d, r), s).id = r
           /\ (Completed(Line(d, r), s).withdrawn <=> r \in d.withdrawn)
           /\ Completed(Line(d, r), s).flags = s
BY DEF Completed, Line

\* An export that no commit came between, of a catalogue with nothing withdrawn, loads into an
\* empty installation of the same registry and restores its releases and marks
\* (snapshot_repo.go: ExportReleaseFacts, attachMappings and ImportReleaseFacts).
THEOREM ExportsLoadBack == Spec => ExportLoadsBack
<1> DEFINE Back == (export # None /\ export' = None /\ ~torn /\ db.withdrawn = {}) =>
        /\ Loads(Empty, file')
        /\ Load(Empty, file').releases = db.releases
        /\ Load(Empty, file').flagged = db.flagged
<1>1. Consistent /\ [Next]_vars => [Back]_vars
    <2> SUFFICES ASSUME Consistent, [Next]_vars, export # None, export' = None, ~torn,
                        db.withdrawn = {}
                 PROVE  /\ Loads(Empty, file')
                        /\ Load(Empty, file').releases = db.releases
                        /\ Load(Empty, file').flagged = db.flagged
        OBVIOUS
    <2>1. WriteFile
        <3>1. ASSUME NEW u \in Units, NEW p, NEW dup,
                     ReadSummary(u, p) \/ Validate(u, p, dup) \/ SyncSummary(u, p) \/ BeginPublish(u, p)
              PROVE  FALSE
            BY <3>1 DEF ReadSummary, Validate, SyncSummary, BeginPublish, Begin, Step
        <3>2. ASSUME NEW u \in Units,
                     ClearLatestFlag(u) \/ Cleared(u) \/ Insert(u) \/ Import(u)
                     \/ InsertFacts(u) \/ WriteSummary(u) \/ TouchVerified(u) \/ Rollback(u)
                     \/ Commit(u)
              PROVE  FALSE
            BY <3>2 DEF TouchVerified, ClearLatestFlag, Cleared, Insert, Import, InsertFacts, WriteSummary,
                        Rollback, Commit, Roll, Begin, Step
        <3>3. CASE UNCHANGED vars
            BY <3>3 DEF vars
        <3>4. ASSUME NEW r \in Rels, Withdraw(r) PROVE FALSE
            BY <3>4 DEF Withdraw
        <3>5. CASE ExportFacts
            BY <3>5 DEF ExportFacts
        <3> QED
            BY <3>1, <3>2, <3>3, <3>4, <3>5 DEF Next
    <2>2. Tables(db) /\ export = {Line(db, r) : r \in db.releases}
        BY DEF Consistent, Exported
    <2> DEFINE flags(r) == {p \in Fact[r].products : <<r, p>> \in db.flagged}
               lines == WithMappings(db, export)
    <2>3. /\ \A l \in lines : /\ l.id \in db.releases /\ ~l.withdrawn
                              /\ l.flags = flags(l.id)
          /\ \A r \in db.releases : \E l \in lines : l.id = r
        <3> DEFINE full(r) == Completed(Line(db, r), flags(r))
        <3>1. \A r : Line(db, r).id = r
            BY DEF Line
        <3>2. lines = {full(r) : r \in db.releases}
            <4>1. lines = {Completed(l, flags(l.id)) : l \in export}
                BY DEF WithMappings, Completed
            <4>2. ASSUME NEW l \in lines PROVE \E r \in db.releases : l = full(r)
                <5>1. PICK k \in export : l = Completed(k, flags(k.id))
                    BY <4>1
                <5> QED
                    BY <2>2, <3>1, <5>1
            <4>3. ASSUME NEW r \in db.releases PROVE full(r) \in lines
                <5> HIDE DEF flags
                <5> QED
                    BY <2>2, <3>1, <4>1
            <4> HIDE DEF full, lines
            <4> QED
                BY <4>2, <4>3
        <3> HIDE DEF lines, flags
        <3>3. \A r \in db.releases : /\ full(r).id = r /\ ~full(r).withdrawn
                                     /\ full(r).flags = flags(r)
            <4> SUFFICES ASSUME NEW r \in db.releases
                         PROVE  /\ full(r).id = r /\ ~full(r).withdrawn
                                /\ full(r).flags = flags(r)
                OBVIOUS
            <4>1. r \notin db.withdrawn
                OBVIOUS
            <4> QED
                BY <4>1, CompletedIs
        <3> HIDE DEF full
        <3> QED
            BY <3>2, <3>3
    <2>4. \A l \in lines : Known(l.id)
        BY <2>2, <2>3 DEF Tables
    <2>5. file' = lines
        BY <2>1, <2>4 DEF WriteFile, AttachMappings, ValidLine, Known
    <2> HIDE DEF lines
    <2>6. Missing(Empty, lines) = lines
        BY DEF Missing, Empty
    <2>7. MarksOf(lines) = db.flagged
        <3>1. ASSUME NEW m \in MarksOf(lines) PROVE m \in db.flagged
            <4>1. PICK l \in lines : \E p \in l.flags : m = <<l.id, p>>
                BY MarksOfIs
            <4> QED
                BY <2>3, <4>1
        <3>2. ASSUME NEW m \in db.flagged PROVE m \in MarksOf(lines)
            <4>1. PICK r \in db.releases : \E p \in Fact[r].products : m = <<r, p>>
                BY <2>2 DEF Tables, Flags
            <4>2. PICK p \in Fact[r].products : m = <<r, p>>
                BY <4>1
            <4>3. PICK l \in lines : l.id = r
                BY <2>3
            <4>4. p \in l.flags /\ m = <<l.id, p>>
                BY <2>3, <4>2, <4>3
            <4> QED
                BY <4>4, MarksOfIs
        <3> QED
            BY <3>1, <3>2
    <2>8. Loads(Empty, lines)
        <3>1. \A l \in lines : ValidLine(l) /\ Fact[l.id].products \subseteq Registered
            BY <2>4 DEF Known, ValidLine
        <3>2. WithdrawnConsistent(lines)
            BY <2>3 DEF WithdrawnConsistent
        <3>3. NoClash(Empty, lines)
            <4>1. Empty.flagged = {}
                BY DEF Empty
            <4> QED
                BY <2>2, <2>7, <4>1 DEF NoClash, Tables, Unique, PlaceOf
        <3> QED
            BY <2>6, <3>1, <3>2, <3>3 DEF Loads, SlugsKnown
    <2>9. /\ Load(Empty, lines).releases = {l.id : l \in lines}
          /\ Load(Empty, lines).flagged = MarksOf(lines)
        BY <2>6 DEF Load, Empty
    <2>10. {l.id : l \in lines} = db.releases
        BY <2>3
    <2> QED
        BY <2>5, <2>7, <2>8, <2>9, <2>10
<1> QED
    BY <1>1, ConsistentInit, ConsistentStep, PTL DEF Spec, ExportLoadsBack
-----------------------------------------------------------------------------
(***************************************************************************)
(* Listings, for any catalogue, queue, page size, calendar and clock.      *)
(***************************************************************************)

\* Of two releases one comes first, so a finite set of them has a first.
LEMMA FirstIsOne ==
    ASSUME NEW S \in SUBSET Rels, IsFiniteSet(S), S # {}
    PROVE  First(S) \in S
<1> DEFINE Ranked(T) == \E r \in T : \A s \in T \ {r} : LatestOrdering(r, s)
           Sizes == {n \in Nat : \E T \in SUBSET Rels :
                        IsFiniteSet(T) /\ T # {} /\ Cardinality(T) = n /\ ~Ranked(T)}
<1>1. \A r, s, t \in Rels :
        /\ r # s => LatestOrdering(r, s) \/ LatestOrdering(s, r)
        /\ LatestOrdering(r, s) /\ LatestOrdering(s, t) => LatestOrdering(r, t)
  <2> TAKE r, s, t \in Rels
  <2>1. /\ r \in Nat /\ s \in Nat /\ t \in Nat
        /\ Fact[r].date \in Nat /\ Fact[s].date \in Nat /\ Fact[t].date \in Nat
        /\ Fact[r].seen \in Nat /\ Fact[s].seen \in Nat /\ Fact[t].seen \in Nat
    BY RowsAssumption
  <2> QED
    BY <2>1 DEF LatestOrdering
<1>2. Sizes = {}
  <2> SUFFICES ASSUME Sizes # {} PROVE FALSE
    OBVIOUS
  <2> DEFINE Less == {p \in Nat \X Nat : p[1] < p[2]}
  <2>1. IsWellFoundedOn(Less, Nat)
    BY NatLessThanWellFounded, Zenon DEF OpToRel
  <2>2. PICK n \in Sizes : \A m \in Sizes : ~(<<m, n>> \in Less)
    <3>1. Sizes \subseteq Nat
        OBVIOUS
    <3> HIDE DEF Sizes, Less
    <3> QED
        BY <2>1, <3>1, WFMin
  <2>3. \A m \in Sizes : ~(m < n)
    BY <2>2
  <2>4. PICK T \in SUBSET Rels : IsFiniteSet(T) /\ T # {} /\ Cardinality(T) = n /\ ~Ranked(T)
    OBVIOUS
  <2>5. PICK x \in T : TRUE
    BY <2>4
  <2> DEFINE U == T \ {x}
  <2>6. IsFiniteSet(U) /\ Cardinality(U) = n - 1 /\ n \in Nat /\ Cardinality(U) \in Nat
    BY <2>4, <2>5, FS_RemoveElement, FS_CardinalityType
  <2>7. U # {} => Ranked(U)
    <3> SUFFICES ASSUME U # {}, ~Ranked(U) PROVE FALSE
        OBVIOUS
    <3>1. n - 1 \in Sizes
      <4>1. U \in SUBSET Rels /\ IsFiniteSet(U) /\ Cardinality(U) = n - 1 /\ n - 1 \in Nat
        BY <2>4, <2>6
      <4> HIDE DEF U, Ranked
      <4> QED
        BY <4>1
    <3> HIDE DEF Sizes
    <3> QED
        BY <3>1, <2>3, <2>6
  <2>8. PICK y \in T : y \in U /\ \A s \in U \ {y} : LatestOrdering(y, s)
    <3>1. CASE U = {}
        BY <3>1, <2>4, <2>5
    <3>2. CASE U # {}
        BY <3>2, <2>7
    <3> QED BY <3>1, <3>2
  <2>9. CASE LatestOrdering(x, y)
    <3>1. \A s \in T \ {x} : LatestOrdering(x, s)
        BY <2>8, <2>9, <2>5, <2>4, <1>1
    <3> QED BY <3>1, <2>4, <2>5
  <2>10. CASE LatestOrdering(y, x)
    <3>1. \A s \in T \ {y} : LatestOrdering(y, s)
        BY <2>8, <2>10, <2>5
    <3> QED BY <3>1, <2>4, <2>8
  <2> QED
    BY <2>9, <2>10, <2>8, <2>5, <1>1
<1>3. Ranked(S)
  <2>1. Cardinality(S) \in Nat
    BY FS_CardinalityType
  <2> QED
    BY <1>2, <2>1
<1> QED
    BY <1>3 DEF First

-----------------------------------------------------------------------------
\* The last day that a date can mean is not before its first.
LEMMA EndsAfterStart ==
    ASSUME NEW r \in Rels, Dated(r)
    PROVE  Fact[r].date \in Int /\ PeriodEnd(r) \in Int /\ Fact[r].date <= PeriodEnd(r)
<1>1. DaysPerMonth \in Nat /\ DaysPerMonth >= 1 /\ MonthsPerYear \in Nat /\ MonthsPerYear >= 1
    BY ListingsAssumption
<1>2. MonthsPerYear * DaysPerMonth \in Nat /\ MonthsPerYear * DaysPerMonth >= 1
    BY <1>1
<1>3. 1 * DaysPerMonth = DaysPerMonth
    BY <1>1
<1>4. Fact[r].precision \in {"exact_day", "month_only", "year_only"} /\ Fact[r].date \in Nat
    BY RowsAssumption, ListingsAssumption
<1> QED
    BY <1>1, <1>2, <1>3, <1>4 DEF PeriodEnd, AddMonths

\* The statement's CASE keeps what some day that the date can mean has in the window.
LEMMA WithinIsEntitled ==
    ASSUME NEW r \in Rels, NEW since, since # None => since \in Int
    PROVE  Within(r, since) <=> Entitled(r, since)
<1>1. CASE since = None \/ ~Dated(r)
    BY <1>1 DEF Within, Entitled
<1>2. CASE since # None /\ Dated(r)
  <2>1. Fact[r].date \in Int /\ PeriodEnd(r) \in Int /\ Fact[r].date <= PeriodEnd(r)
    BY <1>2, EndsAfterStart
  <2>2. DayOf(since) \in Int
    BY <1>2 DEF DayOf
  <2>3. PeriodEnd(r) >= DayOf(since) <=> \E d \in Fact[r].date .. PeriodEnd(r) : d >= DayOf(since)
    <3> DEFINE from == Fact[r].date  to == PeriodEnd(r)  day == DayOf(since)
    <3>1. from \in Int /\ to \in Int /\ from <= to /\ day \in Int
        BY <2>1, <2>2
    <3> HIDE DEF from, to, day
    <3>2. to >= day <=> \E d \in from .. to : d >= day
        BY <3>1
    <3> QED
        BY <3>2 DEF from, to, day
  <2> QED
    BY <2>3, <1>2 DEF Within, Entitled, Denoted
<1> QED
    BY <1>1, <1>2

LEMMA HalfIsMonotone ==
    ASSUME NEW a \in Int, NEW b \in Int, a <= b
    PROVE  a \div 2 \in Int /\ b \div 2 \in Int /\ a \div 2 <= b \div 2
OBVIOUS

\* What a plan may see shrinks as time passes, and never grows.
LEMMA LaterShowsLess ==
    ASSUME NEW since \in Int, NEW later \in Int, since <= later,
           NEW r \in Rels, Entitled(r, later)
    PROVE  Entitled(r, since)
<1> None \notin Int
    BY ListingsAssumption
<1>1. DayOf(later) >= DayOf(since) /\ DayOf(later) \in Int /\ DayOf(since) \in Int
    BY HalfIsMonotone DEF DayOf
<1>2. CASE ~Dated(r)
    BY <1>2, RowsAssumption DEF Entitled
<1>3. CASE Dated(r)
    BY <1>1, <1>3, EndsAfterStart DEF Entitled, Denoted
<1> QED
    BY <1>2, <1>3

LEMMA WindowMovesOn ==
    ASSUME now \in Nat, now' \in Nat, now' >= now, NEW plan, NEW r \in Rels,
           Entitled(r, HistoryWindow(plan))'
    PROVE  Entitled(r, HistoryWindow(plan))
<1>1. 2 * WindowMonths * DaysPerMonth \in Nat
    BY ListingsAssumption
<1>2. CASE ~Windowed(plan)
    BY <1>2 DEF Entitled, HistoryWindow
<1>3. CASE Windowed(plan)
  <2> DEFINE since == HistoryWindow(plan)
  <2>1. since = now - 2 * WindowMonths * DaysPerMonth /\ since' = now' - 2 * WindowMonths * DaysPerMonth
    BY <1>3 DEF HistoryWindow
  <2>2. since \in Int /\ since' \in Int /\ since <= since'
    BY <1>1, <2>1
  <2>3. Entitled(r, since)' <=> Entitled(r, since')
    BY DEF Entitled
  <2> HIDE DEF since
  <2> QED
    BY <2>2, <2>3, LaterShowsLess DEF since
<1> QED
    BY <1>2, <1>3

-----------------------------------------------------------------------------
\* The places of a listing are in one order.
LEMMA PlacesAreOrdered ==
    ASSUME NEW list \in Lists, NEW k \in Places(list), NEW l \in Places(list), NEW m \in Places(list)
    PROVE  /\ ~Ahead(list, k, k)
           /\ Ahead(list, k, l) /\ Ahead(list, l, m) => Ahead(list, k, m)
<1>1. CASE list = "history"
    BY <1>1 DEF Places, Ahead, Observed
<1>2. CASE list = "vendors"
    BY <1>2 DEF Places, Ahead
<1>3. CASE list = "queue"
    BY <1>3 DEF Places, Ahead, Sooner
<1> QED
    BY <1>1, <1>2, <1>3 DEF Lists

\* Every row of a listing has a place in it.
LEMMA RowsHavePlaces ==
    ASSUME ListingsTypeOK, NEW list \in Lists, NEW x \in Visible(list)
    PROVE  RowPlace(list, x) \in Places(list)
<1>1. CASE list = "history"
  <2>1. x \in Rels
    BY <1>1 DEF ListingsTypeOK, Visible, Mapped
  <2> QED
    BY <1>1, <2>1, RowsAssumption DEF Places, RowPlace
<1>2. CASE list = "vendors"
    BY <1>2, ListingsAssumption DEF Places, RowPlace, Visible, ListingsTypeOK
<1>3. CASE list = "queue"
  <2>1. x \in Nat /\ queue[x] \in Nat /\ Created[x] \in Nat
    BY <1>3, ListingsAssumption DEF ListingsTypeOK, Visible
  <2> QED
    BY <1>3, <2>1 DEF Places, RowPlace
<1> QED
    BY <1>1, <1>2, <1>3 DEF Lists

(***************************************************************************)
(* The inductive invariant: what the cursor has passed was shown, and what *)
(* was not shown is ahead of it, left the listing or is out of the window. *)
(***************************************************************************)
Record == DOMAIN walk = DOMAIN NoWalk
Idles == walk.list = "none" => walk.at = "idle"
Walking == walk.at # "idle"
\* A place that the cursor has passed, rows that were there throughout, and those among
\* them that the plan of the caller shows.
Passed(x) == walk.cursor # None /\ ~Ahead(walk.list, walk.cursor, RowPlace(walk.list, x))
Kept == walk.there \ walk.moved
Owed(x) == walk.list = "history" => Entitled(x, HistoryWindow(walk.plan))

Stays ==
    walk.list # "none" =>
        Kept \subseteq Visible(walk.list) /\ walk.seen \ walk.moved \subseteq Visible(walk.list)
SeenIsPassed == Walking => \A x \in walk.seen \ walk.moved : Passed(x)
RestIsAhead == Walking => \A x \in Kept : x \in walk.seen \/ ~Passed(x) \/ ~Owed(x)
Held == DOMAIN catalogue = DOMAIN Empty /\ IsFiniteSet(catalogue.releases)
WalkInv ==
    /\ Record /\ Held /\ ListingsTypeOK /\ Idles
    /\ Stays /\ SeenIsPassed /\ RestIsAhead /\ WalkIsComplete /\ WindowIsKept

\* What one page does to the walk.
LEMMA Turned ==
    ASSUME Record, NEW shown, Turn(shown)
    PROVE  /\ Record'
           /\ walk'.list = walk.list /\ walk'.plan = walk.plan /\ walk'.limit = walk.limit
           /\ walk'.there = walk.there /\ walk'.moved = walk.moved /\ walk'.latest = walk.latest
           /\ walk'.seen = walk.seen \union shown
           /\ walk'.twice = walk.twice \union (shown \intersect walk.seen)
           /\ \/ /\ Cardinality(shown) = walk.limit /\ walk'.at = "request"
                 /\ \E x \in LastOf(walk.list, shown) : walk'.cursor = RowPlace(walk.list, x)
              \/ Cardinality(shown) # walk.limit /\ walk'.at = "idle" /\ walk'.cursor = None
<1> DEFINE full == Cardinality(shown) = walk.limit
<1>1. PICK cursor \in IF full THEN {RowPlace(walk.list, x) : x \in LastOf(walk.list, shown)} ELSE {None} :
        walk' = [walk EXCEPT !.seen = @ \union shown, !.cursor = cursor,
                             !.twice = @ \union (shown \intersect walk.seen),
                             !.at = IF full THEN "request" ELSE "idle"]
    BY DEF Turn
<1>2. DOMAIN walk = {"list", "at", "plan", "channel", "limit", "cursor", "seen", "twice",
                     "there", "moved", "latest"}
    BY DEF Record, NoWalk
<1>3. walk'.cursor = cursor /\ walk'.at = IF full THEN "request" ELSE "idle"
    BY <1>1, <1>2
<1>4. full => \E x \in LastOf(walk.list, shown) : cursor = RowPlace(walk.list, x)
    BY <1>1
<1>5. ~full => cursor = None
    BY <1>1
<1>6. Record'
    BY <1>1 DEF Record
<1> QED
  <2>1. /\ walk'.list = walk.list /\ walk'.plan = walk.plan /\ walk'.limit = walk.limit
        /\ walk'.there = walk.there /\ walk'.moved = walk.moved /\ walk'.latest = walk.latest
        /\ walk'.seen = walk.seen \union shown
        /\ walk'.twice = walk.twice \union (shown \intersect walk.seen)
    BY <1>1, <1>2
  <2> HIDE DEF full
  <2>2. \/ full /\ walk'.at = "request" /\ \E x \in LastOf(walk.list, shown) : walk'.cursor = RowPlace(walk.list, x)
        \/ ~full /\ walk'.at = "idle" /\ walk'.cursor = None
    BY <1>3, <1>4, <1>5
  <2> QED
    BY <1>6, <2>1, <2>2 DEF full

\* Nothing a walk depends on changes while a page is served.
LEMMA PageServed ==
    ASSUME WalkInv, walk.list \in Lists, Walking,
           NEW rows \in SUBSET Behind(walk.list, walk.cursor),
           \A x \in Visible(walk.list) : Owed(x) /\ ~Passed(x) => x \in rows,
           NEW shown \in Pages(walk.list, rows, walk.limit), Turn(shown),
           UNCHANGED <<now, catalogue, vendors, queue>>
    PROVE  (Record /\ Held /\ ListingsTypeOK /\ Idles
            /\ Stays /\ SeenIsPassed /\ RestIsAhead /\ WalkIsComplete)'
<1> DEFINE list == walk.list
           Place(x) == RowPlace(list, x)
<1>0. list # "none"
    BY DEF Lists
<1>1. /\ Record'
      /\ walk'.list = walk.list /\ walk'.plan = walk.plan /\ walk'.limit = walk.limit
      /\ walk'.there = walk.there /\ walk'.moved = walk.moved /\ walk'.latest = walk.latest
      /\ walk'.seen = walk.seen \union shown
      /\ walk'.twice = walk.twice \union (shown \intersect walk.seen)
      /\ \/ /\ Cardinality(shown) = walk.limit /\ walk'.at = "request"
            /\ \E x \in LastOf(list, shown) : walk'.cursor = Place(x)
         \/ Cardinality(shown) # walk.limit /\ walk'.at = "idle" /\ walk'.cursor = None
    BY Turned DEF WalkInv
<1>2. /\ shown \subseteq rows
      /\ \A x \in shown, y \in rows \ shown : Ahead(list, Place(x), Place(y))
      /\ Cardinality(shown) # walk.limit => shown = rows
    BY DEF Pages
<1>3. \A x \in rows : x \in Visible(list) /\ ~Passed(x)
    BY DEF Behind, Passed
<1>4. \A x \in Visible(list) : Place(x) \in Places(list)
    BY RowsHavePlaces DEF WalkInv
<1>5. \A x : RowPlace(list, x)' = Place(x)
    BY <1>1 DEF RowPlace
<1>6. Visible(list)' = Visible(list)
    BY <1>1 DEF Visible, Mapped
<1>7. \A x : Owed(x)' <=> Owed(x)
    BY <1>1 DEF Owed, Entitled, HistoryWindow
<1>8. walk.cursor # None => walk.cursor \in Places(list)
    BY DEF WalkInv, ListingsTypeOK
<1>9. None \notin Places(list)
    BY ListingsAssumption
<1>10. \A x \in Visible(list) : (Passed(x)' <=> walk'.cursor # None /\ ~Ahead(list, walk'.cursor, Place(x)))
    BY <1>1, <1>5 DEF Passed, Ahead, Observed, Sooner
<1>11. ListingsTypeOK' /\ Held' /\ Idles'
    BY <1>0, <1>1, <1>2, <1>3, <1>4 DEF WalkInv, Held, ListingsTypeOK, Idles, LastOf
<1>12. Stays'
    BY <1>1, <1>2, <1>3, <1>6 DEF WalkInv, Stays, Kept
<1>13. walk'.twice \subseteq walk'.moved
    BY <1>1, <1>2, <1>3 DEF WalkInv, WalkIsComplete, SeenIsPassed
<1>14. CASE Cardinality(shown) = walk.limit
  <2>1. PICK last \in LastOf(list, shown) : walk'.cursor = Place(last)
    BY <1>1, <1>14
  <2>2. last \in shown /\ \A y \in shown \ {last} : Ahead(list, Place(y), Place(last))
    BY DEF LastOf
  <2> DEFINE cursor == Place(last)
  <2>3. cursor \in Places(list) /\ walk'.cursor = cursor /\ cursor # None
    BY <1>2, <1>3, <1>4, <1>9, <2>1, <2>2
  <2>4. SeenIsPassed'
    <3> SUFFICES ASSUME NEW x \in walk'.seen \ walk'.moved PROVE ~Ahead(list, cursor, Place(x)) /\ x \in Visible(list)
        BY <1>10, <2>3, <1>1 DEF SeenIsPassed
    <3>1. x \in Visible(list) /\ Place(x) \in Places(list)
        BY <1>0, <1>1, <1>2, <1>3, <1>4 DEF WalkInv, Stays, Kept
    <3>2. CASE x \in shown
        BY <3>1, <3>2, <2>2, <2>3, PlacesAreOrdered
    <3>3. CASE x \notin shown
      <4>1. walk.cursor # None /\ ~Ahead(list, walk.cursor, Place(x))
        BY <3>3, <1>1 DEF WalkInv, SeenIsPassed, Passed
      <4>2. Ahead(list, walk.cursor, cursor)
        BY <4>1, <1>3, <1>2, <2>2 DEF Passed
      <4> QED
        BY <4>1, <4>2, <1>8, <2>3, <3>1, PlacesAreOrdered
    <3> QED
        BY <3>2, <3>3, <3>1
  <2>5. RestIsAhead'
    <3> SUFFICES ASSUME NEW x \in Kept, x \notin walk'.seen, Owed(x)
                 PROVE  Ahead(list, cursor, Place(x)) /\ x \in Visible(list)
        BY <1>10, <2>3, <1>1, <1>7 DEF RestIsAhead, Kept
    <3>1. x \in Visible(list)
        BY <1>0 DEF WalkInv, Stays, Kept
    <3>2. x \in rows \ shown
        BY <1>1, <3>1 DEF WalkInv, RestIsAhead
    <3> QED
        BY <3>1, <3>2, <1>2, <2>2
  <2>6. WalkIsComplete'
    BY <1>1, <1>13, <1>14 DEF WalkIsComplete, Finished
  <2> QED
    BY <1>1, <1>11, <1>12, <2>4, <2>5, <2>6
<1>15. CASE Cardinality(shown) # walk.limit
  <2>1. walk'.at = "idle" /\ shown = rows
    BY <1>1, <1>2, <1>15
  <2>2. Expected' \subseteq walk'.seen
    <3> SUFFICES ASSUME NEW x \in Kept, Owed(x), x \notin walk'.seen PROVE FALSE
        BY <1>1, <1>7 DEF Expected, Kept, Owed
    <3>1. x \in Visible(list)
        BY <1>0 DEF WalkInv, Stays, Kept
    <3> QED
        BY <1>1, <3>1, <2>1 DEF WalkInv, RestIsAhead
  <2> QED
    BY <1>1, <1>11, <1>12, <1>13, <2>1, <2>2 DEF SeenIsPassed, RestIsAhead, WalkIsComplete, Walking
<1> QED
    BY <1>14, <1>15

-----------------------------------------------------------------------------
\* Rows may come in, and rows may lose their place, and the walk is what it was.
LEMMA Undisturbed ==
    ASSUME WalkInv,
           walk'.list = walk.list, walk'.plan = walk.plan, walk'.cursor = walk.cursor,
           walk'.seen = walk.seen, walk'.twice = walk.twice, walk'.there = walk.there,
           (walk'.at = "idle") = (walk.at = "idle"), walk.moved \subseteq walk'.moved,
           walk.list # "none" =>
               /\ Visible(walk.list) \ walk'.moved \subseteq Visible(walk.list)'
               /\ \A x \in Visible(walk.list) \ walk'.moved : RowPlace(walk.list, x)' = RowPlace(walk.list, x),
           \A x \in Kept : Owed(x)' => Owed(x)
    PROVE  (Stays /\ SeenIsPassed /\ RestIsAhead /\ WalkIsComplete)'
<1>1. Kept' \subseteq Kept /\ walk'.seen \ walk'.moved \subseteq walk.seen \ walk.moved
    BY DEF Kept
<1>2. Walking' <=> Walking
    BY DEF Walking
<1>3. Stays'
    BY <1>1 DEF WalkInv, Stays, Kept
<1>4. walk.list # "none" =>
        \A x \in Visible(walk.list) \ walk'.moved : Passed(x)' <=> Passed(x)
    BY DEF Passed, Ahead, Observed, Sooner
<1>5. WalkIsComplete'
  <2>1. walk'.twice \subseteq walk'.moved
    BY DEF WalkInv, WalkIsComplete
  <2>2. ASSUME Finished' PROVE Expected' \subseteq walk'.seen
    <3>1. Finished
        BY <2>2 DEF Finished
    <3>2. Expected' \subseteq Expected
        BY <1>1 DEF Expected, Kept, Owed
    <3> QED
        BY <3>1, <3>2 DEF WalkInv, WalkIsComplete
  <2> QED
    BY <2>1, <2>2 DEF WalkIsComplete
<1>6. CASE Walking /\ walk.list # "none"
  <2>1. SeenIsPassed'
    BY <1>1, <1>2, <1>4, <1>6 DEF WalkInv, SeenIsPassed, Stays
  <2>2. RestIsAhead'
    BY <1>1, <1>2, <1>4, <1>6 DEF WalkInv, RestIsAhead, Stays, Kept
  <2> QED
    BY <1>3, <1>5, <2>1, <2>2
<1>7. CASE ~Walking
    BY <1>2, <1>3, <1>5, <1>7 DEF SeenIsPassed, RestIsAhead
<1>8. walk.list = "none" => ~Walking
    BY DEF WalkInv, Idles, Walking
<1> QED
    BY <1>6, <1>7, <1>8

LEMMA WalkInvHoldsAtFirst ==
    ASSUME ListingsInit
    PROVE  WalkInv
<1>1. PICK scene \in Scenes :
        /\ catalogue = [Empty EXCEPT !.releases = scene.releases,
                              !.flagged = {<<r, Product>> : r \in {First(scene.releases)} \ {None}}]
        /\ vendors = scene.vendors /\ queue \in [scene.items -> Priorities]
    BY DEF ListingsInit
<1>2. Held /\ catalogue.releases = scene.releases
    BY <1>1, ListingsAssumption DEF Held, Empty
<1>3. walk = NoWalk /\ answer = None /\ now = Start
    BY DEF ListingsInit
<1>4. walk.list = "none" /\ walk.at = "idle" /\ walk.limit = 1 /\ walk.cursor = None
      /\ walk.twice = {} /\ walk.latest = None
    BY <1>3 DEF NoWalk
<1>5. ListingsTypeOK
  <2>1. scene.releases \subseteq Rels /\ scene.vendors \subseteq Slugs /\ scene.items \subseteq Items
    BY ListingsAssumption
  <2>2. 1 \in 1..MaxPage /\ Start \in Nat
    BY ListingsAssumption
  <2> QED
    BY <1>1, <1>2, <1>3, <1>4, <2>1, <2>2 DEF ListingsTypeOK
<1> QED
    BY <1>2, <1>3, <1>4, <1>5 DEF WalkInv, Record, Idles, Stays, SeenIsPassed, RestIsAhead, Walking,
        WalkIsComplete, Finished, WindowIsKept, PageIsEntitled, FlagAgreesWithPage

\* A walk begins: nothing is seen and everything is ahead.
LEMMA WalkBegins ==
    ASSUME WalkInv,
           NEW list \in Lists, NEW plan, NEW channel, NEW asked \in Asked, BeginWalk(list, plan, channel, asked)
    PROVE  WalkInv'
<1>1. /\ walk' = [NoWalk EXCEPT !.list = list, !.at = "request", !.plan = plan, !.channel = channel,
                                !.limit = ClampLimit(asked), !.there = Visible(list)]
      /\ answer' = None /\ UNCHANGED <<now, catalogue, vendors, queue>>
    BY DEF BeginWalk
<1>2. /\ walk'.list = list /\ walk'.at = "request" /\ walk'.limit = ClampLimit(asked)
      /\ walk'.there = Visible(list) /\ walk'.cursor = None /\ walk'.seen = {} /\ walk'.twice = {}
      /\ walk'.moved = {} /\ walk'.latest = None
    BY <1>1 DEF NoWalk
<1>3. Record' /\ Held'
    BY <1>1 DEF Record, NoWalk, WalkInv, Held
<1>4. ClampLimit(asked) \in 1..MaxPage
    BY ListingsAssumption DEF ClampLimit
<1>5. ListingsTypeOK'
    BY <1>1, <1>2, <1>4 DEF WalkInv, ListingsTypeOK
<1>6. list # "none"
    BY DEF Lists
<1>7. Stays'
    BY <1>1, <1>2 DEF Stays, Kept, Visible, Mapped
<1> QED
    BY <1>1, <1>2, <1>3, <1>5, <1>6, <1>7 DEF WalkInv, Idles, SeenIsPassed, RestIsAhead, Passed,
        WalkIsComplete, Finished, WindowIsKept, PageIsEntitled, FlagAgreesWithPage

LEMMA SummaryIsRead ==
    ASSUME WalkInv, LookupProduct
    PROVE  WalkInv'
<1>1. /\ walk.list = "history" /\ walk.at = "request"
      /\ walk' = [walk EXCEPT !.at = "list", !.latest = SummaryRow(catalogue, Product).latest]
      /\ UNCHANGED <<now, catalogue, vendors, queue, answer>>
    BY DEF LookupProduct
<1>2. DOMAIN walk = {"list", "at", "plan", "channel", "limit", "cursor", "seen", "twice",
                     "there", "moved", "latest"}
    BY DEF WalkInv, Record, NoWalk
<1>3. /\ walk'.list = walk.list /\ walk'.at = "list" /\ walk'.plan = walk.plan /\ walk'.limit = walk.limit
      /\ walk'.cursor = walk.cursor /\ walk'.seen = walk.seen /\ walk'.twice = walk.twice
      /\ walk'.there = walk.there /\ walk'.moved = walk.moved
      /\ walk'.latest = SummaryRow(catalogue, Product).latest
    BY <1>1, <1>2
<1>4. SummaryRow(catalogue, Product).latest \in Rels \union {None}
  <2> DEFINE flagged == FlaggedFor(catalogue, Product)
  <2>1. flagged \subseteq catalogue.releases
    BY DEF FlaggedFor, Mapped
  <2>2. flagged \in SUBSET Rels /\ IsFiniteSet(flagged)
    BY <2>1, FS_Subset DEF WalkInv, ListingsTypeOK, Held
  <2>3. SummaryRow(catalogue, Product).latest = First(flagged)
    BY DEF SummaryRow
  <2> HIDE DEF flagged
  <2>4. CASE flagged = {}
    BY <2>3, <2>4 DEF First
  <2>5. CASE flagged # {}
    BY <2>2, <2>3, <2>5, FirstIsOne
  <2> QED
    BY <2>4, <2>5
<1>5. Record' /\ Held' /\ ListingsTypeOK' /\ Idles'
    BY <1>1, <1>3, <1>4 DEF WalkInv, Record, Held, ListingsTypeOK, Idles
<1>6. (Stays /\ SeenIsPassed /\ RestIsAhead /\ WalkIsComplete)'
  <2>1. Visible(walk.list)' = Visible(walk.list)
    BY <1>1, <1>3 DEF Visible, Mapped
  <2>2. \A x : RowPlace(walk.list, x)' = RowPlace(walk.list, x)
    BY <1>1, <1>3 DEF RowPlace
  <2>3. \A x : Owed(x)' <=> Owed(x)
    BY <1>1, <1>3 DEF Owed, Entitled, HistoryWindow
  <2> QED
    BY <1>1, <1>3, <2>1, <2>2, <2>3, Undisturbed
<1> QED
    BY <1>1, <1>5, <1>6 DEF WalkInv, WindowIsKept, PageIsEntitled, FlagAgreesWithPage

LEMMA ReleasesAreListed ==
    ASSUME WalkInv, ListReleases
    PROVE  WalkInv'
<1> DEFINE since == HistoryWindow(walk.plan)
           rows == {r \in Behind("history", walk.cursor) : Within(r, since)}
<1>1. PICK shown \in Pages("history", rows, walk.limit) :
        /\ Turn(shown)
        /\ answer' = [releases |-> FilterReleases(shown, walk.channel), since |-> since,
                      outside |-> LatestOutsideWindow(walk.latest, since), latest |-> walk.latest]
    BY DEF ListReleases
<1>2. walk.list = "history" /\ walk.at = "list" /\ UNCHANGED <<now, catalogue, vendors, queue>>
    BY DEF ListReleases
<1>3. since # None => since \in Int
    BY ListingsAssumption DEF HistoryWindow, WalkInv, ListingsTypeOK
<1>4. \A r \in Rels : Within(r, since) <=> Entitled(r, since)
    BY <1>3, WithinIsEntitled
<1>5. Visible("history") \subseteq Rels
    BY DEF Visible, Mapped, WalkInv, ListingsTypeOK
<1>6. \A x \in Visible("history") : Owed(x) /\ ~Passed(x) => x \in rows
    BY <1>2, <1>4, <1>5 DEF Owed, Passed, Behind
<1>7. (Record /\ Held /\ ListingsTypeOK /\ Idles /\ Stays /\ SeenIsPassed /\ RestIsAhead /\ WalkIsComplete)'
  <2>1. rows \in SUBSET Behind(walk.list, walk.cursor) /\ walk.list \in Lists /\ Walking
    BY <1>2 DEF Lists, Walking
  <2> HIDE DEF rows
  <2> QED
    BY <1>1, <1>2, <1>6, <2>1, PageServed
<1>8. \A r \in shown : r \in Rels /\ Entitled(r, since)
    BY <1>4, <1>5 DEF Pages, Behind
<1>9. /\ answer'.releases \subseteq shown /\ answer'.since = since /\ answer'.latest = walk.latest
      /\ answer'.outside <=> LatestOutsideWindow(walk.latest, since)
    BY <1>1 DEF FilterReleases
<1>10. PageIsEntitled'
    BY <1>8, <1>9 DEF PageIsEntitled, Entitled
<1>11. ASSUME LatestOutsideWindow(walk.latest, since) PROVE ~Entitled(walk.latest, since)
  <2> DEFINE latest == walk.latest
  <2>1. latest \in Rels /\ since \in Int /\ since # None /\ Dated(latest) /\ PeriodEnd(latest) < DayOf(since)
    BY <1>11, <1>3 DEF LatestOutsideWindow, WalkInv, ListingsTypeOK
  <2>2. PeriodEnd(latest) \in Int
    BY <2>1, EndsAfterStart
  <2>3. DayOf(since) \in Int
    BY <2>1 DEF DayOf
  <2> HIDE DEF latest, since
  <2> QED
    BY <2>1, <2>2, <2>3 DEF Entitled, Denoted, latest
<1>12. FlagAgreesWithPage'
    BY <1>8, <1>9, <1>11 DEF FlagAgreesWithPage, Entitled
<1> QED
    BY <1>7, <1>10, <1>12 DEF WalkInv, WindowIsKept

LEMMA RowsAreListed ==
    ASSUME WalkInv, NEW list \in {"vendors", "queue"}, List(list)
    PROVE  WalkInv'
<1>1. walk.list = list /\ walk.at = "request" /\ UNCHANGED <<now, catalogue, vendors, queue, answer>>
    BY DEF List
<1>2. PICK shown \in Pages(walk.list, Behind(walk.list, walk.cursor), walk.limit) : Turn(shown)
    BY <1>1 DEF List
<1>3. \A x \in Visible(walk.list) : ~Passed(x) => x \in Behind(walk.list, walk.cursor)
    BY DEF Passed, Behind
<1>4. walk.list \in Lists /\ Walking
    BY <1>1 DEF Lists, Walking
<1>5. (Record /\ Held /\ ListingsTypeOK /\ Idles /\ Stays /\ SeenIsPassed /\ RestIsAhead /\ WalkIsComplete)'
    BY <1>1, <1>2, <1>3, <1>4, PageServed
<1> QED
    BY <1>1, <1>5 DEF WalkInv, WindowIsKept, PageIsEntitled, FlagAgreesWithPage, Entitled

LEMMA TimePasses ==
    ASSUME WalkInv, Tick
    PROVE  WalkInv'
<1>1. now' = now + 1 /\ UNCHANGED <<catalogue, vendors, queue, walk, answer>>
    BY DEF Tick
<1>2. now \in Nat /\ now' \in Nat /\ now' >= now
    BY <1>1 DEF WalkInv, ListingsTypeOK
<1>3. \A r \in Rels : Entitled(r, HistoryWindow(walk.plan))' => Entitled(r, HistoryWindow(walk.plan))
  <2> TAKE r \in Rels
  <2>1. \A plan : Entitled(r, HistoryWindow(plan))' => Entitled(r, HistoryWindow(plan))
    BY <1>2, WindowMovesOn
  <2>2. Entitled(r, HistoryWindow(walk.plan))' => \E plan : plan = walk.plan /\ Entitled(r, HistoryWindow(plan))'
    BY <1>1 DEF Entitled, HistoryWindow
  <2> QED
    BY <2>1, <2>2
<1>4. \A x \in Kept : Owed(x)' => Owed(x)
  <2>1. walk.list = "history" => Kept \subseteq Rels
    BY DEF WalkInv, Stays, Visible, Mapped, ListingsTypeOK
  <2>2. ASSUME NEW x \in Kept, Owed(x)' PROVE Owed(x)
    <3>1. CASE walk.list # "history"
        BY <3>1 DEF Owed
    <3>2. CASE walk.list = "history"
        BY <3>2, <2>1, <2>2, <1>1, <1>3 DEF Owed
    <3> QED
        BY <3>1, <3>2
  <2> QED
    BY <2>2
<1>5. Visible(walk.list)' = Visible(walk.list) /\ \A x : RowPlace(walk.list, x)' = RowPlace(walk.list, x)
    BY <1>1 DEF Visible, Mapped, RowPlace
<1>6. (Stays /\ SeenIsPassed /\ RestIsAhead /\ WalkIsComplete)'
    BY <1>1, <1>4, <1>5, Undisturbed
<1> QED
    BY <1>1, <1>2, <1>6 DEF WalkInv, Record, Held, Idles, ListingsTypeOK, WindowIsKept, PageIsEntitled,
        FlagAgreesWithPage, Entitled

\* Rows come in.
LEMMA RowsComeIn ==
    ASSUME WalkInv, UNCHANGED <<now, queue, walk, answer>>,
           catalogue'.releases = catalogue.releases \/ \E r \in Rels : catalogue'.releases = catalogue.releases \union {r},
           DOMAIN catalogue' = DOMAIN catalogue, vendors \subseteq vendors', vendors' \subseteq Slugs
    PROVE  WalkInv'
<1>1. catalogue.releases \subseteq catalogue'.releases /\ catalogue'.releases \subseteq Rels /\ IsFiniteSet(catalogue'.releases)
    BY FS_AddElement DEF WalkInv, ListingsTypeOK, Held
<1>2. Visible(walk.list) \subseteq Visible(walk.list)' \/ walk.list = "none"
    BY <1>1 DEF Visible, Mapped, WalkInv, ListingsTypeOK, Lists
<1>3. \A x : RowPlace(walk.list, x)' = RowPlace(walk.list, x)
    BY DEF RowPlace
<1>4. \A x : Owed(x)' <=> Owed(x)
    BY DEF Owed, Entitled, HistoryWindow
<1>5. (Stays /\ SeenIsPassed /\ RestIsAhead /\ WalkIsComplete)'
    BY <1>2, <1>3, <1>4, Undisturbed
<1> QED
    BY <1>1, <1>5 DEF WalkInv, Record, Held, Idles, ListingsTypeOK, WindowIsKept, PageIsEntitled,
        FlagAgreesWithPage, Entitled

LEMMA ReleaseComesIn ==
    ASSUME WalkInv, NEW r \in Rels, Publish(r)
    PROVE  WalkInv'
<1>1. UNCHANGED <<now, vendors, queue, walk, answer>>
    BY DEF Publish
<1>2. \E flagged : catalogue' = [catalogue EXCEPT !.releases = @ \union {r}, !.flagged = flagged]
    BY DEF Publish
<1>3. "releases" \in DOMAIN catalogue
    BY DEF WalkInv, Held, Empty
<1>4. catalogue'.releases = catalogue.releases \union {r} /\ DOMAIN catalogue' = DOMAIN catalogue
    BY <1>2, <1>3
<1> QED
    BY <1>1, <1>4, RowsComeIn DEF WalkInv, ListingsTypeOK

\* One item of the queue loses its place, or leaves.
LEMMA ItemMoves ==
    ASSUME WalkInv, UNCHANGED <<now, catalogue, vendors, answer>>, NEW i \in DOMAIN queue,
           walk' = [walk EXCEPT !.moved = IF walk.list = "queue" THEN @ \union {i} ELSE @],
           \A j \in DOMAIN queue \ {i} : j \in DOMAIN queue' /\ queue'[j] = queue[j],
           DOMAIN queue' \subseteq DOMAIN queue, \A j \in DOMAIN queue' : queue'[j] \in Priorities
    PROVE  WalkInv'
<1>1. DOMAIN walk = {"list", "at", "plan", "channel", "limit", "cursor", "seen", "twice",
                     "there", "moved", "latest"}
    BY DEF WalkInv, Record, NoWalk
<1>2. /\ walk'.list = walk.list /\ walk'.at = walk.at /\ walk'.plan = walk.plan
      /\ walk'.limit = walk.limit /\ walk'.cursor = walk.cursor /\ walk'.seen = walk.seen
      /\ walk'.twice = walk.twice /\ walk'.there = walk.there /\ walk'.latest = walk.latest
      /\ walk'.moved = IF walk.list = "queue" THEN walk.moved \union {i} ELSE walk.moved
    BY <1>1
<1>3. Record' /\ Held' /\ ListingsTypeOK' /\ Idles'
    BY <1>2 DEF WalkInv, Record, Held, ListingsTypeOK, Idles
<1>4. walk.list # "none" =>
        /\ Visible(walk.list) \ walk'.moved \subseteq Visible(walk.list)'
        /\ \A x \in Visible(walk.list) \ walk'.moved : RowPlace(walk.list, x)' = RowPlace(walk.list, x)
  <2>1. CASE walk.list = "queue"
    BY <1>2, <2>1 DEF Visible, RowPlace
  <2>2. CASE walk.list \in {"history", "vendors"}
    BY <1>2, <2>2 DEF Visible, Mapped, RowPlace
  <2> QED
    BY <2>1, <2>2 DEF WalkInv, ListingsTypeOK, Lists
<1>5. \A x : Owed(x)' <=> Owed(x)
    BY <1>2 DEF Owed, Entitled, HistoryWindow
<1>6. (Stays /\ SeenIsPassed /\ RestIsAhead /\ WalkIsComplete)'
    BY <1>2, <1>4, <1>5, Undisturbed
<1> QED
    BY <1>3, <1>6 DEF WalkInv, WindowIsKept, PageIsEntitled, FlagAgreesWithPage, Entitled

LEMMA WalkInvIsKept ==
    ASSUME WalkInv, [ListingsNext]_listingsVars
    PROVE  WalkInv'
<1>1. ASSUME NEW list \in Lists, NEW plan \in Plans \union {""}, NEW channel \in Channels \union {""},
             NEW asked \in Asked, BeginWalk(list, plan, channel, asked)
      PROVE  WalkInv'
    BY <1>1, WalkBegins
<1>2. CASE LookupProduct
    BY <1>2, SummaryIsRead
<1>3. CASE ListReleases
    BY <1>3, ReleasesAreListed
<1>4. CASE ListVendors
    BY <1>4, RowsAreListed DEF ListVendors
<1>5. CASE ListReviewItems
    BY <1>5, RowsAreListed DEF ListReviewItems
<1>6. CASE Tick
    BY <1>6, TimePasses
<1>7. ASSUME NEW r \in Rels, Publish(r) PROVE WalkInv'
    BY <1>7, ReleaseComesIn
<1>8. ASSUME NEW s \in Slugs, AddVendor(s) PROVE WalkInv'
    BY <1>8, RowsComeIn DEF AddVendor, WalkInv, ListingsTypeOK
<1>9. ASSUME NEW i \in Items, Resolve(i) PROVE WalkInv'
  <2>1. /\ i \in DOMAIN queue /\ queue' = [j \in DOMAIN queue \ {i} |-> queue[j]]
        /\ UNCHANGED <<now, catalogue, vendors, answer>>
        /\ walk' = [walk EXCEPT !.moved = IF walk.list = "queue" THEN @ \union {i} ELSE @]
    BY <1>9 DEF Resolve
  <2>2. DOMAIN queue' = DOMAIN queue \ {i} /\ \A j \in DOMAIN queue \ {i} : queue'[j] = queue[j]
    BY <2>1
  <2>3. \A j \in DOMAIN queue' : queue'[j] \in Priorities
    BY <2>2 DEF WalkInv, ListingsTypeOK
  <2> QED
    BY <2>1, <2>2, <2>3, ItemMoves
<1>10. ASSUME NEW i \in Items, NEW priority \in Priorities, Retarget(i, priority) PROVE WalkInv'
  <2>1. /\ i \in DOMAIN queue /\ queue' = [queue EXCEPT ![i] = priority]
        /\ UNCHANGED <<now, catalogue, vendors, answer>>
        /\ walk' = [walk EXCEPT !.moved = IF walk.list = "queue" THEN @ \union {i} ELSE @]
    BY <1>10 DEF Retarget
  <2>2. /\ DOMAIN queue' = DOMAIN queue /\ queue'[i] = priority
        /\ \A j \in DOMAIN queue \ {i} : queue'[j] = queue[j]
    BY <2>1
  <2>3. \A j \in DOMAIN queue' : queue'[j] \in Priorities
    BY <2>2 DEF WalkInv, ListingsTypeOK
  <2> QED
    BY <2>1, <2>2, <2>3, ItemMoves
<1>11. CASE UNCHANGED listingsVars
  <2>1. UNCHANGED <<now, catalogue, vendors, queue, walk, answer>>
    BY <1>11 DEF listingsVars
  <2> QED
    BY <2>1, RowsComeIn DEF WalkInv, ListingsTypeOK
<1> QED
    BY <1>1, <1>2, <1>3, <1>4, <1>5, <1>6, <1>7, <1>8, <1>9, <1>10, <1>11 DEF ListingsNext

LEMMA WalkInvHolds == ListingsSpec => []WalkInv
<1>1. ListingsInit => WalkInv
    BY WalkInvHoldsAtFirst
<1>2. WalkInv /\ [ListingsNext]_listingsVars => WalkInv'
    BY WalkInvIsKept
<1> QED
    BY <1>1, <1>2, PTL DEF ListingsSpec

\* A page of the history under a plan with a window holds no release that lies before the
\* window however its date is read, and the flag of the same answer never speaks of a release
\* that the window holds (ListForProduct, latestOutsideWindow).
THEOREM WindowsAreKept == ListingsSpec => []WindowIsKept
<1>1. WalkInv => WindowIsKept
    BY DEF WalkInv
<1> QED
    BY <1>1, WalkInvHolds, PTL

\* Whatever is published, added, retargeted and resolved between two pages, no row that kept
\* its place is shown twice, and a walk that has come to its end has shown every row that was
\* there throughout (the cursors of ListForProduct, VendorRepo.List and ReviewRepo.List).
THEOREM WalksAreComplete == ListingsSpec => []WalkIsComplete
<1>1. WalkInv => WalkIsComplete
    BY DEF WalkInv
<1> QED
    BY <1>1, WalkInvHolds, PTL
=============================================================================
