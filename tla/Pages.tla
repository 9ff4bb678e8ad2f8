-------------------------------- MODULE Pages --------------------------------
(***************************************************************************)
(* The units of work that write releases and the pages that are derived    *)
(* from them: PublishRelease, what ValidateCandidate writes of a conflict  *)
(* and of a duplicate, the refreshes of a registry sync and the import of  *)
(* a snapshot, each a transaction at READ COMMITTED                        *)
(* (internal/adapters/postgres/db.go, Within), and the export, which reads *)
(* twice and in none.                                                      *)
(*                                                                         *)
(* A statement sees what was committed when it began and what its own unit *)
(* has written; a row that another open unit wrote makes it wait, and what *)
(* it then writes was computed from what it saw before it waited.          *)
(***************************************************************************)
EXTENDS CatalogueRows

CONSTANTS
    Units,      \* how many may be open, as a set of names
    Collected,  \* candidates that passed validation, each a release to be
    Committed,  \* what data/snapshot may hold at first: sets of lines
    MaxWithdrawn, \* how many releases an operator withdraws by hand
    MaxBegun    \* how many units begin

\* A candidate is for one registered product, and its release gets an id of its own, which no
\* file has.
ASSUME PagesAssumption ==
    /\ Collected \subseteq Rels
    /\ \A r \in Collected : \E p \in Registered : Fact[r].products = {p}
    /\ \A lines \in Committed : \A l \in lines :
           l.id \in Rels \ Collected /\ l.flags \subseteq Fact[l.id].products
    /\ MaxWithdrawn \in Nat /\ MaxBegun \in Nat

VARIABLES
    db,         \* what is committed, as in CatalogueRows
    page,       \* product -> its row of product_summaries, if it has one
    unit,       \* what each unit of work is doing
    begun,      \* how many were begun
    file,       \* the lines of data/snapshot/releases.ndjson
    export,     \* the lines an export under way has read, or None
    torn,       \* history: a unit committed between the two reads of that export
    behind      \* history: columns of pages that were computed before what they show was committed

vars == <<db, page, unit, begun, file, export, torn, behind>>

Keys == UNION {{KeyOf(r, p) : p \in Fact[r].products} : r \in Rels}

Idle == [kind |-> "none", at |-> "idle", rel |-> None, saw |-> {}, cleared |-> {}, ins |-> {},
         marks |-> {}, opens |-> {}, closes |-> {}, restates |-> {}, dup |-> None, confirms |-> {},
         time |-> 0, facts |-> {}, todo |-> {}, read |-> None, rows |-> <<>>, late |-> {}]

Init ==
    /\ db = Empty
    /\ page = <<>>
    /\ unit = [u \in Units |-> Idle]
    /\ begun = 0
    /\ file \in Committed
    /\ export = None /\ torn = FALSE /\ behind = {}

At(u, where) == unit[u].at = where
Open(u) == unit[u].at # "idle"
Others(u) == {w \in Units \ {u} : Open(w)}
Set(u, record) == unit' = [unit EXCEPT ![u] = record]
Begin(u, record) ==
    /\ ~Open(u) /\ begun < MaxBegun
    /\ Set(u, record) /\ begun' = begun + 1
    /\ UNCHANGED <<db, page, file, export, torn, behind>>
Step(u, record) ==
    /\ Set(u, record)
    /\ UNCHANGED <<db, page, begun, file, export, torn, behind>>

\* What the statements of a unit see: the committed rows and its own.
View(u) ==
    LET x == unit[u]
    IN  [db EXCEPT !.releases = @ \union x.ins,
                   !.flagged = (@ \ x.cleared) \union x.marks,
                   !.disputed = (@ \union x.opens) \ x.closes,
                   !.verified = [r \in Rels |-> IF r \in x.confirms THEN x.time ELSE db.verified[r]],
                   !.claims = [p \in Products |->
                        IF p \in x.opens \union x.restates THEN x.time ELSE db.claims[p]]]

-----------------------------------------------------------------------------
(* PublishRelease.                                                         *)

ProductOf(r) == CHOOSE p \in Fact[r].products : TRUE
Key(u) == KeyOf(unit[u].rel, ProductOf(unit[u].rel))
IsLatest(u) == unit[u].kind = "latest"

\* Execute up to the unit of work: LatestForProduct is read before it begins.
BeginPublish(u, r) ==
    /\ r \in Collected \ db.releases
    /\ \A w \in Others(u) : unit[w].rel # r
    /\ LET previous == LatestForProduct(db, ProductOf(r), Fact[r].channel)
           wins == BecomesLatest(r, previous)
       IN  Begin(u, [Idle EXCEPT !.kind = IF wins THEN "latest" ELSE "release", !.rel = r,
                               !.at = IF wins THEN "clear" ELSE "insert"])

\* ClearLatestFlag finds the rows to update and then waits for those that are locked.
ClearLatestFlag(u) ==
    /\ At(u, "clear")
    /\ Step(u, [unit[u] EXCEPT !.at = "clearing", !.saw = {<<r, Key(u)[1]>> : r \in Flagged(db, Key(u))}])

Cleared(u) ==
    /\ At(u, "clearing")
    /\ \A w \in Others(u) : unit[w].cleared \intersect unit[u].saw = {}
    /\ Step(u, [unit[u] EXCEPT !.at = "insert", !.cleared = unit[u].saw \intersect db.flagged])

\* A flag that another open unit sets or clears in this place of the unique index is waited for.
Contended(u, marks) ==
    \E w \in Others(u) : \E m \in marks, n \in unit[w].marks \union unit[w].cleared :
        KeyOf(m[1], m[2]) = KeyOf(n[1], n[2])
Roll(u) == Step(u, Idle)

MarkNever(u) == {}
Mark(u) == IF IsLatest(u) THEN {<<unit[u].rel, ProductOf(unit[u].rel)>>} ELSE {}
\* Insert: the release with its mapping, or a unique violation that ends the unit.
Insert(u) ==
    /\ At(u, "insert") /\ unit[u].rel # None
    /\ ~Contended(u, Mark(u))
    /\ IF NoClash(View(u), {[id |-> unit[u].rel, flags |-> {m[2] : m \in Mark(u)}]})
       THEN Step(u, [unit[u] EXCEPT !.at = "refresh", !.ins = {unit[u].rel}, !.marks = Mark(u),
                                   !.todo = {ProductOf(unit[u].rel)}])
       ELSE Roll(u)

-----------------------------------------------------------------------------
(* The other units.                                                        *)

\* ValidateCandidate: a conflict is opened or closed, and the page refreshed, or an open one
\* stated anew and the page left; then the release that the candidate repeats, if it does,
\* is confirmed.  The open row, or its place in the index, is waited for.  ResolveConflict
\* closes like it.
Unrefreshed(dup) == IF dup = None THEN "commit" ELSE "touch"
Validating(dup) == [Idle EXCEPT !.kind = "validate", !.dup = dup, !.time = begun + 1]
Validate(u, p, dup) ==
    /\ p \in Registered
    /\ dup = None \/ dup \in Mapped(db, p)
    /\ \A w \in Others(u) : p \notin unit[w].opens \union unit[w].closes \union unit[w].restates
    /\ \/ /\ p \notin db.disputed
          /\ Begin(u, [Validating(dup) EXCEPT !.at = "refresh", !.todo = {p}, !.opens = {p}])
       \/ /\ p \in db.disputed
          /\ \/ Begin(u, [Validating(dup) EXCEPT !.at = "refresh", !.todo = {p}, !.closes = {p}])
             \/ Begin(u, [Validating(dup) EXCEPT !.at = Unrefreshed(dup), !.restates = {p}])
       \/ dup # None /\ Begin(u, [Validating(dup) EXCEPT !.at = "touch"])

\* The last statement of such a unit; no page is refreshed after it.
TouchVerified(u) ==
    /\ At(u, "touch")
    /\ \A w \in Others(u) : unit[u].dup \notin unit[w].confirms
    /\ Step(u, [unit[u] EXCEPT !.at = "commit", !.confirms = {unit[u].dup}])

\* The last pass of SyncRegistry: a statement of its own for each product.
SyncSummary(u, p) ==
    /\ p \in Registered
    /\ Begin(u, [Idle EXCEPT !.kind = "sync", !.at = "refresh", !.todo = {p}])

\* ImportReleaseFacts.  The facts are written by one step; each is waited for like Insert.
\* One that another import has meanwhile added may also fail on the key, which Rollback is.
Import(u) ==
    /\ file # {}
    /\ Begin(u, [Idle EXCEPT !.kind = "import", !.at = "insert", !.facts = file])

\* A release that another open unit inserts.
Awaited(u, new) == \E w \in Others(u), l \in new : l.id \in unit[w].ins

Skipped(facts) == {l \in facts : ~SlugsKnown({l})}
InsertKnown(u) ==
    LET new == Missing(db, unit[u].facts \ Skipped(unit[u].facts)) IN
    /\ At(u, "insert") /\ unit[u].kind = "import"
    /\ ~Contended(u, MarksOf(new)) /\ ~Awaited(u, new)
    /\ IF Loads(db, unit[u].facts \ Skipped(unit[u].facts))
       THEN Step(u, [unit[u] EXCEPT !.ins = {l.id : l \in new}, !.marks = MarksOf(new),
                                   !.todo = Touched(new),
                                   !.at = IF new = {} THEN "commit" ELSE "refresh"])
       ELSE Roll(u)
InsertFacts(u) ==
    LET new == Missing(db, unit[u].facts) IN
    /\ At(u, "insert") /\ unit[u].kind = "import"
    /\ ~Contended(u, MarksOf(new)) /\ ~Awaited(u, new)
    /\ IF Loads(db, unit[u].facts)
       THEN Step(u, [unit[u] EXCEPT !.ins = {l.id : l \in new}, !.marks = MarksOf(new),
                                   !.todo = Touched(new),
                                   !.at = IF new = {} THEN "commit" ELSE "refresh"])
       ELSE Roll(u)

-----------------------------------------------------------------------------
(* RefreshProductSummary, Commit and Rollback, which all of them share.    *)

ReadCommitted(u, p) ==
    /\ At(u, "refresh") /\ p \in unit[u].todo
    /\ Step(u, [unit[u] EXCEPT !.at = "write", !.read = [product |-> p, row |-> SummaryRow(db, p)]])
\* The SELECT part sees what is committed now.
ReadSummary(u, p) ==
    /\ At(u, "refresh") /\ p \in unit[u].todo
    /\ Step(u, [unit[u] EXCEPT !.at = "write", !.read = [product |-> p, row |-> SummaryRow(View(u), p)]])

\* What f says, and what g says where f says nothing.
Over(f, g) == [x \in DOMAIN f \union DOMAIN g |-> IF x \in DOMAIN f THEN f[x] ELSE g[x]]
\* ON CONFLICT DO UPDATE waits for the row and then writes what was read.
WriteSummary(u) ==
    LET p == unit[u].read.product IN
    /\ At(u, "write")
    /\ \A w \in Others(u) : p \notin DOMAIN unit[w].rows
    /\ Step(u, [unit[u] EXCEPT !.rows = Over([q \in {p} |-> unit[u].read.row], @), !.todo = @ \ {p}, !.read = None,
                              !.at = IF unit[u].todo = {p} THEN Unrefreshed(unit[u].dup) ELSE "refresh"])

\* The products whose page a unit refreshes for what it wrote, and the columns that show what
\* it wrote and did not refresh.
Changes(u) == Touched({[id |-> r] : r \in unit[u].ins}) \union unit[u].opens \union unit[u].closes
Outdates(u) ==
    {at \in Products \X Columns :
        \/ at[2] = "verified" /\ \E r \in unit[u].confirms : at[1] \in Fact[r].products
        \/ at[2] = "claims" /\ at[1] \in unit[u].restates}
HasRead(w) == DOMAIN unit[w].rows \union (IF At(w, "write") THEN {unit[w].read.product} ELSE {})
CommitRows(u) ==
    /\ db' = View(u)
    /\ page' = Over(unit[u].rows, page)
Commit(u) ==
    /\ At(u, "commit")
    /\ CommitRows(u)
    /\ unit' = [w \in Units |->
                  IF w = u THEN Idle
                  ELSE [unit[w] EXCEPT !.late = @ \union
                            ((HasRead(w) \X Columns) \intersect
                                ((Changes(u) \X Columns) \union Outdates(u)))]]
    /\ torn' = (torn \/ export # None)
    /\ behind' = (behind \ ((DOMAIN unit[u].rows) \X Columns)) \union unit[u].late \union Outdates(u)
    /\ UNCHANGED <<begun, file, export>>

\* An error, a panic, a lost connection or the death of the process.
Rollback(u) ==
    /\ Open(u)
    /\ Roll(u)

\* dataset-correction-policy.md: an UPDATE that no code of the program makes.
Withdraw(r) ==
    /\ Cardinality(db.withdrawn) < MaxWithdrawn
    /\ r \in db.releases \ db.withdrawn
    /\ db' = [db EXCEPT !.withdrawn = @ \union {r}]
    /\ behind' = behind \union (Fact[r].products \X Columns)
    /\ unit' = [w \in Units |-> [unit[w] EXCEPT !.late = @ \union
                    ((HasRead(w) \X Columns) \intersect (Fact[r].products \X Columns))]]
    /\ torn' = (torn \/ export # None)
    /\ UNCHANGED <<page, begun, file, export>>

-----------------------------------------------------------------------------
(* `firmscout snapshot export`: two statements outside any transaction.    *)

ExportFacts ==
    /\ export = None
    /\ export' = {Line(db, r) : r \in db.releases}
    /\ torn' = FALSE
    /\ UNCHANGED <<db, page, unit, begun, file, behind>>

AttachNone(lines) == lines
AttachMappings(lines) == WithMappings(db, lines)
\* attachMappings, Validate and the file; a line that is not valid ends it without one.
WriteFile ==
    /\ export # None
    /\ export' = None
    /\ IF \A l \in AttachMappings(export) : ValidLine(l)
       THEN file' = AttachMappings(export) ELSE UNCHANGED file
    /\ UNCHANGED <<db, page, unit, begun, torn, behind>>

Next ==
    \/ \E r \in Rels : Withdraw(r)
    \/ \E u \in Units, r \in Rels : BeginPublish(u, r)
    \/ \E u \in Units, p \in Products, dup \in Rels \union {None} : Validate(u, p, dup)
    \/ \E u \in Units, p \in Products : SyncSummary(u, p) \/ ReadSummary(u, p)
    \/ \E u \in Units :
        \/ ClearLatestFlag(u) \/ Cleared(u) \/ Insert(u) \/ Import(u) \/ InsertFacts(u)
        \/ WriteSummary(u) \/ TouchVerified(u) \/ Commit(u) \/ Rollback(u)
    \/ ExportFacts \/ WriteFile

Spec == Init /\ [][Next]_vars

-----------------------------------------------------------------------------
(* Properties.                                                             *)

TypeOK ==
    /\ db.releases \subseteq Rels /\ db.withdrawn \subseteq db.releases
    /\ \A m \in db.flagged : m[1] \in db.releases /\ m[2] \in Fact[m[1]].products
    /\ db.disputed \subseteq Products /\ behind \subseteq Products \X Columns
    /\ DOMAIN page \subseteq Products
    /\ \A u \in Units : /\ DOMAIN unit[u] = DOMAIN Idle
                        /\ unit[u].ins \intersect db.releases = {}
                        /\ unit[u].cleared \subseteq db.flagged
    /\ torn \in BOOLEAN

\* A product and channel that has a release marked as its latest never loses the mark and
\* never has two, whatever units run into each other there and whichever of them fail.
FlagStays ==
    [][\A k \in Keys : Flagged(db, k) # {} => Cardinality(Flagged(db', k)) = 1]_vars

\* The page of a product says what the tables say, column by column, but for what another
\* unit committed after the page had been computed and before it was, for a withdrawal by
\* hand, and for the two columns that ValidateCandidate leaves: when a release was last
\* verified, and the versions and sources of a conflict that was open already.
PageIsCurrent ==
    \A p \in Products :
        IF p \in DOMAIN page
        THEN LET row == SummaryRow(db, p)
             IN  \A c \in Columns : <<p, c>> \notin behind => page[p][c] = row[c]
        ELSE Mapped(db, p) = {}

\* An import that commits has added every fact of its file and changed none that was
\* there: no release, no mark, no withdrawal.
ImportIsWhole ==
    [][\A u \in Units :
        (unit[u].kind = "import" /\ unit'[u] = Idle /\ db' # db) =>
            /\ db'.releases = db.releases \union {l.id : l \in unit[u].facts}
            /\ {m \in db'.flagged : m[1] \in db.releases} = db.flagged
            /\ db'.withdrawn = db.withdrawn]_vars

\* What an export writes while nothing else commits, and nothing was withdrawn, loads into
\* an empty installation of the same registry and restores releases and marks.
ExportLoadsBack ==
    [][(export # None /\ export' = None /\ ~torn /\ db.withdrawn = {}) =>
        /\ Loads(Empty, file')
        /\ Load(Empty, file').releases = db.releases
        /\ Load(Empty, file').flagged = db.flagged]_vars

=============================================================================
