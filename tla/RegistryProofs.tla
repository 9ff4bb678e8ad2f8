--------------------------- MODULE RegistryProofs ---------------------------
(***************************************************************************)
(* Proofs about Registry, for any checkouts, any number of syncs, stops    *)
(* and publications.                                                       *)
(*                                                                         *)
(* The second part is about Watcher, whose source row a sync writes too:   *)
(* no change that a check has recorded is forgotten.                       *)
(***************************************************************************)
EXTENDS Registry, Watcher, TLAPS

-----------------------------------------------------------------------------
(* What the loader makes of a document.                                    *)

KindsOfDocument == {"vendor", "category", "family", "product", "source"}

\* A source that is accepted is the raw one but for what it left out.
LEMMA ParsedSource ==
    ASSUME NEW d, SourceFields \subseteq DOMAIN d, ParseSource(d) # Rejected
    PROVE  LET s == ParseSource(d)
           IN  /\ s.kind = d.kind /\ s.vendor = d.vendor /\ s.slug = d.slug
               /\ s.robots = OrDefault(d.robots, "unknown")
               /\ s.terms = OrDefault(d.terms, "pending")
<1> DEFINE s == [d EXCEPT !.robots = OrDefault(@, "unknown"),
                          !.terms = OrDefault(@, "pending"),
                          !.class = OrDefault(@, "unknown_third_party"),
                          !.enabled = OrDefault(@, FALSE),
                          !.health = OrDefault(@, "discovered")]
<1>1. ParseSource(d) = s
    BY DEF ParseSource, Accept
<1>2. /\ s.kind = d.kind /\ s.vendor = d.vendor /\ s.slug = d.slug
      /\ s.robots = OrDefault(d.robots, "unknown") /\ s.terms = OrDefault(d.terms, "pending")
    BY DEF SourceFields
<1> HIDE DEF s
<1> QED
    BY <1>1, <1>2

\* A document that is accepted is of one of the kinds, and of the kind of the raw one.
LEMMA ParsedKind ==
    ASSUME NEW d, d.kind = "source" => SourceFields \subseteq DOMAIN d,
           ParseDocument(d) # Rejected
    PROVE  ParseDocument(d).kind = d.kind /\ d.kind \in KindsOfDocument
<1>1. d.kind \in KindsOfDocument
    BY DEF ParseDocument, KindsOfDocument
<1>2. CASE d.kind = "source"
    <2>1. ParseDocument(d) = ParseSource(d)
        BY <1>2 DEF ParseDocument
    <2> QED
        BY <1>1, <1>2, <2>1, ParsedSource
<1>3. CASE d.kind # "source"
    <2>1. ParseDocument(d) = d
        BY <1>1, <1>3 DEF ParseDocument, KindsOfDocument, ParseVendor, ParseCategory,
           ParseFamily, ParseProduct, Accept
    <2> QED
        BY <1>1, <2>1
<1> QED
    BY <1>2, <1>3

\* The documents of a sync are those of a checkout, each of them accepted.
Loaded ==
    docs # <<>> =>
        \E files \in Checkouts : \A at \in DOMAIN docs :
            /\ at \in Places(files)
            /\ docs[at] = ParseDocument(files[at[1]][at[2]])
            /\ docs[at] # Rejected
KindsKnown == \A at \in DOMAIN docs : docs[at].kind \in KindsOfDocument

LEMMA NoDocuments == DOMAIN <<>> = {}
BY SMT

LEMMA LoadedKinds == Loaded => KindsKnown
<1> SUFFICES ASSUME Loaded, NEW at \in DOMAIN docs PROVE docs[at].kind \in KindsOfDocument
    BY DEF KindsKnown
<1>1. docs # <<>>
    BY NoDocuments
<1>2. PICK files \in Checkouts :
          /\ at \in Places(files) /\ docs[at] = ParseDocument(files[at[1]][at[2]])
          /\ docs[at] # Rejected
    BY <1>1 DEF Loaded
<1> QED
    BY <1>2, ParsedKind, RegistryAssumption

LEMMA PlaceOf ==
    ASSUME NEW files, NEW at \in Places(files)
    PROVE  at[1] \in DOMAIN files /\ at[2] \in DOMAIN files[at[1]]
BY DEF Places

LEMMA LoadedByLoad ==
    ASSUME checkout \in Checkouts, Loads(checkout), docs' = Load(checkout)
    PROVE  Loaded'
<1>1. ASSUME NEW at \in DOMAIN docs'
      PROVE  /\ at \in Places(checkout)
             /\ docs'[at] = ParseDocument(checkout[at[1]][at[2]])
             /\ docs'[at] # Rejected
    <2>1. at \in Places(checkout) /\ docs'[at] = ParseDocument(checkout[at[1]][at[2]])
        BY <1>1 DEF Load
    <2> QED
        BY <2>1, PlaceOf DEF Loads
<1> QED
    BY <1>1 DEF Loaded

-----------------------------------------------------------------------------
(* The visits and their order.                                             *)

Visit(n, at, k) == [pass |-> n, at |-> at, step |-> k]

\* The places that the sync has been to, in a step of a pass.
Done(n, k) == {at \in DOMAIN docs : Visit(n, at, k) \in Schedule(docs) \ todo}

InOrder ==
    /\ todo \subseteq Schedule(docs)
    /\ \A u \in Schedule(docs) \ todo, w \in todo : Before(u, w)

LEMMA PassesAre ==
    /\ DOMAIN Passes = 1..8
    /\ \A n \in {1, 2, 3, 4, 6, 7, 8} : DOMAIN Passes[n] = {1}
    /\ DOMAIN Passes[5] = {1, 2}
    /\ Passes[1][1] = "vendors" /\ Passes[2][1] = "categories" /\ Passes[3][1] = "parents"
    /\ Passes[4][1] = "families" /\ Passes[5][1] = "products" /\ Passes[5][2] = "aliases"
    /\ Passes[6][1] = "edges" /\ Passes[7][1] = "sources" /\ Passes[8][1] = "summaries"
BY SMT DEF Passes

\* A scheduled visit is one of a step of a pass at a document.
LEMMA ScheduledVisit ==
    ASSUME NEW v \in Schedule(docs)
    PROVE  /\ v.pass \in DOMAIN Passes /\ v.step \in DOMAIN Passes[v.pass]
           /\ v.at \in DOMAIN docs
           /\ v = Visit(v.pass, v.at, v.step)
           /\ Passes[v.pass][v.step] \in PassesOf[docs[v.at].kind]
BY DEF Schedule, Visits, Visit

LEMMA VisitScheduled ==
    ASSUME NEW n \in DOMAIN Passes, NEW k \in DOMAIN Passes[n], NEW at
    PROVE  Visit(n, at, k) \in Schedule(docs) <=>
               at \in DOMAIN docs /\ Passes[n][k] \in PassesOf[docs[at].kind]
<1>1. ASSUME at \in DOMAIN docs PROVE Visit(n, at, k) \in Visits(docs)
    BY <1>1 DEF Visits, Visit
<1>2. ASSUME Visit(n, at, k) \in Visits(docs) PROVE at \in DOMAIN docs
    BY <1>2 DEF Visits, Visit
<1>3. Visit(n, at, k).pass = n /\ Visit(n, at, k).at = at /\ Visit(n, at, k).step = k
    BY DEF Visit
<1> QED
    BY <1>1, <1>2, <1>3 DEF Schedule

\* Each step is for the documents of one kind.
Concerns(n, k, kind) ==
    \A at : Visit(n, at, k) \in Schedule(docs) <=> at \in Documents(kind)
LEMMA EachStepConcerns ==
    ASSUME KindsKnown
    PROVE  /\ Concerns(1, 1, "vendor") /\ Concerns(2, 1, "category") /\ Concerns(3, 1, "category")
           /\ Concerns(4, 1, "family") /\ Concerns(5, 1, "product") /\ Concerns(5, 2, "product")
           /\ Concerns(6, 1, "product") /\ Concerns(7, 1, "source")
           /\ Concerns(8, 1, "product")
<1>1. ASSUME NEW kind \in KindsOfDocument, NEW n \in DOMAIN Passes, NEW k \in DOMAIN Passes[n],
             \A other \in KindsOfDocument : Passes[n][k] \in PassesOf[other] <=> other = kind
      PROVE  Concerns(n, k, kind)
    BY <1>1, VisitScheduled DEF Concerns, Documents, KindsKnown
<1>2. \A kind \in KindsOfDocument :
          /\ "vendors" \in PassesOf[kind] <=> kind = "vendor"
          /\ "categories" \in PassesOf[kind] <=> kind = "category"
          /\ "parents" \in PassesOf[kind] <=> kind = "category"
          /\ "families" \in PassesOf[kind] <=> kind = "family"
          /\ "products" \in PassesOf[kind] <=> kind = "product"
          /\ "aliases" \in PassesOf[kind] <=> kind = "product"
          /\ "edges" \in PassesOf[kind] <=> kind = "product"
          /\ "sources" \in PassesOf[kind] <=> kind = "source"
          /\ "summaries" \in PassesOf[kind] <=> kind = "product"
    BY DEF PassesOf, KindsOfDocument
<1>3. KindsOfDocument = {"vendor", "category", "family", "product", "source"}
    BY DEF KindsOfDocument
<1>4. Concerns(1, 1, "vendor")
    BY <1>1, <1>2, <1>3, PassesAre
<1>5. Concerns(2, 1, "category") /\ Concerns(3, 1, "category")
    BY <1>1, <1>2, <1>3, PassesAre
<1>6. Concerns(4, 1, "family") /\ Concerns(7, 1, "source")
    BY <1>1, <1>2, <1>3, PassesAre
<1>7. Concerns(5, 1, "product") /\ Concerns(5, 2, "product")
    BY <1>1, <1>2, <1>3, PassesAre
<1>8. Concerns(6, 1, "product") /\ Concerns(8, 1, "product")
    BY <1>1, <1>2, <1>3, PassesAre
<1> QED
    BY <1>4, <1>5, <1>6, <1>7, <1>8

\* A step is known by its name.
LEMMA VisitAt ==
    ASSUME NEW v \in Schedule(docs)
    PROVE  /\ At("vendors", v) => v = Visit(1, v.at, 1)
           /\ At("categories", v) => v = Visit(2, v.at, 1)
           /\ At("parents", v) => v = Visit(3, v.at, 1)
           /\ At("families", v) => v = Visit(4, v.at, 1)
           /\ At("products", v) => v = Visit(5, v.at, 1)
           /\ At("aliases", v) => v = Visit(5, v.at, 2)
           /\ At("edges", v) => v = Visit(6, v.at, 1)
           /\ At("sources", v) => v = Visit(7, v.at, 1)
           /\ At("summaries", v) => v = Visit(8, v.at, 1)
<1>1. v.pass \in 1..8 /\ v.step \in DOMAIN Passes[v.pass] /\ v = Visit(v.pass, v.at, v.step)
    BY ScheduledVisit, PassesAre
<1>2. v.pass \in {1, 2, 3, 4, 5, 6, 7, 8}
    BY <1>1
<1>3. \/ v.pass \in {1, 2, 3, 4, 6, 7, 8} /\ v.step = 1
      \/ v.pass = 5 /\ v.step \in {1, 2}
    BY <1>1, <1>2, PassesAre
<1> QED
    BY <1>1, <1>3, PassesAre DEF At

\* When the sync comes to a place in a step, it has been to those before it in that step, to
\* all in the passes before and to none in those after.
LEMMA WhatIsDone ==
    ASSUME InOrder, NEW n \in 1..8, NEW k \in 1..2, NEW at, Visit(n, at, k) \in Due
    PROVE  /\ \A other \in Done(n, k) : Earlier(other, at)
           /\ \A m \in 1..8, j \in 1..2 : m < n =>
                  \A other : Visit(m, other, j) \in Schedule(docs) => other \in Done(m, j)
           /\ \A m \in 1..8, j \in 1..2 : n < m => Done(m, j) = {}
<1>1. ASSUME NEW m \in 1..8, NEW j \in 1..2, NEW other
      PROVE  /\ Visit(m, other, j).pass = m /\ Visit(m, other, j).at = other
             /\ Visit(m, other, j).step = j
    BY DEF Visit
<1>2. ASSUME NEW other \in Done(n, k) PROVE Earlier(other, at)
    <2>1. Before(Visit(n, other, k), Visit(n, at, k))
        BY <1>2 DEF Done, InOrder, Due
    <2> QED
        BY <1>1, <2>1 DEF Before
<1>3. ASSUME NEW m \in 1..8, NEW j \in 1..2, m < n, NEW other,
             Visit(m, other, j) \in Schedule(docs)
      PROVE  other \in Done(m, j)
    <2>1. CASE Visit(m, other, j) \in todo
        <3>1. Visit(m, other, j) # Visit(n, at, k)
            BY <1>1, <1>3
        <3>2. Before(Visit(n, at, k), Visit(m, other, j))
            BY <2>1, <3>1 DEF Due
        <3> QED
            BY <1>1, <1>3, <3>2 DEF Before
    <2> QED
        BY <1>3, <2>1, ScheduledVisit, <1>1 DEF Done
<1>4. ASSUME NEW m \in 1..8, NEW j \in 1..2, n < m PROVE Done(m, j) = {}
    <2> SUFFICES ASSUME NEW other \in Done(m, j) PROVE FALSE
        OBVIOUS
    <2>1. Before(Visit(m, other, j), Visit(n, at, k))
        BY DEF Done, InOrder, Due
    <2> QED
        BY <1>1, <1>4, <2>1 DEF Before
<1> QED
    BY <1>2, <1>3, <1>4

\* What a visit that is made leaves to be done.
LEMMA VisitMade ==
    ASSUME InOrder, NEW n \in 1..8, NEW k \in 1..2, NEW at, Visit(n, at, k) \in Due,
           Advance(Visit(n, at, k))
    PROVE  /\ InOrder'
           /\ Done(n, k)' = Done(n, k) \union {at}
           /\ \A m \in 1..8, j \in 1..2 : <<m, j>> # <<n, k>> => Done(m, j)' = Done(m, j)
<1> DEFINE v == Visit(n, at, k)
<1>1. v \in todo /\ v \in Schedule(docs) /\ at \in DOMAIN docs
    BY ScheduledVisit DEF Due, InOrder, Visit
<1>2. todo' = todo \ {v} /\ docs' = docs /\ Schedule(docs)' = Schedule(docs)
    BY DEF Advance, Schedule, Visits, Passes, PassesOf
<1>3. InOrder'
    <2>1. ASSUME NEW u \in Schedule(docs) \ todo', NEW w \in todo' PROVE Before(u, w)
        BY <1>1, <1>2, <2>1 DEF InOrder, Due
    <2> QED
        BY <1>2, <2>1 DEF InOrder
<1>4. Done(n, k)' = Done(n, k) \union {at}
    <2>1. ASSUME NEW other PROVE Visit(n, other, k) = v <=> other = at
        BY DEF Visit
    <2> HIDE DEF v
    <2> QED
        BY <1>1, <1>2, <2>1 DEF Done, v
<1>5. ASSUME NEW m \in 1..8, NEW j \in 1..2, <<m, j>> # <<n, k>> PROVE Done(m, j)' = Done(m, j)
    <2>1. ASSUME NEW other PROVE Visit(m, other, j) # v
        BY <1>5 DEF Visit
    <2> HIDE DEF v
    <2> QED
        BY <1>1, <1>2, <2>1 DEF Done
<1> QED
    BY <1>3, <1>4, <1>5

-----------------------------------------------------------------------------
(* What the tables say of the documents that the sync has been to.         *)

VendorsSaid ==
    \A at \in Done(1, 1) :
        /\ docs[at].slug \in DOMAIN vendors
        /\ Lasts(at, Done(1, 1)) => vendors[docs[at].slug] = docs[at].name

Linked == Linking \intersect Done(3, 1)
CategoriesSaid ==
    \A at \in Done(2, 1) :
        /\ docs[at].slug \in DOMAIN categories
        /\ docs[at].slug \notin {docs[other].slug : other \in Linked} =>
               categories[docs[at].slug] = Omitted
ParentsSaid ==
    \A at \in Linked :
        /\ docs[at].slug \in DOMAIN categories
        /\ Lasts(at, Linked) => categories[docs[at].slug] = docs[at].parent

FamiliesSaid == \A at \in Done(4, 1) : Key(docs[at]) \in families

RowOf(d) ==
    [vendor |-> d.vendor, family |-> d.family, name |-> d.name, categories |-> d.categories]
ProductsSaid ==
    \A at \in Done(5, 1) :
        /\ docs[at].slug \in DOMAIN products
        /\ Lasts(at, Done(5, 1)) => products[docs[at].slug] = RowOf(docs[at])

AliasesOf(d) == {d.aliases[i].normal : i \in DOMAIN d.aliases}
AliasesSaid ==
    \A at \in Done(5, 2) :
        /\ docs[at].slug \in DOMAIN aliases
        /\ Lasts(at, Done(5, 2)) => DOMAIN aliases[docs[at].slug] = AliasesOf(docs[at])

EdgesSaid ==
    \A at \in Done(6, 1) :
        /\ docs[at].slug \in DOMAIN edges
        /\ Lasts(at, Done(6, 1)) => edges[docs[at].slug] = Range(docs[at].runs)

Declares(row, d) ==
    /\ row.product = d.product /\ row.enabled = d.enabled
    /\ row.robots = d.robots /\ row.terms = d.terms
SourcesSaid ==
    \A at \in Done(7, 1) :
        /\ Key(docs[at]) \in DOMAIN sources
        /\ Lasts(at, Done(7, 1)) => Declares(sources[Key(docs[at])], docs[at])

SummariesSaid ==
    \A at \in Done(8, 1) :
        /\ docs[at].slug \in DOMAIN summaries
        /\ summaries[docs[at].slug] = SummaryOf(docs[at].slug)

Said ==
    /\ VendorsSaid /\ CategoriesSaid /\ ParentsSaid /\ FamiliesSaid /\ ProductsSaid
    /\ AliasesSaid /\ EdgesSaid /\ SourcesSaid /\ SummariesSaid

\* A row that is written is there, and the others are as they were.
LEMMA PutWrites ==
    ASSUME NEW table, NEW key, NEW row
    PROVE  /\ key \in DOMAIN Put(table, key, row)
           /\ Put(table, key, row)[key] = row
           /\ \A k \in DOMAIN table :
                  /\ k \in DOMAIN Put(table, key, row)
                  /\ k # key => Put(table, key, row)[k] = table[k]
BY DEF Put

\* Who is still the last of its name after one more has its own name.
LEMMA LastOfMore ==
    ASSUME NEW S, NEW at, \A other \in S : Earlier(other, at),
           NEW u \in S, Lasts(u, S \union {at})
    PROVE  Lasts(u, S) /\ Name(docs[u]) # Name(docs[at])
BY DEF Lasts

LEMMA NamesOfKinds ==
    /\ \A at \in Documents("vendor") \union Documents("category") \union Documents("product") :
           Name(docs[at]) = docs[at].slug
    /\ \A at \in Documents("source") : Name(docs[at]) = Key(docs[at])
BY DEF Documents, Name

\* What a table says of the documents lasts as long as nobody writes to it.
LEMMA SaidUntouched ==
    ASSUME docs' = docs
    PROVE  /\ VendorsSaid /\ vendors' = vendors /\ Done(1, 1)' = Done(1, 1) => VendorsSaid'
           /\ /\ CategoriesSaid /\ ParentsSaid /\ categories' = categories
              /\ Done(2, 1)' = Done(2, 1) /\ Done(3, 1)' = Done(3, 1)
              => CategoriesSaid' /\ ParentsSaid'
           /\ FamiliesSaid /\ families' = families /\ Done(4, 1)' = Done(4, 1) => FamiliesSaid'
           /\ ProductsSaid /\ products' = products /\ Done(5, 1)' = Done(5, 1) => ProductsSaid'
           /\ AliasesSaid /\ aliases' = aliases /\ Done(5, 2)' = Done(5, 2) => AliasesSaid'
           /\ EdgesSaid /\ edges' = edges /\ Done(6, 1)' = Done(6, 1) => EdgesSaid'
           /\ SourcesSaid /\ sources' = sources /\ Done(7, 1)' = Done(7, 1) => SourcesSaid'
           /\ Done(8, 1)' = {} => SummariesSaid'
<1>2. VendorsSaid /\ vendors' = vendors /\ Done(1, 1)' = Done(1, 1) => VendorsSaid'
    BY DEF VendorsSaid, Lasts, Name, Key
<1>3. ASSUME CategoriesSaid, ParentsSaid, categories' = categories,
             Done(2, 1)' = Done(2, 1), Done(3, 1)' = Done(3, 1)
      PROVE  CategoriesSaid' /\ ParentsSaid'
    <2>1. Linked' = Linked
        BY <1>3 DEF Linked, Linking, Documents
    <2> QED
        BY <1>3, <2>1 DEF CategoriesSaid, ParentsSaid, Lasts, Name, Key
<1>4. FamiliesSaid /\ families' = families /\ Done(4, 1)' = Done(4, 1) => FamiliesSaid'
    BY DEF FamiliesSaid, Key
<1>5. ProductsSaid /\ products' = products /\ Done(5, 1)' = Done(5, 1) => ProductsSaid'
    BY DEF ProductsSaid, Lasts, Name, Key, RowOf
<1>6. AliasesSaid /\ aliases' = aliases /\ Done(5, 2)' = Done(5, 2) => AliasesSaid'
    BY DEF AliasesSaid, Lasts, Name, Key, AliasesOf
<1>7. EdgesSaid /\ edges' = edges /\ Done(6, 1)' = Done(6, 1) => EdgesSaid'
    BY DEF EdgesSaid, Lasts, Name, Key, Range
<1>8. SourcesSaid /\ sources' = sources /\ Done(7, 1)' = Done(7, 1) => SourcesSaid'
    BY DEF SourcesSaid, Lasts, Name, Key, Declares
<1>9. Done(8, 1)' = {} => SummariesSaid'
    BY DEF SummariesSaid
<1> QED
    BY <1>2, <1>3, <1>4, <1>5, <1>6, <1>7, <1>8, <1>9

\* Where the sync is when it makes a visit, and what it has then done.
LEMMA VisitOf ==
    ASSUME InOrder, NEW v \in Due, NEW n \in 1..8, NEW k \in 1..2, v = Visit(n, v.at, k),
           Advance(v)
    PROVE  /\ v \in Schedule(docs) /\ v.at \in DOMAIN docs /\ docs' = docs
           /\ \A other \in Done(n, k) : Earlier(other, v.at)
           /\ \A m \in 1..8, j \in 1..2 : n < m => Done(m, j) = {}
           /\ Done(n, k)' = Done(n, k) \union {v.at}
           /\ \A m \in 1..8, j \in 1..2 : <<m, j>> # <<n, k>> => Done(m, j)' = Done(m, j)
<1>1. v \in Schedule(docs)
    BY DEF InOrder, Due
<1>2. v.at \in DOMAIN docs /\ docs' = docs
    BY <1>1, ScheduledVisit DEF Advance
<1>3. Visit(n, v.at, k) \in Due /\ Advance(Visit(n, v.at, k))
    OBVIOUS
<1> QED
    BY ONLY <1>1, <1>2, <1>3, WhatIsDone, VisitMade, InOrder, n \in 1..8, k \in 1..2

\* The documents that a step has been to are of the kind that it concerns.
LEMMA DoneOfKind ==
    ASSUME NEW n, NEW k, NEW kind, Concerns(n, k, kind)
    PROVE  Done(n, k) \subseteq Documents(kind)
BY DEF Concerns, Done

LEMMA VendorSaid ==
    ASSUME KindsKnown, InOrder, Said, NEW v \in Due, UpsertVendor(v)
    PROVE  Said'
<1>1. v = Visit(1, v.at, 1) /\ Advance(v)
    BY VisitAt DEF UpsertVendor, InOrder, Due
<1>2. /\ v \in Schedule(docs) /\ v.at \in DOMAIN docs /\ docs' = docs
      /\ \A other \in Done(1, 1) : Earlier(other, v.at)
      /\ Done(1, 1)' = Done(1, 1) \union {v.at}
      /\ \A m \in 1..8, j \in 1..2 : <<m, j>> # <<1, 1>> => Done(m, j)' = Done(m, j)
      /\ Done(8, 1) = {}
    BY <1>1, VisitOf
<1>3. Done(1, 1) \union {v.at} \subseteq Documents("vendor")
    BY <1>1, <1>2, EachStepConcerns, DoneOfKind DEF Concerns
<1>4. vendors' = Put(vendors, docs[v.at].slug, docs[v.at].name)
    BY DEF UpsertVendor, Doc
<1>5. VendorsSaid'
    <2> SUFFICES ASSUME NEW at \in Done(1, 1) \union {v.at}
                 PROVE  /\ docs[at].slug \in DOMAIN vendors'
                        /\ Lasts(at, Done(1, 1) \union {v.at}) =>
                               vendors'[docs[at].slug] = docs[at].name
        BY <1>2 DEF VendorsSaid, Lasts, Name, Key
    <2>1. CASE docs[at].slug = docs[v.at].slug /\ at # v.at
        <3>1. ~Lasts(at, Done(1, 1) \union {v.at})
            BY <1>2, <1>3, <2>1, NamesOfKinds DEF Lasts
        <3> QED
            BY <1>4, <2>1, <3>1, PutWrites
    <2>2. CASE docs[at].slug # docs[v.at].slug
        <3>1. at \in Done(1, 1)
            BY <2>2
        <3> QED
            BY <1>2, <1>4, <2>2, <3>1, PutWrites, LastOfMore DEF Said, VendorsSaid
    <2>3. CASE at = v.at
        BY <1>4, <2>3, PutWrites
    <2> QED
        BY <2>1, <2>2, <2>3
<1> QED
    BY <1>2, <1>5, SaidUntouched DEF Said, UpsertVendor

LEMMA CategorySaid ==
    ASSUME KindsKnown, InOrder, Said, NEW v \in Due, UpsertCategory(v)
    PROVE  Said'
<1>1. v = Visit(2, v.at, 1) /\ Advance(v)
    BY VisitAt DEF UpsertCategory, InOrder, Due
<1>2. /\ v \in Schedule(docs) /\ v.at \in DOMAIN docs /\ docs' = docs
      /\ Done(2, 1)' = Done(2, 1) \union {v.at}
      /\ \A m \in 1..8, j \in 1..2 : <<m, j>> # <<2, 1>> => Done(m, j)' = Done(m, j)
      /\ Done(3, 1) = {} /\ Done(8, 1) = {}
    BY <1>1, VisitOf
<1>3. categories' = Put(categories, docs[v.at].slug, Omitted)
    BY DEF UpsertCategory, PutCategory, Doc
\* No parent has been linked yet.
<1>4. Linked = {} /\ Linked' = {}
    BY <1>2 DEF Linked
<1>5. CategoriesSaid' /\ ParentsSaid'
    <2>1. ASSUME NEW at \in Done(2, 1) \union {v.at}
          PROVE  /\ docs[at].slug \in DOMAIN categories'
                 /\ categories'[docs[at].slug] = Omitted
        BY <1>3, <1>4, <2>1, PutWrites DEF Said, CategoriesSaid
    <2> QED
        BY <1>2, <1>4, <2>1 DEF CategoriesSaid, ParentsSaid
<1> QED
    BY <1>2, <1>5, SaidUntouched DEF Said, UpsertCategory

LEMMA ParentSaid ==
    ASSUME KindsKnown, InOrder, Said, NEW v \in Due, LinkParent(v)
    PROVE  Said'
<1>1. v = Visit(3, v.at, 1) /\ Advance(v)
    BY VisitAt DEF LinkParent, InOrder, Due
<1>2. /\ v \in Schedule(docs) /\ v.at \in DOMAIN docs /\ docs' = docs
      /\ \A other \in Done(3, 1) : Earlier(other, v.at)
      /\ Done(3, 1)' = Done(3, 1) \union {v.at}
      /\ \A m \in 1..8, j \in 1..2 : <<m, j>> # <<3, 1>> => Done(m, j)' = Done(m, j)
      /\ Done(8, 1) = {}
    BY <1>1, VisitOf
<1>3. Done(3, 1) \union {v.at} \subseteq Documents("category")
    BY <1>1, <1>2, EachStepConcerns, DoneOfKind DEF Concerns
<1>4. Linking' = Linking /\ Linked' = Linking \intersect (Done(3, 1) \union {v.at})
    BY <1>2 DEF Linked, Linking, Documents
<1>5. CategoriesSaid' /\ ParentsSaid'
    <2>1. CASE docs[v.at].parent = Omitted
        <3>1. Linked' = Linked /\ categories' = categories
            BY <1>4, <2>1 DEF Linked, Linking, LinkParent, Doc
        <3> QED
            BY <1>2, <3>1 DEF Said, CategoriesSaid, ParentsSaid, Lasts, Name, Key
    <2>2. CASE docs[v.at].parent # Omitted
        <3>1. categories' = Put(categories, docs[v.at].slug, docs[v.at].parent)
            BY <2>2 DEF LinkParent, PutCategory, Doc
        <3>2. Linked' = Linked \union {v.at}
            BY <1>3, <1>4, <2>2 DEF Linked, Linking
        <3>3. Linked \subseteq Documents("category") /\ Linked \subseteq Done(3, 1)
            BY DEF Linked, Linking
        <3>4. ASSUME NEW at \in Linked \union {v.at}
              PROVE  /\ docs[at].slug \in DOMAIN categories'
                     /\ Lasts(at, Linked \union {v.at}) =>
                            categories'[docs[at].slug] = docs[at].parent
            <4>1. CASE docs[at].slug = docs[v.at].slug /\ at # v.at
                BY <1>2, <1>3, <3>1, <3>3, <3>4, <4>1, NamesOfKinds, PutWrites DEF Lasts
            <4>2. CASE docs[at].slug # docs[v.at].slug
                <5>1. at \in Linked /\ (Lasts(at, Linked \union {v.at}) => Lasts(at, Linked))
                    BY <1>2, <3>3, <3>4, <4>2, LastOfMore
                <5> QED
                    BY <3>1, <4>2, <5>1, PutWrites DEF Said, ParentsSaid
            <4>3. CASE at = v.at
                BY <3>1, <4>3, PutWrites
            <4> QED
                BY <4>1, <4>2, <4>3
        <3>5. ASSUME NEW at \in Done(2, 1)
              PROVE  /\ docs[at].slug \in DOMAIN categories'
                     /\ docs[at].slug \notin {docs[other].slug : other \in Linked \union {v.at}} =>
                            categories'[docs[at].slug] = Omitted
            BY <3>1, <3>5, PutWrites DEF Said, CategoriesSaid
        <3>6. ParentsSaid'
            BY <1>2, <3>2, <3>4 DEF ParentsSaid, Lasts, Name, Key
        <3>7. CategoriesSaid'
            BY <1>2, <3>2, <3>5 DEF CategoriesSaid
        <3> QED
            BY <3>6, <3>7
    <2> QED
        BY <2>1, <2>2
<1> QED
    BY <1>2, <1>5, SaidUntouched DEF Said, LinkParent

LEMMA FamilySaid ==
    ASSUME KindsKnown, InOrder, Said, NEW v \in Due, UpsertFamily(v)
    PROVE  Said'
<1>1. v = Visit(4, v.at, 1) /\ Advance(v)
    BY VisitAt DEF UpsertFamily, InOrder, Due
<1>2. /\ v \in Schedule(docs) /\ v.at \in DOMAIN docs /\ docs' = docs
      /\ Done(4, 1)' = Done(4, 1) \union {v.at}
      /\ \A m \in 1..8, j \in 1..2 : <<m, j>> # <<4, 1>> => Done(m, j)' = Done(m, j)
      /\ Done(8, 1) = {}
    BY <1>1, VisitOf
<1>3. FamiliesSaid'
    BY <1>2 DEF Said, FamiliesSaid, UpsertFamily, PutFamily, Doc, Key
<1> QED
    BY <1>2, <1>3, SaidUntouched DEF Said, UpsertFamily

LEMMA ProductSaid ==
    ASSUME KindsKnown, InOrder, Said, NEW v \in Due, UpsertProduct(v)
    PROVE  Said'
<1>1. v = Visit(5, v.at, 1) /\ Advance(v)
    BY VisitAt DEF UpsertProduct, InOrder, Due
<1>2. /\ v \in Schedule(docs) /\ v.at \in DOMAIN docs /\ docs' = docs
      /\ \A other \in Done(5, 1) : Earlier(other, v.at)
      /\ Done(5, 1)' = Done(5, 1) \union {v.at}
      /\ \A m \in 1..8, j \in 1..2 : <<m, j>> # <<5, 1>> => Done(m, j)' = Done(m, j)
      /\ Done(6, 1) = {} /\ Done(8, 1) = {}
    BY <1>1, VisitOf
<1>3. Done(5, 1) \union {v.at} \subseteq Documents("product")
    BY <1>1, <1>2, EachStepConcerns, DoneOfKind DEF Concerns
<1>4. products' = Put(products, docs[v.at].slug, RowOf(docs[v.at]))
    BY DEF UpsertProduct, PutProduct, Doc, RowOf
<1>5. ProductsSaid'
    <2> SUFFICES ASSUME NEW at \in Done(5, 1) \union {v.at}
                 PROVE  /\ docs[at].slug \in DOMAIN products'
                        /\ Lasts(at, Done(5, 1) \union {v.at}) =>
                               products'[docs[at].slug] = RowOf(docs[at])
        BY <1>2 DEF ProductsSaid, Lasts, Name, Key, RowOf
    <2>1. CASE docs[at].slug = docs[v.at].slug /\ at # v.at
        <3>1. ~Lasts(at, Done(5, 1) \union {v.at})
            BY <1>2, <1>3, <2>1, NamesOfKinds DEF Lasts
        <3> QED
            BY <1>4, <2>1, <3>1, PutWrites
    <2>2. CASE docs[at].slug # docs[v.at].slug
        <3>1. at \in Done(5, 1)
            BY <2>2
        <3> QED
            BY <1>2, <1>4, <2>2, <3>1, PutWrites, LastOfMore DEF Said, ProductsSaid
    <2>3. CASE at = v.at
        BY <1>4, <2>3, PutWrites
    <2> QED
        BY <2>1, <2>2, <2>3
\* A product that has aliases keeps them for the moment.
<1>6. AliasesSaid'
    <2>1. \A p \in DOMAIN aliases : p \in DOMAIN aliases' /\ aliases'[p] = aliases[p]
        BY PutWrites DEF UpsertProduct, PutProduct
    <2> QED
        BY <1>2, <2>1 DEF Said, AliasesSaid, Lasts, Name, Key, AliasesOf
<1>7. EdgesSaid'
    BY <1>2 DEF EdgesSaid
<1> QED
    BY <1>2, <1>5, <1>6, <1>7, SaidUntouched DEF Said, UpsertProduct

LEMMA AliasSaid ==
    ASSUME KindsKnown, InOrder, Said, NEW v \in Due, ReplaceAliases(v)
    PROVE  Said'
<1>1. v = Visit(5, v.at, 2) /\ Advance(v)
    BY VisitAt DEF ReplaceAliases, InOrder, Due
<1>2. /\ v \in Schedule(docs) /\ v.at \in DOMAIN docs /\ docs' = docs
      /\ \A other \in Done(5, 2) : Earlier(other, v.at)
      /\ Done(5, 2)' = Done(5, 2) \union {v.at}
      /\ \A m \in 1..8, j \in 1..2 : <<m, j>> # <<5, 2>> => Done(m, j)' = Done(m, j)
      /\ Done(8, 1) = {}
    BY <1>1, VisitOf
<1>3. Done(5, 2) \union {v.at} \subseteq Documents("product")
    BY <1>1, <1>2, EachStepConcerns, DoneOfKind DEF Concerns
<1>4. aliases' = Put(aliases, docs[v.at].slug, FirstSpellings(docs[v.at].aliases))
    BY DEF ReplaceAliases, PutAliases, Doc
<1>5. DOMAIN FirstSpellings(docs[v.at].aliases) = AliasesOf(docs[v.at])
    BY DEF FirstSpellings, AliasesOf
<1>6. AliasesSaid'
    <2> SUFFICES ASSUME NEW at \in Done(5, 2) \union {v.at}
                 PROVE  /\ docs[at].slug \in DOMAIN aliases'
                        /\ Lasts(at, Done(5, 2) \union {v.at}) =>
                               DOMAIN aliases'[docs[at].slug] = AliasesOf(docs[at])
        BY <1>2 DEF AliasesSaid, Lasts, Name, Key, AliasesOf
    <2>1. CASE docs[at].slug = docs[v.at].slug /\ at # v.at
        <3>1. ~Lasts(at, Done(5, 2) \union {v.at})
            BY <1>2, <1>3, <2>1, NamesOfKinds DEF Lasts
        <3> QED
            BY <1>4, <2>1, <3>1, PutWrites
    <2>2. CASE docs[at].slug # docs[v.at].slug
        <3>1. at \in Done(5, 2)
            BY <2>2
        <3> QED
            BY <1>2, <1>4, <2>2, <3>1, PutWrites, LastOfMore DEF Said, AliasesSaid
    <2>3. CASE at = v.at
        BY <1>4, <1>5, <2>3, PutWrites
    <2> QED
        BY <2>1, <2>2, <2>3
<1> QED
    BY <1>2, <1>6, SaidUntouched DEF Said, ReplaceAliases

LEMMA EdgeSaid ==
    ASSUME KindsKnown, InOrder, Said, NEW v \in Due, ReplaceRelationships(v)
    PROVE  Said'
<1>1. v = Visit(6, v.at, 1) /\ Advance(v)
    BY VisitAt DEF ReplaceRelationships, InOrder, Due
<1>2. /\ v \in Schedule(docs) /\ v.at \in DOMAIN docs /\ docs' = docs
      /\ \A other \in Done(6, 1) : Earlier(other, v.at)
      /\ Done(6, 1)' = Done(6, 1) \union {v.at}
      /\ \A m \in 1..8, j \in 1..2 : <<m, j>> # <<6, 1>> => Done(m, j)' = Done(m, j)
      /\ Done(8, 1) = {}
    BY <1>1, VisitOf
<1>3. Done(6, 1) \union {v.at} \subseteq Documents("product")
    BY <1>1, <1>2, EachStepConcerns, DoneOfKind DEF Concerns
<1>4. edges' = Put(edges, docs[v.at].slug, Range(docs[v.at].runs))
    BY DEF ReplaceRelationships, PutEdges, Doc
<1>5. EdgesSaid'
    <2> SUFFICES ASSUME NEW at \in Done(6, 1) \union {v.at}
                 PROVE  /\ docs[at].slug \in DOMAIN edges'
                        /\ Lasts(at, Done(6, 1) \union {v.at}) =>
                               edges'[docs[at].slug] = Range(docs[at].runs)
        BY <1>2 DEF EdgesSaid, Lasts, Name, Key, Range
    <2>1. CASE docs[at].slug = docs[v.at].slug /\ at # v.at
        <3>1. ~Lasts(at, Done(6, 1) \union {v.at})
            BY <1>2, <1>3, <2>1, NamesOfKinds DEF Lasts
        <3> QED
            BY <1>4, <2>1, <3>1, PutWrites
    <2>2. CASE docs[at].slug # docs[v.at].slug
        <3>1. at \in Done(6, 1)
            BY <2>2
        <3> QED
            BY <1>2, <1>4, <2>2, <3>1, PutWrites, LastOfMore DEF Said, EdgesSaid
    <2>3. CASE at = v.at
        BY <1>4, <2>3, PutWrites
    <2> QED
        BY <2>1, <2>2, <2>3
<1> QED
    BY <1>2, <1>5, SaidUntouched DEF Said, ReplaceRelationships

LEMMA SourceSaid ==
    ASSUME KindsKnown, InOrder, Said, NEW v \in Due, UpsertSource(v)
    PROVE  Said'
<1>1. v = Visit(7, v.at, 1) /\ Advance(v)
    BY VisitAt DEF UpsertSource, InOrder, Due
<1>2. /\ v \in Schedule(docs) /\ v.at \in DOMAIN docs /\ docs' = docs
      /\ \A other \in Done(7, 1) : Earlier(other, v.at)
      /\ Done(7, 1)' = Done(7, 1) \union {v.at}
      /\ \A m \in 1..8, j \in 1..2 : <<m, j>> # <<7, 1>> => Done(m, j)' = Done(m, j)
      /\ Done(8, 1) = {}
    BY <1>1, VisitOf
<1>3. Done(7, 1) \union {v.at} \subseteq Documents("source")
    BY <1>1, <1>2, EachStepConcerns, DoneOfKind DEF Concerns
<1>4. PICK stored :
          sources' = Put(sources, Key(docs[v.at]),
              [product |-> docs[v.at].product, enabled |-> docs[v.at].enabled,
               robots |-> docs[v.at].robots, terms |-> docs[v.at].terms, health |-> stored])
    BY DEF UpsertSource, Doc
<1>5. SourcesSaid'
    <2> SUFFICES ASSUME NEW at \in Done(7, 1) \union {v.at}
                 PROVE  /\ Key(docs[at]) \in DOMAIN sources'
                        /\ Lasts(at, Done(7, 1) \union {v.at}) =>
                               Declares(sources'[Key(docs[at])], docs[at])
        BY <1>2 DEF SourcesSaid, Lasts, Name, Key, Declares
    <2>1. CASE Key(docs[at]) = Key(docs[v.at]) /\ at # v.at
        <3>1. ~Lasts(at, Done(7, 1) \union {v.at})
            BY <1>2, <1>3, <2>1, NamesOfKinds DEF Lasts
        <3> QED
            BY <1>4, <2>1, <3>1, PutWrites
    <2>2. CASE Key(docs[at]) # Key(docs[v.at])
        <3>1. at \in Done(7, 1)
            BY <2>2
        <3> QED
            BY <1>2, <1>4, <2>2, <3>1, PutWrites, LastOfMore DEF Said, SourcesSaid
    <2>3. CASE at = v.at
        BY <1>4, <2>3, PutWrites DEF Declares
    <2> QED
        BY <2>1, <2>2, <2>3
<1> QED
    BY <1>2, <1>5, SaidUntouched DEF Said, UpsertSource

\* A summary is what the tables say by now, and nobody writes to them any more.
LEMMA SummarySaid ==
    ASSUME KindsKnown, InOrder, Said, NEW v \in Due, RefreshSummary(v)
    PROVE  Said'
<1>1. v = Visit(8, v.at, 1) /\ Advance(v)
    BY VisitAt DEF RefreshSummary, InOrder, Due
<1>2. /\ docs' = docs
      /\ Done(8, 1)' = Done(8, 1) \union {v.at}
      /\ \A m \in 1..8, j \in 1..2 : <<m, j>> # <<8, 1>> => Done(m, j)' = Done(m, j)
    BY <1>1, VisitOf
<1>3. /\ summaries' = Put(summaries, docs[v.at].slug, SummaryOf(docs[v.at].slug))
      /\ UNCHANGED tables
    BY DEF RefreshSummary, Doc
<1>4. \A p : SummaryOf(p)' = SummaryOf(p)
    BY <1>3 DEF SummaryOf, tables, Range
<1>5. SummariesSaid'
    <2>1. ASSUME NEW at \in Done(8, 1) \union {v.at}
          PROVE  /\ docs[at].slug \in DOMAIN summaries'
                 /\ summaries'[docs[at].slug] = SummaryOf(docs[at].slug)
        BY <1>3, <2>1, PutWrites DEF Said, SummariesSaid
    <2> QED
        BY <1>2, <1>4, <2>1 DEF SummariesSaid
<1> QED
    BY <1>2, <1>3, <1>5, SaidUntouched DEF Said, tables

\* Every step of a sync that goes well keeps the tables true to what was visited.
LEMMA StepSaid ==
    ASSUME KindsKnown, InOrder, Said, NEW v \in Due, Step(v)
    PROVE  InOrder' /\ Said' /\ docs' = docs
<1>1. Advance(v)
    BY DEF Step, UpsertVendor, UpsertCategory, LinkParent, UpsertFamily, UpsertProduct,
       ReplaceAliases, ReplaceRelationships, UpsertSource, RefreshSummary
<1>2. v \in Schedule(docs) /\ v = Visit(v.pass, v.at, v.step)
    BY ScheduledVisit DEF InOrder, Due
<1>3. v.pass \in 1..8 /\ v.step \in 1..2
    <2>1. v.pass \in {1, 2, 3, 4, 5, 6, 7, 8} /\ v.step \in DOMAIN Passes[v.pass]
        BY <1>2, ScheduledVisit, PassesAre
    <2>2. v.step \in {1, 2}
        BY <2>1, PassesAre
    <2> QED
        BY <2>1, <2>2
<1>4. InOrder'
    BY <1>1, <1>2, <1>3, VisitMade
<1>5. Said'
    BY VendorSaid, CategorySaid, ParentSaid, FamilySaid, ProductSaid, AliasSaid, EdgeSaid,
       SourceSaid, SummarySaid DEF Step
<1> QED
    BY <1>1, <1>4, <1>5 DEF Advance

-----------------------------------------------------------------------------
(* The invariant.                                                          *)

Going == outcome \in {"none", "ok"}

SyncInv ==
    /\ checkout \in Checkouts
    /\ Loaded
    /\ outcome # "none" => todo = {}
    /\ Going => InOrder /\ Said
    /\ RefusedOnlyForADangle
    /\ OmissionNeverPermits

\* A sync that has its visits before it has said nothing yet.
LEMMA NothingSaid ==
    ASSUME todo = Schedule(docs)
    PROVE  InOrder /\ Said
<1>1. \A n, k : Done(n, k) = {}
    BY DEF Done
<1>2. Linked = {}
    BY <1>1 DEF Linked
<1> QED
    BY <1>1, <1>2 DEF InOrder, Said, VendorsSaid, CategoriesSaid, ParentsSaid, FamiliesSaid,
       ProductsSaid, AliasesSaid, EdgesSaid, SourcesSaid, SummariesSaid

LEMMA NothingScheduled == docs = <<>> => Schedule(docs) = {}
<1> SUFFICES ASSUME docs = <<>> PROVE Schedule(docs) = {}
    OBVIOUS
<1>1. DOMAIN docs = {}
    BY NoDocuments
<1> QED
    BY <1>1, ScheduledVisit

LEMMA SyncInit == Init => SyncInv
<1> SUFFICES ASSUME Init PROVE SyncInv
    OBVIOUS
<1>1. todo = Schedule(docs) /\ Loaded
    BY NothingScheduled DEF Init, Loaded
<1>2. OmissionNeverPermits
    BY NoDocuments DEF Init, OmissionNeverPermits
<1> QED
    BY <1>1, <1>2, NothingSaid DEF Init, SyncInv, RefusedOnlyForADangle

\* Whatever a document names that a pass before could have written, and that is not in the
\* tables, is in no document.
LEMMA Written ==
    ASSUME KindsKnown, InOrder, Said, NEW n \in 1..8, NEW k \in 1..2, NEW at,
           Visit(n, at, k) \in Due
    PROVE  /\ 1 < n => Declared("vendor") \subseteq DOMAIN vendors
           /\ 2 < n => Declared("category") \subseteq DOMAIN categories
           /\ 4 < n => {Key(d) : d \in Of("family")} \subseteq families
           /\ 5 < n => Declared("product") \subseteq DOMAIN products
<1>1. \A m \in 1..8, j \in 1..2 : m < n =>
          \A other : Visit(m, other, j) \in Schedule(docs) => other \in Done(m, j)
    BY WhatIsDone
<1>2. /\ \A kind : Declared(kind) = {docs[other].slug : other \in Documents(kind)}
      /\ {Key(d) : d \in Of("family")} = {Key(docs[other]) : other \in Documents("family")}
    BY DEF Declared, Of
<1>3. ASSUME 1 < n PROVE Documents("vendor") \subseteq Done(1, 1)
    BY <1>1, <1>3, EachStepConcerns DEF Concerns
<1>4. ASSUME 2 < n PROVE Documents("category") \subseteq Done(2, 1)
    BY <1>1, <1>4, EachStepConcerns DEF Concerns
<1>5. ASSUME 4 < n PROVE Documents("family") \subseteq Done(4, 1)
    BY <1>1, <1>5, EachStepConcerns DEF Concerns
<1>6. ASSUME 5 < n PROVE Documents("product") \subseteq Done(5, 1)
    BY <1>1, <1>6, EachStepConcerns DEF Concerns
<1>7. 1 < n => Declared("vendor") \subseteq DOMAIN vendors
    BY <1>2, <1>3 DEF Said, VendorsSaid
<1>8. 2 < n => Declared("category") \subseteq DOMAIN categories
    BY <1>2, <1>4 DEF Said, CategoriesSaid
<1>9. 4 < n => {Key(d) : d \in Of("family")} \subseteq families
    BY <1>2, <1>5 DEF Said, FamiliesSaid
<1>10. 5 < n => Declared("product") \subseteq DOMAIN products
    BY <1>2, <1>6 DEF Said, ProductsSaid
<1> QED
    BY <1>7, <1>8, <1>9, <1>10

\* What is refused refers to something that is nowhere.
LEMMA RefusedDangles ==
    ASSUME KindsKnown, InOrder, Said, NEW v \in Due, Refused(v)
    PROVE  Dangles
<1> DEFINE d == Doc(v)
<1>1. v \in Schedule(docs)
    BY DEF InOrder, Due
<1>2. CASE At("parents", v) /\ ~Parented(d)
    <2>1. v = Visit(3, v.at, 1)
        BY <1>1, <1>2, VisitAt
    <2>2. Declared("category") \subseteq DOMAIN categories
        BY <2>1, Written
    <2>3. d \in Of("category")
        BY <1>1, <2>1, EachStepConcerns DEF Concerns, Of, Doc
    <2> QED
        BY <1>2, <2>2, <2>3 DEF Parented, Dangles
<1>3. CASE At("families", v) /\ ~FamilyResolves(d)
    <2>1. v = Visit(4, v.at, 1)
        BY <1>1, <1>3, VisitAt
    <2>2. Declared("vendor") \subseteq DOMAIN vendors
        BY <2>1, Written
    <2>3. d \in Of("family")
        BY <1>1, <2>1, EachStepConcerns DEF Concerns, Of, Doc
    <2> QED
        BY <1>3, <2>2, <2>3 DEF FamilyResolves, KnownVendor, Dangles
<1>4. CASE At("products", v) /\ ~ProductResolves(d)
    <2>1. v = Visit(5, v.at, 1)
        BY <1>1, <1>4, VisitAt
    <2>2. /\ Declared("vendor") \subseteq DOMAIN vendors
          /\ Declared("category") \subseteq DOMAIN categories
          /\ {Key(f) : f \in Of("family")} \subseteq families
        BY <2>1, Written
    <2>3. d \in Of("product")
        BY <1>1, <2>1, EachStepConcerns DEF Concerns, Of, Doc
    <2> QED
        BY <1>4, <2>2, <2>3
           DEF ProductResolves, KnownVendor, KnownFamily, CategoriesKnown, Dangles
<1>5. CASE At("edges", v) /\ ~EdgesResolve(d)
    <2>1. v = Visit(6, v.at, 1)
        BY <1>1, <1>5, VisitAt
    <2>2. Declared("product") \subseteq DOMAIN products
        BY <2>1, Written
    <2>3. d \in Of("product")
        BY <1>1, <2>1, EachStepConcerns DEF Concerns, Of, Doc
    <2> QED
        BY <1>5, <2>2, <2>3 DEF EdgesResolve, KnownProduct, Dangles
<1>6. CASE At("sources", v) /\ ~SourceResolves(d)
    <2>1. v = Visit(7, v.at, 1)
        BY <1>1, <1>6, VisitAt
    <2>2. /\ Declared("vendor") \subseteq DOMAIN vendors
          /\ Declared("product") \subseteq DOMAIN products
        BY <2>1, Written
    <2>3. d \in Of("source")
        BY <1>1, <2>1, EachStepConcerns DEF Concerns, Of, Doc
    <2> QED
        BY <1>6, <2>2, <2>3 DEF SourceResolves, KnownVendor, KnownProduct, Dangles
<1> QED
    BY <1>2, <1>3, <1>4, <1>5, <1>6 DEF Refused

\* A source row that permits something was read from a document that says so.
LEMMA PermissionIsWritten ==
    ASSUME SyncInv, KindsKnown, InOrder, NEW v \in Due, UpsertSource(v)
    PROVE  OmissionNeverPermits'
<1> DEFINE d == docs[v.at]
<1>1. v \in Schedule(docs) /\ v = Visit(7, v.at, 1)
    BY VisitAt DEF InOrder, Due, UpsertSource
<1>2. v.at \in Documents("source") /\ v.at \in DOMAIN docs
    BY <1>1, EachStepConcerns, ScheduledVisit DEF Concerns
<1>3. docs # <<>>
    BY <1>2, NoDocuments
<1>4. PICK files \in Checkouts :
          /\ v.at \in Places(files) /\ d = ParseDocument(files[v.at[1]][v.at[2]])
          /\ d # Rejected
    BY <1>2, <1>3 DEF SyncInv, Loaded
<1> DEFINE raw == files[v.at[1]][v.at[2]]
<1>5. raw.kind = "source" /\ SourceFields \subseteq DOMAIN raw
    BY <1>2, <1>4, ParsedKind, RegistryAssumption DEF Documents
<1>6. d = ParseSource(raw)
    BY <1>4, <1>5 DEF ParseDocument
<1>7. /\ Key(d) = Key(raw)
      /\ d.robots = OrDefault(raw.robots, "unknown") /\ d.terms = OrDefault(raw.terms, "pending")
    BY <1>4, <1>5, <1>6, ParsedSource DEF Key
<1>8. PICK stored :
          sources' = Put(sources, Key(d), [product |-> d.product, enabled |-> d.enabled,
                                           robots |-> d.robots, terms |-> d.terms,
                                           health |-> stored])
    BY DEF UpsertSource, Doc
<1>9. ASSUME NEW k \in DOMAIN sources', PermitsCollection(sources'[k])
      PROVE  \E checked \in Checkouts : \E i \in DOMAIN checked : \E j \in DOMAIN checked[i] :
                 LET s == checked[i][j]
                 IN  s.kind = "source" /\ Key(s) = k /\ Omitted \notin {s.robots, s.terms}
    <2>1. CASE k = Key(d)
        <3>1. d.robots \in {"allowed", "not_applicable"} /\ d.terms \in {"approved", "restricted"}
            BY <1>8, <1>9, <2>1, PutWrites DEF PermitsCollection
        <3>2. raw.robots # Omitted /\ raw.terms # Omitted
            BY <1>7, <3>1 DEF OrDefault
        <3>3. v.at[1] \in DOMAIN files /\ v.at[2] \in DOMAIN files[v.at[1]]
            BY <1>4, PlaceOf
        <3> QED
            BY <1>5, <1>7, <2>1, <3>2, <3>3
    <2>2. CASE k # Key(d)
        <3>1. k \in DOMAIN sources /\ sources'[k] = sources[k]
            BY <1>8, <1>9, <2>2 DEF Put
        <3> QED
            BY <1>9, <3>1 DEF SyncInv, OmissionNeverPermits
    <2> QED
        BY <2>1, <2>2
<1> QED
    BY <1>9 DEF OmissionNeverPermits, Key

\* A state that differs in nothing that the properties of documents and tables look at.
LEMMA SaidStays ==
    ASSUME UNCHANGED <<tables, docs>>
    PROVE  /\ Loaded' = Loaded
           /\ Dangles' = Dangles
           /\ OmissionNeverPermits' = OmissionNeverPermits
<1>1. Loaded' = Loaded
    BY DEF Loaded
<1>2. Dangles' = Dangles
    BY DEF tables, Dangles, Declared, Of, Documents, Key, ValidFamily, Range, IsInjective
<1>3. OmissionNeverPermits' = OmissionNeverPermits
    BY DEF tables, OmissionNeverPermits, Key
<1> QED
    BY <1>1, <1>2, <1>3

LEMMA SyncEnds ==
    ASSUME SyncInv, NEW how, End(how), how \notin {"none", "ok"},
           how = "refused" => Dangles
    PROVE  SyncInv'
BY SaidStays DEF SyncInv, End, Going, RefusedOnlyForADangle

LEMMA SyncStarts ==
    ASSUME SyncInv, Start
    PROVE  SyncInv'
<1>1. CASE Loads(checkout)
    <2>1. Loaded'
        BY <1>1, LoadedByLoad DEF SyncInv, Start
    <2>2. (todo = Schedule(docs))' /\ outcome' \in {"none", "ok"}
          /\ (outcome' # "none" => todo' = {})
        BY <1>1 DEF Start, Schedule, Visits, Passes, PassesOf
    <2>3. InOrder' /\ Said'
        BY <2>2, NothingSaid, PTL
    <2>4. OmissionNeverPermits'
        BY DEF SyncInv, Start, tables, OmissionNeverPermits, Key
    <2> QED
        BY <2>1, <2>2, <2>3, <2>4 DEF SyncInv, Start, Going, RefusedOnlyForADangle
<1>2. CASE ~Loads(checkout)
    <2>1. docs' = <<>> /\ outcome' = "unreadable" /\ (todo = Schedule(docs))'
        BY <1>2 DEF Start, Schedule, Visits, Passes, PassesOf
    <2>2. todo' = {}
        <3>1. (docs = <<>> => Schedule(docs) = {})'
            BY NothingScheduled, PTL
        <3> QED
            BY <2>1, <3>1
    <2>3. OmissionNeverPermits'
        BY DEF SyncInv, Start, tables, OmissionNeverPermits, Key
    <2> QED
        BY <2>1, <2>2, <2>3 DEF SyncInv, Start, Going, Loaded, RefusedOnlyForADangle
<1> QED
    BY <1>1, <1>2

LEMMA SyncAdvances ==
    ASSUME SyncInv, NEW v \in Due, Step(v)
    PROVE  SyncInv'
<1>1. todo # {} /\ Going /\ outcome = "none"
    BY DEF SyncInv, Going, Due
<1>2. KindsKnown
    BY LoadedKinds DEF SyncInv
<1>3. InOrder' /\ Said' /\ docs' = docs
    BY <1>1, <1>2, StepSaid DEF SyncInv
<1>4. Advance(v)
    BY DEF Step, UpsertVendor, UpsertCategory, LinkParent, UpsertFamily, UpsertProduct,
       ReplaceAliases, ReplaceRelationships, UpsertSource, RefreshSummary
<1>5. OmissionNeverPermits'
    <2>1. CASE UpsertSource(v)
        BY <1>1, <1>2, <2>1, PermissionIsWritten DEF SyncInv
    <2>2. CASE ~UpsertSource(v)
        <3>1. sources' = sources
            BY <2>2 DEF Step, UpsertVendor, UpsertCategory, LinkParent, UpsertFamily,
               UpsertProduct, ReplaceAliases, ReplaceRelationships, RefreshSummary, tables
        <3> QED
            BY <3>1 DEF SyncInv, OmissionNeverPermits, Key
    <2> QED
        BY <2>1, <2>2
<1>6. Loaded'
    BY <1>3 DEF SyncInv, Loaded
<1> QED
    BY <1>1, <1>3, <1>4, <1>5, <1>6 DEF SyncInv, Advance, RefusedOnlyForADangle

\* A publication writes what the tables say.
LEMMA SyncPublishes ==
    ASSUME SyncInv, Publish
    PROVE  SyncInv'
<1>1. UNCHANGED <<checkout, tables, docs, todo, outcome>>
    BY DEF Publish
<1>2. PICK p \in DOMAIN products : summaries' = Put(summaries, p, SummaryOf(p))
    BY DEF Publish
<1>3. \A n, k : Done(n, k)' = Done(n, k)
    BY <1>1 DEF Done, Schedule, Visits, Passes, PassesOf
<1>4. ASSUME Going PROVE InOrder' /\ Said'
    <2>1. InOrder'
        BY <1>1, <1>4 DEF SyncInv, InOrder, Schedule, Visits, Passes, PassesOf
    <2>2. \A q : SummaryOf(q)' = SummaryOf(q)
        BY <1>1 DEF SummaryOf, tables, Range
    <2>3. SummariesSaid'
        <3>1. ASSUME NEW at \in Done(8, 1)
              PROVE  /\ docs[at].slug \in DOMAIN summaries'
                     /\ summaries'[docs[at].slug] = SummaryOf(docs[at].slug)
            BY <1>2, <1>4, <3>1, PutWrites DEF SyncInv, Said, SummariesSaid
        <3> QED
            BY <1>1, <1>3, <2>2, <3>1 DEF SummariesSaid
    <2> QED
        BY <1>1, <1>3, <1>4, <2>1, <2>3, SaidUntouched DEF SyncInv, Said, tables
<1> QED
    BY <1>1, <1>4, SaidStays DEF SyncInv, Going, RefusedOnlyForADangle

LEMMA SyncNext == SyncInv /\ [Next]_vars => SyncInv'
<1> SUFFICES ASSUME SyncInv, [Next]_vars PROVE SyncInv'
    OBVIOUS
<1>1. CASE Start
    BY <1>1, SyncStarts
<1>2. ASSUME NEW v \in Due, Step(v) PROVE SyncInv'
    BY <1>2, SyncAdvances
<1>3. ASSUME NEW v \in Due, Refuse(v) PROVE SyncInv'
    <2>1. todo # {} /\ Going
        BY DEF SyncInv, Going, Due
    <2>2. Dangles
        BY <1>3, <2>1, LoadedKinds, RefusedDangles DEF SyncInv, Refuse
    <2> QED
        BY <1>3, <2>2, SyncEnds DEF Refuse
<1>4. ASSUME NEW v \in Due, ForeignKey(v) PROVE SyncInv'
    BY <1>4, SyncEnds DEF ForeignKey
<1>5. CASE Stop
    BY <1>5, SyncEnds DEF Stop
<1>6. CASE Publish
    BY <1>6, SyncPublishes
<1>7. CASE Pull \/ UNCHANGED vars
    <2>1. /\ UNCHANGED <<tables, summaries, docs, todo, outcome>>
          /\ checkout' \in Checkouts
        BY <1>7 DEF Pull, vars, SyncInv
    <2>2. \A n, k : Done(n, k)' = Done(n, k)
        BY <2>1 DEF Done, Schedule, Visits, Passes, PassesOf
    <2>3. ASSUME Going PROVE InOrder' /\ Said'
        <3>1. InOrder'
            BY <2>1, <2>3 DEF SyncInv, InOrder, Schedule, Visits, Passes, PassesOf
        <3>2. SummariesSaid'
            BY <2>1, <2>2, <2>3 DEF SyncInv, Said, SummariesSaid, SummaryOf, tables, Range
        <3> QED
            BY <2>1, <2>2, <2>3, <3>1, <3>2, SaidUntouched DEF SyncInv, Said, tables
    <2> QED
        BY <2>1, <2>3, SaidStays DEF SyncInv, Going, RefusedOnlyForADangle
<1> QED
    BY <1>1, <1>2, <1>3, <1>4, <1>5, <1>6, <1>7 DEF Next

\* A sync that has made its last visit has been everywhere.
LEMMA EndsWell == SyncInv => SyncedMeansDeclared
<1> SUFFICES ASSUME SyncInv, outcome = "ok" PROVE SyncedMeansDeclared
    BY DEF SyncedMeansDeclared
<1>1. todo = {} /\ Said /\ KindsKnown
    BY LoadedKinds DEF SyncInv, Going
<1>2. ASSUME NEW n, NEW k, NEW kind, Concerns(n, k, kind) PROVE Done(n, k) = Documents(kind)
    BY <1>1, <1>2 DEF Concerns, Done, Documents
<1>3. /\ Done(1, 1) = Documents("vendor") /\ Done(2, 1) = Documents("category")
      /\ Done(3, 1) = Documents("category") /\ Done(4, 1) = Documents("family")
      /\ Done(5, 1) = Documents("product") /\ Done(5, 2) = Documents("product")
      /\ Done(6, 1) = Documents("product") /\ Done(7, 1) = Documents("source")
      /\ Done(8, 1) = Documents("product")
    BY <1>1, <1>2, EachStepConcerns
<1>4. Linked = Linking
    BY <1>3 DEF Linked, Linking
<1>5. \A d \in Lasting("vendor") : vendors[d.slug] = d.name
    BY <1>1, <1>3 DEF Said, VendorsSaid, Lasting
<1>6. \A at \in Linking : Lasts(at, Linking) => categories[docs[at].slug] = docs[at].parent
    BY <1>1, <1>4 DEF Said, ParentsSaid
<1>7. \A slug \in Declared("category") \ {docs[at].slug : at \in Linking} :
          categories[slug] = Omitted
    BY <1>1, <1>3, <1>4 DEF Said, CategoriesSaid, Declared, Of
<1>8. \A d \in Of("family") : Key(d) \in families
    BY <1>1, <1>3 DEF Said, FamiliesSaid, Of
<1>9. \A d \in Lasting("product") : products[d.slug] = RowOf(d)
    BY <1>1, <1>3 DEF Said, ProductsSaid, Lasting
<1>10. \A d \in Lasting("product") : DOMAIN aliases[d.slug] = AliasesOf(d)
    BY <1>1, <1>3 DEF Said, AliasesSaid, Lasting
<1>11. \A d \in Lasting("product") : edges[d.slug] = Range(d.runs)
    BY <1>1, <1>3 DEF Said, EdgesSaid, Lasting
<1>12. \A d \in Lasting("product") :
           d.slug \in DOMAIN summaries /\ summaries[d.slug] = SummaryOf(d.slug)
    BY <1>1, <1>3 DEF Said, SummariesSaid, Lasting
<1>13. \A d \in Lasting("source") : Declares(sources[Key(d)], d)
    BY <1>1, <1>3 DEF Said, SourcesSaid, Lasting
<1> QED
    BY <1>5, <1>6, <1>7, <1>8, <1>9, <1>10, <1>11, <1>12, <1>13
       DEF SyncedMeansDeclared, RowOf, AliasesOf, Declares

\* A step writes under the name of its document and nowhere else.
LEMMA StepSpares ==
    ASSUME SyncInv, [Next]_vars
    PROVE  LeavesTheRestAlone
<1>1. ASSUME UNCHANGED tables PROVE LeavesTheRestAlone
    BY <1>1 DEF tables, LeavesTheRestAlone, Spares
<1>2. ASSUME NEW v \in Due, Step(v) PROVE LeavesTheRestAlone
    <2>1. InOrder /\ KindsKnown
        BY LoadedKinds DEF SyncInv, Going, Due
    <2>2. v \in Schedule(docs)
        BY <2>1 DEF InOrder, Due
    <2>3. ASSUME NEW n \in 1..8, NEW k \in 1..2, NEW kind, Concerns(n, k, kind),
                 v = Visit(n, v.at, k)
          PROVE  Doc(v) \in Of(kind) /\ Doc(v).slug \in Declared(kind)
        BY <2>2, <2>3 DEF Concerns, Of, Declared, Doc
    <2>4. \A table, key, row, names : key \in names => Spares(table, Put(table, key, row), names)
        BY PutWrites DEF Spares
    <2>5. \A table, names : Spares(table, table, names)
        BY DEF Spares
    <2>6. CASE UpsertVendor(v)
        BY <2>1, <2>2, <2>3, <2>4, <2>5, <2>6, VisitAt, EachStepConcerns
           DEF UpsertVendor, LeavesTheRestAlone
    <2>7. CASE UpsertCategory(v)
        BY <2>1, <2>2, <2>3, <2>4, <2>5, <2>7, VisitAt, EachStepConcerns
           DEF UpsertCategory, PutCategory, LeavesTheRestAlone
    <2>8. CASE LinkParent(v)
        BY <2>1, <2>2, <2>3, <2>4, <2>5, <2>8, VisitAt, EachStepConcerns
           DEF LinkParent, PutCategory, LeavesTheRestAlone
    <2>9. CASE UpsertFamily(v)
        BY <2>5, <2>9 DEF UpsertFamily, PutFamily, LeavesTheRestAlone
    <2>10. CASE UpsertProduct(v)
        <3>1. Doc(v).slug \in Declared("product")
            BY <2>1, <2>2, <2>3, <2>10, VisitAt, EachStepConcerns DEF UpsertProduct
        <3> QED
            BY <2>4, <2>5, <2>10, <3>1 DEF UpsertProduct, PutProduct, LeavesTheRestAlone
    <2>11. CASE ReplaceAliases(v)
        BY <2>1, <2>2, <2>3, <2>4, <2>5, <2>11, VisitAt, EachStepConcerns
           DEF ReplaceAliases, PutAliases, LeavesTheRestAlone
    <2>12. CASE ReplaceRelationships(v)
        BY <2>1, <2>2, <2>3, <2>4, <2>5, <2>12, VisitAt, EachStepConcerns
           DEF ReplaceRelationships, PutEdges, LeavesTheRestAlone
    <2>13. CASE UpsertSource(v)
        <3>1. Key(Doc(v)) \in {Key(d) : d \in Of("source")}
            BY <2>1, <2>2, <2>3, <2>13, VisitAt, EachStepConcerns DEF UpsertSource
        <3> QED
            BY <2>4, <2>5, <2>13, <3>1 DEF UpsertSource, LeavesTheRestAlone
    <2>14. CASE RefreshSummary(v)
        BY <1>1, <2>14 DEF RefreshSummary
    <2> QED
        BY <1>2, <2>6, <2>7, <2>8, <2>9, <2>10, <2>11, <2>12, <2>13, <2>14 DEF Step
<1>3. CASE \/ Start \/ Stop \/ Pull \/ Publish \/ UNCHANGED vars
           \/ \E v \in Due : Refuse(v) \/ ForeignKey(v)
    <2>1. UNCHANGED tables
        BY <1>3 DEF Start, Stop, Pull, Publish, vars, Refuse, ForeignKey, End
    <2> QED
        BY <1>1, <2>1
<1> QED
    BY <1>2, <1>3 DEF Next

-----------------------------------------------------------------------------
\* Whatever the checkouts are and however syncs of them are stopped, refused and followed by
\* others: one that ends well has made the tables say what its documents say, the last of
\* each name, and no step of it touches a row that they do not name (registry.go, Execute).
THEOREM SyncsWriteTheirDocuments == Spec => SyncWritesWhatIsDeclared
<1>1. SyncInv /\ SyncInv' /\ [Next]_vars => [SyncedMeansDeclared' /\ LeavesTheRestAlone]_vars
    <2>1. SyncInv' => SyncedMeansDeclared'
        BY EndsWell, PTL
    <2> QED
        BY <2>1, StepSpares
<1> QED
    BY SyncInit, SyncNext, <1>1, PTL DEF Spec, SyncWritesWhatIsDeclared

\* A sync is refused only for something that no document of its checkout has and no table
\* either: the order of the files and of the documents decides nothing (registry.go, the
\* order of the passes).
THEOREM OrderNeverRefuses == Spec => []RefusedOnlyForADangle
<1>1. SyncInv => RefusedOnlyForADangle
    BY DEF SyncInv
<1> QED
    BY SyncInit, SyncNext, <1>1, PTL DEF Spec

\* A source that may be collected is one whose file said so: no default of the loader and no
\* sequence of syncs ever permits what nobody has written (yaml.go, parseSource).
THEOREM DefaultsForbid == Spec => []OmissionNeverPermits
<1>1. SyncInv => OmissionNeverPermits
    BY DEF SyncInv
<1> QED
    BY SyncInit, SyncNext, <1>1, PTL DEF Spec

-----------------------------------------------------------------------------
(***************************************************************************)
(* The watcher, which shares the row of a source with the synchronisation: *)
(* for any contents, any number of handlers and operators and any registry *)
(* file no interleaving of checks loses a change, except a check that ends *)
(* between its two statements.                                             *)
(***************************************************************************)

HandsTyped == DOMAIN proc = Procs

\* The hash a check has loaded may be written back by it, so it has to be accounted for
\* as much as the stored one.
Remembered ==
    /\ HandsTyped
    /\ hash # None => hash \in Accounted
    /\ \A p \in Procs : proc[p].stage \in {"loaded", "fetched"} =>
           (proc[p].row.hash # None => proc[p].row.hash \in Accounted)

-----------------------------------------------------------------------------
\* In the beginning nothing has been fetched and nobody holds a hash.
LEMMA RememberedInit == WatcherInit => Remembered
BY DEF WatcherInit, Remembered, HandsTyped, Resting

\* One handler changes its hands; the others keep theirs.
LEMMA OthersKeep ==
    ASSUME HandsTyped, NEW p \in Procs, NEW h, proc' = [proc EXCEPT ![p] = h]
    PROVE  /\ proc'[p] = h
           /\ \A q \in Procs \ {p} : proc'[q] = proc[q]
BY DEF HandsTyped

\* What is accounted for stays so when p's hands held no content and extracts and torn
\* do not shrink.
LEMMA AccountsKept ==
    ASSUME HandsTyped, NEW p \in Procs, NEW h, proc' = [proc EXCEPT ![p] = h],
           extracts \subseteq extracts', torn \subseteq torn',
           Unannounced(proc[p]) \subseteq extracts' \union torn' \union Unannounced(h)
    PROVE  Accounted \subseteq Accounted'
<1>1. proc'[p] = h /\ \A q \in Procs \ {p} : proc'[q] = proc[q]
    BY OthersKeep
<1> SUFFICES ASSUME NEW c \in Accounted PROVE c \in Accounted'
    OBVIOUS
<1>2. CASE c \in extracts \union torn
    BY <1>2 DEF Accounted
<1>3. ASSUME NEW q \in Procs, c \in Unannounced(proc[q]) PROVE c \in Accounted'
    <2>1. CASE q = p
        <3>1. c \in extracts' \union torn' \/ c \in Unannounced(proc'[p])
            BY <1>1, <1>3, <2>1
        <3> QED
            BY <3>1 DEF Accounted
    <2>2. CASE q # p
        BY <1>1, <1>3, <2>2 DEF Accounted
    <2> QED
        BY <2>1, <2>2
<1> QED
    BY <1>2, <1>3 DEF Accounted

\* A step that neither fetches, saves nor loads keeps every hash where it was.
LEMMA HandsEmptied ==
    ASSUME Remembered, NEW p \in Procs, proc' = [proc EXCEPT ![p] = Resting],
           Accounted \subseteq Accounted', UNCHANGED hash
    PROVE  Remembered'
<1>1. proc'[p] = Resting /\ \A q \in Procs \ {p} : proc'[q] = proc[q]
    BY OthersKeep DEF Remembered
<1>2. HandsTyped'
    BY DEF Remembered, HandsTyped
<1> QED
    BY <1>1, <1>2 DEF Remembered, Resting

\* Every step accounts for the hashes it leaves in the row or in a handler's hands.
LEMMA RememberedStep == Remembered /\ [WatcherNext]_watcherVars => Remembered'
<1> SUFFICES ASSUME Remembered, [WatcherNext]_watcherVars PROVE Remembered'
    OBVIOUS
<1>0. HandsTyped
    BY DEF Remembered
\* Steps that touch neither the hands nor what they account for.
<1>1. ASSUME UNCHANGED <<hash, proc, extracts, torn>> PROVE Remembered'
    BY <1>1 DEF Remembered, HandsTyped, Accounted, Unannounced
<1>2. CASE ListDue \/ EnqueueDue \/ ReadForSync \/ ReadForActivate \/ Upsert
           \/ BecomesDue \/ PageChanges
    BY <1>1, <1>2 DEF ListDue, EnqueueDue, ReadForSync, ReadForActivate, Upsert, BecomesDue,
       PageChanges, rowVars, checkVars, queueVars
<1>3. ASSUME NEW p \in Handlers, NEW t \in Turns, RefuseCheck(p, t) PROVE Remembered'
    BY <1>1, <1>3 DEF RefuseCheck, rowVars, checkVars
\* A check starts with the stored row.
<1>4. ASSUME NEW p \in Procs, NEW t, proc[p] = Resting,
             proc' = [proc EXCEPT ![p] = [stage |-> "loaded", job |-> t, row |-> CurrentRow]],
             UNCHANGED <<hash, extracts, torn>>
      PROVE  Remembered'
    <2> DEFINE h == [stage |-> "loaded", job |-> t, row |-> CurrentRow]
    <2>1. proc'[p] = h /\ \A q \in Procs \ {p} : proc'[q] = proc[q]
        BY <1>0, <1>4, OthersKeep
    <2>2. Unannounced(proc[p]) = {}
        BY <1>4 DEF Unannounced, Resting
    <2>3. Accounted \subseteq Accounted'
        <3> HIDE DEF h
        <3> QED BY <1>0, <1>4, <2>2, AccountsKept DEF h
    <2>4. HandsTyped'
        BY <1>0, <1>4 DEF HandsTyped
    <2>5. h.row.hash = hash
        BY DEF CurrentRow
    <2> QED
        BY <1>4, <2>1, <2>3, <2>4, <2>5 DEF Remembered
<1>5. ASSUME NEW p \in Handlers, NEW t \in Turns, LoadSource(p, t) PROVE Remembered'
    BY <1>4, <1>5 DEF LoadSource, Procs, rowVars, checkVars
<1>6. ASSUME NEW p \in Operators, CheckNow(p) PROVE Remembered'
    BY <1>4, <1>6 DEF CheckNow, Procs, rowVars, checkVars, queueVars
\* The response is held together with the row.
<1>7. ASSUME NEW p \in Procs, Fetch(p) PROVE Remembered'
    <2>1. PICK came : proc' = [proc EXCEPT ![p] =
               [stage |-> "fetched", job |-> @.job, row |-> @.row, outcome |-> came,
                content |-> IF came = "changed" THEN page ELSE None]]
        BY <1>7 DEF Fetch
    <2> DEFINE h == [stage |-> "fetched", job |-> proc[p].job, row |-> proc[p].row,
                     outcome |-> came,
                     content |-> IF came = "changed" THEN page ELSE None]
    <2>2. proc' = [proc EXCEPT ![p] = h]
        BY <2>1
    <2>3. proc'[p] = h /\ \A q \in Procs \ {p} : proc'[q] = proc[q]
        BY <1>0, <2>2, OthersKeep
    <2>4. Unannounced(proc[p]) = {} /\ UNCHANGED <<hash, extracts, torn>>
        BY <1>7 DEF Fetch, Unannounced, rowVars, checkVars, queueVars
    <2>5. Accounted \subseteq Accounted'
        <3> HIDE DEF h
        <3> QED BY <1>0, <2>2, <2>4, AccountsKept
    <2>6. HandsTyped'
        BY <1>0, <2>2 DEF HandsTyped
    <2>7. proc[p].row.hash # None => proc[p].row.hash \in Accounted
        BY <1>7 DEF Fetch, Remembered
    <2> QED
        BY <2>3, <2>4, <2>5, <2>6, <2>7 DEF Remembered
\* What is written is what was fetched, which the hands then hold, or what was loaded.
<1>8. ASSUME NEW p \in Procs, Save(p) PROVE Remembered'
    <2> DEFINE h == [stage |-> "saved", job |-> proc[p].job, content |-> proc[p].content]
    <2>1. proc' = [proc EXCEPT ![p] = h]
        BY <1>8 DEF Save
    <2>2. proc'[p] = h /\ \A q \in Procs \ {p} : proc'[q] = proc[q]
        BY <1>0, <2>1, OthersKeep
    <2>3. Unannounced(proc[p]) = {} /\ UNCHANGED <<extracts, torn>>
        BY <1>8 DEF Save, Unannounced, queueVars
    <2>4. Accounted \subseteq Accounted'
        <3> HIDE DEF h
        <3> QED BY <1>0, <2>1, <2>3, AccountsKept
    <2>5. HandsTyped'
        BY <1>0, <2>1 DEF HandsTyped
    <2>6. hash' # None => hash' \in Accounted'
        <3>1. CASE hash' = proc[p].content
            <4>1. hash' # None => hash' \in Unannounced(proc'[p])
                BY <2>2, <3>1 DEF Unannounced
            <4> QED
                BY <4>1 DEF Accounted
        <3>2. CASE hash' = proc[p].row.hash
            BY <1>8, <2>4, <3>2 DEF Save, Remembered
        <3> QED
            BY <1>8, <3>1, <3>2 DEF Save
    <2> QED
        BY <2>2, <2>4, <2>5, <2>6 DEF Remembered
\* The extraction job takes over what the hands held.
<1>9. ASSUME NEW p \in Procs, Announce(p) PROVE Remembered'
    <2>1. /\ proc' = [proc EXCEPT ![p] = Resting]
          /\ extracts' = extracts \union Unannounced(proc[p])
          /\ UNCHANGED <<hash, torn>>
        BY <1>9 DEF Announce, EnqueueExtraction, Unannounced, rowVars, checkVars
    <2>2. Accounted \subseteq Accounted'
        BY <1>0, <2>1, AccountsKept
    <2> QED
        BY <2>1, <2>2, HandsEmptied
\* A check that ends early leaves what it held to the history.
<1>10. ASSUME NEW p \in Procs, Fail(p) \/ Crash(p) PROVE Remembered'
    <2>1. /\ proc' = [proc EXCEPT ![p] = Resting]
          /\ torn' = torn \union Unannounced(proc[p])
          /\ UNCHANGED <<hash, extracts>>
        BY <1>10 DEF Fail, Crash, rowVars, checkVars, queueVars
    <2>2. Accounted \subseteq Accounted'
        BY <1>0, <2>1, AccountsKept
    <2> QED
        BY <2>1, <2>2, HandsEmptied
<1>11. CASE UNCHANGED watcherVars
    BY <1>1, <1>11 DEF watcherVars
<1> QED
    BY <1>2, <1>3, <1>5, <1>6, <1>7, <1>8, <1>9, <1>10, <1>11
       DEF WatcherNext, CheckStep, Finish, ReportLost

\* What the source row says was seen last is being extracted, or was recorded by a check
\* that ended between UpdateCheckState and Enqueue; overlapping checks that write back
\* stale columns never lose anything else (checksource.go, Execute).
THEOREM ChangesAreRemembered == WatcherSpec => []RecordedChangeIsQueued
<1>1. Remembered => RecordedChangeIsQueued
    BY DEF Remembered, RecordedChangeIsQueued
<1> QED
    BY RememberedInit, RememberedStep, <1>1, PTL DEF WatcherSpec
=============================================================================
