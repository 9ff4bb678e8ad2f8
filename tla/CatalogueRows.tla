---------------------------- MODULE CatalogueRows ----------------------------
(***************************************************************************)
(* The rows of the published catalogue and what is asked of them           *)
(* (internal/adapters/postgres/release_repo.go, snapshot_repo.go and       *)
(* internal/domain/release.go): which release is the latest, what the page *)
(* of a product says, what a snapshot carries and what it loads.           *)
(*                                                                         *)
(* A release is its number; ids are minted in order, so a greater number   *)
(* is a later id.  What a vendor said of it never changes and is Fact; a   *)
(* state of the tables is a record `db`, and no operator here has one of   *)
(* its own.                                                                *)
(***************************************************************************)
EXTENDS Naturals, FiniteSets

CONSTANTS
    Rels,      \* every release there could be, a set of numbers
    Fact,      \* release -> what was observed of it
    Registered,\* products of the registry of this installation
    None

ASSUME RowsAssumption ==
    /\ Rels \subseteq Nat \ {0}
    /\ None \notin Rels
    /\ \A r \in Rels :
        /\ Fact[r].date \in Nat /\ Fact[r].seen \in Nat   \* date 0: the vendor gave none
        /\ Fact[r].kind \in {"firmware", "advisory"}
        /\ Fact[r].recommended \in BOOLEAN

Products == UNION {Fact[r].products : r \in Rels}

\* An instant is a number, 0 for a release that nothing was heard of since it was published.
Empty == [releases |-> {}, flagged |-> {}, withdrawn |-> {}, disputed |-> {},
          verified |-> [r \in Rels |-> 0], claims |-> [p \in Products |-> 0]]

\* release_product_mappings: one row for each product of a release, on the release's channel.
Mapped(db, p) == {r \in db.releases : p \in Fact[r].products}
Serveable(db, r) == r \notin db.withdrawn
EligibleForLatest(r) == Fact[r].kind # "advisory"

\* release_mappings_latest_idx
KeyOf(r, p) == <<p, Fact[r].channel>>
Flagged(db, key) == {r \in db.releases : \E p \in Fact[r].products :
                        <<r, p>> \in db.flagged /\ KeyOf(r, p) = key}

-----------------------------------------------------------------------------
(* Which of two is the later observation, in Go and in SQL.                *)

Dated(r) == Fact[r].date # 0
LatestComparison(r, s) ==
    \/ Dated(r) /\ ~Dated(s)
    \/ Dated(r) /\ Dated(s) /\ Fact[r].date > Fact[s].date
    \/ Fact[r].date = Fact[s].date /\ Fact[r].seen > Fact[s].seen

\* latestOrdering; a date of 0 comes last, as NULLS LAST says.
LatestOrdering(r, s) ==
    \/ Fact[r].date > Fact[s].date
    \/ Fact[r].date = Fact[s].date /\ Fact[r].seen > Fact[s].seen
    \/ Fact[r].date = Fact[s].date /\ Fact[r].seen = Fact[s].seen /\ r > s
First(rels) == IF rels = {} THEN None
               ELSE CHOOSE r \in rels : \A s \in rels \ {r} : LatestOrdering(r, s)

FlaggedFor(db, p) == {r \in Mapped(db, p) : <<r, p>> \in db.flagged /\ Serveable(db, r)}
AnyChannel == ""
LatestForProduct(db, p, channel) ==
    First({r \in FlaggedFor(db, p) : channel = AnyChannel \/ Fact[r].channel = channel})

\* What PublishRelease decides from what it read.
BecomesLatest(r, previous) ==
    EligibleForLatest(r) /\ (previous = None \/ LatestComparison(r, previous))

-----------------------------------------------------------------------------
(* The page of a product: RefreshProductSummary.                           *)

ReleaseCount(db, p) == Cardinality({r \in Mapped(db, p) : Serveable(db, r)})
Recommended(db, p) == First({r \in Mapped(db, p) : Fact[r].recommended /\ Serveable(db, r)})
OfficialSources(db, p) == {Fact[r].source : r \in {x \in Mapped(db, p) : Serveable(db, x)}}
LastVerified(db, p) ==
    LET instants == {0} \union {db.verified[r] : r \in {x \in Mapped(db, p) : Serveable(db, x)}}
    IN  CHOOSE t \in instants : \A s \in instants : s <= t
\* The versions and sources of the open conflict, which is known by when it was last stated.
Claims(db, p) == IF p \in db.disputed THEN db.claims[p] ELSE 0
SummaryRow(db, p) ==
    [latest |-> First(FlaggedFor(db, p)), recommended |-> Recommended(db, p),
     count |-> ReleaseCount(db, p), sources |-> OfficialSources(db, p),
     disputed |-> p \in db.disputed,
     verified |-> LastVerified(db, p), claims |-> Claims(db, p)]
Columns == {"latest", "recommended", "count", "sources", "disputed", "verified", "claims"}

-----------------------------------------------------------------------------
(* Snapshots.                                                              *)

\* One line: the release, whether it was withdrawn, and the products it is the latest of.
Line(db, r) == [id |-> r, withdrawn |-> r \in db.withdrawn, flags |-> {}]
WithMappings(db, lines) ==
    {[l EXCEPT !.flags = {p \in Fact[l.id].products : <<l.id, p>> \in db.flagged}] : l \in lines}
\* ReleaseFact.Validate
ValidLine(l) == Fact[l.id].products # {}

\* ImportReleaseFacts, over what the catalogue held.
Missing(db, lines) == {l \in lines : l.id \notin db.releases}
SlugsKnown(lines) == \A l \in lines : Fact[l.id].products \subseteq Registered
MarksOf(lines) == UNION {{<<l.id, p>> : p \in l.flags} : l \in lines}
Touched(lines) == UNION {Fact[l.id].products : l \in lines}
\* The CHECK on withdrawn_at, which a line does not carry.
WithdrawnConsistent(lines) == \A l \in lines : ~l.withdrawn
\* The unique index, over the flags that are there and those to come.
NoClash(db, lines) ==
    \A m, n \in db.flagged \union MarksOf(lines) :
        KeyOf(m[1], m[2]) = KeyOf(n[1], n[2]) => m = n
Loads(db, lines) ==
    /\ \A l \in lines : ValidLine(l)
    /\ SlugsKnown(lines)
    /\ WithdrawnConsistent(Missing(db, lines))
    /\ NoClash(db, Missing(db, lines))
Load(db, lines) ==
    [db EXCEPT !.releases = @ \union {l.id : l \in Missing(db, lines)},
               !.flagged = @ \union MarksOf(Missing(db, lines))]
=============================================================================
