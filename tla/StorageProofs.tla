--------------------------- MODULE StorageProofs ---------------------------
(***************************************************************************)
(* Proofs about Storage, for any operators, workers, migration files and   *)
(* bodies, and any number of failures and deaths: every row of             *)
(* source_artifacts has its bytes, but for what the power takes away, and  *)
(* the schema is a set of whole migrations, each applied once and after    *)
(* those that precede it in a build, whoever applies them.                 *)
(***************************************************************************)
EXTENDS Storage, WellFoundedInduction, TLAPS

-----------------------------------------------------------------------------
(***************************************************************************)
(* Artifacts.                                                              *)
(***************************************************************************)

Stages == {"down", "free", "compressing", "linking", "describing", "recording"}
Hands == [at : Stages, hash : Hashes \union {""}, temp : {"", "part", "whole"}]

\* What a Put has done so far: a row is not written before the bytes are there, and no
\* object has a name before it is whole.
PutSoFar(w) ==
    /\ work[w].at \in {"compressing", "linking", "describing", "recording"} =>
           work[w].hash \in Hashes
    /\ work[w].at = "linking" => work[w].temp = "whole"
    /\ work[w].at \in {"describing", "recording"} => work[w].hash \in DOMAIN objects
    /\ work[w].at = "recording" => work[w].hash \in sidecars

Stored ==
    /\ work \in [Workers -> Hands]
    /\ \A h \in DOMAIN objects : objects[h] = "whole"
    /\ \A w \in Workers : PutSoFar(w)
    /\ RowHasBytes

\* In the beginning nothing is stored.
LEMMA StoredInit == Init => Stored
<1> SUFFICES ASSUME Init PROVE Stored
    OBVIOUS
<1>1. DOMAIN objects = {} /\ DOMAIN rows = {}
    BY DEF Init
<1>2. work \in [Workers -> Hands]
    BY DEF Init, Hands, Stages, Down
<1>3. \A w \in Workers : work[w].at = "down"
    BY DEF Init, Down
<1> QED
    BY <1>1, <1>2, <1>3 DEF Stored, PutSoFar, RowHasBytes

\* A step that stores nothing and moves no worker.
LEMMA StoredAside == Stored /\ UNCHANGED <<disk, rows, work>> => Stored'
BY DEF Stored, disk, PutSoFar, RowHasBytes, Readable

\* One worker changes its hands; the others keep theirs.
LEMMA OneWorker ==
    ASSUME work \in [Workers -> Hands], NEW w \in Workers, NEW h \in Hands,
           work' = [work EXCEPT ![w] = h]
    PROVE  /\ work' \in [Workers -> Hands]
           /\ work'[w] = h
           /\ \A v \in Workers \ {w} : work'[v] = work[v]
OBVIOUS

\* What is on disk stays there, so a step has to answer for the worker that takes it and
\* for the row it adds.
LEMMA StoredGrows ==
    ASSUME Stored, NEW w \in Workers, NEW h \in Hands, work' = [work EXCEPT ![w] = h],
           DOMAIN objects \subseteq DOMAIN objects', sidecars \subseteq sidecars', UNCHANGED cut,
           \A x \in DOMAIN objects' : objects'[x] = "whole",
           PutSoFar(w)',
           \A x \in DOMAIN rows' \ cut : x \in DOMAIN rows \/ Readable(x)'
    PROVE  Stored'
<1>1. /\ work' \in [Workers -> Hands]
      /\ \A v \in Workers \ {w} : work'[v] = work[v]
    BY OneWorker DEF Stored
<1>2. ASSUME NEW v \in Workers \ {w} PROVE PutSoFar(v)'
    <2>1. work'[v] = work[v] /\ PutSoFar(v)
        BY <1>1 DEF Stored
    <2> QED
        BY <2>1 DEF PutSoFar
<1>3. \A v \in Workers : PutSoFar(v)'
    BY <1>2
<1>4. RowHasBytes'
    BY DEF Stored, RowHasBytes, Readable
<1> QED
    BY <1>1, <1>3, <1>4 DEF Stored

\* A worker that holds nothing has nothing to keep.
LEMMA StoredEmptied ==
    ASSUME Stored, NEW w \in Workers, NEW h \in {Free, Down},
           work' = [work EXCEPT ![w] = h], UNCHANGED <<disk, rows>>
    PROVE  Stored'
<1>1. h \in Hands /\ h.at \in {"free", "down"}
    <2>1. Down \in Hands /\ Down.at = "down"
        BY DEF Hands, Stages, Down
    <2>2. Free \in Hands /\ Free.at = "free"
        BY DEF Hands, Stages, Free, Down
    <2> QED
        BY <2>1, <2>2
<1>2. work'[w] = h
    BY <1>1, OneWorker DEF Stored
<1>3. PutSoFar(w)'
    BY <1>1, <1>2 DEF PutSoFar
<1> QED
    BY <1>1, <1>3, StoredGrows DEF Stored, disk

\* A body that is counted has a row from then on.
LEMMA CountedKeeps ==
    ASSUME NEW h, Counted(h)
    PROVE  DOMAIN rows' = DOMAIN rows \union {h}
BY DEF Counted

LEMMA StoredBeginPut ==
    ASSUME Stored, NEW w \in Workers, NEW h \in Hashes, BeginPut(w, h)
    PROVE  Stored'
<1>1. CASE h \in DOMAIN rows
    <2>1. DOMAIN rows' = DOMAIN rows /\ UNCHANGED <<disk, work>>
        BY <1>1, CountedKeeps DEF BeginPut
    <2> QED
        BY <2>1 DEF Stored, disk, PutSoFar, RowHasBytes, Readable
<1>2. CASE h \notin DOMAIN rows
    <2> DEFINE hand == [at |-> "compressing", hash |-> h, temp |-> "part"]
    <2>1. hand \in Hands
        BY DEF Hands, Stages
    <2>2. work' = [work EXCEPT ![w] = hand] /\ UNCHANGED <<disk, rows>>
        BY <1>2 DEF BeginPut
    <2>3. work'[w] = hand
        BY <2>1, <2>2, OneWorker DEF Stored
    <2>4. PutSoFar(w)'
        BY <2>3 DEF PutSoFar
    <2> HIDE DEF hand
    <2> QED
        BY <2>1, <2>2, <2>4, StoredGrows DEF Stored, disk
<1> QED
    BY <1>1, <1>2

\* Of a step that moves a worker on, its new hands.
LEMMA MovesTo ==
    ASSUME Stored, NEW w \in Workers, NEW from \in Stages, NEW to \in Stages,
           Moves(w, from, to)
    PROVE  \E h \in Hands : /\ work' = [work EXCEPT ![w] = h] /\ work'[w] = h
                            /\ h.at = to /\ h.hash = work[w].hash /\ h.temp = work[w].temp
<1> DEFINE h == [work[w] EXCEPT !.at = to]
<1>1. h \in Hands
    BY DEF Stored, Hands
<1>2. work' = [work EXCEPT ![w] = h]
    BY DEF Moves
<1>3. work'[w] = h
    BY <1>1, <1>2, OneWorker DEF Stored
<1>4. h.at = to /\ h.hash = work[w].hash /\ h.temp = work[w].temp
    BY DEF Stored, Hands
<1> QED
    BY <1>1, <1>2, <1>3, <1>4

LEMMA StoredPut ==
    ASSUME Stored, NEW w \in Workers, Put(w)
    PROVE  Stored'
<1>1. CASE Compress(w)
    <2> DEFINE h == [work[w] EXCEPT !.at = "linking", !.temp = "whole"]
    <2>1. h \in Hands
        BY DEF Stored, Hands, Stages
    <2>2. work' = [work EXCEPT ![w] = h] /\ UNCHANGED <<disk, rows>>
        BY <1>1 DEF Compress
    <2>3. work'[w] = h
        BY <2>1, <2>2, OneWorker DEF Stored
    <2>4. h.at = "linking" /\ h.temp = "whole" /\ h.hash = work[w].hash
        BY DEF Stored, Hands
    <2>5. work[w].hash \in Hashes
        BY <1>1 DEF Compress, Stored, PutSoFar
    <2> HIDE DEF h
    <2>6. PutSoFar(w)'
        BY <2>3, <2>4, <2>5 DEF PutSoFar
    <2> QED
        BY <2>1, <2>2, <2>6, StoredGrows DEF Stored, disk
<1>2. CASE Link(w)
    <2> DEFINE x == work[w].hash
    <2>1. PICK h \in Hands : /\ work' = [work EXCEPT ![w] = h] /\ work'[w] = h
                             /\ h.at = "describing" /\ h.hash = x
        BY <1>2, MovesTo DEF Link, Stages
    <2>2. x \in Hashes /\ work[w].temp = "whole"
        BY <1>2 DEF Link, Moves, Stored, PutSoFar
    <2>3. /\ DOMAIN objects' = DOMAIN objects \union {x}
          /\ \A y \in DOMAIN objects' : objects'[y] = "whole"
        BY <1>2, <2>2 DEF Link, Names, Stored
    <2>4. UNCHANGED <<sidecars, cut, rows>>
        BY <1>2 DEF Link
    <2>5. PutSoFar(w)'
        BY <2>1, <2>2, <2>3 DEF PutSoFar
    <2> QED
        BY <2>1, <2>3, <2>4, <2>5, StoredGrows
<1>3. CASE WriteMeta(w)
    <2> DEFINE x == work[w].hash
    <2>1. PICK h \in Hands : /\ work' = [work EXCEPT ![w] = h] /\ work'[w] = h
                             /\ h.at = "recording" /\ h.hash = x
        BY <1>3, MovesTo DEF WriteMeta, Stages
    <2>2. x \in Hashes /\ x \in DOMAIN objects
        BY <1>3 DEF WriteMeta, Moves, Stored, PutSoFar
    <2>3. sidecars' = sidecars \union {x} /\ UNCHANGED <<objects, cut, rows>>
        BY <1>3 DEF WriteMeta
    <2>4. PutSoFar(w)'
        BY <2>1, <2>2, <2>3 DEF PutSoFar
    <2> QED
        BY <2>1, <2>3, <2>4, StoredGrows DEF Stored
<1>4. CASE InsertRow(w)
    <2>1. DOMAIN rows' = DOMAIN rows \union {work[w].hash}
        BY <1>4, CountedKeeps DEF InsertRow
    <2>2. Readable(work[w].hash)
        BY <1>4 DEF InsertRow, Stored, PutSoFar, Readable
    <2>3. work' = [work EXCEPT ![w] = Free] /\ UNCHANGED disk
        BY <1>4 DEF InsertRow, Returns
    <2>4. Free \in Hands /\ Free.at = "free"
        BY DEF Free, Down, Hands, Stages
    <2>5. work'[w] = Free
        BY <2>3, <2>4, OneWorker DEF Stored
    <2>6. PutSoFar(w)'
        BY <2>4, <2>5 DEF PutSoFar
    <2>7. \A x \in DOMAIN rows' : x \in DOMAIN rows \/ Readable(x)'
        BY <2>1, <2>2, <2>3 DEF Readable, disk
    <2> QED
        BY <2>3, <2>4, <2>6, <2>7, StoredGrows DEF Stored, disk
<1> QED
    BY <1>1, <1>2, <1>3, <1>4 DEF Put

\* What the power takes away is noted, if a row told of it; the workers are down.
LEMMA StoredPowerCut == Stored /\ PowerCut => Stored'
<1> SUFFICES ASSUME Stored, PowerCut PROVE Stored'
    OBVIOUS
<1>1. PICK lost \in SUBSET unwritten :
          LET gone(kind) == {h \in Hashes : <<kind, h>> \in lost}
          IN  /\ objects' = [h \in DOMAIN objects \ gone("object") |-> objects[h]]
              /\ sidecars' = sidecars \ gone("sidecar")
              /\ cut' = cut \union (DOMAIN rows \intersect (gone("object") \union gone("sidecar")))
    BY DEF PowerCut
<1>2. work' = [w \in Workers |-> Down] /\ UNCHANGED rows
    BY DEF PowerCut
<1>3. Down \in Hands /\ Down.at = "down"
    BY DEF Down, Hands, Stages
<1>4. work' \in [Workers -> Hands] /\ \A w \in Workers : PutSoFar(w)'
    BY <1>2, <1>3 DEF PutSoFar
<1>5. \A h \in DOMAIN objects' : objects'[h] = "whole"
    BY <1>1 DEF Stored
<1>6. ASSUME NEW h \in DOMAIN rows' \ cut' PROVE Readable(h)'
    <2>1. h \in DOMAIN rows \ cut /\ Readable(h)
        BY <1>1, <1>2 DEF Stored, RowHasBytes
    <2>2. h \in DOMAIN objects' /\ h \in sidecars' /\ objects'[h] = objects[h]
        BY <1>1, <1>2, <2>1 DEF Readable
    <2> QED
        BY <2>1, <2>2 DEF Readable
<1> QED
    BY <1>4, <1>5, <1>6 DEF Stored, RowHasBytes

LEMMA StoredStep == Stored /\ [Next]_vars => Stored'
<1> SUFFICES ASSUME Stored, [Next]_vars PROVE Stored'
    OBVIOUS
<1>1. ASSUME NEW o \in Operators, BeginUp(o) \/ GoOn(o) \/ AbortUp(o) PROVE Stored'
    BY <1>1, StoredAside
    DEF BeginUp, GoOn, NextMigration, Execute, Record, Commit, AbortUp
<1>2. ASSUME NEW w \in Workers, StartWorker(w) \/ FailPut(w) \/ StopWorker(w) PROVE Stored'
    BY <1>2, StoredEmptied DEF StartWorker, FailPut, StopWorker, Returns
<1>3. ASSUME NEW w \in Workers, NEW h \in Hashes, BeginPut(w, h) PROVE Stored'
    BY <1>3, StoredBeginPut
<1>4. ASSUME NEW w \in Workers, Put(w) PROVE Stored'
    BY <1>4, StoredPut
<1>5. CASE WriteBack
    BY <1>5 DEF WriteBack, Stored, PutSoFar, RowHasBytes, Readable
<1>6. CASE PowerCut
    BY <1>6, StoredPowerCut
<1>7. CASE UNCHANGED vars
    BY <1>7, StoredAside DEF vars, disk
<1> QED
    BY <1>1, <1>2, <1>3, <1>4, <1>5, <1>6, <1>7 DEF Next

\* Whatever is cut off, and however many workers store one body at a time: an artifact that
\* has a row has a whole object and its metadata, unless the power went before the system had
\* written them back (filesystem.go, artifact_repo.go).
THEOREM ArtifactsAreReadable == Spec => []RowHasBytes
<1>1. Stored => RowHasBytes
    BY DEF Stored
<1> QED
    BY StoredInit, StoredStep, <1>1, PTL DEF Spec

-----------------------------------------------------------------------------
(***************************************************************************)
(* The schema.                                                             *)
(***************************************************************************)

\* A file that loads and of which PostgreSQL executes every statement.
Runs(s, i) == /\ Loads(Parsed[s][i])
              /\ \A k \in 1 .. Len(Parsed[s][i].up) : Executable[s][i][k]

\* What the authors of the files have to see to: a file that runs does what it is for.
FilesDoWhatTheySay ==
    \A s \in DOMAIN FileSets : \A i \in DOMAIN FileSets[s] :
        Runs(s, i) => Effect[s][i] = FileSets[s][i].does

OpStages == {"idle", "choosing", "executing", "recording", "committing"}
UpState == [at : OpStages, seen : SUBSET Nat, version : Nat, next : Nat]

InFlight(o) == ops[o].at \in {"executing", "recording", "committing"}
Executed(o) == IF ops[o].at = "executing" THEN 1 .. ops[o].next - 1
               ELSE 1 .. Len(StatementsOf(ops[o].version))

\* The files of a build whose names precede that of v.
Earlier(o, v) == {u \in Carried(o) : u < v}

\* What one `migrate up` knows: the migrations it takes for applied are; the one it works on
\* is of its build, comes after those it takes for applied, loads, and was executed so far.
UpSoFar(o) ==
    /\ ops[o].at # "idle" => CanLoad(o) /\ ops[o].seen \subseteq recorded
    /\ InFlight(o) => /\ ops[o].version \in Carried(o)
                      /\ Earlier(o, ops[o].version) \subseteq ops[o].seen
                      /\ \A k \in Executed(o) : Executable[files][ops[o].version][k]
    /\ ops[o].at = "committing" => ops[o].version \notin recorded

\* The migration at j was applied by a build whose earlier files were there already.
InOrder(j) ==
    \E o \in Operators :
        /\ schema[j] \in Carried(o)
        /\ \A u \in Carried(o) : u < schema[j] => \E i \in 1 .. j - 1 : schema[i] = u

\* schema_migrations lists what was applied, and no two transactions hold one version.
Numbered ==
    /\ schema \in Seq(Nat)
    /\ \A v : v \in recorded <=> \E i \in 1 .. Len(schema) : schema[i] = v
    /\ \A i, j \in 1 .. Len(schema) : schema[i] = schema[j] => i = j
    /\ \A i \in 1 .. Len(schema) : schema[i] \in Numbers /\ Runs(files, schema[i]) /\ InOrder(i)

HeldOnce ==
    \A o, p \in Operators :
        ops[o].at = "committing" /\ ops[p].at = "committing"
            /\ ops[o].version = ops[p].version => o = p

Migrated ==
    /\ files \in DOMAIN FileSets
    /\ ops \in [Operators -> UpState]
    /\ work \in [Workers -> Hands]
    /\ \A o \in Operators : UpSoFar(o)
    /\ Numbered
    /\ HeldOnce
    /\ \A w \in Workers : work[w].at # "down" => Carried(w) \subseteq recorded

LEMMA MigratedInit == Init => Migrated
<1> SUFFICES ASSUME Init PROVE Migrated
    OBVIOUS
<1>1. ops \in [Operators -> UpState] /\ \A o \in Operators : ops[o].at = "idle"
    BY DEF Init, UpState, OpStages, Idle
<1>2. work \in [Workers -> Hands] /\ \A w \in Workers : work[w].at = "down"
    BY DEF Init, Hands, Stages, Down
<1>3. schema \in Seq(Nat) /\ Len(schema) = 0 /\ DOMAIN schema = {} /\ recorded = {}
    BY DEF Init
<1>4. Numbered
    BY <1>3 DEF Numbered
<1> QED
    BY <1>1, <1>2, <1>4 DEF Init, Migrated, UpSoFar, InFlight, HeldOnce

\* One operator moves on; the others stay where they are.
LEMMA OneOperator ==
    ASSUME ops \in [Operators -> UpState], NEW o \in Operators, NEW u \in UpState,
           ops' = [ops EXCEPT ![o] = u]
    PROVE  /\ ops' \in [Operators -> UpState]
           /\ ops'[o] = u
           /\ \A p \in Operators \ {o} : ops'[p] = ops[p]
OBVIOUS

\* What is applied stays so.
LEMMA NumberedKept ==
    ASSUME Numbered, UNCHANGED <<files, recorded, schema>>
    PROVE  Numbered'
BY DEF Numbered, Numbers, Runs, InOrder, Carried

\* Nothing is applied: a step has to answer only for the operator that takes it.
LEMMA MigratedMoves ==
    ASSUME Migrated, NEW o \in Operators, NEW u \in UpState, ops' = [ops EXCEPT ![o] = u],
           UpSoFar(o)',
           u.at = "committing" =>
               \A p \in Operators \ {o} : ops[p].at = "committing" => ops[p].version # u.version,
           UNCHANGED <<files, db, work>>
    PROVE  Migrated'
<1>1. /\ ops' \in [Operators -> UpState] /\ ops'[o] = u
      /\ \A p \in Operators \ {o} : ops'[p] = ops[p]
    BY OneOperator DEF Migrated
<1>2. UNCHANGED <<files, recorded, schema, work>>
    BY DEF db
<1>3. ASSUME NEW p \in Operators \ {o} PROVE UpSoFar(p)'
    <2>1. ops'[p] = ops[p] /\ UpSoFar(p)
        BY <1>1 DEF Migrated
    <2> QED
        BY <2>1, <1>2 DEF UpSoFar, InFlight, Executed, CanLoad, StatementsOf, Earlier, Carried
<1>4. HeldOnce'
    BY <1>1 DEF HeldOnce, Migrated
<1>5. Numbered'
    BY <1>2, NumberedKept DEF Migrated
<1>6. \A w \in Workers : work'[w].at # "down" => (Carried(w) \subseteq recorded)'
    BY <1>2 DEF Migrated, Carried
<1> QED
    BY <1>1, <1>2, <1>3, <1>4, <1>5, <1>6 DEF Migrated

\* An operator that is done has nothing to keep.
LEMMA MigratedEnds ==
    ASSUME Migrated, NEW o \in Operators, EndUp(o), UNCHANGED <<files, db, work>>
    PROVE  Migrated'
<1>1. Idle \in UpState /\ Idle.at = "idle"
    BY DEF Idle, UpState, OpStages
<1>2. ops'[o] = Idle
    BY <1>1, OneOperator DEF EndUp, Migrated
<1>3. UpSoFar(o)'
    BY <1>1, <1>2 DEF UpSoFar, InFlight
<1> QED
    BY <1>1, <1>3, MigratedMoves DEF EndUp

LEMMA MigratedBeginUp ==
    ASSUME Migrated, NEW o \in Operators, BeginUp(o)
    PROVE  Migrated'
<1> DEFINE u == Choosing(recorded)
<1>1. recorded \in SUBSET Nat
    BY DEF Migrated, Numbered
<1>2. u \in UpState /\ u.at = "choosing" /\ u.seen = recorded
    BY <1>1 DEF Choosing, UpState, OpStages
<1>3. ops' = [ops EXCEPT ![o] = u] /\ UNCHANGED <<files, db, work>>
    BY DEF BeginUp
<1>4. ops'[o] = u
    BY <1>2, <1>3, OneOperator DEF Migrated
<1> HIDE DEF u
<1>5. UpSoFar(o)'
    BY <1>1, <1>2, <1>3, <1>4 DEF UpSoFar, InFlight, BeginUp, CanLoad, Carried, db
<1> QED
    BY <1>2, <1>3, <1>5, MigratedMoves

\* A set of numbers that is not empty has a least one.
LEMMA LeastOf ==
    ASSUME NEW S \in SUBSET Nat, S # {}
    PROVE  \E x \in S : \A y \in S : x <= y
<1> DEFINE Less == {p \in Nat \X Nat : p[1] < p[2]}
<1>1. IsWellFoundedOn(Less, Nat)
    BY NatLessThanWellFounded, Zenon DEF OpToRel
<1>2. PICK x \in S : \A y \in S : ~(<<y, x>> \in Less)
  <2> HIDE DEF Less
  <2> QED
    BY <1>1, WFMin
<1>3. \A y \in S : ~(y < x)
    BY <1>2
<1> QED
    BY <1>3

\* The files of a build are numbers of files.
LEMMA CarriedNat ==
    ASSUME files \in DOMAIN FileSets, NEW p \in Operators \union Workers
    PROVE  Carried(p) \in SUBSET Numbers /\ Carried(p) \in SUBSET Nat
BY StorageAssumption DEF Carried, Numbers

\* The first that is pending has nothing before it that is not applied.
LEMMA MigratedNext ==
    ASSUME Migrated, NEW o \in Operators, NextMigration(o)
    PROVE  Migrated'
<1>1. UNCHANGED <<files, db, work>> /\ ops[o].at = "choosing"
    BY DEF NextMigration
<1>2. CASE Pending(o) = {}
    BY <1>1, <1>2, MigratedEnds DEF NextMigration
<1>3. CASE Pending(o) # {}
    <2> DEFINE Leads(x) == \A y \in Pending(o) : x <= y
    <2> DEFINE v == CHOOSE x \in Pending(o) : Leads(x)
    <2>1. Pending(o) \in SUBSET Nat
        BY CarriedNat DEF Migrated, Pending
    <2>2. \E x \in Pending(o) : Leads(x)
        BY <1>3, <2>1, LeastOf
    <2>3. v \in Pending(o) /\ Leads(v)
        BY <2>2
    <2>4. v \in Carried(o) /\ v \in Nat
        BY <2>1, <2>3 DEF Pending
    <2>5. Earlier(o, v) \subseteq ops[o].seen
        <3>1. ASSUME NEW y \in Carried(o), y < v, y \notin ops[o].seen PROVE FALSE
            <4>1. y \in Pending(o) /\ y \in Nat
                BY <2>1, <3>1 DEF Pending
            <4>2. v <= y
                BY <2>3, <4>1
            <4> QED
                BY <2>4, <3>1, <4>1, <4>2
        <3> QED
            BY <3>1 DEF Earlier
    <2>6. ops[o].seen \in SUBSET Nat
        BY DEF Migrated, UpState
    <2> DEFINE u == Working("executing", ops[o].seen, v, 1)
    <2>7. ops' = [ops EXCEPT ![o] = u]
        BY <1>3 DEF NextMigration
    <2> HIDE DEF v
    <2>8. /\ u \in UpState /\ u.at = "executing" /\ u.seen = ops[o].seen
          /\ u.version = v /\ u.next = 1
        BY <2>4, <2>6 DEF Working, UpState, OpStages
    <2> HIDE DEF u
    <2>9. ops'[o] = u
        BY <2>7, <2>8, OneOperator DEF Migrated
    <2>10. UpSoFar(o)'
        BY <1>1, <2>4, <2>5, <2>8, <2>9
        DEF Migrated, UpSoFar, InFlight, Executed, CanLoad, Carried, Earlier, db
    <2> QED
        BY <1>1, <2>7, <2>8, <2>10, MigratedMoves
<1> QED
    BY <1>2, <1>3

LEMMA MigratedExecute ==
    ASSUME Migrated, NEW o \in Operators, Execute(o)
    PROVE  Migrated'
<1> DEFINE n == ops[o].next
<1> DEFINE v == ops[o].version
<1> DEFINE isLast == n = Len(StatementsOf(v))
<1>1. UNCHANGED <<files, db, work>> /\ ops[o].at = "executing"
    BY DEF Execute
<1>2. CASE EndUp(o)
    BY <1>1, <1>2, MigratedEnds
<1>3. CASE ~EndUp(o)
    <2> DEFINE at == IF isLast THEN "recording" ELSE "executing"
    <2> DEFINE u == Working(at, ops[o].seen, v, n + 1)
    <2>1. ops' = [ops EXCEPT ![o] = u] /\ Executable[files][v][n]
        BY <1>3 DEF Execute
    <2>2. ops[o] \in UpState /\ ops[o].seen \in SUBSET Nat /\ v \in Nat /\ n \in Nat
        BY DEF Migrated, UpState
    <2>3. /\ u \in UpState /\ u.at = at /\ u.seen = ops[o].seen
          /\ u.version = v /\ u.next = n + 1
        BY <2>2 DEF Working, UpState, OpStages
    <2>4. \A k \in 1 .. n : Executable[files][v][k]
        <3>1. \A k \in 1 .. n - 1 : Executable[files][v][k]
            BY <1>1 DEF Migrated, UpSoFar, InFlight, Executed
        <3> QED
            BY <2>1, <2>2, <3>1
    <2>5. ops'[o] = u
        BY <2>1, <2>3, OneOperator DEF Migrated
    <2>6. at \in {"recording", "executing"} /\ (at = "recording" => isLast)
        OBVIOUS
    <2> HIDE DEF u, at
    <2>7. \A k \in Executed(o)' : Executable[files][v][k]
        BY <1>1, <2>2, <2>3, <2>4, <2>5, <2>6 DEF Executed, StatementsOf
    <2>8. UpSoFar(o)'
        BY <1>1, <2>3, <2>5, <2>6, <2>7
        DEF Migrated, UpSoFar, InFlight, CanLoad, Carried, Earlier, db
    <2> QED
        BY <1>1, <2>1, <2>3, <2>6, <2>8, MigratedMoves
<1> QED
    BY <1>2, <1>3

\* The primary key: nobody else holds the version, and it is not there yet.
LEMMA MigratedRecord ==
    ASSUME Migrated, NEW o \in Operators, Record(o)
    PROVE  Migrated'
<1> DEFINE v == ops[o].version
<1>1. UNCHANGED <<files, db, work>> /\ ops[o].at = "recording"
    BY DEF Record
<1>2. CASE v \in recorded
    BY <1>1, <1>2, MigratedEnds DEF Record
<1>3. CASE v \notin recorded
    <2> DEFINE u == [ops[o] EXCEPT !.at = "committing"]
    <2>1. ops' = [ops EXCEPT ![o] = u]
        BY <1>3 DEF Record
    <2>2. /\ u \in UpState /\ u.at = "committing" /\ u.seen = ops[o].seen
          /\ u.version = v /\ u.next = ops[o].next
        BY DEF Migrated, UpState, OpStages
    <2> HIDE DEF u
    <2>3. ops'[o] = u
        BY <2>1, <2>2, OneOperator DEF Migrated
    <2>4. UpSoFar(o)'
        BY <1>1, <1>3, <2>2, <2>3
        DEF Migrated, UpSoFar, InFlight, Executed, StatementsOf, CanLoad, Carried, Earlier, db
    <2>5. \A p \in Operators \ {o} : ops[p].at = "committing" => ops[p].version # v
        BY DEF Record
    <2> QED
        BY <1>1, <2>1, <2>2, <2>4, <2>5, MigratedMoves
<1> QED
    BY <1>2, <1>3

\* The version is new, and what precedes it in the build is there.
LEMMA NumberedGrows ==
    ASSUME Migrated, NEW o \in Operators, NEW v, v \in Carried(o), v \notin recorded,
           Earlier(o, v) \subseteq recorded, Runs(files, v), UNCHANGED files,
           recorded' = recorded \union {v}, schema' = Append(schema, v)
    PROVE  Numbered'
<1> DEFINE n == Len(schema)
<1>1. v \in Numbers /\ v \in Nat
    BY CarriedNat DEF Migrated
<1>2. n \in Nat /\ schema \in Seq(Nat) /\ Numbered
    BY DEF Migrated, Numbered
<1>3. /\ schema' \in Seq(Nat) /\ Len(schema') = n + 1 /\ schema'[n + 1] = v
      /\ \A i \in 1 .. n : schema'[i] = schema[i]
    BY <1>1, <1>2
<1> HIDE DEF n
<1>4. \A u : u \in recorded' <=> \E i \in 1 .. n + 1 : schema'[i] = u
    <2>1. \A u : u \in recorded <=> \E i \in 1 .. n : schema[i] = u
        BY <1>2 DEF Numbered, n
    <2>2. \A i \in 1 .. n + 1 : i \in 1 .. n \/ i = n + 1
        BY <1>2
    <2>3. 1 .. n \subseteq 1 .. n + 1 /\ n + 1 \in 1 .. n + 1
        BY <1>2
    <2> QED
        BY <1>3, <2>1, <2>2, <2>3
<1>5. \A i, j \in 1 .. n + 1 : schema'[i] = schema'[j] => i = j
    <2>1. \A i, j \in 1 .. n : schema[i] = schema[j] => i = j
        BY <1>2 DEF Numbered, n
    <2>2. \A i \in 1 .. n : schema[i] # v
        BY <1>2 DEF Numbered, n
    <2>3. \A i \in 1 .. n + 1 : i \in 1 .. n \/ i = n + 1
        BY <1>2
    <2> QED
        BY <1>3, <2>1, <2>2, <2>3
<1>6. ASSUME NEW i \in 1 .. n + 1
      PROVE  schema'[i] \in Numbers /\ Runs(files, schema'[i]) /\ InOrder(i)'
    <2>1. CASE i = n + 1
        <3>1. ASSUME NEW u \in Carried(o), u < v PROVE \E k \in 1 .. n : schema'[k] = u
            BY <1>2, <1>3, <3>1 DEF Earlier, Numbered, n
        <3>2. 1 .. i - 1 = 1 .. n
            BY <1>2, <2>1
        <3>3. InOrder(i)'
            BY <1>3, <2>1, <3>1, <3>2 DEF InOrder, Carried
        <3> QED
            BY <1>1, <1>3, <2>1, <3>3
    <2>2. CASE i # n + 1
        <3>1. i \in 1 .. n /\ \A k \in 1 .. i - 1 : k \in 1 .. n
            BY <1>2, <2>2
        <3>2. schema'[i] = schema[i] /\ \A k \in 1 .. i - 1 : schema'[k] = schema[k]
            BY <1>3, <3>1
        <3>3. schema[i] \in Numbers /\ Runs(files, schema[i]) /\ InOrder(i)
            BY <1>2, <3>1 DEF Numbered, n
        <3>4. InOrder(i)'
            <4>1. PICK p \in Operators :
                      /\ schema[i] \in Carried(p)
                      /\ \A u \in Carried(p) : u < schema[i] =>
                            \E k \in 1 .. i - 1 : schema[k] = u
                BY <3>3 DEF InOrder
            <4>2. schema'[i] \in Carried(p)'
                BY <3>2, <4>1 DEF Carried
            <4>3. ASSUME NEW u \in Carried(p)', u < schema'[i]
                  PROVE  \E k \in 1 .. i - 1 : schema'[k] = u
                BY <3>2, <4>1, <4>3 DEF Carried
            <4> QED
                BY <4>2, <4>3 DEF InOrder
        <3> QED
            BY <3>2, <3>3, <3>4
    <2> QED
        BY <2>1, <2>2
<1> QED
    BY <1>3, <1>4, <1>5, <1>6 DEF Numbered, Numbers, Runs

LEMMA MigratedCommit ==
    ASSUME Migrated, NEW o \in Operators, Commit(o)
    PROVE  Migrated'
<1> DEFINE v == ops[o].version
<1>1. /\ UNCHANGED <<files, work>> /\ ops[o].at = "committing"
      /\ recorded' = recorded \union {v} /\ schema' = Append(schema, v)
    BY DEF Commit, Applied
<1>2. /\ Earlier(o, v) \subseteq recorded /\ ops[o].seen \subseteq recorded /\ v \notin recorded
      /\ v \in Carried(o) /\ CanLoad(o)
      /\ \A k \in 1 .. Len(StatementsOf(v)) : Executable[files][v][k]
    BY <1>1 DEF Migrated, UpSoFar, InFlight, Executed
<1>3. v \in Nat
    BY <1>2, CarriedNat DEF Migrated
<1>6. Numbered'
    <2>1. Runs(files, v)
        BY <1>2 DEF CanLoad, Runs, StatementsOf
    <2> QED
        BY <1>1, <1>2, <2>1, NumberedGrows
<1>7. PICK u \in {Choosing(ops[o].seen \union {v}), Idle} : ops' = [ops EXCEPT ![o] = u]
    BY DEF Commit, EndUp
<1>8. /\ u \in UpState /\ u.at \in {"idle", "choosing"}
      /\ u.at = "choosing" => u.seen = ops[o].seen \union {v}
    <2> DEFINE seen == ops[o].seen \union {v}
    <2>1. seen \in SUBSET Nat
        BY <1>3 DEF Migrated, UpState
    <2>2. Choosing(seen) \in UpState /\ Choosing(seen).at = "choosing"
            /\ Choosing(seen).seen = seen
        BY <2>1 DEF Choosing, UpState, OpStages
    <2>3. Idle \in UpState /\ Idle.at = "idle"
        BY DEF Idle, UpState, OpStages
    <2> QED
        BY <2>1, <2>2, <2>3
<1>9. /\ ops' \in [Operators -> UpState] /\ ops'[o] = u
      /\ \A p \in Operators \ {o} : ops'[p] = ops[p]
    BY <1>7, <1>8, OneOperator DEF Migrated
<1>10. UpSoFar(o)'
    BY <1>1, <1>2, <1>8, <1>9 DEF UpSoFar, InFlight, CanLoad, Carried
<1>11. ASSUME NEW p \in Operators \ {o} PROVE UpSoFar(p)'
    <2>1. ops'[p] = ops[p] /\ UpSoFar(p)
        BY <1>9 DEF Migrated
    <2>2. ops[p].at = "committing" => ops[p].version # v
        BY <1>1 DEF Migrated, HeldOnce
    <2> QED
        BY <1>1, <2>1, <2>2
        DEF UpSoFar, InFlight, Executed, CanLoad, StatementsOf, Earlier, Carried
<1>12. HeldOnce'
    BY <1>8, <1>9 DEF Migrated, HeldOnce
<1>13. \A w \in Workers : work'[w].at # "down" => (Carried(w) \subseteq recorded)'
    BY <1>1 DEF Migrated, Carried
<1> QED
    BY <1>1, <1>6, <1>9, <1>10, <1>11, <1>12, <1>13 DEF Migrated

\* A worker that is started finds what it carries, and nothing is ever taken away.
LEMMA MigratedWork ==
    ASSUME Migrated, NEW w \in Workers, NEW h \in Hands, work' = [work EXCEPT ![w] = h],
           h.at # "down" => Carried(w) \subseteq recorded,
           UNCHANGED <<files, db, ops>>
    PROVE  Migrated'
<1>1. /\ work' \in [Workers -> Hands] /\ work'[w] = h
      /\ \A v \in Workers \ {w} : work'[v] = work[v]
    BY OneWorker DEF Migrated
<1>2. UNCHANGED <<files, recorded, schema, ops>>
    BY DEF db
<1>3. \A o \in Operators : UpSoFar(o)'
    BY <1>2 DEF Migrated, UpSoFar, InFlight, Executed, CanLoad, StatementsOf, Earlier, Carried
<1>4. Numbered' /\ HeldOnce'
    BY <1>2, NumberedKept DEF Migrated, HeldOnce
<1>5. \A v \in Workers : work'[v].at # "down" => (Carried(v) \subseteq recorded)'
    BY <1>1, <1>2 DEF Migrated, Carried
<1> QED
    BY <1>1, <1>2, <1>3, <1>4, <1>5 DEF Migrated

LEMMA MigratedWorks ==
    ASSUME Migrated, NEW w \in Workers,
           \/ StartWorker(w) \/ Put(w) \/ FailPut(w) \/ StopWorker(w)
           \/ \E h \in Hashes : BeginPut(w, h)
    PROVE  Migrated'
<1>1. UNCHANGED <<files, db, ops>>
    BY DEF StartWorker, Put, Compress, Link, WriteMeta, InsertRow, FailPut, StopWorker, BeginPut
<1>2. Free \in Hands /\ Down \in Hands /\ Down.at = "down"
    BY DEF Free, Down, Hands, Stages
<1>3. work[w] \in Hands /\ (work[w].at # "down" => Carried(w) \subseteq recorded)
    BY DEF Migrated
<1>4. CASE StartWorker(w)
    BY <1>1, <1>2, <1>4, MigratedWork DEF StartWorker
<1>5. CASE StopWorker(w)
    BY <1>1, <1>2, <1>5, MigratedWork DEF StopWorker
<1>6. CASE FailPut(w) \/ InsertRow(w)
    <2>1. work[w].at # "down" /\ work' = [work EXCEPT ![w] = Free]
        BY <1>6 DEF FailPut, InsertRow, Returns
    <2> QED
        BY <1>1, <1>2, <1>3, <2>1, MigratedWork
<1>7. CASE Compress(w)
    <2> DEFINE h == [work[w] EXCEPT !.at = "linking", !.temp = "whole"]
    <2>1. h \in Hands
        BY <1>3 DEF Hands, Stages
    <2>2. work[w].at # "down" /\ work' = [work EXCEPT ![w] = h]
        BY <1>7 DEF Compress
    <2> HIDE DEF h
    <2> QED
        BY <1>1, <1>3, <2>1, <2>2, MigratedWork
<1>8. CASE Link(w) \/ WriteMeta(w)
    <2>1. PICK to \in {"describing", "recording"} :
              work[w].at # "down" /\ work' = [work EXCEPT ![w].at = to]
        BY <1>8 DEF Link, WriteMeta, Moves
    <2> DEFINE h == [work[w] EXCEPT !.at = to]
    <2>2. h \in Hands
        BY <1>3, <2>1 DEF Hands, Stages
    <2>3. work' = [work EXCEPT ![w] = h]
        BY <2>1
    <2> HIDE DEF h
    <2> QED
        BY <1>1, <1>3, <2>1, <2>2, <2>3, MigratedWork
<1>9. ASSUME NEW x \in Hashes, BeginPut(w, x) PROVE Migrated'
    <2>1. work[w].at = "free"
        BY <1>9 DEF BeginPut
    <2> DEFINE h == [at |-> "compressing", hash |-> x, temp |-> "part"]
    <2>2. h \in Hands
        BY DEF Hands, Stages
    <2>3. work' = [work EXCEPT ![w] = h] \/ work' = [work EXCEPT ![w] = work[w]]
        BY <1>9 DEF BeginPut, Migrated
    <2> HIDE DEF h
    <2> QED
        BY <1>1, <1>3, <2>1, <2>2, <2>3, MigratedWork
<1> QED
    BY <1>4, <1>5, <1>6, <1>7, <1>8, <1>9 DEF Put

\* Nothing happens to the schema.
LEMMA MigratedAside == Migrated /\ UNCHANGED <<files, db, ops, work>> => Migrated'
<1> SUFFICES ASSUME Migrated, UNCHANGED <<files, db, ops, work>> PROVE Migrated'
    OBVIOUS
<1>1. UNCHANGED <<files, recorded, schema, ops, work>>
    BY DEF db
<1>2. Numbered' /\ HeldOnce'
    BY <1>1, NumberedKept DEF Migrated, HeldOnce
<1>3. \A o \in Operators : UpSoFar(o)'
    BY <1>1 DEF Migrated, UpSoFar, InFlight, Executed, CanLoad, StatementsOf, Earlier, Carried
<1> QED
    BY <1>1, <1>2, <1>3 DEF Migrated, Carried

LEMMA MigratedPowerCut == Migrated /\ PowerCut => Migrated'
<1> SUFFICES ASSUME Migrated, PowerCut PROVE Migrated'
    OBVIOUS
<1>1. UNCHANGED <<files, recorded, schema, ops>> /\ work' = [w \in Workers |-> Down]
    BY DEF PowerCut, db
<1>2. Down \in Hands /\ Down.at = "down"
    BY DEF Down, Hands, Stages
<1>3. Numbered' /\ HeldOnce'
    BY <1>1, NumberedKept DEF Migrated, HeldOnce
<1>4. \A o \in Operators : UpSoFar(o)'
    BY <1>1 DEF Migrated, UpSoFar, InFlight, Executed, CanLoad, StatementsOf, Earlier, Carried
<1> QED
    BY <1>1, <1>2, <1>3, <1>4 DEF Migrated

LEMMA MigratedStep == Migrated /\ [Next]_vars => Migrated'
<1> SUFFICES ASSUME Migrated, [Next]_vars PROVE Migrated'
    OBVIOUS
<1>1. ASSUME NEW o \in Operators, BeginUp(o) \/ GoOn(o) PROVE Migrated'
    BY <1>1, MigratedBeginUp, MigratedNext, MigratedExecute, MigratedRecord, MigratedCommit
    DEF GoOn
<1>2. ASSUME NEW o \in Operators, AbortUp(o) PROVE Migrated'
    BY <1>2, MigratedEnds DEF AbortUp
<1>3. ASSUME NEW w \in Workers,
             \/ StartWorker(w) \/ Put(w) \/ FailPut(w) \/ StopWorker(w)
             \/ \E h \in Hashes : BeginPut(w, h)
      PROVE  Migrated'
    BY <1>3, MigratedWorks
<1>4. CASE WriteBack \/ UNCHANGED vars
    <2>1. UNCHANGED <<files, db, ops, work>>
        BY <1>4 DEF WriteBack, vars, db
    <2> QED
        BY <2>1, MigratedAside
<1>5. CASE PowerCut
    BY <1>5, MigratedPowerCut
<1> QED
    BY <1>1, <1>2, <1>3, <1>4, <1>5 DEF Next

\* If the files do what they say, then so does the schema, whoever runs `migrate up` at the
\* same time, from whatever builds, and whatever fails on the way: each file that is recorded
\* was applied once, after those that precede it in a build; and no worker runs on a schema
\* that lacks one of its migrations (migrate.go, apps/worker/main.go).
THEOREM SchemaStaysWhole ==
    ASSUME FilesDoWhatTheySay
    PROVE  Spec => []SchemaIsWhole
<1>1. Migrated => SchemaIsWhole
    <2> SUFFICES ASSUME Migrated PROVE SchemaIsWhole
        OBVIOUS
    <2>1. schema \in Seq(Nat) /\ Numbered /\ DOMAIN schema = 1 .. Len(schema)
        BY DEF Migrated, Numbered
    <2>2. recorded = Range(schema)
        BY <2>1 DEF Numbered, Range
    <2>3. \A v \in recorded : Effect[files][v] = FileSets[files][v].does
        BY <2>1 DEF Numbered, Numbers, FilesDoWhatTheySay, Migrated
    <2> QED
        BY <2>1, <2>2, <2>3 DEF SchemaIsWhole, Migrated, Numbered, InOrder
<1> QED
    BY MigratedInit, MigratedStep, <1>1, PTL DEF Spec
=============================================================================
