------------------------------ MODULE Storage ------------------------------
(***************************************************************************)
(* What FirmScout keeps and how it gets there: the schema, which `migrate  *)
(* up` brings up to date (internal/adapters/postgres/migrate.go), and the  *)
(* fetched artifacts, of which the bytes are files and the rows are in the *)
(* database (internal/adapters/artifact/filesystem.go and                  *)
(* internal/adapters/postgres/artifact_repo.go).                           *)
(*                                                                         *)
(* Operators run `migrate up`, at the same time if they like, and none     *)
(* takes a lock.  A worker starts only on a schema in which none of its    *)
(* migrations is missing, and then stores what it fetches.  Any of them    *)
(* may fail or die between two steps, and the workers' machine may lose    *)
(* its power, Mishaps times in all.                                        *)
(***************************************************************************)
EXTENDS Migrations, FiniteSets

CONSTANTS
    Operators, Workers,
    FileSets,    \* a sequence of sequences of files; a file is its text and what its author
                 \* means it to do
    Carries,     \* for each of them, which files the build of an operator or a worker has
    Hashes,      \* the bodies that are fetched
    Mishaps,     \* bound on failures and deaths
    MaxRefs      \* bound on reference_count

ASSUME StorageAssumption ==
    /\ Operators \cap Workers = {} /\ Operators # {}
    /\ \A s \in DOMAIN FileSets : \A p \in Operators \union Workers :
          Carries[s][p] \subseteq 1 .. Len(FileSets[s])
    /\ Mishaps \in Nat /\ MaxRefs \in Nat \ {0}

VARIABLES
    files,       \* the migrations there are, a number of FileSets, in the order of their names
    recorded,    \* schema_migrations
    schema,      \* the migrations whose statements were committed, in order
    ops,         \* Up of each operator, with the transaction it has open
    objects,     \* the objects on disk that have their final name: hash to "part" or "whole"
    sidecars,    \* the hashes that have a metadata file
    unwritten,   \* of these files, those the system has not written to the disk
    cut,         \* history: the hashes that had a row and lost a file with the power
    rows,        \* source_artifacts: hash to reference_count
    work,        \* each worker, with the Put it is in
    mishaps

db == <<recorded, schema>>
disk == <<objects, sidecars, unwritten, cut>>
vars == <<files, recorded, schema, ops, objects, sidecars, unwritten, cut, rows, work, mishaps>>

Numbers == DOMAIN FileSets[files]
Kinds == {"object", "sidecar"}
\* Every file as load reads it.
Parsed == [s \in DOMAIN FileSets |->
              [i \in DOMAIN FileSets[s] |-> ParseGoose(FileSets[s][i].text)]]
Choosing(seen) == [at |-> "choosing", seen |-> seen, version |-> 0, next |-> 0]
Working(at, seen, version, next) == [at |-> at, seen |-> seen, version |-> version, next |-> next]
Idle == [at |-> "idle", seen |-> {}, version |-> 0, next |-> 0]
Down == [at |-> "down", hash |-> "", temp |-> ""]
Free == [Down EXCEPT !.at = "free"]

TypeOK ==
    /\ recorded \subseteq Numbers
    /\ \A o \in Operators :
          /\ ops[o].at \in {"idle", "choosing", "executing", "recording", "committing"}
          /\ ops[o].seen \subseteq Numbers
          /\ ops[o].version \in Numbers \union {0} /\ ops[o].next \in Nat
    /\ \A w \in Workers :
          /\ work[w].at \in {"down", "free", "compressing", "linking", "describing", "recording"}
          /\ work[w].hash \in Hashes \union {""} /\ work[w].temp \in {"", "part", "whole"}
    /\ DOMAIN objects \subseteq Hashes /\ sidecars \subseteq Hashes
    /\ unwritten \subseteq Kinds \X Hashes /\ cut \subseteq DOMAIN rows
    /\ DOMAIN rows \subseteq Hashes /\ \A h \in DOMAIN rows : rows[h] \in 1 .. MaxRefs
    /\ mishaps \in 0 .. Mishaps

Init ==
    /\ files \in DOMAIN FileSets
    /\ recorded = {} /\ schema = <<>>
    /\ ops = [o \in Operators |-> Idle]
    /\ objects = <<>> /\ sidecars = {} /\ unwritten = {} /\ cut = {} /\ rows = <<>>
    /\ work = [w \in Workers |-> Down]
    /\ mishaps = 0

----------------------------------------------------------------------------
(* migrate up *)

\* A build has the files that were on its branch: any of them, and one may come to be applied
\* after files whose names follow its own.
Carried(p) == Carries[files][p]
CanLoad(p) == \A v \in Carried(p) : Loads(Parsed[files][v])
StatementsOf(v) == Parsed[files][v].up
\* Whether PostgreSQL can execute the statements of each file.
Executable == [s \in DOMAIN Parsed |-> [i \in DOMAIN Parsed[s] |->
                  [k \in DOMAIN Parsed[s][i].up |-> WellFormed(Parsed[s][i].up[k])]]]

\* Up reads its files, then, once, which of them are applied.
BeginUp(o) ==
    /\ ops[o].at = "idle" /\ CanLoad(o) /\ ~(Carried(o) \subseteq recorded)
    /\ ops' = [ops EXCEPT ![o] = Choosing(recorded)]
    /\ UNCHANGED <<files, db, disk, rows, work, mishaps>>

Pending(o) == Carried(o) \ ops[o].seen
EndUp(o) == ops' = [ops EXCEPT ![o] = Idle]

\* In the order of their names.
NextMigration(o) ==
    /\ ops[o].at = "choosing"
    /\ IF Pending(o) = {} THEN EndUp(o)
       ELSE LET v == CHOOSE x \in Pending(o) : \A y \in Pending(o) : x <= y
            IN  ops' = [ops EXCEPT ![o] = Working("executing", ops[o].seen, v, 1)]
    /\ UNCHANGED <<files, db, disk, rows, work, mishaps>>

\* A statement fails when it is none, and may fail on a schema that is not the one its author
\* wrote it for, which has the files before it: Up ends with the transaction, which leaves
\* nothing behind.
Execute(o) ==
    LET op == ops[o]
        sound == Executable[files][op.version][op.next]
        isLast == op.next = Len(StatementsOf(op.version))
    IN  /\ op.at = "executing"
        /\ \/ /\ sound
              /\ ops' = [ops EXCEPT ![o] = Working(IF isLast THEN "recording" ELSE "executing",
                                                  op.seen, op.version, op.next + 1)]
           \/ /\ ~sound \/ recorded # 1 .. op.version - 1
              /\ EndUp(o)
        /\ UNCHANGED <<files, db, disk, rows, work, mishaps>>

\* The primary key lets one transaction insert a version: a second one waits for the first,
\* and is refused once that is committed.
Record(o) ==
    LET v == ops[o].version
    IN  /\ ops[o].at = "recording"
        /\ \A p \in Operators : ~(ops[p].at = "committing" /\ ops[p].version = v)
        /\ IF v \in recorded THEN EndUp(o) ELSE ops' = [ops EXCEPT ![o].at = "committing"]
        /\ UNCHANGED <<files, db, disk, rows, work, mishaps>>

Applied(v) == /\ recorded' = recorded \union {v}
              /\ schema' = Append(schema, v)

\* The answer to a commit may be lost, and Up fails although its migration is there.
Commit(o) ==
    LET v == ops[o].version
    IN  /\ ops[o].at = "committing"
        /\ Applied(v)
        /\ \/ /\ ops' = [ops EXCEPT ![o] = Choosing(ops[o].seen \union {v})]
              /\ UNCHANGED mishaps
           \/ mishaps < Mishaps /\ mishaps' = mishaps + 1 /\ EndUp(o)
        /\ UNCHANGED <<files, disk, rows, work>>

\* A migration that fails is skipped.
AbortUpGoOn(o) ==
    /\ ops[o].at \notin {"idle", "choosing"} /\ mishaps < Mishaps
    /\ mishaps' = mishaps + 1
    /\ ops' = [ops EXCEPT ![o] = Choosing(ops[o].seen \union {ops[o].version})]
    /\ UNCHANGED <<files, db, disk, rows, work>>

\* Whatever fails ends Up, and with it the transaction.
AbortUp(o) ==
    /\ ops[o].at # "idle" /\ mishaps < Mishaps
    /\ mishaps' = mishaps + 1 /\ EndUp(o)
    /\ UNCHANGED <<files, db, disk, rows, work>>

----------------------------------------------------------------------------
(* Workers and the artifacts they store *)

\* A worker that finds a migration of its own missing exits.
StartWorker(w) ==
    /\ work[w].at = "down" /\ CanLoad(w) /\ Carried(w) \subseteq recorded
    /\ work' = [work EXCEPT ![w] = Free]
    /\ UNCHANGED <<files, db, ops, disk, rows, mishaps>>

Moves(w, from, to) == work[w].at = from /\ work' = [work EXCEPT ![w].at = to]
Returns(w) == work' = [work EXCEPT ![w] = Free]
Refs(h) == IF h \in DOMAIN rows THEN rows[h] ELSE 0
Counted(h) == /\ Refs(h) < MaxRefs
              /\ rows' = [x \in DOMAIN rows \union {h} |-> IF x = h THEN Refs(h) + 1 ELSE rows[x]]

\* Put: content whose row exists needs no second copy of its bytes.
BeginPut(w, h) ==
    /\ work[w].at = "free"
    /\ IF h \in DOMAIN rows THEN Counted(h) /\ UNCHANGED work
       ELSE /\ work' = [work EXCEPT ![w] = [at |-> "compressing", hash |-> h, temp |-> "part"]]
            /\ UNCHANGED rows
    /\ UNCHANGED <<files, db, ops, disk, mishaps>>

\* The bytes go to a file with a name of its own, and to the disk.
Compress(w) ==
    /\ work[w].at = "compressing"
    /\ work' = [work EXCEPT ![w].at = "linking", ![w].temp = "whole"]
    /\ UNCHANGED <<files, db, ops, disk, rows, mishaps>>

Names(w) ==
    LET h == work[w].hash
    IN  /\ objects' = [x \in DOMAIN objects \union {h} |-> IF x = h THEN work[w].temp ELSE objects[x]]
        /\ unwritten' = unwritten \union {<<"object", h>>}

\* The file has its final name from the beginning.
LinkEarly(w) ==
    /\ work[w].at \in {"compressing", "linking"} /\ Names(w)
    /\ work' = [work EXCEPT ![w].temp = "whole",
                            ![w].at = IF work[w].temp = "whole" THEN "describing" ELSE "linking"]
    /\ UNCHANGED <<files, db, ops, sidecars, cut, rows, mishaps>>

\* The file gets the name of its content, unless that is taken.  Its bytes were synced, the
\* directory that has the name is not.
Link(w) ==
    /\ Moves(w, "linking", "describing")
    /\ IF work[w].hash \in DOMAIN objects THEN UNCHANGED <<objects, unwritten>> ELSE Names(w)
    /\ UNCHANGED <<files, db, ops, sidecars, cut, rows, mishaps>>

\* The metadata replaces what was there; neither it nor the directory is synced.
WriteMeta(w) ==
    /\ Moves(w, "describing", "recording")
    /\ sidecars' = sidecars \union {work[w].hash}
    /\ unwritten' = unwritten \union {<<"sidecar", work[w].hash>>}
    /\ UNCHANGED <<files, db, ops, objects, cut, rows, mishaps>>

\* The row is inserted, or, if another worker was faster, counted.
InsertRow(w) ==
    /\ work[w].at = "recording"
    /\ Counted(work[w].hash) /\ Returns(w)
    /\ UNCHANGED <<files, db, ops, disk, mishaps>>

\* A failed Put has removed its temporary file, and left what it had published.
FailPut(w) ==
    /\ work[w].at \notin {"down", "free"} /\ mishaps < Mishaps
    /\ mishaps' = mishaps + 1 /\ Returns(w)
    /\ UNCHANGED <<files, db, ops, disk, rows>>

StopWorker(w) ==
    /\ work[w].at # "down" /\ mishaps < Mishaps
    /\ mishaps' = mishaps + 1
    /\ work' = [work EXCEPT ![w] = Down]
    /\ UNCHANGED <<files, db, ops, disk, rows>>

\* The system writes back what it holds, in its own time.
WriteBack ==
    /\ unwritten # {} /\ unwritten' = {}
    /\ UNCHANGED <<files, db, ops, objects, sidecars, cut, rows, work, mishaps>>

\* The machine loses its power, and with it some of what it had not written back; what the
\* database committed is kept.
PowerCut ==
    /\ unwritten # {} /\ mishaps < Mishaps /\ mishaps' = mishaps + 1
    /\ \E lost \in SUBSET unwritten :
          LET gone(kind) == {h \in Hashes : <<kind, h>> \in lost}
          IN  /\ objects' = [h \in DOMAIN objects \ gone("object") |-> objects[h]]
              /\ sidecars' = sidecars \ gone("sidecar")
              /\ cut' = cut \union (DOMAIN rows \intersect (gone("object") \union gone("sidecar")))
    /\ unwritten' = {} /\ work' = [w \in Workers |-> Down]
    /\ UNCHANGED <<files, db, ops, rows>>

----------------------------------------------------------------------------

GoOn(o) == NextMigration(o) \/ Execute(o) \/ Record(o) \/ Commit(o)
Put(w) == Compress(w) \/ Link(w) \/ WriteMeta(w) \/ InsertRow(w)

Next ==
    \/ \E o \in Operators : BeginUp(o) \/ GoOn(o) \/ AbortUp(o)
    \/ \E w \in Workers : \/ StartWorker(w) \/ Put(w) \/ FailPut(w) \/ StopWorker(w)
                          \/ \E h \in Hashes : BeginPut(w, h)
    \/ WriteBack \/ PowerCut

\* What is under way goes on.  Nothing runs `migrate up` a second time, and what starts the
\* workers waits for it to succeed.
Spec == Init /\ [][Next]_vars
             /\ \A o \in Operators : WF_vars(GoOn(o))
             /\ \A w \in Workers : WF_vars(Put(w))

----------------------------------------------------------------------------
(* Properties *)

\* What a list of statements does: its lines, but for comments and blank ones.
Does(statements) ==
    SelectSeq(FlattenSeq(statements), LAMBDA l : l.tokens # <<>> /\ ~StartsWithComment(l))
Effect == [s \in DOMAIN Parsed |-> [i \in DOMAIN Parsed[s] |-> Does(Parsed[s][i].up)]]

\* Whoever runs `migrate up`, together or in part, from whatever builds, and whatever fails:
\* the schema is what the files recorded in schema_migrations were written to do, each applied
\* once, and each after all the files of a build that has it whose names precede its own; a
\* worker that runs finds every migration of its build.
SchemaIsWhole ==
    /\ recorded = Range(schema)
    /\ \A i, j \in DOMAIN schema : schema[i] = schema[j] => i = j
    /\ \A v \in recorded : Effect[files][v] = FileSets[files][v].does
    /\ \A j \in DOMAIN schema : \E o \in Operators :
          /\ schema[j] \in Carried(o)
          /\ \A u \in Carried(o) : u < schema[j] => \E i \in 1 .. j - 1 : schema[i] = u
    /\ \A w \in Workers : work[w].at # "down" => Carried(w) \subseteq recorded

\* An artifact that has a row can be read, whole, and has its metadata, whatever was cut off
\* and whoever stored the same content at the same time, unless the power went before the
\* system had written its files back.
Readable(h) == h \in DOMAIN objects /\ objects[h] = "whole" /\ h \in sidecars
RowHasBytes == \A h \in DOMAIN rows \ cut : Readable(h)

\* "A candidate is never extracted from an artifact that was not durably stored"
\* (docs/architecture/system-context.md:107).  Nothing but the bytes is ever synced, and what
\* has a row is not stored again.
ArtifactsAreDurable == \A h \in DOMAIN rows : Readable(h)

\* Each build has the files of the older ones, and then its own.
BuildsGrow == \A p \in Operators \union Workers : Carried(p) = 1 .. Cardinality(Carried(p))
\* Someone runs `migrate up` again as long as a migration is missing, or starts a worker again
\* that finds its schema: the deployment does the first once.
RunAgain(o) == []<>(ops[o].at # "idle" \/ Carried(o) \subseteq recorded)
StartedAgain(w) == []<>(work[w].at # "down" \/ ~(Carried(w) \subseteq recorded))

\* A `migrate up` that failed can be run again: a build whose files load reaches its schema if
\* that is done, and then workers start for good if they are started again.
SchemaArrives ==
    BuildsGrow =>
        \A o \in Operators :
            CanLoad(o) /\ RunAgain(o) =>
                /\ <>(Carried(o) \subseteq recorded)
                /\ \A w \in Workers :
                      Carried(w) \subseteq Carried(o) /\ StartedAgain(w) => <>[](work[w].at # "down")
=============================================================================
