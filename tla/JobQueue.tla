------------------------------ MODULE JobQueue ------------------------------
(***************************************************************************)
(* The PostgreSQL job queue (internal/adapters/postgres/queue.go) and the  *)
(* worker processes that lease jobs from it (apps/worker/main.go).         *)
(*                                                                         *)
(* A job stands for its idempotency key.  Time is not a number here: of    *)
(* run_after and locked_until only "already past" matters to any statement *)
(* of the queue, so each is a Boolean that an environment step turns TRUE. *)
(***************************************************************************)
EXTENDS Naturals, FiniteSets

CONSTANTS
    Jobs,          \* idempotency keys
    Workers,       \* worker processes
    Slots,         \* the handler goroutines of one worker (WorkerConcurrency)
    NoJob,         \* an idle slot
    MaxAttempts,   \* jobs.max_attempts
    AttemptCap     \* bound of the model: attempts stops counting here

ASSUME JobsAssumption == NoJob \notin Jobs
ASSUME WorkersAssumption ==
    /\ IsFiniteSet(Workers)
    /\ IsFiniteSet(Slots) /\ NoJob \notin Slots
ASSUME AttemptsAssumption ==
    /\ MaxAttempts \in Nat \ {0}
    /\ AttemptCap \in Nat
    /\ AttemptCap > MaxAttempts

VARIABLES
    \* the jobs table, one column each (locked_by is written and never read)
    status, attempts, due, lapsed,
    \* the workers: the rows an open Dequeue statement has read as leasable; jobs leased
    \* and not yet handed to a slot; what each slot does
    seen, batch, slot,
    \* history: keys some handler carried out; how often a row was leased while running
    done, overtaken

tableVars == <<status, attempts, due, lapsed>>
workerVars == <<seen, batch, slot>>
historyVars == <<done, overtaken>>
vars == <<status, attempts, due, lapsed, seen, batch, slot, done, overtaken>>

Statuses == {"absent", "pending", "running", "succeeded", "dead"}
Stages == {"idle", "working", "returned", "errored"}
Hand == [job : Jobs \union {NoJob}, stage : Stages]
Idle == [job |-> NoJob, stage |-> "idle"]

TypeOK ==
    /\ status \in [Jobs -> Statuses]
    /\ attempts \in [Jobs -> 0..AttemptCap]
    /\ due \in [Jobs -> BOOLEAN]
    /\ lapsed \in [Jobs -> BOOLEAN]
    /\ seen \in [Workers -> SUBSET Jobs]
    /\ batch \in [Workers -> SUBSET Jobs]
    /\ slot \in [Workers -> [Slots -> Hand]]
    /\ done \subseteq Jobs
    /\ overtaken \in [Jobs -> 0..AttemptCap]

Init ==
    /\ status = [j \in Jobs |-> "absent"]
    /\ attempts = [j \in Jobs |-> 0]
    /\ due = [j \in Jobs |-> FALSE]
    /\ lapsed = [j \in Jobs |-> FALSE]
    /\ seen = [w \in Workers |-> {}]
    /\ batch = [w \in Workers |-> {}]
    /\ slot = [w \in Workers |-> [s \in Slots |-> Idle]]
    /\ done = {}
    /\ overtaken = [j \in Jobs |-> 0]

-----------------------------------------------------------------------------
(***************************************************************************)
(* Statements of the queue adapter.                                        *)
(***************************************************************************)

\* INSERT ... ON CONFLICT (idempotency_key) DO NOTHING.  Every caller passes
\* RunAfter = now, so a new row is due at once; a key that is already there, in
\* whatever status, is left alone.
Enqueue(j) ==
    /\ status' = [status EXCEPT ![j] = IF @ = "absent" THEN "pending" ELSE @]
    /\ due' = [due EXCEPT ![j] = @ \/ status[j] = "absent"]
    /\ UNCHANGED <<attempts, lapsed, workerVars, historyVars>>

\* Mutation: expired leases are not reclaimed.
LeasablePendingOnly(j) == due[j] /\ status[j] = "pending"

\* The predicate of the CTE, repeated in the outer UPDATE.
Leasable(j) ==
    /\ due[j]
    /\ \/ status[j] = "pending"
       \/ status[j] = "running" /\ lapsed[j]

\* A Dequeue statement begins: what it may lease is what it reads now.  runJobs leases
\* again only when every job of the last batch has a slot.
BeginDequeue(w) ==
    /\ batch[w] = {} /\ seen[w] = {}
    /\ seen' = [seen EXCEPT ![w] = {j \in Jobs : Leasable(j)}]
    /\ seen'[w] # {}
    /\ UNCHANGED <<tableVars, batch, slot, historyVars>>

\* The defect the comment in Dequeue measures and does not explain: a row that another
\* statement has leased since this one began may be leased again, its lease as good as new.
MayTake(j) == Leasable(j) \/ status[j] = "running"

\* The model stops counting at AttemptCap.
Count(n) == IF n < AttemptCap THEN n + 1 ELSE n

\* The UPDATE leases a batch.  LIMIT is the concurrency; SKIP LOCKED may leave out rows
\* another worker has locked, so any smaller choice is possible, and an empty one once
\* others have leased everything.
Dequeue(w) ==
    /\ seen[w] # {}
    /\ \E picked \in SUBSET {j \in seen[w] : MayTake(j)} :
        /\ picked # {} \/ \A j \in seen[w] : ~Leasable(j)
        /\ Cardinality(picked) <= Cardinality(Slots)
        /\ status' = [j \in Jobs |-> IF j \in picked THEN "running" ELSE status[j]]
        /\ attempts' = [j \in Jobs |->
               IF j \in picked THEN Count(attempts[j]) ELSE attempts[j]]
        /\ lapsed' = [j \in Jobs |-> lapsed[j] /\ j \notin picked]
        /\ batch' = [batch EXCEPT ![w] = picked]
        /\ overtaken' = [j \in Jobs |->
               IF j \in picked /\ status[j] = "running"
               THEN Count(overtaken[j]) ELSE overtaken[j]]
    /\ seen' = [seen EXCEPT ![w] = {}]
    /\ UNCHANGED <<due, slot, done>>

\* Mutation: Complete without the status = 'running' condition.
MarkSucceededAnyStatus(j) ==
    /\ status' = [status EXCEPT ![j] = "succeeded"]
    /\ lapsed' = [lapsed EXCEPT ![j] = FALSE]
    /\ UNCHANGED <<attempts, due>>

\* Complete's UPDATE: only the status is in its WHERE clause, not the lease holder.
MarkSucceeded(j) ==
    /\ status' = [status EXCEPT ![j] = IF @ = "running" THEN "succeeded" ELSE @]
    /\ lapsed' = [lapsed EXCEPT ![j] = @ /\ status[j] # "running"]
    /\ UNCHANGED <<attempts, due>>

\* Mutation: one attempt more than max_attempts before a job is dead.
MarkFailedLate(j) ==
    LET spent == attempts[j] > MaxAttempts IN
    /\ status' = [status EXCEPT ![j] =
           IF @ # "running" THEN @ ELSE IF spent THEN "dead" ELSE "pending"]
    /\ due' = [due EXCEPT ![j] = @ /\ (status[j] # "running" \/ spent)]
    /\ lapsed' = [lapsed EXCEPT ![j] = @ /\ status[j] # "running"]
    /\ UNCHANGED attempts

\* Fail's UPDATE.  A job with attempts left waits out a backoff, which is never
\* zero; an exhausted one is dead and keeps its run_after.
MarkFailed(j) ==
    LET spent == attempts[j] >= MaxAttempts IN
    /\ status' = [status EXCEPT ![j] =
           IF @ # "running" THEN @ ELSE IF spent THEN "dead" ELSE "pending"]
    /\ due' = [due EXCEPT ![j] = @ /\ (status[j] # "running" \/ spent)]
    /\ lapsed' = [lapsed EXCEPT ![j] = @ /\ status[j] # "running"]
    /\ UNCHANGED attempts

-----------------------------------------------------------------------------
(***************************************************************************)
(* The worker process: runJobs leases a batch and hands its jobs to slots; *)
(* handle dispatches a job and reports the outcome.                        *)
(***************************************************************************)

Start(w, s) ==
    /\ slot[w][s] = Idle
    /\ \E j \in batch[w] :
        /\ slot' = [slot EXCEPT ![w][s] = [job |-> j, stage |-> "working"]]
        /\ batch' = [batch EXCEPT ![w] = @ \ {j}]
    /\ UNCHANGED <<tableVars, seen, historyVars>>

\* dispatch returns, with or without an error.
Return(w, s) ==
    /\ slot[w][s].stage = "working"
    /\ slot' = [slot EXCEPT ![w][s].stage = "returned"]
    /\ done' = done \union {slot[w][s].job}
    /\ UNCHANGED <<tableVars, seen, batch, overtaken>>

Err(w, s) ==
    /\ slot[w][s].stage = "working"
    /\ slot' = [slot EXCEPT ![w][s].stage = "errored"]
    /\ UNCHANGED <<tableVars, seen, batch, historyVars>>

\* The report and the release of the slot.  A report that matches no row is
\* domain.ErrNotFound, which handle logs and forgets.
Complete(w, s) ==
    /\ slot[w][s].stage = "returned"
    /\ MarkSucceeded(slot[w][s].job)
    /\ slot' = [slot EXCEPT ![w][s] = Idle]
    /\ UNCHANGED <<seen, batch, historyVars>>

Fail(w, s) ==
    /\ slot[w][s].stage = "errored"
    /\ MarkFailed(slot[w][s].job)
    /\ slot' = [slot EXCEPT ![w][s] = Idle]
    /\ UNCHANGED <<seen, batch, historyVars>>

\* The report never reaches the database: handle logs the error and frees the slot,
\* and the row stays running until its lease runs out.
ReportLost(w, s) ==
    /\ slot[w][s].stage \in {"returned", "errored"}
    /\ slot' = [slot EXCEPT ![w][s] = Idle]
    /\ UNCHANGED <<tableVars, seen, batch, historyVars>>

\* The process dies, or is told to stop: runJobs returns with the rest of its batch
\* still leased, and the cancelled context stops handlers and their reports.  A
\* worker with empty hands is also a worker that has just been started again.
Crash(w) ==
    /\ seen' = [seen EXCEPT ![w] = {}]
    /\ batch' = [batch EXCEPT ![w] = {}]
    /\ slot' = [slot EXCEPT ![w] = [s \in Slots |-> Idle]]
    /\ UNCHANGED <<tableVars, historyVars>>

-----------------------------------------------------------------------------
(***************************************************************************)
(* The clock.                                                              *)
(***************************************************************************)

BackoffElapses(j) ==
    /\ status[j] = "pending"
    /\ ~due[j]
    /\ due' = [due EXCEPT ![j] = TRUE]
    /\ UNCHANGED <<status, attempts, lapsed, workerVars, historyVars>>

LeaseLapses(j) ==
    /\ status[j] = "running"
    /\ ~lapsed[j]
    /\ lapsed' = [lapsed EXCEPT ![j] = TRUE]
    /\ UNCHANGED <<status, attempts, due, workerVars, historyVars>>

-----------------------------------------------------------------------------
Report(w, s) == Complete(w, s) \/ Fail(w, s)

Next ==
    \/ \E j \in Jobs : Enqueue(j) \/ BackoffElapses(j) \/ LeaseLapses(j)
    \/ \E w \in Workers : BeginDequeue(w) \/ Dequeue(w) \/ Crash(w)
    \/ \E w \in Workers, s \in Slots :
        \/ Start(w, s) \/ Return(w, s) \/ Err(w, s)
        \/ Report(w, s) \/ ReportLost(w, s)

\* The clock advances, a worker that is up keeps polling, and a handler that is done is
\* reported.  Nothing makes anyone enqueue, crash or lose a report, and nothing makes a
\* handler return: runJobs gives it the context of the process, which has no deadline.
Fairness ==
    /\ \A j \in Jobs : WF_vars(BackoffElapses(j)) /\ WF_vars(LeaseLapses(j))
    /\ \A w \in Workers : WF_vars(BeginDequeue(w)) /\ WF_vars(Dequeue(w))
    /\ \A w \in Workers, s \in Slots : WF_vars(Start(w, s)) /\ WF_vars(Report(w, s))

Spec == Init /\ [][Next]_vars
FairSpec == Spec /\ Fairness

-----------------------------------------------------------------------------
(***************************************************************************)
(* Properties.                                                             *)
(***************************************************************************)

\* A place where a worker process keeps a leased job: waiting for a slot, or in one.
Holds(w, s, j) == slot[w][s].job = j
Waits(w, j) == j \in batch[w]

\* Every place that has a job; its batch counts as one more place of a worker.
HeldAt(j) ==
    {p \in Workers \X (Slots \union {NoJob}) :
        IF p[2] = NoJob THEN Waits(p[1], j) ELSE Holds(p[1], p[2], j)}

\* A job is in as many hands as it was leased over the head of a holder, and one more
\* while its row is running; it is delivered more often than max_attempts only in this
\* way.  It holds through stale reports, lapsed leases, crashes and the double lease of
\* queue.go, which count as what they are, and for any job nobody overtook it says that
\* it has one holder at most, and none once it is pending again, succeeded or dead.
HoldersAreCounted ==
    \A j \in Jobs : overtaken[j] < AttemptCap =>
        /\ Cardinality(HeldAt(j)) <= overtaken[j] + (IF status[j] = "running" THEN 1 ELSE 0)
        /\ attempts[j] <= MaxAttempts + overtaken[j]

\* What the ledger sees of the table: a leased job is still owed.
Verdict == [j \in Jobs |->
    IF status[j] = "absent" THEN "unknown"
    ELSE IF status[j] \in {"pending", "running"} THEN "owed" ELSE status[j]]

Ledger == INSTANCE WorkLedger WITH verdict <- Verdict, ran <- done

\* The queue implements its ledger: a job is recorded succeeded only after a handler
\* carried it out, succeeded and dead are final, and enqueuing a key again never
\* revives its job, whatever workers with expired leases still report.
ImplementsLedger == Ledger!LedgerSpec

Settled(j) == status[j] \in {"succeeded", "dead"}

Mishap == \E w \in Workers : Crash(w) \/ \E s \in Slots : ReportLost(w, s)
MishapsStop == <>[][~Mishap]_workerVars

\* The handlers of some worker keep coming back.  A check may hang: the body of
\* robots.txt is read without a deadline (internal/adapters/fetch/robots.go).
SomeWorkerKeepsUp ==
    \E w \in Workers : \A s \in Slots : []<>(slot[w][s].stage # "working")

\* No job is stranded: once workers stop dying and reports stop getting lost, and as
\* long as the handlers of one worker return, every job that was enqueued is carried out
\* or dead-lettered, including those a dead worker still held or the handlers of another
\* hang on, because expired leases are reclaimed (queue.go, Dequeue).
EveryJobSettles ==
    MishapsStop /\ SomeWorkerKeepsUp =>
        \A j \in Jobs : status[j] = "pending" ~> Settled(j)

\* No handler of the job ever comes back: its worker dies under it each time.
KillsItsWorker(j) ==
    \A w \in Workers, s \in Slots : Holds(w, s, j) => slot[w][s].stage = "working"

\* What the comment on Dequeue says of attempts being counted at lease time: "a job
\* that reliably kills its worker eventually dead-letters instead of looping forever".
KillerJobDeadLetters ==
    \A j \in Jobs :
        []KillsItsWorker(j) /\ []<>(HeldAt(j) = {}) =>
            (status[j] = "pending" ~> status[j] = "dead")

\* The comment on Dequeue, and TestConcurrentDequeuesDoNotOverlap: "two workers dequeuing
\* at the same instant never receive the same job".  A statement leases no row whose
\* lease is good.
LeasesAreRespected ==
    [][\A w \in Workers, j \in Jobs :
           j \in batch'[w] \ batch[w] => status[j] = "pending" \/ lapsed[j]]_vars
=============================================================================
