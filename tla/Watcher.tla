------------------------------ MODULE Watcher ------------------------------
(***************************************************************************)
(* Watching one source: the worker's scheduler (apps/worker/main.go), the  *)
(* CheckSource use case (internal/application/checksource.go), and what    *)
(* the command line does to the same row meanwhile: registry sync, sources *)
(* activate and check-source.  Sources share nothing but the queue, of     *)
(* which only the promises of WorkLedger are used.                         *)
(*                                                                         *)
(* Nothing here runs in a unit of work: every statement commits by itself. *)
(* An instant is a turn: each check sets a next_check_at that no check had *)
(* set before, and the key of a check job is made of it.                   *)
(***************************************************************************)
EXTENDS SourceHealth, FiniteSets

CONSTANTS
    Contents,       \* what the monitored section of the page may say
    None,
    Handlers,       \* handler goroutines of the workers
    Operators,      \* command lines running firmscout check-source
    RegistryHealth, \* the health the source's registry file declares
    Declarable,     \* what the registry file may say of collecting the source
    Failures,       \* the outcomes a fetch may have that brings no content
    MaxAttempts,    \* jobs.max_attempts
    MaxTurns        \* bound of the model: checks that are saved

Procs == Handlers \union Operators
Turns == 1..MaxTurns
Terms == {"open", "disabled", "prohibited"}

ASSUME WatcherAssumption ==
    /\ None \notin Contents
    /\ Handlers \intersect Operators = {}
    /\ RegistryHealth \in HealthStates
    /\ Declarable \subseteq Terms
    /\ Failures \subseteq FailingOutcomes
    /\ MaxAttempts \in Nat \ {0}
    /\ MaxTurns \in Nat \ {0}

VARIABLES
    \* the row in sources: may it be collected ("disabled" is enabled = false,
    \* "prohibited" is robots or terms), its health, normalized_content_hash,
    \* consecutive_failures, next_check_at, and whether that is past
    terms, health, hash, failures, turn, due,
    \* what the vendor's page says
    page,
    \* check jobs by turn: verdict and attempts; the contents whose extraction job exists
    checks, attempts, extracts,
    \* the turn a scheduler tick has listed (0 for none), the handlers, the row a
    \* command is about to upsert
    listed, proc, upsert,
    \* history: contents recorded by a check that then ended before enqueuing
    torn

checkVars == <<hash, failures, turn, due>>
rowVars == <<terms, health, checkVars>>
queueVars == <<checks, attempts, extracts>>
watcherVars == <<terms, health, hash, failures, turn, due, page,
                 checks, attempts, extracts, listed, proc, upsert, torn>>

Row == [health : HealthStates, failures : 0..BrokenFailureThreshold,
        hash : Contents \union {None}]
Resting == [stage |-> "idle"]
Hands ==
    {Resting}
    \union [stage : {"loaded"}, job : {0} \union Turns, row : Row]
    \union [stage : {"fetched"}, job : {0} \union Turns, row : Row,
            outcome : Outcomes, content : Contents \union {None}]
    \union [stage : {"saved"}, job : {0} \union Turns, content : Contents \union {None}]

WatcherTypeOK ==
    /\ terms \in Terms /\ health \in HealthStates
    /\ hash \in Contents \union {None}
    /\ failures \in 0..BrokenFailureThreshold
    /\ turn \in Turns /\ due \in BOOLEAN
    /\ page \in Contents
    /\ checks \in [Turns -> {"unknown", "owed", "succeeded", "dead"}]
    /\ attempts \in [Turns -> 0..MaxAttempts]
    /\ extracts \subseteq Contents
    /\ listed \in {0} \union Turns
    /\ proc \in [Procs -> Hands]
    /\ upsert \in {None} \union [terms : Terms, health : HealthStates]
    /\ torn \subseteq Contents

\* The source has been synchronised for the first time, with next_check_at = now.
WatcherInit ==
    /\ terms \in Declarable
    /\ health = RegistryHealth
    /\ hash = None /\ failures = 0 /\ turn = 1 /\ due = TRUE
    /\ page \in Contents
    /\ checks = [t \in Turns |-> "unknown"]
    /\ attempts = [t \in Turns |-> 0]
    /\ extracts = {} /\ listed = 0
    /\ proc = [p \in Procs |-> Resting]
    /\ upsert = None
    /\ torn = {}

-----------------------------------------------------------------------------
(***************************************************************************)
(* The scheduler.                                                          *)
(***************************************************************************)

CompliancePermitsCollection == terms # "prohibited"

\* The predicate of ListDispatchable and of Source.Dispatchable.  Nothing ever sets
\* retry_after_until, so it never holds a source back.
Dispatchable == due /\ terms = "open" /\ Healthy(health)

ListDue ==
    /\ listed = 0
    /\ Dispatchable
    /\ listed' = turn
    /\ UNCHANGED <<rowVars, page, queueVars, proc, upsert, torn>>

\* Mutation: the key leaves out the instant.
EnqueueUnderSourceKey ==
    /\ listed # 0
    /\ checks' = [checks EXCEPT ![1] = IF @ = "unknown" THEN "owed" ELSE @]
    /\ listed' = 0
    /\ UNCHANGED <<rowVars, page, attempts, extracts, proc, upsert, torn>>

\* Enqueue under check:<source>:<next_check_at>: a no-op if the key exists.
EnqueueDue ==
    /\ listed # 0
    /\ checks' = [checks EXCEPT ![listed] = IF @ = "unknown" THEN "owed" ELSE @]
    /\ listed' = 0
    /\ UNCHANGED <<rowVars, page, attempts, extracts, proc, upsert, torn>>

-----------------------------------------------------------------------------
(***************************************************************************)
(* CheckSource.                                                            *)
(***************************************************************************)

CurrentRow == [health |-> health, failures |-> failures, hash |-> hash]

Unsaved == {p \in Procs : proc[p].stage \in {"loaded", "fetched"}}

\* Bound of the model: a check starts only if there is a turn left for it to set.
TurnsLeft == MaxTurns - turn - Cardinality(Unsaved)

\* One more delivery of an owed check job.
Delivered(t) ==
    attempts' = [attempts EXCEPT ![t] = IF @ < MaxAttempts THEN @ + 1 ELSE @]

LoadSource(p, t) ==
    /\ proc[p] = Resting
    /\ checks[t] = "owed"
    /\ TurnsLeft > 0
    /\ CompliancePermitsCollection
    /\ Delivered(t)
    /\ proc' = [proc EXCEPT ![p] = [stage |-> "loaded", job |-> t, row |-> CurrentRow]]
    /\ UNCHANGED <<rowVars, page, checks, extracts, listed, upsert, torn>>

\* What a failed delivery makes of a job that is still owed.
Failed(t, tries) ==
    IF checks[t] = "owed" /\ tries >= MaxAttempts THEN "dead" ELSE checks[t]

\* Mutation: a job that may not run is left as it is, and delivered again and again.
RefuseForever(p, t) ==
    /\ proc[p] = Resting
    /\ checks[t] = "owed"
    /\ ~CompliancePermitsCollection
    /\ Delivered(t)
    /\ UNCHANGED <<rowVars, page, checks, extracts, listed, proc, upsert, torn>>

\* domain.ErrNotPermitted: nothing is written, and the job fails until it is dead.
RefuseCheck(p, t) ==
    /\ proc[p] = Resting
    /\ checks[t] = "owed"
    /\ ~CompliancePermitsCollection
    /\ Delivered(t)
    /\ checks' = [checks EXCEPT ![t] = Failed(t, attempts'[t])]
    /\ UNCHANGED <<rowVars, page, extracts, listed, proc, upsert, torn>>

\* check-source --force: no job, and no question whether the source is due or enabled.
CheckNow(p) ==
    /\ proc[p] = Resting
    /\ TurnsLeft > 1
    /\ CompliancePermitsCollection
    /\ proc' = [proc EXCEPT ![p] = [stage |-> "loaded", job |-> 0, row |-> CurrentRow]]
    /\ UNCHANGED <<rowVars, page, queueVars, listed, upsert, torn>>

\* The response, compared with the hash and the validators that were loaded, which are
\* always of one response.  What changed is stored as an artifact before anything else.
Fetch(p) ==
    /\ proc[p].stage = "loaded"
    /\ \E outcome \in Failures \union
                      {IF page = proc[p].row.hash THEN "unchanged" ELSE "changed"} :
           proc' = [proc EXCEPT ![p] =
               [stage |-> "fetched", job |-> @.job, row |-> @.row, outcome |-> outcome,
                content |-> IF outcome = "changed" THEN page ELSE None]]
    /\ UNCHANGED <<rowVars, page, queueVars, listed, upsert, torn>>

Tolerated(n) == IF n < BrokenFailureThreshold THEN n ELSE BrokenFailureThreshold

\* applyOutcome and UpdateCheckState: the check columns are computed from the row that
\* was loaded, and overwrite whatever is there now.
Save(p) ==
    LET r == proc[p]
        failed == r.outcome \in FailingOutcomes
        streak == IF failed THEN Tolerated(r.row.failures + 1) ELSE 0
    IN  /\ r.stage = "fetched"
        /\ hash' = IF r.outcome = "changed" THEN r.content ELSE r.row.hash
        /\ failures' = streak
        /\ health' = NextHealth(r.row.health, r.outcome, streak)
        /\ turn' = turn + 1
        /\ due' = FALSE
        /\ proc' = [proc EXCEPT ![p] =
               [stage |-> "saved", job |-> r.job, content |-> r.content]]
        /\ UNCHANGED <<terms, page, queueVars, listed, upsert, torn>>

\* Mutation: the key of the extraction job leaves out the content.
EnqueueExtractionPerSource(r) ==
    extracts' = IF extracts = {} THEN {r.content} \ {None} ELSE extracts

\* The extraction job is keyed by the source and the content.
EnqueueExtraction(r) == extracts' = extracts \union ({r.content} \ {None})

\* RecordCheck, the events and the extraction job.
Announce(p) ==
    /\ proc[p].stage = "saved"
    /\ EnqueueExtraction(proc[p])
    /\ proc' = [proc EXCEPT ![p] = Resting]
    /\ UNCHANGED <<rowVars, page, attempts, listed, upsert, torn>>

Finish(p) ==
    /\ Announce(p)
    /\ checks' = [t \in Turns |->
           IF t = proc[p].job /\ checks[t] = "owed" THEN "succeeded" ELSE checks[t]]

\* All is done, and the queue never hears of it.
ReportLost(p) ==
    /\ proc[p].stage = "saved"
    /\ proc[p].job # 0
    /\ Announce(p)
    /\ UNCHANGED checks

\* The content a handler has recorded and not announced.
Unannounced(r) == IF r.stage = "saved" THEN {r.content} \ {None} ELSE {}

\* The store, the database or the queue returns an error, at any of the statements.
Fail(p) ==
    LET r == proc[p] IN
    /\ r # Resting
    /\ checks' = [t \in Turns |->
           IF t = r.job THEN Failed(t, attempts[t]) ELSE checks[t]]
    /\ torn' = torn \union Unannounced(r)
    /\ proc' = [proc EXCEPT ![p] = Resting]
    /\ UNCHANGED <<rowVars, page, attempts, extracts, listed, upsert>>

\* The process dies, or is shut down: the job stays owed.
Crash(p) ==
    LET r == proc[p] IN
    /\ r # Resting
    /\ torn' = torn \union Unannounced(r)
    /\ proc' = [proc EXCEPT ![p] = Resting]
    /\ UNCHANGED <<rowVars, page, queueVars, listed, upsert>>

-----------------------------------------------------------------------------
(***************************************************************************)
(* The command line: read the row, then upsert all of its registration.    *)
(***************************************************************************)

\* SyncRegistry: what the file declares by now, with the health that is stored once the source is
\* past being discovered.
ReadForSync ==
    /\ upsert = None
    /\ \E t \in Declarable :
           upsert' = [terms |-> t,
                      health |-> IF health = "discovered" THEN RegistryHealth ELSE health]
    /\ UNCHANGED <<rowVars, page, queueVars, listed, proc, torn>>

\* sources activate: an edge of the state machine, and otherwise the row as it was read.
ReadForActivate ==
    /\ upsert = None
    /\ "active" \in HealthEdges[health]
    /\ upsert' = [terms |-> terms, health |-> "active"]
    /\ UNCHANGED <<rowVars, page, queueVars, listed, proc, torn>>

\* SourceRepo.Upsert leaves the check columns alone.
Upsert ==
    /\ upsert # None
    /\ terms' = upsert.terms
    /\ health' = upsert.health
    /\ upsert' = None
    /\ UNCHANGED <<checkVars, page, queueVars, listed, proc, torn>>

-----------------------------------------------------------------------------
(***************************************************************************)
(* The surroundings.                                                       *)
(***************************************************************************)

\* next_check_at passes.  Bound of the model: not in the last turn.
BecomesDue ==
    /\ ~due
    /\ turn < MaxTurns
    /\ due' = TRUE
    /\ UNCHANGED <<terms, health, hash, failures, turn, page, queueVars,
                   listed, proc, upsert, torn>>

PageChanges ==
    /\ \E content \in Contents \ {page} : page' = content
    /\ UNCHANGED <<rowVars, queueVars, listed, proc, upsert, torn>>

CheckStep(p) == Fetch(p) \/ Save(p) \/ Finish(p) \/ Fail(p)

WatcherNext ==
    \/ ListDue \/ EnqueueDue
    \/ \E p \in Handlers, t \in Turns : LoadSource(p, t) \/ RefuseCheck(p, t)
    \/ \E p \in Operators : CheckNow(p)
    \/ \E p \in Procs : CheckStep(p) \/ Crash(p) \/ ReportLost(p)
    \/ ReadForSync \/ ReadForActivate \/ Upsert
    \/ BecomesDue \/ PageChanges

\* The scheduler ticks, the clock advances, owed jobs are delivered (JobQueue,
\* EveryJobSettles), and a check that has its response goes on, through statements of the
\* database.  Nothing makes a fetch return: the worker gives a check no deadline, and the
\* body of robots.txt is read without one.  No vendor, maintainer or operator has to do
\* anything either.
Fairness ==
    /\ WF_watcherVars(ListDue) /\ WF_watcherVars(EnqueueDue) /\ WF_watcherVars(BecomesDue)
    /\ \A t \in Turns : WF_watcherVars(\E p \in Handlers : LoadSource(p, t) \/ RefuseCheck(p, t))
    /\ \A p \in Procs : WF_watcherVars(proc[p].stage # "loaded" /\ CheckStep(p))

WatcherSpec == WatcherInit /\ [][WatcherNext]_watcherVars
FairSpec == WatcherSpec /\ Fairness

-----------------------------------------------------------------------------
(***************************************************************************)
(* Properties.                                                             *)
(***************************************************************************)

\* The contents whose extraction is enqueued, about to be, or was cut off.
Accounted == extracts \union torn \union UNION {Unannounced(proc[p]) : p \in Procs}

\* Whatever the row says was seen last has its extraction job, or a check is about to
\* enqueue it, unless a check ended exactly between its two statements: checks that
\* overlap and overwrite each other's columns lose no change.
RecordedChangeIsQueued == hash # None => hash \in Accounted

MishapsStop == <>[][~\E p \in Procs : Crash(p) \/ ReportLost(p)]_proc

\* Every fetch comes back in the end.  Nothing less will do: one that hangs over the
\* host's robots.txt keeps the entry locked, and every other check of the source waits.
FetchesReturn == \A p \in Procs : []<>(proc[p].stage # "loaded")

\* A source that may be checked and is due is checked, whatever was scheduled, forced or
\* refused before, as long as fetches return, and unless the check job of this very
\* instant was given up.
ChecksKeepComing ==
    MishapsStop /\ FetchesReturn => \A t \in Turns :
        (Dispatchable /\ turn = t) ~> (~Dispatchable \/ turn # t \/ checks[t] = "dead")

\* A takedown stops the watcher: once a source stays prohibited, and if the fetches that
\* are under way return, checks under way end,
\* the check jobs that are still owed are refused until they are dead, and then nothing
\* of the source is fetched any more (ADR-0018).
TakedownDrains ==
    MishapsStop /\ FetchesReturn /\ <>[](terms = "prohibited") =>
        <>[]((\A p \in Procs : proc[p] = Resting) /\ \A t \in Turns : checks[t] # "owed")

-----------------------------------------------------------------------------
(***************************************************************************)
(* What the documents or comments say and the code does not do.            *)
(***************************************************************************)

\* queue.go: a job "enqueued in the same transaction as the row it refers to cannot be
\* lost".  When every check job has succeeded, what the row says was seen last has its
\* extraction job.
ChangesAreExtracted ==
    /\ hash # None
    /\ \A p \in Procs : proc[p] = Resting
    /\ \A t \in Turns : checks[t] \in {"unknown", "succeeded"}
    => hash \in extracts

\* source-health-state-machine.md: "rate_limited --> active : Retry-After window elapses
\* and the check succeeds".  A rate-limited source that is due again is checked again.
RateLimitedRecovers ==
    MishapsStop /\ FetchesReturn /\ <>[](terms = "open") =>
        ((health = "rate_limited" /\ due) ~> health # "rate_limited")
=============================================================================
