------------------------------ MODULE Gateway ------------------------------
(***************************************************************************)
(* The HTTP API between a shared cache and the database: the chain of      *)
(* middlewares around a read endpoint whose answer depends on the caller's *)
(* plan (internal/adapters/httpapi, router.go and middleware.go), the      *)
(* queue of work that runs after the response, and the meter it feeds      *)
(* (internal/adapters/postgres/usage_repo.go).                             *)
(*                                                                         *)
(* The rate limiter is taken at its promise (TokenBucket): whether a       *)
(* request finds a token is a choice here.                                 *)
(***************************************************************************)
EXTENDS Naturals, Sequences, FiniteSets

CONSTANTS
    Conns,       \* connections; each carries one request at a time
    Keys,        \* API keys of one consumer
    Chosen,      \* request ids that callers choose themselves, and may use again
    Buffer,      \* Deps.BackgroundBuffer
    Deployments, \* what is in front of the server, whether it has a meter, the consumer's
                 \* MonthlyQuota, who calls, which keys may be revoked, and the bounds of
                 \* the model: how many requests come, in how many months
    None         \* no credential, no id of the caller's, no month, no request

Callers == Keys \union {None}  \* None presents no credential
Ids == Chosen \union {None}    \* None is an id of the server's, which is never used twice

\* A request: its caller, whether the caller's key resolved when it came, its id, the next
\* stage of the chain, and the month whose quota admitted it.
Request(months) ==
    [who : Callers, entitled : BOOLEAN, id : Ids,
     at : {"APIKey", "Quota", "handler", "refused"}, under : months \union {None}]
\* Work that runs after the response: the usage of the no-th request that was metered, or
\* anything else.
Task(months) ==
    [what : {"other"}]
    \union [what : {"usage"}, no : Nat, who : Keys, id : Ids, month : months,
            under : months \union {None}]

\* A shared cache: does it honour no-store, does it honour Vary?
Edge == [noStore : BOOLEAN, vary : BOOLEAN]

ASSUME GatewayAssumption ==
    /\ Buffer \in Nat \ {0}
    /\ Deployments \subseteq [edge : Edge \union {None}, metered : BOOLEAN,
                              quota : Nat \ {0}, callers : SUBSET Callers,
                              fickle : SUBSET Keys, ids : SUBSET Ids,
                              load : Nat, months : Nat \ {0}]
    /\ None \notin Keys /\ None \notin Chosen /\ None \notin Nat
    /\ None \notin Request(Nat) /\ None \notin Task(Nat)
    /\ IsFiniteSet(Conns) /\ IsFiniteSet(Chosen)

VARIABLES
    deployment,\* one of Deployments, fixed for the behaviour
    stored,    \* what it stores for the one URL: whose answers, and what is in them
    month,
    active,    \* the keys that resolve
    conn,      \* the request each connection carries
    requests,  \* how many there have been
    work,      \* Server.work, the after-response queue
    running,   \* the task the background worker runs
    closed,    \* Server.closed
    stopped,   \* Server.workDone is closed
    rows,      \* usage_records: the request, its key and its id, and its month
    meter,     \* usage_aggregates: quota consumed per month
    \* history: the requests that Usage metered, and of these the ones whose record was
    \* dropped or failed
    served, dropped,
    \* history per month: requests its quota admitted, and of these the ones that have no
    \* record in it because the record, or the request, was lost or late, and the ones that
    \* have none because their id was recorded before
    drawn, lost, repeats,
    answer     \* history: the answer the last step gave

vars == <<deployment, stored, month, active, conn, requests, work, running, closed, stopped,
          rows, meter, served, dropped, drawn, lost, repeats, answer>>

world == <<deployment, month, active>>
service == <<running, closed, stopped>>
account == <<rows, meter>>
losses == <<dropped, lost>>
history == <<served, dropped, drawn, lost, repeats>>

edge == deployment.edge
metered == deployment.metered
Quota == deployment.quota
Months == 1..deployment.months

Bodies == {"window", "archive", "problem"}

TypeOK ==
    /\ deployment \in Deployments
    /\ stored \subseteq Callers \X (Bodies \ {"problem"})
    /\ month \in Months
    /\ active \subseteq Keys
    /\ conn \in [Conns -> Request(Months) \union {None}]
    /\ requests \in 0..deployment.load
    /\ work \in Seq(Task(Months)) /\ Len(work) <= Buffer
    /\ running \in Task(Months) \union {None}
    /\ closed \in BOOLEAN /\ stopped \in BOOLEAN
    /\ rows \subseteq [no : 1..Len(served), who : Keys, id : Ids, month : Months]
    /\ meter \in [Months -> Nat]
    /\ served \in Seq([who : Keys, id : Ids]) /\ dropped \subseteq 1..Len(served)
    /\ {drawn, lost, repeats} \subseteq [Months -> 0..deployment.load]
    /\ answer \in [who : Callers, entitled : BOOLEAN, body : Bodies] \union {None}

Init ==
    /\ deployment \in Deployments
    /\ stored = {}
    /\ month = 1
    /\ active = deployment.callers \ {None}
    /\ conn = [c \in Conns |-> None]
    /\ requests = 0
    /\ work = <<>> /\ running = None /\ closed = FALSE /\ stopped = FALSE
    /\ rows = {}
    /\ meter = [m \in Months |-> 0]
    /\ served = <<>> /\ dropped = {}
    /\ drawn = [m \in Months |-> 0]
    /\ lost = drawn /\ repeats = drawn
    /\ answer = None

-----------------------------------------------------------------------------
(***************************************************************************)
(* Work after the response.                                                *)
(***************************************************************************)

\* One more request of those month m admitted, if one did.
More(count, m) == IF m = None THEN count ELSE [count EXCEPT ![m] = @ + 1]

\* The task will never run, or ran and failed.
Loses(task) ==
    IF task.what = "usage"
    THEN dropped' = dropped \union {task.no} /\ lost' = More(lost, task.under)
    ELSE UNCHANGED losses

\* runAfterResponse: never blocks, drops the task when the queue is full or closed.  The
\* lock spans the check and the send.
Defer(task) ==
    IF ~closed /\ Len(work) < Buffer
    THEN work' = Append(work, task) /\ UNCHANGED losses
    ELSE work' = work /\ Loses(task)

Take ==
    /\ running = None /\ work # <<>> /\ ~stopped
    /\ running' = Head(work) /\ work' = Tail(work)
    /\ answer' = None
    /\ UNCHANGED <<world, stored, conn, requests, closed, stopped, account, history>>

\* ON CONFLICT (idempotency_key) DO NOTHING: the key is made of the request id alone.
IsNew(t) == t.id = None \/ \A r \in rows : r.id # t.id

RowOf(t) == [no |-> t.no, who |-> t.who, id |-> t.id, month |-> t.month]

\* The row and the aggregate count for the month of the record, which may be later than the
\* month that admitted the request.
Count(t) ==
    /\ meter' = [meter EXCEPT ![t.month] = @ + 1]
    /\ lost' = IF t.under = t.month THEN lost ELSE More(lost, t.under)
    /\ UNCHANGED <<dropped, repeats>>

\* Mutation: the aggregate is updated whether or not the row is new.
RecordAnyway(t) ==
    /\ rows' = IF IsNew(t) THEN rows \union {RowOf(t)} ELSE rows
    /\ Count(t)

\* UsageRepo.Record: one transaction, one row per idempotency key, and the aggregate only
\* if the row is new.
Record(t) ==
    IF IsNew(t) THEN rows' = rows \union {RowOf(t)} /\ Count(t)
    ELSE repeats' = More(repeats, t.under) /\ UNCHANGED <<account, losses>>

Run ==
    /\ running # None
    /\ running' = None
    /\ answer' = None
    /\ IF running.what = "usage" THEN Record(running)
       ELSE UNCHANGED <<account, losses, repeats>>
    /\ UNCHANGED <<world, stored, conn, requests, work, closed, stopped, served, drawn>>

\* Mutation: a task that failed is tried again.
RunFailsRetrying ==
    /\ running # None /\ Len(work) < Buffer
    /\ running' = None
    /\ work' = Append(work, running)
    /\ answer' = None
    /\ UNCHANGED <<world, stored, conn, requests, closed, stopped, account, history>>

\* The task fails, panics or runs out of time; nothing is tried again.
RunFails ==
    /\ running # None
    /\ running' = None
    /\ Loses(running)
    /\ answer' = None
    /\ UNCHANGED <<world, stored, conn, requests, work, closed, stopped, account, served,
                   drawn, repeats>>

\* Server.Close: no more tasks; the worker goes on until the queue is empty.
Close ==
    /\ ~closed /\ closed' = TRUE
    /\ answer' = None
    /\ UNCHANGED <<world, stored, conn, requests, work, running, stopped, account, history>>

WorkerStops ==
    /\ closed /\ work = <<>> /\ running = None /\ ~stopped
    /\ stopped' = TRUE
    /\ answer' = None
    /\ UNCHANGED <<world, stored, conn, requests, work, running, closed, account, history>>

-----------------------------------------------------------------------------
(***************************************************************************)
(* The chain: APIKey, Usage, RateLimit, Quota, CacheHeaders, handler.      *)
(***************************************************************************)

At(c, stage) == conn[c] # None /\ conn[c].at = stage

Goes(c, stage) == conn' = [conn EXCEPT ![c].at = stage] /\ answer' = None

\* The request is answered, and its connection is free again.
Answers(c, body) ==
    /\ conn' = [conn EXCEPT ![c] = None]
    /\ answer' = [who |-> conn[c].who, entitled |-> conn[c].entitled, body |-> body]

\* Usage: a keyed request that got past APIKey is metered, a refused one too.
Meter(c) ==
    /\ served' = Append(served, [who |-> conn[c].who, id |-> conn[c].id])
    /\ Defer([what |-> "usage", no |-> Len(served) + 1, who |-> conn[c].who,
              id |-> conn[c].id, month |-> month, under |-> conn[c].under])

Metered(c) ==
    IF conn[c].who # None /\ metered THEN Meter(c) ELSE UNCHANGED <<work, served, losses>>

\* A request comes in.  Its id is the caller's if that is well formed, else a new one.
Arrive(c, who, id) ==
    /\ conn[c] = None /\ requests < deployment.load
    /\ requests' = requests + 1
    /\ conn' = [conn EXCEPT ![c] = [who |-> who, entitled |-> who \in active, id |-> id,
                                    at |-> "APIKey", under |-> None]]
    /\ answer' = None
    /\ UNCHANGED <<world, stored, service, work, account, history>>

\* What a shared cache that ignores Vary, or one that honours it, may reuse.
Reusable(who) == {e \in stored : edge.vary => e[1] = who}

\* The shared cache answers in the API's place.
ServeStored(c) ==
    /\ At(c, "APIKey")
    /\ \E e \in Reusable(conn[c].who) : Answers(c, e[2])
    /\ UNCHANGED <<world, stored, requests, service, work, account, history>>

\* ResolveByHash: a key resolves while it is active.
Resolves(k) == k \in active

\* A revoked key, or one that cannot be looked up now: refused, and not metered.
Unauthorized(c) ==
    /\ At(c, "APIKey") /\ conn[c].who # None
    /\ Answers(c, "problem")
    /\ UNCHANGED <<world, stored, requests, service, work, account, history>>

\* No credential, then the bucket of the address.
Anonymous(c) ==
    /\ At(c, "APIKey") /\ conn[c].who = None
    /\ Goes(c, "handler") \/ Answers(c, "problem")
    /\ UNCHANGED <<world, stored, requests, service, work, account, history>>

\* A key that resolves, and the touch of last_used_at is put off; the
\* bucket of the consumer has a token, or the request goes on being refused.
Authenticate(c) ==
    /\ At(c, "APIKey") /\ Resolves(conn[c].who)
    /\ Defer([what |-> "other"])
    /\ Goes(c, "Quota") \/ Goes(c, "refused")
    /\ UNCHANGED <<world, stored, requests, service, account, served, drawn, repeats>>

\* Mutation: the last unit of the quota is given out twice.
ExhaustedLate(consumed) == consumed > Quota

Exhausted(consumed) == consumed >= Quota

Admit(c) ==
    /\ At(c, "Quota") /\ metered /\ ~Exhausted(meter[month])
    /\ conn' = [conn EXCEPT ![c].at = "handler", ![c].under = month]
    /\ drawn' = [drawn EXCEPT ![month] = @ + 1]
    /\ answer' = None
    /\ UNCHANGED <<world, stored, requests, service, work, account, served, losses, repeats>>

\* There is no meter, or it cannot be read: the request is allowed, and no quota admitted it.
AdmitUnread(c) ==
    /\ At(c, "Quota")
    /\ Goes(c, "handler")
    /\ UNCHANGED <<world, stored, requests, service, work, account, history>>

OverQuota(c) ==
    /\ At(c, "Quota") /\ metered /\ Exhausted(meter[month])
    /\ Defer([what |-> "other"])
    /\ Goes(c, "refused")
    /\ UNCHANGED <<world, stored, requests, service, account, served, drawn, repeats>>

\* RateLimit or Quota answers 429, below Usage.
RefuseMetered(c) ==
    /\ At(c, "refused")
    /\ Metered(c)
    /\ Answers(c, "problem")
    /\ UNCHANGED <<world, stored, requests, service, account, drawn, repeats>>

\* History depth follows the plan; every key here is on a plan that has the archive.
BodyFor(who) == IF who = None THEN "window" ELSE "archive"

\* Mutation: the policy is the route's, whoever asks.
PublicRoute(who) == TRUE

\* cachePolicyFor: the route's public policy for an anonymous caller only.
Public(who) == who = None

Storing(who) ==
    IF edge # None /\ (Public(who) \/ ~edge.noStore)
    THEN stored \union {<<who, BodyFor(who)>>} ELSE stored

\* The handler under CacheHeaders: an answer that says who may store it, or a problem
\* document, which says that nobody may; then Usage.
Handle(c) ==
    /\ At(c, "handler")
    /\ \/ stored' = Storing(conn[c].who) /\ Answers(c, BodyFor(conn[c].who))
       \/ stored' = stored /\ Answers(c, "problem")
    /\ Metered(c)
    /\ UNCHANGED <<world, requests, service, account, drawn, repeats>>

\* Recover, far above Usage, answers for a handler that panicked; nothing is metered.
Panic(c) ==
    /\ At(c, "handler")
    /\ Answers(c, "problem")
    /\ lost' = More(lost, conn[c].under)
    /\ UNCHANGED <<world, stored, requests, service, work, account, served, dropped, drawn,
                   repeats>>

-----------------------------------------------------------------------------
(* The world. *)

Revoke(k) ==
    /\ k \in active /\ active' = active \ {k}
    /\ answer' = None
    /\ UNCHANGED <<deployment, month, stored, conn, requests, service, work, account, history>>

NextMonth ==
    /\ month < deployment.months /\ month' = month + 1
    /\ answer' = None
    /\ UNCHANGED <<deployment, active, stored, conn, requests, service, work, account, history>>

\* What the shared cache stores is stale, or evicted.
Expire ==
    /\ stored # {} /\ stored' = {}
    /\ answer' = None
    /\ UNCHANGED <<world, conn, requests, service, work, account, history>>

Serve(c) ==
    \/ \E who \in deployment.callers, id \in deployment.ids : Arrive(c, who, id)
    \/ ServeStored(c) \/ Unauthorized(c) \/ Anonymous(c) \/ Authenticate(c)
    \/ Admit(c) \/ AdmitUnread(c) \/ OverQuota(c) \/ RefuseMetered(c)
    \/ Handle(c) \/ Panic(c)

Worker == Take \/ Run \/ RunFails \/ WorkerStops

Next ==
    \/ \E c \in Conns : Serve(c)
    \/ Worker \/ Close
    \/ \E k \in deployment.fickle : Revoke(k)
    \/ NextMonth \/ Expire

\* The background worker runs while the process does, and each of its tasks has a deadline.
Spec == Init /\ [][Next]_vars /\ WF_vars(Worker)

-----------------------------------------------------------------------------
(***************************************************************************)
(* Properties.                                                             *)
(***************************************************************************)

\* Metering behind the response lets a consumer exceed its quota by what is under way while
\* a request is admitted: the other connections, the queue and the task that is running.
\* More than that takes requests whose record the month has lost, and requests whose id
\* had been recorded before: a caller who repeats its ids is not stopped (QuotaIsExact).
QuotaHolds == \A m \in Months :
    drawn[m] <= Quota + (Cardinality(Conns) - 1) + Buffer + 1 + lost[m] + repeats[m]

\* The record of a metered request that has not been written yet.
Waiting(i) ==
    \E t \in {running} \union {work[j] : j \in 1..Len(work)} :
        t # None /\ t.what = "usage" /\ t.no = i

\* The request whose row this is, or one whose id that request had.
Accounts(r, i) == r.no = i \/ (r.id # None /\ r.id = served[i].id)

\* The aggregate a month is billed by is its rows; no request has two, nor has an id; and
\* a metered request has none only while it waits, if its record was dropped or failed, or
\* because its id has the row of another request, whichever key that came with.
BilledOnce ==
    /\ \A m \in Months : meter[m] = Cardinality({r \in rows : r.month = m})
    /\ \A r, s \in rows : r.no = s.no \/ (r.id # None /\ r.id = s.id) => r = s
    /\ \A i \in 1..Len(served) :
           Waiting(i) \/ i \in dropped \/ \E r \in rows : Accounts(r, i)

\* What a shared cache may do to the plans.  One that honours no-store gives the archive
\* only to callers whose key resolved when they asked.  One that honours Vary gives the
\* archive to no anonymous caller, though perhaps to the key that was just revoked, and the
\* anonymous window to no key.  One that honours no-store alone may give it to a key
\* (KeysGetTheirPlan).
TiersKeptApart == answer # None /\ edge # None =>
    /\ edge.noStore /\ answer.body = "archive" => answer.entitled
    /\ edge.vary /\ answer.body = "archive" => answer.who # None
    /\ edge.vary /\ answer.who # None => answer.body # "window"

\* Close returns: what the queue accepted is run, and a failing task does not stop it.
CloseReturns == closed ~> stopped

-----------------------------------------------------------------------------
(***************************************************************************)
(* What the documents or comments say and the code does not do.            *)
(***************************************************************************)

\* ratelimit.go, api.md: the monthly quota is "exact by design"; here but for what is under
\* way.
QuotaIsExact == \A m \in Months :
    drawn[m] <= Quota + (Cardinality(Conns) - 1) + Buffer + 1

\* api-commercial.md: a usage record's key is "derived from (request_id, api_key_id)": an id
\* that another key used before makes no repeat.
BilledPerKey ==
    \A i \in 1..Len(served) :
        Waiting(i) \/ i \in dropped
        \/ \E r \in rows : Accounts(r, i) /\ r.who = served[i].who

\* middleware.go: an anonymous response "must not be reusable for a caller who sent a
\* credential".
KeysGetTheirPlan == answer # None /\ answer.who # None => answer.body # "window"
=============================================================================
