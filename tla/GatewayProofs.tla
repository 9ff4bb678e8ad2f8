--------------------------- MODULE GatewayProofs ---------------------------
(***************************************************************************)
(* Proofs about Gateway, for any connections, keys, request ids, quotas,   *)
(* buffer and deployments: what a month is billed, by how much a consumer  *)
(* may exceed its quota, and which answers of another caller a shared      *)
(* cache may give, whichever of the headers it is sent it heeds.           *)
(***************************************************************************)
EXTENDS Gateway, Integers, FiniteSetTheorems, TLAPS

\* Which stages a request with a credential may be at, and which admission it may carry.
OfAKey(r) == r.at \in {"Quota", "refused"} \/ r.under # None => r.who # None
Admitted(r) == r.under # None => r.at = "handler" /\ metered

Typed ==
    /\ deployment \in Deployments
    /\ month \in Months
    /\ active \subseteq Keys
    /\ conn \in [Conns -> Request(Months) \union {None}]
    /\ \A c \in Conns : conn[c] # None => OfAKey(conn[c]) /\ Admitted(conn[c])
    /\ work \in Seq(Task(Months)) /\ Len(work) <= Buffer
    /\ running \in Task(Months) \union {None}
    /\ served \in Seq([who : Keys, id : Ids])
    /\ rows \subseteq [no : Nat, who : Keys, id : Ids, month : Months]
    /\ meter \in [Months -> Nat]
    /\ drawn \in [Months -> Nat] /\ lost \in [Months -> Nat] /\ repeats \in [Months -> Nat]

\* The admission a task carries.
UnderOf(t) == IF t.what = "usage" THEN t.under ELSE None

\* What a month has admitted and not lost track of, and the same less one.
net == [m \in Months |-> drawn[m] - lost[m] - repeats[m]]
Less(m) == IF m = None THEN net ELSE [net EXCEPT ![m] = @ - 1]

-----------------------------------------------------------------------------
(***************************************************************************)
(* Constants and helpers.                                                  *)
(***************************************************************************)

LEMMA MonthsAreNumbers ==
    ASSUME deployment \in Deployments
    PROVE  /\ Months \subseteq Nat /\ 1 \in Months /\ None \notin Months
           /\ None \notin Request(Months) /\ None \notin Task(Months)
<1>1. deployment.months \in Nat \ {0}
    BY GatewayAssumption
<1>2. Months \subseteq Nat /\ 1 \in Months
    BY <1>1 DEF Months
<1>3. Request(Months) \subseteq Request(Nat)
    BY <1>2 DEF Request
<1>4. Task(Months) \subseteq Task(Nat)
    BY <1>2 DEF Task
<1> QED
    BY <1>2, <1>3, <1>4, GatewayAssumption

LEMMA BufferIsFinite ==
    /\ Buffer \in Nat \ {0}
    /\ deployment \in Deployments => Quota \in Nat \ {0}
BY GatewayAssumption DEF Quota

\* A queue of tasks is appended to at its end and taken from at its head.
LEMMA QueueTypes ==
    ASSUME NEW S, NEW s \in Seq(S)
    PROVE  /\ Len(s) \in Nat
           /\ \A t \in S : /\ Append(s, t) \in Seq(S)
                           /\ Len(Append(s, t)) = Len(s) + 1
                           /\ \A i \in 1 .. Len(s) : Append(s, t)[i] = s[i]
                           /\ Append(s, t)[Len(s) + 1] = t
           /\ s # <<>> => /\ Head(s) \in S /\ Tail(s) \in Seq(S)
                          /\ Len(s) > 0 /\ Len(Tail(s)) = Len(s) - 1
                          /\ Head(s) = s[1]
                          /\ \A i \in 1 .. Len(s) - 1 : Tail(s)[i] = s[i + 1]
OBVIOUS

LEMMA MoreTypes ==
    ASSUME Typed, NEW m \in Months \union {None}
    PROVE  More(lost, m) \in [Months -> Nat] /\ More(repeats, m) \in [Months -> Nat]
<1>0. lost \in [Months -> Nat] /\ repeats \in [Months -> Nat]
    BY DEF Typed
<1>1. CASE m = None
    BY <1>0, <1>1 DEF More
<1>2. CASE m # None
    BY <1>0, <1>2 DEF More
<1> QED
    BY <1>1, <1>2

LEMMA NetTypes ==
    ASSUME Typed
    PROVE  net \in [Months -> Int]
BY DEF Typed, net

\* One more request whose record the month has lost, or whose id was recorded before.
LEMMA NetIsLess ==
    ASSUME Typed, NEW m \in Months \union {None}, deployment' = deployment, drawn' = drawn,
           \/ lost' = More(lost, m) /\ repeats' = repeats
           \/ repeats' = More(repeats, m) /\ lost' = lost
    PROVE  net' = Less(m)
<1>1. Months' = Months
    BY DEF Months
<1>2. /\ drawn \in [Months -> Nat] /\ lost \in [Months -> Nat]
      /\ repeats \in [Months -> Nat]
    BY DEF Typed
<1>3. CASE m = None
    BY <1>1, <1>3 DEF More, Less, net
<1>4. CASE m # None
    <2>1. \A n \in Months : net'[n] = IF n = m THEN net[n] - 1 ELSE net[n]
        BY <1>1, <1>2, <1>4 DEF More, net
    <2>2. net' = [n \in Months |-> net'[n]]
        BY <1>1 DEF net
    <2>3. Less(m) = [n \in Months |-> IF n = m THEN net[n] - 1 ELSE net[n]]
        BY <1>4 DEF Less, net
    <2> QED
        BY <2>1, <2>2, <2>3
<1> QED
    BY <1>3, <1>4

\* Putting off a task leaves the queue one, within its bound.
LEMMA DeferTypes ==
    ASSUME Typed, NEW t \in Task(Months), Defer(t)
    PROVE  /\ work' \in Seq(Task(Months)) /\ Len(work') <= Buffer
           /\ lost' \in [Months -> Nat]
<1>1. lost' \in [Months -> Nat]
    <2>1. CASE t.what = "usage"
        <3>1. t.under \in Months \union {None}
            BY <2>1 DEF Task
        <3>2. lost' \in {lost, More(lost, t.under)}
            BY <2>1 DEF Defer, Loses, losses
        <3> QED
            BY <3>1, <3>2, MoreTypes DEF Typed
    <2>2. CASE t.what # "usage"
        BY <2>2 DEF Defer, Loses, losses, Typed
    <2> QED
        BY <2>1, <2>2
<1>2. CASE work' = work
    BY <1>1, <1>2 DEF Typed
<1>3. CASE work' = Append(work, t) /\ Len(work) < Buffer
    <2>1. Append(work, t) \in Seq(Task(Months)) /\ Len(Append(work, t)) = Len(work) + 1
        BY QueueTypes DEF Typed
    <2>2. Len(work) \in Nat
        BY QueueTypes DEF Typed
    <2> QED
        BY <1>1, <1>3, <2>1, <2>2, BufferIsFinite
<1> QED
    BY <1>2, <1>3 DEF Defer

\* One connection's request changes; the others stay.
LEMMA OneConn ==
    ASSUME conn \in [Conns -> Request(Months) \union {None}], NEW c \in Conns,
           NEW r \in Request(Months) \union {None}, conn' = [conn EXCEPT ![c] = r]
    PROVE  /\ conn' \in [Conns -> Request(Months) \union {None}]
           /\ conn'[c] = r
           /\ \A d \in Conns \ {c} : conn'[d] = conn[d]
OBVIOUS

-----------------------------------------------------------------------------
(***************************************************************************)
(* Types.                                                                  *)
(***************************************************************************)

LEMMA TypedInit == Init => Typed
<1> SUFFICES ASSUME Init PROVE Typed
    OBVIOUS
<1>1. /\ Months \subseteq Nat /\ 1 \in Months /\ None \notin Months
      /\ None \notin Request(Months) /\ None \notin Task(Months)
    BY MonthsAreNumbers DEF Init
<1>2. /\ work \in Seq(Task(Months)) /\ Len(work) <= Buffer
      /\ served \in Seq([who : Keys, id : Ids])
    BY BufferIsFinite DEF Init
<1>3. active \subseteq Keys
    BY GatewayAssumption DEF Init, Callers
<1> QED
    BY <1>1, <1>2, <1>3 DEF Init, Typed

\* A request moves on, or is answered.
LEMMA TypedConn ==
    ASSUME Typed, NEW c \in Conns, NEW r \in Request(Months) \union {None},
           conn' = [conn EXCEPT ![c] = r],
           r # None => OfAKey(r) /\ Admitted(r),
           UNCHANGED <<world, running, account>>,
           work' \in Seq(Task(Months)), Len(work') <= Buffer,
           served' \in Seq([who : Keys, id : Ids]), drawn' \in [Months -> Nat],
           lost' \in [Months -> Nat], repeats' \in [Months -> Nat]
    PROVE  Typed'
<1>1. UNCHANGED <<deployment, month, active, running, rows, meter>> /\ Months' = Months
    BY DEF world, account, Months
<1>2. /\ conn' \in [Conns -> Request(Months) \union {None}]
      /\ \A d \in Conns : conn'[d] # None => OfAKey(conn'[d]) /\ Admitted(conn'[d])
    BY OneConn DEF Typed
<1>3. \A d \in Conns : conn'[d] # None => OfAKey(conn'[d]) /\ Admitted(conn[d])'
    BY <1>1, <1>2 DEF Admitted, metered
<1> QED
    BY <1>1, <1>2, <1>3 DEF Typed, OfAKey

\* The background worker changes the queue, its task and the account.
LEMMA TypedWork ==
    ASSUME Typed, UNCHANGED <<world, conn, served, drawn>>,
           work' \in Seq(Task(Months)), Len(work') <= Buffer,
           running' \in Task(Months) \union {None},
           rows' \subseteq [no : Nat, who : Keys, id : Ids, month : Months],
           meter' \in [Months -> Nat], lost' \in [Months -> Nat],
           repeats' \in [Months -> Nat]
    PROVE  Typed'
<1>1. UNCHANGED <<deployment, month, active>> /\ Months' = Months
    BY DEF world, Months
<1> QED
    BY <1>1 DEF Typed, OfAKey, Admitted, metered

\* What the record of a task leaves behind.
LEMMA TypedRecord ==
    ASSUME Typed, NEW t \in Task(Months), t.what = "usage", Record(t)
    PROVE  /\ rows' \subseteq [no : Nat, who : Keys, id : Ids, month : Months]
           /\ meter' \in [Months -> Nat]
           /\ lost' \in [Months -> Nat] /\ repeats' \in [Months -> Nat]
<1>1. /\ t.no \in Nat /\ t.who \in Keys /\ t.id \in Ids /\ t.month \in Months
      /\ t.under \in Months \union {None}
    BY DEF Task
<1>2. CASE ~IsNew(t)
    <2>1. repeats' = More(repeats, t.under) /\ UNCHANGED <<rows, meter, lost>>
        BY <1>2 DEF Record, account, losses
    <2> QED
        BY <1>1, <2>1, MoreTypes DEF Typed
<1>3. CASE IsNew(t)
    <2>1. Count(t) /\ rows' = rows \union {RowOf(t)}
        BY <1>3 DEF Record
    <2>2. meter' = [meter EXCEPT ![t.month] = @ + 1] /\ repeats' = repeats
          /\ lost' \in {lost, More(lost, t.under)}
        BY <2>1 DEF Count
    <2>3. RowOf(t) \in [no : Nat, who : Keys, id : Ids, month : Months]
        BY <1>1 DEF RowOf
    <2>4. meter' \in [Months -> Nat]
        BY <1>1, <2>2 DEF Typed
    <2>5. lost' \in [Months -> Nat]
        BY <1>1, <2>2, MoreTypes DEF Typed
    <2> QED
        BY <2>1, <2>2, <2>3, <2>4, <2>5 DEF Typed
<1> QED
    BY <1>2, <1>3

LEMMA TypedWorker ==
    ASSUME Typed, Worker
    PROVE  Typed'
<1>1. CASE Take
    <2>1. Head(work) \in Task(Months) /\ Tail(work) \in Seq(Task(Months))
          /\ Len(Tail(work)) = Len(work) - 1 /\ Len(work) \in Nat
        BY <1>1, QueueTypes DEF Typed, Take
    <2>2. Len(work') <= Buffer
        BY <1>1, <2>1, BufferIsFinite DEF Typed, Take
    <2> QED
        BY <1>1, <2>1, <2>2, TypedWork DEF Typed, Take, account, history
<1>2. CASE Run
    <2>1. CASE running.what = "usage"
        <3>1. running \in Task(Months) /\ Record(running)
            BY <1>2, <2>1 DEF Run, Typed
        <3> QED
            BY <1>2, <2>1, <3>1, TypedRecord, TypedWork DEF Typed, Run
    <2>2. CASE running.what # "usage"
        BY <1>2, <2>2, TypedWork DEF Typed, Run, account, losses
    <2> QED
        BY <2>1, <2>2
<1>3. CASE RunFails
    <2>1. running \in Task(Months) /\ Loses(running)
        BY <1>3 DEF RunFails, Typed
    <2>2. lost' \in [Months -> Nat]
        <3>1. CASE running.what = "usage"
            <4>1. running.under \in Months \union {None} /\ lost' = More(lost, running.under)
                BY <2>1, <3>1 DEF Task, Loses
            <4> QED
                BY <4>1, MoreTypes DEF Typed
        <3>2. CASE running.what # "usage"
            BY <2>1, <3>2 DEF Loses, losses, Typed
        <3> QED
            BY <3>1, <3>2
    <2> QED
        BY <1>3, <2>2, TypedWork DEF Typed, RunFails, account
<1>4. CASE WorkerStops
    BY <1>4, TypedWork DEF Typed, WorkerStops, account, history
<1> QED
    BY <1>1, <1>2, <1>3, <1>4 DEF Worker

\* What neither a connection nor the background worker does.
Aside ==
    \/ Close \/ (\E k \in deployment.fickle : Revoke(k)) \/ NextMonth \/ Expire
    \/ UNCHANGED vars

LEMMA TypedAside ==
    ASSUME Typed, Aside
    PROVE  Typed'
<1>1. UNCHANGED <<deployment, conn, work, running, rows, meter, served, drawn, lost, repeats>>
    BY DEF Aside, Close, Revoke, NextMonth, Expire, vars, world, service, account, history
<1>2. Months' = Months /\ active' \subseteq active
    BY <1>1 DEF Aside, Months, Close, Revoke, NextMonth, Expire, vars, world
<1>3. month' \in Months
    <2>1. CASE NextMonth
        <3>1. deployment.months \in Nat /\ month \in 1 .. deployment.months
            BY GatewayAssumption DEF Typed, Months
        <3> QED
            BY <2>1, <3>1 DEF NextMonth, Months
    <2>2. CASE ~NextMonth
        BY <2>2 DEF Aside, Typed, Close, Revoke, Expire, vars, world
    <2> QED
        BY <2>1, <2>2
<1> QED
    BY <1>1, <1>2, <1>3 DEF Typed, OfAKey, Admitted, metered

-----------------------------------------------------------------------------
(***************************************************************************)
(* What a stage of the chain does to the connection, the queue and the     *)
(* history, apart from everything else it does.                            *)
(***************************************************************************)

\* The month whose quota admitted what a connection carries.
CarriedBy(r) == IF r = None THEN None ELSE r.under

Silent(c, r) == /\ CarriedBy(r) = CarriedBy(conn[c])
                /\ UNCHANGED <<work, served, losses, drawn, repeats>>
PutsOff(c, r, t) == /\ Defer(t) /\ UnderOf(t) = CarriedBy(conn[c]) /\ CarriedBy(r) = None
                    /\ IF t.what = "usage"
                       THEN /\ t.no = Len(served) + 1
                            /\ served' = Append(served, [who |-> t.who, id |-> t.id])
                       ELSE served' = served
                    /\ UNCHANGED <<drawn, repeats>>
Forgets(c, r) == /\ lost' = More(lost, CarriedBy(conn[c])) /\ CarriedBy(r) = None
                 /\ UNCHANGED <<work, served, dropped, drawn, repeats>>
Admits(c, r) == /\ CarriedBy(conn[c]) = None /\ CarriedBy(r) = month
                /\ meter[month] < Quota
                /\ drawn' = [drawn EXCEPT ![month] = @ + 1]
                /\ UNCHANGED <<work, served, losses, repeats>>

Effect(c, r) ==
    /\ conn' = [conn EXCEPT ![c] = r]
    /\ r # None => OfAKey(r) /\ Admitted(r)
    /\ UNCHANGED <<world, running, account>>
    /\ \/ Silent(c, r) \/ Forgets(c, r) \/ Admits(c, r)
       \/ \E t \in Task(Months) : PutsOff(c, r, t)

Steps(c) == \E r \in Request(Months) \union {None} : Effect(c, r)

\* A request that is carried is one.
LEMMA Carries ==
    ASSUME Typed, NEW c \in Conns, conn[c] # None
    PROVE  /\ conn[c] \in Request(Months)
           /\ conn[c].who \in Callers /\ conn[c].entitled \in BOOLEAN /\ conn[c].id \in Ids
           /\ conn[c].under \in Months \union {None}
           /\ conn[c].at \in {"APIKey", "Quota", "handler", "refused"}
           /\ OfAKey(conn[c]) /\ Admitted(conn[c])
           /\ CarriedBy(conn[c]) = conn[c].under
BY DEF Typed, Request, CarriedBy

\* To another stage, under the same admission.
LEMMA GoesOn ==
    ASSUME Typed, NEW c \in Conns, NEW stage \in {"Quota", "handler", "refused"},
           conn[c] # None, Goes(c, stage)
    PROVE  \E r \in Request(Months) :
               /\ conn' = [conn EXCEPT ![c] = r]
               /\ r.at = stage /\ r.who = conn[c].who /\ r.under = conn[c].under
               /\ CarriedBy(r) = CarriedBy(conn[c])
<1> DEFINE r == [conn[c] EXCEPT !.at = stage]
<1>1. conn[c] \in Request(Months) /\ CarriedBy(conn[c]) = conn[c].under
    BY Carries
<1>2. /\ r \in Request(Months) /\ r.at = stage /\ r.who = conn[c].who
      /\ r.under = conn[c].under
    BY <1>1 DEF Request
<1>3. conn' = [conn EXCEPT ![c] = r]
    BY DEF Goes
<1> HIDE DEF r
<1>4. CarriedBy(r) = r.under
    BY <1>2, MonthsAreNumbers DEF CarriedBy, Typed
<1> QED
    BY <1>1, <1>2, <1>3, <1>4

\* Answered, and metered if it is to be.
LEMMA AnswersMetered ==
    ASSUME Typed, NEW c \in Conns, conn[c] # None, NEW body, Answers(c, body), Metered(c),
           UNCHANGED <<world, running, account, drawn, repeats>>
    PROVE  Steps(c)
<1>1. conn' = [conn EXCEPT ![c] = None] /\ CarriedBy(None) = None
    BY DEF Answers, CarriedBy
<1>2. /\ conn[c].who \in Callers /\ conn[c].id \in Ids /\ conn[c].under \in Months \union {None} /\ month \in Months
      /\ OfAKey(conn[c]) /\ Admitted(conn[c]) /\ CarriedBy(conn[c]) = conn[c].under
    BY Carries DEF Typed
<1>3. CASE conn[c].who # None /\ metered
    <2> DEFINE t == [what |-> "usage", no |-> Len(served) + 1, who |-> conn[c].who,
                     id |-> conn[c].id, month |-> month, under |-> conn[c].under]
    <2>1. /\ t \in Task(Months) /\ UnderOf(t) = conn[c].under
          /\ t.what = "usage" /\ t.no = Len(served) + 1
          /\ t.who = conn[c].who /\ t.id = conn[c].id
        <3>1. conn[c].who \in Keys /\ Len(served) + 1 \in Nat
            BY <1>2, <1>3, QueueTypes DEF Callers, Typed
        <3> QED
            BY <1>2, <3>1 DEF Task, UnderOf
    <2>2. Defer(t) /\ served' = Append(served, [who |-> conn[c].who, id |-> conn[c].id])
        BY <1>3 DEF Metered, Meter
    <2> HIDE DEF t
    <2>3. PutsOff(c, None, t)
        BY <1>1, <1>2, <2>1, <2>2 DEF PutsOff
    <2> QED
        BY <1>1, <2>1, <2>3 DEF Steps, Effect
<1>4. CASE ~(conn[c].who # None /\ metered)
    <2>1. UNCHANGED <<work, served, losses, drawn, repeats>>
        BY <1>4 DEF Metered
    <2>2. conn[c].under = None
        BY <1>2, <1>4 DEF OfAKey, Admitted
    <2>3. Silent(c, None)
        BY <1>1, <1>2, <2>1, <2>2 DEF Silent
    <2> QED
        BY <1>1, <2>3 DEF Steps, Effect
<1> QED
    BY <1>3, <1>4

LEMMA OtherTask ==
    /\ [what |-> "other"] \in Task(Months) /\ UnderOf([what |-> "other"]) = None
    /\ [what |-> "other"].what # "usage"
BY DEF Task, UnderOf

\* A request that no quota has admitted yet is answered, or goes on.
LEMMA NotAdmitted ==
    ASSUME Typed, NEW c \in Conns, conn[c] # None, conn[c].under = None,
           UNCHANGED <<world, running, account, work, served, losses, drawn, repeats>>,
           (\E body : Answers(c, body)) \/ Goes(c, "handler")
    PROVE  Steps(c)
<1>1. CarriedBy(conn[c]) = None
    BY Carries
<1>2. CASE \E body : Answers(c, body)
    <2>1. conn' = [conn EXCEPT ![c] = None]
        BY <1>2 DEF Answers
    <2>2. Silent(c, None)
        BY <1>1 DEF Silent, CarriedBy
    <2> QED
        BY <2>1, <2>2 DEF Steps, Effect
<1>3. CASE Goes(c, "handler")
    <2>1. PICK r \in Request(Months) :
              /\ conn' = [conn EXCEPT ![c] = r] /\ r.at = "handler" /\ r.under = None
              /\ CarriedBy(r) = CarriedBy(conn[c])
        BY <1>3, GoesOn
    <2>2. OfAKey(r) /\ Admitted(r) /\ Silent(c, r)
        BY <2>1 DEF OfAKey, Admitted, Silent
    <2> QED
        BY <2>1, <2>2 DEF Steps, Effect
<1> QED
    BY <1>2, <1>3

\* A key's request is put on its way, with something to be done later.
LEMMA PassedOn ==
    ASSUME Typed, NEW c \in Conns, conn[c] # None, conn[c].under = None, conn[c].who # None,
           UNCHANGED <<world, running, account, served, drawn, repeats>>,
           Defer([what |-> "other"]), Goes(c, "Quota") \/ Goes(c, "refused")
    PROVE  Steps(c)
<1>1. PICK r \in Request(Months) :
          /\ conn' = [conn EXCEPT ![c] = r] /\ r.at \in {"Quota", "refused"}
          /\ r.who = conn[c].who /\ r.under = None /\ CarriedBy(r) = CarriedBy(conn[c])
    BY GoesOn
<1>2. CarriedBy(conn[c]) = None
    BY Carries
<1>3. OfAKey(r) /\ Admitted(r)
    BY <1>1 DEF OfAKey, Admitted
<1>4. PutsOff(c, r, [what |-> "other"])
    BY <1>1, <1>2, OtherTask DEF PutsOff
<1> QED
    BY <1>1, <1>3, <1>4, OtherTask DEF Steps, Effect

LEMMA ServeSteps ==
    ASSUME Typed, NEW c \in Conns, Serve(c)
    PROVE  Steps(c)
<1>0. ASSUME conn[c] # None, conn[c].at # "handler" PROVE conn[c].under = None
    BY <1>0, Carries DEF Admitted
<1>1. ASSUME NEW who \in deployment.callers, NEW id \in deployment.ids, Arrive(c, who, id)
      PROVE  Steps(c)
    <2> DEFINE r == [who |-> who, entitled |-> who \in active, id |-> id,
                     at |-> "APIKey", under |-> None]
    <2>1. who \in Callers /\ id \in Ids
        BY GatewayAssumption DEF Typed
    <2>2. r \in Request(Months) /\ r.at = "APIKey" /\ r.under = None
        BY <2>1 DEF Request
    <2>3. conn' = [conn EXCEPT ![c] = r] /\ conn[c] = None
        BY <1>1 DEF Arrive
    <2> HIDE DEF r
    <2>4. Silent(c, r)
        BY <1>1, <2>2, <2>3 DEF Silent, Arrive, CarriedBy, history, losses
    <2>5. OfAKey(r) /\ Admitted(r)
        BY <2>2 DEF OfAKey, Admitted
    <2> QED
        BY <1>1, <2>2, <2>3, <2>4, <2>5 DEF Steps, Effect, Arrive, service
<1>2. CASE ServeStored(c) \/ Unauthorized(c) \/ Anonymous(c) \/ AdmitUnread(c)
    <2>1. conn[c] # None /\ conn[c].under = None
        BY <1>0, <1>2 DEF ServeStored, Unauthorized, Anonymous, AdmitUnread, At
    <2>2. (\E body : Answers(c, body)) \/ Goes(c, "handler")
        BY <1>2 DEF ServeStored, Unauthorized, Anonymous, AdmitUnread
    <2>3. UNCHANGED <<world, running, account, work, served, losses, drawn, repeats>>
        BY <1>2
        DEF ServeStored, Unauthorized, Anonymous, AdmitUnread, service, history, losses
    <2> QED
        BY <2>1, <2>2, <2>3, NotAdmitted
<1>3. CASE Authenticate(c)
    <2>1. conn[c] # None /\ conn[c].under = None
        BY <1>0, <1>3 DEF Authenticate, At
    <2>2. conn[c].who # None
        BY <1>3, GatewayAssumption DEF Authenticate, Resolves, Typed
    <2> QED
        BY <1>3, <2>1, <2>2, PassedOn DEF Authenticate, service
<1>4. CASE OverQuota(c)
    <2>1. conn[c] # None /\ conn[c].under = None /\ conn[c].at = "Quota"
        BY <1>0, <1>4 DEF OverQuota, At
    <2>2. conn[c].who # None
        BY <2>1, Carries DEF OfAKey
    <2> QED
        BY <1>4, <2>1, <2>2, PassedOn DEF OverQuota, service
<1>5. CASE Admit(c)
    <2> DEFINE r == [conn[c] EXCEPT !.at = "handler", !.under = month]
    <2>1. conn[c] # None /\ conn[c].under = None /\ conn[c].at = "Quota"
        BY <1>0, <1>5 DEF Admit, At
    <2>2. conn[c] \in Request(Months) /\ month \in Months /\ conn[c].who # None
        BY <2>1, Carries DEF OfAKey, Typed
    <2>3. /\ r \in Request(Months) /\ r.at = "handler" /\ r.under = month
          /\ r.who = conn[c].who
        BY <2>2 DEF Request
    <2>4. conn' = [conn EXCEPT ![c] = r]
        BY <1>5 DEF Admit
    <2> HIDE DEF r
    <2>5. CarriedBy(conn[c]) = None /\ CarriedBy(r) = month
        BY <2>1, <2>2, <2>3, MonthsAreNumbers DEF CarriedBy, Typed
    <2>6. OfAKey(r) /\ Admitted(r)
        BY <1>5, <2>2, <2>3 DEF OfAKey, Admitted, Admit
    <2>7. meter[month] < Quota
        BY <1>5, <2>2, BufferIsFinite DEF Admit, Exhausted, Typed
    <2>8. Admits(c, r)
        BY <1>5, <2>5, <2>7 DEF Admits, Admit
    <2> QED
        BY <1>5, <2>3, <2>4, <2>6, <2>8 DEF Steps, Effect, Admit, service
<1>6. CASE RefuseMetered(c)
    BY <1>6, AnswersMetered DEF RefuseMetered, At, service
<1>7. CASE Handle(c)
    BY <1>7, AnswersMetered DEF Handle, At, service
<1>8. CASE Panic(c)
    <2>1. conn[c] # None /\ CarriedBy(conn[c]) = conn[c].under
        BY <1>8, Carries DEF Panic, At
    <2>2. conn' = [conn EXCEPT ![c] = None] /\ Forgets(c, None)
        BY <1>8, <2>1 DEF Panic, Answers, Forgets, CarriedBy
    <2> QED
        BY <1>8, <2>2 DEF Steps, Effect, Panic, service
<1> QED
    BY <1>1, <1>2, <1>3, <1>4, <1>5, <1>6, <1>7, <1>8 DEF Serve

LEMMA TypedServe ==
    ASSUME Typed, NEW c \in Conns, Serve(c)
    PROVE  Typed'
<1>1. PICK r \in Request(Months) \union {None} : Effect(c, r)
    BY ServeSteps DEF Steps
<1> DEFINE Typical == /\ work' \in Seq(Task(Months)) /\ Len(work') <= Buffer
                      /\ served' \in Seq([who : Keys, id : Ids])
                      /\ drawn' \in [Months -> Nat] /\ lost' \in [Months -> Nat]
                      /\ repeats' \in [Months -> Nat]
<1>2. Typical
    <2>1. CASE Silent(c, r)
        BY <2>1 DEF Silent, Typed, losses
    <2>2. CASE Forgets(c, r)
        <3>1. CarriedBy(conn[c]) \in Months \union {None}
            BY Carries DEF CarriedBy
        <3> QED
            BY <2>2, <3>1, MoreTypes DEF Forgets, Typed
    <2>3. CASE Admits(c, r)
        BY <2>3 DEF Admits, Typed, losses
    <2>4. ASSUME NEW t \in Task(Months), PutsOff(c, r, t)
          PROVE  Typical
        <3>1. served' \in Seq([who : Keys, id : Ids])
            <4>1. CASE t.what = "usage"
                <5>1. [who |-> t.who, id |-> t.id] \in [who : Keys, id : Ids]
                    BY <4>1 DEF Task
                <5>2. \A x \in [who : Keys, id : Ids] :
                          Append(served, x) \in Seq([who : Keys, id : Ids])
                    BY QueueTypes DEF Typed
                <5> QED
                    BY <2>4, <4>1, <5>1, <5>2 DEF PutsOff
            <4>2. CASE t.what # "usage"
                BY <2>4, <4>2 DEF PutsOff, Typed
            <4> QED
                BY <4>1, <4>2
        <3> QED
            BY <2>4, <3>1, DeferTypes DEF PutsOff, Typed
    <2> QED
        BY <1>1, <2>1, <2>2, <2>3, <2>4 DEF Effect
<1> QED
    BY <1>1, <1>2, TypedConn DEF Effect

LEMMA TypedStep == Typed /\ [Next]_vars => Typed'
BY TypedServe, TypedWorker, TypedAside DEF Next, Aside

-----------------------------------------------------------------------------
(***************************************************************************)
(* Billing.  Every record on its way is of a metered request of its own,   *)
(* which has no row yet.                                                   *)
(***************************************************************************)

\* The records on their way: the one that is run, and those in the queue.
Places == 0 .. Len(work)
Placed(i) == IF i = 0 THEN running ELSE work[i]
HasRecord(i) == Placed(i) # None /\ Placed(i).what = "usage"

\* A record is of a metered request.
Entered(t) == t.no \in 1 .. Len(served) /\ t.id = served[t.no].id

Books ==
    /\ IsFiniteSet(rows)
    /\ \A r \in rows : r.no \in 1 .. Len(served)
    /\ \A i \in Places : HasRecord(i) =>
           /\ Entered(Placed(i))
           /\ \A r \in rows : r.no # Placed(i).no
           /\ \A j \in Places \ {i} : HasRecord(j) => Placed(j).no # Placed(i).no

\* The three parts of BilledOnce.
MonthsAddUp == \A m \in Months : meter[m] = Cardinality({r \in rows : r.month = m})
RowsDiffer == \A r, s \in rows : r.no = s.no \/ (r.id # None /\ r.id = s.id) => r = s
AllAccounted ==
    \A i \in 1 .. Len(served) :
        \/ \E j \in Places : HasRecord(j) /\ Placed(j).no = i
        \/ i \in dropped \/ \E r \in rows : Accounts(r, i)

Billed == Books /\ MonthsAddUp /\ RowsDiffer /\ AllAccounted

LEMMA LengthsAreNumbers ==
    ASSUME Typed
    PROVE  /\ Len(work) \in Nat /\ Len(served) \in Nat
           /\ \A i \in 1 .. Len(work) : work[i] \in Task(Months) /\ work[i] # None
<1>1. Len(work) \in Nat /\ \A i \in 1 .. Len(work) : work[i] \in Task(Months)
    BY DEF Typed
<1>2. Len(served) \in Nat
    BY DEF Typed
<1> QED
    BY <1>1, <1>2, MonthsAreNumbers DEF Typed

LEMMA BilledIsBilledOnce == Typed /\ Billed => BilledOnce
<1> SUFFICES ASSUME Typed, Billed PROVE BilledOnce
    OBVIOUS
<1>1. Len(work) \in Nat
    BY LengthsAreNumbers
<1>2. ASSUME NEW i, NEW j \in Places, HasRecord(j), Placed(j).no = i PROVE Waiting(i)
    <2>1. Placed(j) \in {running} \union {work[k] : k \in 1 .. Len(work)}
        BY <1>1 DEF Places, Placed
    <2> QED
        BY <1>2, <2>1 DEF Waiting, HasRecord
<1>3. \A i \in 1 .. Len(served) :
          Waiting(i) \/ i \in dropped \/ \E r \in rows : Accounts(r, i)
    BY <1>2 DEF Billed, AllAccounted
<1> QED
    BY <1>3 DEF Billed, BilledOnce, MonthsAddUp, RowsDiffer

LEMMA BilledInit == Init => Billed
<1> SUFFICES ASSUME Init PROVE Billed
    OBVIOUS
<1>1. rows = {} /\ Len(served) = 0 /\ Len(work) = 0 /\ running = None
    BY DEF Init
<1>2. Books
    BY <1>1, FS_EmptySet DEF Books, Places, Placed, HasRecord
<1>3. MonthsAddUp
    <2> SUFFICES ASSUME NEW m \in Months
                 PROVE  meter[m] = Cardinality({r \in rows : r.month = m})
        BY DEF MonthsAddUp
    <2>1. {r \in rows : r.month = m} = {}
        BY <1>1
    <2> QED
        BY <2>1, FS_EmptySet DEF Init
<1> QED
    BY <1>1, <1>2, <1>3 DEF Billed, RowsDiffer, AllAccounted

\* The books and the records on their way stay as they are.
LEMMA BilledSame ==
    ASSUME Typed, Billed, UNCHANGED <<deployment, work, running, rows, meter, served, dropped>>
    PROVE  Billed'
<1>1. /\ Months' = Months /\ Places' = Places
      /\ \A i : Placed(i)' = Placed(i) /\ HasRecord(i)' = HasRecord(i)
    BY DEF Months, Places, Placed, HasRecord
<1>2. Books'
    BY <1>1 DEF Billed, Books, Entered
<1>3. MonthsAddUp' /\ RowsDiffer' /\ AllAccounted'
    BY <1>1 DEF Billed, MonthsAddUp, RowsDiffer, AllAccounted, Accounts
<1> QED
    BY <1>2, <1>3 DEF Billed

\* The head of the queue is run: every record moves up by one.
LEMMA BilledTake ==
    ASSUME Typed, Billed, Take
    PROVE  Billed'
<1>1. /\ UNCHANGED <<deployment, rows, meter, served, dropped>> /\ Months' = Months
      /\ running = None /\ work # <<>> /\ running' = Head(work) /\ work' = Tail(work)
    BY DEF Take, world, account, history, Months
<1>2. /\ Len(work) \in Nat /\ Len(work) > 0 /\ Len(work') = Len(work) - 1
      /\ running' = work[1] /\ \A i \in 1 .. Len(work) - 1 : work'[i] = work[i + 1]
    BY <1>1, QueueTypes DEF Typed
<1>3. \A i \in Places' : i + 1 \in Places /\ i \in Nat /\ Placed(i)' = Placed(i + 1)
    BY <1>2 DEF Places, Placed
<1>4. \A i \in Places' : HasRecord(i)' = HasRecord(i + 1)
    BY <1>3 DEF HasRecord
<1>5. \A j \in Places : HasRecord(j) => j - 1 \in Places' /\ (j - 1) + 1 = j
    BY <1>1, <1>2 DEF Places, Placed, HasRecord
<1>6. Books'
    <2> SUFFICES ASSUME NEW i \in Places', HasRecord(i)'
                 PROVE  /\ Entered(Placed(i))'
                        /\ \A r \in rows : r.no # Placed(i)'.no
                        /\ \A j \in Places' \ {i} : HasRecord(j)' => Placed(j)'.no # Placed(i)'.no
        BY <1>1 DEF Billed, Books
    <2>1. /\ Entered(Placed(i + 1)) /\ \A r \in rows : r.no # Placed(i + 1).no
          /\ \A j \in Places \ {i + 1} : HasRecord(j) => Placed(j).no # Placed(i + 1).no
        BY <1>3, <1>4 DEF Billed, Books
    <2>2. \A j \in Places' \ {i} : j + 1 \in Places \ {i + 1}
        BY <1>3
    <2> QED
        BY <1>1, <1>3, <1>4, <2>1, <2>2 DEF Entered
<1>7. AllAccounted'
    <2> SUFFICES ASSUME NEW i \in 1 .. Len(served)
                 PROVE  \/ \E j \in Places' : HasRecord(j)' /\ Placed(j)'.no = i
                        \/ i \in dropped \/ \E r \in rows : Accounts(r, i)
        BY <1>1 DEF AllAccounted, Accounts
    <2>1. CASE \E j \in Places : HasRecord(j) /\ Placed(j).no = i
        BY <1>3, <1>4, <1>5, <2>1
    <2> QED
        BY <2>1 DEF Billed, AllAccounted
<1> QED
    BY <1>1, <1>6, <1>7 DEF Billed, MonthsAddUp, RowsDiffer

\* Work is put off; a record that is put off is that of the request just metered, and joins
\* the end of the queue, or is dropped.
LEMMA BilledPutsOff ==
    ASSUME Typed, Billed, NEW c \in Conns, NEW r, NEW t \in Task(Months), PutsOff(c, r, t),
           UNCHANGED <<world, running, account>>
    PROVE  Billed'
<1>1. UNCHANGED <<deployment, running, rows, meter>> /\ Months' = Months
    BY DEF world, account, Months
<1>2. Len(work) \in Nat /\ Len(served) \in Nat /\ t # None
    BY LengthsAreNumbers, MonthsAreNumbers DEF Typed
<1>3. /\ Len(served') \in Nat /\ Len(served) <= Len(served')
      /\ \A i \in 1 .. Len(served) : served'[i] = served[i]
      /\ t.what = "usage" => /\ t.no = Len(served) + 1 /\ Len(served') = Len(served) + 1
                             /\ served'[t.no].id = t.id
      /\ t.what # "usage" => served' = served
    <2>1. CASE t.what = "usage"
        <3>1. [who |-> t.who, id |-> t.id] \in [who : Keys, id : Ids]
            BY <2>1 DEF Task
        <3> DEFINE x == [who |-> t.who, id |-> t.id]
        <3>2. x \in [who : Keys, id : Ids] /\ x.id = t.id
            BY <3>1
        <3>3. served' = Append(served, x) /\ t.no = Len(served) + 1
            BY <2>1 DEF PutsOff
        <3> HIDE DEF x
        <3>4. /\ Len(Append(served, x)) = Len(served) + 1
              /\ \A i \in 1 .. Len(served) : Append(served, x)[i] = served[i]
              /\ Append(served, x)[Len(served) + 1] = x
            BY <3>2, QueueTypes DEF Typed
        <3> QED
            BY <1>2, <2>1, <3>2, <3>3, <3>4
    <2>2. CASE t.what # "usage"
        BY <1>2, <2>2 DEF PutsOff
    <2> QED
        BY <2>1, <2>2
<1>4. /\ dropped \subseteq dropped'
      /\ \/ /\ Len(work') = Len(work) + 1 /\ work'[Len(work) + 1] = t
            /\ \A i \in 1 .. Len(work) : work'[i] = work[i]
         \/ work' = work /\ (t.what = "usage" => t.no \in dropped')
    <2>1. CASE work' = Append(work, t) /\ UNCHANGED losses
        <3>1. /\ Len(Append(work, t)) = Len(work) + 1 /\ Append(work, t)[Len(work) + 1] = t
              /\ \A i \in 1 .. Len(work) : Append(work, t)[i] = work[i]
            BY QueueTypes DEF Typed
        <3> QED
            BY <2>1, <3>1 DEF losses
    <2>2. CASE work' = work /\ Loses(t)
        BY <2>2 DEF Loses, losses
    <2> QED
        BY <2>1, <2>2 DEF PutsOff, Defer
<1>5. \A i \in Places : i \in Places' /\ Placed(i)' = Placed(i) /\ HasRecord(i)' = HasRecord(i)
    BY <1>1, <1>2, <1>4 DEF Places, Placed, HasRecord
<1>6. \A i \in Places' : i \in Places \/ Placed(i)' = t
    BY <1>2, <1>4 DEF Places, Placed
<1>7. \A i, j \in Places' : i # j => i \in Places \/ j \in Places
    BY <1>2, <1>4 DEF Places
<1>8. \A i \in Places : HasRecord(i) => Placed(i).no \in 1 .. Len(served)
    BY DEF Billed, Books, Entered
<1>9. \A i \in Places' : HasRecord(i)' =>
          /\ Entered(Placed(i))' /\ \A s \in rows : s.no # Placed(i)'.no
          /\ i \notin Places => Placed(i)'.no = Len(served) + 1
    <2> SUFFICES ASSUME NEW i \in Places', HasRecord(i)'
                 PROVE  /\ Entered(Placed(i))' /\ \A s \in rows : s.no # Placed(i)'.no
                        /\ i \notin Places => Placed(i)'.no = Len(served) + 1
        OBVIOUS
    <2>1. CASE i \in Places
        <3>1. Entered(Placed(i)) /\ \A s \in rows : s.no # Placed(i).no
            BY <1>5, <2>1 DEF Billed, Books
        <3> QED
            BY <1>2, <1>3, <1>5, <2>1, <3>1 DEF Entered
    <2>2. CASE i \notin Places
        <3>1. Placed(i)' = t /\ t.what = "usage"
            BY <1>6, <2>2 DEF HasRecord
        <3>2. \A s \in rows : s.no # t.no
            BY <1>2, <1>3, <3>1 DEF Billed, Books
        <3> QED
            BY <1>2, <1>3, <3>1, <3>2 DEF Entered
    <2> QED
        BY <2>1, <2>2
<1>10. Books'
    <2>1. \A s \in rows : s.no \in 1 .. Len(served')
        BY <1>2, <1>3 DEF Billed, Books
    <2>2. ASSUME NEW i \in Places', NEW j \in Places' \ {i}, HasRecord(i)', HasRecord(j)'
          PROVE  Placed(j)'.no # Placed(i)'.no
        <3>1. CASE i \in Places /\ j \in Places
            BY <1>5, <2>2, <3>1 DEF Billed, Books
        <3>2. CASE i \notin Places
            <4>1. j \in Places /\ Placed(j)'.no \in 1 .. Len(served)
                BY <1>5, <1>7, <1>8, <2>2, <3>2
            <4> QED
                BY <1>2, <1>9, <2>2, <3>2, <4>1
        <3>3. CASE j \notin Places
            <4>1. i \in Places /\ Placed(i)'.no \in 1 .. Len(served)
                BY <1>5, <1>7, <1>8, <2>2, <3>3
            <4> QED
                BY <1>2, <1>9, <2>2, <3>3, <4>1
        <3> QED
            BY <3>1, <3>2, <3>3
    <2> QED
        BY <1>1, <1>9, <2>1, <2>2 DEF Billed, Books
<1>11. AllAccounted'
    <2> SUFFICES ASSUME NEW i \in 1 .. Len(served')
                 PROVE  \/ \E j \in Places' : HasRecord(j)' /\ Placed(j)'.no = i
                        \/ i \in dropped' \/ \E s \in rows : Accounts(s, i)'
        BY <1>1 DEF AllAccounted
    <2>1. CASE i \in 1 .. Len(served)
        <3>1. \A s \in rows : Accounts(s, i) => Accounts(s, i)'
            BY <1>3, <2>1 DEF Accounts
        <3> QED
            BY <1>4, <1>5, <2>1, <3>1 DEF Billed, AllAccounted
    <2>2. CASE i \notin 1 .. Len(served)
        <3>1. t.what = "usage" /\ i = t.no
            BY <1>2, <1>3, <2>2
        <3>2. CASE work' = work
            BY <1>2, <1>4, <3>1, <3>2
        <3>3. CASE work' # work
            <4>1. PICK n \in Nat : n = Len(work) + 1
                BY <1>2
            <4>2. n \in Places' /\ Placed(n)' = t
                BY <1>2, <1>4, <3>3, <4>1 DEF Places, Placed
            <4> QED
                BY <1>2, <3>1, <4>2 DEF HasRecord
        <3> QED
            BY <3>2, <3>3
    <2> QED
        BY <2>1, <2>2
<1> QED
    BY <1>1, <1>10, <1>11 DEF Billed, MonthsAddUp, RowsDiffer

\* The record that is run is written, found written, or lost.
LEMMA BilledRuns ==
    ASSUME Typed, Billed, Run \/ RunFails
    PROVE  Billed'
<1> DEFINE t == running
<1>1. /\ UNCHANGED <<deployment, work, served>> /\ Months' = Months
      /\ t \in Task(Months) /\ t # None /\ running' = None
    BY DEF Run, RunFails, world, Months, Typed
<1>2. Len(work) \in Nat /\ 0 \in Places /\ Places' = Places /\ Placed(0) = t
    BY <1>1, LengthsAreNumbers DEF Places, Placed
<1>3. /\ ~HasRecord(0)'
      /\ \A i \in Places \ {0} : Placed(i)' = Placed(i) /\ HasRecord(i)' = HasRecord(i)
    BY <1>1 DEF Placed, HasRecord
<1>4. CASE t.what # "usage" \/ RunFails
    <2>1. /\ UNCHANGED <<rows, meter>> /\ dropped \subseteq dropped'
          /\ t.what = "usage" => t.no \in dropped'
        BY <1>4 DEF Run, RunFails, Loses, losses, account
    <2>2. Books'
        BY <1>1, <1>2, <1>3, <2>1 DEF Billed, Books, Entered
    <2>3. AllAccounted'
        BY <1>1, <1>2, <1>3, <2>1 DEF Billed, AllAccounted, Accounts, HasRecord
    <2> QED
        BY <1>1, <2>1, <2>2, <2>3 DEF Billed, MonthsAddUp, RowsDiffer
<1>5. CASE Run /\ t.what = "usage" /\ ~IsNew(t)
    <2>1. UNCHANGED <<rows, meter, dropped>>
        BY <1>5 DEF Run, Record, account, losses
    <2>2. HasRecord(0) /\ Entered(t)
        BY <1>1, <1>2, <1>5 DEF Billed, Books, HasRecord
    <2>3. PICK r \in rows : r.id = t.id /\ t.id # None
        BY <1>5 DEF IsNew
    <2>4. Accounts(r, t.no)
        BY <2>2, <2>3 DEF Entered, Accounts
    <2>5. Books'
        BY <1>1, <1>2, <1>3, <2>1 DEF Billed, Books, Entered
    <2>6. AllAccounted'
        BY <1>1, <1>2, <1>3, <2>1, <2>4 DEF Billed, AllAccounted, Accounts
    <2> QED
        BY <1>1, <2>1, <2>5, <2>6 DEF Billed, MonthsAddUp, RowsDiffer
<1>6. CASE Run /\ t.what = "usage" /\ IsNew(t)
    <2> DEFINE x == RowOf(t)
    <2>1. /\ rows' = rows \union {x} /\ meter' = [meter EXCEPT ![t.month] = @ + 1]
          /\ dropped' = dropped
        BY <1>6 DEF Run, Record, Count
    <2>2. /\ Entered(t) /\ \A r \in rows : r.no # t.no
          /\ \A j \in Places \ {0} : HasRecord(j) => Placed(j).no # t.no
        <3>1. HasRecord(0)
            BY <1>1, <1>2, <1>6 DEF HasRecord
        <3> QED
            BY <1>2, <3>1 DEF Billed, Books
    <2>3. x.no = t.no /\ x.id = t.id /\ x.month = t.month /\ t.month \in Months
        BY <1>1, <1>6 DEF RowOf, Task
    <2> HIDE DEF x
    <2>4. x \notin rows
        BY <2>2, <2>3
    <2>5. Books'
        <3>1. IsFiniteSet(rows')
            BY <2>1, FS_AddElement DEF Billed, Books
        <3>2. \A r \in rows' : r.no \in 1 .. Len(served)
            BY <2>1, <2>2, <2>3 DEF Billed, Books, Entered
        <3> QED
            BY <1>1, <1>2, <1>3, <2>1, <2>2, <2>3, <3>1, <3>2 DEF Billed, Books, Entered
    <2>6. MonthsAddUp'
        <3> SUFFICES ASSUME NEW m \in Months
                     PROVE  meter'[m] = Cardinality({r \in rows' : r.month = m})
            BY <1>1 DEF MonthsAddUp
        <3> DEFINE of == {r \in rows : r.month = m}
        <3>1. IsFiniteSet(of) /\ meter[m] = Cardinality(of)
            BY FS_Subset DEF Billed, Books, MonthsAddUp
        <3>2. meter'[m] = IF m = t.month THEN meter[m] + 1 ELSE meter[m]
            BY <2>1, <2>3 DEF Typed
        <3>3. CASE m = t.month
            <4>1. {r \in rows' : r.month = m} = of \union {x} /\ x \notin of
                BY <2>1, <2>3, <2>4, <3>3
            <4> HIDE DEF of
            <4>2. Cardinality(of \union {x}) = Cardinality(of) + 1
                BY <3>1, <4>1, FS_AddElement
            <4> QED
                BY <3>1, <3>2, <3>3, <4>1, <4>2
        <3>4. CASE m # t.month
            <4>1. {r \in rows' : r.month = m} = of
                BY <2>1, <2>3, <3>4
            <4> QED
                BY <3>1, <3>2, <3>4, <4>1
        <3> QED
            BY <3>3, <3>4
    <2>7. RowsDiffer'
        <3>1. \A r \in rows : r.no # x.no /\ (x.id = None \/ r.id # x.id)
            BY <1>6, <2>2, <2>3 DEF IsNew
        <3> QED
            BY <2>1, <3>1 DEF Billed, RowsDiffer
    <2>8. AllAccounted'
        <3> SUFFICES ASSUME NEW i \in 1 .. Len(served)
                     PROVE  \/ \E j \in Places : HasRecord(j)' /\ Placed(j)'.no = i
                            \/ i \in dropped \/ \E r \in rows' : Accounts(r, i)
            BY <1>1, <1>2, <2>1 DEF AllAccounted, Accounts
        <3>1. CASE i = t.no
            BY <2>1, <2>3, <3>1 DEF Accounts
        <3>2. CASE i # t.no
            BY <1>2, <1>3, <2>1, <3>2 DEF Billed, AllAccounted
        <3> QED
            BY <3>1, <3>2
    <2> QED
        BY <2>5, <2>6, <2>7, <2>8 DEF Billed
<1> QED
    BY <1>4, <1>5, <1>6

LEMMA BilledStep == Typed /\ Billed /\ [Next]_vars => Billed'
<1> SUFFICES ASSUME Typed, Billed, [Next]_vars PROVE Billed'
    OBVIOUS
<1>1. ASSUME NEW c \in Conns, Serve(c) PROVE Billed'
    <2>1. PICK r \in Request(Months) \union {None} : Effect(c, r)
        BY <1>1, ServeSteps DEF Steps
    <2>2. CASE Silent(c, r) \/ Forgets(c, r) \/ Admits(c, r)
        BY <2>1, <2>2, BilledSame DEF Effect, Silent, Forgets, Admits, losses, world, account
    <2>3. ASSUME NEW t \in Task(Months), PutsOff(c, r, t) PROVE Billed'
        BY <2>1, <2>3, BilledPutsOff DEF Effect
    <2> QED
        BY <2>1, <2>2, <2>3 DEF Effect
<1>2. CASE WorkerStops \/ Aside
    BY <1>2, BilledSame
    DEF WorkerStops, Aside, Close, Revoke, NextMonth, Expire, vars, world, service, account, history
<1> QED
    BY <1>1, <1>2, BilledTake, BilledRuns DEF Next, Worker, Aside

\* However often a caller uses a request id again, and whatever is run late, dropped or
\* fails: a month is billed for its rows of usage_records, no metered request has two, and
\* one that has none waits, was dropped, or had an id that was recorded before
\* (usage_repo.go: Record; server.go: runAfterResponse).
THEOREM BilledForItsRows == Spec => []BilledOnce
<1> QED
    BY TypedInit, TypedStep, BilledInit, BilledStep, BilledIsBilledOnce, PTL DEF Spec

-----------------------------------------------------------------------------
(***************************************************************************)
(* The quota.  What a month has admitted and its meter does not show yet   *)
(* is under way: carried by a connection, queued, or being run.            *)
(***************************************************************************)

Bit(b) == IF b THEN 1 ELSE 0
Carrying(m) == {c \in Conns : conn[c] # None /\ conn[c].under = m}
Queued(s, m) == {i \in 1 .. Len(s) : UnderOf(s[i]) = m}
InHand(m) == Bit(running # None /\ UnderOf(running) = m)
UnderWay(m) == Cardinality(Carrying(m)) + Cardinality(Queued(work, m)) + InHand(m)

Accounted == \A m \in Months : net[m] <= meter[m] + UnderWay(m)
Exceeded == \A m \in Months : net[m] <= Quota + (Cardinality(Conns) - 1) + Buffer + 1
QuotaKept == Accounted /\ Exceeded

LEMMA LessIsOne ==
    ASSUME Typed, NEW u \in Months \union {None}, NEW m \in Months
    PROVE  Less(u)[m] = net[m] - Bit(u = m) /\ net[m] \in Int
<1>1. net \in [Months -> Int] /\ m # None
    BY NetTypes, MonthsAreNumbers DEF Typed
<1> HIDE DEF net
<1> QED
    BY <1>1 DEF Less, Bit

\* A task that is lost takes the admission it carries out of the account.
LEMMA LosesOne ==
    ASSUME Typed, NEW t \in Task(Months), Loses(t), UNCHANGED <<deployment, drawn, repeats>>,
           NEW m \in Months
    PROVE  net'[m] = net[m] - Bit(UnderOf(t) = m)
<1>1. CASE t.what = "usage"
    <2>1. t.under \in Months \union {None} /\ UnderOf(t) = t.under
        BY <1>1 DEF Task, UnderOf
    <2>2. lost' = More(lost, t.under)
        BY <1>1 DEF Loses
    <2>3. net' = Less(t.under)
        BY <2>1, <2>2, NetIsLess
    <2> QED
        BY <2>1, <2>3, LessIsOne
<1>2. CASE t.what # "usage"
    <2>1. net' = net /\ UnderOf(t) = None
        BY <1>2 DEF Loses, losses, net, Months, UnderOf
    <2>2. m # None /\ net[m] \in Int
        BY MonthsAreNumbers, NetTypes DEF Typed
    <2> QED
        BY <2>1, <2>2 DEF Bit
<1> QED
    BY <1>1, <1>2

LEMMA CarryingIsFinite ==
    ASSUME NEW m
    PROVE  IsFiniteSet(Carrying(m)) /\ Cardinality(Carrying(m)) \in Nat
BY GatewayAssumption, FS_Subset, FS_CardinalityType DEF Carrying

LEMMA QueuedIsFinite ==
    ASSUME NEW S, NEW s \in Seq(S), NEW m
    PROVE  /\ IsFiniteSet(Queued(s, m)) /\ Cardinality(Queued(s, m)) \in Nat
           /\ Cardinality(Queued(s, m)) <= Len(s)
<1>1. Len(s) \in Nat
    OBVIOUS
<1>2. IsFiniteSet(1 .. Len(s)) /\ Cardinality(1 .. Len(s)) = Len(s)
    <2> DEFINE n == Len(s)
    <2>1. 1 \in Int /\ n \in Int
        BY <1>1
    <2> HIDE DEF n
    <2>2. IsFiniteSet(1 .. n) /\ Cardinality(1 .. n) = IF 1 > n THEN 0 ELSE n - 1 + 1
        BY <2>1, FS_Interval, Zenon
    <2>3. n \in Nat
        BY <1>1 DEF n
    <2>4. (IF 1 > n THEN 0 ELSE n - 1 + 1) = n
        BY ONLY <2>3
    <2> QED
        BY <2>2, <2>4 DEF n
<1>3. Queued(s, m) \in SUBSET (1 .. Len(s))
    BY DEF Queued
<1> QED
    BY <1>1, <1>2, <1>3, FS_Subset, FS_CardinalityType

\* One connection more or less carries an admission of the month.
LEMMA CarryingChanges ==
    ASSUME Typed, NEW c \in Conns, NEW r \in Request(Months) \union {None},
           conn' = [conn EXCEPT ![c] = r], NEW m \in Months
    PROVE  Cardinality(Carrying(m)') =
               Cardinality(Carrying(m)) - Bit(CarriedBy(conn[c]) = m) + Bit(CarriedBy(r) = m)
<1> DEFINE rest == Carrying(m) \ {c}
<1>1. conn'[c] = r /\ \A d \in Conns \ {c} : conn'[d] = conn[d]
    BY OneConn DEF Typed
<1>2. m # None
    BY MonthsAreNumbers DEF Typed
<1>3. c \in Carrying(m) <=> CarriedBy(conn[c]) = m
    BY <1>2 DEF Carrying, CarriedBy
<1>4. IsFiniteSet(rest) /\ Cardinality(rest) = Cardinality(Carrying(m)) - Bit(c \in Carrying(m))
    <2> DEFINE all == Carrying(m)
    <2>1. IsFiniteSet(all) /\ Cardinality(all) \in Nat
        BY CarryingIsFinite
    <2> HIDE DEF all
    <2>2. /\ IsFiniteSet(all \ {c})
          /\ Cardinality(all \ {c}) =
                 IF c \in all THEN Cardinality(all) - 1 ELSE Cardinality(all)
        BY <2>1, FS_RemoveElement, Zenon
    <2>3. Cardinality(all \ {c}) = Cardinality(all) - Bit(c \in all)
        BY ONLY <2>1, <2>2 DEF Bit
    <2> QED
        BY <2>2, <2>3 DEF all
<1>5. c \notin rest
    OBVIOUS
<1>6. Carrying(m)' = IF CarriedBy(r) = m THEN rest \union {c} ELSE rest
    <2>1. \A d \in Conns \ {c} : d \in Carrying(m)' <=> d \in Carrying(m)
        BY <1>1 DEF Carrying
    <2>2. c \in Carrying(m)' <=> CarriedBy(r) = m
        BY <1>1, <1>2 DEF Carrying, CarriedBy
    <2>3. Carrying(m) \subseteq Conns /\ Carrying(m)' \subseteq Conns
        BY DEF Carrying
    <2> QED
        BY <2>1, <2>2, <2>3
<1>7. Cardinality(rest) \in Nat /\ Cardinality(Carrying(m)) \in Nat
    BY <1>4, CarryingIsFinite, FS_CardinalityType
<1> HIDE DEF rest
<1>8. Cardinality(Carrying(m)') = Cardinality(rest) + Bit(CarriedBy(r) = m)
    <2>1. CASE CarriedBy(r) = m
        BY <1>4, <1>5, <1>6, <2>1, FS_AddElement DEF Bit
    <2>2. CASE CarriedBy(r) # m
        BY <1>6, <1>7, <2>2 DEF Bit
    <2> QED
        BY <2>1, <2>2
<1> QED
    BY <1>3, <1>4, <1>7, <1>8 DEF Bit

LEMMA QueuedAppend ==
    ASSUME NEW S, NEW s \in Seq(S), NEW t \in S, NEW m
    PROVE  Cardinality(Queued(Append(s, t), m)) = Cardinality(Queued(s, m)) + Bit(UnderOf(t) = m)
<1> DEFINE n == Len(s)
<1>1. /\ n \in Nat /\ Len(Append(s, t)) = n + 1 /\ Append(s, t)[n + 1] = t
      /\ \A i \in 1 .. n : Append(s, t)[i] = s[i]
    BY QueueTypes
<1>2. IsFiniteSet(Queued(s, m)) /\ Cardinality(Queued(s, m)) \in Nat
    BY QueuedIsFinite
<1>3. n + 1 \notin Queued(s, m)
    BY <1>1 DEF Queued
<1>4. CASE UnderOf(t) = m
    <2>1. Queued(Append(s, t), m) = Queued(s, m) \union {n + 1}
        BY <1>1, <1>4 DEF Queued
    <2> QED
        BY <1>2, <1>3, <1>4, <2>1, FS_AddElement DEF Bit
<1>5. CASE UnderOf(t) # m
    <2>1. Queued(Append(s, t), m) = Queued(s, m)
        BY <1>1, <1>5 DEF Queued
    <2> QED
        BY <1>2, <1>5, <2>1 DEF Bit
<1> QED
    BY <1>4, <1>5

\* What is behind the head moves up by one.
LEMMA QueuedTail ==
    ASSUME NEW S, NEW s \in Seq(S), s # <<>>, NEW m
    PROVE  Cardinality(Queued(s, m)) = Cardinality(Queued(Tail(s), m)) + Bit(UnderOf(Head(s)) = m)
<1> DEFINE n == Len(s)
<1> DEFINE behind == Queued(s, m) \ {1}
<1>1. /\ n \in Nat /\ n > 0 /\ Len(Tail(s)) = n - 1 /\ Head(s) = s[1] /\ Tail(s) \in Seq(S)
      /\ \A i \in 1 .. n - 1 : Tail(s)[i] = s[i + 1]
    BY QueueTypes
<1>2. IsFiniteSet(Queued(s, m)) /\ IsFiniteSet(Queued(Tail(s), m))
    BY <1>1, QueuedIsFinite
<1>3. ExistsBijection(Queued(Tail(s), m), behind)
    <2> DEFINE f == [i \in Queued(Tail(s), m) |-> i + 1]
    <2>1. \A i \in Queued(Tail(s), m) : i \in 1 .. n - 1 /\ i + 1 \in behind
        BY <1>1 DEF Queued
    <2>2. \A j \in behind : j - 1 \in Queued(Tail(s), m) /\ (j - 1) + 1 = j
        <3> SUFFICES ASSUME NEW j \in behind
                     PROVE  j - 1 \in Queued(Tail(s), m) /\ (j - 1) + 1 = j
            OBVIOUS
        <3>1. j \in 2 .. n /\ UnderOf(s[j]) = m
            BY <1>1 DEF Queued
        <3>2. j - 1 \in 1 .. n - 1 /\ (j - 1) + 1 = j
            BY <1>1, <3>1
        <3>3. Tail(s)[j - 1] = s[j]
            BY <1>1, <3>2
        <3> QED
            BY <1>1, <3>1, <3>2, <3>3 DEF Queued
    <2>3. f \in [Queued(Tail(s), m) -> behind]
        BY <2>1
    <2>4. \A i, j \in Queued(Tail(s), m) : f[i] = f[j] => i = j
        BY <1>1, <2>1
    <2>5. \A j \in behind : \E i \in Queued(Tail(s), m) : f[i] = j
        BY <2>2
    <2> QED
        BY <2>3, <2>4, <2>5
        DEF ExistsBijection, Bijection, Injection, Surjection, IsInjective
<1>4. Cardinality(behind) = Cardinality(Queued(Tail(s), m))
    BY <1>2, <1>3, FS_Bijection
<1>5. Cardinality(Queued(s, m)) \in Nat /\ Cardinality(Queued(Tail(s), m)) \in Nat
    BY <1>2, FS_CardinalityType
<1>6. Cardinality(behind) = Cardinality(Queued(s, m)) - Bit(1 \in Queued(s, m))
    <2>1. Cardinality(behind) = IF 1 \in Queued(s, m) THEN Cardinality(Queued(s, m)) - 1
                                ELSE Cardinality(Queued(s, m))
        BY <1>2, FS_RemoveElement, Zenon
    <2> HIDE DEF behind
    <2> QED
        BY <1>5, <2>1 DEF Bit
<1>7. 1 \in Queued(s, m) <=> UnderOf(Head(s)) = m
    BY <1>1 DEF Queued
<1> HIDE DEF behind
<1> QED
    BY <1>4, <1>5, <1>6, <1>7 DEF Bit

\* A task that is put off is queued, or its admission is lost.
LEMMA DeferChanges ==
    ASSUME Typed, NEW t \in Task(Months), Defer(t), UNCHANGED <<deployment, drawn, repeats>>,
           NEW m \in Months
    PROVE  /\ net'[m] - Cardinality(Queued(work', m))
                  = net[m] - Cardinality(Queued(work, m)) - Bit(UnderOf(t) = m)
           /\ net'[m] <= net[m] /\ net'[m] \in Int
<1>1. Cardinality(Queued(work, m)) \in Nat /\ net[m] \in Int
    BY QueuedIsFinite, NetTypes DEF Typed
<1>2. CASE work' = Append(work, t) /\ UNCHANGED losses
    <2>1. Cardinality(Queued(work', m)) = Cardinality(Queued(work, m)) + Bit(UnderOf(t) = m)
        BY <1>2, QueuedAppend DEF Typed
    <2>2. net' = net
        BY <1>2 DEF net, losses, Months
    <2> QED
        BY <1>1, <2>1, <2>2 DEF Bit
<1>3. CASE work' = work /\ Loses(t)
    <2>1. net'[m] = net[m] - Bit(UnderOf(t) = m)
        BY <1>3, LosesOne
    <2> QED
        BY <1>1, <1>3, <2>1 DEF Bit
<1> QED
    BY <1>2, <1>3 DEF Defer

\* What is under way when a request is admitted: less than the connections, a full queue
\* and the task that is run.
LEMMA UnderWayIsBounded ==
    ASSUME Typed, NEW m \in Months
    PROVE  /\ UnderWay(m) \in Nat
           /\ \A c \in Conns : c \notin Carrying(m) =>
                  UnderWay(m) <= (Cardinality(Conns) - 1) + Buffer + 1
<1>1. /\ Cardinality(Carrying(m)) \in Nat /\ Cardinality(Queued(work, m)) \in Nat
      /\ Cardinality(Queued(work, m)) <= Len(work) /\ Len(work) \in Nat
    BY CarryingIsFinite, QueuedIsFinite DEF Typed
<1>2. Len(work) <= Buffer /\ Buffer \in Nat
    BY BufferIsFinite DEF Typed
<1>3. InHand(m) \in {0, 1}
    BY DEF InHand, Bit
<1>4. ASSUME NEW c \in Conns, c \notin Carrying(m)
      PROVE  Cardinality(Carrying(m)) <= Cardinality(Conns) - 1
    <2>1. /\ IsFiniteSet(Conns) /\ Cardinality(Conns) \in Nat
          /\ IsFiniteSet(Conns \ {c}) /\ Cardinality(Conns \ {c}) = Cardinality(Conns) - 1
        BY GatewayAssumption, FS_RemoveElement, FS_CardinalityType
    <2>2. Carrying(m) \in SUBSET (Conns \ {c})
        BY <1>4 DEF Carrying
    <2> QED
        BY <2>1, <2>2, FS_Subset
<1>5. Cardinality(Conns) \in Nat
    BY GatewayAssumption, FS_CardinalityType
<1> QED
    BY <1>1, <1>2, <1>3, <1>4, <1>5 DEF UnderWay

LEMMA QuotaKeptInit == Init => QuotaKept
<1> SUFFICES ASSUME Init PROVE QuotaKept
    OBVIOUS
<1>1. Typed
    BY TypedInit
<1> SUFFICES ASSUME NEW m \in Months
             PROVE  /\ net[m] <= meter[m] + UnderWay(m)
                    /\ net[m] <= Quota + (Cardinality(Conns) - 1) + Buffer + 1
    BY DEF QuotaKept, Accounted, Exceeded
<1>2. net[m] = 0 /\ meter[m] = 0
    BY DEF Init, net
<1>3. UnderWay(m) \in Nat
    BY <1>1, UnderWayIsBounded
<1>4. Cardinality(Conns) \in Nat
    BY GatewayAssumption, FS_CardinalityType
<1> QED
    BY <1>1, <1>2, <1>3, <1>4, BufferIsFinite DEF Typed

\* A stage of the chain.  Only an admission draws on the quota, and it finds the meter below
\* the quota, so that what is drawn beyond it is under way.
LEMMA QuotaKeptServe ==
    ASSUME Typed, QuotaKept, NEW c \in Conns, Serve(c)
    PROVE  QuotaKept'
<1>1. PICK r \in Request(Months) \union {None} : Effect(c, r)
    BY ServeSteps DEF Steps
<1>2. Months' = Months /\ Quota' = Quota /\ UNCHANGED <<deployment, running, meter>>
    BY <1>1 DEF Effect, world, account, Months, Quota
<1> SUFFICES ASSUME NEW m \in Months
             PROVE  /\ net'[m] <= meter[m] + UnderWay(m)'
                    /\ net'[m] <= Quota + (Cardinality(Conns) - 1) + Buffer + 1
    BY <1>2 DEF QuotaKept, Accounted, Exceeded
<1>3. /\ net[m] <= meter[m] + UnderWay(m)
      /\ net[m] <= Quota + (Cardinality(Conns) - 1) + Buffer + 1
      /\ net[m] \in Int /\ meter[m] \in Nat
    BY NetTypes DEF QuotaKept, Accounted, Exceeded, Typed
<1>4. Cardinality(Carrying(m)') =
          Cardinality(Carrying(m)) - Bit(CarriedBy(conn[c]) = m) + Bit(CarriedBy(r) = m)
    <2>1. conn' = [conn EXCEPT ![c] = r]
        BY <1>1 DEF Effect
    <2> QED
        BY <2>1, CarryingChanges
<1>5. InHand(m)' = InHand(m) /\ InHand(m) \in Nat
    BY <1>2 DEF InHand, Bit
<1>6. /\ Cardinality(Carrying(m)) \in Nat /\ Cardinality(Queued(work, m)) \in Nat
      /\ Cardinality(Conns) \in Nat /\ Buffer \in Nat /\ Quota \in Nat
    BY CarryingIsFinite, QueuedIsFinite, GatewayAssumption, FS_CardinalityType, BufferIsFinite
    DEF Typed
<1>7. m # None
    BY MonthsAreNumbers DEF Typed
<1>8. CASE Silent(c, r)
    <2>1. net' = net /\ work' = work /\ Cardinality(Carrying(m)') = Cardinality(Carrying(m))
        BY <1>2, <1>4, <1>6, <1>8 DEF Silent, Bit, net, losses
    <2> QED
        BY <1>3, <1>5, <2>1 DEF UnderWay
<1>9. CASE Forgets(c, r)
    <2>1. CarriedBy(conn[c]) \in Months \union {None}
        BY Carries DEF CarriedBy
    <2>2. net' = Less(CarriedBy(conn[c]))
        BY <1>2, <1>9, <2>1, NetIsLess DEF Forgets
    <2>3. /\ net'[m] = net[m] - Bit(CarriedBy(conn[c]) = m) /\ work' = work
          /\ CarriedBy(r) # m
        BY <1>7, <1>9, <2>1, <2>2, LessIsOne DEF Forgets
    <2> QED
        BY <1>3, <1>4, <1>5, <1>6, <2>3 DEF UnderWay, Bit
<1>10. CASE Admits(c, r)
    <2>1. work' = work /\ CarriedBy(conn[c]) # m
        BY <1>7, <1>10 DEF Admits
    <2>2. net'[m] = net[m] + Bit(m = month)
        BY <1>2, <1>10 DEF Admits, net, losses, Bit, Typed
    <2>3. CASE m = month
        <3>1. net'[m] = net[m] + 1 /\ meter[m] < Quota
            BY <1>10, <2>2, <2>3 DEF Admits, Bit
        <3>2. Cardinality(Carrying(m)') = Cardinality(Carrying(m)) + 1
            BY <1>4, <1>6, <1>10, <2>1, <2>3 DEF Admits, Bit
        <3>3. c \notin Carrying(m)
            BY <2>1 DEF Carrying, CarriedBy
        <3>4. UnderWay(m) <= (Cardinality(Conns) - 1) + Buffer + 1 /\ UnderWay(m) \in Nat
            BY <3>3, UnderWayIsBounded
        <3>5. UnderWay(m)' = UnderWay(m) + 1
            BY <1>5, <1>6, <2>1, <3>2 DEF UnderWay
        <3> QED
            BY <1>3, <1>6, <3>1, <3>4, <3>5
    <2>4. CASE m # month
        <3>1. net'[m] = net[m] /\ CarriedBy(r) # m
            BY <1>3, <1>10, <2>2, <2>4 DEF Admits, Bit
        <3> QED
            BY <1>3, <1>4, <1>5, <1>6, <2>1, <3>1 DEF UnderWay, Bit
    <2> QED
        BY <2>3, <2>4
<1>11. ASSUME NEW t \in Task(Months), PutsOff(c, r, t)
       PROVE  /\ net'[m] <= meter[m] + UnderWay(m)'
              /\ net'[m] <= Quota + (Cardinality(Conns) - 1) + Buffer + 1
    <2>1. /\ net'[m] - Cardinality(Queued(work', m))
                 = net[m] - Cardinality(Queued(work, m)) - Bit(CarriedBy(conn[c]) = m)
          /\ net'[m] <= net[m] /\ net'[m] \in Int
        BY <1>2, <1>11, DeferChanges DEF PutsOff
    <2>2. Cardinality(Queued(work', m)) \in Nat
        BY <1>11, DeferTypes, QueuedIsFinite DEF PutsOff
    <2>3. CarriedBy(r) # m
        BY <1>7, <1>11 DEF PutsOff
    <2>4. UnderWay(m)' = Cardinality(Carrying(m)') + Cardinality(Queued(work', m)) + InHand(m)
        BY <1>5 DEF UnderWay
    <2> QED
        BY <1>3, <1>4, <1>5, <1>6, <2>1, <2>2, <2>3, <2>4 DEF UnderWay, Bit
<1> QED
    BY <1>1, <1>8, <1>9, <1>10, <1>11 DEF Effect

\* The task is taken, counted, or lost: in each case its admission stays accounted for.
LEMMA QuotaKeptWorker ==
    ASSUME Typed, QuotaKept, Worker
    PROVE  QuotaKept'
<1>1. Months' = Months /\ Quota' = Quota /\ UNCHANGED <<deployment, conn, drawn>>
    BY DEF Worker, Take, Run, RunFails, WorkerStops, world, history, Months, Quota
<1> SUFFICES ASSUME NEW m \in Months
             PROVE  /\ net'[m] <= meter'[m] + UnderWay(m)'
                    /\ net'[m] <= Quota + (Cardinality(Conns) - 1) + Buffer + 1
    BY <1>1 DEF QuotaKept, Accounted, Exceeded
<1>2. /\ net[m] <= meter[m] + UnderWay(m)
      /\ net[m] <= Quota + (Cardinality(Conns) - 1) + Buffer + 1
      /\ net[m] \in Int /\ meter[m] \in Nat
    BY NetTypes DEF QuotaKept, Accounted, Exceeded, Typed
<1>3. /\ Cardinality(Carrying(m)) \in Nat /\ Cardinality(Queued(work, m)) \in Nat
      /\ Cardinality(Conns) \in Nat /\ Buffer \in Nat /\ Quota \in Nat
    BY CarryingIsFinite, QueuedIsFinite, GatewayAssumption, FS_CardinalityType, BufferIsFinite
    DEF Typed
<1>4. Carrying(m)' = Carrying(m)
    BY <1>1 DEF Carrying
<1>5. CASE Take
    <2>1. Cardinality(Queued(work, m))
              = Cardinality(Queued(Tail(work), m)) + Bit(UnderOf(Head(work)) = m)
        BY <1>5, QueuedTail DEF Take, Typed
    <2>2. Head(work) \in Task(Months) /\ Tail(work) \in Seq(Task(Months))
        BY <1>5, QueueTypes DEF Take, Typed
    <2>3. Head(work) # None
        BY <2>2, MonthsAreNumbers DEF Typed
    <2>4. InHand(m) = 0 /\ InHand(m)' = Bit(UnderOf(Head(work)) = m)
        BY <1>5, <2>3 DEF Take, InHand, Bit
    <2>5. Cardinality(Queued(Tail(work), m)) \in Nat
        BY <2>2, QueuedIsFinite
    <2>6. UnderWay(m)' = UnderWay(m)
        BY <1>3, <1>4, <1>5, <2>1, <2>4, <2>5 DEF UnderWay, Take, Bit
    <2>7. net' = net
        BY <1>1, <1>5 DEF Take, history, net
    <2> QED
        BY <1>2, <1>5, <2>6, <2>7 DEF Take, account
<1>6. CASE Run \/ RunFails
    <2> DEFINE u == UnderOf(running)
    <2>1. running \in Task(Months) /\ u \in Months \union {None} /\ work' = work
        BY <1>6 DEF Run, RunFails, Typed, Task, UnderOf
    <2>2. InHand(m) = Bit(u = m) /\ InHand(m)' = 0
        BY <1>6 DEF Run, RunFails, InHand, Bit
    <2>3. UnderWay(m)' = UnderWay(m) - Bit(u = m)
        BY <1>3, <1>4, <2>1, <2>2 DEF UnderWay, Bit
    <2>4. /\ net'[m] - meter'[m] <= net[m] - meter[m] - Bit(u = m)
          /\ net'[m] <= net[m] /\ net'[m] \in Int /\ meter'[m] \in Nat
        <3>1. ASSUME net'[m] = net[m] - Bit(u = m), meter' = meter
              PROVE  /\ net'[m] - meter'[m] <= net[m] - meter[m] - Bit(u = m)
                     /\ net'[m] <= net[m] /\ net'[m] \in Int /\ meter'[m] \in Nat
            BY <1>2, <3>1 DEF Bit
        <3>2. CASE RunFails
            <4>1. Loses(running) /\ UNCHANGED <<meter, repeats>>
                BY <3>2 DEF RunFails, account
            <4>2. net'[m] = net[m] - Bit(u = m)
                BY <1>1, <2>1, <4>1, LosesOne
            <4> QED
                BY <3>1, <4>1, <4>2
        <3>3. CASE Run /\ running.what # "usage"
            <4>1. u = None /\ UNCHANGED <<meter, losses, repeats>>
                BY <3>3 DEF Run, UnderOf, account
            <4>2. net' = net /\ u # m
                BY <1>1, <4>1, MonthsAreNumbers DEF net, losses, Typed
            <4>3. net'[m] = net[m] - Bit(u = m)
                BY <1>2, <4>2 DEF Bit
            <4> QED
                BY <3>1, <4>1, <4>3
        <3>4. CASE Run /\ running.what = "usage" /\ ~IsNew(running)
            <4>1. /\ repeats' = More(repeats, u) /\ lost' = lost /\ meter' = meter
                BY <3>4 DEF Run, Record, UnderOf, account, losses
            <4>2. net' = Less(u)
                BY <1>1, <2>1, <4>1, NetIsLess
            <4>3. net'[m] = net[m] - Bit(u = m)
                BY <2>1, <4>2, LessIsOne
            <4> QED
                BY <3>1, <4>1, <4>3
        <3>5. CASE Run /\ running.what = "usage" /\ IsNew(running)
            <4>1. /\ running.month \in Months /\ u = running.under
                  /\ Count(running)
                BY <2>1, <3>5 DEF Task, UnderOf, Run, Record
            <4>2. meter'[m] = meter[m] + Bit(m = running.month)
                BY <1>2, <4>1 DEF Count, Bit, Typed
            <4>3. CASE u = running.month
                <5>1. net' = net
                    BY <1>1, <4>1, <4>3 DEF Count, net
                <5> QED
                    BY <1>2, <4>2, <4>3, <5>1 DEF Bit
            <4>4. CASE u # running.month
                <5>1. lost' = More(lost, u) /\ repeats' = repeats
                    BY <4>1, <4>4 DEF Count
                <5>2. net' = Less(u)
                    BY <1>1, <2>1, <5>1, NetIsLess
                <5>3. net'[m] = net[m] - Bit(u = m)
                    BY <2>1, <5>2, LessIsOne
                <5> QED
                    BY <1>2, <4>2, <5>3 DEF Bit
            <4> QED
                BY <4>3, <4>4
        <3> QED
            BY <1>6, <3>2, <3>3, <3>4, <3>5
    <2>5. UnderWay(m) \in Nat
        BY UnderWayIsBounded
    <2> QED
        BY <1>2, <1>3, <2>3, <2>4, <2>5 DEF Bit
<1>7. CASE WorkerStops
    <2>1. net' = net
        BY <1>1, <1>7 DEF WorkerStops, history, net
    <2> QED
        BY <1>2, <1>4, <1>7, <2>1 DEF WorkerStops, UnderWay, InHand, account
<1> QED
    BY <1>5, <1>6, <1>7 DEF Worker

LEMMA QuotaKeptStep == Typed /\ QuotaKept /\ [Next]_vars => QuotaKept'
<1> SUFFICES ASSUME Typed, QuotaKept, [Next]_vars PROVE QuotaKept'
    OBVIOUS
<1>1. CASE Aside
    <2>1. UNCHANGED <<deployment, conn, work, running, meter, drawn, lost, repeats>>
        BY <1>1
        DEF Aside, Close, Revoke, NextMonth, Expire, vars, world, service, account, history
    <2>2. net' = net /\ Months' = Months /\ Quota' = Quota
        BY <2>1 DEF net, Months, Quota
    <2> QED
        BY <2>1, <2>2
        DEF QuotaKept, Accounted, Exceeded, UnderWay, Carrying, Queued, InHand
<1> QED
    BY <1>1, QuotaKeptServe, QuotaKeptWorker DEF Next, Aside

\* However many connections, and however late, out of order or not at all the meter is
\* written: a month admits no more than the quota, the other connections, the queue, the
\* task that is run, the requests whose record it has lost, and those whose id had been
\* recorded before, which is how far a caller that repeats its ids gets beyond the quota
\* (middleware.go: Quota, Usage; server.go: runAfterResponse; usage_repo.go: Record).
THEOREM QuotaIsKept == Spec => []QuotaHolds
<1>1. Typed /\ QuotaKept => QuotaHolds
    <2> SUFFICES ASSUME Typed, QuotaKept, NEW m \in Months
                 PROVE  drawn[m] <= Quota + (Cardinality(Conns) - 1) + Buffer + 1
                                       + lost[m] + repeats[m]
        BY DEF QuotaHolds
    <2>1. drawn[m] \in Nat /\ lost[m] \in Nat /\ repeats[m] \in Nat
        BY DEF Typed
    <2>2. net[m] = drawn[m] - lost[m] - repeats[m]
        BY DEF net
    <2>3. Cardinality(Conns) \in Nat /\ Buffer \in Nat /\ Quota \in Nat
        BY GatewayAssumption, FS_CardinalityType, BufferIsFinite DEF Typed
    <2>4. net[m] <= Quota + (Cardinality(Conns) - 1) + Buffer + 1
        BY DEF QuotaKept, Exceeded
    <2> HIDE DEF net
    <2> QED
        BY <2>1, <2>2, <2>3, <2>4
<1> QED
    BY TypedInit, TypedStep, QuotaKeptInit, QuotaKeptStep, <1>1, PTL DEF Spec
-----------------------------------------------------------------------------
(***************************************************************************)
(* What a shared cache gives: by no-store it stores only what anybody may  *)
(* have, and by Vary it keeps the answers of two callers apart.            *)
(***************************************************************************)

\* What is stored is the answer its caller got; a cache that honours no-store has nothing
\* of a key's.
StoredAsAnswered ==
    \A e \in stored : /\ e[2] = BodyFor(e[1])
                      /\ edge # None /\ edge.noStore => e[1] = None

\* A request whose key resolves now had a key that resolved when it came, as keys are only
\* revoked; and none gets past APIKey without one.
Earned(r) ==
    r # None => /\ r.who \in active => r.entitled
                /\ r.at # "APIKey" /\ r.who # None => r.entitled

\* An answer that the tiers allow.
Fits(a) ==
    a # None /\ edge # None =>
        /\ edge.noStore /\ a.body = "archive" => a.entitled
        /\ edge.vary /\ a.body = "archive" => a.who # None
        /\ edge.vary /\ a.who # None => a.body # "window"

Tiers == StoredAsAnswered /\ (\A c \in Conns : Earned(conn[c])) /\ Fits(answer)

LEMMA TiersInit == Init => Tiers
BY DEF Init, Tiers, StoredAsAnswered, Earned, Fits

\* One connection's request changes, and what is answered fits.
LEMMA TiersConn ==
    ASSUME Typed, Tiers, NEW c \in Conns, NEW r, conn' = [conn EXCEPT ![c] = r], Earned(r),
           UNCHANGED <<world, stored>>, Fits(answer')
    PROVE  Tiers'
<1>1. UNCHANGED <<deployment, active, stored>> /\ edge' = edge
    BY DEF world, edge
<1>2. \A d \in Conns : conn'[d] = IF d = c THEN r ELSE conn[d]
    BY DEF Typed
<1>3. \A d \in Conns : Earned(conn'[d])
    BY <1>2 DEF Tiers
<1>4. (\A d \in Conns : Earned(conn[d]))' /\ Fits(answer)'
    BY <1>1, <1>3 DEF Earned, Fits
<1>5. StoredAsAnswered'
    BY <1>1 DEF Tiers, StoredAsAnswered, BodyFor
<1> QED
    BY <1>4, <1>5 DEF Tiers

\* A request keeps its caller as it goes from stage to stage.
LEMMA TiersGoes ==
    ASSUME Typed, Tiers, NEW c \in Conns, NEW stage, NEW under, conn[c] # None,
           \/ Goes(c, stage)
           \/ /\ conn' = [conn EXCEPT ![c].at = stage, ![c].under = under]
              /\ answer' = None,
           stage # "APIKey" /\ conn[c].who # None => conn[c].entitled,
           UNCHANGED <<world, stored>>
    PROVE  Tiers'
<1>1. conn[c] \in Request(Months)
    BY Carries
<1>2. Earned(conn[c])
    BY DEF Tiers
<1>3. PICK r \in {[conn[c] EXCEPT !.at = stage],
                  [conn[c] EXCEPT !.at = stage, !.under = under]} :
          conn' = [conn EXCEPT ![c] = r]
    BY DEF Goes, Typed
<1>4. r.who = conn[c].who /\ r.entitled = conn[c].entitled /\ r.at = stage
    BY <1>1, <1>3 DEF Request
<1>5. Earned(r)
    BY <1>2, <1>4 DEF Earned
<1>6. Fits(answer')
    BY DEF Goes, Fits
<1> QED
    BY <1>3, <1>5, <1>6, TiersConn

LEMMA TiersAnswers ==
    ASSUME Typed, Tiers, NEW c \in Conns, NEW body, Answers(c, body),
           edge # None =>
               /\ edge.noStore /\ body = "archive" => conn[c].entitled
               /\ edge.vary /\ body = "archive" => conn[c].who # None
               /\ edge.vary /\ conn[c].who # None => body # "window",
           UNCHANGED <<world, stored>>
    PROVE  Tiers'
<1>1. conn' = [conn EXCEPT ![c] = None] /\ Earned(None)
    BY DEF Answers, Earned
<1>2. Fits(answer')
    BY DEF Answers, Fits
<1> QED
    BY <1>1, <1>2, TiersConn

\* What the cache may reuse for a caller fits that caller.
LEMMA ReusableFits ==
    ASSUME Typed, Tiers, NEW who, NEW e \in Reusable(who), edge # None
    PROVE  /\ edge.noStore => e[2] # "archive"
           /\ edge.vary /\ e[2] = "archive" => who # None
           /\ edge.vary /\ who # None => e[2] # "window"
<1>1. e \in stored /\ (edge.vary => e[1] = who)
    BY DEF Reusable
<1> QED
    BY <1>1 DEF Tiers, StoredAsAnswered, BodyFor

\* What the handler answers fits the caller, and may be stored.
LEMMA HandlerFits ==
    ASSUME Typed, Tiers, NEW c \in Conns, Handle(c)
    PROVE  Tiers'
<1> DEFINE who == conn[c].who
<1>1. conn[c] # None /\ conn[c].at = "handler" /\ UNCHANGED world
    BY DEF Handle, At
<1>2. who # None => conn[c].entitled
    BY <1>1 DEF Tiers, Earned
<1>3. CASE stored' = stored /\ Answers(c, "problem")
    BY <1>1, <1>3, TiersAnswers
<1>4. CASE stored' = Storing(who) /\ Answers(c, BodyFor(who))
    <2>1. edge' = edge /\ active' = active
        BY <1>1 DEF world, edge
    <2>2. StoredAsAnswered'
        BY <1>4, <2>1 DEF Tiers, StoredAsAnswered, Storing, Public, BodyFor
    <2>3. Fits(answer')
        BY <1>2, <1>4 DEF Answers, Fits, BodyFor
    <2>4. \A d \in Conns : Earned(conn'[d])
        BY <1>4 DEF Answers, Earned, Tiers, Typed
    <2> QED
        BY <2>1, <2>2, <2>3, <2>4 DEF Tiers, Earned, Fits
<1> QED
    BY <1>3, <1>4 DEF Handle

LEMMA TiersServe ==
    ASSUME Typed, Tiers, NEW c \in Conns, Serve(c)
    PROVE  Tiers'
<1>1. ASSUME NEW who, NEW id, Arrive(c, who, id) PROVE Tiers'
    <2> DEFINE r == [who |-> who, entitled |-> who \in active, id |-> id,
                     at |-> "APIKey", under |-> None]
    <2>1. conn' = [conn EXCEPT ![c] = r] /\ answer' = None /\ UNCHANGED <<world, stored>>
        BY <1>1 DEF Arrive
    <2>2. Earned(r) /\ Fits(None)
        BY DEF Earned, Fits
    <2> HIDE DEF r
    <2> QED
        BY <2>1, <2>2, TiersConn
<1>2. CASE ServeStored(c)
    <2>1. PICK e \in Reusable(conn[c].who) : Answers(c, e[2])
        BY <1>2 DEF ServeStored
    <2> QED
        BY <1>2, <2>1, ReusableFits, TiersAnswers DEF ServeStored
<1>3. CASE Unauthorized(c) \/ RefuseMetered(c) \/ Panic(c)
    <2>1. Answers(c, "problem") /\ UNCHANGED <<world, stored>>
        BY <1>3 DEF Unauthorized, RefuseMetered, Panic
    <2> QED
        BY <2>1, TiersAnswers
<1>4. CASE Anonymous(c)
    <2>1. /\ conn[c] # None /\ conn[c].who = None /\ UNCHANGED <<world, stored>>
          /\ Goes(c, "handler") \/ Answers(c, "problem")
        BY <1>4 DEF Anonymous, At
    <2> QED
        BY <2>1, TiersGoes, TiersAnswers
<1>5. CASE Authenticate(c)
    <2>1. /\ conn[c] # None /\ conn[c].who \in active /\ UNCHANGED <<world, stored>>
          /\ Goes(c, "Quota") \/ Goes(c, "refused")
        BY <1>5 DEF Authenticate, At, Resolves
    <2>2. conn[c].entitled
        BY <2>1 DEF Tiers, Earned
    <2> QED
        BY <2>1, <2>2, TiersGoes
<1>6. CASE Admit(c) \/ AdmitUnread(c) \/ OverQuota(c)
    <2>1. /\ conn[c] # None /\ conn[c].at = "Quota" /\ UNCHANGED <<world, stored>>
          /\ \/ \E stage \in {"handler", "refused"} : Goes(c, stage)
             \/ /\ conn' = [conn EXCEPT ![c].at = "handler", ![c].under = month]
                /\ answer' = None
        BY <1>6 DEF Admit, AdmitUnread, OverQuota, At
    <2>2. conn[c].who # None => conn[c].entitled
        BY <2>1 DEF Tiers, Earned
    <2> QED
        BY <2>1, <2>2, TiersGoes
<1> QED
    BY <1>1, <1>2, <1>3, <1>4, <1>5, <1>6, HandlerFits DEF Serve

\* Whatever else happens, nothing new is stored and no key comes to resolve.
LEMMA TiersStep == Typed /\ Tiers /\ [Next]_vars => Tiers'
<1> SUFFICES ASSUME Typed, Tiers, [Next]_vars PROVE Tiers'
    OBVIOUS
<1>1. CASE \E c \in Conns : Serve(c)
    BY <1>1, TiersServe
<1>2. CASE ~(\E c \in Conns : Serve(c))
    <2>1. UNCHANGED <<deployment, conn>> /\ stored' \subseteq stored /\ active' \subseteq active
          /\ answer' \in {None, answer}
        BY <1>2 DEF Next, Worker, Take, Run, RunFails, WorkerStops, Close, Revoke, NextMonth,
                    Expire, vars, world
    <2>2. edge' = edge
        BY <2>1 DEF edge
    <2> QED
        BY <2>1, <2>2 DEF Tiers, StoredAsAnswered, Earned, Fits, BodyFor
<1> QED
    BY <1>1, <1>2

\* Whatever requests, revocations and expiries interleave: of two caches, the one that
\* honours no-store gives the archive only to a caller whose key resolved, and the one that
\* honours Vary gives it to no anonymous caller and the anonymous window to no key
\* (cachePolicyFor in middleware.go).  Of a cache that honours no-store alone it does not
\* say the last, which is false.
THEOREM TiersStayApart == Spec => []TiersKeptApart
<1>1. Tiers => TiersKeptApart
    BY DEF Tiers, Fits, TiersKeptApart
<1> QED
    BY TypedInit, TypedStep, TiersInit, TiersStep, <1>1, PTL DEF Spec
=============================================================================
