--------------------------- MODULE JobQueueProofs ---------------------------
(***************************************************************************)
(* Proofs about JobQueue, for any jobs, any number of worker processes and *)
(* slots and any attempt limit: the types, how many hands a job may be in, *)
(* and that the queue implements WorkLedger.                               *)
(***************************************************************************)
EXTENDS JobQueue, FiniteSetTheorems, TLAPS

\* A slot is idle exactly when it names no job.
SlotShape ==
    \A w \in Workers, s \in Slots :
        slot[w][s].job = NoJob <=> slot[w][s].stage = "idle"

\* A worker holds only jobs that were enqueued, and a handler that returned has
\* carried its job out.
HeldIsKnown ==
    /\ \A w \in Workers : \A j \in batch[w] : status[j] # "absent"
    /\ \A w \in Workers, s \in Slots :
        slot[w][s].job \in Jobs => status[slot[w][s].job] # "absent"
    /\ \A w \in Workers, s \in Slots :
        slot[w][s].stage = "returned" => slot[w][s].job \in done

Typed == TypeOK /\ SlotShape

-----------------------------------------------------------------------------
\* The types are inductive together with the shape of a slot: Return adds the slot's
\* job to done, which is a job only because a working slot is not idle.
LEMMA TypedInit == Init => Typed
BY JobsAssumption, AttemptsAssumption
   DEF Init, Typed, TypeOK, SlotShape, Statuses, Stages, Hand, Idle

\* The counters stop at their cap.
LEMMA CountType == \A n \in 0..AttemptCap : Count(n) \in 0..AttemptCap /\ Count(n) <= n + 1
BY AttemptsAssumption DEF Count

\* Every step keeps the types and the shape of a slot.
LEMMA TypedStep == Typed /\ [Next]_vars => Typed'
<1> SUFFICES ASSUME Typed, [Next]_vars PROVE Typed'
    OBVIOUS
<1> USE JobsAssumption DEF Typed, TypeOK, SlotShape, Statuses, Stages, Hand, Idle
<1>1. ASSUME NEW j \in Jobs, Enqueue(j) PROVE Typed'
    BY <1>1 DEF Enqueue, workerVars, historyVars
<1>2. ASSUME NEW j \in Jobs, BackoffElapses(j) PROVE Typed'
    BY <1>2 DEF BackoffElapses, workerVars, historyVars
<1>3. ASSUME NEW j \in Jobs, LeaseLapses(j) PROVE Typed'
    BY <1>3 DEF LeaseLapses, workerVars, historyVars
<1>4. ASSUME NEW w \in Workers, Dequeue(w) PROVE Typed'
    <2>1. PICK picked \in SUBSET {j \in seen[w] : MayTake(j)} :
            /\ status' = [j \in Jobs |-> IF j \in picked THEN "running" ELSE status[j]]
            /\ attempts' = [j \in Jobs |->
                   IF j \in picked THEN Count(attempts[j]) ELSE attempts[j]]
            /\ lapsed' = [j \in Jobs |-> lapsed[j] /\ j \notin picked]
            /\ batch' = [batch EXCEPT ![w] = picked]
            /\ overtaken' = [j \in Jobs |->
                   IF j \in picked /\ status[j] = "running"
                   THEN Count(overtaken[j]) ELSE overtaken[j]]
        BY <1>4 DEF Dequeue
    <2>2. /\ attempts' \in [Jobs -> 0..AttemptCap]
          /\ overtaken' \in [Jobs -> 0..AttemptCap]
        BY <2>1, CountType
    <2>3. lapsed' \in [Jobs -> BOOLEAN]
        BY <2>1
    <2>4. /\ status' \in [Jobs -> Statuses]
          /\ batch' \in [Workers -> SUBSET Jobs]
        BY <2>1
    <2>5. UNCHANGED <<due, slot, done>> /\ seen' = [seen EXCEPT ![w] = {}]
        BY <1>4 DEF Dequeue
    <2> QED
        BY <2>2, <2>3, <2>4, <2>5
<1>4a. ASSUME NEW w \in Workers, BeginDequeue(w) PROVE Typed'
    BY <1>4a DEF BeginDequeue, tableVars, historyVars
<1>5. ASSUME NEW w \in Workers, Crash(w) PROVE Typed'
    BY <1>5 DEF Crash, tableVars, historyVars
<1>6. ASSUME NEW w \in Workers, NEW s \in Slots, Start(w, s) PROVE Typed'
    BY <1>6 DEF Start, tableVars, historyVars
<1>7. ASSUME NEW w \in Workers, NEW s \in Slots, Return(w, s) PROVE Typed'
    <2>1. slot[w][s].job \in Jobs
        BY <1>7 DEF Return
    <2>2. done' \subseteq Jobs
        BY <1>7, <2>1 DEF Return
    <2>3. slot' = [slot EXCEPT ![w][s].stage = "returned"] /\ slot[w][s].stage = "working"
        BY <1>7 DEF Return
    <2>4. slot' \in [Workers -> [Slots -> Hand]]
        BY <2>3, SMTT(60)
    <2>5. SlotShape'
        BY <2>3
    <2> QED
        BY <1>7, <2>2, <2>4, <2>5 DEF Return, tableVars
<1>8. ASSUME NEW w \in Workers, NEW s \in Slots, Err(w, s) PROVE Typed'
    BY <1>8 DEF Err, tableVars, historyVars
<1>9. ASSUME NEW w \in Workers, NEW s \in Slots, Complete(w, s) PROVE Typed'
    BY <1>9 DEF Complete, MarkSucceeded, historyVars
<1>10. ASSUME NEW w \in Workers, NEW s \in Slots, Fail(w, s) PROVE Typed'
    BY <1>10 DEF Fail, MarkFailed, historyVars
<1>11. ASSUME NEW w \in Workers, NEW s \in Slots, ReportLost(w, s) PROVE Typed'
    BY <1>11 DEF ReportLost, tableVars, historyVars
<1>12. CASE UNCHANGED vars
    BY <1>12 DEF vars
<1> QED
    BY <1>1, <1>2, <1>3, <1>4, <1>4a, <1>5, <1>6, <1>7, <1>8, <1>9, <1>10, <1>11, <1>12
       DEF Next, Report

\* Type correctness of the queue and its workers, in every behaviour.
THEOREM TypeCorrect == Spec => []TypeOK
<1>1. Spec => []Typed
    BY TypedInit, TypedStep, PTL DEF Spec
<1>2. Typed => TypeOK
    BY DEF Typed
<1> QED
    BY <1>1, <1>2, PTL

-----------------------------------------------------------------------------
(***************************************************************************)
(* How many hands a job is in.  A lease puts it into one more; a report,   *)
(* lost or not, takes it out of one; and only a lease of a running row     *)
(* lets the number of hands exceed what the row's status accounts for.     *)
(***************************************************************************)
Running(j) == IF status[j] = "running" THEN 1 ELSE 0

\* A row that waits to be leased has attempts left.
AttemptsLeft == \A j \in Jobs : status[j] \in {"absent", "pending"} => attempts[j] < MaxAttempts

\* What is inductive: the bounds, for jobs whose count of leases is exact.
Counting ==
    /\ Typed
    /\ AttemptsLeft
    /\ HoldersAreCounted

\* A job has finitely many places to be in.
LEMMA PlacesAreFinite ==
    \A j : IsFiniteSet(HeldAt(j)) /\ Cardinality(HeldAt(j)) \in Nat
<1>1. IsFiniteSet(Slots \union {NoJob})
    BY WorkersAssumption, FS_AddElement
<1>2. IsFiniteSet(Workers \X (Slots \union {NoJob}))
    BY <1>1, WorkersAssumption, FS_Product
<1> TAKE j
<1>3. HeldAt(j) \subseteq Workers \X (Slots \union {NoJob})
    BY DEF HeldAt
<1> QED
    BY <1>2, <1>3, FS_Subset, FS_CardinalityType

\* The same for the places after a step: no constant is primed.
LEMMA PlacesStayFinite ==
    \A j : IsFiniteSet(HeldAt(j)') /\ Cardinality(HeldAt(j)') \in Nat
<1>1. IsFiniteSet(Slots \union {NoJob})
    BY WorkersAssumption, FS_AddElement
<1>2. IsFiniteSet(Workers \X (Slots \union {NoJob}))
    BY <1>1, WorkersAssumption, FS_Product
<1> TAKE j
<1>3. HeldAt(j)' \subseteq Workers \X (Slots \union {NoJob})
    BY DEF HeldAt
<1> QED
    BY <1>2, <1>3, FS_Subset, FS_CardinalityType

\* A step that takes nothing into any hand.
LEMMA NoMoreHands ==
    ASSUME NEW j, HeldAt(j)' \subseteq HeldAt(j)
    PROVE  Cardinality(HeldAt(j)') <= Cardinality(HeldAt(j))
BY PlacesAreFinite, FS_Subset

\* A step that takes the job out of a hand that had it.
LEMMA OneHandLess ==
    ASSUME NEW j, NEW p \in HeldAt(j), HeldAt(j)' \subseteq HeldAt(j) \ {p}
    PROVE  Cardinality(HeldAt(j)') <= Cardinality(HeldAt(j)) - 1
<1>1. IsFiniteSet(HeldAt(j) \ {p}) /\ Cardinality(HeldAt(j) \ {p}) = Cardinality(HeldAt(j)) - 1
    BY PlacesAreFinite, FS_RemoveElement
<1> QED
    BY <1>1, FS_Subset

\* A step that puts the job into one more hand.
LEMMA OneHandMore ==
    ASSUME NEW j, NEW p, HeldAt(j)' \subseteq HeldAt(j) \union {p}
    PROVE  Cardinality(HeldAt(j)') <= Cardinality(HeldAt(j)) + 1
<1>1. /\ IsFiniteSet(HeldAt(j) \union {p})
      /\ Cardinality(HeldAt(j) \union {p}) <= Cardinality(HeldAt(j)) + 1
    BY PlacesAreFinite, FS_AddElement
<1> QED
    BY <1>1, PlacesAreFinite, PlacesStayFinite, FS_Subset, FS_CardinalityType

\* One element more is one more at most.
LEMMA OneMore ==
    ASSUME NEW S, NEW x, IsFiniteSet(S)
    PROVE  /\ IsFiniteSet(S \union {x}) /\ Cardinality(S \union {x}) \in Nat
           /\ Cardinality(S \union {x}) <= Cardinality(S) + 1
<1>1. /\ IsFiniteSet(S \union {x})
      /\ Cardinality(S \union {x}) = IF x \in S THEN Cardinality(S) ELSE Cardinality(S) + 1
    BY FS_AddElement
<1>2. Cardinality(S) \in Nat
    BY FS_CardinalityType
<1> QED
    BY <1>1, <1>2

\* In the beginning no place has a job.
LEMMA CountingInit == Init => Counting
<1> SUFFICES ASSUME Init PROVE AttemptsLeft /\ HoldersAreCounted
    BY TypedInit DEF Counting
<1>1. AttemptsLeft
    BY AttemptsAssumption DEF Init, AttemptsLeft
<1>2. ASSUME NEW j \in Jobs PROVE HeldAt(j) = {}
    BY JobsAssumption DEF Init, HeldAt, Holds, Waits, Idle
<1>3. ASSUME NEW j \in Jobs PROVE Cardinality(HeldAt(j)) = 0
    BY <1>2, FS_EmptySet
<1> QED
    BY <1>1, <1>3, AttemptsAssumption DEF Init, HoldersAreCounted

\* A job that nothing leases: its hands do not multiply, its counters stand still, and a
\* row stops running only when one of the hands is empty afterwards.
LEMMA NotLeased ==
    ASSUME Counting, Typed', NEW j \in Jobs,
           attempts'[j] = attempts[j], overtaken'[j] = overtaken[j],
           status'[j] = status[j] \/ status[j] # "running",
           Cardinality(HeldAt(j)') <= Cardinality(HeldAt(j))
    PROVE  overtaken'[j] < AttemptCap =>
               /\ Cardinality(HeldAt(j)') <= overtaken'[j] + Running(j)'
               /\ attempts'[j] <= MaxAttempts + overtaken'[j]
BY PlacesAreFinite, PlacesStayFinite, AttemptsAssumption
   DEF Counting, HoldersAreCounted, Running, Typed, TypeOK

\* A report: the row may stop running, and one hand is empty.
LEMMA ReportedCounts ==
    ASSUME Counting, Typed', NEW j \in Jobs,
           attempts'[j] = attempts[j], overtaken'[j] = overtaken[j],
           Cardinality(HeldAt(j)') <= Cardinality(HeldAt(j)) - 1
    PROVE  overtaken'[j] < AttemptCap =>
               /\ Cardinality(HeldAt(j)') <= overtaken'[j] + Running(j)'
               /\ attempts'[j] <= MaxAttempts + overtaken'[j]
BY PlacesAreFinite, PlacesStayFinite, AttemptsAssumption
   DEF Counting, HoldersAreCounted, Running, Typed, TypeOK

\* What a step has to show.
Shown ==
    /\ AttemptsLeft'
    /\ \A j \in Jobs : overtaken'[j] < AttemptCap =>
           /\ Cardinality(HeldAt(j)') <= overtaken'[j] + Running(j)'
           /\ attempts'[j] <= MaxAttempts + overtaken'[j]

\* Steps that change neither the slots nor the batches nor the counters.
LEMMA ElsewhereCounts ==
    ASSUME Counting, Typed', UNCHANGED <<attempts, overtaken, batch, slot>>,
           \A j \in Jobs : \/ status'[j] = status[j]
                           \/ status[j] = "absent" /\ status'[j] = "pending"
    PROVE  Shown
<1>1. ASSUME NEW j \in Jobs PROVE HeldAt(j)' \subseteq HeldAt(j)
    BY DEF HeldAt, Holds, Waits
<1>2. AttemptsLeft'
    BY DEF AttemptsLeft, Counting
<1> QED
    BY <1>1, <1>2, NoMoreHands, NotLeased DEF Shown

\* A statement that leases.
LEMMA DequeueCounts ==
    ASSUME Counting, Typed', NEW w \in Workers, Dequeue(w)
    PROVE  Shown
<1>0. Typed /\ AttemptsLeft /\ HoldersAreCounted
    BY DEF Counting
<1>1. PICK picked \in SUBSET {j \in seen[w] : MayTake(j)} :
        /\ status' = [j \in Jobs |-> IF j \in picked THEN "running" ELSE status[j]]
        /\ attempts' = [j \in Jobs |->
               IF j \in picked THEN Count(attempts[j]) ELSE attempts[j]]
        /\ batch' = [batch EXCEPT ![w] = picked]
        /\ overtaken' = [j \in Jobs |->
               IF j \in picked /\ status[j] = "running"
               THEN Count(overtaken[j]) ELSE overtaken[j]]
    BY DEF Dequeue
<1>2. slot' = slot
    BY DEF Dequeue
<1>3. AttemptsLeft'
    BY <1>0, <1>1 DEF AttemptsLeft
<1>4. ASSUME NEW j \in Jobs, j \notin picked
      PROVE  overtaken'[j] < AttemptCap =>
                 /\ Cardinality(HeldAt(j)') <= overtaken'[j] + Running(j)'
                 /\ attempts'[j] <= MaxAttempts + overtaken'[j]
    <2>1. HeldAt(j)' \subseteq HeldAt(j)
        BY <1>0, <1>1, <1>2, <1>4 DEF HeldAt, Holds, Waits, Typed, TypeOK
    <2> QED
        BY <1>1, <1>4, <2>1, NoMoreHands, NotLeased
<1>5. ASSUME NEW j \in Jobs, j \in picked
      PROVE  overtaken'[j] < AttemptCap =>
                 /\ Cardinality(HeldAt(j)') <= overtaken'[j] + Running(j)'
                 /\ attempts'[j] <= MaxAttempts + overtaken'[j]
    <2>1. HeldAt(j)' \subseteq HeldAt(j) \union {<<w, NoJob>>}
        BY <1>0, <1>1, <1>2 DEF HeldAt, Holds, Waits, Typed, TypeOK
    <2>2. Cardinality(HeldAt(j)') <= Cardinality(HeldAt(j)) + 1
        BY <2>1, OneHandMore
    <2>3. Running(j)' = 1
        BY <1>1, <1>5 DEF Running
    <2>4. attempts'[j] <= attempts[j] + 1
        BY <1>0, <1>1, <1>5, CountType DEF Typed, TypeOK
    <2>4a. /\ attempts[j] \in Nat /\ attempts'[j] \in Nat /\ overtaken[j] \in Nat
           /\ overtaken'[j] \in Nat /\ Cardinality(HeldAt(j)) \in Nat
           /\ Cardinality(HeldAt(j)') \in Nat /\ MaxAttempts \in Nat /\ AttemptCap \in Nat
        BY <1>0, PlacesAreFinite, PlacesStayFinite, AttemptsAssumption DEF Typed, TypeOK
    <2>5. CASE status[j] = "running"
        <3>1. overtaken'[j] < AttemptCap => overtaken'[j] = overtaken[j] + 1
            BY <1>0, <1>1, <1>5, <2>5, AttemptsAssumption DEF Count, Typed, TypeOK
        <3>2. overtaken[j] < AttemptCap =>
                  /\ Cardinality(HeldAt(j)) <= overtaken[j] + 1
                  /\ attempts[j] <= MaxAttempts + overtaken[j]
            BY <1>0, <2>5 DEF HoldersAreCounted
        <3>3. overtaken'[j] < AttemptCap => overtaken[j] < AttemptCap
            BY <2>4a, <3>1, <1>1, <1>5, <2>5 DEF Count
        <3> QED
            BY <2>2, <2>3, <2>4, <2>4a, <3>1, <3>2, <3>3
    <2>6. CASE status[j] # "running"
        <3>1. overtaken'[j] = overtaken[j]
            BY <1>1, <2>6
        <3>2. attempts[j] < MaxAttempts
            BY <1>0, <1>1, <1>5, <2>6 DEF AttemptsLeft, MayTake, Leasable
        <3> QED
            BY <1>0, <2>2, <2>3, <2>4, <2>4a, <2>6, <3>1, <3>2 DEF HoldersAreCounted
    <2> QED
        BY <2>5, <2>6
<1> QED
    BY <1>3, <1>4, <1>5 DEF Shown

\* A worker that goes down drops what it has.
LEMMA CrashCounts ==
    ASSUME Counting, Typed', NEW w \in Workers, Crash(w)
    PROVE  Shown
<1>0. Typed /\ AttemptsLeft
    BY DEF Counting
<1>1. UNCHANGED <<status, attempts, overtaken>>
    BY DEF Crash, tableVars, historyVars
<1>2. ASSUME NEW j \in Jobs PROVE HeldAt(j)' \subseteq HeldAt(j)
    BY <1>0, JobsAssumption DEF Crash, HeldAt, Holds, Waits, Idle, Typed, TypeOK
<1>3. AttemptsLeft'
    BY <1>0, <1>1 DEF AttemptsLeft
<1> QED
    BY <1>1, <1>2, <1>3, NoMoreHands, NotLeased DEF Shown

\* A job goes from the batch of a worker into one of its slots.
LEMMA StartCounts ==
    ASSUME Counting, Typed', NEW w \in Workers, NEW s \in Slots, Start(w, s)
    PROVE  Shown
<1>0. Typed /\ AttemptsLeft
    BY DEF Counting
<1>1. UNCHANGED <<status, attempts, overtaken>>
    BY DEF Start, tableVars, historyVars
<1>2. PICK j \in batch[w] :
        /\ slot' = [slot EXCEPT ![w][s] = [job |-> j, stage |-> "working"]]
        /\ batch' = [batch EXCEPT ![w] = @ \ {j}]
    BY DEF Start
<1>3. ASSUME NEW i \in Jobs, i # j PROVE HeldAt(i)' \subseteq HeldAt(i)
    BY <1>0, <1>2, <1>3 DEF HeldAt, Holds, Waits, Typed, TypeOK, Hand
<1>4. Cardinality(HeldAt(j)') <= Cardinality(HeldAt(j))
    <2>1. j \in Jobs /\ <<w, NoJob>> \in HeldAt(j)
        BY <1>0, <1>2 DEF HeldAt, Waits, Typed, TypeOK
    <2>2. HeldAt(j)' \subseteq (HeldAt(j) \ {<<w, NoJob>>}) \union {<<w, s>>}
        BY <1>0, <1>2, WorkersAssumption DEF HeldAt, Holds, Waits, Typed, TypeOK, Hand
    <2> DEFINE Rest == HeldAt(j) \ {<<w, NoJob>>}
    <2>3. IsFiniteSet(Rest) /\ Cardinality(Rest) = Cardinality(HeldAt(j)) - 1
        BY <2>1, PlacesAreFinite, FS_RemoveElement
    <2> HIDE DEF Rest
    <2>4. /\ IsFiniteSet(Rest \union {<<w, s>>})
          /\ Cardinality(Rest \union {<<w, s>>}) \in Nat
          /\ Cardinality(Rest \union {<<w, s>>}) <= Cardinality(Rest) + 1
        BY <2>3, OneMore
    <2>5. Cardinality(HeldAt(j)') <= Cardinality(Rest \union {<<w, s>>})
        BY <2>2, <2>4, FS_Subset DEF Rest
    <2> QED
        BY <2>3, <2>4, <2>5, PlacesAreFinite, PlacesStayFinite
<1>5. AttemptsLeft'
    BY <1>0, <1>1 DEF AttemptsLeft
<1>6. ASSUME NEW i \in Jobs PROVE Cardinality(HeldAt(i)') <= Cardinality(HeldAt(i))
    BY <1>3, <1>4, NoMoreHands
<1> QED
    BY <1>1, <1>5, <1>6, NotLeased DEF Shown

\* A handler that is done takes its job out of its slot.
LEMMA FreedCounts ==
    ASSUME Counting, Typed', NEW w \in Workers, NEW s \in Slots,
           slot[w][s].stage \in {"returned", "errored"},
           slot' = [slot EXCEPT ![w][s] = Idle],
           UNCHANGED <<batch, attempts, overtaken>>,
           \A i \in Jobs : i # slot[w][s].job => status'[i] = status[i],
           AttemptsLeft'
    PROVE  Shown
<1>0. Typed
    BY DEF Counting
<1>1. PICK j \in Jobs : slot[w][s].job = j
    BY <1>0 DEF Typed, TypeOK, SlotShape, Hand
<1>2. ASSUME NEW i \in Jobs PROVE HeldAt(i)' \subseteq HeldAt(i)
    BY <1>0, JobsAssumption DEF HeldAt, Holds, Waits, Idle, Typed, TypeOK
<1>3. <<w, s>> \in HeldAt(j)
    BY <1>1, WorkersAssumption DEF HeldAt, Holds
<1>4. <<w, s>> \notin HeldAt(j)'
    BY <1>0, <1>1, JobsAssumption, WorkersAssumption
       DEF HeldAt, Holds, Idle, Typed, TypeOK
<1>5. Cardinality(HeldAt(j)') <= Cardinality(HeldAt(j)) - 1
    <2>1. HeldAt(j)' \subseteq HeldAt(j) \ {<<w, s>>}
        BY <1>2, <1>4
    <2> QED
        BY <1>3, <2>1, OneHandLess
<1>6. ASSUME NEW i \in Jobs
      PROVE  overtaken'[i] < AttemptCap =>
                 /\ Cardinality(HeldAt(i)') <= overtaken'[i] + Running(i)'
                 /\ attempts'[i] <= MaxAttempts + overtaken'[i]
    <2>1. CASE i = j
        BY <1>5, <2>1, ReportedCounts
    <2>2. CASE i # j
        BY <1>1, <1>2, <2>2, NoMoreHands, NotLeased
    <2> QED
        BY <2>1, <2>2
<1> QED
    BY <1>6 DEF Shown

\* Every step keeps the count.
LEMMA CountingStep == Counting /\ [Next]_vars => Counting'
<1> SUFFICES ASSUME Counting, [Next]_vars PROVE Counting'
    OBVIOUS
<1>0. Typed /\ AttemptsLeft /\ Typed'
    BY TypedStep DEF Counting
<1> SUFFICES Shown
    BY <1>0 DEF Shown, Counting, HoldersAreCounted, Running
<1>1. ASSUME NEW j \in Jobs, Enqueue(j) PROVE Shown
    <2>1. UNCHANGED <<attempts, overtaken, batch, slot>>
        BY <1>1 DEF Enqueue, workerVars, historyVars
    <2>2. \A i \in Jobs : \/ status'[i] = status[i]
                          \/ status[i] = "absent" /\ status'[i] = "pending"
        BY <1>0, <1>1 DEF Enqueue, Typed, TypeOK
    <2> QED
        BY <1>0, <2>1, <2>2, ElsewhereCounts
<1>2. ASSUME NEW j \in Jobs, BackoffElapses(j) PROVE Shown
    BY <1>0, <1>2, ElsewhereCounts DEF BackoffElapses, workerVars, historyVars
<1>3. ASSUME NEW j \in Jobs, LeaseLapses(j) PROVE Shown
    BY <1>0, <1>3, ElsewhereCounts DEF LeaseLapses, workerVars, historyVars
<1>4. ASSUME NEW w \in Workers, Dequeue(w) PROVE Shown
    BY <1>0, <1>4, DequeueCounts
<1>4a. ASSUME NEW w \in Workers, BeginDequeue(w) PROVE Shown
    BY <1>0, <1>4a, ElsewhereCounts DEF BeginDequeue, tableVars, historyVars
<1>5. ASSUME NEW w \in Workers, Crash(w) PROVE Shown
    BY <1>0, <1>5, CrashCounts
<1>6. ASSUME NEW w \in Workers, NEW s \in Slots, Start(w, s) PROVE Shown
    BY <1>0, <1>6, StartCounts
<1>7. ASSUME NEW w \in Workers, NEW s \in Slots, Return(w, s) \/ Err(w, s) PROVE Shown
    <2>1. UNCHANGED <<status, attempts, overtaken, batch>>
        BY <1>7 DEF Return, Err, tableVars, historyVars
    <2>1a. ASSUME NEW v \in Workers, NEW r \in Slots PROVE slot'[v][r].job = slot[v][r].job
        <3>1. slot \in [Workers -> [Slots -> Hand]]
            BY <1>0 DEF Typed, TypeOK
        <3>2. CASE Return(w, s)
            <4>1. slot' = [slot EXCEPT ![w][s].stage = "returned"]
                BY <3>2 DEF Return
            <4> QED
                BY <3>1, <4>1, SMTT(30) DEF Hand
        <3>3. CASE Err(w, s)
            <4>1. slot' = [slot EXCEPT ![w][s].stage = "errored"]
                BY <3>3 DEF Err
            <4> QED
                BY <3>1, <4>1, SMTT(30) DEF Hand
        <3> QED
            BY <1>7, <3>2, <3>3
    <2>2. ASSUME NEW j \in Jobs PROVE HeldAt(j)' \subseteq HeldAt(j)
        BY <2>1, <2>1a, WorkersAssumption DEF HeldAt, Holds, Waits
    <2>3. AttemptsLeft'
        BY <1>0, <2>1 DEF AttemptsLeft
    <2> QED
        BY <1>0, <2>1, <2>2, <2>3, NoMoreHands, NotLeased DEF Shown
<1>9. ASSUME NEW w \in Workers, NEW s \in Slots, Complete(w, s) PROVE Shown
    <2>1. AttemptsLeft'
        BY <1>0, <1>9 DEF Complete, MarkSucceeded, AttemptsLeft, Typed, TypeOK
    <2> QED
        BY <1>0, <1>9, <2>1, FreedCounts DEF Complete, MarkSucceeded, historyVars, Typed, TypeOK
<1>10. ASSUME NEW w \in Workers, NEW s \in Slots, Fail(w, s) PROVE Shown
    <2>1. AttemptsLeft'
        BY <1>0, <1>10, AttemptsAssumption
           DEF Fail, MarkFailed, AttemptsLeft, Typed, TypeOK
    <2>2. \A i \in Jobs : i # slot[w][s].job => status'[i] = status[i]
        BY <1>0, <1>10 DEF Fail, MarkFailed, Typed, TypeOK
    <2>3. /\ slot[w][s].stage = "errored"
          /\ slot' = [slot EXCEPT ![w][s] = Idle]
          /\ UNCHANGED <<batch, attempts, overtaken>>
        BY <1>10 DEF Fail, MarkFailed, historyVars
    <2> QED
        BY <1>0, <2>1, <2>2, <2>3, FreedCounts
<1>11. ASSUME NEW w \in Workers, NEW s \in Slots, ReportLost(w, s) PROVE Shown
    <2>1. AttemptsLeft'
        BY <1>0, <1>11 DEF ReportLost, tableVars, AttemptsLeft
    <2> QED
        BY <1>0, <1>11, <2>1, FreedCounts DEF ReportLost, tableVars, historyVars
<1>12. CASE UNCHANGED vars
    BY <1>0, <1>12, ElsewhereCounts DEF vars
<1> QED
    BY <1>1, <1>2, <1>3, <1>4, <1>4a, <1>5, <1>6, <1>7, <1>9, <1>10, <1>11, <1>12
       DEF Next, Report

\* A job is in no more hands than its leases over the head of a holder account for, and
\* its attempts exceed max_attempts by no more than those.
THEOREM HoldersCounted == Spec => []HoldersAreCounted
<1>1. Spec => []Counting
    BY CountingInit, CountingStep, PTL DEF Spec
<1>2. Counting => HoldersAreCounted
    BY DEF Counting
<1> QED
    BY <1>1, <1>2, PTL

-----------------------------------------------------------------------------
(***************************************************************************)
(* The queue implements its ledger.                                        *)
(***************************************************************************)
Known == Typed /\ HeldIsKnown

\* In the beginning no slot has a job.
LEMMA KnownInit == Init => Known
<1> SUFFICES ASSUME Init PROVE HeldIsKnown
    BY TypedInit DEF Known
<1> QED
    BY JobsAssumption DEF Init, HeldIsKnown, Idle

\* Every step keeps held jobs submitted, and returned ones carried out.
LEMMA KnownStep == Known /\ [Next]_vars => Known'
<1> SUFFICES ASSUME Known, [Next]_vars PROVE HeldIsKnown'
    BY TypedStep DEF Known
<1>0. Typed /\ HeldIsKnown
    BY DEF Known
<1> USE <1>0, JobsAssumption DEF Typed, TypeOK, Hand, Idle, HeldIsKnown
<1>1. ASSUME NEW j \in Jobs, Enqueue(j) PROVE HeldIsKnown'
    BY <1>1 DEF Enqueue, workerVars, historyVars
<1>2. ASSUME NEW j \in Jobs, BackoffElapses(j) PROVE HeldIsKnown'
    BY <1>2 DEF BackoffElapses, workerVars, historyVars
<1>3. ASSUME NEW j \in Jobs, LeaseLapses(j) PROVE HeldIsKnown'
    BY <1>3 DEF LeaseLapses, workerVars, historyVars
<1>4. ASSUME NEW w \in Workers, Dequeue(w) PROVE HeldIsKnown'
    <2>1. PICK picked \in SUBSET {j \in seen[w] : MayTake(j)} :
            /\ status' = [j \in Jobs |-> IF j \in picked THEN "running" ELSE status[j]]
            /\ batch' = [batch EXCEPT ![w] = picked]
        BY <1>4 DEF Dequeue
    <2>2. UNCHANGED <<slot, done>>
        BY <1>4 DEF Dequeue
    <2> QED
        BY <2>1, <2>2
<1>4a. ASSUME NEW w \in Workers, BeginDequeue(w) PROVE HeldIsKnown'
    BY <1>4a DEF BeginDequeue, tableVars, historyVars
<1>5. ASSUME NEW w \in Workers, Crash(w) PROVE HeldIsKnown'
    BY <1>5 DEF Crash, tableVars, historyVars
<1>6. ASSUME NEW w \in Workers, NEW s \in Slots, Start(w, s) PROVE HeldIsKnown'
    BY <1>6 DEF Start, tableVars, historyVars
<1>7. ASSUME NEW w \in Workers, NEW s \in Slots, Return(w, s) PROVE HeldIsKnown'
    BY <1>7 DEF Return, tableVars
<1>8. ASSUME NEW w \in Workers, NEW s \in Slots, Err(w, s) PROVE HeldIsKnown'
    BY <1>8 DEF Err, tableVars, historyVars
<1>9. ASSUME NEW w \in Workers, NEW s \in Slots, Complete(w, s) PROVE HeldIsKnown'
    BY <1>9 DEF Complete, MarkSucceeded, historyVars
<1>10. ASSUME NEW w \in Workers, NEW s \in Slots, Fail(w, s) PROVE HeldIsKnown'
    BY <1>10 DEF Fail, MarkFailed, historyVars
<1>11. ASSUME NEW w \in Workers, NEW s \in Slots, ReportLost(w, s) PROVE HeldIsKnown'
    BY <1>11 DEF ReportLost, tableVars, historyVars
<1>12. CASE UNCHANGED vars
    BY <1>12 DEF vars
<1> QED
    BY <1>1, <1>2, <1>3, <1>4, <1>4a, <1>5, <1>6, <1>7, <1>8, <1>9, <1>10, <1>11, <1>12
       DEF Next, Report

\* A step that leaves the verdicts and the carried out jobs alone is a stutter.
LEMMA Stutter ==
    ASSUME status' = status, done' = done
    PROVE  UNCHANGED Ledger!ledgerVars
BY DEF Ledger!ledgerVars, Verdict

\* Only the first Enqueue of a key, a handler's return, and a report that finds its
\* job running are visible in the ledger.
LEMMA LedgerStep == Known /\ [Next]_vars => [Ledger!LedgerNext]_(Ledger!ledgerVars)
<1> SUFFICES ASSUME Known, [Next]_vars
             PROVE  Ledger!LedgerNext \/ UNCHANGED Ledger!ledgerVars
    OBVIOUS
<1> DEFINE Goal == Ledger!LedgerNext \/ UNCHANGED Ledger!ledgerVars
<1>0. Typed /\ HeldIsKnown
    BY DEF Known
<1> USE <1>0, JobsAssumption DEF Typed, TypeOK, Hand, Idle
<1>1. ASSUME NEW j \in Jobs, Enqueue(j) PROVE Goal
    <2>1. CASE status[j] = "absent"
        <3>1. Ledger!Submit(j)
            BY <1>1, <2>1 DEF Enqueue, historyVars, Ledger!Submit, Verdict
        <3> QED
            BY <3>1 DEF Ledger!LedgerNext
    <2>2. CASE status[j] # "absent"
        <3>1. status' = status /\ done' = done
            BY <1>1, <2>2 DEF Enqueue, historyVars
        <3> QED
            BY <3>1, Stutter
    <2> QED
        BY <2>1, <2>2
<1>2. ASSUME NEW j \in Jobs, BackoffElapses(j) PROVE Goal
    BY <1>2, Stutter DEF BackoffElapses, historyVars
<1>3. ASSUME NEW j \in Jobs, LeaseLapses(j) PROVE Goal
    BY <1>3, Stutter DEF LeaseLapses, historyVars
<1>4. ASSUME NEW w \in Workers, Dequeue(w) PROVE Goal
    \* A leased job was owed and still is.
    <2>1. PICK picked \in SUBSET {j \in seen[w] : MayTake(j)} :
            status' = [j \in Jobs |-> IF j \in picked THEN "running" ELSE status[j]]
        BY <1>4 DEF Dequeue
    <2>2. Verdict' = Verdict
        BY <2>1 DEF Verdict, MayTake, Leasable
    <2> QED
        BY <1>4, <2>2 DEF Dequeue, Ledger!ledgerVars
<1>4a. ASSUME NEW w \in Workers, BeginDequeue(w) PROVE Goal
    BY <1>4a, Stutter DEF BeginDequeue, tableVars, historyVars
<1>5. ASSUME NEW w \in Workers, Crash(w) PROVE Goal
    BY <1>5, Stutter DEF Crash, tableVars, historyVars
<1>6. ASSUME NEW w \in Workers, NEW s \in Slots, Start(w, s) PROVE Goal
    BY <1>6, Stutter DEF Start, tableVars, historyVars
<1>7. ASSUME NEW w \in Workers, NEW s \in Slots, Return(w, s) PROVE Goal
    <2> DEFINE j == slot[w][s].job
    <2>1. j \in Jobs /\ status[j] # "absent"
        BY <1>7 DEF Return, SlotShape, HeldIsKnown
    <2>2. Ledger!CarryOut(j)
        BY <1>7, <2>1 DEF Return, tableVars, Ledger!CarryOut, Verdict, Statuses
    <2> QED
        BY <2>1, <2>2 DEF Ledger!LedgerNext
<1>8. ASSUME NEW w \in Workers, NEW s \in Slots, Err(w, s) PROVE Goal
    BY <1>8, Stutter DEF Err, tableVars, historyVars
<1>9. ASSUME NEW w \in Workers, NEW s \in Slots, Complete(w, s) PROVE Goal
    <2> DEFINE j == slot[w][s].job
    <2>1. j \in Jobs /\ j \in done
        BY <1>9 DEF Complete, SlotShape, HeldIsKnown
    <2>2. CASE status[j] = "running"
        <3>1. Ledger!RecordSuccess(j)
            BY <1>9, <2>1, <2>2
               DEF Complete, MarkSucceeded, historyVars, Ledger!RecordSuccess, Verdict
        <3> QED
            BY <2>1, <3>1 DEF Ledger!LedgerNext
    <2>3. CASE status[j] # "running"
        <3>1. status' = status /\ done' = done
            BY <1>9, <2>1, <2>3 DEF Complete, MarkSucceeded, historyVars
        <3> QED
            BY <3>1, Stutter
    <2> QED
        BY <2>2, <2>3
<1>10. ASSUME NEW w \in Workers, NEW s \in Slots, Fail(w, s) PROVE Goal
    <2> DEFINE j == slot[w][s].job
    <2>1. j \in Jobs
        BY <1>10 DEF Fail, SlotShape
    <2>2. CASE status[j] = "running" /\ attempts[j] >= MaxAttempts
        <3>1. Ledger!GiveUp(j)
            BY <1>10, <2>1, <2>2
               DEF Fail, MarkFailed, historyVars, Ledger!GiveUp, Verdict
        <3> QED
            BY <2>1, <3>1 DEF Ledger!LedgerNext
    \* Waiting for a retry, the job is still owed.
    <2>3. CASE status[j] # "running" \/ ~(attempts[j] >= MaxAttempts)
        <3>1. Verdict' = Verdict
            BY <1>10, <2>1, <2>3 DEF Fail, MarkFailed, Verdict
        <3> QED
            BY <1>10, <3>1 DEF Fail, historyVars, Ledger!ledgerVars
    <2> QED
        BY <2>2, <2>3
<1>11. ASSUME NEW w \in Workers, NEW s \in Slots, ReportLost(w, s) PROVE Goal
    BY <1>11, Stutter DEF ReportLost, tableVars, historyVars
<1>12. CASE UNCHANGED vars
    BY <1>12, Stutter DEF vars
<1> QED
    BY <1>1, <1>2, <1>3, <1>4, <1>4a, <1>5, <1>6, <1>7, <1>8, <1>9, <1>10, <1>11, <1>12
       DEF Next, Report

\* The queue and its workers implement the ledger: whatever crashes, expired leases and
\* late reports do, no verdict is unearned and none is revised.
THEOREM QueueImplementsLedger == Spec => ImplementsLedger
<1>1. Init => Ledger!LedgerInit
    BY DEF Init, Ledger!LedgerInit, Verdict
<1>2. Spec => []Known
    BY KnownInit, KnownStep, PTL DEF Spec
<1>3. Spec => Ledger!LedgerSpec
    BY <1>1, <1>2, LedgerStep, PTL DEF Spec, Ledger!LedgerSpec
<1> QED
    BY <1>3 DEF ImplementsLedger
=============================================================================
