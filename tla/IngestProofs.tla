---------------------------- MODULE IngestProofs ----------------------------
(***************************************************************************)
(* Proofs about Ingest, for any candidates, sources, rules and handlers,   *)
(* any redelivery and any death.  However handlers and reviewers overlap,  *)
(* nothing is released that was not cleared, a takedown stops what it can, *)
(* no subject is in the review queue twice, what is published stays so,    *)
(* every dispute reaches the queue, and the pipeline implements the        *)
(* catalogue; the last three but for the overlaps the history records.     *)
(***************************************************************************)
EXTENDS Ingest, Integers, FiniteSetTheorems, TLAPS

\* Of the types only what the argument needs: jobs, rows and hands are functions of their
\* index.
Shape ==
    /\ DOMAIN jobs = JobKeys
    /\ rows \in [Cands -> Nat]
    /\ DOMAIN proc = Procs
    /\ \A p \in Procs : proc[p].kind = "publish" => proc[p].cand \in Cands

\* Clearance travels ahead of every release: a publish job exists only for a candidate
\* that passed a validation, and so does a handler that works on one.
Warranted ==
    /\ \A c \in Cands : jobs[<<"publish", c>>] # "unknown" => c \in cleared
    /\ \A p \in Procs : proc[p].kind = "publish" => proc[p].cand \in cleared

Clearance == Shape /\ Warranted /\ ReleasesWereCleared

-----------------------------------------------------------------------------
\* Owing validations leaves the publish jobs alone.
LEMMA OweValidations ==
    ASSUME NEW S, NEW c \in Cands
    PROVE  Owe(jobs, {"validate"} \X S)[<<"publish", c>>] = jobs[<<"publish", c>>]
BY DEF Owe, JobKeys

\* A report makes no job up.
LEMMA ReportKeeps ==
    ASSUME NEW ledger, DOMAIN ledger = JobKeys, NEW k, Reported(ledger, k)
    PROVE  /\ DOMAIN jobs' = JobKeys
           /\ \A q \in JobKeys : jobs'[q] # "unknown" => ledger[q] # "unknown"
<1>1. CASE jobs' = [ledger EXCEPT ![k] = IF @ = "owed" THEN "succeeded" ELSE @]
    <2>1. /\ DOMAIN jobs' = JobKeys
          /\ \A q \in JobKeys \ {k} : jobs'[q] = ledger[q]
          /\ k \in JobKeys => jobs'[k] = IF ledger[k] = "owed" THEN "succeeded" ELSE ledger[k]
        BY <1>1
    <2> QED
        BY <2>1
<1>2. CASE jobs' = ledger
    BY <1>2
<1> QED
    BY <1>1, <1>2 DEF Reported

\* In the beginning there is no job, no release and nobody at work.
LEMMA ClearanceInit == Init => Clearance
BY DEF Init, Clearance, Shape, Warranted, ReleasesWereCleared, Resting, JobKeys

\* One handler changes its hands; the others keep theirs.
LEMMA OthersKeep ==
    ASSUME Shape, NEW p \in Procs, NEW h, proc' = [proc EXCEPT ![p] = h]
    PROVE  /\ DOMAIN proc' = Procs
           /\ proc'[p] = h
           /\ \A q \in Procs \ {p} : proc'[q] = proc[q]
BY DEF Shape

\* A handler that puts down what it had keeps the invariant if nothing is released and
\* no publish job appears.
LEMMA HandsEmptied ==
    ASSUME Clearance, NEW p \in Procs, proc' = [proc EXCEPT ![p] = Resting],
           rows' = rows, cleared' = cleared, accepted' = accepted,
           DOMAIN jobs' = JobKeys,
           \A c \in Cands : jobs'[<<"publish", c>>] # "unknown" =>
                                jobs[<<"publish", c>>] # "unknown"
    PROVE  Clearance'
<1>1. /\ DOMAIN proc' = Procs
      /\ proc'[p] = Resting
      /\ \A q \in Procs \ {p} : proc'[q] = proc[q]
    BY OthersKeep DEF Clearance
<1>2. \A q \in Procs : proc'[q].kind = "publish" => q # p /\ proc'[q] = proc[q]
    BY <1>1 DEF Resting
<1> QED
    BY <1>1, <1>2 DEF Clearance, Shape, Warranted, ReleasesWereCleared

\* A handler that takes up something keeps the invariant if, for a publication, its
\* candidate was cleared.
LEMMA HandsFilled ==
    ASSUME Clearance, NEW p \in Procs, NEW h, proc' = [proc EXCEPT ![p] = h],
           h.kind = "publish" => h.cand \in Cands \intersect cleared,
           UNCHANGED <<rows, jobs, cleared, accepted>>
    PROVE  Clearance'
<1>1. /\ DOMAIN proc' = Procs
      /\ proc'[p] = h
      /\ \A q \in Procs \ {p} : proc'[q] = proc[q]
    BY OthersKeep DEF Clearance
<1> QED
    BY <1>1 DEF Clearance, Shape, Warranted, ReleasesWereCleared

\* What is released becomes one row more of a candidate; all other rows stay.
LEMMA OneRowMore ==
    ASSUME Shape, NEW c \in Cands, NEW read, InsertRelease(c, read)
    PROVE  /\ rows' \in [Cands -> Nat]
           /\ \A d \in Cands \ {c} : rows'[d] = rows[d]
BY DEF Shape, InsertRelease

\* Every step keeps the clearance ahead of the releases.
LEMMA ClearanceStep == Clearance /\ [Next]_vars => Clearance'
<1> SUFFICES ASSUME Clearance, [Next]_vars PROVE Clearance'
    OBVIOUS
<1>1. ASSUME NEW s \in Sources, Extract(s) PROVE Clearance'
    <2>1. PICK S : jobs' = Owe(jobs, {"validate"} \X S)
        BY <1>1 DEF Extract
    <2>2. /\ DOMAIN jobs' = JobKeys
          /\ \A c \in Cands : jobs'[<<"publish", c>>] = jobs[<<"publish", c>>]
        BY <2>1, OweValidations DEF Owe
    <2>3. UNCHANGED <<rows, proc, cleared, accepted>>
        BY <1>1 DEF Extract, historyVars
    <2> QED
        BY <2>2, <2>3 DEF Clearance, Shape, Warranted, ReleasesWereCleared
<1>2. ASSUME NEW s \in Fickle, StandingChanges(s) PROVE Clearance'
    BY <1>2 DEF StandingChanges, catalogueVars, historyVars,
                Clearance, Shape, Warranted, ReleasesWereCleared
<1>3. ASSUME NEW p \in Procs, NEW c \in Cands, BeginValidate(p, c) PROVE Clearance'
    <2>1. /\ proc' = [proc EXCEPT ![p] = ReadForValidation(c)]
          /\ UNCHANGED <<rows, jobs, cleared, accepted>>
        BY <1>3 DEF BeginValidate, catalogueVars, historyVars
    <2>2. ReadForValidation(c).kind # "publish"
        BY DEF ReadForValidation
    <2> QED
        BY <2>1, <2>2, HandsFilled
<1>4. ASSUME NEW p \in Procs, NEW c \in Cands, BeginPublish(p, c) PROVE Clearance'
    <2> DEFINE h == [kind |-> "publish", cand |-> c, latest |-> latest]
    <2>1. /\ proc' = [proc EXCEPT ![p] = h]
          /\ UNCHANGED <<rows, jobs, cleared, accepted>>
        BY <1>4 DEF BeginPublish, catalogueVars, historyVars
    <2>2. c \in cleared
        BY <1>4 DEF BeginPublish, Takes, Clearance, Warranted
    <2>3. h.cand \in Cands \intersect cleared
        BY <2>2
    <2> HIDE DEF h
    <2> QED
        BY <2>1, <2>3, HandsFilled
<1>5. ASSUME NEW p \in Procs, NEW c \in Cands, PublishNothing(p, c) PROVE Clearance'
    <2>1. jobs[<<"publish", c>>] = "owed"
        BY <1>5 DEF PublishNothing, Takes
    <2>2. /\ DOMAIN jobs' = JobKeys
          /\ \A d \in Cands : jobs'[<<"publish", d>>] # "unknown" =>
                                   jobs[<<"publish", d>>] # "unknown"
        BY <1>5, <2>1 DEF PublishNothing, Clearance, Shape
    <2>3. UNCHANGED <<rows, proc, cleared, accepted>>
        BY <1>5 DEF PublishNothing, catalogueVars, historyVars
    <2> QED
        BY <2>2, <2>3 DEF Clearance, Shape, Warranted, ReleasesWereCleared
<1>6. ASSUME NEW p \in Procs, Validate(p) PROVE Clearance'
    <2> DEFINE r == proc[p]
               key == <<"validate", r.cand>>
               ledger == Owe(jobs, FollowUp(r))
    <2>1. /\ proc' = [proc EXCEPT ![p] = Resting]
          /\ cleared' = cleared \union {d \in {r.cand} : Verdict(r) = "passed"}
          /\ Reported(ledger, key)
          /\ UNCHANGED <<rows, accepted>>
        BY <1>6 DEF Validate
    <2>2. /\ DOMAIN jobs' = JobKeys
          /\ \A c \in Cands : jobs'[<<"publish", c>>] # "unknown" =>
                                   ledger[<<"publish", c>>] # "unknown"
        <3>1. DOMAIN ledger = JobKeys
            BY DEF Owe
        <3>2. \A c \in Cands : <<"publish", c>> \in JobKeys
            BY DEF JobKeys
        <3> HIDE DEF ledger, key
        <3> QED
            BY <2>1, <3>1, <3>2, ReportKeeps
    <2>3. \A c \in Cands : ledger[<<"publish", c>>] # "unknown" => c \in cleared'
        <3> TAKE c \in Cands
        <3>1. CASE jobs[<<"publish", c>>] # "unknown"
            BY <2>1, <3>1 DEF Clearance, Warranted
        <3>2. CASE <<"publish", c>> \in FollowUp(r)
            BY <2>1, <3>2 DEF FollowUp
        <3>3. CASE jobs[<<"publish", c>>] = "unknown" /\ <<"publish", c>> \notin FollowUp(r)
            BY <3>3 DEF Owe, JobKeys
        <3> QED
            BY <3>1, <3>2, <3>3
    <2>4. /\ DOMAIN proc' = Procs
          /\ proc'[p] = Resting
          /\ \A q \in Procs \ {p} : proc'[q] = proc[q]
        BY <2>1, OthersKeep DEF Clearance
    <2>5. \A q \in Procs : proc'[q].kind = "publish" => q # p /\ proc'[q] = proc[q]
        BY <2>4 DEF Resting
    <2>6. cleared \subseteq cleared'
        BY <2>1
    <2> HIDE DEF ledger, key, r
    <2> QED
        BY <2>1, <2>2, <2>3, <2>4, <2>5, <2>6
           DEF Clearance, Shape, Warranted, ReleasesWereCleared
<1>7. ASSUME NEW p \in Procs, Publish(p) PROVE Clearance'
    <2> DEFINE c == proc[p].cand
    <2>1. /\ proc[p].kind = "publish"
          /\ InsertRelease(c, proc[p].latest)
          /\ Reported(jobs, <<"publish", c>>)
          /\ proc' = [proc EXCEPT ![p] = Resting]
          /\ UNCHANGED <<cleared, accepted>>
        BY <1>7 DEF Publish, historyVars
    <2>2. c \in Cands /\ c \in cleared
        BY <2>1 DEF Clearance, Shape, Warranted
    <2>3. /\ DOMAIN jobs' = JobKeys
          /\ \A d \in Cands : jobs'[<<"publish", d>>] # "unknown" =>
                                   jobs[<<"publish", d>>] # "unknown"
        <3>1. \A d \in Cands : <<"publish", d>> \in JobKeys
            BY DEF JobKeys
        <3> HIDE DEF c
        <3> QED
            BY <2>1, <3>1, ReportKeeps DEF Clearance, Shape
    <2>4. /\ DOMAIN proc' = Procs
          /\ proc'[p] = Resting
          /\ \A q \in Procs \ {p} : proc'[q] = proc[q]
        BY <2>1, OthersKeep DEF Clearance
    <2>5. \A q \in Procs : proc'[q].kind = "publish" => q # p /\ proc'[q] = proc[q]
        BY <2>4 DEF Resting
    <2>6. /\ rows' \in [Cands -> Nat]
          /\ \A d \in Cands \ {c} : rows'[d] = rows[d]
        BY <2>1, <2>2, OneRowMore DEF Clearance
    <2> HIDE DEF c
    <2> QED
        BY <2>1, <2>2, <2>3, <2>4, <2>5, <2>6
           DEF Clearance, Shape, Warranted, ReleasesWereCleared
<1>8. ASSUME NEW p \in Procs, Crash(p) PROVE Clearance'
    <2>1. /\ proc' = [proc EXCEPT ![p] = Resting]
          /\ UNCHANGED <<rows, jobs, cleared, accepted>>
        BY <1>8 DEF Crash, catalogueVars, historyVars
    <2>2. DOMAIN jobs' = JobKeys
        BY <2>1 DEF Clearance, Shape
    <2> QED
        BY <2>1, <2>2, HandsEmptied
<1>9. ASSUME NEW i \in ItemIds, BeginDecision(i) PROVE Clearance'
    BY <1>9 DEF BeginDecision, catalogueVars, historyVars,
                Clearance, Shape, Warranted, ReleasesWereCleared
<1>10. ASSUME Accept PROVE Clearance'
    <2>1. /\ UNCHANGED <<jobs, proc, cleared>>
          /\ accepted' = accepted \union ({desk.subject} \intersect Cands)
        BY <1>10 DEF Accept
    <2>2. CASE desk.subject \in Cands /\ cand[desk.subject] # "published"
        <3>1. InsertRelease(desk.subject, latest)
            BY <1>10, <2>2 DEF Accept
        <3>2. /\ rows' \in [Cands -> Nat]
              /\ \A d \in Cands \ {desk.subject} : rows'[d] = rows[d]
            BY <3>1, <2>2, OneRowMore DEF Clearance
        <3> QED
            BY <2>1, <2>2, <3>2 DEF Clearance, Shape, Warranted, ReleasesWereCleared
    <2>3. CASE ~(desk.subject \in Cands /\ cand[desk.subject] # "published")
        <3>1. rows' = rows
            BY <1>10, <2>3 DEF Accept
        <3> QED
            BY <2>1, <3>1 DEF Clearance, Shape, Warranted, ReleasesWereCleared
    <2> QED
        BY <2>2, <2>3
<1>11. ASSUME Reject \/ Refused PROVE Clearance'
    BY <1>11 DEF Reject, Refused, catalogueVars, historyVars,
                 Clearance, Shape, Warranted, ReleasesWereCleared
<1>12. ASSUME UNCHANGED vars PROVE Clearance'
    BY <1>12 DEF vars, Clearance, Shape, Warranted, ReleasesWereCleared
<1> QED
    BY <1>1, <1>2, <1>3, <1>4, <1>5, <1>6, <1>7, <1>8, <1>9, <1>10, <1>11, <1>12
       DEF Next, Handler, Reviewer

\* Nothing becomes a release that neither passed every gate at some validation nor was
\* accepted by a reviewer (PublishRelease.Execute, DecideReviewItem.decide).
THEOREM ReleasesAreCleared == Spec => []ReleasesWereCleared
<1>1. Spec => []Clearance
    BY ClearanceInit, ClearanceStep, PTL DEF Spec
<1>2. Clearance => ReleasesWereCleared
    BY DEF Clearance
<1> QED
    BY <1>1, <1>2, PTL

-----------------------------------------------------------------------------
\* What stops a release once the terms of its source forbid collection.
OnlyInFlight ==
    \A c \in Cands :
        rows'[c] > rows[c] /\ ~PermitsCollection(SourceOf[c]) =>
            \E p \in Procs : Handles(p, <<"publish", c>>) /\ proc'[p] = Resting

\* A row more is the doing of a publish handler that had been let through, or of an
\* acceptance, which asks for the terms when it commits.
LEMMA TakedownStep == Clearance /\ [Next]_vars => OnlyInFlight \/ UNCHANGED vars
<1> SUFFICES ASSUME Clearance, Next PROVE OnlyInFlight
    BY DEF Clearance
<1>0. \A c \in Cands : rows[c] \in Nat
    BY DEF Clearance, Shape
<1>1. ASSUME rows' = rows PROVE OnlyInFlight
    BY <1>0, <1>1 DEF OnlyInFlight
<1>2. ASSUME NEW p \in Procs, Publish(p) PROVE OnlyInFlight
    <2> DEFINE c == proc[p].cand
    <2>1. /\ proc[p].kind = "publish"
          /\ InsertRelease(c, proc[p].latest)
          /\ proc' = [proc EXCEPT ![p] = Resting]
        BY <1>2 DEF Publish
    <2>2. proc'[p] = Resting
        BY <2>1, OthersKeep DEF Clearance
    <2>3. Handles(p, <<"publish", c>>)
        BY <2>1 DEF Handles
    <2>4. \A d \in Cands \ {c} : rows'[d] = rows[d]
        <3>1. c \in Cands
            BY <2>1 DEF Clearance, Shape
        <3> QED
            BY <2>1, <3>1, OneRowMore DEF Clearance
    <2> HIDE DEF c
    <2> QED
        BY <1>0, <2>2, <2>3, <2>4 DEF OnlyInFlight
<1>3. ASSUME Accept PROVE OnlyInFlight
    <2>1. CASE desk.subject \in Cands /\ cand[desk.subject] # "published"
        <3>1. InsertRelease(desk.subject, latest)
            BY <1>3, <2>1 DEF Accept
        <3>2. \A d \in Cands \ {desk.subject} : rows'[d] = rows[d]
            BY <3>1, <2>1, OneRowMore DEF Clearance
        <3>3. PermitsCollection(SourceOf[desk.subject])
            BY <1>3, <2>1 DEF Accept, AcceptSucceeds, Publishable
        <3> QED
            BY <1>0, <3>2, <3>3 DEF OnlyInFlight
    <2>2. CASE ~(desk.subject \in Cands /\ cand[desk.subject] # "published")
        BY <1>1, <1>3, <2>2 DEF Accept
    <2> QED
        BY <2>1, <2>2
<1>4. ASSUME NEW p \in Procs, Validate(p) PROVE rows' = rows
    BY <1>4 DEF Validate
<1>5. ASSUME NEW s \in Sources, Extract(s) PROVE rows' = rows
    BY <1>5 DEF Extract
<1>6. ASSUME NEW s \in Fickle, StandingChanges(s) PROVE rows' = rows
    BY <1>6 DEF StandingChanges, catalogueVars
<1>7. ASSUME NEW p \in Procs, NEW c \in Cands,
             BeginValidate(p, c) \/ BeginPublish(p, c) \/ PublishNothing(p, c)
      PROVE  rows' = rows
    BY <1>7 DEF BeginValidate, BeginPublish, PublishNothing, catalogueVars
<1>8. ASSUME NEW i \in ItemIds, BeginDecision(i) PROVE rows' = rows
    BY <1>8 DEF BeginDecision, catalogueVars
<1>9. ASSUME NEW p \in Procs, Crash(p) PROVE rows' = rows
    BY <1>9 DEF Crash, catalogueVars
<1>10. ASSUME Reject \/ Refused PROVE rows' = rows
    BY <1>10 DEF Reject, Refused, catalogueVars
<1> QED
    BY <1>1, <1>2, <1>3, <1>4, <1>5, <1>6, <1>7, <1>8, <1>9, <1>10
       DEF Next, Handler, Reviewer

\* Once the terms of a source forbid collection, a release can still come from a publish
\* handler that looked at them earlier, and from nothing else (publishrelease.go,
\* reviews.go).
THEOREM TakedownIsKept == Spec => TakedownHolds
<1>1. Spec => []Clearance
    BY ClearanceInit, ClearanceStep, PTL DEF Spec
<1>2. Clearance /\ [Next]_vars => [OnlyInFlight]_vars
    BY TakedownStep
<1>3. Spec => [][OnlyInFlight]_vars
    BY <1>1, <1>2, PTL DEF Spec
<1> QED
    BY <1>3 DEF TakedownHolds, OnlyInFlight

-----------------------------------------------------------------------------
(***************************************************************************)
(* The queue of a reviewer.                                                *)
(***************************************************************************)

OneItemEach ==
    \A i, j \in ItemIds :
        OpenItem(i) /\ OpenItem(j) /\ items[i].subject = items[j].subject => i = j
OneOpenConflict ==
    \A k, l \in ConflictIds : conflicts[k] = "open" /\ conflicts[l] = "open" => k = l

\* One open item per subject and one open conflict, and no items but those with an id.
ShortQueue ==
    /\ DOMAIN items = ItemIds /\ DOMAIN conflicts = ConflictIds
    /\ OneItemEach /\ OneOpenConflict

\* What routing a validation to review does: the item it writes is about the wanted
\* subject, which no open item was about, or it stays about what it was about.
Writes(i, subject, r, k, want) ==
    /\ items' = [items EXCEPT ![i] =
           About(subject, k, IF k = 0 THEN {} ELSE r.others \union {r.cand})]
    /\ LinkReviewItem(k, i)
    /\ \/ subject = want /\ OpenItemsAbout(want) \subseteq {i}
       \/ OpenItem(i) /\ subject = items[i].subject
    /\ k = 0 => items[i].state = "unused" \/ i \in OpenItemsAbout(want)
    /\ subject = want \/ StillInDispute(i, want, r)

LEMMA Routed ==
    ASSUME DOMAIN items = ItemIds, OneItemEach, NEW r, NEW k, NEW want,
           RouteToReview(r, k, want)
    PROVE  \E i \in ItemIds : \E subject : Writes(i, subject, r, k, want)
<1> DEFINE route == Routing(r, k, want)
           linked == IF k = 0 THEN {} ELSE {i \in ItemIds : i = link[k] /\ OpenItem(i)}
           about == OpenItemsAbout(want)
           unused == {i \in ItemIds : items[i].state = "unused"}
           existing == IF linked # {} THEN linked ELSE about
           stale == {i \in existing : ~StillInDispute(i, want, r)}
<1>1. PICK i \in route.targets :
          /\ items' = [items EXCEPT ![i] =
                 About(IF route.moves THEN want ELSE items[i].subject, k,
                       IF k = 0 THEN {} ELSE r.others \union {r.cand})]
          /\ LinkReviewItem(k, i)
    BY DEF RouteToReview, Create, Retarget
<1> DEFINE subject == IF route.moves THEN want ELSE items[i].subject
<1>2. /\ route.targets = IF existing = {} THEN {j \in unused : \A l \in unused : j <= l}
                         ELSE IF stale # {} /\ about # {} THEN about
                         ELSE existing
      /\ route.moves = (existing = {} \/ (stale # {} /\ about = {}))
    BY DEF Routing
<1>3. about = {j \in ItemIds : OpenItem(j) /\ items[j].subject = want}
    BY DEF OpenItemsAbout
<1> HIDE DEF route
<1>4. i \in ItemIds
    BY <1>2, <1>3
<1>5. k = 0 => items[i].state = "unused" \/ i \in OpenItemsAbout(want)
    BY <1>2
<1>6. CASE existing = {}
    <2>1. subject = want /\ about = {}
        BY <1>2, <1>6
    <2> QED
        BY <1>1, <1>4, <1>5, <2>1 DEF Writes
<1>7. CASE existing # {} /\ stale # {} /\ about = {}
    <2>1. subject = want
        BY <1>2, <1>7
    <2> QED
        BY <1>1, <1>4, <1>5, <1>7, <2>1 DEF Writes
<1>8. CASE existing # {} /\ stale # {} /\ about # {}
    <2>1. i \in about /\ subject = items[i].subject
        BY <1>2, <1>8
    <2>2. OpenItem(i) /\ subject = want
        BY <1>3, <2>1
    <2> QED
        BY <1>1, <1>4, <1>5, <2>1, <2>2 DEF Writes
<1>9. CASE existing # {} /\ stale = {}
    <2>1. i \in existing /\ subject = items[i].subject
        BY <1>2, <1>9
    <2>2. OpenItem(i)
        BY <1>3, <2>1
    <2>3. StillInDispute(i, want, r)
        BY <1>9, <2>1
    <2> QED
        BY <1>1, <1>4, <1>5, <2>1, <2>2, <2>3 DEF Writes
<1> QED
    BY <1>6, <1>7, <1>8, <1>9

\* The conflict a validation works on is the open one, if there is one.
LEMMA ConflictChosen ==
    ASSUME NEW r, NEW k \in ConflictsFor(r)
    PROVE  \/ k = 0
           \/ /\ k \in ConflictIds /\ Attributed(r) /\ r.eligible
              /\ \A l \in ConflictIds :
                    conflicts[l] = "open" => conflicts[k] = "open"
BY DEF ConflictsFor

LEMMA ShortQueueInit == Init => ShortQueue
BY DEF Init, ShortQueue, OneItemEach, OneOpenConflict, OpenItem, Blank

\* Closing items or conflicts makes none.
LEMMA FewerInQueue ==
    ASSUME ShortQueue, DOMAIN items' = ItemIds, DOMAIN conflicts' = ConflictIds,
           \A i \in ItemIds : OpenItem(i)' => items'[i] = items[i],
           \A k \in ConflictIds : conflicts'[k] = "open" => conflicts[k] = "open"
    PROVE  ShortQueue'
BY DEF ShortQueue, OneItemEach, OneOpenConflict, OpenItem

LEMMA ItemClosed ==
    ASSUME ShortQueue, NEW d, CloseItem(d)
    PROVE  /\ DOMAIN items' = ItemIds /\ DOMAIN conflicts' = ConflictIds
           /\ \A i \in ItemIds : OpenItem(i)' => items'[i] = items[i] /\ i # d.item
           /\ \A k \in ConflictIds :
                 conflicts'[k] = "open" => conflicts[k] = "open" /\ k # d.conflict
BY DEF ShortQueue, CloseItem, OpenItem, Blank

LEMMA ShortQueueStep == ShortQueue /\ [Next]_vars => ShortQueue'
<1> SUFFICES ASSUME ShortQueue, [Next]_vars PROVE ShortQueue'
    OBVIOUS
<1>0. ASSUME UNCHANGED <<items, conflicts>> PROVE ShortQueue'
    BY <1>0 DEF ShortQueue, OneItemEach, OneOpenConflict, OpenItem
<1>1. ASSUME NEW s \in Sources, Extract(s) PROVE ShortQueue'
    BY <1>0, <1>1 DEF Extract, disputeVars
<1>2. ASSUME NEW s \in Fickle, StandingChanges(s) PROVE ShortQueue'
    BY <1>0, <1>2 DEF StandingChanges, disputeVars
<1>3. ASSUME NEW p \in Procs, NEW c \in Cands,
             BeginValidate(p, c) \/ BeginPublish(p, c) \/ PublishNothing(p, c)
      PROVE  ShortQueue'
    BY <1>0, <1>3 DEF BeginValidate, BeginPublish, PublishNothing, disputeVars
<1>4. ASSUME NEW p \in Procs, Validate(p) PROVE ShortQueue'
    <2> DEFINE r == proc[p]
    <2>1. PICK k \in ConflictsFor(r) :
              /\ ReconcileConflict(r, k)
              /\ \/ \E want : RouteToReview(r, k, want)
                 \/ UNCHANGED <<items, link>>
        BY <1>4 DEF Validate
    <2>2. DOMAIN conflicts' = ConflictIds /\ OneOpenConflict'
        <3>1. CASE k = 0
            <4>1. /\ DOMAIN conflicts' = ConflictIds
                  /\ \A l \in ConflictIds : conflicts'[l] = "open" => conflicts[l] = "open"
                BY <2>1, <3>1 DEF ReconcileConflict, CloseOpenConflict, ShortQueue
            <4> QED
                BY <4>1 DEF ShortQueue, OneOpenConflict
        <3>2. CASE k # 0
            <4>1. conflicts' = [conflicts EXCEPT ![k] = "open"]
                BY <2>1, <3>2 DEF ReconcileConflict
            <4>2. /\ k \in ConflictIds
                  /\ \A l \in ConflictIds : conflicts[l] = "open" => conflicts[k] = "open"
                BY <2>1, <3>2, ConflictChosen
            <4> QED
                BY <4>1, <4>2 DEF ShortQueue, OneOpenConflict
        <3> QED
            BY <3>1, <3>2
    <2>3. DOMAIN items' = ItemIds /\ OneItemEach'
        <3>1. CASE UNCHANGED <<items, link>>
            BY <3>1 DEF ShortQueue, OneItemEach, OpenItem
        <3>2. ASSUME NEW want, RouteToReview(r, k, want)
              PROVE  DOMAIN items' = ItemIds /\ OneItemEach'
            <4>1. PICK i \in ItemIds : \E s : Writes(i, s, r, k, want)
                BY <3>2, Routed DEF ShortQueue
            <4>2. PICK subject : Writes(i, subject, r, k, want)
                BY <4>1
            <4>3. /\ DOMAIN items' = ItemIds
                  /\ items'[i].subject = subject
                  /\ \A j \in ItemIds \ {i} : items'[j] = items[j]
                BY <4>2 DEF Writes, ShortQueue, About
            <4>4. \A j \in ItemIds \ {i} : OpenItem(j)' => items'[j].subject # subject
                BY <4>2, <4>3 DEF Writes, ShortQueue, OneItemEach, OpenItem, OpenItemsAbout
            <4> QED
                BY <4>3, <4>4 DEF ShortQueue, OneItemEach, OpenItem
        <3> QED
            BY <2>1, <3>1, <3>2
    <2> QED
        BY <2>2, <2>3 DEF ShortQueue
<1>5. ASSUME NEW p \in Procs, Publish(p) \/ Crash(p) PROVE ShortQueue'
    BY <1>0, <1>5 DEF Publish, Crash, disputeVars
<1>6. ASSUME NEW i \in ItemIds, BeginDecision(i) PROVE ShortQueue'
    BY <1>0, <1>6 DEF BeginDecision, disputeVars
<1>7. ASSUME Accept \/ Reject PROVE ShortQueue'
    <2>1. CloseItem(desk)
        BY <1>7 DEF Accept, Reject
    <2> QED
        BY <2>1, ItemClosed, FewerInQueue
<1>8. ASSUME Refused PROVE ShortQueue'
    BY <1>0, <1>8 DEF Refused, disputeVars
<1>9. ASSUME UNCHANGED vars PROVE ShortQueue'
    BY <1>0, <1>9 DEF vars
<1> QED
    BY <1>1, <1>2, <1>3, <1>4, <1>5, <1>6, <1>7, <1>8, <1>9 DEF Next, Handler, Reviewer

\* A set that has no two elements has at most one.
LEMMA AtMostOne ==
    ASSUME NEW S, \A x, y \in S : x = y
    PROVE  Cardinality(S) <= 1
<1>1. CASE S = {}
    BY <1>1, FS_EmptySet
<1>2. ASSUME NEW x \in S PROVE Cardinality(S) <= 1
    <2>1. S = {x}
        BY <1>2
    <2> QED
        BY <2>1, FS_Singleton
<1> QED
    BY <1>1, <1>2

\* Whatever validations race to file them, there is one open item per subject and one open
\* conflict (ValidateCandidate.routeToReview, ConflictRepo.UpsertOpenConflict).
THEOREM QueueStaysShort == Spec => []QueueHasNoDoubles
<1>1. Spec => []ShortQueue
    BY ShortQueueInit, ShortQueueStep, PTL DEF Spec
<1>2. ShortQueue => QueueHasNoDoubles
    <2> SUFFICES ASSUME ShortQueue PROVE QueueHasNoDoubles
        OBVIOUS
    <2> DEFINE open == {k \in ConflictIds : conflicts[k] = "open"}
    <2>1. \A k, l \in open : k = l
        BY DEF ShortQueue, OneOpenConflict
    <2> HIDE DEF open
    <2>2. Cardinality(open) <= 1
        BY <2>1, AtMostOne
    <2> QED
        BY <2>2 DEF ShortQueue, OneItemEach, QueueHasNoDoubles, open
<1> QED
    BY <1>1, <1>2, PTL
-----------------------------------------------------------------------------
(***************************************************************************)
(* The walk of a validation.                                               *)
(***************************************************************************)

Chain == {"normalized", "validation_pending", "validated", "rejected",
          "human_review_required"}
Ends == {"validated", "rejected", "human_review_required"}

LEMMA EveryState ==
    /\ CandidateStates = {"discovered", "extracted", "normalized", "validation_pending",
                          "validated", "human_review_required", "rejected", "published",
                          "superseded"}
    /\ Chain \subseteq CandidateStates /\ "published" \notin Chain
    /\ CandidateEdges["published"] = {"superseded"}
BY DEF CandidateStates, CandidateEdges, Chain

LEMMA LastOf ==
    ASSUME NEW S, NEW path \in Seq(S), NEW step \in S
    PROVE  /\ Append(path, step) \in Seq(S) /\ Append(path, step) # <<>>
           /\ Last(Append(path, step)) = step
BY DEF Last

\* One more step of a walk leaves it as it was or ends in that step.
LEMMA Extended ==
    ASSUME NEW from, NEW path \in Seq(Chain), NEW step \in Chain
    PROVE  /\ Extend(from, path, step) \in Seq(Chain)
           /\ Extend(from, path, step) \in {path, Append(path, step)}
BY DEF Extend

\* A path ends in a state of the chain, whatever its length.
LEMMA PathEnds ==
    ASSUME NEW path \in Seq(Chain), path # <<>>
    PROVE  Last(path) \in Chain
BY DEF Last

\* Wherever a validation finds the candidate, it leaves it there or leads it to a state it may
\* be in after a validation; a published one stays.
LEMMA WalksNowhereElse ==
    ASSUME NEW from \in CandidateStates, NEW to \in Ends
    PROVE  /\ PathTo(from, to) = <<>> \/ Last(PathTo(from, to)) \in Chain
           /\ PathTo("published", to) = <<>>
<1>1. to \in Chain /\ to \in CandidateStates /\ to # "superseded"
    BY EveryState DEF Ends, Chain
<1>2. PathTo(from, to) \in Seq(Chain)
    <2>1. <<>> \in Seq(Chain) /\ <<to>> \in Seq(Chain)
        BY <1>1
    <2>2. Extend(from, <<>>, "normalized") \in Seq(Chain)
        BY <2>1, Extended DEF Chain
    <2>3. Extend(from, Extend(from, <<>>, "normalized"), "validation_pending") \in Seq(Chain)
        BY <2>2, Extended DEF Chain
    <2>4. Extend(from, Extend(from, Extend(from, <<>>, "normalized"),
                                   "validation_pending"), to) \in Seq(Chain)
        BY <1>1, <2>3, Extended
    <2> QED
        BY <2>1, <2>4 DEF PathTo
<1>3. PathTo("published", to) = <<>>
    <2>1. ~CanTransitionTo("published", to) /\ "published" # to
        BY <1>1, EveryState DEF CanTransitionTo, Ends
    <2>2. \A step \in Chain : Extend("published", <<>>, step) = <<>>
        BY EveryState DEF Extend, CanTransitionTo, Chain
    <2>3. "published" \in CandidateStates
        BY EveryState
    <2> QED
        BY <1>1, <2>1, <2>2, <2>3 DEF Chain, PathTo
<1> QED
    BY <1>2, <1>3, PathEnds

\* A validation leaves its candidate where it is or takes it to a state of the chain; one
\* that read it as published does not touch it.
LEMMA WalkedState ==
    ASSUME NEW r, r.state \in CandidateStates
    PROVE  /\ Walked(r) \in Chain \union {cand[r.cand]}
           /\ r.state = "published" => Walked(r) = cand[r.cand]
<1>1. PICK to \in Ends :
          Walked(r) = LET path == PathTo(r.state, to)
                      IN IF path = <<>> THEN cand[r.cand] ELSE Last(path)
    BY DEF Walked, Verdict, Ends
<1> QED
    BY <1>1, WalksNowhereElse
-----------------------------------------------------------------------------
(***************************************************************************)
(* What a handler has read of a candidate: it may be out of date in many   *)
(* ways, but not about a release nobody raced.                             *)
(***************************************************************************)

\* A candidate that is to be validated has a row.
Stored ==
    /\ cand \in [Cands -> CandidateStates \union {"absent"}]
    /\ \A c \in Cands : jobs[<<"validate", c>>] # "unknown" => cand[c] # "absent"

\* Unless the candidate was published over another handler's reading, a validation that is
\* about a released candidate has read it as published, and a publication is the first.
SoundRead(h) ==
    /\ h.kind = "validate" => /\ h.cand \in Cands /\ h.state \in CandidateStates
                              /\ h.cand \notin raced /\ rows[h.cand] > 0 =>
                                     h.state = "published"
    /\ h.kind = "publish" => /\ h.cand \in Cands
                             /\ h.cand \notin raced => rows[h.cand] = 0
    /\ h.kind \in {"validate", "publish"} => cand[h.cand] # "absent"
SoundReads == \A p \in Procs : SoundRead(proc[p])

Finality == Shape /\ Stored /\ SoundReads /\ PublishedIsFinal

LEMMA RestingReads == SoundRead(Resting)
BY DEF SoundRead, Resting

LEMMA FinalityInit == Init => Finality
<1> SUFFICES ASSUME Init PROVE Finality
    OBVIOUS
<1>1. \A c \in Cands : <<"publish", c>> \in JobKeys /\ <<"validate", c>> \in JobKeys
    BY DEF JobKeys
<1>2. Shape
    BY DEF Init, Shape, Resting
<1>3. Stored /\ SoundReads
    BY <1>1, RestingReads DEF Init, Stored, SoundReads
<1>4. PublishedIsFinal
    BY DEF Init, PublishedIsFinal
<1> QED
    BY <1>2, <1>3, <1>4 DEF Finality

\* A handler takes something up, or puts down what it had.
LEMMA HandsChange ==
    ASSUME Finality, NEW p \in Procs, NEW h, SoundRead(h),
           proc' = [proc EXCEPT ![p] = h], UNCHANGED <<cand, rows, raced, jobs>>
    PROVE  Finality'
<1>1. /\ DOMAIN proc' = Procs
      /\ proc'[p] = h
      /\ \A q \in Procs \ {p} : proc'[q] = proc[q]
    BY OthersKeep DEF Finality
<1>2. \A q \in Procs : SoundRead(proc'[q])
    BY <1>1 DEF Finality, SoundReads
<1>3. SoundReads'
    BY <1>2 DEF SoundReads, SoundRead
<1>4. Shape'
    BY <1>1, <1>2 DEF Finality, Shape, SoundRead
<1> QED
    BY <1>3, <1>4 DEF Finality, Stored, PublishedIsFinal

\* Where no release is inserted, Finality is a matter of the states: none becomes or ceases
\* to be published, absent ones may be stored.
LEMMA StatesChange ==
    ASSUME Finality, DOMAIN proc' = Procs, DOMAIN jobs' = JobKeys, Stored',
           \A q \in Procs : proc'[q] \in {proc[q], Resting}, UNCHANGED <<rows, raced>>,
           \A c \in Cands : cand'[c] = "absent" => cand[c] = "absent",
           \A c \in Cands \ raced : cand'[c] = "published" <=> cand[c] = "published"
    PROVE  Finality'
<1>1. \A q \in Procs : SoundRead(proc'[q])
    BY RestingReads DEF Finality, SoundReads
<1>2. \A q \in Procs : proc'[q].kind \in {"validate", "publish"} => proc'[q].cand \in Cands
    BY <1>1 DEF SoundRead
<1>3. SoundReads'
    BY <1>1, <1>2 DEF SoundReads, SoundRead
<1>4. Shape'
    BY <1>2 DEF Finality, Shape
<1> QED
    BY <1>3, <1>4 DEF Finality, PublishedIsFinal

\* A release is inserted for a candidate that has a row; whoever else has read the candidate
\* is now out of date, and the history says so.
LEMMA ReleaseInserted ==
    ASSUME Finality, NEW c \in Cands, NEW read, InsertRelease(c, read), cand[c] # "absent",
           c \notin raced => rows[c] = 0, raced \subseteq raced',
           DOMAIN proc' = Procs, DOMAIN jobs' = JobKeys,
           \A q \in JobKeys : jobs'[q] # "unknown" => jobs[q] # "unknown",
           \A q \in Procs : \/ proc'[q] = Resting
                            \/ /\ proc'[q] = proc[q]
                               /\ proc[q] # Resting /\ proc[q].cand = c => c \in raced'
    PROVE  Finality' /\ \A d \in Cands : cand'[d] = "absent" <=> cand[d] = "absent"
<1> USE DEF Finality
<1>1. /\ rows' = [rows EXCEPT ![c] = @ + 1]
      /\ cand' = [cand EXCEPT ![c] = "published"]
    BY DEF InsertRelease, UpdateState
<1>2. /\ rows' \in [Cands -> Nat] /\ rows'[c] = rows[c] + 1
      /\ \A d \in Cands \ {c} : rows'[d] = rows[d]
    BY <1>1 DEF Shape
<1>3. /\ cand' \in [Cands -> CandidateStates \union {"absent"}] /\ cand'[c] = "published"
      /\ \A d \in Cands \ {c} : cand'[d] = cand[d]
      /\ \A d \in Cands : cand'[d] = "absent" <=> cand[d] = "absent"
    BY <1>1, EveryState DEF Stored
<1>4. Stored'
    <2>1. \A d \in Cands : <<"validate", d>> \in JobKeys
        BY DEF JobKeys
    <2> QED
        BY <1>3, <2>1 DEF Stored
<1>5. PublishedIsFinal'
    BY <1>2, <1>3 DEF PublishedIsFinal
<1>6. ASSUME NEW q \in Procs
      PROVE  /\ SoundRead(proc[q])'
             /\ proc'[q].kind = "publish" => proc'[q].cand \in Cands
    <2>1. CASE proc'[q] = Resting
        BY <2>1 DEF SoundRead, Resting
    <2>2. CASE proc'[q] = proc[q] /\ proc[q] # Resting /\ proc[q].cand = c
        BY <1>3, <2>2 DEF SoundReads, SoundRead
    <2>3. CASE proc'[q] = proc[q] /\ proc[q].cand # c
        BY <1>2, <1>3, <2>3 DEF SoundReads, SoundRead
    <2> QED
        BY <2>1, <2>2, <2>3
<1>7. Shape' /\ SoundReads'
    BY <1>2, <1>6 DEF Shape, SoundReads
<1> QED
    BY <1>3, <1>4, <1>5, <1>7

\* A report leaves alone what the ledger has not seen.
LEMMA ReportStores ==
    ASSUME NEW ledger, DOMAIN ledger = JobKeys, NEW k, Reported(ledger, k),
           \A c \in Cands : ledger[<<"validate", c>>] # "unknown" => cand'[c] # "absent",
           cand' \in [Cands -> CandidateStates \union {"absent"}]
    PROVE  Stored'
<1>1. \A c \in Cands : <<"validate", c>> \in JobKeys
    BY DEF JobKeys
<1>2. \A q \in JobKeys : jobs'[q] # "unknown" => ledger[q] # "unknown"
    BY ReportKeeps
<1> QED
    BY <1>1, <1>2 DEF Stored

\* A validation and the superseding it entails store no candidate and lose none; a candidate
\* nobody raced is published afterwards if it was.
LEMMA ValidatedRow ==
    ASSUME Finality, NEW p \in Procs, proc[p].kind = "validate", NEW superseded,
           \/ cand' = Release(UpdateState(proc[p].cand, Walked(proc[p])), superseded)
           \/ cand' = UpdateState(proc[p].cand, Walked(proc[p]))
    PROVE  /\ cand' \in [Cands -> CandidateStates \union {"absent"}]
           /\ \A c \in Cands : cand'[c] = "absent" <=> cand[c] = "absent"
           /\ \A c \in Cands \ raced : cand'[c] = "published" <=> cand[c] = "published"
<1> DEFINE r == proc[p]
           walked == UpdateState(r.cand, Walked(r))
<1>1. /\ r.cand \in Cands /\ r.state \in CandidateStates /\ cand[r.cand] # "absent"
      /\ r.cand \notin raced /\ rows[r.cand] > 0 => r.state = "published"
    BY DEF Finality, SoundReads, SoundRead
<1>2. /\ Walked(r) \in Chain \union {cand[r.cand]}
      /\ r.state = "published" => Walked(r) = cand[r.cand]
    BY <1>1, WalkedState
<1>3. "absent" \notin CandidateStates /\ "rejected" \in CandidateStates
      /\ Chain \subseteq CandidateStates /\ "published" \notin Chain
    BY EveryState
<1>4. r.cand \notin raced => (cand[r.cand] = "published" => rows[r.cand] > 0)
    BY <1>1 DEF Finality, PublishedIsFinal
<1>5. /\ walked \in [Cands -> CandidateStates \union {"absent"}]
      /\ \A c \in Cands : walked[c] = "absent" <=> cand[c] = "absent"
      /\ \A c \in Cands \ raced : walked[c] = "published" <=> cand[c] = "published"
    BY <1>1, <1>2, <1>3, <1>4 DEF UpdateState, Finality, Stored
<1> HIDE DEF walked
<1>6. CASE cand' = walked
    BY <1>5, <1>6
<1>7. CASE cand' = Release(walked, superseded)
    BY <1>3, <1>5, <1>7 DEF Release
<1> QED
    BY <1>6, <1>7 DEF walked

LEMMA FinalityStep == Finality /\ [Next]_vars => Finality'
<1> SUFFICES ASSUME Finality, [Next]_vars PROVE Finality'
    OBVIOUS
<1>0. ASSUME UNCHANGED <<cand, rows, raced, jobs, proc>> PROVE Finality'
    BY <1>0 DEF Finality, Shape, Stored, SoundReads, SoundRead, PublishedIsFinal
<1>1. ASSUME NEW s \in Sources, Extract(s) PROVE Finality'
    <2>0. PICK new \in SUBSET {c \in Cands : SourceOf[c] = s /\ cand[c] = "absent"} :
          \E lost \in SUBSET new :
              /\ StoreCandidates(new)
              /\ jobs' = Owe(jobs, {"validate"} \X (new \ lost))
              /\ UNCHANGED <<rows, raced, proc>>
        BY <1>1 DEF Extract, historyVars
    <2>1. PICK lost \in SUBSET new :
              /\ StoreCandidates(new)
              /\ jobs' = Owe(jobs, {"validate"} \X (new \ lost))
              /\ UNCHANGED <<rows, raced, proc>>
        BY <2>0
    <2>2. /\ cand' \in [Cands -> CandidateStates \union {"absent"}]
          /\ \A c \in new : cand[c] = "absent" /\ cand'[c] = "extracted"
          /\ \A c \in Cands \ new : cand'[c] = cand[c]
        BY <2>1, EveryState DEF StoreCandidates, Finality, Stored
    <2>3. DOMAIN jobs' = JobKeys
        BY <2>1 DEF Owe
    <2>4. \A c \in Cands : jobs'[<<"validate", c>>] # "unknown" =>
                               jobs[<<"validate", c>>] # "unknown" \/ c \in new
        BY <2>1 DEF Owe, JobKeys
    <2>5. Stored'
        BY <2>2, <2>4 DEF Finality, Stored
    <2>6. DOMAIN proc' = Procs /\ \A q \in Procs : proc'[q] = proc[q]
        BY <2>1 DEF Finality, Shape
    <2> QED
        BY <2>1, <2>2, <2>3, <2>5, <2>6, StatesChange
<1>2. ASSUME NEW s \in Fickle, StandingChanges(s) PROVE Finality'
    BY <1>0, <1>2 DEF StandingChanges, catalogueVars, historyVars
<1>3. ASSUME NEW p \in Procs, NEW c \in Cands, BeginValidate(p, c) PROVE Finality'
    <2> DEFINE h == ReadForValidation(c)
    <2>1. /\ jobs[<<"validate", c>>] = "owed" /\ proc' = [proc EXCEPT ![p] = h]
          /\ UNCHANGED <<cand, rows, raced, jobs>>
        BY <1>3 DEF BeginValidate, Takes, catalogueVars, historyVars
    <2>2. h.kind = "validate" /\ h.cand = c /\ h.state = cand[c]
        BY DEF ReadForValidation
    <2>3. cand[c] # "absent" /\ cand[c] \in CandidateStates
        BY <2>1 DEF Finality, Stored
    <2>4. c \notin raced /\ rows[c] > 0 => cand[c] = "published"
        BY DEF Finality, Shape, PublishedIsFinal
    <2> HIDE DEF h
    <2>5. SoundRead(h)
        BY <2>2, <2>3, <2>4 DEF SoundRead
    <2> QED
        BY <2>1, <2>5, HandsChange
<1>4. ASSUME NEW p \in Procs, NEW c \in Cands, BeginPublish(p, c) PROVE Finality'
    <2> DEFINE h == [kind |-> "publish", cand |-> c, latest |-> latest]
    <2>1. /\ proc' = [proc EXCEPT ![p] = h] /\ UNCHANGED <<cand, rows, raced, jobs>>
          /\ cand[c] \in {"validated", "human_review_required"}
        BY <1>4 DEF BeginPublish, Publishable, catalogueVars, historyVars
    <2>2. c \notin raced => rows[c] = 0
        BY <2>1 DEF Finality, Shape, PublishedIsFinal
    <2>3. SoundRead(h)
        BY <2>1, <2>2 DEF SoundRead
    <2> HIDE DEF h
    <2> QED
        BY <2>1, <2>3, HandsChange
<1>5. ASSUME NEW p \in Procs, NEW c \in Cands, PublishNothing(p, c) PROVE Finality'
    <2>1. UNCHANGED <<cand, rows, raced, proc>>
        BY <1>5 DEF PublishNothing, catalogueVars, historyVars
    <2>2. /\ DOMAIN jobs' = JobKeys
          /\ \A d \in Cands : jobs'[<<"validate", d>>] = jobs[<<"validate", d>>]
        BY <1>5 DEF PublishNothing, Finality, Shape
    <2> QED
        BY <2>1, <2>2 DEF Finality, Shape, Stored, SoundReads, SoundRead, PublishedIsFinal
<1>6. ASSUME NEW p \in Procs, Validate(p) PROVE Finality'
    <2> DEFINE r == proc[p]
               ledger == Owe(jobs, FollowUp(r))
    <2>1. PICK superseded :
              \/ cand' = Release(UpdateState(r.cand, Walked(r)), superseded)
              \/ cand' = UpdateState(r.cand, Walked(r))
        BY <1>6 DEF Validate
    <2>2. /\ r.kind = "validate"
          /\ Reported(ledger, <<"validate", r.cand>>)
          /\ proc' = [proc EXCEPT ![p] = Resting]
          /\ UNCHANGED <<rows, raced>>
        BY <1>6 DEF Validate
    <2>3. /\ cand' \in [Cands -> CandidateStates \union {"absent"}]
          /\ \A c \in Cands : cand'[c] = "absent" <=> cand[c] = "absent"
          /\ \A c \in Cands \ raced : cand'[c] = "published" <=> cand[c] = "published"
        BY <2>1, <2>2, ValidatedRow
    <2>4. DOMAIN ledger = JobKeys
        BY DEF Owe
    <2>5. \A c \in Cands : ledger[<<"validate", c>>] # "unknown" => cand'[c] # "absent"
        BY <2>3 DEF Owe, JobKeys, FollowUp, Finality, Stored
    <2>6. DOMAIN proc' = Procs /\ \A q \in Procs : proc'[q] \in {proc[q], Resting}
        BY <2>2 DEF Finality, Shape
    <2> HIDE DEF ledger
    <2>7. Stored' /\ DOMAIN jobs' = JobKeys
        BY <2>2, <2>3, <2>4, <2>5, ReportStores, ReportKeeps
    <2> QED
        BY <2>2, <2>3, <2>6, <2>7, StatesChange
<1>7. ASSUME NEW p \in Procs, Publish(p) PROVE Finality'
    <2> DEFINE c == proc[p].cand
    <2>1. /\ proc[p].kind = "publish"
          /\ InsertRelease(c, proc[p].latest)
          /\ Reported(jobs, <<"publish", c>>)
          /\ proc' = [proc EXCEPT ![p] = Resting]
          /\ raced' = raced \union {d \in {c} : InHandsOf(d) # {p}}
        BY <1>7 DEF Publish
    <2>2. c \in Cands /\ cand[c] # "absent" /\ (c \notin raced => rows[c] = 0)
        BY <2>1 DEF Finality, SoundReads, SoundRead
    <2>3. /\ DOMAIN proc' = Procs /\ proc'[p] = Resting
          /\ \A q \in Procs \ {p} : proc'[q] = proc[q]
        BY <2>1, OthersKeep DEF Finality
    <2>4. \A q \in Procs \ {p} : proc[q] # Resting /\ proc[q].cand = c => c \in raced'
        BY <2>1 DEF InHandsOf
    <2> HIDE DEF c
    <2>5. /\ DOMAIN jobs' = JobKeys
          /\ \A q \in JobKeys : jobs'[q] # "unknown" => jobs[q] # "unknown"
        BY <2>1, ReportKeeps DEF Finality, Shape
    <2> QED
        BY <2>1, <2>2, <2>3, <2>4, <2>5, ReleaseInserted
<1>8. ASSUME NEW p \in Procs, Crash(p) PROVE Finality'
    BY <1>8, RestingReads, HandsChange DEF Crash, catalogueVars, historyVars
<1>9. ASSUME NEW i \in ItemIds, BeginDecision(i) PROVE Finality'
    BY <1>0, <1>9 DEF BeginDecision, catalogueVars, historyVars
<1>10. ASSUME Accept PROVE Finality'
    <2>1. UNCHANGED <<jobs, proc>>
        BY <1>10 DEF Accept
    <2>2. CASE desk.subject \in Cands /\ cand[desk.subject] # "published"
        <3>1. /\ InsertRelease(desk.subject, latest)
              /\ raced' = raced \union {c \in {desk.subject} : InHandsOf(c) # {}}
            BY <1>10, <2>2 DEF Accept
        <3>2. cand[desk.subject] # "absent"
            BY <1>10, <2>2 DEF Accept, AcceptSucceeds, Publishable
        <3>3. desk.subject \notin raced => rows[desk.subject] = 0
            BY <2>2 DEF Finality, Shape, PublishedIsFinal
        <3>4. \A q \in Procs : proc[q] # Resting /\ proc[q].cand = desk.subject =>
                                   desk.subject \in raced'
            BY <3>1 DEF InHandsOf
        <3>5. DOMAIN proc' = Procs /\ DOMAIN jobs' = JobKeys
            BY <2>1 DEF Finality, Shape
        <3> QED
            BY <2>1, <2>2, <3>1, <3>2, <3>3, <3>4, <3>5, ReleaseInserted
    <2>3. CASE ~(desk.subject \in Cands /\ cand[desk.subject] # "published")
        <3>1. UNCHANGED <<cand, rows, raced>>
            BY <1>10, <2>3 DEF Accept
        <3> QED
            BY <1>0, <2>1, <3>1
    <2> QED
        BY <2>2, <2>3
<1>11. ASSUME Reject PROVE Finality'
    <2>1. /\ cand' = [c \in Cands |-> IF c = desk.subject THEN "rejected" ELSE cand[c]]
          /\ UNCHANGED <<rows, raced, jobs, proc>>
        BY <1>11 DEF Reject
    <2>2. desk.subject \in Cands => cand[desk.subject] # "published"
        <3>1. ~MayBecome("published", "rejected")
            BY EveryState DEF MayBecome, CanTransitionTo
        <3> QED
            BY <1>11, <3>1 DEF Reject, RejectSucceeds
    <2>3. /\ cand' \in [Cands -> CandidateStates \union {"absent"}]
          /\ \A c \in Cands : cand'[c] = "absent" => cand[c] = "absent"
          /\ \A c \in Cands : cand'[c] = "published" <=> cand[c] = "published"
        BY <2>1, <2>2, EveryState DEF Finality, Stored
    <2>4. Stored' /\ DOMAIN jobs' = JobKeys /\ DOMAIN proc' = Procs
        BY <2>1, <2>3 DEF Finality, Stored, Shape
    <2> QED
        BY <2>1, <2>3, <2>4, StatesChange
<1>12. ASSUME Refused PROVE Finality'
    BY <1>0, <1>12 DEF Refused, catalogueVars, historyVars
<1>13. ASSUME UNCHANGED vars PROVE Finality'
    BY <1>0, <1>13 DEF vars
<1> QED
    BY <1>1, <1>2, <1>3, <1>4, <1>5, <1>6, <1>7, <1>8, <1>9, <1>10, <1>11, <1>12, <1>13
       DEF Next, Handler, Reviewer

\* However handlers and reviewers overlap, whatever is delivered again and wherever a handler
\* dies: a candidate is published exactly when there is a release of it, and then only one,
\* unless it was published while another handler had read it (CandidateRelease.TransitionTo:
\* there is no edge back from published).
THEOREM PublishedStaysPublished == Spec => []PublishedIsFinal
<1>1. Finality /\ [Next]_vars => Finality'
    BY FinalityStep
<1>2. Spec => []Finality
    BY <1>1, FinalityInit, PTL DEF Spec
<1>3. Finality => PublishedIsFinal
    BY DEF Finality
<1> QED
    BY <1>2, <1>3, PTL
-----------------------------------------------------------------------------
(***************************************************************************)
(* A dispute that is open is an item on the desk.                          *)
(***************************************************************************)

\* Whatever takes part in a dispute has a product: what sources stand for, what a handler
\* has read of that, and the subject of an item that names a conflict.
OfAProduct == {c \in Cands : Match[c] = "unique"}
FitToDispute(h) ==
    h.kind = "validate" => /\ h.cand \in Cands
                           /\ h.known => h.cand \in OfAProduct
                           /\ h.others \subseteq OfAProduct
FitToBeNamed(item) ==
    item.state = "open" /\ item.conflict # 0 /\ item.subject \in Cands =>
        item.subject \in OfAProduct
Attributable ==
    /\ DOMAIN observed = Sources
    /\ \A s \in Sources : observed[s] # None => observed[s] \in OfAProduct
    /\ resolved \subseteq OfAProduct
    /\ DOMAIN proc = Procs /\ \A p \in Procs : FitToDispute(proc[p])
    /\ \A i \in ItemIds : FitToBeNamed(items[i])

Attribution == ShortQueue /\ Attributable

LEMMA AttributionInit == Init => Attribution
<1> SUFFICES ASSUME Init PROVE Attribution
    OBVIOUS
<1>1. Attributable
    BY DEF Init, Attributable, FitToDispute, FitToBeNamed, Resting, Blank
<1> QED
    BY <1>1, ShortQueueInit DEF Attribution

\* Only a handler's hands change.
LEMMA FitHands ==
    ASSUME Attributable, NEW p \in Procs, NEW h, FitToDispute(h),
           proc' = [proc EXCEPT ![p] = h], UNCHANGED <<observed, resolved, items>>
    PROVE  Attributable'
<1>1. DOMAIN proc' = Procs /\ \A q \in Procs : proc'[q] \in {h, proc[q]}
    BY DEF Attributable
<1>2. \A q \in Procs : FitToDispute(proc'[q])
    BY <1>1 DEF Attributable
<1> QED
    BY <1>1, <1>2 DEF Attributable, FitToDispute, FitToBeNamed

LEMMA RestingIsFit == FitToDispute(Resting)
BY DEF FitToDispute, Resting

\* A closed item names nothing.
LEMMA FitItems ==
    ASSUME Attributable, NEW d, CloseItem(d), DOMAIN items = ItemIds,
           UNCHANGED <<observed, resolved, proc>>
    PROVE  Attributable'
<1>1. \A i \in ItemIds : FitToBeNamed(items'[i])
    BY DEF CloseItem, Attributable, FitToBeNamed, Blank
<1> QED
    BY <1>1 DEF Attributable, FitToDispute, FitToBeNamed

\* An attributed candidate is of a product.
LEMMA AttributedIsOfAProduct ==
    ASSUME NEW r, r.kind = "validate", FitToDispute(r), Attributed(r)
    PROVE  r.cand \in OfAProduct
BY DEF FitToDispute, Attributed, OfAProduct

\* What a validation writes to the queue is fit to be there.
LEMMA RoutedFits ==
    ASSUME ShortQueue, Attributable, NEW p \in Procs, proc[p].kind = "validate",
           NEW k \in ConflictsFor(proc[p]), NEW want \in {proc[p].cand, k},
           RouteToReview(proc[p], k, want)
    PROVE  \A i \in ItemIds : FitToBeNamed(items'[i])
<1> DEFINE r == proc[p]
<1>1. PICK i \in ItemIds : \E s : Writes(i, s, r, k, want)
    BY Routed DEF ShortQueue
<1>2. PICK subject : Writes(i, subject, r, k, want)
    BY <1>1
<1>3. /\ \A j \in ItemIds \ {i} : items'[j] = items[j]
      /\ items'[i].subject = subject /\ items'[i].conflict = k
    BY <1>2 DEF Writes, ShortQueue, About
<1>4. FitToDispute(r) /\ \A j \in ItemIds : FitToBeNamed(items[j])
    BY DEF Attributable
<1> HIDE DEF r
<1>5. ASSUME k # 0, subject \in Cands PROVE subject \in OfAProduct
    <2>1. k \in ConflictIds /\ Attributed(r)
        BY <1>5, ConflictChosen DEF r
    <2>2. r.cand \in OfAProduct /\ r.others \subseteq OfAProduct
        BY <1>4, <2>1, AttributedIsOfAProduct DEF r, FitToDispute
    <2>3. k \notin Cands
        BY <2>1, ConstantsAssumption DEF ConflictIds
    <2>4. CASE subject = want
        BY <1>5, <2>2, <2>3, <2>4 DEF r
    <2>5. CASE subject # want
        <3>1. subject = items[i].subject /\ StillInDispute(i, want, r)
            BY <1>2, <2>5 DEF Writes
        <3>2. subject \in r.others \union {r.cand}
            BY <1>5, <3>1 DEF StillInDispute
        <3> QED
            BY <2>2, <3>2
    <2> QED
        BY <2>4, <2>5
<1> QED
    BY <1>3, <1>4, <1>5 DEF FitToBeNamed

LEMMA AttributableStep == ShortQueue /\ Attributable /\ [Next]_vars => Attributable'
<1> SUFFICES ASSUME ShortQueue, Attributable, [Next]_vars PROVE Attributable'
    OBVIOUS
<1>0. ASSUME UNCHANGED <<observed, resolved, proc, items>> PROVE Attributable'
    BY <1>0 DEF Attributable, FitToDispute, FitToBeNamed
<1>1. ASSUME NEW s \in Sources, Extract(s) PROVE Attributable'
    BY <1>0, <1>1 DEF Extract, disputeVars
<1>2. ASSUME NEW s \in Fickle, StandingChanges(s) PROVE Attributable'
    BY <1>0, <1>2 DEF StandingChanges, disputeVars, catalogueVars
<1>3. ASSUME NEW p \in Procs, NEW c \in Cands, BeginValidate(p, c) PROVE Attributable'
    <2> DEFINE h == ReadForValidation(c)
    <2>1. h.cand = c /\ h.known = (c \in resolved) /\ h.others = ObservationsBeside(SourceOf[c])
        BY DEF ReadForValidation
    <2>2. ObservationsBeside(SourceOf[c]) \subseteq OfAProduct
        BY DEF ObservationsBeside, Attributable
    <2> HIDE DEF h
    <2>3. FitToDispute(h)
        BY <2>1, <2>2 DEF FitToDispute, Attributable
    <2> QED
        BY <1>3, <2>3, FitHands DEF BeginValidate, catalogueVars, disputeVars, h
<1>4. ASSUME NEW p \in Procs, NEW c \in Cands, BeginPublish(p, c) PROVE Attributable'
    <2> DEFINE h == [kind |-> "publish", cand |-> c, latest |-> latest]
    <2>1. FitToDispute(h)
        BY DEF FitToDispute
    <2> HIDE DEF h
    <2> QED
        BY <1>4, <2>1, FitHands DEF BeginPublish, catalogueVars, disputeVars, h
<1>5. ASSUME NEW p \in Procs, NEW c \in Cands, PublishNothing(p, c) PROVE Attributable'
    BY <1>0, <1>5 DEF PublishNothing, catalogueVars, disputeVars
<1>6. ASSUME NEW p \in Procs, Validate(p) PROVE Attributable'
    <2> DEFINE r == proc[p]
    <2>1. PICK k \in ConflictsFor(r) :
              /\ ReconcileConflict(r, k)
              /\ LET want == IF Verdict(r) = "review_required" THEN r.cand ELSE k
                 IN  IF NeedsItem(r, k) THEN RouteToReview(r, k, want)
                     ELSE UNCHANGED <<items, link>>
        BY <1>6 DEF Validate
    <2>2. /\ r.kind = "validate" /\ SetResolvedProduct(r.cand)
          /\ proc' = [proc EXCEPT ![p] = Resting]
        BY <1>6 DEF Validate
    <2>3. FitToDispute(r)
        BY DEF Attributable
    <2>4. \A i \in ItemIds : FitToBeNamed(items'[i])
        <3>1. CASE NeedsItem(r, k)
            <4> DEFINE want == IF Verdict(r) = "review_required" THEN r.cand ELSE k
            <4>1. RouteToReview(r, k, want)
                BY <2>1, <3>1
            <4>2. CASE Verdict(r) = "review_required"
                <5>1. want = r.cand /\ r.cand \in Cands
                    BY <2>2, <2>3, <4>2 DEF FitToDispute
                <5> QED
                    BY <2>2, <4>1, <5>1, RoutedFits
            <4>3. CASE Verdict(r) # "review_required"
                <5>1. want = k
                    BY <4>3
                <5> QED
                    BY <2>2, <4>1, <5>1, RoutedFits
            <4> QED
                BY <4>2, <4>3
        <3>2. CASE ~NeedsItem(r, k)
            BY <2>1, <3>2 DEF Attributable, FitToBeNamed
        <3> QED
            BY <3>1, <3>2
    <2>5. resolved' \subseteq OfAProduct
        BY <2>2, <2>3 DEF SetResolvedProduct, Attributable, OfAProduct, FitToDispute
    <2>6. /\ DOMAIN observed' = Sources
          /\ \A s \in Sources : observed'[s] # None => observed'[s] \in OfAProduct
        <3>1. CASE Attributed(r) /\ r.eligible /\ r.newer
            <4>1. observed' = [observed EXCEPT ![SourceOf[r.cand]] = r.cand]
                BY <2>1, <3>1 DEF ReconcileConflict, RecordObservation
            <4>2. r.cand \in OfAProduct
                BY <2>2, <2>3, <3>1, AttributedIsOfAProduct
            <4> QED
                BY <4>1, <4>2 DEF Attributable
        <3>2. CASE ~(Attributed(r) /\ r.eligible /\ r.newer)
            BY <2>1, <3>2 DEF ReconcileConflict, Attributable
        <3> QED
            BY <3>1, <3>2
    <2>7. DOMAIN proc' = Procs /\ \A q \in Procs : FitToDispute(proc'[q])
        BY <2>2, RestingIsFit DEF Attributable
    <2> QED
        BY <2>4, <2>5, <2>6, <2>7 DEF Attributable, FitToDispute, FitToBeNamed
<1>7. ASSUME NEW p \in Procs, Publish(p) \/ Crash(p) PROVE Attributable'
    <2>1. /\ proc' = [proc EXCEPT ![p] = Resting]
          /\ UNCHANGED <<observed, resolved, items>>
        <3>1. CASE Publish(p)
            BY <3>1 DEF Publish, disputeVars
        <3>2. CASE Crash(p)
            BY <3>2 DEF Crash, catalogueVars, disputeVars
        <3> QED
            BY <1>7, <3>1, <3>2
    <2> QED
        BY <2>1, RestingIsFit, FitHands
<1>8. ASSUME NEW i \in ItemIds, BeginDecision(i) PROVE Attributable'
    BY <1>0, <1>8 DEF BeginDecision, disputeVars, catalogueVars
<1>9. ASSUME Accept \/ Reject PROVE Attributable'
    BY <1>9, FitItems DEF Accept, Reject, ShortQueue
<1>10. ASSUME Refused PROVE Attributable'
    BY <1>0, <1>10 DEF Refused, disputeVars, catalogueVars
<1>11. ASSUME UNCHANGED vars PROVE Attributable'
    BY <1>0, <1>11 DEF vars
<1> QED
    BY <1>1, <1>2, <1>3, <1>4, <1>5, <1>6, <1>7, <1>8, <1>9, <1>10, <1>11
       DEF Next, Handler, Reviewer
\* An open conflict is linked to the open item that names it, or to one that was closed
\* without its decision being about the conflict.
Linked ==
    /\ DOMAIN link = ConflictIds
    /\ \A k \in ConflictIds : conflicts[k] = "open" =>
           \/ link[k] \in misread
           \/ link[k] \in ItemIds /\ OpenItem(link[k]) /\ items[link[k]].conflict = k

Disputes == Attribution /\ Linked

LEMMA DisputesInit == Init => Disputes
<1> SUFFICES ASSUME Init PROVE Disputes
    OBVIOUS
<1>1. Linked
    BY DEF Init, Linked
<1> QED
    BY <1>1, AttributionInit DEF Disputes

\* Only what is attributed and may be collected raises or closes a conflict; what goes to
\* review without is of no product.
LEMMA ReviewedWithoutConflict ==
    ASSUME NEW r, Verdict(r) = "review_required", ~(Attributed(r) /\ r.eligible)
    PROVE  r.cand \notin OfAProduct
<1>1. ~Rejects(r)
    BY DEF Verdict
<1>2. ~Attributed(r)
    BY <1>1 DEF Rejects
<1> QED
    BY <1>2 DEF Attributed, OfAProduct

\* A validation leaves every open conflict with its item.
LEMMA LinkedByValidation ==
    ASSUME Disputes, NEW p \in Procs, Validate(p)
    PROVE  Linked'
<1> DEFINE r == proc[p]
           want(k) == IF Verdict(r) = "review_required" THEN r.cand ELSE k
<1>1. PICK k \in ConflictsFor(r) :
          /\ ReconcileConflict(r, k)
          /\ IF NeedsItem(r, k) THEN RouteToReview(r, k, want(k))
             ELSE UNCHANGED <<items, link>>
    BY DEF Validate
<1>2. r.kind = "validate" /\ FitToDispute(r)
    BY DEF Validate, Disputes, Attribution, Attributable
<1>3. \/ k = 0
      \/ /\ k \in ConflictIds
         /\ \A l \in ConflictIds : conflicts[l] = "open" => conflicts[k] = "open"
    BY ConflictChosen
<1>4. /\ DOMAIN items = ItemIds /\ DOMAIN conflicts = ConflictIds /\ DOMAIN link = ConflictIds
      /\ OneItemEach /\ OneOpenConflict
    BY DEF Disputes, Attribution, ShortQueue, Linked
<1>5. \A l \in ConflictIds : conflicts[l] = "open" =>
          \/ link[l] \in misread
          \/ link[l] \in ItemIds /\ OpenItem(link[l]) /\ items[link[l]].conflict = l
    BY DEF Disputes, Linked
<1>10. misread' = misread
    BY DEF Validate
<1>6. \A l \in ConflictIds : l # 0
    BY ConstantsAssumption DEF ConflictIds
<1>7. \A i \in ItemIds : FitToBeNamed(items[i])
    BY DEF Disputes, Attribution, Attributable
<1> HIDE DEF r
<1>8. CASE NeedsItem(r, k)
    <2>1. PICK i \in ItemIds : \E s : Writes(i, s, r, k, want(k))
        BY <1>1, <1>4, <1>8, Routed
    <2>2. PICK subject : Writes(i, subject, r, k, want(k))
        BY <2>1
    <2>3. /\ \A j \in ItemIds \ {i} : items'[j] = items[j]
          /\ items'[i].state = "open" /\ items'[i].conflict = k
          /\ DOMAIN link' = ConflictIds
          /\ \A l \in ConflictIds : link'[l] = IF l = k THEN i ELSE link[l]
        BY <1>4, <2>2 DEF Writes, About, LinkReviewItem
    <2>4. CASE k # 0
        <3>1. k \in ConflictIds /\ conflicts' = [conflicts EXCEPT ![k] = "open"]
            BY <1>1, <1>3, <2>4 DEF ReconcileConflict
        <3>2. \A l \in ConflictIds : conflicts'[l] = "open" => l = k
            BY <1>3, <1>4, <2>4, <3>1 DEF OneOpenConflict
        <3> QED
            BY <2>3, <3>2 DEF Linked, OpenItem
    <2>5. CASE k = 0
        <3>1. Verdict(r) = "review_required" /\ want(k) = r.cand
            BY <1>8, <2>5 DEF NeedsItem
        <3>2. \A l \in ConflictIds : link'[l] = link[l]
            BY <1>6, <2>3, <2>5
        <3>3. CASE Attributed(r) /\ r.eligible
            <4>1. conflicts' = CloseOpenConflict
                BY <1>1, <2>5, <3>3 DEF ReconcileConflict
            <4>2. \A l \in ConflictIds : conflicts'[l] # "open"
                BY <4>1 DEF CloseOpenConflict
            <4> QED
                BY <2>3, <4>2 DEF Linked
        <3>4. CASE ~(Attributed(r) /\ r.eligible)
            <4>1. conflicts' = conflicts
                BY <1>1, <2>5, <3>4 DEF ReconcileConflict
            <4>2. r.cand \in Cands \ OfAProduct
                BY <1>2, <3>1, <3>4, ReviewedWithoutConflict DEF FitToDispute, r
            <4>3. items[i].state = "unused" \/ i \in OpenItemsAbout(r.cand)
                BY <2>2, <2>5, <3>1 DEF Writes
            <4>4. OpenItem(i) => items[i].conflict = 0
                BY <1>7, <4>2, <4>3 DEF OpenItem, OpenItemsAbout, FitToBeNamed
            <4>5. \A l \in ConflictIds : conflicts[l] = "open" =>
                      link[l] \in misread \/ link[l] # i
                BY <1>5, <1>6, <4>4
            <4> QED
                BY <1>5, <1>10, <2>3, <3>2, <4>1, <4>5 DEF Linked, OpenItem
        <3> QED
            BY <3>3, <3>4
    <2> QED
        BY <2>4, <2>5
<1>9. CASE ~NeedsItem(r, k)
    <2>1. k = 0 /\ UNCHANGED <<items, link>>
        BY <1>1, <1>9 DEF NeedsItem
    <2>2. \A l \in ConflictIds : conflicts'[l] = "open" => conflicts[l] = "open"
        BY <1>1, <2>1 DEF ReconcileConflict, CloseOpenConflict
    <2> QED
        BY <1>4, <1>5, <1>10, <2>1, <2>2 DEF Linked, OpenItem
<1> QED
    BY <1>8, <1>9

\* A decision closes the conflict with the item it is linked to, or notes that the item had
\* been read before it named the conflict.
LEMMA LinkedByDecision ==
    ASSUME Disputes, NEW d, CloseItem(d), link' = link
    PROVE  Linked'
<1>1. \A k \in ConflictIds : conflicts'[k] = "open" => conflicts[k] = "open" /\ k # d.conflict
    BY DEF CloseItem
<1>2. \A i \in ItemIds \ {d.item} : items'[i] = items[i]
    BY DEF CloseItem, Disputes, Attribution, ShortQueue
<1>3. /\ misread \subseteq misread'
      /\ items[d.item].conflict # d.conflict => d.item \in misread'
    BY DEF CloseItem
<1> QED
    BY <1>1, <1>2, <1>3 DEF Disputes, Linked, OpenItem

LEMMA DisputesStep == Disputes /\ [Next]_vars => Disputes'
<1> SUFFICES ASSUME Disputes, [Next]_vars PROVE Disputes'
    OBVIOUS
<1>1. Attribution'
    BY ShortQueueStep, AttributableStep DEF Disputes, Attribution
<1>2. ASSUME UNCHANGED <<conflicts, link, items, misread>> PROVE Linked'
    BY <1>2 DEF Disputes, Linked, OpenItem
<1>3. ASSUME NEW p \in Procs, Handler(p), ~Validate(p) PROVE Linked'
    BY <1>2, <1>3 DEF Handler, BeginValidate, BeginPublish, PublishNothing, Publish, Crash,
                      disputeVars, historyVars
<1>4. ASSUME NEW p \in Procs, Validate(p) PROVE Linked'
    BY <1>4, LinkedByValidation
<1>5. ASSUME (\E i \in ItemIds : BeginDecision(i)) \/ Refused PROVE Linked'
    BY <1>2, <1>5 DEF BeginDecision, Refused, disputeVars, historyVars
<1>6. ASSUME Accept \/ Reject PROVE Linked'
    <2>1. CloseItem(desk) /\ link' = link
        BY <1>6 DEF Accept, Reject
    <2> QED
        BY <2>1, LinkedByDecision
<1>7. ASSUME NEW s \in Sources, Extract(s) PROVE Linked'
    BY <1>2, <1>7 DEF Extract, disputeVars, historyVars
<1>8. ASSUME NEW s \in Fickle, StandingChanges(s) PROVE Linked'
    BY <1>2, <1>8 DEF StandingChanges, disputeVars, historyVars
<1>9. ASSUME UNCHANGED vars PROVE Linked'
    BY <1>2, <1>9 DEF vars
<1>10. Linked'
    BY <1>3, <1>4, <1>5, <1>6, <1>7, <1>8, <1>9 DEF Next, Reviewer
<1> QED
    BY <1>1, <1>10 DEF Disputes

\* However items are retargeted, superseded, closed and filed again, by however many handlers
\* beside the reviewer: an open conflict is linked to an open item that names it, unless the
\* item was decided as it had been read before it named the conflict (routeToReview,
\* DecideReviewItem).
THEOREM ConflictsReachAHuman == Spec => []ConflictHasItem
<1>1. Disputes => ConflictHasItem
    BY DEF Disputes, Linked, ConflictHasItem, ItemIds
<1> QED
    BY <1>1, DisputesInit, DisputesStep, PTL DEF Spec
-----------------------------------------------------------------------------
(***************************************************************************)
(* The pipeline implements the catalogue.                                  *)
(***************************************************************************)

Collected == {c \in Cands : cand[c] # "absent"}

\* A candidate has been found exactly when it has a row, and no instant is later than there
\* are candidates.
FirstSeen ==
    /\ found \in [Cands -> Nat]
    /\ \A c \in Cands : found[c] > 0 <=> cand[c] # "absent"
    /\ \A c \in Cands : found[c] <= Cardinality(Collected)

\* What a reviewer has before him has a row.
SubjectsSeen ==
    /\ \A i \in ItemIds : OpenItem(i) /\ items[i].subject \in Cands =>
                              cand[items[i].subject] # "absent"
    /\ desk # Resting /\ desk.subject \in Cands => cand[desk.subject] # "absent"

Seen == FirstSeen /\ SubjectsSeen

LEMMA SeenInit == Init => Seen
<1> SUFFICES ASSUME Init PROVE Seen
    OBVIOUS
<1>1. Collected = {}
    BY DEF Init, Collected
<1>2. Cardinality(Collected) = 0
    BY <1>1, FS_EmptySet
<1>3. FirstSeen
    BY <1>2 DEF Init, FirstSeen
<1>4. SubjectsSeen
    BY DEF Init, SubjectsSeen, OpenItem, Blank
<1> QED
    BY <1>3, <1>4 DEF Seen

\* An extraction finds its candidates at an instant after all others.
LEMMA ExtractionObserves ==
    ASSUME FirstSeen, Stored, NEW new \in SUBSET Cands, new # {},
           \A c \in new : cand[c] = "absent", StoreCandidates(new),
           UNCHANGED <<rows, latest, raced, hasty>>
    PROVE  FirstSeen' /\ Shown!Observe(new)
<1> DEFINE instant == 1 + Cardinality(Collected)
<1>1. /\ found' = [c \in Cands |-> IF c \in new THEN instant ELSE found[c]]
      /\ cand' = [c \in Cands |-> IF c \in new THEN "extracted" ELSE cand[c]]
    BY DEF StoreCandidates, Collected
<1>2. /\ Collected' = Collected \union new
      /\ Collected \subseteq Cands /\ Collected' \subseteq Cands
    BY <1>1 DEF Collected
<1>3. IsFiniteSet(Cands)
    BY ConstantsAssumption
<1>4. /\ IsFiniteSet(Collected') /\ Cardinality(Collected') <= Cardinality(Cands)
      /\ IsFiniteSet(Collected)
    BY <1>2, <1>3, FS_Subset
<1>5. /\ Cardinality(Collected) <= Cardinality(Collected')
      /\ Cardinality(Collected') = Cardinality(Collected) => Collected' = Collected
    BY <1>2, <1>4, FS_Subset
<1>6. Collected' # Collected
    BY <1>2 DEF Collected
<1>7. /\ Cardinality(Collected) \in Nat /\ Cardinality(Collected') \in Nat
      /\ Cardinality(Cands) \in Nat
    BY <1>3, <1>4, FS_CardinalityType
<1>8. instant \in Nat /\ instant > 0 /\ instant <= Cardinality(Collected')
    BY <1>5, <1>6, <1>7
<1>9. instant \in 1..Cardinality(Cands)
    BY <1>4, <1>7, <1>8
<1>10. \A c \in Cands : found[c] \in Nat /\ found[c] < instant
    BY <1>7 DEF FirstSeen
<1>11. Shown!Observe(new)
    <2>1. \A c \in new : found[c] = 0
        BY <1>10 DEF FirstSeen
    <2>2. Shown!Cardinality(Cands) = Cardinality(Cands)
        BY DEF Shown!Cardinality, Cardinality
    <2> HIDE DEF instant
    <2> QED
        BY <1>1, <1>9, <1>10, <2>1, <2>2 DEF Shown!Observe
<1> HIDE DEF instant
<1>12. FirstSeen'
    <2>1. found' \in [Cands -> Nat]
        BY <1>1, <1>8, <1>10
    <2>2. \A c \in Cands : found'[c] > 0 <=> cand'[c] # "absent"
        BY <1>1, <1>8 DEF FirstSeen
    <2>3. \A c \in Cands : found'[c] <= Cardinality(Collected')
        BY <1>1, <1>7, <1>8, <1>10
    <2> QED
        BY <2>1, <2>2, <2>3 DEF FirstSeen
<1> QED
    BY <1>11, <1>12

\* Whatever neither finds nor loses a candidate keeps the instants.
LEMMA KeepsSight ==
    ASSUME Seen, found' = found,
           \A c \in Cands : cand'[c] = "absent" <=> cand[c] = "absent",
           \A i \in ItemIds : OpenItem(i)' /\ items'[i].subject \in Cands =>
               \/ cand[items'[i].subject] # "absent"
               \/ OpenItem(i) /\ items'[i].subject = items[i].subject,
           desk' # Resting /\ desk'.subject \in Cands =>
               cand[desk'.subject] # "absent" \/ desk' = desk
    PROVE  Seen'
<1>1. Collected' = Collected
    BY DEF Collected
<1>2. FirstSeen'
    BY <1>1 DEF Seen, FirstSeen
<1>3. SubjectsSeen'
    BY DEF Seen, SubjectsSeen
<1> QED
    BY <1>2, <1>3 DEF Seen

\* A release that is inserted takes the flag of the latest by the catalogue's order if the
\* latest was read right; a second one of a candidate is noted.
LEMMA InsertionShelves ==
    ASSUME Shape, Stored, FirstSeen, NEW c \in Cands, cand[c] # "absent",
           c \notin raced => rows[c] = 0,
           NEW read, InsertRelease(c, read), found' = found,
           raced' \in {raced, raced \union {c}}
    PROVE  Shown!Shelve(c)
<1>1. /\ rows' = [rows EXCEPT ![c] = @ + 1]
      /\ latest' = IF read = None \/ LaterRelease(c, read) THEN c ELSE latest
      /\ hasty' = hasty \union (IF read = latest THEN {} ELSE {c})
    BY DEF InsertRelease
<1>2. found[c] > 0 /\ (rows[c] > 0 => c \in raced)
    BY DEF FirstSeen
<1>3. CASE read = latest
    <2>1. /\ latest' = IF latest = None \/ LaterRelease(c, latest) THEN c ELSE latest
          /\ hasty' = hasty
        BY <1>1, <1>3
    <2> QED
        BY <1>1, <1>2, <2>1 DEF Shown!Shelve, Shown!Newer, LaterRelease
<1>4. CASE read # latest
    <2>1. latest' \in {latest, c} /\ hasty' = hasty \union {c}
        BY <1>1, <1>4
    <2> QED
        BY <1>1, <1>2, <2>1 DEF Shown!Shelve
<1> QED
    BY <1>3, <1>4

Catalogues == Shown!CatalogueNext \/ UNCHANGED Shown!catalogueVars

LEMMA Stutters ==
    ASSUME UNCHANGED <<found, rows, latest, raced, hasty>>
    PROVE  Catalogues
BY DEF Catalogues, Shown!catalogueVars

LEMMA Shelves ==
    ASSUME NEW c \in Cands, Shown!Shelve(c)
    PROVE  Catalogues
BY DEF Catalogues, Shown!CatalogueNext

\* Each step of the pipeline is one of the catalogue's or none of its business.
LEMMA CatalogueStep ==
    Finality /\ ShortQueue /\ Seen /\ [Next]_vars => Seen' /\ Catalogues
<1> SUFFICES ASSUME Finality, ShortQueue, Seen, [Next]_vars PROVE Seen' /\ Catalogues
    OBVIOUS
<1> DEFINE Goal == Seen' /\ Catalogues
<1>0. ASSUME UNCHANGED <<cand, found, rows, latest, raced, hasty, items, desk>> PROVE Goal
    BY <1>0, Stutters, KeepsSight DEF OpenItem
<1>1. ASSUME NEW s \in Sources, Extract(s) PROVE Goal
    <2>1. PICK new \in SUBSET {c \in Cands : SourceOf[c] = s /\ cand[c] = "absent"} :
              /\ new # {} /\ StoreCandidates(new)
              /\ UNCHANGED <<rows, latest, raced, hasty, items, desk>>
        BY <1>1 DEF Extract, disputeVars, historyVars
    <2>2. new \in SUBSET Cands /\ \A c \in new : cand[c] = "absent"
        BY <2>1
    <2>3. FirstSeen' /\ Shown!Observe(new)
        BY <2>1, <2>2, ExtractionObserves DEF Seen, Finality
    <2>4. \A c \in Cands : cand[c] # "absent" => cand'[c] # "absent"
        BY <2>1 DEF StoreCandidates
    <2>5. SubjectsSeen'
        BY <2>1, <2>4 DEF Seen, SubjectsSeen, OpenItem
    <2> QED
        BY <2>2, <2>3, <2>5 DEF Seen, Catalogues, Shown!CatalogueNext
<1>2. ASSUME NEW s \in Fickle, StandingChanges(s) PROVE Goal
    BY <1>0, <1>2 DEF StandingChanges, catalogueVars, disputeVars, historyVars
<1>3. ASSUME NEW p \in Procs, NEW c \in Cands,
             BeginValidate(p, c) \/ BeginPublish(p, c) \/ PublishNothing(p, c)
      PROVE  Goal
    BY <1>0, <1>3 DEF BeginValidate, BeginPublish, PublishNothing, catalogueVars, disputeVars,
                      historyVars
<1>4. ASSUME NEW p \in Procs, Crash(p) PROVE Goal
    BY <1>0, <1>4 DEF Crash, catalogueVars, disputeVars, historyVars
<1>5. ASSUME NEW p \in Procs, Validate(p) PROVE Goal
    <2> DEFINE r == proc[p]
               want(k) == IF Verdict(r) = "review_required" THEN r.cand ELSE k
    <2>1. PICK k \in ConflictsFor(r) :
              IF NeedsItem(r, k)
              THEN /\ RouteToReview(r, k, want(k))
                   /\ cand' = Release(UpdateState(r.cand, Walked(r)),
                                      Routing(r, k, want(k)).superseded)
              ELSE /\ UNCHANGED <<items, link>>
                   /\ cand' = UpdateState(r.cand, Walked(r))
        BY <1>5 DEF Validate
    <2>2. r.kind = "validate" /\ UNCHANGED <<found, rows, latest, raced, hasty, desk>>
        BY <1>5 DEF Validate
    <2>3. r.cand \in Cands /\ cand[r.cand] # "absent"
        BY <2>2 DEF Finality, SoundReads, SoundRead
    <2>4. PICK superseded : \/ cand' = Release(UpdateState(r.cand, Walked(r)), superseded)
                            \/ cand' = UpdateState(r.cand, Walked(r))
        BY <2>1
    <2>5. \A c \in Cands : cand'[c] = "absent" <=> cand[c] = "absent"
        BY <2>2, <2>4, ValidatedRow
    <2>6. ASSUME NEW i \in ItemIds, OpenItem(i)', items'[i].subject \in Cands
          PROVE  \/ cand[items'[i].subject] # "absent"
                 \/ OpenItem(i) /\ items'[i].subject = items[i].subject
        <3>1. CASE NeedsItem(r, k)
            <4>1. PICK j \in ItemIds : \E s : Writes(j, s, r, k, want(k))
                BY <2>1, <3>1, Routed DEF ShortQueue
            <4>2. PICK subject : Writes(j, subject, r, k, want(k))
                BY <4>1
            <4>3. /\ i # j => items'[i] = items[i]
                  /\ i = j => items'[i].subject = subject
                BY <4>2 DEF Writes, ShortQueue, About
            <4>4. CASE i # j
                BY <2>6, <4>3, <4>4 DEF OpenItem
            <4>5. CASE i = j /\ subject # want(k)
                BY <4>2, <4>3, <4>5 DEF Writes
            <4>6. CASE i = j /\ subject = want(k)
                <5>1. k \notin Cands \/ k = 0
                    BY ConflictChosen, ConstantsAssumption DEF ConflictIds
                <5>2. k = 0 => Verdict(r) = "review_required"
                    BY <3>1 DEF NeedsItem
                <5>3. subject = r.cand
                    BY <2>6, <4>3, <4>6, <5>1, <5>2
                <5> QED
                    BY <2>3, <4>3, <4>6, <5>3
            <4> QED
                BY <4>4, <4>5, <4>6
        <3>2. CASE ~NeedsItem(r, k)
            BY <2>1, <2>6, <3>2 DEF OpenItem
        <3> QED
            BY <3>1, <3>2
    <2> HIDE DEF r, want
    <2> QED
        BY <2>2, <2>5, <2>6, Stutters, KeepsSight
<1>6. ASSUME NEW p \in Procs, Publish(p) PROVE Goal
    <2> DEFINE c == proc[p].cand
    <2>1. /\ proc[p].kind = "publish" /\ InsertRelease(c, proc[p].latest)
          /\ raced' = raced \union {d \in {c} : InHandsOf(d) # {p}}
          /\ UNCHANGED <<found, items, desk>>
        BY <1>6 DEF Publish, disputeVars
    <2>2. c \in Cands /\ cand[c] # "absent" /\ (c \notin raced => rows[c] = 0)
        BY <2>1 DEF Finality, SoundReads, SoundRead
    <2>3. raced' \in {raced, raced \union {c}}
        BY <2>1
    <2> HIDE DEF c
    <2>4. Shown!Shelve(c)
        BY <2>1, <2>2, <2>3, InsertionShelves DEF Seen, Finality
    <2>5. \A d \in Cands : cand'[d] = "absent" <=> cand[d] = "absent"
        BY <2>1, <2>2 DEF InsertRelease, UpdateState, Finality, Stored
    <2> QED
        BY <2>1, <2>2, <2>4, <2>5, Shelves, KeepsSight DEF OpenItem
<1>7. ASSUME NEW i \in ItemIds, BeginDecision(i) PROVE Goal
    <2>1. /\ OpenItem(i) /\ UNCHANGED <<cand, found, rows, latest, raced, hasty, items>>
          /\ desk' = [kind |-> "decide", item |-> i, subject |-> items[i].subject,
                      conflict |-> items[i].conflict]
        BY <1>7 DEF BeginDecision, catalogueVars, disputeVars, historyVars
    <2>2. desk'.subject \in Cands => cand[desk'.subject] # "absent"
        BY <2>1 DEF Seen, SubjectsSeen
    <2> QED
        BY <2>1, <2>2, Stutters, KeepsSight DEF OpenItem
<1>8. ASSUME Accept PROVE Goal
    <2>1. /\ desk # Resting /\ desk' = Resting /\ CloseItem(desk) /\ found' = found
        BY <1>8 DEF Accept
    <2>2. \A i \in ItemIds : OpenItem(i)' => items'[i] = items[i]
        BY <2>1, ItemClosed
    <2>3. CASE desk.subject \in Cands /\ cand[desk.subject] # "published"
        <3>1. /\ InsertRelease(desk.subject, latest)
              /\ raced' = raced \union {c \in {desk.subject} : InHandsOf(c) # {}}
            BY <1>8, <2>3 DEF Accept
        <3>2. cand[desk.subject] # "absent" /\ rows \in [Cands -> Nat]
              /\ (desk.subject \notin raced => rows[desk.subject] = 0)
            BY <1>8, <2>3 DEF Accept, AcceptSucceeds, Publishable,
                              Finality, Shape, PublishedIsFinal
        <3>3. raced' \in {raced, raced \union {desk.subject}}
            BY <3>1
        <3>4. Shown!Shelve(desk.subject)
            BY <2>1, <2>3, <3>1, <3>2, <3>3, InsertionShelves DEF Seen, Finality
        <3>5. \A d \in Cands : cand'[d] = "absent" <=> cand[d] = "absent"
            BY <3>1, <3>2, <2>3 DEF InsertRelease, UpdateState, Finality, Stored
        <3> QED
            BY <2>1, <2>2, <2>3, <3>4, <3>5, Shelves, KeepsSight DEF OpenItem
    <2>4. CASE ~(desk.subject \in Cands /\ cand[desk.subject] # "published")
        <3>1. UNCHANGED <<cand, rows, latest, raced, hasty>>
            BY <1>8, <2>4 DEF Accept
        <3> QED
            BY <2>1, <2>2, <3>1, Stutters, KeepsSight DEF OpenItem
    <2> QED
        BY <2>3, <2>4
<1>9. ASSUME Reject PROVE Goal
    <2>1. /\ desk # Resting /\ desk' = Resting /\ CloseItem(desk)
          /\ UNCHANGED <<found, rows, latest, raced, hasty>>
          /\ cand' = [c \in Cands |-> IF c = desk.subject THEN "rejected" ELSE cand[c]]
        BY <1>9 DEF Reject
    <2>2. \A i \in ItemIds : OpenItem(i)' => items'[i] = items[i]
        BY <2>1, ItemClosed
    <2>3. desk.subject \in Cands => cand[desk.subject] # "absent"
        BY <2>1 DEF Seen, SubjectsSeen
    <2>4. \A c \in Cands : cand'[c] = "absent" <=> cand[c] = "absent"
        BY <2>1, <2>3
    <2> QED
        BY <2>1, <2>2, <2>4, Stutters, KeepsSight DEF OpenItem
<1>10. ASSUME Refused PROVE Goal
    <2>1. desk' = Resting /\ UNCHANGED <<cand, found, rows, latest, raced, hasty, items>>
        BY <1>10 DEF Refused, catalogueVars, disputeVars, historyVars
    <2> QED
        BY <2>1, Stutters, KeepsSight DEF OpenItem
<1>11. ASSUME UNCHANGED vars PROVE Goal
    BY <1>0, <1>11 DEF vars
<1> QED
    BY <1>1, <1>2, <1>3, <1>4, <1>5, <1>6, <1>7, <1>8, <1>9, <1>10, <1>11
       DEF Next, Handler, Reviewer

\* The pipeline implements the catalogue, however its handlers and the reviewer overlap: no
\* release is withdrawn; a candidate becomes a second one only after it was published while
\* somebody else had read it; and the newest is marked as the latest but for releases whose
\* publication had read another latest (PublishRelease.Execute).
THEOREM PipelineImplementsCatalogue == Spec => ImplementsCatalogue
<1>1. Init => Shown!CatalogueInit /\ Finality /\ ShortQueue /\ Seen
    BY FinalityInit, ShortQueueInit, SeenInit DEF Init, Shown!CatalogueInit
<1>2. Finality /\ ShortQueue /\ Seen /\ [Next]_vars => (Finality /\ ShortQueue /\ Seen)'
    BY FinalityStep, ShortQueueStep, CatalogueStep
<1>3. Finality /\ ShortQueue /\ Seen /\ [Next]_vars =>
          [Shown!CatalogueNext]_(Shown!catalogueVars)
    BY CatalogueStep DEF Catalogues
<1>4. Spec => Shown!CatalogueSpec
    BY <1>1, <1>2, <1>3, PTL DEF Spec, Shown!CatalogueSpec
<1> QED
    BY <1>4 DEF ImplementsCatalogue
=============================================================================
