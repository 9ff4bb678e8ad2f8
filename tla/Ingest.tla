------------------------------- MODULE Ingest -------------------------------
(***************************************************************************)
(* From an extracted candidate to a published release: ExtractCandidates,  *)
(* ValidateCandidate and PublishRelease (internal/application/ingest.go)   *)
(* and the reviewer's DecideReviewItem (review.go), with the statements of *)
(* the PostgreSQL adapter they make, for one product and one channel.      *)
(*                                                                         *)
(* A use case reads first and then writes in one unit of work.  The reads  *)
(* are one step, which keeps what they saw, and the unit of work another.  *)
(* Of the job queue only what WorkLedger promises is used: an owed job may *)
(* be delivered again until it is recorded as succeeded.                   *)
(***************************************************************************)
EXTENDS CandidateStates, Naturals, FiniteSets

CONSTANTS
    Cands,          \* candidates, one per (source, dedupe key)
    Sources,
    SourceOf,       \* the source that reports a candidate
    VersionOf,      \* its normalized version
    DateOf,         \* its release date; 0 when the vendor gives none
    Authority,      \* quality class rank of a source
    Match,          \* what ResolveByAlias finds: "unique", "ambiguous" or "none"
    Doubtful,       \* candidates a gate on the candidate alone sends to review (5, 8, 9)
    Bogus,          \* candidates a gate on the candidate alone rejects (2, 5, 7)
    Implausible,    \* <<old, new>>: gate 6 doubts the step from old to new
    Fickle,         \* sources whose standing may change during the run
    Procs,          \* handler goroutines, of any worker
    None,
    Mishaps,        \* the candidates whose handlers may die or lose their report
    Torn,           \* whether an extraction may die between its two writes
    MaxItems, MaxConflicts, MaxRows    \* bounds of the model

ASSUME ConstantsAssumption ==
    /\ SourceOf \in [Cands -> Sources]
    /\ DateOf \in [Cands -> Nat]
    /\ Authority \in [Sources -> Nat]
    /\ Match \in [Cands -> {"unique", "ambiguous", "none"}]
    /\ Doubtful \subseteq Cands
    /\ Bogus \subseteq Cands
    /\ Implausible \subseteq Cands \X Cands
    /\ Fickle \subseteq Sources
    /\ None \notin Cands /\ IsFiniteSet(Cands)
    /\ Cands \intersect (1..MaxConflicts) = {}     \* ids of two tables
    /\ Mishaps \subseteq Cands /\ Torn \in BOOLEAN
    /\ MaxItems \in Nat /\ MaxConflicts \in Nat /\ MaxRows \in Nat

ItemIds == 1..MaxItems
ConflictIds == 1..MaxConflicts

VARIABLES
    \* candidate_releases: state, product_id is set, the extraction that discovered it
    cand, resolved, found,
    \* validation_results: the decision of the last validation
    results,
    \* sources: "eligible", "unhealthy" (not collected from) or "prohibited" (by terms)
    standing,
    \* source_observations: the candidate each source currently stands for
    observed,
    \* releases: rows per candidate; the candidate whose row has is_latest_observed
    rows, latest,
    \* source_conflicts: state and review_item_id (0 for NULL)
    conflicts, link,
    \* review_items: state, subject, and of the payload the conflict and its candidates
    items,
    \* the job ledger
    jobs,
    \* what each handler has read; what the reviewer's decision has read
    proc, desk,
    \* history: candidates that passed every gate; candidates a reviewer accepted
    cleared, accepted,
    \* history of overlaps: candidates published while another use case had read them;
    \* candidates published on a read of the latest release that was no longer true;
    \* items decided as they were before a validation gave them another conflict
    raced, hasty, misread

catalogueVars == <<cand, resolved, found, results, rows, latest>>
disputeVars == <<observed, conflicts, link, items>>
historyVars == <<cleared, accepted, raced, hasty, misread>>
vars == <<cand, resolved, found, results, standing, observed, rows, latest,
          conflicts, link, items, jobs, proc, desk, cleared, accepted, raced, hasty, misread>>

JobKeys == {"validate", "publish"} \X Cands
Verdicts == {"passed", "review_required", "rejected"}
Subjects == Cands \union ConflictIds

Blank == [state |-> "unused", subject |-> None, conflict |-> 0, cands |-> {}]
Items == [state : {"unused", "open", "resolved"},
          subject : Subjects \union {None},
          conflict : {0} \union ConflictIds,
          cands : SUBSET Cands]

Resting == [kind |-> "idle"]
ValidateReads ==
    [kind : {"validate"}, cand : Cands, state : CandidateStates, known : BOOLEAN,
     dup : BOOLEAN, odd : BOOLEAN, eligible : BOOLEAN, newer : BOOLEAN,
     others : SUBSET Cands]
PublishReads == [kind : {"publish"}, cand : Cands, latest : Cands \union {None}]

TypeOK ==
    /\ cand \in [Cands -> CandidateStates \union {"absent"}]
    /\ resolved \subseteq Cands
    /\ found \in [Cands -> 0..Cardinality(Cands)]
    /\ results \in [Cands -> Verdicts \union {None}]
    /\ standing \in [Sources -> {"eligible", "unhealthy", "prohibited"}]
    /\ observed \in [Sources -> Cands \union {None}]
    /\ rows \in [Cands -> 0..MaxRows]
    /\ latest \in Cands \union {None}
    /\ conflicts \in [ConflictIds -> {"unused", "open", "resolved"}]
    /\ link \in [ConflictIds -> {0} \union ItemIds]
    /\ items \in [ItemIds -> Items]
    /\ jobs \in [JobKeys -> {"unknown", "owed", "succeeded", "dead"}]
    /\ proc \in [Procs -> {Resting} \union ValidateReads \union PublishReads]
    /\ desk \in {Resting} \union
           [kind : {"decide"}, item : ItemIds, subject : Subjects,
            conflict : {0} \union ConflictIds]
    /\ cleared \subseteq Cands
    /\ accepted \subseteq Cands
    /\ raced \subseteq Cands /\ hasty \subseteq Cands
    /\ misread \subseteq ItemIds

Init ==
    /\ cand = [c \in Cands |-> "absent"]
    /\ resolved = {}
    /\ found = [c \in Cands |-> 0]
    /\ results = [c \in Cands |-> None]
    /\ standing = [s \in Sources |-> "eligible"]
    /\ observed = [s \in Sources |-> None]
    /\ rows = [c \in Cands |-> 0]
    /\ latest = None
    /\ conflicts = [k \in ConflictIds |-> "unused"]
    /\ link = [k \in ConflictIds |-> 0]
    /\ items = [i \in ItemIds |-> Blank]
    /\ jobs = [k \in JobKeys |-> "unknown"]
    /\ proc = [p \in Procs |-> Resting]
    /\ desk = Resting
    /\ cleared = {}
    /\ accepted = {}
    /\ raced = {} /\ hasty = {} /\ misread = {}

-----------------------------------------------------------------------------
(***************************************************************************)
(* Rules of the domain.                                                    *)
(***************************************************************************)

Eligible(s) == standing[s] = "eligible"
PermitsCollection(s) == standing[s] # "prohibited"

\* LaterObservation: by date, a known one beating none; at equal dates whoever is
\* validated now is later.
LaterObservation(c, previous) == DateOf[c] >= DateOf[previous]

\* Mutation: the date of the release is not compared.
LaterReleaseByDiscovery(c, d) == found[c] > found[d]

\* LatestComparison > 0: by date, then by first_observed_at.
LaterRelease(c, d) ==
    \/ DateOf[c] > DateOf[d]
    \/ DateOf[c] = DateOf[d] /\ found[c] > found[d]

\* FindDuplicate: some release of this version exists.
Duplicate(c) == \E d \in Cands : rows[d] > 0 /\ VersionOf[d] = VersionOf[c]

\* The product is on the candidate, or is resolved from its hint by this run.
Attributed(r) == r.known \/ Match[r.cand] = "unique"

\* AssessSourceConflict: of the candidates other eligible sources stand for, those with
\* another version and no less authority.
Disputing(r) ==
    {d \in r.others :
        /\ VersionOf[d] # VersionOf[r.cand]
        /\ Authority[SourceOf[d]] >= Authority[SourceOf[r.cand]]}

\* RunValidationGates: any rejection decides, else any gate that wants a human.
Rejects(r) ==
    \/ ~Attributed(r) /\ Match[r.cand] = "none"
    \/ ~r.eligible \/ r.dup \/ r.cand \in Bogus
WantsReview(r) ==
    ~Attributed(r) \/ r.cand \in Doubtful \/ r.odd \/ Disputing(r) # {}
Verdict(r) ==
    CASE Rejects(r) -> "rejected"
      [] ~Rejects(r) /\ WantsReview(r) -> "review_required"
      [] OTHER -> "passed"

-----------------------------------------------------------------------------
(***************************************************************************)
(* Delivery.                                                               *)
(***************************************************************************)

Owe(ledger, keys) ==
    [k \in JobKeys |-> IF k \in keys /\ ledger[k] = "unknown" THEN "owed" ELSE ledger[k]]

Handles(p, k) == proc[p].kind = k[1] /\ proc[p].cand = k[2]

\* A free handler is given an owed job, whoever else still has it: leases lapse under
\* a live worker (JobQueue).
Takes(p, k) ==
    /\ jobs[k] = "owed"
    /\ proc[p] = Resting

\* The end of a delivery: recorded as succeeded if it is still owed, or after a mishap
\* not recorded at all.
Reported(ledger, k) ==
    \/ jobs' = [ledger EXCEPT ![k] = IF @ = "owed" THEN "succeeded" ELSE @]
    \/ k[2] \in Mishaps /\ jobs' = ledger

-----------------------------------------------------------------------------
(***************************************************************************)
(* ExtractCandidates.                                                      *)
(***************************************************************************)

\* UpsertByDedupeKey of candidates that have no row; of one that has, nothing is read again.
StoreCandidates(new) ==
    /\ cand' = [c \in Cands |-> IF c \in new THEN "extracted" ELSE cand[c]]
    /\ found' = [c \in Cands |->
           IF c \in new THEN 1 + Cardinality({d \in Cands : cand[d] # "absent"})
           ELSE found[c]]

\* One extraction of a source's artifact: the candidates it has not stored yet are
\* stored, each followed by its validation job; the known ones change nothing.  No
\* unit of work spans the two writes, so a mishap can leave one candidate without job.
Extract(s) ==
    \E new \in SUBSET {c \in Cands : SourceOf[c] = s /\ cand[c] = "absent"} :
    \E lost \in SUBSET new :
        /\ new # {}
        /\ lost = {} \/ (Torn /\ Cardinality(lost) = 1)
        /\ StoreCandidates(new)
        /\ jobs' = Owe(jobs, {"validate"} \X (new \ lost))
        /\ UNCHANGED <<resolved, results, standing, rows, latest, disputeVars,
                       proc, desk, historyVars>>

-----------------------------------------------------------------------------
(***************************************************************************)
(* ValidateCandidate.                                                      *)
(***************************************************************************)

\* ObservationsForProduct, as far as they count beside what s reports.
ObservationsBeside(s) ==
    {observed[t] : t \in {t \in Sources \ {s} : Eligible(t) /\ observed[t] # None}}

\* buildContext.  The duplicate and the plausibility baseline are only looked up for
\* a candidate whose product is already recorded, not for one resolved just now.
ReadForValidation(c) ==
    LET s == SourceOf[c]
        known == c \in resolved
    IN  [kind |-> "validate", cand |-> c, state |-> cand[c], known |-> known,
         dup |-> known /\ Duplicate(c),
         odd |-> known /\ <<latest, c>> \in Implausible,
         eligible |-> Eligible(s),
         newer |-> observed[s] = None \/ LaterObservation(c, observed[s]),
         others |-> ObservationsBeside(s)]

BeginValidate(p, c) ==
    /\ Takes(p, <<"validate", c>>)
    /\ proc' = [proc EXCEPT ![p] = ReadForValidation(c)]
    /\ UNCHANGED <<catalogueVars, disputeVars, standing, jobs, desk, historyVars>>

OpenItem(i) == items[i].state = "open"
OpenItemsAbout(subject) == {i \in ItemIds : OpenItem(i) /\ items[i].subject = subject}

\* UpsertOpenConflict: the conflict this validation refreshes or opens, as a set that is
\* empty only when ids have run out; {0} when there is no dispute to record.
ConflictsFor(r) ==
    LET open == {k \in ConflictIds : conflicts[k] = "open"}
        unused == {k \in ConflictIds : conflicts[k] = "unused"}
    IN  IF ~Attributed(r) \/ ~r.eligible \/ Disputing(r) = {} THEN {0}
        ELSE IF open # {} THEN open
        ELSE {k \in unused : \A l \in unused : k <= l}

RecordObservation(c) == observed' = [observed EXCEPT ![SourceOf[c]] = c]

CloseOpenConflict ==
    [l \in ConflictIds |-> IF conflicts[l] = "open" THEN "resolved" ELSE conflicts[l]]

\* reconcileConflict: record the observation; raise the conflict or close the open one.
ReconcileConflict(r, k) ==
    /\ IF Attributed(r) /\ r.eligible /\ r.newer
       THEN RecordObservation(r.cand) ELSE UNCHANGED observed
    /\ conflicts' =
        IF k # 0 THEN [conflicts EXCEPT ![k] = "open"]
        ELSE IF Attributed(r) /\ r.eligible THEN CloseOpenConflict ELSE conflicts

\* stillInDispute: whether the subject of an open item is still part of the dispute.
StillInDispute(i, want, r) ==
    IF items[i].subject \notin Cands THEN want \notin Cands
    ELSE items[i].subject \in r.others \union {r.cand}

\* Mutation: a stale item takes the wanted subject even if an open item has it.
RoutingOntoTaken(r, k, want) ==
    LET linked == IF k = 0 THEN {} ELSE {i \in ItemIds : i = link[k] /\ OpenItem(i)}
        about == OpenItemsAbout(want)
        unused == {i \in ItemIds : items[i].state = "unused"}
        existing == IF linked # {} THEN linked ELSE about
        stale == {i \in existing : ~StillInDispute(i, want, r)}
    IN  [targets |-> IF existing = {} THEN {i \in unused : \A j \in unused : i <= j}
                     ELSE existing,
         moves |-> existing = {} \/ stale # {},
         superseded |-> {items[i].subject : i \in stale}]

\* routeToReview: the item to write is the one linked to the conflict, else the one
\* about the same subject, else a new one.  A subject that dropped out of the dispute
\* gives way to the wanted one, unless an open item is about that already.
Routing(r, k, want) ==
    LET linked == IF k = 0 THEN {} ELSE {i \in ItemIds : i = link[k] /\ OpenItem(i)}
        about == OpenItemsAbout(want)
        unused == {i \in ItemIds : items[i].state = "unused"}
        existing == IF linked # {} THEN linked ELSE about
        stale == {i \in existing : ~StillInDispute(i, want, r)}
    IN  [targets |-> IF existing = {} THEN {i \in unused : \A j \in unused : i <= j}
                     ELSE IF stale # {} /\ about # {} THEN about
                     ELSE existing,
         moves |-> existing = {} \/ (stale # {} /\ about = {}),
         superseded |-> IF about = {} THEN {items[i].subject : i \in stale} ELSE {}]

\* What a reviewer reads of an item, all of which Retarget rewrites.
About(subject, k, involved) ==
    [state |-> "open", subject |-> subject, conflict |-> k, cands |-> involved]

Create(i, about) == items[i].state = "unused" /\ items' = [items EXCEPT ![i] = about]

Retarget(i, about) == OpenItem(i) /\ items' = [items EXCEPT ![i] = about]

LinkReviewItem(k, i) == link' = [l \in ConflictIds |-> IF l = k THEN i ELSE link[l]]

RouteToReview(r, k, want) ==
    LET route == Routing(r, k, want) IN
    \E i \in route.targets :
        /\ LET about == About(IF route.moves THEN want ELSE items[i].subject, k,
                              IF k = 0 THEN {} ELSE r.others \union {r.cand})
           IN  Create(i, about) \/ Retarget(i, about)
        /\ LinkReviewItem(k, i)

\* transition: the walk starts at the state that was read; each step overwrites the
\* stored state, whatever that is by now.
Walked(r) ==
    LET to == CASE Verdict(r) = "passed" -> "validated"
                [] Verdict(r) = "review_required" -> "human_review_required"
                [] Verdict(r) = "rejected" -> "rejected"
        path == PathTo(r.state, to)
    IN  IF path = <<>> THEN cand[r.cand] ELSE Last(path)

\* releaseSuperseded: a candidate no open item names any more is rejected.
Release(states, superseded) ==
    [d \in Cands |-> IF d \in superseded /\ states[d] = "human_review_required"
                     THEN "rejected" ELSE states[d]]

\* Mutation: what needs review is enqueued for publication as well.
FollowUpUnlessRejected(r) ==
    {<<"publish", c>> : c \in {c \in {r.cand} : Verdict(r) # "rejected"}}

FollowUp(r) == {<<"publish", c>> : c \in {c \in {r.cand} : Verdict(r) = "passed"}}

NeedsItem(r, k) == Verdict(r) = "review_required" \/ k # 0

SetResolvedProduct(c) == resolved' = resolved \union {d \in {c} : Match[d] = "unique"}

\* The verdicts of a validation replace those of the one before it.
RecordValidation(c, verdict) == results' = [results EXCEPT ![c] = verdict]

\* UpdateState writes whatever the row has become by now.
UpdateState(c, state) == [cand EXCEPT ![c] = state]

\* The unit of work, and the report of the job.
Validate(p) ==
    LET r == proc[p]
        c == r.cand
        verdict == Verdict(r)
    IN  /\ r.kind = "validate"
        /\ \E k \in ConflictsFor(r) :
            LET want == IF verdict = "review_required" THEN c ELSE k
                walked == UpdateState(c, Walked(r))
            IN  /\ ReconcileConflict(r, k)
                /\ IF NeedsItem(r, k)
                   THEN /\ RouteToReview(r, k, want)
                        /\ cand' = Release(walked, Routing(r, k, want).superseded)
                   ELSE /\ UNCHANGED <<items, link>>
                        /\ cand' = walked
        /\ SetResolvedProduct(c)
        /\ RecordValidation(c, verdict)
        /\ cleared' = cleared \union {d \in {c} : verdict = "passed"}
        /\ Reported(Owe(jobs, FollowUp(r)), <<"validate", c>>)
        /\ proc' = [proc EXCEPT ![p] = Resting]
        /\ UNCHANGED <<found, standing, rows, latest, desk, accepted, raced, hasty, misread>>

-----------------------------------------------------------------------------
(***************************************************************************)
(* PublishRelease.                                                         *)
(***************************************************************************)

\* Mutation: the permission is not asked for again.
PublishableAnyTerms(c) ==
    /\ cand[c] \in {"validated", "human_review_required"}
    /\ c \in resolved

Publishable(c) ==
    /\ cand[c] \in {"validated", "human_review_required"}
    /\ c \in resolved
    /\ PermitsCollection(SourceOf[c])

\* The handlers that have read the candidate and not written yet.
InHandsOf(c) == {p \in Procs : proc[p] # Resting /\ proc[p].cand = c}

\* The unit of work: the release is inserted, and takes the flag of the latest if it is
\* later than the release that was read as the latest.
InsertRelease(c, latestRead) ==
    /\ rows[c] < MaxRows
    /\ rows' = [rows EXCEPT ![c] = @ + 1]
    /\ latest' = IF latestRead = None \/ LaterRelease(c, latestRead) THEN c ELSE latest
    /\ cand' = UpdateState(c, "published")
    /\ hasty' = hasty \union (IF latestRead = latest THEN {} ELSE {c})

BeginPublish(p, c) ==
    /\ Takes(p, <<"publish", c>>)
    /\ Publishable(c)
    /\ proc' = [proc EXCEPT ![p] = [kind |-> "publish", cand |-> c, latest |-> latest]]
    /\ UNCHANGED <<catalogueVars, disputeVars, standing, jobs, desk, historyVars>>

Publish(p) ==
    /\ proc[p].kind = "publish"
    /\ InsertRelease(proc[p].cand, proc[p].latest)
    /\ raced' = raced \union {c \in {proc[p].cand} : InHandsOf(c) # {p}}
    /\ Reported(jobs, <<"publish", proc[p].cand>>)
    /\ proc' = [proc EXCEPT ![p] = Resting]
    /\ UNCHANGED <<resolved, found, results, standing, disputeVars, desk,
                   cleared, accepted, misread>>

\* Mutation: a job that may not publish is retried for ever.
PublishNothingForever(p, c) ==
    /\ Takes(p, <<"publish", c>>)
    /\ cand[c] = "published"
    /\ jobs' = [jobs EXCEPT ![<<"publish", c>>] = "succeeded"]
    /\ UNCHANGED <<catalogueVars, disputeVars, standing, proc, desk, historyVars>>

\* The job of a published candidate has nothing to do; that of a candidate that may not
\* be published fails until the queue gives it up.
PublishNothing(p, c) ==
    /\ Takes(p, <<"publish", c>>)
    /\ ~Publishable(c)
    /\ jobs' = [jobs EXCEPT ![<<"publish", c>>] =
           IF cand[c] = "published" THEN "succeeded" ELSE "dead"]
    /\ UNCHANGED <<catalogueVars, disputeVars, standing, proc, desk, historyVars>>

-----------------------------------------------------------------------------
(***************************************************************************)
(* DecideReviewItem.                                                       *)
(***************************************************************************)

\* The item is read before the unit of work; who decides it is free to take any.
BeginDecision(i) ==
    /\ OpenItem(i)
    /\ desk = Resting
    /\ desk' = [kind |-> "decide", item |-> i, subject |-> items[i].subject,
                conflict |-> items[i].conflict]
    /\ UNCHANGED <<catalogueVars, disputeVars, standing, jobs, proc, historyVars>>

\* Resolve and ResolveConflict find their rows open, or everything is rolled back.
DecisionHolds(d) ==
    /\ OpenItem(d.item)
    /\ d.conflict # 0 => conflicts[d.conflict] = "open"

\* Mutation: the conflict is left to be settled by hand.
CloseItemAlone(d) ==
    /\ items' = [items EXCEPT ![d.item] = [Blank EXCEPT !.state = "resolved"]]
    /\ UNCHANGED conflicts
    /\ misread' = misread \union {i \in {d.item} : items[i].conflict # d.conflict}

\* Of a closed item the model keeps only that its id is taken.
CloseItem(d) ==
    /\ items' = [items EXCEPT ![d.item] = [Blank EXCEPT !.state = "resolved"]]
    /\ conflicts' = [k \in ConflictIds |->
           IF k = d.conflict THEN "resolved" ELSE conflicts[k]]
    /\ misread' = misread \union {i \in {d.item} : items[i].conflict # d.conflict}

\* Accept runs PublishRelease inside the reviewer's unit of work.
AcceptSucceeds(d) ==
    /\ DecisionHolds(d)
    /\ d.subject \in Cands => cand[d.subject] = "published" \/ Publishable(d.subject)

\* Mutation: the item is all that is asked.
RejectSucceedsAnyState(d) == DecisionHolds(d)

RejectSucceeds(d) ==
    /\ DecisionHolds(d)
    /\ d.subject \in Cands => MayBecome(cand[d.subject], "rejected")

Accept ==
    /\ desk # Resting
    /\ AcceptSucceeds(desk)
    /\ CloseItem(desk)
    /\ IF desk.subject \in Cands /\ cand[desk.subject] # "published"
       THEN /\ InsertRelease(desk.subject, latest)
            /\ raced' = raced \union {c \in {desk.subject} : InHandsOf(c) # {}}
       ELSE UNCHANGED <<cand, rows, latest, raced, hasty>>
    /\ accepted' = accepted \union ({desk.subject} \intersect Cands)
    /\ desk' = Resting
    /\ UNCHANGED <<resolved, found, results, standing, observed, link, jobs, proc, cleared>>

Reject ==
    /\ desk # Resting
    /\ RejectSucceeds(desk)
    /\ CloseItem(desk)
    /\ cand' = [c \in Cands |-> IF c = desk.subject THEN "rejected" ELSE cand[c]]
    /\ desk' = Resting
    /\ UNCHANGED <<resolved, found, results, rows, latest, standing, observed, link,
                   jobs, proc, cleared, accepted, raced, hasty>>

\* The decision the reviewer sent was refused, and the unit of work rolled back.
Refused ==
    /\ desk # Resting
    /\ ~AcceptSucceeds(desk) \/ ~RejectSucceeds(desk)
    /\ desk' = Resting
    /\ UNCHANGED <<catalogueVars, disputeVars, standing, jobs, proc, historyVars>>

-----------------------------------------------------------------------------
(***************************************************************************)
(* The surroundings.                                                       *)
(***************************************************************************)

\* The handler dies, or its unit of work fails; the job stays owed.
Crash(p) ==
    /\ proc[p] # Resting /\ proc[p].cand \in Mishaps
    /\ proc' = [proc EXCEPT ![p] = Resting]
    /\ UNCHANGED <<catalogueVars, disputeVars, standing, jobs, desk, historyVars>>

\* An operator or the health of the source decides anew.
StandingChanges(s) ==
    /\ \E v \in {"eligible", "unhealthy", "prohibited"} \ {standing[s]} :
           standing' = [standing EXCEPT ![s] = v]
    /\ UNCHANGED <<catalogueVars, disputeVars, jobs, proc, desk, historyVars>>

Handler(p) ==
    \/ \E c \in Cands : BeginValidate(p, c) \/ BeginPublish(p, c) \/ PublishNothing(p, c)
    \/ Validate(p) \/ Publish(p) \/ Crash(p)

Reviewer == (\E i \in ItemIds : BeginDecision(i)) \/ Accept \/ Reject \/ Refused

Next ==
    \/ \E s \in Sources : Extract(s)
    \/ \E s \in Fickle : StandingChanges(s)
    \/ \E p \in Procs : Handler(p)
    \/ Reviewer

\* The queue delivers what is owed (JobQueue, EveryJobSettles), and a handler gets through:
\* all it waits for here are statements of the database, never a vendor.  No reviewer,
\* source or operator has to do anything.
Fairness ==
    /\ \A c \in Cands :
        /\ WF_vars(\E p \in Procs : BeginValidate(p, c))
        /\ WF_vars(\E p \in Procs : BeginPublish(p, c) \/ PublishNothing(p, c))
    /\ \A p \in Procs : WF_vars(Validate(p)) /\ WF_vars(Publish(p))

Spec == Init /\ [][Next]_vars
FairSpec == Spec /\ Fairness

-----------------------------------------------------------------------------
(***************************************************************************)
(* What holds however handlers and reviewers overlap.                      *)
(***************************************************************************)

\* Nothing becomes a release that neither passed every gate at some validation nor was
\* accepted by a reviewer, however late or stale the step that publishes it.
ReleasesWereCleared == \A c \in Cands : rows[c] > 0 => c \in cleared \union accepted

\* The queue of a reviewer stays short: one open item per subject and one open conflict,
\* whatever validations raced to file them (rules 1 and 3 of routeToReview).
QueueHasNoDoubles ==
    /\ \A i, j \in ItemIds :
        OpenItem(i) /\ OpenItem(j) /\ items[i].subject = items[j].subject => i = j
    /\ Cardinality({k \in ConflictIds : conflicts[k] = "open"}) <= 1

\* A takedown stops what it can: once a source is prohibited, nothing of it is published
\* but by a handler that had checked before, and a reviewer's acceptance never is.
TakedownHolds ==
    [][\A c \in Cands :
          rows'[c] > rows[c] /\ ~PermitsCollection(SourceOf[c]) =>
              \E p \in Procs : Handles(p, <<"publish", c>>) /\ proc'[p] = Resting]_vars

\* Every validation that was enqueued is decided, and what passed is not left unpublished
\* unless its job was refused: the pipeline has no step after which nothing follows.
EveryCandidateIsJudged ==
    \A c \in Cands :
        /\ jobs[<<"validate", c>>] = "owed" ~> results[c] # None
        /\ jobs[<<"publish", c>>] = "owed" ~>
               rows[c] > 0 \/ jobs[<<"publish", c>>] = "dead"

\* Each candidate becomes one release, and the newest is marked as the latest.  The two
\* exceptions are what the reads before the unit of work cost (ingest.go, Execute): a
\* candidate published while another use case had read it may be released again, and a
\* release published on an outdated read of the latest may get the mark wrongly.
Shown == INSTANCE Catalogue
    WITH seen <- found, shelf <- rows, newest <- latest, contended <- raced, blind <- hasty

ImplementsCatalogue == Shown!CatalogueSpec

\* A candidate is published exactly when there is a release of it, and then only one: no
\* later or concurrent validation, rejection or superseding takes a published candidate
\* back (candidate.go: "Notably absent: any edge back from published"), unless it was
\* published while another handler had read it already.
PublishedIsFinal ==
    \A c \in Cands \ raced :
        rows[c] <= 1 /\ (cand[c] = "published" <=> rows[c] = 1)

\* A recorded disagreement reaches a human: the item an open conflict is linked to is
\* open and names the conflict, so that deciding the one settles the other; unless the
\* item was decided as it had been before a validation made it the conflict's.
ConflictHasItem ==
    \A k \in ConflictIds : conflicts[k] = "open" =>
        \/ link[k] \in misread
        \/ link[k] # 0 /\ OpenItem(link[k]) /\ items[link[k]].conflict = k

-----------------------------------------------------------------------------
(***************************************************************************)
(* What the documents or comments say and the code does not do.            *)
(***************************************************************************)

\* review.go: accepting its review item is "the one path by which a candidate that failed
\* a gate becomes a published release".
FailedGateNeedsHuman ==
    \A c \in Cands :
        cand[c] = "published" /\ results[c] = "review_required" => c \in accepted

\* ADR-0020: "A reviewer opening the queue a week later still has something to resolve":
\* of every open item some decision is possible.
ItemsAreDecidable ==
    \A i \in ItemIds :
        LET d == [item |-> i, subject |-> items[i].subject, conflict |-> items[i].conflict]
        IN  OpenItem(i) => AcceptSucceeds(d) \/ RejectSucceeds(d)
=============================================================================
