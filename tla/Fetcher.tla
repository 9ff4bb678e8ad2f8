------------------------------ MODULE Fetcher ------------------------------
(***************************************************************************)
(* Fetching from one registered host (internal/adapters/fetch): the guard  *)
(* asks robots.txt, paces and limits the requests to the host, follows     *)
(* redirects under the address policy and classifies the answer.           *)
(*                                                                         *)
(* Calls of Fetch run at once, in the goroutines of one process, and share *)
(* the cached robots policy, the host's next send time and its slots.  The *)
(* host answers, stalls and changes its robots.txt as it likes.            *)
(***************************************************************************)
EXTENDS SourceHealth, Integers, FiniteSets

CONSTANTS
    Procs,           \* concurrent calls of Fetch
    Impatient,       \* those whose callers may give up
    Policies,        \* what robots.txt may say: [allows, delay] (PolicyOf of Robots)
    Slots,           \* perHostConcurrency
    MinHostInterval, \* minHostInterval, 0 where it is not set
    RobotsTTL,       \* how long a known policy is trusted
    NegativeTTL,     \* how long an unknown one is remembered
    MaxRedirects,    \* the redirect budget of the guard
    Stalls,          \* who may go silent in the middle of a body: "robots", "page"
    None,
    MaxTransit,      \* bound of the model: how long an answer is on its way
    MaxNow           \* bound of the model: the last instant

Unknown == [known |-> FALSE]

ASSUME FetcherAssumption ==
    /\ Policies \subseteq [allows : BOOLEAN, delay : Nat]
    /\ IsFiniteSet(Procs) /\ Impatient \subseteq Procs
    /\ Slots \in Nat \ {0}
    /\ {MinHostInterval, RobotsTTL, NegativeTTL, MaxRedirects} \subseteq Nat
    /\ {MaxTransit, MaxNow} \subseteq Nat
    /\ Stalls \subseteq {"robots", "page"}
    /\ None \notin Procs \union Nat
    /\ None \notin [known : {TRUE}, says : Policies, at : Nat] \union [known : {FALSE}, at : Nat]

VARIABLES
    now,
    \* the host's robots.txt, Unknown while it has none to give and fails
    robots,
    \* the cached entry of the host, and the call that fetches it under the entry's mutex
    entry, asking,
    \* the robots.txt on its way, if the host has answered; whether it stopped half way
    wire, stalled,
    \* hostNext, and the taken places of hostSem
    hostNext, taken,
    \* the calls, and what the one that ended in this step returns
    call, verdict,
    \* history: paced requests sent; since when the page has been disallowed; the last
    \* instant at which the policy could not be had
    paced, barredAt, faultAt

siteVars == <<robots, barredAt>>
cacheVars == <<entry, asking, wire, stalled>>
hostVars == <<hostNext, taken>>
vars == <<now, robots, entry, asking, wire, stalled, hostNext, taken,
          call, verdict, paced, barredAt, faultAt>>

Instants == 0..MaxNow

\* until is the instant the call has reserved, hops the redirects it has followed,
\* begun the instant it was made.
Stages == {"idle", "robots", "crawling", "queueing", "pacing", "sending"}
Calls == [stage : Stages, until : Instants, hops : 0..MaxRedirects, begun : Instants,
          cancelled : BOOLEAN, crawls : BOOLEAN]

TypeOK ==
    /\ now \in Instants
    /\ robots \in Policies \union {Unknown}
    /\ entry \in {None} \union [known : {TRUE}, says : Policies, at : Instants]
                        \union [known : {FALSE}, at : Instants]
    /\ asking \in Procs \union {None}
    /\ wire \in {None} \union [says : Policies \union {Unknown}, at : Instants]
    /\ stalled \in BOOLEAN
    /\ hostNext \in Nat
    /\ taken \in 0..Slots
    /\ call \in [Procs -> Calls]
    /\ verdict \in Outcomes \union {None}
    /\ paced \in Nat
    /\ barredAt \in Instants \union {None}
    /\ faultAt \in Instants \union {None}

Later(a, b) == IF a >= b THEN a ELSE b

\* The next permitted send time of the host.
NextSend == Later(hostNext, now)

Idle == [stage |-> "idle", until |-> 0, hops |-> 0, begun |-> 0,
         cancelled |-> FALSE, crawls |-> FALSE]

Init ==
    /\ now = 0
    /\ robots \in Policies
    /\ entry = None /\ asking = None /\ wire = None /\ stalled = FALSE
    /\ hostNext = 0 /\ taken = 0
    /\ call = [p \in Procs |-> Idle] /\ verdict = None
    /\ paced = 0
    /\ barredAt = IF robots.allows THEN None ELSE 0
    /\ faultAt = None

-----------------------------------------------------------------------------
(***************************************************************************)
(* The beginning and the end of a call.                                    *)
(***************************************************************************)

\* ValidateURL refuses the registered URL: its name is blocked, or its address.
RefuseURL(p) ==
    /\ call[p].stage = "idle"
    /\ verdict' \in {"suspicious_content", "manual_review_required"}
    /\ UNCHANGED <<now, siteVars, cacheVars, hostVars, call, paced, faultAt>>

\* The longest a call may reserve of the host's time.
Longest == MinHostInterval +
    (CHOOSE d \in {0} \union {policy.delay : policy \in Policies} :
        \A policy \in Policies : policy.delay <= d)

In(stages) == {p \in Procs : call[p].stage \in stages}

\* The host's time that the calls under way have still to reserve.
OwedTime == Cardinality(In({"robots"})) * Longest
            + Cardinality(In({"crawling", "queueing"})) * MinHostInterval

\* Bound of the model: a call is made only if the clock can serve all of them.
TimeLeft == NextSend + OwedTime + Longest <= MaxNow

Begin(p) ==
    /\ call[p].stage = "idle"
    /\ TimeLeft
    /\ call' = [call EXCEPT ![p] = [Idle EXCEPT !.stage = "robots", !.begun = now]]
    /\ verdict' = None
    /\ UNCHANGED <<now, siteVars, cacheVars, hostVars, paced, faultAt>>

\* The caller gives up: its context is done.
Cancel(p) ==
    /\ p \in Impatient
    /\ call[p].stage # "idle"
    /\ ~call[p].cancelled
    /\ call' = [call EXCEPT ![p].cancelled = TRUE]
    /\ verdict' = None
    /\ UNCHANGED <<now, siteVars, cacheVars, hostVars, paced, faultAt>>

-----------------------------------------------------------------------------
(***************************************************************************)
(* Pacing.  A send time is reserved under the lock, waited for outside it. *)
(***************************************************************************)

\* Mutation: after a pause of the host, the reservation is not recorded.
ReserveOnlyAhead(interval) ==
    hostNext' = IF hostNext > now THEN hostNext + interval ELSE hostNext

\* A reservation is not given back when the wait is cancelled.
Reserve(interval) == hostNext' = NextSend + interval

-----------------------------------------------------------------------------
(***************************************************************************)
(* robots.txt.                                                             *)
(***************************************************************************)

\* A failure is remembered for a shorter time than an answer.
Lifetime(e) == IF e.known THEN RobotsTTL ELSE NegativeTTL

Fresh == entry # None /\ now - entry.at < Lifetime(entry)

\* Fetch goes on by what the policy says: it refuses, paces by the delay, or queues.
Proceed(p, e) ==
    \/ /\ ~(e.known /\ e.says.allows)
       /\ call' = [call EXCEPT ![p] = Idle]
       /\ verdict' = "manual_review_required"
       /\ UNCHANGED hostNext
    \/ /\ e.known /\ e.says.allows /\ e.says.delay > 0
       /\ Reserve(e.says.delay)
       /\ call' = [call EXCEPT ![p].stage = "crawling", ![p].crawls = TRUE,
                               ![p].until = NextSend]
       /\ verdict' = None
    \/ /\ e.known /\ e.says.allows /\ e.says.delay = 0
       /\ call' = [call EXCEPT ![p].stage = "queueing"]
       /\ verdict' = None
       /\ UNCHANGED hostNext

\* Mutation: every use of the entry renews it.
UseCachedRenewing(p) ==
    /\ call[p].stage = "robots"
    /\ asking = None
    /\ Fresh
    /\ Proceed(p, entry)
    /\ entry' = [entry EXCEPT !.at = now]
    /\ UNCHANGED <<now, siteVars, asking, wire, stalled, taken, paced, faultAt>>

UseCached(p) ==
    /\ call[p].stage = "robots"
    /\ asking = None
    /\ Fresh
    /\ Proceed(p, entry)
    /\ UNCHANGED <<now, siteVars, cacheVars, taken, paced, faultAt>>

\* The mutex is held from here on, and whoever waits for it cannot be cancelled.
Ask(p) ==
    /\ call[p].stage = "robots"
    /\ asking = None
    /\ ~Fresh
    /\ asking' = p
    /\ verdict' = None
    /\ UNCHANGED <<now, siteVars, entry, wire, stalled, hostVars, call, paced, faultAt>>

\* The host answers: 2xx with its file, 4xx for none, anything else is no policy.
Serve ==
    /\ asking # None /\ wire = None /\ ~stalled
    /\ wire' = [says |-> robots, at |-> now]
    /\ faultAt' = IF robots = Unknown THEN now ELSE faultAt
    /\ verdict' = None
    /\ UNCHANGED <<now, siteVars, entry, asking, stalled, hostVars, call, paced>>

\* The host begins to answer and never ends: no deadline covers this request.
StallRobots ==
    /\ "robots" \in Stalls
    /\ asking # None /\ wire = None /\ ~stalled
    /\ stalled' = TRUE
    /\ verdict' = None
    /\ UNCHANGED <<now, siteVars, entry, asking, wire, hostVars, call, paced, faultAt>>

EntryOf(says) ==
    IF says = Unknown THEN [known |-> FALSE, at |-> now]
    ELSE [known |-> TRUE, says |-> says, at |-> now]

\* Mutation: the mutex stays locked when there is no policy to remember.
RememberLocked(p, says) ==
    /\ entry' = EntryOf(says)
    /\ Proceed(p, EntryOf(says))
    /\ asking' = IF says = Unknown THEN asking ELSE None
    /\ wire' = None /\ stalled' = FALSE
    /\ UNCHANGED <<now, siteVars, taken, paced>>

\* What was asked is cached, whatever it is, and the mutex is released.
Remember(p, says) ==
    /\ entry' = EntryOf(says)
    /\ Proceed(p, EntryOf(says))
    /\ asking' = None /\ wire' = None /\ stalled' = FALSE
    /\ UNCHANGED <<now, siteVars, taken, paced>>

Answered(p) ==
    /\ asking = p /\ wire # None
    /\ Remember(p, wire.says)
    /\ UNCHANGED faultAt

\* A cancelled caller leaves an unknown policy behind, for everyone.
AskCancelled(p) ==
    /\ asking = p
    /\ call[p].cancelled
    /\ Remember(p, Unknown)
    /\ faultAt' = now

-----------------------------------------------------------------------------
(***************************************************************************)
(* The slot of the host and the request.                                   *)
(***************************************************************************)

CrawlElapsed(p) ==
    /\ call[p].stage = "crawling"
    /\ call[p].until <= now
    /\ call' = [call EXCEPT ![p].stage = "queueing", ![p].until = 0]
    /\ verdict' = None
    /\ UNCHANGED <<now, siteVars, cacheVars, hostVars, paced, faultAt>>

\* acquireHost: a place of the semaphore, then the interval that is set for every host.
TakeSlot(p) ==
    /\ call[p].stage = "queueing"
    /\ taken < Slots
    /\ taken' = taken + 1
    /\ call' = [call EXCEPT ![p].stage = "pacing",
                            ![p].until = IF MinHostInterval > 0 THEN NextSend ELSE now]
    /\ IF MinHostInterval > 0 THEN Reserve(MinHostInterval) ELSE UNCHANGED hostNext
    /\ verdict' = None
    /\ UNCHANGED <<now, siteVars, cacheVars, paced, faultAt>>

Send(p) ==
    /\ call[p].stage = "pacing"
    /\ call[p].until <= now
    /\ call' = [call EXCEPT ![p].stage = "sending", ![p].until = 0]
    /\ paced' = IF call[p].crawls THEN paced + 1 ELSE paced
    /\ verdict' = None
    /\ UNCHANGED <<now, siteVars, cacheVars, hostVars, faultAt>>

Holding == {"pacing", "sending"}

\* Every way out of Fetch releases what the call holds.
Leave(p, outcome) ==
    /\ call' = [call EXCEPT ![p] = Idle]
    /\ verdict' = outcome
    /\ taken' = IF call[p].stage \in Holding THEN taken - 1 ELSE taken
    /\ UNCHANGED <<now, siteVars, cacheVars, hostNext, paced, faultAt>>

GiveUp(p) ==
    /\ call[p].cancelled
    /\ call[p].stage \in {"crawling", "queueing", "pacing", "sending"}
    /\ Leave(p, "unavailable")

\* The answers of the host, by what Fetch makes of them.  What comes from another host
\* than the registered one is not read.
OutcomeOf == [
    notModified |-> "unchanged", ok |-> "changed", badType |-> "parser_failed",
    tooLarge |-> "suspicious_content", badEncoding |-> "suspicious_content",
    cutShort |-> "unavailable", credentials |-> "unauthorized",
    tooMany |-> "rate_limited", gone |-> "unavailable", noLocation |-> "redirected",
    offHost |-> "redirected", serverError |-> "unavailable"]

Respond(p) ==
    /\ call[p].stage = "sending"
    /\ \E answer \in DOMAIN OutcomeOf : Leave(p, OutcomeOf[answer])

\* A redirect within the host is followed, up to the budget.
Redirect(p) ==
    /\ call[p].stage = "sending"
    /\ call[p].hops < MaxRedirects
    /\ call' = [call EXCEPT ![p].hops = @ + 1]
    /\ verdict' = None
    /\ UNCHANGED <<now, siteVars, cacheVars, hostVars, paced, faultAt>>

RedirectOnceMore(p) ==
    /\ call[p].stage = "sending"
    /\ call[p].hops = MaxRedirects
    /\ Leave(p, "unavailable")

\* A name or an address of the chain is denied, at the hop or at connect.
Deny(p) ==
    /\ call[p].stage = "sending"
    /\ Leave(p, "suspicious_content")

\* The request's own deadline, which covers its body.
Timeout(p) ==
    /\ call[p].stage = "sending"
    /\ "page" \in Stalls
    /\ Leave(p, "unavailable")

-----------------------------------------------------------------------------
(***************************************************************************)
(* The surroundings.                                                       *)
(***************************************************************************)

Barred(policy) == policy # Unknown /\ ~policy.allows

RobotsChanges ==
    /\ \E policy \in (Policies \union {Unknown}) \ {robots} :
        /\ robots' = policy
        /\ barredAt' = CASE policy = Unknown -> barredAt
                         [] policy # Unknown /\ ~Barred(policy) -> None
                         [] Barred(policy) -> IF barredAt = None THEN now ELSE barredAt
    /\ verdict' = None
    /\ UNCHANGED <<now, cacheVars, hostVars, call, paced, faultAt>>

\* Bounds of the model: an answer arrives MaxTransit after it was given, or earlier, and
\* the clock leaves time for what the calls have still to reserve.
Tick ==
    /\ now < MaxNow
    /\ wire # None => now - wire.at < MaxTransit
    /\ Later(hostNext, now + 1) + OwedTime <= MaxNow
    /\ now' = now + 1
    /\ verdict' = None
    /\ UNCHANGED <<siteVars, cacheVars, hostVars, call, paced, faultAt>>

\* Steps that wait for nothing another call holds.
Proceeds(p) ==
    \/ Answered(p) \/ CrawlElapsed(p) \/ Send(p)
    \/ Respond(p) \/ RedirectOnceMore(p) \/ Timeout(p)

\* Steps that wait for the mutex or for a place of the semaphore.
Acquires(p) == UseCached(p) \/ Ask(p) \/ TakeSlot(p)

Next ==
    \/ \E p \in Procs :
        \/ RefuseURL(p) \/ Begin(p) \/ Acquires(p) \/ Proceeds(p)
        \/ Redirect(p) \/ Deny(p)
        \/ Cancel(p) \/ AskCancelled(p) \/ GiveUp(p)
    \/ Serve \/ StallRobots
    \/ RobotsChanges
    \/ Tick

\* The goroutines run, Go's semaphore and mutex serve their waiters in turn, a request
\* for a page ends at its deadline, the host answers for its robots.txt, and the clock
\* goes on.  No caller has to cancel anything.
Fairness ==
    /\ WF_vars(Tick) /\ WF_vars(Serve)
    /\ \A p \in Procs : WF_vars(Proceeds(p)) /\ SF_vars(Acquires(p))

Spec == Init /\ [][Next]_vars
FairSpec == Spec /\ Fairness

-----------------------------------------------------------------------------
(***************************************************************************)
(* Properties.                                                             *)
(***************************************************************************)

Delays == {policy.delay : policy \in Policies} \ {0}

\* A crawl delay is kept on the average: of n paced requests the last one is sent when
\* n - 1 delays have passed, although cancelled calls, slots and changes of the delay
\* come between reserving a send time and using it.
RateHolds == \A d \in Delays : (\A e \in Delays : d <= e) => (paced - 1) * d <= now

\* A host that has disallowed the page for the lifetime of a policy and the time it takes
\* to arrive gets no more requests for it, save from calls made before.
DisallowTakesEffect ==
    \A p \in Procs :
        call[p].stage \in {"crawling", "queueing"} \union Holding /\ barredAt # None
            => call[p].begun < barredAt + RobotsTTL + MaxTransit

\* A call is refused for want of a policy only if the policy could not be had within the
\* shorter lifetime: a fault is not remembered longer than that, not even when waiting
\* calls take it from one another.
UnknownIsBrief ==
    \A p \in Procs :
        call[p].stage = "robots" /\ call'[p].stage = "idle" /\ ~entry'.known
            => faultAt' # None /\ now - faultAt' < NegativeTTL + MaxTransit

\* What a host says of itself is known soon enough, be it a refusal or that it is back.
RobotsIsRecent == [][DisallowTakesEffect' /\ UnknownIsBrief]_vars

\* Every call ends, whatever the others hold, reserve or ask for, if no host falls silent
\* in the middle of a robots.txt.
FetchesEnd == []~stalled => \A p \in Procs : call[p].stage # "idle" ~> call[p].stage = "idle"

=============================================================================
