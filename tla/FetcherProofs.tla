---------------------------- MODULE FetcherProofs ----------------------------
(***************************************************************************)
(* Proofs about Fetcher, for any calls, policies, slots, intervals and     *)
(* lifetimes: a crawl delay is kept, and what a host says of itself is     *)
(* known soon enough, whoever is cancelled, waits or asks when.            *)
(*                                                                         *)
(* The second part is about Rules: when a source is checked next, and      *)
(* where the fetcher may connect to; the third about the matcher of        *)
(* robots.txt.                                                             *)
(***************************************************************************)
EXTENDS Fetcher, Rules, FiniteSetTheorems, WellFoundedInduction, TLAPS

CallShape == [stage : Stages, until : Nat, hops : Nat, begun : Nat,
              cancelled : BOOLEAN, crawls : BOOLEAN]
KnownEntry == [known : {TRUE}, says : Policies, at : Nat]
UnknownEntry == [known : {FALSE}, at : Nat]

\* A call was made before now, and reserves nothing as long as it asks for robots.txt.
Sound(c, at) == c.begun <= at /\ (c.stage \in {"idle", "robots"} => ~c.crawls)

\* Of the types what the arguments need.
Shape ==
    /\ now \in Nat /\ hostNext \in Nat /\ paced \in Nat
    /\ robots \in Policies \union {Unknown}
    /\ entry \in {None} \union KnownEntry \union UnknownEntry
    /\ wire \in {None} \union [says : Policies \union {Unknown}, at : Nat]
    /\ call \in [Procs -> CallShape]
    /\ \A p \in Procs : Sound(call[p], now)
    /\ asking # None => asking \in Procs /\ call[asking].stage = "robots"

-----------------------------------------------------------------------------
(***************************************************************************)
(* What a step does to the one call that takes it.                         *)
(***************************************************************************)

LEMMA OneCall ==
    ASSUME Shape, NEW p \in Procs, NEW c \in CallShape, call' = [call EXCEPT ![p] = c],
           Sound(c, now)
    PROVE  /\ call' \in [Procs -> CallShape]
           /\ call'[p] = c
           /\ \A q \in Procs \ {p} : call'[q] = call[q]
           /\ \A q \in Procs : Sound(call'[q], now)
BY DEF Shape

LEMMA IdleCall ==
    ASSUME Shape
    PROVE  /\ Idle \in CallShape /\ Sound(Idle, now)
           /\ Idle.stage = "idle" /\ ~Idle.crawls /\ Idle.begun = 0
BY DEF Idle, CallShape, Stages, Shape, Sound

LEMMA Constants ==
    /\ MinHostInterval \in Nat /\ RobotsTTL \in Nat /\ NegativeTTL \in Nat /\ MaxTransit \in Nat
    /\ \A policy \in Policies : policy.allows \in BOOLEAN /\ policy.delay \in Nat
    /\ Unknown \notin Policies
    /\ IsFiniteSet(Procs)
<1>1. Unknown \notin [allows : BOOLEAN, delay : Nat]
    BY DEF Unknown
<1> QED
    BY <1>1, FetcherAssumption

LEMMA NextSendIs ==
    ASSUME Shape
    PROVE  NextSend \in Nat /\ NextSend >= hostNext /\ NextSend >= now
BY DEF Shape, NextSend, Later

\* The ways on from the policy: refused, paced, queued.
Refused(p, e) ==
    /\ ~(e.known /\ e.says.allows)
    /\ call' = [call EXCEPT ![p] = Idle] /\ hostNext' = hostNext
Crawls(p, e, c) ==
    /\ e.known /\ e.says.allows /\ e.says.delay > 0
    /\ hostNext' = NextSend + e.says.delay
    /\ c.crawls /\ c.stage = "crawling" /\ c.until = NextSend
Queues(p, e, c) ==
    /\ e.known /\ e.says.allows
    /\ hostNext' = hostNext
    /\ ~c.crawls /\ c.stage = "queueing"

LEMMA Proceeded ==
    ASSUME Shape, NEW p \in Procs, call[p].stage = "robots", NEW e, Proceed(p, e)
    PROVE  \/ Refused(p, e)
           \/ \E c \in CallShape : /\ call' = [call EXCEPT ![p] = c]
                                   /\ c.begun = call[p].begun
                                   /\ Crawls(p, e, c) \/ Queues(p, e, c)
<1>1. call[p] \in CallShape /\ ~call[p].crawls /\ NextSend \in Nat
    BY NextSendIs DEF Shape, Sound
<1>2. CASE /\ e.known /\ e.says.allows /\ e.says.delay > 0
           /\ Reserve(e.says.delay)
           /\ call' = [call EXCEPT ![p].stage = "crawling", ![p].crawls = TRUE,
                                   ![p].until = NextSend]
    <2> DEFINE c == [call[p] EXCEPT !.stage = "crawling", !.crawls = TRUE, !.until = NextSend]
    <2>1. c \in CallShape /\ c.begun = call[p].begun /\ Crawls(p, e, c)
        BY <1>1, <1>2 DEF CallShape, Stages, Crawls, Reserve
    <2>2. call' = [call EXCEPT ![p] = c]
        BY <1>2 DEF Shape
    <2> QED
        BY <2>1, <2>2
<1>3. CASE /\ e.known /\ e.says.allows /\ e.says.delay = 0
           /\ call' = [call EXCEPT ![p].stage = "queueing"] /\ UNCHANGED hostNext
    <2> DEFINE c == [call[p] EXCEPT !.stage = "queueing"]
    <2>1. c \in CallShape /\ c.begun = call[p].begun /\ Queues(p, e, c)
        BY <1>1, <1>3 DEF CallShape, Stages, Queues
    <2>2. call' = [call EXCEPT ![p] = c]
        BY <1>3 DEF Shape
    <2> QED
        BY <2>1, <2>2
<1>4. CASE /\ ~(e.known /\ e.says.allows)
           /\ call' = [call EXCEPT ![p] = Idle] /\ UNCHANGED hostNext
    BY <1>4 DEF Refused
<1> QED
    BY <1>2, <1>3, <1>4 DEF Proceed
\* The stages of a call that the policy has let through.
Late == {"crawling", "queueing"} \union Holding

\* What a call has reserved of the crawl delay and not used, and whether it may use it by t.
Reserves(c) == c.crawls /\ c.stage \in {"crawling", "queueing", "pacing"}
Waits(c, t) ==
    c.crawls /\ (c.stage \in {"queueing", "pacing"} \/ (c.stage = "crawling" /\ c.until <= t))

\* A step by which no call gets further than robots.txt.
Watches ==
    /\ UNCHANGED <<call, hostNext, paced>>
    /\ now' \in {now, now + 1}
    /\ asking' # None => asking' \in Procs /\ call[asking'].stage = "robots"

\* A step of a call that is not about robots.txt.
Advances(p, c) ==
    /\ call' = [call EXCEPT ![p] = c] /\ Sound(c, now)
    /\ c.stage \in Late => call[p].stage \in Late /\ c.begun = call[p].begun
    /\ call[p].stage = "robots" => c.stage = "robots"
    /\ asking' = asking
    /\ now' = now /\ hostNext' \in Nat /\ hostNext' >= hostNext
\* It reserves nothing.
Eases(p, c) ==
    /\ paced' = paced
    /\ Reserves(c) => Reserves(call[p])
    /\ \A t \in Nat : t >= now /\ Waits(c, t) => Waits(call[p], t)
\* It sends the request it has waited for.
Spends(p, c) ==
    /\ call[p].stage = "pacing" /\ c.stage = "sending" /\ hostNext' = hostNext
    /\ paced' = IF call[p].crawls THEN paced + 1 ELSE paced

\* A call learns the policy and goes on by it.
Learns(p) ==
    /\ call[p].stage = "robots" /\ Proceed(p, entry') /\ entry' \in KnownEntry \union UnknownEntry
    /\ RobotsTTL > 0 /\ NegativeTTL > 0 => now - entry'.at < Lifetime(entry')
    /\ asking' = None
    /\ UNCHANGED <<now, paced>>

LEMMA Remembered ==
    ASSUME Shape, NEW says \in Policies \union {Unknown}
    PROVE  /\ EntryOf(says) \in KnownEntry \union UnknownEntry
           /\ EntryOf(says).at = now
           /\ EntryOf(says).known = (says # Unknown)
           /\ says # Unknown => EntryOf(says).says = says
BY DEF Shape, EntryOf, KnownEntry, UnknownEntry

\* A call that ends, by whatever outcome, gives nothing of the host's time back.
LEMMA Left ==
    ASSUME Shape, NEW p \in Procs, NEW outcome, Leave(p, outcome), call[p].stage \in Late
    PROVE  Advances(p, Idle) /\ Eases(p, Idle)
<1>1. /\ call' = [call EXCEPT ![p] = Idle] /\ hostNext' = hostNext /\ paced' = paced
      /\ now' = now /\ hostNext \in Nat /\ asking' = asking
    BY DEF Leave, Shape, cacheVars
<1>2. Sound(Idle, now) /\ Idle.stage = "idle" /\ ~Idle.crawls
    BY IdleCall
<1>3. "idle" \notin Late /\ "robots" \notin Late
    BY DEF Late, Holding
<1> QED
    BY <1>1, <1>2, <1>3 DEF Advances, Eases, Reserves, Waits

LEMMA CallSteps ==
    ASSUME Shape, [Next]_vars
    PROVE  \/ Watches
           \/ \E p \in Procs, c \in CallShape : Advances(p, c) /\ (Eases(p, c) \/ Spends(p, c))
           \/ \E p \in Procs : Learns(p)
<1> DEFINE Goal == \/ Watches
                   \/ \E p \in Procs, c \in CallShape :
                          Advances(p, c) /\ (Eases(p, c) \/ Spends(p, c))
                   \/ \E p \in Procs : Learns(p)
<1>0. /\ now \in Nat /\ hostNext \in Nat /\ paced \in Nat
      /\ \A p \in Procs : call[p] \in CallShape /\ Sound(call[p], now)
    BY DEF Shape
<1>1. CASE Serve \/ StallRobots \/ RobotsChanges \/ Tick \/ UNCHANGED vars
    BY <1>1 DEF Serve, StallRobots, RobotsChanges, Tick, vars, hostVars, cacheVars, Watches, Shape
<1>2. ASSUME NEW p \in Procs, RefuseURL(p) \/ Ask(p) PROVE Goal
    BY <1>2 DEF RefuseURL, Ask, hostVars, cacheVars, Watches, Shape
<1>3. ASSUME NEW p \in Procs, Begin(p) PROVE Goal
    <2> DEFINE c == [Idle EXCEPT !.stage = "robots", !.begun = now]
    <2>1. c \in CallShape /\ c.stage = "robots" /\ c.begun = now /\ ~c.crawls
        BY <1>0 DEF Idle, CallShape, Stages
    <2>2. /\ call' = [call EXCEPT ![p] = c]
          /\ call[p].stage = "idle" /\ UNCHANGED <<now, hostNext, paced, asking>>
        BY <1>3 DEF Begin, hostVars, cacheVars
    <2> HIDE DEF c
    <2>3. Advances(p, c) /\ Eases(p, c)
        BY <1>0, <2>1, <2>2 DEF Advances, Eases, Sound, Late, Holding, Reserves, Waits
    <2> QED
        BY <2>1, <2>3
<1>4. ASSUME NEW p \in Procs, Cancel(p) PROVE Goal
    <2> DEFINE c == [call[p] EXCEPT !.cancelled = TRUE]
    <2>1. /\ c \in CallShape /\ c.stage = call[p].stage /\ c.begun = call[p].begun
          /\ c.crawls = call[p].crawls /\ c.until = call[p].until
        BY <1>0 DEF CallShape
    <2>2. /\ call' = [call EXCEPT ![p] = c] /\ UNCHANGED <<now, hostNext, paced, asking>>
        BY <1>4 DEF Cancel, hostVars, cacheVars, Shape
    <2> HIDE DEF c
    <2>3. Advances(p, c) /\ Eases(p, c)
        BY <1>0, <2>1, <2>2 DEF Advances, Eases, Sound, Reserves, Waits
    <2> QED
        BY <2>1, <2>3
<1>5. ASSUME NEW p \in Procs, CrawlElapsed(p) PROVE Goal
    <2> DEFINE c == [call[p] EXCEPT !.stage = "queueing", !.until = 0]
    <2>1. /\ c \in CallShape /\ c.stage = "queueing" /\ c.begun = call[p].begun
          /\ c.crawls = call[p].crawls
        BY <1>0 DEF CallShape, Stages
    <2>2. /\ call' = [call EXCEPT ![p] = c] /\ UNCHANGED <<now, hostNext, paced, asking>>
          /\ call[p].stage = "crawling" /\ call[p].until <= now
        BY <1>5 DEF CrawlElapsed, hostVars, cacheVars, Shape
    <2> HIDE DEF c
    <2>3. call[p].until \in Nat
        BY <1>0 DEF CallShape
    <2>4. Advances(p, c) /\ Eases(p, c)
        BY <1>0, <2>1, <2>2, <2>3
           DEF Advances, Eases, Sound, Late, Holding, Reserves, Waits
    <2> QED
        BY <2>1, <2>4
<1>6. ASSUME NEW p \in Procs, TakeSlot(p) PROVE Goal
    <2> DEFINE u == IF MinHostInterval > 0 THEN NextSend ELSE now
               c == [call[p] EXCEPT !.stage = "pacing", !.until = u]
    <2>0. u \in Nat
        BY <1>0, NextSendIs
    <2>1. /\ c \in CallShape /\ c.stage = "pacing" /\ c.begun = call[p].begun
          /\ c.crawls = call[p].crawls
        BY <1>0, <2>0 DEF CallShape, Stages
    <2>2. /\ call' = [call EXCEPT ![p] = c] /\ UNCHANGED <<now, paced, asking>>
          /\ call[p].stage = "queueing"
        BY <1>6 DEF TakeSlot, cacheVars, Shape
    <2>3. hostNext' \in Nat /\ hostNext' >= hostNext
        BY <1>0, <1>6, NextSendIs, Constants DEF TakeSlot, Reserve
    <2> HIDE DEF c
    <2>4. Advances(p, c) /\ Eases(p, c)
        BY <1>0, <2>1, <2>2, <2>3
           DEF Advances, Eases, Sound, Late, Holding, Reserves, Waits
    <2> QED
        BY <2>1, <2>4
<1>7. ASSUME NEW p \in Procs, Send(p) PROVE Goal
    <2> DEFINE c == [call[p] EXCEPT !.stage = "sending", !.until = 0]
    <2>1. c \in CallShape /\ c.stage = "sending" /\ c.begun = call[p].begun
        BY <1>0 DEF CallShape, Stages
    <2>2. /\ call' = [call EXCEPT ![p] = c] /\ UNCHANGED <<now, hostNext, asking>>
          /\ call[p].stage = "pacing"
          /\ paced' = IF call[p].crawls THEN paced + 1 ELSE paced
        BY <1>7 DEF Send, hostVars, cacheVars, Shape
    <2> HIDE DEF c
    <2>3. Advances(p, c) /\ Spends(p, c)
        BY <1>0, <2>1, <2>2 DEF Advances, Spends, Sound, Late, Holding
    <2> QED
        BY <2>1, <2>3
<1>8. ASSUME NEW p \in Procs, Redirect(p) PROVE Goal
    <2> DEFINE c == [call[p] EXCEPT !.hops = @ + 1]
    <2>1. /\ c \in CallShape /\ c.stage = call[p].stage /\ c.begun = call[p].begun
          /\ c.crawls = call[p].crawls /\ c.until = call[p].until
        BY <1>0 DEF CallShape
    <2>2. /\ call' = [call EXCEPT ![p] = c] /\ UNCHANGED <<now, hostNext, paced, asking>>
        BY <1>8 DEF Redirect, hostVars, cacheVars, Shape
    <2> HIDE DEF c
    <2>3. Advances(p, c) /\ Eases(p, c)
        BY <1>0, <2>1, <2>2 DEF Advances, Eases, Sound, Reserves, Waits
    <2> QED
        BY <2>1, <2>3
<1>9. ASSUME NEW p \in Procs,
             GiveUp(p) \/ Respond(p) \/ RedirectOnceMore(p) \/ Deny(p) \/ Timeout(p)
      PROVE  Goal
    <2>1. /\ call[p].stage \in Late
          /\ \E outcome : Leave(p, outcome)
        BY <1>9 DEF GiveUp, Respond, RedirectOnceMore, Deny, Timeout, Late, Holding
    <2> QED
        BY <2>1, Left, IdleCall
<1>10. ASSUME NEW p \in Procs, UseCached(p) PROVE Goal
    <2>1. entry # None /\ entry' = entry /\ asking' = None /\ now - entry.at < Lifetime(entry)
        BY <1>10 DEF UseCached, cacheVars, Fresh
    <2> QED
        BY <1>10, <2>1 DEF UseCached, Learns, Shape
<1>11. ASSUME NEW p \in Procs, call[p].stage = "robots",
              NEW says \in Policies \union {Unknown}, Remember(p, says)
       PROVE  Goal
    <2>1. EntryOf(says).at = now /\ now - now = 0
        BY <1>0, Remembered
    <2>2. RobotsTTL > 0 /\ NegativeTTL > 0 => 0 < Lifetime(EntryOf(says))
        BY DEF Lifetime
    <2> QED
        BY <1>11, <2>1, <2>2, Remembered DEF Remember, Learns
<1>12. ASSUME NEW p \in Procs, Answered(p) \/ AskCancelled(p) PROVE Goal
    <2>1. call[p].stage = "robots"
        BY <1>12, FetcherAssumption DEF Answered, AskCancelled, Shape
    <2>2. \E says \in Policies \union {Unknown} : Remember(p, says)
        BY <1>12 DEF Answered, AskCancelled, Shape
    <2> QED
        BY <1>11, <2>1, <2>2
<1> QED
    BY <1>1, <1>2, <1>3, <1>4, <1>5, <1>6, <1>7, <1>8, <1>9, <1>10, <1>12
       DEF Next, Acquires, Proceeds
LEMMA ShapeInit == Init => Shape
<1> SUFFICES ASSUME Init PROVE Shape
    OBVIOUS
<1>1. Idle \in CallShape /\ Sound(Idle, 0)
    BY DEF Idle, CallShape, Stages, Sound
<1> QED
    BY <1>1 DEF Init, Shape

\* What is known of the host changes in form as little as it does in time.
LEMMA SiteShape ==
    ASSUME Shape, [Next]_vars
    PROVE  /\ robots' \in Policies \union {Unknown}
           /\ entry' \in {None} \union KnownEntry \union UnknownEntry
           /\ wire' \in {None} \union [says : Policies \union {Unknown}, at : Nat]
<1> DEFINE Goal == /\ robots' \in Policies \union {Unknown}
                   /\ entry' \in {None} \union KnownEntry \union UnknownEntry
                   /\ wire' \in {None} \union [says : Policies \union {Unknown}, at : Nat]
<1>1. ASSUME UNCHANGED <<robots, entry, wire>> PROVE Goal
    BY <1>1 DEF Shape
<1>2. CASE Serve
    BY <1>2 DEF Serve, siteVars, Shape
<1>3. CASE RobotsChanges
    BY <1>3 DEF RobotsChanges, cacheVars, Shape
<1>4. CASE StallRobots \/ Tick \/ UNCHANGED vars
    BY <1>1, <1>4 DEF StallRobots, Tick, vars, siteVars, cacheVars
<1>5. ASSUME NEW p \in Procs, NEW says \in Policies \union {Unknown}, Remember(p, says)
      PROVE  Goal
    BY <1>5, Remembered DEF Remember, siteVars, Shape
<1>6. ASSUME NEW p \in Procs, Answered(p) \/ AskCancelled(p) PROVE Goal
    BY <1>5, <1>6 DEF Answered, AskCancelled, Shape
<1>7. ASSUME NEW p \in Procs, Respond(p) \/ RedirectOnceMore(p) \/ Timeout(p) \/ Deny(p)
                              \/ GiveUp(p)
      PROVE  Goal
    BY <1>1, <1>7 DEF Respond, RedirectOnceMore, Timeout, Deny, GiveUp, Leave, siteVars,
                      cacheVars
<1>8. ASSUME NEW p \in Procs, RefuseURL(p) \/ Begin(p) \/ Acquires(p) \/ CrawlElapsed(p)
                              \/ Send(p) \/ Redirect(p) \/ Cancel(p)
      PROVE  Goal
    BY <1>1, <1>8 DEF RefuseURL, Begin, Acquires, UseCached, Ask, TakeSlot, CrawlElapsed, Send,
                      Redirect, Cancel, siteVars, cacheVars
<1> QED
    BY <1>2, <1>3, <1>4, <1>6, <1>7, <1>8 DEF Next, Proceeds

\* However a call learns the policy, it goes on as the call it was.
LEMMA LearnedCall ==
    ASSUME Shape, NEW p \in Procs, Learns(p)
    PROVE  \E c \in CallShape :
               /\ call' = [call EXCEPT ![p] = c] /\ Sound(c, now)
               /\ \/ c = Idle /\ Refused(p, entry')
                  \/ c.begun = call[p].begun /\ (Crawls(p, entry', c) \/ Queues(p, entry', c))
<1>1. call[p].stage = "robots" /\ Proceed(p, entry') /\ call[p].begun <= now
    BY DEF Learns, Shape, Sound
<1>2. CASE Refused(p, entry')
    BY <1>2, IdleCall DEF Refused
<1>3. CASE \E c \in CallShape : /\ call' = [call EXCEPT ![p] = c]
                                /\ c.begun = call[p].begun
                                /\ Crawls(p, entry', c) \/ Queues(p, entry', c)
    BY <1>1, <1>3 DEF Crawls, Queues, Sound
<1> QED
    BY <1>1, <1>2, <1>3, Proceeded

LEMMA ShapeStep == Shape /\ [Next]_vars => Shape'
<1> SUFFICES ASSUME Shape, [Next]_vars PROVE Shape'
    OBVIOUS
<1>1. CASE Watches
    <2>1. now \in Nat /\ now' \in Nat /\ now' >= now
        BY <1>1 DEF Watches, Shape
    <2>2. \A p \in Procs : call[p] \in CallShape /\ Sound(call[p], now)
        BY DEF Shape
    <2>3. \A p \in Procs : Sound(call[p], now')
        BY <2>1, <2>2 DEF Sound, CallShape
    <2> QED
        BY <1>1, <2>1, <2>3, SiteShape DEF Watches, Shape
<1>2. ASSUME NEW p \in Procs, NEW c \in CallShape, Advances(p, c), Eases(p, c) \/ Spends(p, c)
      PROVE  Shape'
    <2>1. /\ call' \in [Procs -> CallShape] /\ call'[p] = c
          /\ \A q \in Procs \ {p} : call'[q] = call[q]
          /\ \A q \in Procs : Sound(call'[q], now)
        BY <1>2, OneCall DEF Advances
    <2>2. asking' # None => asking' \in Procs /\ call'[asking'].stage = "robots"
        BY <1>2, <2>1 DEF Advances, Shape
    <2>3. now' = now /\ hostNext' \in Nat /\ paced' \in Nat
        BY <1>2 DEF Advances, Eases, Spends, Shape
    <2> QED
        BY <2>1, <2>2, <2>3, SiteShape DEF Shape
<1>3. ASSUME NEW p \in Procs, Learns(p) PROVE Shape'
    <2>1. PICK c \in CallShape :
              /\ call' = [call EXCEPT ![p] = c] /\ Sound(c, now)
              /\ Refused(p, entry') \/ Crawls(p, entry', c) \/ Queues(p, entry', c)
        BY <1>3, LearnedCall
    <2>2. /\ call' \in [Procs -> CallShape]
          /\ \A q \in Procs : Sound(call'[q], now)
        BY <2>1, OneCall
    <2>3. hostNext' \in Nat
        <3>1. CASE hostNext' = hostNext
            BY <3>1 DEF Shape
        <3>2. CASE Crawls(p, entry', c)
            <4>1. entry' \in KnownEntry
                BY <1>3, <3>2 DEF Learns, Crawls, UnknownEntry
            <4>2. entry'.says.delay \in Nat
                BY <4>1, Constants DEF KnownEntry
            <4> QED
                BY <3>2, <4>2, NextSendIs DEF Crawls
        <3> QED
            BY <2>1, <3>1, <3>2 DEF Refused, Queues
    <2> QED
        BY <1>3, <2>2, <2>3, SiteShape DEF Shape, Learns
<1> QED
    BY <1>1, <1>2, <1>3, CallSteps

-----------------------------------------------------------------------------
(***************************************************************************)
(* The crawl delay.                                                        *)
(***************************************************************************)

Waiting(calls, t) == {p \in Procs : Waits(calls[p], t)}
Reserved(calls) == {p \in Procs : Reserves(calls[p])}

\* At any instant from now on, the requests that were sent and those that may be sent by
\* then are not more than the delay allows; and the next send time of the host is later than
\* all that was reserved.
Spaced(d) ==
    /\ \A t \in Nat : t >= now => (paced + Cardinality(Waiting(call, t)) - 1) * d <= t
    /\ (paced + Cardinality(Reserved(call))) * d <= hostNext

Shortest == {d \in Delays : \A e \in Delays : d <= e}
KeepsPace == \A d \in Shortest : Spaced(d)

LEMMA DelaysAreNumbers == Delays \subseteq Nat
BY Constants DEF Delays

LEMMA MultiplesAreOrdered ==
    ASSUME NEW a \in Int, NEW b \in Int, NEW d \in Nat, a <= b
    PROVE  a * d <= b * d
OBVIOUS

LEMMA NextMultiple ==
    ASSUME NEW a \in Int, NEW d \in Nat
    PROVE  (a + 1) * d = a * d + d /\ a * d \in Int
OBVIOUS

LEMMA Counted ==
    ASSUME NEW calls, NEW t
    PROVE  /\ IsFiniteSet(Waiting(calls, t)) /\ Cardinality(Waiting(calls, t)) \in Nat
           /\ IsFiniteSet(Reserved(calls)) /\ Cardinality(Reserved(calls)) \in Nat
           /\ Cardinality(Waiting(calls, t)) <= Cardinality(Reserved(calls))
<1>1. Waiting(calls, t) \in SUBSET Procs /\ Reserved(calls) \in SUBSET Procs
    BY DEF Waiting, Reserved
<1>2. Waiting(calls, t) \in SUBSET Reserved(calls)
    BY DEF Waiting, Reserved, Waits, Reserves
<1>3. IsFiniteSet(Reserved(calls)) /\ IsFiniteSet(Waiting(calls, t))
    BY <1>1, Constants, FS_Subset
<1> QED
    BY <1>2, <1>3, FS_Subset, FS_CardinalityType
\* With no more sent or reserved, and no earlier, the pace is kept.
LEMMA NoMore ==
    ASSUME Shape, NEW d \in Nat, Spaced(d), paced' = paced,
           now' \in Nat, now' >= now, hostNext' \in Nat, hostNext' >= hostNext,
           Reserved(call') \subseteq Reserved(call),
           \A t \in Nat : t >= now' => Waiting(call', t) \subseteq Waiting(call, t)
    PROVE  Spaced(d)'
<1>1. now \in Nat /\ paced \in Nat /\ hostNext \in Nat
    BY DEF Shape
<1>2. ASSUME NEW t \in Nat, t >= now'
      PROVE  (paced + Cardinality(Waiting(call', t)) - 1) * d <= t
    <2> DEFINE a == paced + Cardinality(Waiting(call', t)) - 1
               b == paced + Cardinality(Waiting(call, t)) - 1
    <2>1. Cardinality(Waiting(call', t)) <= Cardinality(Waiting(call, t))
        BY <1>2, Counted, FS_Subset
    <2>2. a \in Int /\ b \in Int /\ a <= b
        BY <1>1, <2>1, Counted
    <2>3. b * d <= t
        BY <1>1, <1>2 DEF Spaced
    <2> HIDE DEF a, b
    <2>4. a * d <= b * d /\ a * d \in Int /\ b * d \in Int
        BY <2>2, MultiplesAreOrdered, NextMultiple
    <2>5. a * d <= t
        BY <2>3, <2>4
    <2> QED
        BY <2>5 DEF a
<1>3. (paced + Cardinality(Reserved(call'))) * d <= hostNext'
    <2> DEFINE a == paced + Cardinality(Reserved(call'))
               b == paced + Cardinality(Reserved(call))
    <2>1. Cardinality(Reserved(call')) <= Cardinality(Reserved(call))
        BY Counted, FS_Subset
    <2>2. a \in Int /\ b \in Int /\ a <= b
        BY <1>1, <2>1, Counted
    <2>3. b * d <= hostNext
        BY DEF Spaced
    <2> HIDE DEF a, b
    <2>4. a * d <= b * d /\ a * d \in Int /\ b * d \in Int
        BY <2>2, MultiplesAreOrdered, NextMultiple
    <2>5. a * d <= hostNext'
        BY <1>1, <2>3, <2>4
    <2> QED
        BY <2>5 DEF a
<1> QED
    BY <1>2, <1>3 DEF Spaced

\* What was reserved is used.
LEMMA Used ==
    ASSUME Shape, NEW d \in Nat, Spaced(d), NEW p \in Procs, NEW c \in CallShape,
           Advances(p, c), Spends(p, c)
    PROVE  Spaced(d)'
<1>1. /\ call'[p] = c /\ \A q \in Procs \ {p} : call'[q] = call[q]
      /\ now' = now /\ hostNext' = hostNext /\ paced \in Nat
    BY OneCall DEF Advances, Spends, Shape
<1>2. \A t : ~Waits(c, t) /\ ~Reserves(c)
    BY DEF Spends, Waits, Reserves
<1>3. \A t : Waiting(call', t) = Waiting(call, t) \ {p}
    BY <1>1, <1>2 DEF Waiting
<1>4. Reserved(call') = Reserved(call) \ {p}
    BY <1>1, <1>2 DEF Reserved
<1>5. CASE call[p].crawls
    <2>1. p \in Reserved(call) /\ \A t : p \in Waiting(call, t)
        BY <1>5 DEF Spends, Waiting, Reserved, Waits, Reserves
    <2>2. paced' = paced + 1
        BY <1>5 DEF Spends
    <2>3. \A t : paced' + Cardinality(Waiting(call', t)) = paced + Cardinality(Waiting(call, t))
        <3> TAKE t
        <3>1. Cardinality(Waiting(call', t)) = Cardinality(Waiting(call, t)) - 1
            BY <1>3, <2>1, Counted, FS_RemoveElement
        <3> QED
            BY <1>1, <2>2, <3>1, Counted
    <2>4. paced' + Cardinality(Reserved(call')) = paced + Cardinality(Reserved(call))
        <3>1. Cardinality(Reserved(call')) = Cardinality(Reserved(call)) - 1
            BY <1>4, <2>1, Counted, FS_RemoveElement
        <3> QED
            BY <1>1, <2>2, <3>1, Counted
    <2>5. ASSUME NEW t \in Nat, t >= now
          PROVE  (paced' + Cardinality(Waiting(call', t)) - 1) * d <= t
        <3> DEFINE a == paced' + Cardinality(Waiting(call', t)) - 1
                   b == paced + Cardinality(Waiting(call, t)) - 1
        <3>1. a = b
            <4>1. paced' + Cardinality(Waiting(call', t)) = paced + Cardinality(Waiting(call, t))
                BY <2>3
            <4>2. /\ paced' \in Nat /\ Cardinality(Waiting(call', t)) \in Nat
                  /\ paced \in Nat /\ Cardinality(Waiting(call, t)) \in Nat
                BY <1>1, <2>2, Counted
            <4> QED
                BY <4>1, <4>2
        <3>2. b * d <= t
            BY <2>5 DEF Spaced
        <3> HIDE DEF a, b
        <3>3. a * d <= t
            BY <3>1, <3>2
        <3> QED
            BY <3>3 DEF a
    <2>6. (paced' + Cardinality(Reserved(call'))) * d <= hostNext
        <3>1. (paced + Cardinality(Reserved(call))) * d <= hostNext
            BY DEF Spaced
        <3> QED
            BY <2>4, <3>1
    <2> QED
        BY <1>1, <2>5, <2>6 DEF Spaced
<1>6. CASE ~call[p].crawls
    <2>1. paced' = paced
        BY <1>6 DEF Spends
    <2> QED
        BY <1>1, <1>3, <1>4, <2>1, NoMore DEF Shape
<1> QED
    BY <1>5, <1>6

\* A send time is reserved after all others, and the next one a delay later.
LEMMA Taken ==
    ASSUME Shape, NEW d \in Shortest, Spaced(d), NEW p \in Procs, NEW c \in CallShape,
           call[p].stage = "robots", call' = [call EXCEPT ![p] = c], Sound(c, now),
           entry' \in KnownEntry \union UnknownEntry, Crawls(p, entry', c),
           UNCHANGED <<now, paced>>
    PROVE  Spaced(d)'
<1> DEFINE delay == entry'.says.delay
           total == paced + Cardinality(Reserved(call))
<1>1. /\ call'[p] = c /\ \A q \in Procs \ {p} : call'[q] = call[q]
      /\ now \in Nat /\ paced \in Nat /\ hostNext \in Nat
    BY OneCall DEF Shape
<1>2. d \in Nat /\ delay \in Nat /\ d <= delay
    <2>1. entry'.says \in Policies /\ delay > 0
        BY DEF Crawls, KnownEntry, UnknownEntry
    <2>2. delay \in Delays /\ delay \in Nat
        BY <2>1, Constants DEF Delays
    <2> QED
        BY <2>2, DelaysAreNumbers DEF Shortest
<1>3. NextSend \in Nat /\ NextSend >= hostNext /\ NextSend >= now
    BY NextSendIs
<1>4. c.crawls /\ c.stage = "crawling" /\ c.until = NextSend /\ hostNext' = NextSend + delay
    BY DEF Crawls
<1>5. ~Reserves(call[p]) /\ \A t : ~Waits(call[p], t)
    BY DEF Reserves, Waits
<1>6. Reserved(call') = Reserved(call) \union {p} /\ p \notin Reserved(call)
    BY <1>1, <1>4, <1>5 DEF Reserved, Reserves
<1>7. Cardinality(Reserved(call')) = Cardinality(Reserved(call)) + 1
    BY <1>6, Counted, FS_AddElement
<1>8. total \in Nat /\ total * d <= hostNext /\ total * d \in Int
    <2>1. total \in Nat
        BY <1>1, Counted
    <2>2. total * d <= hostNext
        BY DEF Spaced
    <2> HIDE DEF total
    <2> QED
        BY <1>2, <2>1, <2>2, NextMultiple
<1>9. (paced + Cardinality(Reserved(call'))) * d <= hostNext'
    <2>1. paced + Cardinality(Reserved(call')) = total + 1
        BY <1>1, <1>7, Counted
    <2> HIDE DEF total, delay
    <2>2. (total + 1) * d = total * d + d
        BY <1>2, <1>8, NextMultiple
    <2> QED
        BY <1>1, <1>2, <1>3, <1>4, <1>8, <2>1, <2>2
<1>10. ASSUME NEW t \in Nat, t >= now
       PROVE  (paced + Cardinality(Waiting(call', t)) - 1) * d <= t
    <2>1. CASE t < NextSend
        <3>1. Waiting(call', t) = Waiting(call, t)
            BY <1>1, <1>3, <1>4, <1>5, <2>1 DEF Waiting, Waits
        <3> QED
            BY <1>10, <3>1 DEF Spaced
    <2>2. CASE t >= NextSend
        <3>1. Waiting(call', t) = Waiting(call, t) \union {p} /\ p \notin Waiting(call, t)
            BY <1>1, <1>3, <1>4, <1>5, <2>2 DEF Waiting, Waits
        <3>2. Cardinality(Waiting(call', t)) = Cardinality(Waiting(call, t)) + 1
            BY <3>1, Counted, FS_AddElement
        <3> DEFINE a == paced + Cardinality(Waiting(call', t)) - 1
        <3>3. a \in Int /\ a <= total
            BY <1>1, <3>2, Counted
        <3> HIDE DEF a, total, delay
        <3>4. a * d <= total * d /\ a * d \in Int
            BY <1>2, <1>8, <3>3, MultiplesAreOrdered, NextMultiple
        <3>5. a * d <= t
            BY <1>1, <1>3, <1>8, <2>2, <3>4
        <3> QED
            BY <3>5 DEF a
    <2> QED
        BY <1>3, <2>1, <2>2
<1> QED
    BY <1>9, <1>10 DEF Spaced

LEMMA PaceInit == Init => KeepsPace
<1> SUFFICES ASSUME Init, NEW d \in Shortest PROVE Spaced(d)
    BY DEF KeepsPace
<1>1. Reserved(call) = {} /\ \A t : Waiting(call, t) = {}
    BY DEF Init, Idle, Reserved, Waiting, Reserves, Waits
<1>2. Cardinality({}) = 0
    BY FS_EmptySet
<1>3. d \in Nat
    BY DelaysAreNumbers DEF Shortest
<1>4. 0 * d = 0 /\ (-1) * d <= 0 * d /\ (-1) * d \in Int
    BY <1>3, MultiplesAreOrdered, NextMultiple
<1>5. \A t : paced + Cardinality(Waiting(call, t)) - 1 = -1
    BY <1>1, <1>2 DEF Init
<1>6. paced + Cardinality(Reserved(call)) = 0
    BY <1>1, <1>2 DEF Init
<1>7. \A t \in Nat : (paced + Cardinality(Waiting(call, t)) - 1) * d <= t
    <2> SUFFICES ASSUME NEW t \in Nat
                 PROVE  (paced + Cardinality(Waiting(call, t)) - 1) * d <= t
        OBVIOUS
    <2>1. (-1) * d <= t
        BY <1>4
    <2> QED
        BY <1>5, <2>1
<1>8. (paced + Cardinality(Reserved(call))) * d <= hostNext
    <2>1. 0 * d <= hostNext
        BY <1>4 DEF Init
    <2> QED
        BY <1>6, <2>1
<1> QED
    BY <1>7, <1>8 DEF Spaced

LEMMA PaceStep == Shape /\ KeepsPace /\ [Next]_vars => KeepsPace'
<1> SUFFICES ASSUME Shape, KeepsPace, [Next]_vars, NEW d \in Shortest PROVE Spaced(d)'
    BY DEF KeepsPace
<1>1. d \in Nat /\ Spaced(d)
    BY DelaysAreNumbers DEF Shortest, KeepsPace
<1>2. now \in Nat /\ hostNext \in Nat
    BY DEF Shape
<1>3. CASE Watches
    BY <1>1, <1>2, <1>3, NoMore DEF Watches
<1>4. ASSUME NEW p \in Procs, NEW c \in CallShape, Advances(p, c), Eases(p, c)
      PROVE  Spaced(d)'
    <2>1. call'[p] = c /\ \A q \in Procs \ {p} : call'[q] = call[q]
        BY <1>4, OneCall DEF Advances
    <2>2. /\ Reserved(call') \subseteq Reserved(call)
          /\ \A t \in Nat : t >= now => Waiting(call', t) \subseteq Waiting(call, t)
        BY <1>4, <2>1 DEF Eases, Reserved, Waiting
    <2>3. /\ now' = now /\ paced' = paced
          /\ hostNext' \in Nat /\ hostNext' >= hostNext
        BY <1>4 DEF Advances, Eases
    <2>4. now' \in Nat /\ now' >= now
        BY <1>2, <2>3
    <2>5. \A t \in Nat : t >= now' => Waiting(call', t) \subseteq Waiting(call, t)
        BY <2>2, <2>3
    <2> QED
        BY <1>1, <2>2, <2>3, <2>4, <2>5, NoMore
<1>5. ASSUME NEW p \in Procs, NEW c \in CallShape, Advances(p, c), Spends(p, c)
      PROVE  Spaced(d)'
    BY <1>1, <1>5, Used
<1>6. ASSUME NEW p \in Procs, Learns(p) PROVE Spaced(d)'
    <2>1. PICK c \in CallShape :
              /\ call' = [call EXCEPT ![p] = c] /\ Sound(c, now)
              /\ \/ c = Idle /\ Refused(p, entry')
                 \/ Crawls(p, entry', c) \/ Queues(p, entry', c)
        BY <1>6, LearnedCall
    <2>2. CASE Crawls(p, entry', c)
        BY <1>1, <1>6, <2>1, <2>2, Taken DEF Learns
    <2>3. CASE (c = Idle /\ Refused(p, entry')) \/ Queues(p, entry', c)
        <3>1. ~c.crawls /\ hostNext' = hostNext
            BY <2>3, IdleCall DEF Refused, Queues
        <3>2. call'[p] = c /\ \A q \in Procs \ {p} : call'[q] = call[q]
            BY <2>1, OneCall
        <3>3. /\ Reserved(call') \subseteq Reserved(call)
              /\ \A t \in Nat : Waiting(call', t) \subseteq Waiting(call, t)
            BY <3>1, <3>2 DEF Reserved, Waiting, Reserves, Waits
        <3> QED
            BY <1>1, <1>2, <1>6, <3>1, <3>3, NoMore DEF Learns
    <2> QED
        BY <2>1, <2>2, <2>3
<1> QED
    BY <1>3, <1>4, <1>5, <1>6, CallSteps

\* However many calls wait at once, are cancelled, or meet a policy that has changed, the
\* requests a host gets keep its crawl delay on the average (fetcher.go: pace, and
\* acquireHost).
THEOREM CrawlDelayIsKept == Spec => []RateHolds
<1>1. Shape /\ KeepsPace => RateHolds
    <2> SUFFICES ASSUME Shape, KeepsPace, NEW d \in Delays, \A e \in Delays : d <= e
                 PROVE  (paced - 1) * d <= now
        BY DEF RateHolds
    <2> DEFINE n == Cardinality(Waiting(call, now))
               b == paced + n - 1
    <2>1. d \in Nat /\ Spaced(d) /\ now \in Nat /\ paced \in Nat /\ n \in Nat
        BY DelaysAreNumbers, Counted DEF KeepsPace, Shortest, Shape
    <2>2. b * d <= now
        BY <2>1 DEF Spaced
    <2>3. paced - 1 \in Int /\ b \in Int /\ paced - 1 <= b
        BY <2>1
    <2> HIDE DEF n, b
    <2>4. (paced - 1) * d <= b * d /\ (paced - 1) * d \in Int /\ b * d \in Int
        BY <2>1, <2>3, MultiplesAreOrdered, NextMultiple
    <2> QED
        BY <2>1, <2>2, <2>4
<1> QED
    BY <1>1, ShapeInit, ShapeStep, PaceInit, PaceStep, PTL DEF Spec
-----------------------------------------------------------------------------
(***************************************************************************)
(* What a host says of itself.                                             *)
(***************************************************************************)

\* What allows the page is no older than the time since it is disallowed; what tells of a
\* fault is no older than the fault.
Tells(says, at, age) ==
    /\ says # Unknown /\ says.allows => barredAt = None \/ at <= barredAt + age
    /\ says = Unknown => faultAt # None /\ at <= faultAt + age

OnTheWire == wire # None => /\ wire.at <= now /\ now <= wire.at + MaxTransit
                            /\ Tells(wire.says, wire.at, 0)

Cached == entry # None =>
    /\ entry.at <= now
    /\ Tells(IF entry.known THEN entry.says ELSE Unknown, entry.at, MaxTransit)

History ==
    /\ barredAt \in Nat \union {None} /\ faultAt \in Nat \union {None}
    /\ robots # Unknown /\ robots.allows => barredAt = None

Recent == History /\ OnTheWire /\ Cached /\ DisallowTakesEffect

LEMMA RecentInit == Init => Recent
<1> SUFFICES ASSUME Init PROVE Recent
    OBVIOUS
<1>1. \A p \in Procs : call[p].stage = "idle"
    BY DEF Init, Idle
<1> QED
    BY <1>1 DEF Init, Recent, History, OnTheWire, Cached, DisallowTakesEffect, Holding

\* Time and the host: what is remembered gets no older than it was.
LEMMA TellsStill ==
    ASSUME History, NEW says, NEW at \in Nat, NEW age \in Nat, Tells(says, at, age),
           faultAt' = faultAt \/ (faultAt' \in Nat /\ at <= faultAt'),
           barredAt' \in {barredAt, None} \/ (barredAt' \in Nat /\ at <= barredAt')
    PROVE  Tells(says, at, age)'
BY FetcherAssumption DEF Tells, History

\* The host's history changes by a change of its robots.txt, or by a failure to have it.
LEMMA HistoryChanges ==
    ASSUME Shape, History, [Next]_vars
    PROVE  /\ History'
           /\ faultAt' \in {faultAt, now}
           /\ barredAt' \in {barredAt, None} \/ (barredAt = None /\ barredAt' = now)
<1> DEFINE Goal == /\ History'
                   /\ faultAt' \in {faultAt, now}
                   /\ barredAt' \in {barredAt, None} \/ (barredAt = None /\ barredAt' = now)
<1>0. now \in Nat
    BY DEF Shape
<1>1. ASSUME UNCHANGED <<robots, barredAt>>, faultAt' \in {faultAt, now} PROVE Goal
    BY <1>0, <1>1 DEF History
<1>2. CASE RobotsChanges
    <2>1. PICK policy \in (Policies \union {Unknown}) \ {robots} :
              /\ robots' = policy
              /\ barredAt' = CASE policy = Unknown -> barredAt
                               [] policy # Unknown /\ ~Barred(policy) -> None
                               [] Barred(policy) -> IF barredAt = None THEN now ELSE barredAt
        BY <1>2 DEF RobotsChanges
    <2>2. faultAt' = faultAt
        BY <1>2 DEF RobotsChanges
    <2>3. CASE policy = Unknown
        <3>1. ~Barred(policy) /\ barredAt' = barredAt
            BY <2>1, <2>3 DEF Barred
        <3> QED
            BY <2>1, <2>2, <2>3, <3>1 DEF History
    <2>4. CASE policy # Unknown /\ ~Barred(policy)
        BY <2>1, <2>2, <2>4 DEF History, Barred
    <2>5. CASE Barred(policy)
        BY <1>0, <2>1, <2>2, <2>5 DEF History, Barred
    <2> QED
        BY <2>3, <2>4, <2>5
<1>3. CASE Serve \/ StallRobots \/ Tick \/ UNCHANGED vars
    BY <1>1, <1>3 DEF Serve, StallRobots, Tick, vars, siteVars
<1>4. ASSUME NEW p \in Procs, Answered(p) \/ AskCancelled(p) PROVE Goal
    BY <1>1, <1>4 DEF Answered, AskCancelled, Remember, siteVars
<1>5. ASSUME NEW p \in Procs, Respond(p) \/ RedirectOnceMore(p) \/ Timeout(p) \/ Deny(p)
                              \/ GiveUp(p)
      PROVE  Goal
    BY <1>1, <1>5 DEF Respond, RedirectOnceMore, Timeout, Deny, GiveUp, Leave, siteVars
<1>6. ASSUME NEW p \in Procs, RefuseURL(p) \/ Begin(p) \/ Acquires(p) \/ CrawlElapsed(p)
                              \/ Send(p) \/ Redirect(p) \/ Cancel(p)
      PROVE  Goal
    BY <1>1, <1>6 DEF RefuseURL, Begin, Acquires, UseCached, Ask, TakeSlot, CrawlElapsed, Send,
                      Redirect, Cancel, siteVars
<1> QED
    BY <1>2, <1>3, <1>4, <1>5, <1>6 DEF Next, Proceeds

\* The cached entry and the answer on its way: they stay, they go, or they are as recent
\* as what they come from.
Stays == entry' = entry
Comes == \/ asking # None /\ wire # None /\ entry' = EntryOf(wire.says) /\ faultAt' = faultAt
         \/ entry' = EntryOf(Unknown) /\ faultAt' = now
WireStays == wire' = wire /\ now' \in {now, now + 1}
             /\ (wire # None => now' <= now \/ now - wire.at < MaxTransit)
WireComes == wire' = [says |-> robots, at |-> now] /\ now' = now
             /\ faultAt' = (IF robots = Unknown THEN now ELSE faultAt)
             /\ UNCHANGED <<barredAt, entry>>
WireGoes == wire' = None /\ now' = now

LEMMA EntrySteps ==
    ASSUME Shape, [Next]_vars
    PROVE  /\ Stays \/ Comes
           /\ WireStays \/ WireComes \/ WireGoes
           /\ Comes /\ ~Stays => now' = now
<1> DEFINE Goal == /\ Stays \/ Comes
                   /\ WireStays \/ WireComes \/ WireGoes
                   /\ Comes /\ ~Stays => now' = now
<1>0. now \in Nat
    BY DEF Shape
<1>1. ASSUME UNCHANGED <<entry, wire, now>> PROVE Goal
    BY <1>0, <1>1 DEF Stays, WireStays
<1>2. CASE Serve
    BY <1>2 DEF Serve, Stays, WireComes, siteVars
<1>3. CASE Tick
    BY <1>0, <1>3 DEF Tick, Stays, WireStays, cacheVars
<1>4. CASE StallRobots \/ RobotsChanges \/ UNCHANGED vars
    BY <1>1, <1>4 DEF StallRobots, RobotsChanges, vars, cacheVars
<1>5. ASSUME NEW p \in Procs, Answered(p) PROVE Goal
    BY <1>5, FetcherAssumption DEF Answered, Remember, Comes, WireGoes
<1>6. ASSUME NEW p \in Procs, AskCancelled(p) PROVE Goal
    BY <1>6 DEF AskCancelled, Remember, Comes, WireGoes
<1>7. ASSUME NEW p \in Procs, Respond(p) \/ RedirectOnceMore(p) \/ Timeout(p) \/ Deny(p)
                              \/ GiveUp(p)
      PROVE  Goal
    BY <1>1, <1>7 DEF Respond, RedirectOnceMore, Timeout, Deny, GiveUp, Leave, cacheVars
<1>8. ASSUME NEW p \in Procs, RefuseURL(p) \/ Begin(p) \/ Acquires(p) \/ CrawlElapsed(p)
                              \/ Send(p) \/ Redirect(p) \/ Cancel(p)
      PROVE  Goal
    BY <1>1, <1>8 DEF RefuseURL, Begin, Acquires, UseCached, Ask, TakeSlot, CrawlElapsed, Send,
                      Redirect, Cancel, cacheVars
<1> QED
    BY <1>2, <1>3, <1>4, <1>5, <1>6, <1>7, <1>8 DEF Next, Proceeds
LEMMA RecentStep ==
    ASSUME RobotsTTL > 0, NegativeTTL > 0
    PROVE  Shape /\ Recent /\ [Next]_vars => Recent'
<1> SUFFICES ASSUME Shape, Recent, [Next]_vars PROVE Recent'
    OBVIOUS
<1>0. /\ Shape' /\ now \in Nat /\ RobotsTTL \in Nat /\ MaxTransit \in Nat
      /\ History /\ OnTheWire /\ Cached /\ DisallowTakesEffect
    BY ShapeStep, Constants DEF Shape, Recent
<1>1. /\ History'
      /\ faultAt' \in {faultAt, now}
      /\ barredAt' \in {barredAt, None} \/ (barredAt = None /\ barredAt' = now)
    BY <1>0, HistoryChanges
<1>2. /\ Stays \/ Comes
      /\ WireStays \/ WireComes \/ WireGoes
      /\ Comes /\ ~Stays => now' = now
    BY EntrySteps
<1>3. ASSUME NEW says, NEW at \in Nat, NEW age \in Nat, Tells(says, at, age), at <= now
      PROVE  Tells(says, at, age)'
    <2>1. faultAt' = faultAt \/ (faultAt' \in Nat /\ at <= faultAt')
        BY <1>0, <1>1, <1>3
    <2>2. barredAt' \in {barredAt, None} \/ (barredAt' \in Nat /\ at <= barredAt')
        BY <1>0, <1>1, <1>3
    <2> QED
        BY <1>0, <1>3, <2>1, <2>2, TellsStill
<1>4. OnTheWire'
    <2>1. CASE WireStays
        <3> SUFFICES ASSUME wire # None
                     PROVE  wire.at <= now' /\ now' <= wire.at + MaxTransit
                            /\ Tells(wire.says, wire.at, 0)'
            BY <2>1 DEF WireStays, OnTheWire
        <3>1. wire.at \in Nat /\ wire.at <= now /\ now <= wire.at + MaxTransit
              /\ Tells(wire.says, wire.at, 0)
            BY <1>0 DEF OnTheWire, Shape
        <3>2. Tells(wire.says, wire.at, 0)'
            BY <1>3, <3>1, <2>1 DEF WireStays
        <3> QED
            BY <1>0, <2>1, <3>1, <3>2 DEF WireStays
    <2>2. CASE WireComes
        <3>1. wire'.at = now /\ wire'.says = robots /\ now' = now /\ barredAt' = barredAt
            BY <2>2 DEF WireComes
        <3>2. robots = Unknown => faultAt' = now
            BY <2>2 DEF WireComes
        <3>3. Tells(wire.says, wire.at, 0)'
            BY <1>0, <3>1, <3>2, FetcherAssumption DEF Tells, History
        <3> QED
            BY <1>0, <3>1, <3>3 DEF OnTheWire
    <2>3. CASE WireGoes
        BY <2>3 DEF WireGoes, OnTheWire
    <2> QED
        BY <1>2, <2>1, <2>2, <2>3
<1>5. Cached'
    <2>0. now' \in Nat /\ now' >= now
        BY <1>0, <1>2 DEF WireStays, WireComes, WireGoes
    <2>1. CASE Stays
        <3> SUFFICES ASSUME entry # None
                     PROVE  /\ entry.at <= now'
                            /\ Tells(IF entry.known THEN entry.says ELSE Unknown, entry.at,
                                     MaxTransit)'
            BY <2>1 DEF Stays, Cached
        <3>1. /\ entry.at \in Nat /\ entry.at <= now
              /\ Tells(IF entry.known THEN entry.says ELSE Unknown, entry.at, MaxTransit)
            BY <1>0 DEF Cached, Shape, KnownEntry, UnknownEntry
        <3> QED
            BY <1>0, <1>3, <2>0, <2>1, <3>1 DEF Stays
    <2>2. ASSUME NEW says \in Policies \union {Unknown}, entry' = EntryOf(says), now' = now,
                 Tells(says, now, MaxTransit)'
          PROVE  Cached'
        <3>1. entry'.at = now /\ (IF entry'.known THEN entry'.says ELSE Unknown) = says
            BY <2>2, Remembered
        <3> QED
            BY <1>0, <2>2, <3>1 DEF Cached
    <2>3. ASSUME asking # None, wire # None, entry' = EntryOf(wire.says), faultAt' = faultAt,
                 now' = now
          PROVE  Cached'
        <3>1. /\ wire.says \in Policies \union {Unknown} /\ wire.at \in Nat
              /\ now <= wire.at + MaxTransit /\ Tells(wire.says, wire.at, 0)
            BY <1>0, <2>3 DEF OnTheWire, Shape
        <3>2. PICK says, at : says = wire.says /\ at = now
            OBVIOUS
        <3>3. Tells(says, at, MaxTransit)
            BY <1>0, <3>1, <3>2, FetcherAssumption DEF Tells, History
        <3>4. Tells(says, at, MaxTransit)'
            BY <1>0, <1>3, <3>2, <3>3
        <3>5. Tells(says, now, MaxTransit)'
            BY <2>3, <3>2, <3>4
        <3> QED
            BY <2>2, <2>3, <3>1, <3>2, <3>5
    <2>4. ASSUME entry' = EntryOf(Unknown), faultAt' = now, now' = now PROVE Cached'
        <3>1. Tells(Unknown, now, MaxTransit)'
            BY <1>0, <2>4, FetcherAssumption DEF Tells
        <3> QED
            BY <2>2, <2>4, <3>1
    <2> QED
        BY <1>2, <2>1, <2>3, <2>4 DEF Comes
<1>6. DisallowTakesEffect'
    <2> DEFINE Limit == barredAt' + RobotsTTL + MaxTransit
    <2> SUFFICES ASSUME NEW q \in Procs, call'[q].stage \in Late, barredAt' # None
                 PROVE  call'[q].begun < Limit
        BY DEF DisallowTakesEffect, Late
    <2>1. barredAt' \in Nat /\ Limit \in Nat
        <3>1. barredAt' \in Nat
            BY <1>1 DEF History
        <3>2. \A b \in Nat : b + RobotsTTL + MaxTransit \in Nat
            BY Constants
        <3> QED
            BY <3>1, <3>2
    <2>2. /\ \A p \in Procs : call[p] \in CallShape /\ call[p].begun \in Nat
                              /\ call[p].begun <= now
        BY DEF Shape, Sound, CallShape
    <2>3. ASSUME NEW r \in Procs, call[r].stage \in Late PROVE call[r].begun < Limit
        <3>1. CASE barredAt' = barredAt
            BY <1>0, <2>3, <3>1 DEF DisallowTakesEffect, Late
        <3>2. CASE barredAt' = now
            BY <1>0, <2>1, <2>2, <3>2
        <3> QED
            BY <1>1, <3>1, <3>2
    <2>4. CASE Watches
        BY <2>3, <2>4 DEF Watches
    <2>5. ASSUME NEW p \in Procs, NEW c \in CallShape, Advances(p, c) PROVE call'[q].begun < Limit
        <3>1. call'[p] = c /\ \A r \in Procs \ {p} : call'[r] = call[r]
            BY <2>5, OneCall DEF Advances
        <3> QED
            BY <2>3, <2>5, <3>1 DEF Advances
    <2>6. ASSUME NEW p \in Procs, Learns(p) PROVE call'[q].begun < Limit
        <3>1. PICK c \in CallShape :
                  /\ call' = [call EXCEPT ![p] = c] /\ Sound(c, now)
                  /\ \/ c = Idle /\ Refused(p, entry')
                     \/ Crawls(p, entry', c) \/ Queues(p, entry', c)
            BY <2>6, LearnedCall
        <3>2. call'[p] = c /\ \A r \in Procs \ {p} : call'[r] = call[r]
            BY <3>1, OneCall
        <3>3. CASE q # p
            BY <2>3, <3>2, <3>3
        <3>4. CASE q = p
            <4>1. c # Idle
                BY <3>2, <3>4, IdleCall DEF Late, Holding
            <4>2. entry'.known /\ entry'.says.allows /\ entry' \in KnownEntry \union UnknownEntry
                BY <2>6, <3>1, <4>1 DEF Crawls, Queues, Learns
            <4>3. entry' \in KnownEntry /\ entry' # None /\ entry'.says # Unknown
                  /\ entry'.at \in Nat
                BY <4>2, <1>0, <1>5, Constants, FetcherAssumption
                   DEF KnownEntry, UnknownEntry, Shape
            <4>4. entry'.at <= barredAt' + MaxTransit
                BY <1>5, <2>1, <4>2, <4>3 DEF Cached, Tells
            <4>5. now - entry'.at < RobotsTTL
                BY <1>0, <2>6, <4>2 DEF Learns, Lifetime
            <4>6. c.begun \in Nat /\ c.begun <= now
                BY <3>1 DEF Sound, CallShape
            <4> QED
                BY <1>0, <2>1, <3>2, <3>4, <4>3, <4>4, <4>5, <4>6
        <3> QED
            BY <3>3, <3>4
    <2> QED
        BY <2>4, <2>5, <2>6, CallSteps
<1> QED
    BY <1>1, <1>4, <1>5, <1>6 DEF Recent

LEMMA UnknownStaysBrief ==
    ASSUME RobotsTTL > 0, NegativeTTL > 0
    PROVE  Shape /\ Recent /\ [Next]_vars => UnknownIsBrief
<1> SUFFICES ASSUME Shape, Recent, [Next]_vars, NEW q \in Procs,
                    call[q].stage = "robots", call'[q].stage = "idle", ~entry'.known
             PROVE  faultAt' # None /\ now - faultAt' < NegativeTTL + MaxTransit
    BY DEF UnknownIsBrief
<1>1. Learns(q)
    <2>1. ~Watches
        BY DEF Watches
    <2>2. ASSUME NEW p \in Procs, NEW c \in CallShape, Advances(p, c) PROVE FALSE
        <3>1. call'[p] = c /\ \A r \in Procs \ {p} : call'[r] = call[r]
            BY <2>2, OneCall DEF Advances
        <3> QED
            BY <2>2, <3>1 DEF Advances
    <2>3. ASSUME NEW p \in Procs, Learns(p), p # q PROVE FALSE
        <3>1. PICK c \in CallShape : call' = [call EXCEPT ![p] = c] /\ Sound(c, now)
            BY <2>3, LearnedCall
        <3> QED
            BY <2>3, <3>1, OneCall
    <2> QED
        BY <2>1, <2>2, <2>3, CallSteps
<1>2. Cached' /\ History' /\ now \in Nat
    BY RecentStep DEF Recent, Shape
<1>3. entry' \in KnownEntry \union UnknownEntry /\ entry' # None /\ entry'.at \in Nat
    BY <1>1, FetcherAssumption DEF Learns, KnownEntry, UnknownEntry
<1>4. faultAt' # None /\ entry'.at <= faultAt' + MaxTransit
    BY <1>2, <1>3 DEF Cached, Tells
<1>5. now - entry'.at < NegativeTTL
    BY <1>1 DEF Learns, Lifetime
<1>6. faultAt' \in Nat
    BY <1>2, <1>4 DEF History
<1> QED
    BY <1>2, <1>3, <1>4, <1>5, <1>6, Constants

\* A host that shuts its page, or is back from a fault, is heard as soon as what was cached
\* of it runs out, although calls share the cache, wait for it and take it from one another
\* (robots.go: RobotsCache.policyFor and its two lifetimes).  A lifetime of nothing, which the options
\* would take, is left out: then nothing is reused, and the bound is not a strict one.
THEOREM HostIsHeardSoon ==
    ASSUME RobotsTTL > 0, NegativeTTL > 0
    PROVE  Spec => RobotsIsRecent
<1>1. Shape /\ Recent /\ [Next]_vars => [DisallowTakesEffect' /\ UnknownIsBrief]_vars
    BY RecentStep, UnknownStaysBrief DEF Recent
<1> QED
    BY <1>1, ShapeInit, ShapeStep, RecentInit, RecentStep, PTL DEF Spec, RobotsIsRecent
-----------------------------------------------------------------------------
(***************************************************************************)
(* Rules, for any histories and any URLs: what the policy promised of a    *)
(* product bounds the wait, and the guard of the fetcher has no hole.      *)
(***************************************************************************)
\* A history whose durations are numbers.
Durations(in) == in.configured \in Int /\ in.retryAfter \in Int /\ in.freshness \in Int

\* Whatever a machine makes of a duration that is too long, it makes a duration.
LEMMA IntervalsAreDurations ==
    ASSUME NEW in, Durations(in)
    PROVE  /\ Base(in) \in Int
           /\ RuleIntervals(in) \subseteq Int
           /\ \A i \in Int : Stretched(in, i) \subseteq Int
<1>1. Base(in) \in Int /\ MinInterval \in Nat /\ MaxInterval \in Nat /\ RecentChangeInterval \in Nat
      /\ LargestDuration \in Nat /\ EOLMultiplier \in Nat
    BY ScheduleAssumption DEF Base, Durations
<1>2. \A product : Converted(product) \subseteq Int
    BY <1>1 DEF Converted
<1>3. \A base, factor, steps : Scaled(base, factor, steps) \subseteq Int
    BY <1>2 DEF Scaled
<1>4. RuleIntervals(in) \subseteq Int
    BY <1>1, <1>3 DEF RuleIntervals, Rule, Durations
<1>5. \A i \in Int : Multiplied(i) \subseteq Int
  <2> TAKE i \in Int
  <2>1. -LargestDuration \in Int /\ LargestDuration \in Int
    BY <1>1
  <2> QED
    BY <1>2, <2>1 DEF Multiplied
<1> QED
    BY <1>1, <1>4, <1>5 DEF Stretched

\* The promises shorten whatever the rules arrived at.
LEMMA PromisesBound ==
    ASSUME NEW in, Durations(in), NEW i \in Int
    PROVE  /\ Clamped(Promised(in, i)) >= MinInterval
           /\ Clamped(Promised(in, i)) <= Promise(in)
<1>1. Base(in) \in Int /\ in.freshness \in Int
    BY IntervalsAreDurations DEF Durations
<1>2. MinInterval \in Nat /\ MaxInterval \in Nat /\ PopularFloor \in Nat /\ MinInterval <= MaxInterval
    BY ScheduleAssumption
<1> QED
    BY <1>1, <1>2 DEF Promised, Clamped, Promise, Least, Greatest

\* Of two numbers, the greater has no smaller a share.
LEMMA SharesAreOrdered ==
    ASSUME NEW a \in Nat, NEW b \in Nat, a <= b, NEW d \in Nat \ {0}
    PROVE  a \div d \in Nat /\ b \div d \in Nat /\ a \div d <= b \div d
<1> DEFINE q == a \div d
           r == b \div d
<1>1. q \in Int /\ r \in Int /\ d * q <= a /\ a < d * (q + 1) /\ d * r <= b /\ b < d * (r + 1)
    BY SMTT(30)
<1> HIDE DEF q, r
<1>2. \A n \in Int : n < 0 => d * (n + 1) <= 0
    BY SMTT(30)
<1>3. q \in Nat /\ r \in Nat
    BY <1>1, <1>2, SMTT(30)
<1>4. d * q < d * (r + 1)
    BY <1>1, <1>3, SMTT(30)
<1>5. q < r + 1
    BY <1>3, <1>4, SMTT(30)
<1>6. q <= r
    BY <1>3, <1>5
<1> QED
    BY <1>3, <1>6 DEF q, r

LEMMA IntervalsAreKept ==
    ASSUME NEW in, Durations(in), ~Final(Rule(in)), NEW interval \in NextIntervals(in)
    PROVE  MinInterval <= interval /\ interval <= Promise(in)
<1>1. PICK j \in RuleIntervals(in) : \E i \in Stretched(in, j) : interval = Clamped(Promised(in, i))
    BY DEF NextIntervals
<1>2. PICK i \in Stretched(in, j) : interval = Clamped(Promised(in, i))
    BY <1>1
<1>3. i \in Int
    BY <1>1, <1>2, IntervalsAreDurations
<1>4. MinInterval \in Int
    BY ScheduleAssumption
<1>5. interval >= MinInterval /\ interval <= Promise(in)
    BY <1>2, <1>3, PromisesBound
<1>6. interval \in Int
    BY <1>2, <1>3, IntervalsAreDurations, ScheduleAssumption
       DEF Promised, Clamped, Least, Greatest, Durations
<1> QED
    BY <1>4, <1>5, <1>6

\* A share more, the longer of two intervals is still the longer, and neither is shorter.
LEMMA JitterKeepsOrder ==
    ASSUME NEW i \in Nat, NEW j \in Nat, i <= j
    PROVE  Jittered(i) \in Nat /\ i <= Jittered(i) /\ Jittered(i) <= Jittered(j)
<1> DEFINE share(n) == (n * Jitter.num) \div Jitter.den
<1>1. Jitter.num \in Nat /\ Jitter.den \in Nat /\ Jitter.den > 0
    BY ScheduleAssumption
<1>2. i * Jitter.num \in Nat /\ j * Jitter.num \in Nat /\ i * Jitter.num <= j * Jitter.num
  <2>1. (j - i) * Jitter.num \in Nat /\ j * Jitter.num = i * Jitter.num + (j - i) * Jitter.num
    BY <1>1, SMTT(30)
  <2> QED
    BY <1>1, <2>1, SMTT(30)
<1>3. share(i) \in Nat /\ share(j) \in Nat /\ share(i) <= share(j)
    BY <1>1, <1>2, SharesAreOrdered
<1> HIDE DEF share
<1>4. Jittered(i) = i + share(i) /\ Jittered(j) = j + share(j)
    BY DEF Jittered, share
<1> QED
    BY <1>3, <1>4

\* No rule, and no conversion, leaves the two bounds of the policy.
LEMMA IntervalsAreClamped ==
    ASSUME NEW in, Durations(in), NEW interval \in NextIntervals(in)
    PROVE  interval \in Nat /\ MinInterval <= interval /\ interval <= MaxInterval
<1>1. MinInterval \in Nat /\ MaxInterval \in Nat /\ PopularFloor \in Nat /\ MinInterval <= MaxInterval
    BY ScheduleAssumption
<1>2. \A i \in Int : /\ Clamped(i) \in Nat /\ MinInterval <= Clamped(i) /\ Clamped(i) <= MaxInterval
    BY <1>1 DEF Clamped, Least, Greatest
<1>3. \A i \in Int : Promised(in, i) \in Int
    BY <1>1, IntervalsAreDurations DEF Promised, Least, Durations
<1>4. CASE Final(Rule(in))
    BY <1>2, <1>4, IntervalsAreDurations DEF NextIntervals
<1>5. CASE ~Final(Rule(in))
  <2>1. PICK j \in RuleIntervals(in) : \E i \in Stretched(in, j) : interval = Clamped(Promised(in, i))
    BY <1>5 DEF NextIntervals
  <2>2. PICK i \in Stretched(in, j) : interval = Clamped(Promised(in, i))
    BY <2>1
  <2>3. Promised(in, i) \in Int
    BY <1>3, <2>1, <2>2, IntervalsAreDurations
  <2> QED
    BY <1>2, <2>2, <2>3
<1> QED
    BY <1>4, <1>5

\* What is dialled was judged twice, and a literal address alike both times.
LEMMA GuardIsWhole ==
    ASSUME NEW guard, NEW url
    PROVE  /\ \A a \in Reaches(guard, url) :
                a.host \in DeniedHosts => guard.allowPrivate \/ Exempt(guard, a, PortOf(url))
           /\ Literal(url.host) /\ url.scheme \in {"http", "https"} /\ ~url.userinfo =>
                (ValidateURL(guard, url) <=> Reaches(guard, url) # {})
<1>1. \A a, port : CheckAddr(guard, "tcp", a, port) <=>
            \/ Exempt(guard, a, port)
            \/ (guard.allowPrivate \/ a.host \notin DeniedHosts) /\ PortAllowed(guard, port)
    BY DEF CheckAddr, CheckIP, UnwrapAddress
<1>2. \A a \in Reaches(guard, url) : CheckAddr(guard, "tcp", a, PortOf(url))
    BY DEF Reaches
<1>3. ASSUME Literal(url.host), url.scheme \in {"http", "https"}, ~url.userinfo
      PROVE  ValidateURL(guard, url) <=> Reaches(guard, url) # {}
  <2>1. ValidateURL(guard, url) <=> CheckAddr(guard, "tcp", url.host, PortOf(url))
    BY <1>3 DEF ValidateURL, CheckAddr
  <2>2. Resolved(url.host) = {url.host}
    BY <1>3 DEF Resolved
  <2> QED
    BY <2>1, <2>2 DEF Reaches
<1> QED
    BY <1>1, <1>2, <1>3

\* An answer is the answer to the question that was asked.
Said ==
    /\ question \in Questions
    /\ AnswerTo("schedule") => answer \in NextWaits(question.in)
    /\ AnswerTo("guard") =>
        answer = [accepted |-> ValidateURL(question.guard, question.url),
                  reached |-> Reaches(question.guard, question.url)]

LEMMA SaidHolds == RulesSpec => []Said
<1>1. RulesInit => Said
    BY DEF RulesInit, Said, AnswerTo
<1>2. Said /\ [RulesNext]_rulesVars => Said'
  <2> SUFFICES ASSUME Said, [RulesNext]_rulesVars PROVE Said'
    OBVIOUS
  <2>1. CASE UNCHANGED rulesVars
    BY <2>1 DEF Said, rulesVars, AnswerTo
  <2>2. CASE AskSchedule
    BY <2>2 DEF Said, AskSchedule, Asked, AnswerTo
  <2>3. CASE AskGuard
    BY <2>3 DEF Said, AskGuard, Asked, AnswerTo
  <2>4. CASE AskRobots \/ AskPattern \/ AskLoad \/ AskFeed \/ AskPage \/ AskChange
    <3>1. question' = question /\ question.kind \notin {"schedule", "guard"}
        BY <2>4 DEF AskRobots, AskPattern, AskLoad, AskFeed, AskPage, AskChange, Asked
    <3> QED
        BY <3>1 DEF Said, AnswerTo
  <2> QED
    BY <2>1, <2>2, <2>3, <2>4 DEF RulesNext
<1> QED
    BY <1>1, <1>2, PTL DEF RulesSpec

\* For any tuning of the policy, jitter included, and any history of a source, no rule and no
\* conversion that overflows puts the next check outside the bounds of the policy, or later
\* than was promised of the product unless a rule returned before the promises were looked
\* at: a Retry-After, a rate limit, a lack of credentials (NextInterval, finalize).
THEOREM CommitmentsAreKept == RulesSpec => []CommitmentsHold
<1>1. Said => CommitmentsHold
  <2> SUFFICES ASSUME Said, AnswerTo("schedule")
               PROVE  /\ MinInterval <= answer /\ answer <= Jittered(MaxInterval)
                      /\ ~Final(Rule(question.in)) => answer <= Jittered(Promise(question.in))
    BY DEF CommitmentsHold
  <2>1. Durations(question.in)
    BY RulesAssumption DEF Said, AnswerTo, Durations
  <2>2. PICK i \in NextIntervals(question.in) : answer = Jittered(i)
    BY DEF Said, NextWaits
  <2>3. i \in Nat /\ MinInterval <= i /\ i <= MaxInterval
    BY <2>1, IntervalsAreClamped
  <2>4. MinInterval \in Nat /\ MaxInterval \in Nat /\ PopularFloor \in Nat
    BY ScheduleAssumption
  <2>5. MinInterval <= answer /\ answer <= Jittered(MaxInterval)
    BY <2>2, <2>3, <2>4, JitterKeepsOrder
  <2>6. ASSUME ~Final(Rule(question.in)) PROVE answer <= Jittered(Promise(question.in))
    <3>1. i <= Promise(question.in)
        BY <2>1, <2>6, IntervalsAreKept
    <3>2. Promise(question.in) \in Nat
        BY <2>1, <2>4, IntervalsAreDurations DEF Promise, Greatest, Durations
    <3> QED
        BY <2>2, <2>3, <3>1, <3>2, JitterKeepsOrder
  <2> QED
    BY <2>5, <2>6
<1> QED
    BY <1>1, SaidHolds, PTL

\* For any hosts, denied ranges, options and URLs, nothing that is denied is connected to, by
\* whatever name or form, and the check before a request and the one at the connection agree
\* on literal addresses (ValidateURL, CheckAddr).
THEOREM GuardIsKept == RulesSpec => []GuardHolds
<1>1. Said => GuardHolds
  <2> SUFFICES ASSUME Said, AnswerTo("guard") PROVE GuardHolds
    BY DEF GuardHolds
  <2> DEFINE guard == question.guard
             url == question.url
  <2>1. answer.reached = Reaches(guard, url) /\ (answer.accepted <=> ValidateURL(guard, url))
    BY DEF Said
  <2>2. /\ \A a \in Reaches(guard, url) :
                a.host \in DeniedHosts => guard.allowPrivate \/ Exempt(guard, a, PortOf(url))
        /\ Literal(url.host) /\ url.scheme \in {"http", "https"} /\ ~url.userinfo =>
                (ValidateURL(guard, url) <=> Reaches(guard, url) # {})
    BY GuardIsWhole
  <2> QED
    BY <2>1, <2>2 DEF GuardHolds
<1> QED
    BY <1>1, SaidHolds, PTL

-----------------------------------------------------------------------------
(***************************************************************************)
(* The matcher of robots.txt, for patterns and paths of any length.        *)
(***************************************************************************)

\* The least of some numbers.
LEMMA LeastOf ==
    ASSUME NEW S \in SUBSET Nat, S # {}
    PROVE  \E n \in S : \A m \in S : n <= m
<1> DEFINE Less == {p \in Nat \X Nat : p[1] < p[2]}
<1>1. IsWellFoundedOn(Less, Nat)
    BY NatLessThanWellFounded, Zenon DEF OpToRel
<1>2. PICK n \in S : \A m \in S : ~(<<m, n>> \in Less)
  <2> HIDE DEF Less
  <2> QED
    BY <1>1, WFMin
<1>3. \A m \in S : ~(m < n)
    BY <1>2
<1> QED
    BY <1>3

LEMMA FirstIsLeast ==
    ASSUME NEW S \in SUBSET Nat, S # {}
    PROVE  FirstOf(S) \in S /\ \A m \in S : FirstOf(S) <= m
BY LeastOf DEF FirstOf

\* The loop has a run, so its cursors are those of one.
LEMMA CursorsAreWalked ==
    ASSUME NEW segments, Len(segments) \in Nat, NEW anchored, NEW path
    PROVE  LET c == Cursors(segments, anchored, path)
           IN  /\ c[0] = 0
               /\ \A n \in 1..Len(segments) : c[n] = Walk(segments, anchored, path, c[n - 1], n)
<1> DEFINE N == Len(segments)
           Step(c, n) == Walk(segments, anchored, path, c, n)
           Run(f, n) == DOMAIN f = 0..n /\ f[0] = 0 /\ \A k \in 1..n : f[k] = Step(f[k - 1], k)
           Runless == {n \in 0..N : ~\E f : Run(f, n)}
<1> HIDE DEF Step
<1>1. Runless = {}
  <2> SUFFICES ASSUME Runless # {} PROVE FALSE
    OBVIOUS
  <2>1. PICK n \in Runless : \A m \in Runless : n <= m
    <3>1. Runless \in SUBSET Nat
        OBVIOUS
    <3> HIDE DEF Runless
    <3> QED
        BY <3>1, LeastOf
  <2>2. CASE n = 0
    <3>1. Run([i \in 0..0 |-> 0], 0)
        OBVIOUS
    <3> HIDE DEF Run
    <3> QED
        BY <2>2, <3>1
  <2>3. CASE n # 0
    <3>1. n \in Nat /\ n - 1 \in 0..N /\ n - 1 \notin Runless
        BY <2>1, <2>3
    <3>2. PICK f : Run(f, n - 1)
      <4> HIDE DEF Run
      <4> QED
        BY <3>1
    <3> DEFINE g == [i \in 0..n |-> IF i = n THEN Step(f[n - 1], n) ELSE f[i]]
    <3>3. Run(g, n)
        BY <3>1, <3>2, <2>3
    <3> HIDE DEF Run, g
    <3> QED
        BY <3>3
  <2> QED
    BY <2>2, <2>3
<1>2. PICK f : Run(f, N)
  <2> HIDE DEF Run
  <2> QED
    BY <1>1
<1> DEFINE Is(h) == h = [n \in 0..N |-> IF n = 0 THEN 0 ELSE Step(h[n - 1], n)]
           c == CHOOSE h : Is(h)
<1>3. \E h : Is(h)
  <2> DEFINE h == [n \in 0..N |-> f[n]]
  <2>1. Is(h)
    BY <1>2
  <2> QED
    BY <2>1
<1>4. Is(c)
  <2> HIDE DEF Is
  <2> QED
    BY <1>3
<1>5. Cursors(segments, anchored, path) = c
    BY DEF Cursors, Step
<1>6. c[0] = 0 /\ \A n \in 1..N : c[n] = Step(c[n - 1], n)
  <2> HIDE DEF c
  <2> QED
    BY <1>4
<1> QED
  <2> HIDE DEF c
  <2> QED
    BY <1>5, <1>6 DEF Step

\* The segments stand in the path, in order and apart, the first at its start and, if the
\* pattern is anchored, the last at its end.
Placed(segments, anchored, path, at) ==
    LET N == Len(segments)
    IN  /\ at \in [1..N -> 0..Len(path)]
        /\ at[1] = 0
        /\ \A n \in 1..N : /\ at[n] + Len(segments[n]) <= Len(path)
                           /\ segments[n] # <<>> =>
                                SubSeq(path, at[n] + 1, at[n] + Len(segments[n])) = segments[n]
        /\ \A n \in 2..N : at[n - 1] + Len(segments[n - 1]) <= at[n]
        /\ anchored => at[N] + Len(segments[N]) = Len(path)

\* What the loop is given: at least one segment.
Walkable(segments, anchored, path) ==
    /\ Len(segments) \in Nat \ {0} /\ Len(path) \in Nat
    /\ \A n \in 1..Len(segments) : /\ Len(segments[n]) \in Nat
                                   /\ segments[n] = <<>> <=> Len(segments[n]) = 0
    /\ anchored \in BOOLEAN

\* A segment that is found ends at the next cursor and begins at a place of it, and an empty
\* one leaves the cursor where it is.
LEMMA OneSegment ==
    ASSUME NEW segments, NEW anchored, NEW path, Walkable(segments, anchored, path),
           NEW n \in 1..Len(segments), NEW cursor \in 0..Len(path)
    PROVE  LET segment == segments[n]
               places == Places(segment, path, cursor)
               next == Walk(segments, anchored, path, cursor, n)
           IN  /\ segment = <<>> => next = cursor
               /\ segment # <<>> => next = Lost \/ next - Len(segment) \in places
               /\ segment # <<>> /\ n = 1 /\ next # Lost => next = Len(segment)
<1> DEFINE segment == segments[n]
           places == Places(segment, path, cursor)
           next == Walk(segments, anchored, path, cursor, n)
<1>1. Len(segment) \in Nat /\ Len(path) \in Nat /\ n \in Nat /\ cursor \in Nat /\ cursor # Lost
    BY DEF Walkable, Lost
<1>2. places \in SUBSET Nat
    BY <1>1 DEF Places
<1>3. CASE segment = <<>>
    BY <1>1, <1>3 DEF Walk
<1>4. CASE segment # <<>> /\ n = 1
  <2>1. next = IF 0 \in places THEN 0 + Len(segment) ELSE Lost
    BY <1>1, <1>4 DEF Walk
  <2> HIDE DEF places, next, segment
  <2> QED
    BY <1>1, <1>4, <2>1 DEF segment, places, next
<1>5. CASE segment # <<>> /\ n > 1 /\ anchored /\ n = Len(segments)
  <2>1. next = IF Len(path) - Len(segment) \in places THEN Len(path) ELSE Lost
    BY <1>1, <1>5 DEF Walk
  <2>2. n # 1
    BY <1>5
  <2> HIDE DEF places, next, segment
  <2> QED
    BY <1>5, <2>1, <2>2 DEF segment, places, next
<1>6. CASE segment # <<>> /\ n > 1 /\ ~(anchored /\ n = Len(segments))
  <2>1. next = IF places = {} THEN Lost ELSE FirstOf(places) + Len(segment)
    BY <1>1, <1>6 DEF Walk
  <2>2. places # {} => FirstOf(places) \in places /\ FirstOf(places) \in Nat
    BY <1>2, FirstIsLeast
  <2> HIDE DEF places, next, segment
  <2> QED
    BY <1>1, <1>6, <2>1, <2>2 DEF segment, places, next
<1> QED
    BY <1>1, <1>3, <1>4, <1>5, <1>6

\* One segment leads to the earliest place it may take, or the walk is lost as there is none.
Stepped(segments, anchored, path, cursor, n, next, places) ==
    /\ segments[n] = <<>> => next = cursor
    /\ segments[n] # <<>> /\ n = 1 =>
        (next = Lost /\ 0 \notin places) \/ next = Len(segments[n])
    /\ segments[n] # <<>> /\ n # 1 /\ anchored /\ n = Len(segments) =>
        (next = Lost /\ Len(path) - Len(segments[n]) \notin places) \/ next = Len(path)
    /\ segments[n] # <<>> /\ n # 1 /\ ~(anchored /\ n = Len(segments)) =>
        (next = Lost /\ places = {}) \/ (next # Lost /\ \A i \in places : next <= i + Len(segments[n]))

LEMMA NextCursor ==
    ASSUME NEW segments, NEW anchored, NEW path, Walkable(segments, anchored, path),
           NEW n \in 1..Len(segments), NEW cursor \in 0..Len(path)
    PROVE  Stepped(segments, anchored, path, cursor, n,
                Walk(segments, anchored, path, cursor, n), Places(segments[n], path, cursor))
<1> SUFFICES ASSUME NEW next, next = Walk(segments, anchored, path, cursor, n),
                    NEW places, places = Places(segments[n], path, cursor)
             PROVE  Stepped(segments, anchored, path, cursor, n, next, places)
    OBVIOUS
<1> DEFINE size == Len(segments[n])
<1>1. size \in Nat /\ Len(path) \in Nat /\ n \in Nat /\ cursor \in Nat /\ cursor # Lost /\ (n # 1 => n > 1)
    BY DEF Walkable, Lost
<1>2. places \in SUBSET Nat
    BY <1>1 DEF Places
<1>3. segments[n] = <<>> => next = cursor
    BY <1>1 DEF Walk
<1>4. segments[n] # <<>> /\ n = 1 => next = IF 0 \in places THEN 0 + size ELSE Lost
    BY <1>1 DEF Walk
<1>5. segments[n] # <<>> /\ n # 1 /\ anchored /\ n = Len(segments) =>
        next = IF Len(path) - size \in places THEN Len(path) ELSE Lost
    BY <1>1 DEF Walk
<1>6. segments[n] # <<>> /\ n # 1 /\ ~(anchored /\ n = Len(segments)) =>
        next = IF places = {} THEN Lost ELSE FirstOf(places) + size
    BY <1>1 DEF Walk
<1>7. places # {} => /\ FirstOf(places) + size # Lost
                     /\ \A i \in places : FirstOf(places) + size <= i + size
  <2>1. places # {} => FirstOf(places) \in Nat /\ \A i \in places : i \in Nat /\ FirstOf(places) <= i
    BY <1>2, FirstIsLeast
  <2> QED
    BY <2>1, <1>1 DEF Lost
<1> QED
    BY <1>1, <1>3, <1>4, <1>5, <1>6, <1>7 DEF Stepped

\* Every cursor is lost or lies in the path, and what is lost stays lost.
LEMMA CursorsStayInside ==
    ASSUME NEW segments, NEW anchored, NEW path, Walkable(segments, anchored, path),
           NEW n \in 0..Len(segments)
    PROVE  LET c == Cursors(segments, anchored, path)
           IN  /\ c[n] \in {Lost} \union 0..Len(path)
               /\ n > 0 /\ c[n - 1] = Lost => c[n] = Lost
<1> DEFINE N == Len(segments)
           c == Cursors(segments, anchored, path)
           Outside == {m \in 0..N : c[m] \notin {Lost} \union 0..Len(path)}
<1>1. c[0] = 0 /\ \A m \in 1..N : c[m] = Walk(segments, anchored, path, c[m - 1], m)
    BY CursorsAreWalked DEF Walkable
<1>2. Len(path) \in Nat /\ N \in Nat
    BY DEF Walkable
<1> HIDE DEF c
<1>3. \A m \in 1..N : c[m - 1] = Lost => c[m] = Lost
    BY <1>1 DEF Walk
<1>4. Outside = {}
  <2> SUFFICES ASSUME Outside # {} PROVE FALSE
    OBVIOUS
  <2>1. PICK m \in Outside : \A k \in Outside : m <= k
    <3>1. Outside \in SUBSET Nat
        OBVIOUS
    <3> HIDE DEF Outside
    <3> QED
        BY <3>1, LeastOf
  <2>2. m # 0
    BY <1>1, <1>2
  <2>3. m \in 1..N /\ m - 1 \in 0..N /\ m - 1 \notin Outside
    BY <2>1, <2>2, <1>2
  <2>4. c[m - 1] \in 0..Len(path)
    BY <2>3, <2>1, <1>3
  <2>5. c[m] = Walk(segments, anchored, path, c[m - 1], m)
    BY <1>1, <2>3
  <2> DEFINE segment == segments[m]
  <2>6. Len(segment) \in Nat /\ Places(segment, path, c[m - 1]) \subseteq 0..(Len(path) - Len(segment))
    BY <2>3, <2>4, <1>2 DEF Walkable, Places
  <2>7. c[m] = c[m - 1] \/ c[m] = Lost \/ c[m] - Len(segment) \in Places(segment, path, c[m - 1])
    BY <2>3, <2>4, <2>5, OneSegment
  <2>8. c[m] \in Int
    <3>1. c[m] = Lost \/ c[m] = c[m - 1] \/ c[m] = Len(path) \/ c[m] = 0 + Len(segment)
          \/ \E i \in Places(segment, path, c[m - 1]) : c[m] = i + Len(segment)
      <4>1. Places(segment, path, c[m - 1]) \in SUBSET Nat
        BY <2>6
      <4>2. Places(segment, path, c[m - 1]) # {} =>
                FirstOf(Places(segment, path, c[m - 1])) \in Places(segment, path, c[m - 1])
        BY <4>1, FirstIsLeast
      <4> QED
        BY <2>5, <4>2 DEF Walk
    <3> QED
        BY <3>1, <2>4, <2>6, <1>2 DEF Lost
  <2> HIDE DEF segment
  <2>9. c[m] \in {Lost} \union 0..Len(path)
    BY <2>4, <2>6, <2>7, <2>8, <1>2
  <2> QED
    BY <2>1, <2>9
<1> QED
    BY <1>2, <1>3, <1>4 DEF c

\* A walk that is not lost at its end was nowhere lost.
LEMMA NeverLost ==
    ASSUME NEW segments, NEW anchored, NEW path, Walkable(segments, anchored, path),
           Cursors(segments, anchored, path)[Len(segments)] # Lost
    PROVE  \A n \in 0..Len(segments) : Cursors(segments, anchored, path)[n] \in 0..Len(path)
<1> DEFINE N == Len(segments)
           c == Cursors(segments, anchored, path)
           LostAt == {m \in 0..N : c[N - m] = Lost}
<1>1. N \in Nat
    BY DEF Walkable
<1>2. \A n \in 0..N : c[n] \in {Lost} \union 0..Len(path) /\ (n > 0 /\ c[n - 1] = Lost => c[n] = Lost)
    BY CursorsStayInside
<1> HIDE DEF c
<1>3. LostAt = {}
  <2> SUFFICES ASSUME LostAt # {} PROVE FALSE
    OBVIOUS
  <2>1. PICK m \in LostAt : \A k \in LostAt : m <= k
    <3>1. LostAt \in SUBSET Nat
        OBVIOUS
    <3> HIDE DEF LostAt
    <3> QED
        BY <3>1, LeastOf
  <2>2. m # 0 /\ m \in 0..N /\ c[N - m] = Lost
    BY <1>1 DEF c
  <2>3. N - m + 1 \in 0..N /\ N - m + 1 > 0 /\ (N - m + 1) - 1 = N - m
    BY <2>2, <1>1
  <2>4. c[N - m + 1] = Lost
    BY <2>2, <2>3, <1>2
  <2>5. m - 1 \in 0..N /\ N - (m - 1) = N - m + 1
    BY <2>2, <1>1
  <2>6. m - 1 \in LostAt
    BY <2>4, <2>5
  <2> QED
    BY <2>1, <2>2, <2>6
<1>4. \A n \in 0..N : c[n] # Lost
  <2> TAKE n \in 0..N
  <2>1. N - n \in 0..N /\ N - (N - n) = n
    BY <1>1
  <2> QED
    BY <2>1, <1>3
<1> QED
    BY <1>2, <1>4 DEF c

\* What the walk finds is a place for every segment.
LEMMA WalkPlaces ==
    ASSUME NEW segments, NEW anchored, NEW path, Walkable(segments, anchored, path),
           SegmentsMatch(segments, anchored, path)
    PROVE  \E at : Placed(segments, anchored, path, at)
<1> DEFINE N == Len(segments)
           L == Len(path)
           c == Cursors(segments, anchored, path)
           size(n) == Len(segments[n])
           at == [n \in 1..N |-> IF n = N /\ anchored /\ c[N] # L THEN L ELSE c[n] - size(n)]
<1>1. c[0] = 0 /\ \A n \in 1..N : c[n] = Walk(segments, anchored, path, c[n - 1], n)
    BY CursorsAreWalked DEF Walkable
<1>2. c[N] # Lost /\ (anchored /\ c[N] # L => N > 1 /\ segments[N] = <<>>)
    BY DEF SegmentsMatch
<1>3. \A n \in 0..N : c[n] \in 0..L
    BY <1>2, NeverLost
<1>4. N \in Nat \ {0} /\ L \in Nat
      /\ \A n \in 1..N : size(n) \in Nat /\ (segments[n] = <<>> <=> size(n) = 0)
    BY DEF Walkable
\* Before and behind each segment.
<1>5. \A n \in 1..N :
        /\ c[n - 1] + size(n) <= c[n]
        /\ segments[n] # <<>> => SubSeq(path, (c[n] - size(n)) + 1, (c[n] - size(n)) + size(n)) = segments[n]
        /\ segments[n] = <<>> => c[n] = c[n - 1]
        /\ n = 1 => c[n] = size(n)
  <2> TAKE n \in 1..N
  <2>1. n - 1 \in 0..N /\ n \in 0..N
    BY <1>4
  <2>2. c[n - 1] \in 0..L /\ c[n] \in 0..L /\ c[n] # Lost
    BY <2>1, <1>3, <1>4 DEF Lost
  <2> DEFINE places == Places(segments[n], path, c[n - 1])
  <2>3. c[n] = Walk(segments, anchored, path, c[n - 1], n)
    BY <1>1
  <2>4. CASE segments[n] = <<>>
    <3>1. c[n] = c[n - 1] /\ size(n) = 0
        BY <2>2, <2>3, <2>4, <1>4, OneSegment
    <3> HIDE DEF c, L, N, size
    <3> QED
        BY <3>1, <2>2, <2>4, <1>1
  <2>5. CASE segments[n] # <<>>
    <3>1. c[n] - size(n) \in places /\ (n = 1 => c[n] = size(n))
        BY <2>2, <2>3, <2>5, OneSegment
    <3>2. \A i \in places : i >= c[n - 1] /\ SubSeq(path, i + 1, i + size(n)) = segments[n]
        BY <2>2, <1>4 DEF Places
    <3>3. size(n) \in Nat
        BY <1>4
    <3> HIDE DEF c, L, N, size, places
    <3> QED
        BY <3>1, <3>2, <3>3, <2>2, <2>5
  <2> QED
    BY <2>4, <2>5
<1> HIDE DEF c, size
<1>6. \A n \in 1..N : c[n] \in 0..L /\ c[n - 1] \in 0..L /\ size(n) \in Nat /\ c[n] - size(n) \in 0..L
  <2> TAKE n \in 1..N
  <2>1. n - 1 \in 0..N /\ n \in 0..N
    BY <1>4
  <2>2. c[n] \in 0..L /\ c[n - 1] \in 0..L /\ size(n) \in Nat /\ c[n - 1] + size(n) <= c[n]
    BY <2>1, <1>3, <1>4, <1>5
  <2> HIDE DEF L, N
  <2> QED
    BY <2>2, <1>4
<1>7. \A n \in 1..N : at[n] = IF n = N /\ anchored /\ c[N] # L THEN L ELSE c[n] - size(n)
    OBVIOUS
<1>8. at \in [1..N -> 0..L]
    BY <1>6, <1>4
<1> HIDE DEF at
<1>9. at[1] = 0
  <2>1. 1 \in 1..N
    BY <1>4
  <2> QED
    BY <2>1, <1>2, <1>5, <1>6, <1>7
<1>10. \A n \in 1..N : at[n] + size(n) <= L
  <2> TAKE n \in 1..N
  <2>1. at[n] = c[n] - size(n) \/ (at[n] = L /\ size(n) = 0)
    BY <1>2, <1>4, <1>7
  <2>2. c[n] \in 0..L /\ size(n) \in Nat
    BY <1>6
  <2> HIDE DEF L, N
  <2> QED
    BY <2>1, <2>2, <1>4
<1>11. \A n \in 1..N : segments[n] # <<>> => SubSeq(path, at[n] + 1, at[n] + size(n)) = segments[n]
    BY <1>2, <1>5, <1>7
<1>12. \A n \in 2..N : at[n - 1] + size(n - 1) <= at[n]
  <2> TAKE n \in 2..N
  <2>1. n \in 1..N /\ n - 1 \in 1..N /\ n - 1 # N
    BY <1>4
  <2>2. at[n - 1] = c[n - 1] - size(n - 1) /\ (at[n] = c[n] - size(n) \/ at[n] = L)
    BY <2>1, <1>7
  <2>3. c[n - 1] + size(n) <= c[n] /\ c[n - 1] \in 0..L /\ size(n - 1) \in Nat /\ size(n) \in Nat /\ c[n] \in 0..L
    BY <2>1, <1>5, <1>6
  <2> HIDE DEF N, L
  <2> QED
    BY <2>2, <2>3, <1>4
<1>13. anchored => at[N] + size(N) = L
  <2>1. N \in 1..N
    BY <1>4
  <2> QED
    BY <2>1, <1>2, <1>4, <1>6, <1>7
<1> QED
  <2>1. Placed(segments, anchored, path, at)
    BY <1>8, <1>9, <1>10, <1>11, <1>12, <1>13 DEF Placed, size
  <2> QED
    BY <2>1

\* The walk is never behind a placement: it takes each segment as early as it can.
LEMMA WalkIsAhead ==
    ASSUME NEW segments, NEW anchored, NEW path, Walkable(segments, anchored, path),
           NEW at, Placed(segments, anchored, path, at)
    PROVE  \A n \in 1..Len(segments) :
              LET c == Cursors(segments, anchored, path)
              IN  c[n] \in 0..Len(path) /\ c[n] <= at[n] + Len(segments[n])
<1> DEFINE N == Len(segments)
           L == Len(path)
           c == Cursors(segments, anchored, path)
           size(n) == Len(segments[n])
           Fails == {n \in 1..N : ~(c[n] \in 0..L /\ c[n] <= at[n] + size(n))}
<1>1. c[0] = 0 /\ \A n \in 1..N : c[n] = Walk(segments, anchored, path, c[n - 1], n)
    BY CursorsAreWalked DEF Walkable
<1>2. N \in Nat \ {0} /\ L \in Nat
      /\ \A n \in 1..N : size(n) \in Nat /\ (segments[n] = <<>> <=> size(n) = 0)
    BY DEF Walkable
<1>3. \A n \in 1..N : /\ at[n] \in 0..L /\ at[n] + size(n) <= L
                      /\ segments[n] # <<>> => SubSeq(path, at[n] + 1, at[n] + size(n)) = segments[n]
    BY DEF Placed
<1>4. /\ at[1] = 0
      /\ \A n \in 2..N : at[n - 1] + size(n - 1) <= at[n]
      /\ anchored => at[N] + size(N) = L
    BY DEF Placed
<1>5. \A n \in 0..N : c[n] \in {Lost} \union 0..L
    BY CursorsStayInside
<1>6. Fails = {}
  <2> SUFFICES ASSUME Fails # {} PROVE FALSE
    OBVIOUS
  <2>1. PICK n \in Fails : \A m \in Fails : n <= m
    <3>1. Fails \in SUBSET Nat
        OBVIOUS
    <3> HIDE DEF Fails
    <3> QED
        BY <3>1, LeastOf
  <2>2. n \in 1..N /\ n - 1 \in 0..N /\ n \in 0..N /\ ~(c[n] \in 0..L /\ c[n] <= at[n] + size(n))
    BY <2>1, <1>2
  <2> DEFINE before == IF n = 1 THEN 0 ELSE at[n - 1] + size(n - 1)
  <2>3. c[n - 1] \in 0..L /\ c[n - 1] <= before
    <3>1. CASE n = 1
        BY <3>1, <1>1, <1>2
    <3>2. CASE n # 1
      <4>1. n - 1 \in 1..N /\ n - 1 \notin Fails
        BY <2>1, <2>2, <3>2
      <4> QED
        BY <4>1, <3>2
    <3> QED
        BY <3>1, <3>2
  <2>4. before <= at[n] /\ before \in Int
    <3>1. CASE n = 1
        BY <3>1, <1>4
    <3>2. CASE n # 1
      <4>1. n \in 2..N /\ n - 1 \in 1..N
        BY <2>2, <3>2
      <4>2. at[n - 1] \in 0..L /\ size(n - 1) \in Nat
        BY <4>1, <1>2, <1>3
      <4>3. at[n - 1] + size(n - 1) <= at[n]
        BY <4>1, <1>4
      <4> QED
        BY <3>2, <4>2, <4>3
    <3> QED
        BY <3>1, <3>2
  <2>5. at[n] \in 0..L /\ size(n) \in Nat /\ at[n] + size(n) <= L
    BY <1>2, <1>3, <2>2
  <2>6. c[n - 1] <= at[n]
    <3> HIDE DEF before
    <3> QED
        BY <2>3, <2>4, <2>5
  <2>7. c[n] \in {Lost} \union 0..L
    BY <1>5, <2>2
  <2>8. c[n] = Walk(segments, anchored, path, c[n - 1], n)
    BY <1>1, <2>2
  <2>9. CASE segments[n] = <<>>
    <3>1. c[n] = c[n - 1]
        BY <2>2, <2>3, <2>8, <2>9, OneSegment
    <3> HIDE DEF c, L, N, size, before
    <3> QED
        BY <3>1, <2>2, <2>3, <2>5, <2>6
  <2>10. CASE segments[n] # <<>>
    <3> DEFINE places == Places(segments[n], path, c[n - 1])
    <3>1. at[n] \in places
      <4>1. SubSeq(path, at[n] + 1, at[n] + size(n)) = segments[n]
        BY <1>3, <2>2, <2>10
      <4>2. at[n] \in c[n - 1]..(L - size(n))
        <5> HIDE DEF c, L, N, size, before
        <5> QED
            BY <2>3, <2>5, <2>6, <1>2
      <4> QED
        BY <4>1, <4>2 DEF Places
    <3> DEFINE next == Walk(segments, anchored, path, c[n - 1], n)
    <3>7. /\ n = 1 => (next = Lost /\ 0 \notin places) \/ next = size(n)
          /\ n # 1 /\ anchored /\ n = N => (next = Lost /\ L - size(n) \notin places) \/ next = L
          /\ n # 1 /\ ~(anchored /\ n = N) =>
                (next = Lost /\ places = {}) \/ (next # Lost /\ \A i \in places : next <= i + size(n))
      <4>1. Stepped(segments, anchored, path, c[n - 1], n, next, places)
        BY <2>2, <2>3, NextCursor
      <4> HIDE DEF c, next, places
      <4> QED
        BY <2>10, <4>1 DEF Stepped
    <3>8. c[n] = next
        BY <2>8
    <3> HIDE DEF next
    <3>4. anchored /\ n = N => L - size(n) = at[n]
        BY <1>4, <2>5, <1>2
    <3>6. c[n] = Lost \/ c[n] <= at[n] + size(n)
      <4> HIDE DEF c, L, N, size, before, places
      <4> QED
        BY <3>1, <3>7, <3>8, <3>4, <1>4, <2>2, <2>5, <1>2
    <3>5. c[n] # Lost
      <4>1. \A i \in places : i + size(n) >= 0
        BY <2>3, <2>5 DEF Places
      <4>2. 0 \in places \/ n # 1
        BY <3>1, <1>4
      <4> HIDE DEF c, L, N, size, before, places
      <4> QED
        BY <3>1, <3>7, <3>8, <3>4, <4>2, <2>2, <2>5, <1>2 DEF Lost
    <3> QED
        BY <3>5, <3>6, <2>2, <2>7
  <2> QED
    BY <2>9, <2>10
<1> QED
    BY <1>6

\* What has a place is found.
LEMMA PlacedIsFound ==
    ASSUME NEW segments, NEW anchored, NEW path, Walkable(segments, anchored, path),
           NEW at, Placed(segments, anchored, path, at)
    PROVE  SegmentsMatch(segments, anchored, path)
<1> DEFINE N == Len(segments)
           L == Len(path)
           c == Cursors(segments, anchored, path)
<1>1. N \in Nat \ {0} /\ L \in Nat /\ N \in 1..N /\ 1 \in 1..N /\ N - 1 \in 0..N
    BY DEF Walkable
<1>2. c[N] \in 0..L
    BY <1>1, WalkIsAhead
<1>3. c[N] # Lost
    BY <1>1, <1>2 DEF Lost
<1>4. ASSUME anchored, c[N] # L PROVE N > 1 /\ segments[N] = <<>>
  <2>1. c[0] = 0 /\ c[N] = Walk(segments, anchored, path, c[N - 1], N)
    BY <1>1, CursorsAreWalked DEF Walkable
  <2>2. c[N - 1] \in 0..L
    BY <1>1, <1>3, NeverLost
  <2>3. at[1] = 0 /\ at[N] + Len(segments[N]) = L
    BY <1>4 DEF Placed
  <2>4. Len(segments[N]) \in Nat /\ (segments[N] = <<>> <=> Len(segments[N]) = 0)
    BY <1>1 DEF Walkable
  <2>5. segments[N] = <<>>
    <3> SUFFICES ASSUME segments[N] # <<>> PROVE FALSE
        OBVIOUS
    <3> DEFINE cursor == c[N - 1]
               next == Walk(segments, anchored, path, cursor, N)
    <3>3. cursor \in 0..Len(path) /\ N \in 1..Len(segments)
        BY <1>1, <2>2
    <3>4. next = c[N]
        BY <2>1
    <3>1. next # Lost => IF N = 1 THEN next = Len(segments[N]) ELSE next = L
      <4>1. Stepped(segments, anchored, path, cursor, N, next, Places(segments[N], path, cursor))
        BY <3>3, NextCursor
      <4> HIDE DEF cursor, next
      <4> QED
        BY <1>4, <4>1 DEF Stepped
    <3>2. IF N = 1 THEN c[N] = Len(segments[N]) ELSE c[N] = L
      <4> HIDE DEF c
      <4> QED
        BY <3>1, <3>4, <1>3
    <3> HIDE DEF c, L, N
    <3> QED
        BY <3>2, <2>3, <2>4, <1>1, <1>4
  <2>6. N # 1
    <3> SUFFICES ASSUME N = 1 PROVE FALSE
        OBVIOUS
    <3> DEFINE cursor == c[N - 1]
               next == Walk(segments, anchored, path, cursor, N)
    <3>1. cursor \in 0..Len(path) /\ N \in 1..Len(segments) /\ next = c[N] /\ cursor = 0
        BY <1>1, <2>1, <2>2
    <3>4. next = cursor
      <4>1. Stepped(segments, anchored, path, cursor, N, next, Places(segments[N], path, cursor))
        BY <3>1, NextCursor
      <4> HIDE DEF cursor, next
      <4> QED
        BY <2>5, <4>1 DEF Stepped
    <3>2. c[N] = 0
      <4> HIDE DEF cursor, next
      <4> QED
        BY <3>1, <3>4
    <3>3. L = 0
        BY <2>3, <2>4, <2>5
    <3> QED
        BY <3>2, <3>3, <1>4
  <2> QED
    BY <2>5, <2>6, <1>1
<1> QED
    BY <1>3, <1>4 DEF SegmentsMatch

\* GreedyWalkSuffices: the matcher takes each segment of a pattern where it first fits and never
\* goes back; still it finds every path that has a place for the segments in their order, however
\* many they are and however long (robotsPathMatch).
THEOREM GreedyWalkSuffices ==
    ASSUME NEW Letters, NEW segments \in Seq(Seq(Letters)), segments # <<>>,
           NEW path \in Seq(Letters), NEW anchored \in BOOLEAN
    PROVE  SegmentsMatch(segments, anchored, path) <=>
              \E at : Placed(segments, anchored, path, at)
<1>1. Len(segments) \in Nat \ {0} /\ Len(path) \in Nat
    OBVIOUS
<1>2. \A n \in 1..Len(segments) : segments[n] \in Seq(Letters)
    OBVIOUS
<1>3. \A n \in 1..Len(segments) : /\ Len(segments[n]) \in Nat
                                 /\ segments[n] = <<>> <=> Len(segments[n]) = 0
    BY <1>2
<1>4. Walkable(segments, anchored, path)
    BY <1>1, <1>3 DEF Walkable
<1> QED
    BY <1>4, WalkPlaces, PlacedIsFound
=============================================================================
