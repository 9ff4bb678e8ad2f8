---------------------------- MODULE TokenBucket ----------------------------
(***************************************************************************)
(* What the rate limiter of the HTTP API promises, whatever it keeps: each *)
(* caller has a bucket that fills at a steady rate up to its capacity, and *)
(* a request is allowed exactly if a whole token is there, within a slack. *)
(* All buckets may be refilled at once, but only when more callers than    *)
(* the limiter tracks have asked since the last time.                      *)
(***************************************************************************)
EXTENDS Naturals, FiniteSets

CONSTANTS
    Keys,       \* callers, per endpoint class
    Unit,       \* fractions of a token that make one
    Cap,        \* fractions a full bucket holds
    Rate,       \* fractions that arrive in an instant
    Slack,      \* fractions by which one request may be served too well or too badly
    MaxTracked  \* callers that are told apart for certain

VARIABLES
    level,  \* fractions in each bucket
    asked   \* who has asked since all buckets were last refilled

vars == <<level, asked>>

Least(a, b) == IF a <= b THEN a ELSE b

Full == [k \in Keys |-> Cap]

Init == level = Full /\ asked = {}

Fill == /\ level' = [k \in Keys |-> Least(Cap, level[k] + Rate)]
        /\ UNCHANGED asked

\* One request of k, served from the buckets as they are.
Serve(k, buckets) == \E extra \in 0..Slack :
    \/ /\ buckets[k] >= Unit
       /\ level' = [buckets EXCEPT ![k] = Least(Cap, @ - Unit + extra)]
    \/ /\ buckets[k] < Unit + Slack
       /\ level' = [buckets EXCEPT ![k] = Least(Cap, @ + extra)]

Ask(k) ==
    \/ Serve(k, level) /\ asked' = asked \union {k}
    \/ Cardinality(asked) > MaxTracked /\ Serve(k, Full) /\ asked' = {k}

Next == Fill \/ \E k \in Keys : Ask(k)

Spec == Init /\ [][Next]_vars
=============================================================================
