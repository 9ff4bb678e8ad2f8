---------------------------- MODULE SourceHealth ----------------------------
(***************************************************************************)
(* The health state machine of a monitored source, and where the outcome   *)
(* of a check takes it (internal/domain/source.go).                        *)
(***************************************************************************)
EXTENDS Naturals

\* sourceTransitions: every legal edge.
HealthEdges == [
    discovered |-> {"pending_review", "disabled", "retired"},
    pending_review |-> {"active", "disabled", "retired"},
    active |-> {"degraded", "rate_limited", "authentication_required", "broken",
                "relocated", "disabled", "retired"},
    degraded |-> {"active", "broken", "rate_limited", "authentication_required",
                  "relocated", "disabled", "retired"},
    rate_limited |-> {"active", "degraded", "broken", "disabled", "retired"},
    authentication_required |-> {"active", "disabled", "retired", "broken"},
    broken |-> {"active", "degraded", "relocated", "disabled", "retired"},
    relocated |-> {"active", "disabled", "retired"},
    disabled |-> {"pending_review", "active", "retired"},
    retired |-> {}]

HealthStates == DOMAIN HealthEdges

\* The outcomes of a fetch that brings no content.
FailingOutcomes == {"unavailable", "unauthorized", "rate_limited", "redirected",
                    "parser_failed", "suspicious_content", "manual_review_required"}
Outcomes == {"unchanged", "changed"} \union FailingOutcomes

BrokenFailureThreshold == 3

HealthForOutcome(health, outcome, failures) ==
    CASE outcome \in {"unchanged", "changed"} ->
            IF health \in {"degraded", "rate_limited", "broken"} THEN "active" ELSE health
      [] outcome = "unauthorized" -> "authentication_required"
      [] outcome = "rate_limited" -> "rate_limited"
      [] outcome = "redirected" -> "relocated"
      [] outcome \in {"unavailable", "parser_failed"} ->
            IF failures >= BrokenFailureThreshold THEN "broken" ELSE "degraded"
      [] outcome \in {"suspicious_content", "manual_review_required"} -> "degraded"

\* A move without an edge is refused and the health stands.
NextHealth(health, outcome, failures) ==
    LET next == HealthForOutcome(health, outcome, failures)
    IN  IF next \in HealthEdges[health] THEN next ELSE health

\* The source is one the scheduler may ask for.
Healthy(health) == health \in {"active", "degraded"}
=============================================================================
