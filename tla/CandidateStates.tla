-------------------------- MODULE CandidateStates --------------------------
(***************************************************************************)
(* The candidate state machine of internal/domain/candidate.go, and the    *)
(* walk through it that validation takes (pathTo in ingest.go).            *)
(***************************************************************************)
EXTENDS SequencesExt

\* candidateTransitions: every legal edge.
CandidateEdges == [
    discovered |-> {"extracted", "rejected"},
    extracted |-> {"normalized", "rejected", "human_review_required"},
    normalized |-> {"validation_pending", "rejected", "human_review_required"},
    validation_pending |-> {"validated", "rejected", "human_review_required"},
    validated |-> {"published", "rejected", "human_review_required"},
    human_review_required |-> {"validated", "rejected", "published"},
    rejected |-> {"human_review_required"},
    published |-> {"superseded"},
    superseded |-> {}]

CandidateStates == DOMAIN CandidateEdges

CanTransitionTo(from, to) == to \in CandidateEdges[from]

\* TransitionTo succeeds on a legal edge, and on the state the candidate is in.
MayBecome(from, to) == from = to \/ CanTransitionTo(from, to)

\* One step of a walk that began at `from' and has come along `path': taken if there is
\* an edge, and it leads on.
Extend(from, path, step) ==
    LET cur == IF path = <<>> THEN from ELSE Last(path)
    IN  IF cur # step /\ CanTransitionTo(cur, step) THEN Append(path, step) ELSE path

\* The states a walk starting at `from' visits: one edge if there is one, else as much
\* of the usual chain as has edges.  A candidate with nowhere to go stays put.
PathTo(from, to) ==
    IF from = to THEN <<>>
    ELSE IF CanTransitionTo(from, to) THEN <<to>>
    ELSE LET normal == Extend(from, <<>>, "normalized")
             pending == Extend(from, normal, "validation_pending")
         IN  Extend(from, pending, to)
=============================================================================
