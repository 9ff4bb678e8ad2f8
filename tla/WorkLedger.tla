----------------------------- MODULE WorkLedger -----------------------------
(***************************************************************************)
(* What the job queue promises to the rest of FirmScout, with the leases,  *)
(* the workers and the retries hidden.                                     *)
(*                                                                         *)
(* A job is owed from the moment its idempotency key is first inserted.    *)
(* Its handler may run any number of times.  The queue records the job     *)
(* succeeded only when some run of its handler returned without an error,  *)
(* and otherwise it may give the job up as dead.  Either verdict is final, *)
(* and submitting the key again never brings a job back.                   *)
(***************************************************************************)
CONSTANT Jobs

VARIABLES
    verdict,    \* what the ledger says of each job
    ran         \* the jobs a handler has carried out at least once

ledgerVars == <<verdict, ran>>

Verdicts == {"unknown", "owed", "succeeded", "dead"}

LedgerTypeOK ==
    /\ verdict \in [Jobs -> Verdicts]
    /\ ran \subseteq Jobs

LedgerInit ==
    /\ verdict = [j \in Jobs |-> "unknown"]
    /\ ran = {}

Submit(j) ==
    /\ verdict[j] = "unknown"
    /\ verdict' = [verdict EXCEPT ![j] = "owed"]
    /\ UNCHANGED ran

\* A handler runs to the end.  At-least-once delivery lets this happen after
\* the verdict too, to a worker that was given the job before.
CarryOut(j) ==
    /\ verdict[j] # "unknown"
    /\ ran' = ran \union {j}
    /\ UNCHANGED verdict

RecordSuccess(j) ==
    /\ verdict[j] = "owed"
    /\ j \in ran
    /\ verdict' = [verdict EXCEPT ![j] = "succeeded"]
    /\ UNCHANGED ran

GiveUp(j) ==
    /\ verdict[j] = "owed"
    /\ verdict' = [verdict EXCEPT ![j] = "dead"]
    /\ UNCHANGED ran

LedgerNext ==
    \E j \in Jobs : Submit(j) \/ CarryOut(j) \/ RecordSuccess(j) \/ GiveUp(j)

LedgerSpec == LedgerInit /\ [][LedgerNext]_ledgerVars
=============================================================================
