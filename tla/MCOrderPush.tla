----------------------------- MODULE MCOrderPush -----------------------------
(***************************************************************************)
(* Small instances of OrderPush, and what comments of the push code say of *)
(* it and it does not do. Each of these claims is checked by a run of its  *)
(* own that finds the counterexample.                                      *)
(***************************************************************************)
EXTENDS OrderPushInvariants, TLC

MCSymmetry == Permutations(Workers) \cup Permutations(Drafts)

\* adminController.ts, retryPush: the job id of the failed push is free, so a
\* retry "enqueues cleanly rather than deduplicating against the old one": with
\* the queue up, a FAILED order that is retried has a job about to run.
RetryQueuesTheOrder ==
  [][\A r \in Requests, o \in Orders :
       /\ kind[r] = "retry" /\ seen[r] = "FAILED" /\ target[r] = o
       /\ Enqueue(r)
       => Live(o)']_vars

\* fraud/controller.ts, reviewAssessment: approving a held order "is what
\* unblocks the push - so the order is re-queued here".
ApprovalQueuesTheOrder ==
  [][\A o \in Orders :
       reviewAssessment(o) /\ ~Pushable(o) /\ Pushable(o)' => Live(o)']_vars
==============================================================================
