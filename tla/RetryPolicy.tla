---------------------------- MODULE RetryPolicy ----------------------------
(***************************************************************************)
(* The pure decisions of src/comfy_controller/core/policy.py: after an     *)
(* execution failure, retry or give up, and in which terminal state; after *)
(* a rejected image, re-roll or give up.  The module has no state: the     *)
(* attempt number lives in the store and the round number in the worker.   *)
(***************************************************************************)
EXTENDS Naturals

CONSTANTS
  TemporaryRetries,  \* rungs of the TEMPORARY backoff ladder (3 in the code)
  UnknownRetries,    \* retries an UNKNOWN error gets (1 in the code)
  QcMaxRetries       \* rejected images that may be re-rolled, per kind (3 and 2)

Kind == {"single", "sequence"}
ErrorClass == {"temporary", "permanent", "unknown"}

\* An UNKNOWN error never gets more retries than a TEMPORARY one.
ASSUME RetryAssumption ==
  /\ TemporaryRetries \in Nat
  /\ UnknownRetries \in 0 .. TemporaryRetries
  /\ QcMaxRetries \in [Kind -> Nat]

\* A sequence is never dropped, it waits for a person; a single asset is a
\* permanent error when nothing can fix it and a skip when that is not sure.
TerminalState(kind, permanent) ==
  IF kind = "sequence" THEN "parked_approval"
  ELSE IF permanent THEN "permanent_error" ELSE "skipped_review"

RetryLimit(class) ==
  [permanent |-> 0, temporary |-> TemporaryRetries, unknown |-> UnknownRetries][class]

\* Mutation: one retry too many.
ShouldRetryOneMore(class, attempt) == attempt <= RetryLimit(class)

(***************************************************************************)
(* RetryPolicy.next_action.  `attempt' counts the attempts already made    *)
(* before the failing one.                                                 *)
(***************************************************************************)
ShouldRetry(class, attempt) == attempt < RetryLimit(class)
GiveUpState(class, kind) == TerminalState(kind, class = "permanent")

\* RetryPolicy.qc_retry_decision: the cap on re-rolls, without backoff.
QcShouldRetry(round, kind) == round < QcMaxRetries[kind]
QcGiveUpState(kind) == TerminalState(kind, FALSE)

\* How the runner and the reconciler read the stored counter, which already
\* includes the attempt that failed: max(attempt - 1, 0).
AttemptsBefore(attempt) == IF attempt = 0 THEN 0 ELSE attempt - 1
=============================================================================
