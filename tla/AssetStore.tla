----------------------------- MODULE AssetStore -----------------------------
(***************************************************************************)
(* The assets table of src/comfy_controller/adapters/sqlite_store.py, the  *)
(* only state that survives a kill of the controller.  Every operation is  *)
(* one BEGIN IMMEDIATE transaction under the store's lock, so it is one    *)
(* atomic action here; the caller conjoins it with what it changes itself. *)
(*                                                                         *)
(* A row keeps the columns that decide something later.  `job_key' is the  *)
(* pair <<asset, attempt>> (it is written together with `attempt' and is   *)
(* NULL while attempt = 0).  `waiting' says that retry_after is still in   *)
(* the future.  `outputs' is the set of prompts whose files output_paths   *)
(* names.  The error, verdict and run_log columns are only ever printed.   *)
(***************************************************************************)
EXTENDS Naturals, FiniteSets

CONSTANTS
  Assets,     \* asset ids; numbers, because claims are granted in id order
  PromptIds,  \* prompt ids ComfyUI can hand out: the bound on submissions
  NoPrompt    \* a NULL comfy_prompt_id

ASSUME StoreAssumption == Assets \subseteq Nat /\ NoPrompt \notin PromptIds

VARIABLE rows

InFlight == {"claimed", "submitted"}
Unclaimed == {"pending", "retry_wait"}
Finished == {"saved", "parked_approval", "judge_unavailable",
             "skipped_review", "permanent_error"}
AssetState == InFlight \cup Unclaimed \cup Finished

Row == [state : AssetState \cup {"absent"},
        attempt : Nat,
        promptId : PromptIds \cup {NoPrompt},
        outputs : SUBSET PromptIds,
        crashCount : Nat,
        waiting : BOOLEAN,
        reconciling : BOOLEAN]

\* A row as INSERT and requeue_for_regeneration leave it, but for its state.
FreshRow(state) ==
  [state |-> state, attempt |-> 0, promptId |-> NoPrompt, outputs |-> {},
   crashCount |-> 0, waiting |-> FALSE, reconciling |-> FALSE]

StoreInit == rows = [a \in Assets |-> FreshRow("absent")]

RowsTypeOK == rows \in [Assets -> Row]

-----------------------------------------------------------------------------
\* INSERT ... ON CONFLICT(id) DO NOTHING: only rows that are not there yet.
LoadBatch(manifest) ==
  rows' = [a \in Assets |->
             IF a \in manifest /\ rows[a].state = "absent"
             THEN FreshRow("pending") ELSE rows[a]]

\* Mutation: the claim without its condition on the state.
ClaimableWithoutLock(a) == rows[a].state \in Unclaimed \cup InFlight /\ ~rows[a].waiting

Claimable(a) == rows[a].state \in Unclaimed /\ ~rows[a].waiting

\* The conditional UPDATE that is the lock.  It leaves comfy_prompt_id, the
\* outputs and the reconciling flag of an earlier attempt where they are.
ClaimNext(a) ==
  /\ Claimable(a)
  /\ \A b \in Assets : Claimable(b) => a <= b
  /\ rows' = [rows EXCEPT ![a].state = "claimed",
                          ![a].attempt = @ + 1]

\* The rows record_submission's UPDATE and its UNIQUE constraint let through.
SubmissionAccepted(a, p) ==
  /\ rows[a].state \in InFlight
  /\ \A b \in Assets \ {a} : rows[b].promptId # p

\* Mutation: only the first submission of a claim is written, silently.
RecordFirstSubmission(a, p) ==
  /\ SubmissionAccepted(a, p)
  /\ rows' = IF rows[a].state = "submitted" THEN rows
             ELSE [rows EXCEPT ![a].state = "submitted", ![a].promptId = p]

RecordSubmission(a, p) ==
  /\ SubmissionAccepted(a, p)
  /\ rows' = [rows EXCEPT ![a].state = "submitted", ![a].promptId = p]

\* SubmissionNotRecorded or DuplicatePromptId: rolled back, and raised.
SubmissionRefused(a, p) == ~SubmissionAccepted(a, p)

\* Mutations: every finished claim counts as a crash; no crash is counted.
CrashesOfEveryClaim(row) ==
  row.crashCount + (IF row.state \in InFlight THEN 1 ELSE 0)
CrashesForgotten(row) == row.crashCount

\* A row that a restart found in flight counts one crash when it moves on.
CrashesAfter(row) ==
  row.crashCount + (IF row.reconciling /\ row.state \in InFlight THEN 1 ELSE 0)

\* transition: whatever the prior state was.
Transition(a, state, outputs, waiting) ==
  rows' = [rows EXCEPT ![a] = [@ EXCEPT !.state = state,
                                        !.outputs = outputs,
                                        !.waiting = waiting,
                                        !.crashCount = CrashesAfter(rows[a]),
                                        !.reconciling = FALSE]]

\* requeue_for_regeneration (comfyctl approve): no condition on the state.
RequeueForRegeneration(a) ==
  rows' = [rows EXCEPT ![a] = FreshRow("pending")]

\* Mutations: terminal rows are handed back too; submitted rows are not.
ReconcileTerminalRowsToo ==
  {a \in Assets : rows[a].state \notin Unclaimed \cup {"absent"}}
ReconcileClaimedRowsOnly == {a \in Assets : rows[a].state = "claimed"}

\* needing_reconciliation flags the rows it hands back.
NeedingReconciliation == {a \in Assets : rows[a].state \in InFlight}

FlagForReconciliation ==
  rows' = [a \in Assets |->
             IF rows[a].state \in InFlight
             THEN [rows[a] EXCEPT !.reconciling = TRUE] ELSE rows[a]]

\* retry_after passes: the clock, not an operation of the store.
BackoffElapses(a) ==
  /\ rows[a].waiting
  /\ rows' = [rows EXCEPT ![a].waiting = FALSE]
=============================================================================
