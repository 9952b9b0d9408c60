---------------------------- MODULE BatchRunner ----------------------------
(***************************************************************************)
(* BatchRunner (src/comfy_controller/runner.py) on single assets: the      *)
(* workers that claim, submit, await, judge and finish assets; the startup *)
(* reconciliation; the stop event and the budget; and, around them, the    *)
(* ComfyUI server, the operator's approvals and kills of the controller.   *)
(*                                                                         *)
(* A worker's step runs from one await to the next; what it holds between  *)
(* two awaits is in worker[w].  Each step that ends in a store transaction *)
(* contains that transaction, because a kill before the commit leaves the  *)
(* same rows as a kill before the step.                                    *)
(*                                                                         *)
(* The circuit breaker is reduced to its interface: _await_breaker lets a  *)
(* worker through after any delay, or refuses it once the stop event is    *)
(* set.  Sequence assets have a module of their own in the plan.           *)
(***************************************************************************)
EXTENDS AssetStore, RetryPolicy

CONSTANTS
  Workers,              \* the concurrency worker loops
  NoAsset,              \* what a worker between two assets holds
  CrashLimit,           \* crashes after which reconciliation gives up (2)
  PostTries,            \* POSTs of one call of comfy.submit (4)
  Faults,               \* which outside faults happen
  ApproveWhileRunning,  \* may comfyctl approve run beside the batch?
  \* bounds on the outside events of one behaviour
  MaxKills, MaxHalts, MaxComfyRestarts, MaxApprovals

Fault == {"bad_graph",    \* unreadable workflow, or a graph ComfyUI rejects
          "refused",      \* submit fails and the server has no prompt
          "reply_lost",   \* the server has a prompt, the reply is lost
          "timeout",      \* the outcome is later than await_outcome's timeout
          "await_error",  \* await_outcome raises something else
          "bad_output",   \* the output files cannot be read
          "judge_down"}   \* JudgeUnavailable, or another error of the judge

\* run() starts max(1, concurrency) workers.
ASSUME RunnerAssumption ==
  /\ IsFiniteSet(Workers) /\ Workers # {}
  /\ NoAsset \notin Assets
  /\ CrashLimit \in Nat /\ PostTries \in Nat \ {0}
  /\ Faults \subseteq Fault
  /\ ApproveWhileRunning \in BOOLEAN
  /\ MaxKills \in Nat /\ MaxHalts \in Nat
  /\ MaxComfyRestarts \in Nat /\ MaxApprovals \in Nat

VARIABLES
  proc,      \* the controller process
  lastExit,  \* how its latest run ended
  todo,      \* rows that startup reconciliation has still to resolve
  stop,      \* _stop_event
  halt,      \* what asks the run to halt: "none", "budget" or "tripped"
  worker,    \* the worker coroutines
  prompts,   \* the prompts ComfyUI has accepted, with their outputs on disk
  \* history of what happened, read by properties and bounds only
  rejected,    \* prompts whose images a judge did not pass
  superseded,  \* prompts an approval asked to generate again
  yields,      \* claims of each asset given back for a halt
  orphans,     \* prompts ComfyUI still works on, given up by who posted them
  kills, crashes, halts, comfyRestarts, approvals

runVars == <<proc, lastExit, todo, stop, halt>>
historyVars == <<rejected, superseded, yields, orphans>>
eventCounts == <<kills, crashes, halts, comfyRestarts, approvals>>
vars == <<rows, proc, lastExit, todo, stop, halt, worker, prompts,
          rejected, superseded, yields, orphans,
          kills, crashes, halts, comfyRestarts, approvals>>

-----------------------------------------------------------------------------
\* "check" and "claim" are the two halves of a worker-loop iteration, "gate"
\* is _await_breaker, "round" the top of the QC loop, "record" the gap between
\* POST /prompt and record_submission.
Busy == {"gate", "round", "record", "await", "judge"}
Pc == Busy \cup {"check", "claim", "exited"}

At(pc) == [pc |-> pc, asset |-> NoAsset, attempt |-> 0, round |-> 0,
           prompt |-> NoPrompt]

Worker == [pc : Pc, asset : Assets \cup {NoAsset}, attempt : Nat,
           round : Nat, prompt : PromptIds \cup {NoPrompt}]

\* A prompt on the server.  `attempt' and `round' are its filename prefix;
\* `listed' says that /history has its entry; `file' is what its prefix
\* matches on the disk, which survives the server.
Prompt == [asset : Assets, attempt : Nat, round : Nat,
           status : {"live", "succeeded", "failed", "lost"},
           listed : BOOLEAN,
           file : {"none", "intact", "corrupt"}]

Issued == DOMAIN prompts
LivePrompts == {p \in Issued : prompts[p].status = "live"}

TypeOK ==
  /\ RowsTypeOK
  /\ proc \in {"down", "loaded", "reconciling", "running"}
  /\ lastExit \in {"none", "finished", "halted", "crashed"}
  /\ todo \subseteq Assets
  /\ stop \in BOOLEAN
  /\ halt \in {"none", "budget", "tripped"}
  /\ worker \in [Workers -> Worker]
  /\ Issued \subseteq PromptIds
  /\ prompts \in [Issued -> Prompt]
  /\ rejected \subseteq PromptIds
  /\ superseded \subseteq PromptIds
  /\ yields \in [Assets -> Nat]
  /\ orphans \subseteq PromptIds
  /\ kills \in Nat /\ crashes \in Nat /\ halts \in Nat
  /\ comfyRestarts \in Nat /\ approvals \in Nat

Init ==
  /\ StoreInit
  /\ proc = "down" /\ lastExit = "none" /\ todo = {}
  /\ stop = FALSE /\ halt = "none"
  /\ worker = [w \in Workers |-> At("check")]
  /\ prompts = [p \in {} |-> {}]
  /\ rejected = {} /\ superseded = {} /\ yields = [a \in Assets |-> 0]
  /\ orphans = {}
  /\ kills = 0 /\ crashes = 0 /\ halts = 0
  /\ comfyRestarts = 0 /\ approvals = 0

-----------------------------------------------------------------------------
(* run(): load the manifest, reconcile, start the workers, return.         *)

Launch ==
  /\ proc = "down"
  /\ LoadBatch(Assets)
  /\ proc' = "loaded"
  /\ UNCHANGED <<lastExit, todo, stop, halt, worker, prompts>>
  /\ UNCHANGED historyVars /\ UNCHANGED eventCounts

BeginReconciliation ==
  /\ proc = "loaded"
  /\ FlagForReconciliation
  /\ todo' = NeedingReconciliation
  /\ proc' = "reconciling"
  /\ UNCHANGED <<lastExit, stop, halt, worker, prompts>>
  /\ UNCHANGED historyVars /\ UNCHANGED eventCounts

\* A new run has a new stop event, a new start time and no GPU seconds; the
\* global breaker is a new object too.
StartWorkers ==
  /\ proc = "reconciling"
  /\ todo = {}
  /\ proc' = "running"
  /\ stop' = FALSE /\ halt' = "none"
  /\ worker' = [w \in Workers |-> At("check")]
  /\ UNCHANGED <<rows, lastExit, todo, prompts>>
  /\ UNCHANGED historyVars /\ UNCHANGED eventCounts

\* gather() has every worker's return: the morning report, and exit code 0.
Return ==
  /\ proc = "running"
  /\ \A w \in Workers : worker[w].pc = "exited"
  /\ proc' = "down"
  /\ lastExit' = IF stop THEN "halted" ELSE "finished"
  /\ UNCHANGED <<rows, todo, stop, halt, worker, prompts>>
  /\ UNCHANGED historyVars /\ UNCHANGED eventCounts

\* Nobody waits for these any more; those that still run are orphans.
Abandon(ids) == orphans' = orphans \cup (ids \cap LivePrompts)

\* What a worker has posted and not heard of again.
Awaited == {worker[w].prompt : w \in {v \in Workers : worker[v].pc \in {"record", "await"}}}

\* The process is gone, and with it everything but the table and the disk.
ProcessDies ==
  /\ proc' = "down" /\ lastExit' = "crashed"
  /\ todo' = {} /\ stop' = FALSE /\ halt' = "none"
  /\ worker' = [w \in Workers |-> At("check")]
  /\ crashes' = crashes + 1
  /\ Abandon(Awaited)
  /\ UNCHANGED <<rows, prompts, halts, comfyRestarts, approvals>>
  /\ UNCHANGED <<rejected, superseded, yields>>

-----------------------------------------------------------------------------
(* _reconcile_startup: one row found in flight, before any worker runs.    *)

\* The outputs of attempt `n' of an asset that carry no QC round, unless one
\* of a later round exists; corrupt files are passed over.
FilesOf(a, n) ==
  {p \in Issued : /\ prompts[p].asset = a /\ prompts[p].attempt = n
                  /\ prompts[p].file # "none"}

\* Mutation: a file that exists is a success, whole or torn.
OutputsOnDiskUnchecked(a, n) ==
  IF \E p \in FilesOf(a, n) : prompts[p].round > 0 THEN {} ELSE FilesOf(a, n)

OutputsOnDisk(a, n) ==
  IF \E p \in FilesOf(a, n) : prompts[p].round > 0 THEN {}
  ELSE {p \in FilesOf(a, n) : prompts[p].file = "intact"}

\* What the row's prompt id and, failing that, its job key lead to.  The
\* history probe may also go unanswered, which is not held against the asset.
HistoryEntry(p) == p \in Issued /\ prompts[p].listed

HistoryFailed(a) ==
  HistoryEntry(rows[a].promptId) /\ prompts[rows[a].promptId].status = "failed"

\* `probed': did the history probe get an answer?
FoundOutputs(a, probed) ==
  IF probed /\ HistoryEntry(rows[a].promptId) THEN {rows[a].promptId}
  ELSE OutputsOnDisk(a, rows[a].attempt)

Reconciled(a, state, outputs, waiting) ==
  /\ Transition(a, state, outputs, waiting)
  /\ todo' = todo \ {a}
  /\ UNCHANGED <<proc, lastExit, stop, halt, worker, prompts, superseded, yields, orphans>>
  /\ UNCHANGED eventCounts

ReconcileGivesUp(a) ==
  /\ rows[a].crashCount >= CrashLimit
  /\ Reconciled(a, TerminalState("single", FALSE), rows[a].outputs, FALSE)
  /\ UNCHANGED rejected

\* The server says the prompt failed; its message names no class.
ReconcileFailed(a) ==
  /\ HistoryFailed(a)
  /\ IF ShouldRetry("unknown", AttemptsBefore(rows[a].attempt))
     THEN Reconciled(a, "retry_wait", rows[a].outputs, TRUE)
     ELSE Reconciled(a, GiveUpState("unknown", "single"), rows[a].outputs, FALSE)
  /\ UNCHANGED rejected

\* Images were found: judge them as if the attempt had just succeeded.
ReconcileJudged(a, outputs) ==
  \/ /\ Reconciled(a, "saved", outputs, FALSE)
     /\ UNCHANGED rejected
  \/ /\ Reconciled(a, "retry_wait", rows[a].outputs, FALSE)
     /\ rejected' = rejected \cup outputs
  \/ /\ "judge_down" \in Faults
     /\ \/ Reconciled(a, "judge_unavailable", outputs, FALSE)
        \/ Reconciled(a, "retry_wait", rows[a].outputs, FALSE)
     /\ UNCHANGED rejected
  \/ /\ "bad_output" \in Faults
     /\ Reconciled(a, TerminalState("single", FALSE), outputs, FALSE)
     /\ UNCHANGED rejected

\* Nothing was found: never guess, requeue.
ReconcileRequeues(a) ==
  /\ Reconciled(a, "retry_wait", rows[a].outputs, FALSE)
  /\ UNCHANGED rejected

ReconcileOne(a) ==
  /\ proc = "reconciling"
  /\ a \in todo
  /\ \/ ReconcileGivesUp(a)
     \/ /\ rows[a].crashCount < CrashLimit
        /\ \E probed \in BOOLEAN :
             LET outputs == FoundOutputs(a, probed) IN
             \/ /\ probed
                /\ ReconcileFailed(a)
             \/ /\ ~(probed /\ HistoryFailed(a))
                /\ outputs # {}
                /\ ReconcileJudged(a, outputs)
             \/ /\ ~(probed /\ HistoryFailed(a))
                /\ outputs = {}
                /\ ReconcileRequeues(a)

-----------------------------------------------------------------------------
(* _worker_loop: the two halves of an iteration that claims an asset.      *)

Goto(w, pc) == worker' = [worker EXCEPT ![w] = At(pc)]

\* Mutation: a halted worker goes round its loop instead of returning.
CheckAgain(w) ==
  /\ proc = "running"
  /\ worker[w].pc = "check"
  /\ IF stop \/ halt # "none"
     THEN stop' = TRUE /\ Goto(w, "check")
     ELSE UNCHANGED stop /\ Goto(w, "claim")
  /\ UNCHANGED <<rows, proc, lastExit, todo, halt, prompts>>
  /\ UNCHANGED historyVars /\ UNCHANGED eventCounts

\* The checks before a claim: stop event, budget, global breaker.
Check(w) ==
  /\ proc = "running"
  /\ worker[w].pc = "check"
  /\ IF stop \/ halt # "none"
     THEN stop' = TRUE /\ Goto(w, "exited")
     ELSE UNCHANGED stop /\ Goto(w, "claim")
  /\ UNCHANGED <<rows, proc, lastExit, todo, halt, prompts>>
  /\ UNCHANGED historyVars /\ UNCHANGED eventCounts

Claim(w) ==
  /\ proc = "running"
  /\ worker[w].pc = "claim"
  /\ \E a \in Assets :
       /\ ClaimNext(a)
       /\ worker' = [worker EXCEPT ![w] =
            [At("gate") EXCEPT !.asset = a, !.attempt = rows[a].attempt + 1]]
  /\ UNCHANGED <<proc, lastExit, todo, stop, halt, prompts>>
  /\ UNCHANGED historyVars /\ UNCHANGED eventCounts

\* Mutation: nothing to claim now is taken for nothing left to do.
FindNothingAndLeave(w) ==
  /\ proc = "running"
  /\ worker[w].pc = "claim"
  /\ \A a \in Assets : ~Claimable(a)
  /\ Goto(w, "exited")
  /\ UNCHANGED <<rows, proc, lastExit, todo, stop, halt, prompts>>
  /\ UNCHANGED historyVars /\ UNCHANGED eventCounts

\* Nothing to claim: done when every row is terminal, else poll again.
FindNothing(w) ==
  /\ proc = "running"
  /\ worker[w].pc = "claim"
  /\ \A a \in Assets : ~Claimable(a)
  /\ Goto(w, IF \A a \in Assets : rows[a].state \in Finished
             THEN "exited" ELSE "check")
  /\ UNCHANGED <<rows, proc, lastExit, todo, stop, halt, prompts>>
  /\ UNCHANGED historyVars /\ UNCHANGED eventCounts

-----------------------------------------------------------------------------
(* How an asset leaves a worker.                                           *)

\* The worker's last transition of this claim, and back to the loop.
Settle(w, state, outputs, waiting) ==
  /\ Transition(worker[w].asset, state, outputs, waiting)
  /\ Goto(w, "check")

Kept(w) == rows[worker[w].asset].outputs

HandleExecutionFailure(w, class) ==
  IF ShouldRetry(class, AttemptsBefore(worker[w].attempt))
  THEN Settle(w, "retry_wait", Kept(w), TRUE)
  ELSE Settle(w, GiveUpState(class, "single"), Kept(w), FALSE)

FailAssetPermanently(w) == Settle(w, "permanent_error", Kept(w), FALSE)

\* Mutation: the except clause logs and leaves the row as it is.
LogAfterException(w) == Goto(w, "check") /\ UNCHANGED rows

\* The worker loop's except clause for anything nobody expected.
SkipAfterException(w) == Settle(w, "skipped_review", Kept(w), FALSE)

-----------------------------------------------------------------------------
(* _process_single.                                                        *)

PassGate(w) ==
  /\ proc = "running"
  /\ worker[w].pc = "gate"
  /\ \/ /\ worker' = [worker EXCEPT ![w].pc = "round"]
        /\ UNCHANGED rows
     \/ /\ "bad_graph" \in Faults
        /\ FailAssetPermanently(w)
  /\ UNCHANGED <<proc, lastExit, todo, stop, halt, prompts>>
  /\ UNCHANGED historyVars /\ UNCHANGED eventCounts

\* _await_breaker raises CancelledError: gather cancels every other worker,
\* run() raises and the process exits with an error.
RefusedAtGate(w) ==
  /\ proc = "running"
  /\ worker[w].pc = "gate"
  /\ stop
  /\ ProcessDies
  /\ UNCHANGED kills

\* Mutation: the halted worker leaves its loop without giving the row back.
LeaveForHalt(w) ==
  /\ proc = "running"
  /\ worker[w].pc = "round"
  /\ stop \/ halt = "budget"
  /\ Goto(w, "check")
  /\ stop' = TRUE
  /\ UNCHANGED <<rows, proc, lastExit, todo, halt, prompts>>
  /\ UNCHANGED historyVars /\ UNCHANGED eventCounts

YieldForHalt(w) ==
  /\ proc = "running"
  /\ worker[w].pc = "round"
  /\ stop \/ halt = "budget"
  /\ Settle(w, "retry_wait", Kept(w), FALSE)
  /\ stop' = TRUE
  /\ yields' = [yields EXCEPT ![worker[w].asset] = @ + 1]
  /\ UNCHANGED <<proc, lastExit, todo, halt, prompts, rejected, superseded, orphans>>
  /\ UNCHANGED eventCounts

\* The prompt a worker's round puts on the server.
NewPrompt(w) ==
  [asset |-> worker[w].asset, attempt |-> worker[w].attempt,
   round |-> worker[w].round, status |-> "live", listed |-> FALSE,
   file |-> "none"]

Accept(w, ids) ==
  prompts' = [p \in Issued \cup ids |->
                IF p \in ids THEN NewPrompt(w) ELSE prompts[p]]

Submitted(w, p) ==
  /\ worker' = [worker EXCEPT ![w].pc = "record", ![w].prompt = p]
  /\ UNCHANGED rows

\* The prompts of POSTs that ComfyUI took and whose reply never came.
Unanswered ==
  IF "reply_lost" \in Faults
  THEN {ids \in SUBSET (PromptIds \ Issued) : Cardinality(ids) <= PostTries}
  ELSE {{}}

\* POST /prompt.  After a lost reply the adapter posts the same graph again: in
\* the end a POST is answered, is refused, or its tries are spent.
Submit(w) ==
  /\ proc = "running"
  /\ worker[w].pc = "round"
  /\ ~stop /\ halt # "budget"
  /\ \E lost \in Unanswered :
       /\ orphans' = orphans \cup lost
       /\ \/ /\ Cardinality(lost) < PostTries
             /\ \E p \in PromptIds \ (Issued \cup lost) :
                  /\ Accept(w, lost \cup {p})
                  /\ Submitted(w, p)
          \/ /\ lost # {}
             /\ Accept(w, lost)
             /\ HandleExecutionFailure(w, "temporary")
          \/ /\ "refused" \in Faults
             /\ Cardinality(lost) < PostTries
             /\ Accept(w, lost)
             /\ \E class \in ErrorClass : HandleExecutionFailure(w, class)
          \/ /\ "bad_graph" \in Faults
             /\ lost = {}
             /\ FailAssetPermanently(w)
             /\ UNCHANGED prompts
  /\ UNCHANGED <<proc, lastExit, todo, stop, halt, rejected, superseded, yields>>
  /\ UNCHANGED eventCounts

Record(w) ==
  /\ proc = "running"
  /\ worker[w].pc = "record"
  /\ \/ /\ RecordSubmission(worker[w].asset, worker[w].prompt)
        /\ worker' = [worker EXCEPT ![w].pc = "await"]
        /\ UNCHANGED orphans
     \/ /\ SubmissionRefused(worker[w].asset, worker[w].prompt)
        /\ SkipAfterException(w)
        /\ Abandon({worker[w].prompt})
  /\ UNCHANGED <<proc, lastExit, todo, stop, halt, prompts, rejected, superseded, yields>>
  /\ UNCHANGED eventCounts

\* await_outcome: the outcome, a timeout that the direct history check could
\* not answer either, or an error of that check.
Await(w) ==
  LET prompt == prompts[worker[w].prompt] IN
  /\ proc = "running"
  /\ worker[w].pc = "await"
  /\ \/ /\ prompt.status = "succeeded"
        /\ worker' = [worker EXCEPT ![w].pc = "judge"]
        /\ UNCHANGED <<rows, orphans>>
     \/ /\ prompt.status = "failed"
        /\ \E class \in ErrorClass : HandleExecutionFailure(w, class)
        /\ UNCHANGED orphans
     \/ /\ "timeout" \in Faults
        /\ ~prompt.listed
        /\ HandleExecutionFailure(w, "temporary")
        /\ Abandon({worker[w].prompt})
     \/ /\ "await_error" \in Faults
        /\ SkipAfterException(w)
        /\ Abandon({worker[w].prompt})
  /\ UNCHANGED <<proc, lastExit, todo, stop, halt, prompts, rejected, superseded, yields>>
  /\ UNCHANGED eventCounts

\* A verdict that is not a pass: re-roll with the judge's fix, or give up, or
\* ask a person when the judge was unsure or proposed no fix.
NotPassed(w) ==
  /\ rejected' = rejected \cup {worker[w].prompt}
  /\ \/ /\ QcShouldRetry(worker[w].round, "single")
        /\ worker' = [worker EXCEPT ![w].pc = "round", ![w].round = @ + 1]
        /\ UNCHANGED rows
     \/ /\ ~QcShouldRetry(worker[w].round, "single")
        /\ Settle(w, QcGiveUpState("single"), {worker[w].prompt}, FALSE)
     \/ Settle(w, "parked_approval", {worker[w].prompt}, FALSE)

NoVerdict(w) ==
  \/ /\ "judge_down" \in Faults
     /\ \/ Settle(w, "judge_unavailable", {worker[w].prompt}, FALSE)
        \/ SkipAfterException(w)
  \/ /\ "bad_output" \in Faults
     /\ Settle(w, TerminalState("single", FALSE), {worker[w].prompt}, FALSE)

Judge(w) ==
  /\ proc = "running"
  /\ worker[w].pc = "judge"
  /\ \/ /\ Settle(w, "saved", {worker[w].prompt}, FALSE)
        /\ UNCHANGED rejected
     \/ NotPassed(w)
     \/ /\ NoVerdict(w)
        /\ UNCHANGED rejected
  /\ UNCHANGED <<proc, lastExit, todo, stop, halt, prompts, superseded, yields, orphans>>
  /\ UNCHANGED eventCounts

-----------------------------------------------------------------------------
(* The ComfyUI server.  It runs on, and finishes prompts, whether or not   *)
(* the controller is there.                                                *)

PromptEnds(p, status, file) ==
  /\ p \in Issued
  /\ prompts[p].status = "live"
  /\ prompts' = [prompts EXCEPT ![p].status = status, ![p].listed = TRUE,
                                ![p].file = file]
  /\ orphans' = orphans \ {p}
  /\ UNCHANGED <<rows, worker>> /\ UNCHANGED runVars
  /\ UNCHANGED <<rejected, superseded, yields>> /\ UNCHANGED eventCounts

ComfySucceeds(p) == PromptEnds(p, "succeeded", "intact")
ComfyFails(p) == PromptEnds(p, "failed", "none")

\* Queue and history are in the server's memory.  A prompt it was running may
\* leave a complete or a torn file behind.
ComfyRestarts ==
  /\ comfyRestarts < MaxComfyRestarts
  /\ comfyRestarts' = comfyRestarts + 1
  /\ \E left \in [Issued -> {"none", "intact", "corrupt"}] :
       /\ \A p \in Issued :
            prompts[p].status # "live" => left[p] = prompts[p].file
       /\ prompts' = [p \in Issued |->
            [prompts[p] EXCEPT
               !.status = IF @ = "live" THEN "lost" ELSE @,
               !.listed = FALSE,
               !.file = left[p]]]
  /\ orphans' = {}
  /\ UNCHANGED <<rows, worker>> /\ UNCHANGED runVars
  /\ UNCHANGED <<rejected, superseded, yields>> /\ UNCHANGED <<kills, crashes, halts, approvals>>

-----------------------------------------------------------------------------
(* The operator, the clock and the budget.                                 *)

Kill ==
  /\ proc # "down"
  /\ kills < MaxKills
  /\ kills' = kills + 1
  /\ ProcessDies

\* comfyctl approve, between two runs or beside one.
Approve(a) ==
  /\ approvals < MaxApprovals
  /\ approvals' = approvals + 1
  /\ proc = "down" \/ (ApproveWhileRunning /\ proc = "running")
  /\ rows[a].state # "absent"
  /\ RequeueForRegeneration(a)
  /\ superseded' = superseded \cup {p \in Issued : prompts[p].asset = a}
  /\ yields' = [yields EXCEPT ![a] = 0]
  /\ UNCHANGED <<worker, prompts, rejected, orphans>> /\ UNCHANGED runVars
  /\ UNCHANGED <<kills, crashes, halts, comfyRestarts>>

\* The budget runs out, the global breaker trips, or the supervisor gives up
\* and sets the stop event itself.
HaltRequested ==
  /\ proc = "running"
  /\ halts < MaxHalts
  /\ halts' = halts + 1
  /\ \/ /\ halt = "none"
        /\ halt' \in {"budget", "tripped"}
        /\ UNCHANGED stop
     \/ /\ ~stop
        /\ stop' = TRUE
        /\ UNCHANGED halt
  /\ UNCHANGED <<rows, proc, lastExit, todo, worker, prompts>>
  /\ UNCHANGED historyVars /\ UNCHANGED <<kills, crashes, comfyRestarts, approvals>>

RetryFallsDue(a) ==
  /\ BackoffElapses(a)
  /\ UNCHANGED <<worker, prompts>> /\ UNCHANGED runVars
  /\ UNCHANGED historyVars /\ UNCHANGED eventCounts

-----------------------------------------------------------------------------
Startup ==
  \/ Launch \/ BeginReconciliation \/ StartWorkers
  \/ \E a \in Assets : ReconcileOne(a)

WorkerStep(w) ==
  \/ Check(w) \/ Claim(w) \/ FindNothing(w)
  \/ PassGate(w) \/ RefusedAtGate(w) \/ YieldForHalt(w)
  \/ Submit(w) \/ Record(w) \/ Await(w) \/ Judge(w)

Environment ==
  \/ \E p \in PromptIds : ComfySucceeds(p) \/ ComfyFails(p)
  \/ ComfyRestarts
  \/ Kill \/ HaltRequested
  \/ \E a \in Assets : Approve(a) \/ RetryFallsDue(a)

Next ==
  \/ Startup
  \/ \E w \in Workers : WorkerStep(w)
  \/ Return
  \/ Environment

Spec == Init /\ [][Next]_vars

\* The event loop runs every ready coroutine, time passes, and systemd starts
\* the unit again after a failure (Restart=on-failure), not after exit code 0.
Restart == lastExit # "finished" /\ lastExit # "halted" /\ Launch

Fairness ==
  /\ WF_vars(Restart)
  /\ WF_vars(Startup /\ proc # "down")
  /\ WF_vars(Return)
  /\ \A w \in Workers : WF_vars(WorkerStep(w))
  /\ \A a \in Assets : WF_vars(RetryFallsDue(a))

FairSpec == Spec /\ Fairness

-----------------------------------------------------------------------------
(* Properties.                                                             *)

Holds(w, a) == worker[w].pc \in Busy /\ worker[w].asset = a

\* No lost asset: while the batch runs, a claimed or submitted row always has
\* a worker that will settle it (nothing else would before the next restart).
InFlightHasWorker ==
  proc = "running" =>
    \A a \in Assets : rows[a].state \in InFlight => \E w \in Workers : Holds(w, a)

\* The claim is a lock: a busy worker's row is in flight, on the attempt that
\* worker claimed, and no other worker is on the same asset.
SoleOwner ==
  \A w \in Workers : worker[w].pc \in Busy =>
    /\ rows[worker[w].asset].state \in InFlight
    /\ rows[worker[w].asset].attempt = worker[w].attempt
    /\ \A v \in Workers \ {w} : ~Holds(v, worker[w].asset)

\* What reconciliation would act on is what the worker is waiting for: from
\* record_submission to the verdict, the row names the worker's own prompt.
RecordedPromptIsAwaited ==
  \A w \in Workers : worker[w].pc \in {"await", "judge"} =>
    /\ rows[worker[w].asset].state = "submitted"
    /\ rows[worker[w].asset].promptId = worker[w].prompt

\* A row never names a prompt that was generated for another asset, nor one
\* of an attempt that has not been claimed.
PromptBelongsToRow ==
  \A a \in Assets : rows[a].promptId # NoPrompt =>
    /\ rows[a].promptId \in Issued
    /\ prompts[rows[a].promptId].asset = a
    /\ prompts[rows[a].promptId].attempt <= rows[a].attempt

\* A terminal row is final: no late worker, reconciliation or reload of the
\* manifest writes over it, only an approval does.
FinishedIsFinal ==
  [][\A a \in Assets : rows[a].state \in Finished =>
       rows'[a] = rows[a] \/ approvals' # approvals]_vars

\* A run that returns, halted or not, has given back or finished every claim.
CleanExitLeavesNothingInFlight ==
  proc = "down" /\ lastExit \in {"finished", "halted"} =>
    \A a \in Assets : rows[a].state \notin InFlight

\* A run that returns without a halt leaves every asset in a terminal state.
FinishedMeansDone ==
  proc = "down" /\ lastExit = "finished" /\ approvals = 0 =>
    \A a \in Assets : rows[a].state \in Finished

\* The retry ladder is bounded over kills and halts: an attempt beyond it was
\* paid for by a crash or by a claim given back.
AttemptsBounded ==
  \A a \in Assets :
    rows[a].attempt <= 1 + TemporaryRetries + rows[a].crashCount + yields[a]

\* crash_count counts crashes, each at most once, and never a normal finish;
\* past the limit the asset is terminal.
CrashCountHonest ==
  \A a \in Assets :
    /\ rows[a].crashCount <= crashes
    /\ rows[a].crashCount > CrashLimit => rows[a].state \in Finished
    /\ rows[a].crashCount <= CrashLimit + 1

\* An asset is saved with at least one image, complete on the disk, that was
\* generated for it.
SavedHasItsImage ==
  \A a \in Assets : rows[a].state = "saved" =>
    /\ rows[a].outputs # {}
    /\ \A p \in rows[a].outputs :
         /\ p \in Issued
         /\ prompts[p].asset = a /\ prompts[p].file = "intact"

OnePerAsset(ids) ==
  \A p, q \in ids : p # q => prompts[p].asset # prompts[q].asset

\* ComfyUI never has two generations of one asset at the same time.
NoDuplicateGeneration == OnePerAsset(LivePrompts)

\* A second generation of an asset never starts beside one that is waited for,
\* over kills, halts, lost replies and timeouts: what may run beside it are the
\* orphans, each left by a dead controller, a reply that never came, or a worker
\* that was told of its timeout or of an error.
OneGenerationAtATime == OnePerAsset(LivePrompts \ orphans)

\* An image that a judge rejected is never saved.
SavedWasNeverRejected ==
  \A a \in Assets : rows[a].state = "saved" => rows[a].outputs \cap rejected = {}

\* After an approval, what is saved was generated after it.
ApprovedIsRegenerated ==
  \A a \in Assets : rows[a].state = "saved" => rows[a].outputs \cap superseded = {}

\* An asset whose crash_count has reached the limit is not tried again.
NoRetryAtCrashLimit ==
  \A a \in Assets :
    rows[a].crashCount >= CrashLimit => rows[a].state \notin Unclaimed \cup InFlight

\* Without a halt, every asset reaches a terminal state and stays there, over
\* kills and restarts of the controller and whatever ComfyUI does.
EveryAssetFinishes ==
  \A a \in Assets : <>[](rows[a].state \in Finished)

\* Once something asks the run to halt, the run ends.
HaltEndsTheRun == (stop \/ halt # "none") ~> (proc = "down")

-----------------------------------------------------------------------------
(* The refinement of AssetLifecycle.                                       *)

PhaseOf(state) ==
  CASE state = "absent" -> "absent"
    [] state \in Unclaimed -> "waiting"
    [] state \in InFlight -> "working"
    [] state \in Finished -> "finished"

Phase == [a \in Assets |-> PhaseOf(rows[a].state)]
Tries == [a \in Assets |-> rows[a].attempt]

\* The retry ladder, the crashes that are forgiven, and for every halt one
\* claim given back per worker.
MaxTries ==
  1 + TemporaryRetries + CrashLimit + MaxHalts * Cardinality(Workers)

Lifecycle == INSTANCE AssetLifecycle WITH
  Concurrency <- Cardinality(Workers), phase <- Phase, tries <- Tries

\* The batch controller implements the life cycle of its assets: never more
\* claims than workers, never more attempts than the retry policy, the crash
\* limit and the halts account for, and terminal states that stay.
ImplementsLifecycle == Lifecycle!Spec

\* It also implements its fairness: an asset that is claimed is settled, and
\* one that waits is claimed in the end.
ImplementsLifecycleFairly == Lifecycle!FairSpec
=============================================================================
