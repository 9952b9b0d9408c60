# Verification of the ComfyUI batch controller

TLA+ models of the overnight batch controller (`src/src/comfy_controller`), the
TLC runs that check them on small instances, and the proofs that TLAPS checks
for every instance. Paths below are relative to `src/src/comfy_controller`
unless they start with `ops/`, `deploy/`, `docs/` or `comfyui_guard_node/`.

## 1. The system

| Component | State it keeps | Operations | Interacts with |
|---|---|---|---|
| Asset store (`adapters/sqlite_store.py`) | the `assets` table: state, attempt, job key, prompt id, outputs, crash count, retry time, reconciling flag; an append-only `run_log` | load_batch, claim_next, record_submission, transition, requeue_for_regeneration, needing_reconciliation, summary | called by runner and CLI; the only state that survives a kill |
| Batch runner (`runner.py`) | stop event, budget counters, per-worker record / seed / QC round, graph cache, heartbeat time | run, worker loop, single and sequence processing, startup reconciliation, halts, supervisor loop, heartbeat | every other component |
| Retry policy, classifier (`core/policy.py`) | none | next_action, qc_retry_decision, classify | runner |
| Circuit breaker, global breaker (`core/policy.py`) | per partition: state, consecutive failures, time opened; global: crash times, tripped, reason | allow, record_success, record_failure; record_crash, trip, reset | workers; supervisor loop |
| Sequence repair (`core/sequence.py`, `_process_sequence`) | per claim: frames, attempt counts, failed frames | plan; generate, judge, compare, repair frames | ComfyUI, judge, store |
| Health supervisor (`supervisor.py`) | bad-verdict streak, restart times, held flag, last event time | assess, tick, canary, restart, maybe_recycle | ComfyUI process, supervisor loop |
| ComfyUI client (`adapters/comfy_http.py`) | in-flight futures, unclaimed results, socket | submit, await_outcome, event dispatch, reconnect and resynchronise | ComfyUI server |
| Judge (`adapters/claude_judge.py`) | cost so far | N samples, majority per check | model API |
| Notifiers (`adapters/slack_notifier.py`, `console_notifier.py`), alert coalescer (`reporting.py`) | per title: pending alert, flush timer; messages in the thread pool | submit, flush, close | runner, teardown of the CLI |
| Dead-man's switch (`ops/deadman.sh`, `ops/on_controller_stop.sh`, `deploy/`) | heartbeat file (written by the runner and by preflight), startup marker, an armed shutdown | arm at boot, check the heartbeat, terminate, stop hook | systemd, cloud provider, runner |
| Guard node (`comfyui_guard_node`) | none of its own; `success` and `history_result` of ComfyUI's executor | wraps `execute`, turns a framework exception into a failed prompt | ComfyUI |
| Command line (`cli.py`) | none | run, resume, approve, status, report, preflight | builds everything else |
| Calibration (`calibration.py`) | labels, verdicts so far | repeat the judge over labelled images; metrics, sweep, production gate | judge |
| Preflight, prefilter, frame consistency, manifest, the rest of reporting | none that outlives a call | checks, pixel arithmetic, parsing, formatting | |

What is hard in this system:

* **Crashes.** The controller may be killed between any two store transactions
  while ComfyUI keeps working. The gap between `POST /prompt` and
  `record_submission`, and the columns that outlive an attempt, are where
  reconciliation can go wrong.
* **Interleaving.** Workers, the supervisor loop, the socket reader and the
  operator's commands share the table, the breakers and the stop event, and
  every `await` is a place where another one runs.
* **Late and repeated answers.** Prompts time out while they are queued, POSTs
  are retried, events arrive before their waiter or twice.
* **Termination.** An overnight run must end by itself: every asset terminal, or
  the run halted, with no worker waiting for something that never comes; and the
  rented instance must end with it, neither before nor never.
* **Votes.** The judge's samples, repeats and checks disagree, tie and abstain; a
  majority taken on one side of a tie here and on the other there describes two
  judges.

The hazards, each at its line with the properties that cover it, are in
`PROJECT.json`.

## 2. Plan

Done, in this order:

1. `RetryPolicy`, `AssetStore`, `BatchRunner`: the core; `AssetLifecycle`, its
   abstract specification; proofs of type correctness, ownership and accounting.
2. `CircuitBreaker`: the workflows' breakers and the workers that go through them.
3. `SequenceRepair`: a sequence asset from claim to terminal state.
4. `Supervision`: supervisor loop, health supervisor, global breaker.
5. `ComfyServer`, `ComfyClient`, `PromptOutcome`: client, guarded server, and what
   a client promises; proof that it does.
6. `DeadMansSwitch`: ceiling, watchdog, stop hook, units and heartbeat; proof that
   the watchdog spares a controller that is on time.
7. `AlertDelivery`: coalescer, sinks, teardown. `JudgePanel` and, on top of it,
   `Calibration`. Proofs about both, about the restart ceiling and the global
   breaker, and the refinement of `AssetLifecycle`.

Left:

8. Delays in `SequenceRepair`, the gate of the breaker before its first frame, and
   sequence rows in startup reconciliation.
9. `PromptOutcome` in place of the `Submit`/`Await` outcomes of `BatchRunner`; the
   exit status of a run from `BatchRunner` into `DeadMansSwitch`.
10. Theorems: the type invariants of `Supervision` and `Calibration`, the bound on
   the claims of a canary's partition once `Leak` is left out.

## 3. The models and the code

Every definition's source lines are in `PROJECT.json` under `map`. Definitions
marked "Mutation" are faulty variants of the one they stand before: each listed
property is known to fail when one of them takes its place.

### RetryPolicy, AssetStore, BatchRunner

| Model | Code |
|---|---|
| `rows` | table `assets`; `job_key` is the pair of asset and attempt, `waiting` is `retry_after` in the future, `outputs` the prompts whose files `output_paths` names |
| `LoadBatch`, `ClaimNext`, `RecordSubmission`, `Transition`, `RequeueForRegeneration`, `FlagForReconciliation` | one store transaction each, under the store's lock and `BEGIN IMMEDIATE` |
| `proc`, `todo`, `lastExit` | where `run()` is; the rows startup reconciliation has left; how the last run ended |
| `worker[w]` | the coroutine of one worker between two awaits: what it claimed, its attempt, QC round and prompt |
| `prompts` | the ComfyUI server and its output directory: queue, `/history`, files |
| `Check`, `Claim`, `FindNothing` | the worker loop before an asset |
| `PassGate`, `RefusedAtGate` | `_await_breaker`, reduced to a delay or a `CancelledError` |
| `YieldForHalt`, `Submit`, `Record`, `Await`, `Judge` | one QC round of `_process_single`, cut at its awaits |
| `ReconcileOne` and its parts | `_reconcile_one`, row by row |
| `Kill`, `ComfyRestarts`, `Approve`, `HaltRequested` | the outside world, each with a bound |

A step runs from one await to the next and contains the transaction it ends in:
a kill before the commit leaves the table that a kill before the step leaves.
The gap between `POST /prompt` and `record_submission` is a program point of its
own (`"record"`). What the code does with an outcome depends on the error class
only, so `Faults` says which outside faults happen and the class is chosen
freely. `RetryPolicy` has no state; its limits are constants. `Submit` is one call of
`submit`: a POST whose reply is lost is repeated (`PostTries`), and leaves a prompt.
`orphans` is history: the prompts ComfyUI still works on that whoever posted them has
given up, after a lost reply, a timeout, an error, or with the controller's end.

`AssetLifecycle` is the promise: assets are absent, waiting, in hand or finished,
at most `Concurrency` in hand, each taken in hand at most `MaxTries` times,
finished ones stay finished. `BatchRunner` ends with the mapping of `rows` to it.

### CircuitBreaker

`breaker[p]` is `_PartitionState`; time since `opened_at` is `age`, counted up to
the cooldown. `Allows`/`Admitted`, `Succeeded` and `Failed` are `allow`,
`record_success` and `record_failure`. A worker goes `Claim`, `PassGate` (one poll
of `_await_breaker` that answers yes) and then records an outcome per submission
(`Succeed`, `Fail`) or leaves without one (`Leak`: the blanket handler, a frame's
timeout). `streak`, `canaries` and `leaked` are history.

### SequenceRepair

`pc` follows `_process_sequence`: the first pass over the frames, the judge, the
consistency check, then rounds of `Plan`, `Regenerate`, `Compare`. An image is
what later steps find out about it: readable, passed, matching its neighbours,
part of a drifting sequence; a new image forgets what was known of the old one.
`attempts`, `failed`, `newly` and `todo` are the code's `attempt_counts`,
`failed_frames`, `newly_failed` and the remaining steps of the plan. `submits` and
`queued` are history: the calls of `submit` for a frame, and the prompts ComfyUI has
taken under its latest job key, which are several when a POST was repeated.

### Supervision

One coroutine: `Tick` (the clock), `Assess` (`tick` up to its decision),
`BeginRestart`, `FinishRestart`/`LaunchRaises` (`restart` before and after its
backoff), `AfterTick` (the loop after `tick` returns: global breaker, hold,
`maybe_recycle`). Points in time are ages, kept up to the age at which nothing
looks at them. Lists of points in time are in order, so the comprehensions that prune them
drop a prefix: that is `Younger`, which `MCSupervision` compares with the element by
element definition on every short ordered list. `Verdicts` says which verdicts `assess` can give of a ComfyUI that
is down, loading, hung or up. `Resume` is a new controller process.

### ComfyServer, ComfyClient, PromptOutcome

| Model | Code |
|---|---|
| `job`, `executor`, `worker`, `history`, `socket` | ComfyUI as the client uses it: where a prompt is, the executor's `success` and `history_result`, the thread that works off the queue, `/history`, events on the open socket |
| `MarkedFailed`, `FrameworkFault`, `Guarded` | the guard node: what the wrapper leaves in the executor, whether the patch found the method that `prompt_worker` calls |
| `call[p]` | the coroutine that submits and awaits prompt `p`, between two awaits |
| `inFlight`, `results`, `waiters` | the three dictionaries callers and reader share |
| `Post`, `PostRepeated`, `Replied`, `AwaitCached`, `AwaitBegins`, `Wake`, `Timeout`, `Asked`, `AwaitAborted`, `NotAwaited` | `submit` and `await_outcome`, cut at their awaits |
| `Connect`, `Check`, `BeginReading`, `Dispatch`, `Fetched`, `Dropped`, `Close` | `_ws_reader_loop` with `_reconcile_in_flight`, `_dispatch_event`, `_resolve` |
| `fate`, `told` | history: what became of a prompt's execution, what its caller was told |

The server is outside the repository and is modelled from how the client and the
guard use it. An event goes out from inside `execute`, before `task_done` writes
the history entry, and nobody keeps it for a client that is not connected.
`PromptOutcome` has the same two histories and three actions: a fate is met, told,
or given up.

### DeadMansSwitch

A clock ticks; every duration is a number of ticks and every age is kept up to the
threshold it is compared with. `beat` and `marker` are the ages of the two files,
`ctl` is the unit with the process, `host` is what works on this machine: is a
ceiling armed by one of the three ways, can root end the instance by one of three,
can the stop hook. `Checkpoint` is `_maybe_touch_heartbeat` with its throttle,
`CheckHeartbeat` is `check_heartbeat`, `StopHook` is `on_controller_stop.sh` with
what systemd makes of its exit status. `BootDelay`, `StartTime` and `MaxSilence` say
how long a controller on time takes to its start, to its first checkpoint, and from
one checkpoint to the next; `lapsed` is history and says that it was not.

### AlertDelivery

`pending` and `timers` are `_pending` and `_tasks` of `AlertCoalescer`, one of each
per title; `jobs` are the calls handed to the sink, which `SlackNotifier` runs in the
loop's thread pool and `ConsoleNotifier` at once. `CloseBegins`, `CloseFlushes` and
`Exit` are the teardown: `aclose` cancels the timers, flushes what is buffered, and
the end of the loop cancels what the pool has not begun.

### JudgePanel, Calibration

`JudgePanel` is one judgement: `calls[k]` calls are at their k-th attempt, `got[v]`
samples have answered `v`. The calls are alike, so counting them is all that is
lost; `Responses` numbers the answers that say the same, and a vote is the number of
the responses in a set. `CombinedChecks` and `CombinedFixes` are `_combine` and `_combine_fix` with
`_validate_and_clamp`; an average is a fraction, a tie between slots is a choice.
`Calibration` runs judgements of labelled images one after the other and defines the
tables of the report over them. Rates are compared as products, never divided;
`GateOpens(narrow)` leaves the width of the bootstrap intervals to its argument.

## 4. What is checked

All passing runs end with no error, and between them fire every action.

| Run | What it asks | Instance |
|---|---|---|
| `ownership` | Is a claim a lock, does the row name the prompt its worker waits for, are terminal rows final, is a finished run done? | 2 workers, 2 assets, 2 prompt ids, 1 kill |
| `bounds` | Are attempts and crash counts bounded and honest, has a saved asset its intact image, does a clean exit leave nothing in flight, does a generation that a worker waits for run beside orphans only, does all this implement `AssetLifecycle`? | 2 workers, 1 asset, 2 kills, 1 halt, 1 restart of ComfyUI, two POSTs per submit, lost replies, timeouts, torn files |
| `finishes` | Does every asset reach a terminal state for good, and is the fairness of `AssetLifecycle` implemented? | 2 workers, 2 assets, 1 kill, no halt |
| `uninterrupted` | With `approve` beside the run: has every claimed row a worker, does a halt end the run? | 2 workers, 1 asset, 1 approval, 1 halt, no kill |
| `breaker_gate` | Does the breaker open on a run of one class only, admit one canary, always have somebody to resolve it, and let every claim through in the end? | 2 workers, 2 workflows, 2 classes, threshold 2, 4 and 1 claims, 1 further submission per claim |
| `sequence_sound` | Is a saved sequence sound, does a job key belong to one call of `submit`, are these calls bounded, does the claim end? | 3 frames, limits 2, 1 and 2 (the code's are 3, 1, 2), two POSTs per submit |
| `supervision_restarts` | Does the ceiling bound restarts, does one sample never cause one, is a trickle of crashes forgiven, does a hold end the run, does ComfyUI come back? | 1 fault, 2 jobs, recycling every 2 jobs, ceiling 2 in 9 ticks, threshold 2 in 4 ticks, 1 resume, failing launches |
| `client_outcomes` | Is a caller told its own prompt's fate and files, never woken for nothing, not left without an outcome that is on record, and does all this implement `PromptOutcome`? | 2 prompts, 2 callers, 1 fault: dropped socket, lost reply, restart of ComfyUI, cancelled caller |
| `deadman_spares` | Does the watchdog spare a controller that is on time, and does it end the instance of one that hangs or was given up? | settings that keep `KeepsContract` (below), 1 crash, 1 reboot, 1 stop, all 8 kinds of host |
| `alerts_delivered` | Is every alert in one place, is what is buffered sent before the exit, does no alert wait for the end of the batch? | 4 alerts of 2 titles, 1 thread, both sinks, kills |
| `calibration_judged` | Does a split vote never pass, does a fix keep the rubric's envelope, is the sweep no stricter than the decisions, does a check's limit bound what the judge misses on it behind an open gate? | 3 samples of 5 answers, 1 retry, 2 checks, 2 images judged twice, 4 kinds of label, limit 50% |

Why these bounds are enough for the cases that matter. Two workers are what a
race for a row, a late record at a breaker, or a wait for each other needs. Two
assets are needed for a worker to confuse rows; the histories of one row (lost
replies, two crashes, the limit) need one. Two kills reach the crash limit of 1
and pass it, and the kill of a second start. Two prompt ids are a retry and a
first attempt, or a lost POST and the one that repeats it; when they are used up,
`"refused"` lets an attempt end, and no state is cut off. Two POSTs per submit (the
code makes four) are one whose reply is lost and one that is answered, or two lost
ones. Three frames are the least in which a repaired frame has both
neighbours; the same run with four frames (ten million states) also passes. In
`supervision_restarts` the window is long enough for verdicts alone to reach the
ceiling (a restart takes at least three ticks) and longer than
`CrashWindow + BackoffCap + 2`, so that crashes that are forgiven exist.
Two prompts are what an outcome needs to reach the wrong caller and an executor to
carry a result from one job to the next; one fault at every point of both is enough
for each single loss. In `deadman_spares`, `Interval + MaxSilence + RestartSec +
StartTime` is `Stale` exactly, the tightest contract; a second crash adds nothing
that the theorem on `HealthyIsSpared` leaves open. Four alerts let both titles be
flushed while another of the same title is raised. The five answers of
`calibration_judged` cover each check passed, failed and contradicted, proposals on
both sides of the bounds, an allowed and a forbidden slot; three samples and two
repeats bring ties of actions, of repeats and an average between two proposals. With
two images the code's limit of 70% would let a gate open on full agreement only; 50%
makes one missed image of two the case that just passes.

The type invariants (`TypeOK`, `RowsTypeOK`, `PanelTypeOK`) are theorems, or hold on
the same instances when added to their `INVARIANTS`.

Symmetry over workers and prompt ids is used in `ownership` and `bounds` only,
which have no liveness property. `CHECK_DEADLOCK FALSE` stands where a run may
really end (all claims done, a claim over, a supervisor loop gone).

**Fairness.** `FairSpec` of each module is weak fairness of: the workers and the
supervisor loop, because the event loop runs every coroutine that is ready; the
clock, and `retry_after` with it; the start of the controller after a crash
(systemd `Restart=on-failure`; the unit's `StartLimitBurst=5` per 600 s is more
than the kills of an instance) but not after exit code 0; a ComfyUI that was
started answering; in `SequenceRepair`, the claim's own steps, because ComfyUI
and the judge answer or time out; in `ComfyClient`, the callers, the reader and a
server that works off its queue; in `DeadMansSwitch`, the clock, the systemd timer
and a controller that gets to its next checkpoint while it is not wedged; in
`AlertDelivery`, timers, threads (Slack's client has a timeout) and a teardown that
has begun. `calibration_judged` checks safety only. Nothing is assumed of kills, halts, approvals,
or of a prompt ever finishing: `finishes` holds because `await_outcome` times out.

### Disagreements between the code and what is said of it

`deadman_resume` checks what a comment says of the code, and TLC finds what the code
does instead; it is the finding in `PROJECT.json`, with its quote. systemd takes an
end by SIGTERM for a clean exit, the stop hook takes a clean exit for a finished
batch and terminates the instance; `systemctl restart`, with which the runbook
resumes a batch, is such an end.

Further disagreements between the code and a docstring, a comment or the runbook.
TLC refutes each property, in seconds for most and in a minute at most, with
`tlc -config <cfg> <module>` where the configuration is in this directory and marked
with *, and otherwise with the constants and the specification of the named
configuration and the property in place of its `INVARIANTS` and `PROPERTIES`.

| Configuration | Property | What the code does |
|---|---|---|
| `MCBatchRunner_kill_duplicates` * | `NoDuplicateGeneration` | A controller killed while its prompt is queued finds neither history nor file, requeues the asset and has it generated twice at once (`runner.py:1124`, `sqlite_store.py:7`). |
| `MCBatchRunner_rejected_saved` * | `SavedWasNeverRejected` | Between a rejection and the next `record_submission` the row names the rejected prompt; after a kill there it is judged again, and saved if this verdict passes (`runner.py:1109`, `sqlite_store.py:302`). |
| `MCBatchRunner_approved_reused` * | `ApprovedIsRegenerated` | `requeue_for_regeneration` resets `attempt`; the approved run gets the job key of the old one, and after a kill its files (`runner.py:503`, `cli.py:321`). |
| `MCBatchRunner_crash_limit` * | `NoRetryAtCrashLimit` | The crash at hand is counted after the limit is compared (`runner.py:1093`, `docs/runbook.md:97`). |
| `MCBatchRunner_clean_stop` * | `CleanStopMeansDone` | A halted run exits with 0 like a finished one (`cli.py:253`, `deploy/comfy-controller.service:23`). |
| `MCCircuitBreaker_leak` * | `HealthyPartitionFinishes` | A canary whose claim ends without a record keeps its partition half open for good; the workers pile up at that gate, and a workflow that never failed is not worked on (`runner.py:476`, `889`, `policy.py:236`). |
| `MCCircuitBreaker_leak` | `OneCanaryOutstanding` | A late failure of another worker resolves the canary, and a second goes out (`policy.py:268`). |
| `MCCircuitBreaker_leak` | `CooldownOnlyGrows` | A failure recorded in OPEN sets the doubled cooldown back (`policy.py:299`, `316`). |
| `MCCircuitBreaker_leak` | `UnrelatedWorkMoves` | Workers wait with their claims, and all may wait at one gate (`runner.py:15`, `1204`). |
| `MCSupervision_unrecorded` * | `RestartIsRecorded` | A crash is recorded only when the length of a pruned list exceeds its highest value so far, so later restarts do not count (`runner.py:1226`, `policy.py:344`). |
| `MCSupervision_launch_fails` * | `ComfyComesBack` | A launch that raises counts as no restart, or ends the loop (`supervisor.py:337`, `runner.py:1253`). |
| `MCSupervision_not_replaced` * | `ComfyComesBack` | A hung ComfyUI that the operator started keeps its port; with a window that is pruned as fast as it fills, no ceiling ends the restarts (`supervisor.py:18`, `321`). |
| `MCSupervision_unrecorded` | `OneRecyclePerCount` | The count is not remembered: every tick at the same multiple recycles (`supervisor.py:389`). |
| `MCSupervision_unrecorded` | `HealthyBatchGoesOn` | Recycles are taken for crashes at the next tick (`runner.py:1226`, `policy.py:320`). |
| `MCSupervision_unrecorded` | `HoldSurvivesResume` | The hold is in memory only (`supervisor.py:135`, `docs/runbook.md:158`). |
| `MCSequenceRepair_sound`, `Spec` | `ParkedAfterItsRepairs` | Execution retries of a frame use up the counter its repairs are limited by: a sequence is parked without a repair (`runner.py:908`, `core/sequence.py:84`). |
| `MCSequenceRepair_sound`, `Spec` | `MismatchReachesSuccessor` | A mismatch with the successor marks the repaired frame only (`runner.py:990`, `core/sequence.py:7`). |
| `MCSequenceRepair_sound`, `Spec` | `SavedHasNoDrift` | Drift is looked at before the first round only (`runner.py:968`, `996`). |
| `MCSequenceRepair_sound`, `Spec` | `TimeoutIsRetried` | A frame's timeout is not caught where a single asset's is (`runner.py:889`). |
| `MCSequenceRepair_sound`, `Spec` | `RepairAsksForSomethingElse` | Seed, inputs and settings of a repair are those that failed (`runner.py:860`). |
| `MCSequenceRepair_sound`, `Spec` | `HaltIsHeededPerFrame` | The stop is looked at once per round (`runner.py:957`, `1327`). |
| `MCSequenceRepair_sound`, `Spec` | `GpuBudgetEndsTheSequence` | Frames add nothing to `_gpu_seconds` (`runner.py:621`, `1328`). |
| `MCComfyClient_outcomes` | `NothingIsKept` | An outcome that arrives after its caller has given up, or for a prompt nobody awaits, stays in `_results` and its waiter in `_waiters` (`comfy_http.py:322`, `466`). |
| `MCComfyClient_outcomes` | `SuccessHasItsFiles` | A success whose history entry is not written yet is reported with no outputs (`comfy_http.py:459`). |
| `MCDeadMansSwitch_spares` | `RebootedIsSpared` | The heartbeat file outlives a reboot; if it is old by then, the first check ends the instance before the controller can write (`ops/deadman.sh:293`). |
| `MCAlertDelivery_delivered` | `NothingIsLostAtExit` | A flush that a timer has begun is in no list any more; the teardown does not wait for it (`reporting.py:222`, `slack_notifier.py:143`). |
| `MCCalibration_judged` | `EveryResponseIsRecorded` | A refused, truncated or invalid answer raises before its cost is recorded (`claude_judge.py:158`, `383`). |
| `MCCalibration_judged` | `SweepStartsAtProduction` | Per check the repeats vote first, per decision the checks do: the first row of the sweep is not the decision table (`calibration.py:605`). |
| `MCCalibration_judged` | `TiedCheckIsNoPass` | A tie of `check_majority` is a pass (`calibration.py:305`, `350`). |
| `MCCalibration_judged` | `TypoIsLeftOut` | A rejection that names only an unknown check expects every real check to pass, and is compared (`calibration.py:149`, `549`). |

## 5. What is proved

For every value of the constants that satisfies the named assumptions
(`StoreAssumption`, `RetryAssumption`, `RunnerAssumption`, `BreakerAssumption` and
`ClassAssumption`, `SupervisionAssumption`, `SequenceAssumption`, `ServerAssumption`
and `ClientAssumption`, `SwitchAssumption`, `AlertAssumption`, `JudgeAssumption` and
`CalibrationAssumption`), without a bound on workers, assets, prompts, frames, alerts,
samples, images, retries, faults or durations:

| Theorem | Property | Module |
|---|---|---|
| `TypeCorrect` | `TypeOK` of `BatchRunner` | `BatchRunnerProofs` |
| `NoLostAsset` | `InFlightHasWorker` | `BatchRunnerProofs` |
| `ClaimIsALock` | `SoleOwner`, if `~ApproveWhileRunning` | `BatchRunnerProofs` |
| `RecordedIsAwaited` | `RecordedPromptIsAwaited`, if `~ApproveWhileRunning` | `BatchRunnerProofs` |
| `TerminalRowsAreFinal` | `FinishedIsFinal`, if `~ApproveWhileRunning` | `BatchRunnerProofs` |
| `FinishedRunIsDone` | `FinishedMeansDone` | `BatchRunnerProofs` |
| `CleanExitIsClean` | `CleanExitLeavesNothingInFlight` | `BatchRunnerProofs` |
| `LadderIsBounded` | `AttemptsBounded`, if `~ApproveWhileRunning` | `BatchRunnerProofs` |
| `CrashesAreCounted` | `CrashCountHonest`, if `~ApproveWhileRunning` | `BatchRunnerProofs` |
| `SavedIsThere` | `SavedHasItsImage` | `BatchRunnerProofs` |
| `PromptsAreTheirRows` | `PromptBelongsToRow`, if `~ApproveWhileRunning` | `BatchRunnerProofs` |
| `OneAtATime` | `OneGenerationAtATime`, if `~ApproveWhileRunning` | `BatchRunnerProofs` |
| `LifecycleIsKept` | `ImplementsLifecycle`, if `~ApproveWhileRunning`: the refinement of `AssetLifecycle` | `BatchRunnerProofs` |
| `BreakerTypeCorrect`, `OpensOnARun`, `CanaryIsNeverStranded`, `HalfOpenHoldsTheRest` | `TypeOK`, `ClosedBelowThreshold`, `HalfOpenIsWatched`, `HalfOpenAdmitsOne` | `CircuitBreakerProofs` |
| `OneSampleNeverRestarts`, `HoldStopsRestarts`, `CeilingIsKept` | `NeverOnOneSample`, `HoldIsFinal`, `RestartIntensity` | `SupervisionProofs` |
| `TricklesAreForgiven` | `TrickleIsForgiven`, if `HysteresisN > 1` | `SupervisionProofs` |
| `SequenceTypeCorrect`, `RepairIsSound`, `KeysAreFresh`, `FramesAreBounded` | `TypeOK`, `SavedIsSound`, `OneCallPerKey`, `SubmissionsBounded` | `SequenceRepairProofs` |
| `ClientTypeCorrect`, `CallersAreToldTheTruth`, `NoWaiterFiresEmpty` | `TypeOK`, `ToldTheTruth`, `NeverWokenForNothing` | `ComfyClientProofs` |
| `ClientKeepsItsPromise` | `ImplementsPromptOutcome`: the refinement of `PromptOutcome` | `ComfyClientProofs` |
| `SwitchTypeCorrect`, `WatchdogSparesTheHealthy` | `TypeOK`, and, if `KeepsContract`, `HealthyIsSpared` | `DeadMansSwitchProofs` |
| `AlertTypeCorrect`, `NoAlertIsLostOrDoubled`, `TeardownEmptiesTheBuffer` | `TypeOK`, `EveryAlertIsInOnePlace`, `BufferedIsSentBeforeExit` | `AlertDeliveryProofs` |
| `PassesAreUnanimous`, `FixesAreKeptIn` | `PassedMeansUnanimous`, `FixKeepsTheEnvelope` of `JudgePanel` | `CalibrationProofs` |
| `FirstRowIsLenient`, `MissesAreBounded` | `SweepIsNoStricter`, `OpenGateBoundsMisses` | `CalibrationProofs` |

Some have a hypothesis on the constants. `~ApproveWhileRunning` is needed: an
approval beside a running batch hands a row to a second worker while the first still
holds it. `InFlightHasWorker`, `FinishedMeansDone`, `CleanExitLeavesNothingInFlight`
and `SavedHasItsImage` survive it, and are proved without it.
`HysteresisN > 1` holds of the code's default (2, `supervisor.py:88`). With 1, launches
that fail follow one another tick by tick and keep the loop from looking at the restart
before them; it is counted when it is long over. TLC finds the trace on the instance of
`supervision_restarts` with `HysteresisN = 1`. `KeepsContract` is explained below.

**BatchRunner.** Its steps are many and do few things to a row. Lemmas
(`FailureForm`, `ExceptionForm`, `ContinueForm`,
`WorkerStepForm`, `ReconcileForm`) reduce every worker step to one of five: it
idles, claims, continues, records or settles. Everything after that argues about
these five. `Manned` is `InFlightHasWorker` together with what startup needs: during
reconciliation every row in flight is still on `todo`. It is inductive by itself.
`Ownership` adds that workers are busy only while the controller runs, that a busy
worker's row is in flight on its own attempt, and that no two workers hold one
row; it is needed because a settling worker writes its row whatever its state is.
Rows on `todo` are in flight and flagged, which keeps reconciliation away from
terminal rows. `Calm` carries it into runs that allow approvals, up to the first one.
`Done` adds to `FinishedMeansDone` that the first worker to leave its loop without a
halt has seen every row finished.
`Ladder` strengthens `AttemptsBounded` by row state (a row still to be claimed
has an attempt left for it), since the retry decision is taken one step before
the attempt it grants. `CrashAccount` says that a row in flight of a process that
is not running has a crash left to be counted, and that the flag of
reconciliation stands only until it is.
`Images` says what prompts leave on the disk, that a row names and was saved with
prompts of its own, and that a worker judges a prompt that has succeeded; prompts are
never forgotten (`PromptsKept`). `Attempted` adds the attempt: a row names no claim it
has not come to. `Generations` says that whatever ComfyUI works on, a worker is about to
record or awaits, or it is an orphan: whoever leaves an attempt leaves its prompt to
`orphans`, or sees it ended. No two workers hold one row, and a worker waits for one
prompt, so that only orphans run beside it; it is no claim that they are few, for every
lost reply and every timeout leaves one. `LifecycleIsKept` maps each of the five steps,
and each of startup's, to a step of `AssetLifecycle` or a stutter; no more than
`Concurrency` assets are in hand because each has a worker of its own, and `MaxTries`
holds because of `Ladder` and because a halt makes each worker give back one claim at
most (`Quota`).

**CircuitBreaker.** `TypeOK`, `HalfOpenIsWatched` and `CountsTheStreak`, which
says of every state, not only of closed partitions, that the count is the streak. For
`HalfOpenAdmitsOne`, `Marked`: a half-open partition has its canary out.

**Supervision.** `Shape` (the types the argument needs), `HoldIsFinal` and
`StreakIsEarned`: the supervisor's streak never exceeds the run of bad verdicts
since the last restart. The ceiling is about two lists of ages, the supervisor's
pruned one and the log of all restarts. Counted from the latest, they agree as far as
the window reaches (`Remembered`), and a restart in its backoff has room
(`RoomForOne`); ages grow together, a restart puts a zero at both ends. The global
breaker compares a third list: `Matched` pairs every crash that still counts with a
restart of its own, counted a tick late at most, and shifted by one while there is a
restart that the loop has not looked at; `Fresh` says when that can be.

**SequenceRepair.** `SavedIsSound` says that a saved sequence has passed as a
whole, although rounds look at repaired frames only. The invariant behind it,
`Round`, names the frames that are still open (to be regenerated in this round,
failed for the next, or at hand) and says that every other frame has passed and
every pair of which neither frame is open matches; `Leads` and `SoundKept` follow
it through the order of a round's steps, where a comparison with a successor of
the same round is left out. `Keys` counts, per program point, calls of `submit`
against attempts. `Fresh` says that ComfyUI has nothing yet under the key that the
next call will use, so all it takes under a key are POSTs of one call.

**ComfyClient.** `Truth` follows a fate along its path: what the executor, a history
entry, an event, a stored result and the caller say of a prompt is what became of
its execution, and files are the prompt's own. It is stated for a server with or
without the guard, because an unguarded one dies rather than lies. `Supplied` says
that a waiter that is set has its result as long as its caller is in
`await_outcome`; it holds because every exit that takes the result drops the
waiter in the same step. The refinement needs, on top of both, that a caller is
told at most once.

**DeadMansSwitch.** `OnTime` says how old heartbeat and marker can be in each phase
of a controller that has not lapsed: while it works the heartbeat is at most
`Interval - 1` older than its last checkpoint, a crash leaves that plus
`MaxSilence`, the delay and the start add their own. `KeepsContract` is the
inequality that keeps the sum below `Stale`, and the reason for its three parts
is one phase each. Against the defaults of the repository (stale limit 20 minutes)
the contract fails where all workers wait for outcomes up to
`await_outcome_timeout_s` (30 minutes), which `runner.py:1279` says itself.

**AlertDelivery.** `Places` says of every alert that it is in the buffer of one title or
in one job, and of every number not raised yet that it is nowhere, so that the next
alert is a new one. `Teardown` says of each stage what the teardown has left: while it
is closing the timers are gone, what is buffered is still on its list, and all that it
has flushed but the one it awaits has been sent or has failed.

**JudgePanel, Calibration.** A result is the vote of the answers still in the panel's
hands (`Voted`). One `FALSE` then splits a check, or fails it; a split adds a check that
fails. `Clamped` is within its bounds whatever it is given. For the tables, an outcome
has an opinion on every required check, or on none and rejects (`Collected`). So a check
that loses its majority is failed, or abstained from by a rejection, in more than half
of all valid outcomes, and the decision rejects. For the gate, an image that the
judge's decision accepts has passed every required check in the majority, so if its
human named a check it is among the images compared on that check, and among those the
check is wrong about (`MissedIsAnError`). The property is per check, as the gate is: a
rejection that names no check, or unknown ones only, is held against no check, and no
agreement that the gate looks at says anything of it.

## 6. What is only model-checked

Every safety invariant and safety action property of a run is proved, and both
refinements without their fairness. Left to TLC:

* Liveness (`EveryAssetFinishes`, `HaltEndsTheRun`, `EveryClaimEnds`, `ClaimEnds`,
  `HeldEndsTheRun`, `ComfyRecovers`, `FinishedIsReported`, `DeadIsTerminated`,
  `AlertsGoOut`, `ImplementsLifecycleFairly`): the prover has no rules for fairness
  and `ENABLED`.
* `HookEndsFinishedBatches`, which is refuted (section 4), and the other
  disagreements.
* `TypeOK` of `Supervision`, whose `Delay` is a power that the SMT solver does not
  know, and of `Calibration`, which adds the calls up.

Theorems that take an operator as a parameter, such as the library's induction on
finite sets, cannot be used; where a proof needs induction it takes a least
counterexample from a well-founded order (`Least`).

## 7. What is not modelled, and why

* Store failures (a full disk, a locked database past its timeout): the handlers
  that suppress them leave a row for the next start, as a kill does.
* Preflight but for its write of the heartbeat file, the formatting part of
  reporting, manifest and configuration, frame consistency and prefilter
  arithmetic: functions without state between calls; their results are free
  choices where a model needs them. The error classifier is a table of patterns.
* `run_log`, error and verdict columns and log lines: written, never read back by
  a decision.
* Delays are steps of a clock where an order depends on them (`retry_after`, the
  cooldown, backoffs, windows, heartbeats), and left out elsewhere.
* Sequences inside `BatchRunner`: their claim is modelled by `SequenceRepair`. The
  reconciliation of a sequence row, which requeues the whole sequence instead of
  looking for the outputs of its prompt (`runner.py:1103`), is not.
* ComfyUI: the order of its queue, interrupts other than as a failed prompt, and the
  canary's own event pump in the supervisor, whose verdict is a free choice there.
* Dead-man's switch: steps of the wall clock (a heartbeat from the future), a
  heartbeat file that somebody deletes, a marker that cannot be written, the
  retries inside one provider call. A way that works, works every time.
* Alerts: milestones and the morning report, which are sent at once and not
  buffered; the rendering of a message and its limit of 20 lines.
* Judge and calibration: optional checks, evidence and critique; the calls that go
  on beside a failed one, whose later cost nobody reads; bootstrap intervals and
  cost estimates; the rendering of the report.
