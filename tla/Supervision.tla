---------------------------- MODULE Supervision ----------------------------
(***************************************************************************)
(* Who restarts ComfyUI, and who stops the batch when that does not help:  *)
(* HealthSupervisor (src/comfy_controller/supervisor.py), the runner's     *)
(* _supervisor_loop that ticks it, and the GlobalBreaker of core/policy.py *)
(* that counts restarts.  The loop is one coroutine: the restart lock has  *)
(* no second taker, and a restart's backoff holds up every later tick.     *)
(*                                                                         *)
(* The clock ticks once per tick interval.  A point in time is kept as its *)
(* age, up to the age at which nothing looks at it any more.               *)
(***************************************************************************)
EXTENDS Integers, Sequences, FiniteSets

CONSTANTS
  HysteresisN,     \* bad verdicts in a row that make a restart (2)
  MaxRestarts,     \* intensity_max_restarts (5)
  Window,          \* intensity_window (600 s), in ticks
  BackoffBase,     \* backoff_base (10 s), in ticks
  BackoffCap,      \* backoff_cap (300 s), in ticks
  RecycleEvery,    \* recycle_every_n_jobs (40), 0 for never
  CrashThreshold,  \* GlobalBreaker.crash_threshold (3)
  CrashWindow,     \* GlobalBreaker.crash_window_s (600 s), in ticks
  StallTimeout,    \* silence after which a canary decides, in ticks
  LongPrompts,     \* may one prompt outlast hard_ceiling?
  LaunchFails,     \* may starting ComfyUI raise?
  OperatorStarted, \* may the operator have started ComfyUI before the run?
  \* bounds
  MaxFaults,       \* crashes and hangs of ComfyUI
  MaxJobs,         \* jobs of a run
  MaxResumes       \* controller processes after the first

ASSUME SupervisionAssumption ==
  /\ HysteresisN \in Nat \ {0}
  /\ MaxRestarts \in Nat /\ Window \in Nat
  /\ BackoffBase \in Nat /\ BackoffCap \in Nat
  /\ RecycleEvery \in Nat
  /\ CrashThreshold \in Nat \ {0} /\ CrashWindow \in Nat
  /\ StallTimeout \in Nat
  /\ LongPrompts \in BOOLEAN /\ LaunchFails \in BOOLEAN
  /\ OperatorStarted \in BOOLEAN
  /\ MaxFaults \in Nat /\ MaxJobs \in Nat /\ MaxResumes \in Nat

VARIABLES
  comfy,     \* the ComfyUI process
  child,     \* is it one the supervisor has launched? (_proc)
  silence,   \* ticks since the last progress event
  sup,       \* HealthSupervisor: _bad_streak, _restart_times, _held
  loop,      \* the supervisor loop: where it is, prior_restarts
  crash,     \* GlobalBreaker: _crash_times, _tripped
  stop,      \* _stop_event
  jobs,      \* _jobs_since_start
  \* history
  badRun,      \* bad verdicts in a row since the last good one or restart
  restarted,   \* has the present tick restarted ComfyUI?
  log,         \* ages of the restarts of this process
  recycledAt,  \* the job count of the latest recycle, 0 before it
  heldEver,    \* has the intensity ceiling been hit?
  faults, resumes

history == <<badRun, restarted, log, recycledAt, heldEver>>
bounds == <<faults, resumes>>
vars == <<comfy, child, silence, sup, loop, crash, stop, jobs,
          badRun, restarted, log, recycledAt, heldEver, faults, resumes>>

-----------------------------------------------------------------------------
\* "loading": started, does not answer yet; "hung": answers, runs nothing.
Comfy == {"down", "loading", "up", "hung"}

FreshSupervisor == [streak |-> 0, restarts |-> <<>>, held |-> FALSE]
FreshBreaker == [times |-> <<>>, tripped |-> FALSE]

\* "sleep" .. "wake": the tick interval; "restart": restart was called, for a
\* verdict or a recycle; "backoff": asleep in it; "after": tick has returned.
\* "lost": an exception has ended the coroutine.
LoopPc == {"sleep", "wake", "restart", "backoff", "after", "exited", "lost"}
\* Restarts older than this matter to no window.
Horizon == Window + CrashWindow + BackoffCap + 2

FreshLoop == [pc |-> "sleep", reason |-> "verdict", wait |-> 0, prior |-> 0, at |-> 0]

TypeOK ==
  /\ comfy \in Comfy /\ child \in BOOLEAN
  /\ silence \in 0 .. StallTimeout
  /\ sup \in [streak : Nat, restarts : Seq(0 .. Window), held : BOOLEAN]
  /\ loop \in [pc : LoopPc, reason : {"verdict", "recycle"}, wait : Nat,
               prior : Nat, at : Nat]
  /\ crash \in [times : Seq(0 .. CrashWindow + 1), tripped : BOOLEAN]
  /\ stop \in BOOLEAN /\ jobs \in Nat
  /\ log \in Seq(0 .. Horizon)
  /\ badRun \in Nat /\ restarted \in BOOLEAN /\ recycledAt \in Nat
  /\ heldEver \in BOOLEAN /\ faults \in Nat /\ resumes \in Nat

Init ==
  /\ comfy \in {"down"} \cup (IF OperatorStarted THEN {"up"} ELSE {})
  /\ child = FALSE /\ silence = 0
  /\ sup = FreshSupervisor /\ loop = FreshLoop /\ crash = FreshBreaker
  /\ stop = FALSE /\ jobs = 0
  /\ badRun = 0 /\ restarted = FALSE /\ log = <<>> /\ recycledAt = 0 /\ heldEver = FALSE
  /\ faults = 0 /\ resumes = 0

-----------------------------------------------------------------------------
(* The clock.  It moves while the loop sleeps; what the loop does between  *)
(* two sleeps takes no time.                                               *)

OlderUpTo(times, limit) ==
  [i \in DOMAIN times |-> IF times[i] < limit THEN times[i] + 1 ELSE limit]

\* The times that are not older than the limit allows.  They are listed as they
\* came, so that what the list comprehension drops is a prefix.
Younger(times, limit) ==
  SubSeq(times, 1 + Cardinality({i \in DOMAIN times : times[i] >= limit}), Len(times))

Tick ==
  /\ \/ /\ loop.pc = "sleep"
        /\ loop' = [loop EXCEPT !.pc = "wake"]
     \/ /\ loop.pc = "backoff" /\ loop.wait > 0
        /\ loop' = [loop EXCEPT !.wait = @ - 1]
  /\ sup' = [sup EXCEPT !.restarts = OlderUpTo(@, Window)]
  /\ crash' = [crash EXCEPT !.times = OlderUpTo(@, CrashWindow + 1)]
  /\ silence' = IF comfy = "up" THEN 0
                ELSE IF silence < StallTimeout THEN silence + 1 ELSE silence
  /\ log' = Younger(OlderUpTo(log, Horizon), Horizon)
  /\ UNCHANGED <<comfy, child, stop, jobs>>
  /\ UNCHANGED <<badRun, restarted, recycledAt, heldEver>> /\ UNCHANGED bounds

-----------------------------------------------------------------------------
(* HealthSupervisor.                                                       *)

\* Mutation: a canary that is not executed is taken for a busy ComfyUI.
VerdictsWithoutCanary ==
  CASE comfy \in {"down", "loading"} -> {"dead"}
    [] comfy \in {"up", "hung"} -> {"healthy", "busy"}

\* assess(): the HTTP probe, then the silence, then the canary.  A prompt that
\* has run past hard_ceiling keeps the canary behind it.
Verdicts ==
  CASE comfy \in {"down", "loading"} -> {"dead"}
    [] comfy = "hung" -> IF silence < StallTimeout THEN {"healthy"} ELSE {"zombie"}
    [] comfy = "up" -> {"healthy", "busy"} \cup (IF LongPrompts THEN {"zombie"} ELSE {})

Bad(verdict) == verdict \in {"dead", "zombie"}

\* Streaks are counted as far as they are compared.
OneMore(n) == IF n < HysteresisN THEN n + 1 ELSE n

\* Mutation: a good verdict does not end the streak.
StreakNeverEnds(verdict) ==
  IF Bad(verdict) THEN OneMore(sup.streak) ELSE sup.streak

\* tick(): the streak of bad verdicts.
StreakAfter(verdict) == IF Bad(verdict) THEN OneMore(sup.streak) ELSE 0

\* The loop wakes: leave when the run is over, else tick.
Assess ==
  /\ loop.pc = "wake"
  /\ IF stop
     THEN /\ loop' = [loop EXCEPT !.pc = "exited"]
          /\ UNCHANGED <<sup, badRun>>
     ELSE \E verdict \in Verdicts :
            LET streak == StreakAfter(verdict) IN
            /\ sup' = [sup EXCEPT !.streak = streak]
            /\ badRun' = IF Bad(verdict) THEN OneMore(badRun) ELSE 0
            /\ loop' = IF streak >= HysteresisN
                       THEN [loop EXCEPT !.pc = "restart", !.reason = "verdict"]
                       ELSE [loop EXCEPT !.pc = "after"]
  /\ UNCHANGED <<comfy, child, silence, crash, stop, jobs>>
  /\ UNCHANGED <<restarted, log, recycledAt, heldEver>> /\ UNCHANGED bounds

\* Where restart() returns to: tick, which forgets the streak, or the loop.
ReturnsTo == IF loop.reason = "verdict" THEN "after" ELSE "sleep"
StreakOnReturn == IF loop.reason = "verdict" THEN 0 ELSE sup.streak

\* The restarts that still count.
InWindow(times) == Younger(times, Window)

Delay(n) ==
  LET delay == BackoffBase * 2 ^ n IN
  IF delay < BackoffCap THEN delay ELSE BackoffCap

\* Mutation: one restart more than the ceiling.
BeyondCeiling(recent) == Len(recent) > MaxRestarts
AtCeiling(recent) == Len(recent) >= MaxRestarts

OnHold == sup.held

\* restart(), up to its backoff.
BeginRestart ==
  LET recent == InWindow(sup.restarts) IN
  /\ loop.pc = "restart"
  /\ \/ /\ OnHold
        /\ sup' = [sup EXCEPT !.streak = StreakOnReturn]
        /\ loop' = [loop EXCEPT !.pc = ReturnsTo]
        /\ UNCHANGED heldEver
     \/ /\ ~OnHold
        /\ AtCeiling(recent)
        /\ sup' = [streak |-> StreakOnReturn, restarts |-> recent, held |-> TRUE]
        /\ loop' = [loop EXCEPT !.pc = ReturnsTo]
        /\ heldEver' = TRUE
     \/ /\ ~OnHold
        /\ ~AtCeiling(recent)
        /\ sup' = [sup EXCEPT !.restarts = recent]
        /\ loop' = [loop EXCEPT !.pc = "backoff", !.wait = Delay(Len(recent))]
        /\ UNCHANGED heldEver
  /\ UNCHANGED <<comfy, child, silence, crash, stop, jobs>>
  /\ UNCHANGED <<badRun, restarted, log, recycledAt>> /\ UNCHANGED bounds

\* The rest of restart(): terminate the process, launch a new one.  A ComfyUI
\* the operator has started is not terminated and keeps its port: the new one
\* cannot bind it.
FinishRestart ==
  /\ loop.pc = "backoff" /\ loop.wait = 0
  /\ IF child \/ comfy = "down"
     THEN comfy' = "loading" /\ child' = TRUE
     ELSE UNCHANGED <<comfy, child>>
  /\ sup' = [sup EXCEPT !.streak = 0, !.restarts = Append(@, 0)]
  /\ loop' = [loop EXCEPT !.pc = ReturnsTo]
  /\ badRun' = 0
  /\ restarted' = TRUE
  /\ log' = Append(log, 0)
  /\ recycledAt' = IF loop.reason = "recycle" THEN loop.at ELSE recycledAt
  /\ UNCHANGED <<silence, crash, stop, jobs, heldEver>> /\ UNCHANGED bounds

\* Launching raises.  From tick the loop catches it and sleeps again; from
\* maybe_recycle nothing does, and the coroutine is gone.
LaunchRaises ==
  /\ LaunchFails
  /\ loop.pc = "backoff" /\ loop.wait = 0
  /\ comfy' = IF child THEN "down" ELSE comfy
  /\ loop' = [loop EXCEPT !.pc = IF loop.reason = "verdict" THEN "sleep" ELSE "lost"]
  /\ UNCHANGED <<child, silence, sup, crash, stop, jobs>>
  /\ UNCHANGED history /\ UNCHANGED bounds

-----------------------------------------------------------------------------
(* GlobalBreaker and the loop after a tick.                                *)

\* Mutation: crashes never age out.
CrashRecordedForever(c) ==
  LET times == Append(c.times, 0) IN
  [times |-> times, tripped |-> Len(times) >= CrashThreshold]

\* GlobalBreaker.record_crash
CrashRecorded(c) ==
  IF c.tripped THEN c
  ELSE LET times == Append(Younger(c.times, CrashWindow + 1), 0) IN
       [times |-> times, tripped |-> Len(times) >= CrashThreshold]

\* maybe_recycle: is this job count one to restart at?
RecycleDue(n) == RecycleEvery > 0 /\ n > 0 /\ n % RecycleEvery = 0

\* Mutation: a held supervisor does not stop the run.
GoOnHeld(prior) ==
  /\ loop' = [loop EXCEPT !.pc = "sleep", !.prior = prior]
  /\ UNCHANGED stop

\* On hold: stop the run.  Else recycle, or wait for the next tick.
GoOn(prior) ==
  IF sup.held
  THEN loop' = [loop EXCEPT !.pc = "exited", !.prior = prior] /\ stop' = TRUE
  ELSE /\ loop' = IF RecycleDue(jobs)
                  THEN [loop EXCEPT !.pc = "restart", !.reason = "recycle",
                                    !.at = jobs, !.prior = prior]
                  ELSE [loop EXCEPT !.pc = "sleep", !.prior = prior]
       /\ UNCHANGED stop

\* A restart is seen by restart_count, the length of the pruned list, being
\* higher than it was.
AfterTick ==
  LET count == Len(sup.restarts) IN
  /\ loop.pc = "after"
  /\ IF count > loop.prior
     THEN crash' = CrashRecorded(crash) /\ GoOn(count)
     ELSE UNCHANGED crash /\ GoOn(loop.prior)
  /\ restarted' = FALSE
  /\ UNCHANGED <<comfy, child, silence, sup, jobs>>
  /\ UNCHANGED <<badRun, log, recycledAt, heldEver>> /\ UNCHANGED bounds

-----------------------------------------------------------------------------
(* The rest of the run.                                                    *)

\* A worker has finished with an asset.
JobDone ==
  /\ ~stop /\ jobs < MaxJobs
  /\ jobs' = jobs + 1
  /\ UNCHANGED <<comfy, child, silence, sup, loop, crash, stop>>
  /\ UNCHANGED history /\ UNCHANGED bounds

\* A worker finds the global breaker tripped.
WorkerSeesTrip ==
  /\ crash.tripped /\ ~stop
  /\ stop' = TRUE
  /\ UNCHANGED <<comfy, child, silence, sup, loop, crash, jobs>>
  /\ UNCHANGED history /\ UNCHANGED bounds

\* Every worker has returned: run() cancels the loop, wherever it sleeps.
RunEnds ==
  /\ stop \/ jobs = MaxJobs
  /\ loop.pc \in {"sleep", "wake", "backoff", "lost"}
  /\ stop' = TRUE
  /\ loop' = [loop EXCEPT !.pc = "exited"]
  /\ UNCHANGED <<comfy, child, silence, sup, crash, jobs>>
  /\ UNCHANGED history /\ UNCHANGED bounds

\* A new controller process: a new supervisor and a new breaker.  aclose has
\* ended the ComfyUI of the old one, if that was its child.
Resume ==
  /\ stop /\ loop.pc = "exited"
  /\ resumes < MaxResumes
  /\ resumes' = resumes + 1
  /\ comfy' = IF child THEN "down" ELSE comfy
  /\ child' = FALSE
  /\ silence' = 0
  /\ sup' = FreshSupervisor /\ loop' = FreshLoop /\ crash' = FreshBreaker
  /\ stop' = FALSE /\ jobs' = 0
  /\ badRun' = 0 /\ restarted' = FALSE /\ log' = <<>> /\ recycledAt' = 0
  /\ UNCHANGED <<heldEver, faults>>

-----------------------------------------------------------------------------
(* ComfyUI.                                                                *)

ComfyAnswers ==
  /\ comfy = "loading"
  /\ comfy' = "up"
  /\ UNCHANGED <<child, silence, sup, loop, crash, stop, jobs>>
  /\ UNCHANGED history /\ UNCHANGED bounds

ComfyFails ==
  /\ faults < MaxFaults
  /\ faults' = faults + 1
  /\ \/ comfy \in {"loading", "up"} /\ comfy' = "down"
     \/ comfy = "up" /\ comfy' = "hung"
  /\ UNCHANGED <<child, silence, sup, loop, crash, stop, jobs, resumes>>
  /\ UNCHANGED history

-----------------------------------------------------------------------------
LoopStep == Assess \/ BeginRestart \/ FinishRestart \/ LaunchRaises \/ AfterTick

Next ==
  \/ Tick \/ LoopStep
  \/ JobDone \/ WorkerSeesTrip \/ RunEnds \/ Resume
  \/ ComfyAnswers \/ ComfyFails

Spec == Init /\ [][Next]_vars

\* Time passes, the event loop runs the supervisor loop and the workers, and a
\* started ComfyUI answers in the end.
Fairness ==
  WF_vars(Tick) /\ WF_vars(LoopStep) /\ WF_vars(WorkerSeesTrip) /\ WF_vars(ComfyAnswers)

FairSpec == Spec /\ Fairness

-----------------------------------------------------------------------------
(* Properties.                                                             *)

RestartsWithin(ticks) == {i \in DOMAIN log : log[i] < ticks}

\* Restart intensity: in no rolling window are there more restarts than the
\* ceiling, whatever asked for them (supervisor.py: "a hard intensity ceiling").
RestartIntensity == Cardinality(RestartsWithin(Window)) <= MaxRestarts

\* Hysteresis: a restart for a verdict comes after HysteresisN bad ones in a
\* row, none of them from before the last restart (supervisor.py: "never act
\* on one sample").
NeverOnOneSample ==
  loop.pc = "restart" /\ loop.reason = "verdict" => badRun >= HysteresisN

\* A supervisor on hold has no restart under way, and starts none.
HoldIsFinal == sup.held => loop.pc # "backoff"

\* Crashes that trickle do not stop the batch: when the global breaker trips,
\* as many restarts as its threshold lie within its window, given the tick and
\* the backoff by which the loop may count one late (policy.py, record_crash).
TrickleIsForgiven ==
  [][~crash.tripped /\ crash'.tripped
     => Cardinality(RestartsWithin(CrashWindow + BackoffCap + 2)) >= CrashThreshold]_vars

\* Hitting the ceiling, or the crash threshold, ends the run.
HeldEndsTheRun == (sup.held \/ crash.tripped) ~> stop

\* A ComfyUI that is down or hung is up again in the end, or the run is over.
ComfyComesBack == (comfy # "up") ~> (comfy = "up" \/ stop)

\* It is, when the supervisor has launched it or finds it down, launches do not
\* raise for ever, and the loop itself lives on.
ComfyRecovers ==
  \/ []<><<LaunchRaises>>_vars
  \/ (comfy # "up" /\ (child \/ comfy = "down"))
       ~> (comfy = "up" \/ stop \/ loop.pc = "lost")

\* Every restart of ComfyUI is recorded as a crash (policy.py, record_crash:
\* "Call once per ComfyUI worker crash/restart").
RestartIsRecorded ==
  [][loop.pc = "after" /\ loop'.pc # "after" /\ restarted /\ ~crash.tripped
     => \E i \in DOMAIN crash'.times : crash'.times[i] = 0]_vars

\* One recycle per count of jobs (supervisor.py, maybe_recycle: "Proactive
\* restart every N jobs").
OneRecyclePerCount ==
  loop.pc = "restart" /\ loop.reason = "recycle" => loop.at # recycledAt

\* A batch on a ComfyUI that never fails is never stopped for its crashes.
HealthyBatchGoesOn ==
  faults = 0 => ~crash.tripped /\ ~sup.held

\* A hold outlives the controller: until it is cleared, ComfyUI is not
\* restarted (docs/runbook.md).
HoldSurvivesResume ==
  [][heldEver => (restarted' => restarted)]_vars
=============================================================================
