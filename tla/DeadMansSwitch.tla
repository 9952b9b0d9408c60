--------------------------- MODULE DeadMansSwitch ---------------------------
(***************************************************************************)
(* What ends a rented instance: the boot ceiling and the heartbeat watchdog*)
(* of ops/deadman.sh, the stop hook ops/on_controller_stop.sh, and the     *)
(* systemd units that run them, together with the controller they watch:   *)
(* its start, the checkpoints of its workers that touch the heartbeat      *)
(* (runner.py), its crashes, its finish.                                   *)
(*                                                                         *)
(* The clock ticks; every duration is a number of ticks.  An age is kept   *)
(* up to the threshold it is compared with.                                *)
(***************************************************************************)
EXTENDS Integers, FiniteSets

CONSTANTS
  Ceiling,     \* DEADMAN_HARD_CEILING_MIN
  Stale,       \* DEADMAN_HEARTBEAT_STALE_MIN
  Grace,       \* DEADMAN_STARTUP_GRACE_MIN
  TimerEvery,  \* OnUnitActiveSec of comfy-deadman.timer
  Interval,    \* heartbeat_interval_s
  RestartSec,  \* of comfy-controller.service
  \* how long a healthy controller takes
  BootDelay,   \* from boot to the start of its process
  StartTime,   \* from there to its first checkpoint
  MaxSilence,  \* from one checkpoint of its workers to the next
  \* bounds
  MaxCrashes,  \* failure exits
  MaxReboots,
  MaxStops     \* systemctl stop or restart by the operator

ASSUME SwitchAssumption ==
  /\ Ceiling \in Nat \ {0} /\ Stale \in Nat \ {0} /\ Grace \in Nat \ {0}
  /\ TimerEvery \in Nat \ {0} /\ Interval \in Nat \ {0}
  /\ RestartSec \in Nat /\ BootDelay \in Nat
  /\ StartTime \in Nat /\ MaxSilence \in Nat
  /\ MaxCrashes \in Nat /\ MaxReboots \in Nat /\ MaxStops \in Nat

VARIABLES
  host,    \* is the ceiling armed on it; can root end it, can the hook
  power,   \* "on" or "off"
  uptime,  \* since boot
  timer,   \* since the last run of check-heartbeat
  beat,    \* age of the heartbeat file, NoFile
  marker,  \* age of DEADMAN_BOOT_MARKER_FILE, NoFile
  ctl,     \* the controller's unit and process
  crashes, reboots, stops,
  \* history
  endedBy, \* who ended the instance
  done,    \* has run() returned?
  lapsed   \* has the controller failed to be healthy?

vars == <<host, power, uptime, timer, beat, marker, ctl,
          crashes, reboots, stops, endedBy, done, lapsed>>
bounds == <<crashes, reboots, stops>>

-----------------------------------------------------------------------------
\* The sentinel of _heartbeat_age_s.
NoFile == -1

\* "boot": not started yet; "delay": systemd waits RestartSec; "starting":
\* load_batch, reconciliation; "wedged": alive without progress; "failed":
\* StartLimitBurst is used up.
Phases == {"boot", "delay", "starting", "working", "wedged", "failed"}

\* since: ticks in the phase, or, when working, since the last checkpoint;
\* written: since _last_heartbeat_write_at.
Ctl(phase) == [phase |-> phase, since |-> 0, written |-> 0]

LeastOf(a, b) == IF a < b THEN a ELSE b
Older(age, cap) == IF age = NoFile THEN NoFile ELSE LeastOf(age + 1, cap)

ArmWays == {"shutdown", "at", "sleep"}
EndWays == {"provider", "shutdown", "poweroff"}

\* arm_boot_shutdown: each way is tried when those before it have failed.
Armed(works) == \E way \in ArmWays : way \in works

\* terminate_instance: the provider's API, then shutdown in any case, then the
\* escalation; what a script's user may not do does not work for it.
Terminates(works) == \E way \in EndWays : way \in works

TypeOK ==
  /\ host \in [arm : BOOLEAN, root : BOOLEAN, hook : BOOLEAN]
  /\ power \in {"on", "off"}
  /\ uptime \in 0 .. Ceiling /\ timer \in 0 .. TimerEvery
  /\ beat \in -1 .. Stale /\ marker \in -1 .. Grace
  /\ ctl \in [phase : Phases, since : Nat, written : Nat]
  /\ crashes \in Nat /\ reboots \in Nat /\ stops \in Nat
  /\ endedBy \in {"nobody", "ceiling", "watchdog", "hook"}
  /\ done \in BOOLEAN /\ lapsed \in BOOLEAN

Init ==
  /\ \E arm \in SUBSET ArmWays, root \in SUBSET EndWays, hook \in SUBSET EndWays :
       host = [arm |-> Armed(arm), root |-> Terminates(root), hook |-> Terminates(hook)]
  /\ power = "on"
  /\ uptime = 0 /\ timer = 0
  /\ beat = NoFile /\ marker = NoFile
  /\ ctl = Ctl("boot")
  /\ crashes = 0 /\ reboots = 0 /\ stops = 0
  /\ endedBy = "nobody" /\ done = FALSE /\ lapsed = FALSE

Off(who) == power' = "off" /\ endedBy' = who
StillOn == UNCHANGED <<power, endedBy>>

-----------------------------------------------------------------------------
(* Time                                                                    *)

\* How long a phase may last before what ends it must have come.
Patience ==
  [boot |-> BootDelay, delay |-> RestartSec, starting |-> StartTime, working |-> MaxSilence]

InTime == ctl.phase \in DOMAIN Patience => ctl.since < Patience[ctl.phase]

Tick ==
  /\ power = "on"
  /\ timer < TimerEvery
  /\ host.arm => uptime < Ceiling
  /\ InTime
  /\ uptime' = LeastOf(uptime + 1, Ceiling)
  /\ timer' = timer + 1
  /\ beat' = Older(beat, Stale)
  /\ marker' = Older(marker, Grace)
  /\ ctl' = IF ctl.phase \in DOMAIN Patience
            THEN [ctl EXCEPT !.since = @ + 1, !.written = LeastOf(@ + 1, Interval)]
            ELSE ctl
  /\ UNCHANGED <<host, bounds, endedBy, power, done, lapsed>>

\* Layer 1.
CeilingReached ==
  /\ power = "on" /\ host.arm /\ uptime = Ceiling
  /\ Off("ceiling")
  /\ UNCHANGED <<host, uptime, timer, beat, marker, ctl, bounds, done, lapsed>>

-----------------------------------------------------------------------------
(* Layer 2: check-heartbeat                                                *)

\* _seconds_since_startup_marker: the file is made where it is missing.
\* Mutation: every check writes it anew.
MarkerRenewed == 0
MarkerSeen == IF marker = NoFile THEN 0 ELSE marker

IsStale == beat >= Stale

WatchdogTerminates ==
  IF host.root THEN Off("watchdog") ELSE StillOn

CheckHeartbeat ==
  /\ power = "on" /\ timer = TimerEvery
  /\ timer' = 0
  /\ \/ /\ beat < 0
        /\ marker' = MarkerSeen
        /\ IF MarkerSeen < Grace THEN StillOn ELSE WatchdogTerminates
     \/ /\ beat >= 0
        /\ marker' = NoFile
        /\ IF IsStale THEN WatchdogTerminates ELSE StillOn
  /\ UNCHANGED <<host, uptime, beat, ctl, bounds, done, lapsed>>

-----------------------------------------------------------------------------
(* The controller                                                          *)

Start ==
  /\ power = "on" /\ ctl.phase \in {"boot", "delay"}
  /\ ctl' = Ctl("starting")
  /\ UNCHANGED <<host, power, uptime, timer, beat, marker, bounds, endedBy, done, lapsed>>

\* _maybe_touch_heartbeat at a checkpoint of a worker: throttled, but the first
\* one of a process always writes.
\* Mutation: one tick too late.
WriteDueLate == ctl.phase = "starting" \/ (ctl.written >= Interval /\ ctl.since > 1)
WriteDue == ctl.phase = "starting" \/ ctl.written >= Interval

Checkpoint ==
  /\ power = "on" /\ ctl.phase \in {"starting", "working"}
  /\ IF WriteDue
     THEN beat' = 0 /\ ctl' = Ctl("working")
     ELSE ctl' = [ctl EXCEPT !.since = 0] /\ UNCHANGED beat
  /\ UNCHANGED <<host, power, uptime, timer, marker, bounds, endedBy, done, lapsed>>

\* The write raises OSError: logged, and not tried again before the interval.
CheckpointNotWritten ==
  /\ power = "on" /\ ctl.phase \in {"starting", "working"} /\ WriteDue
  /\ ctl' = Ctl("working")
  /\ lapsed' = TRUE
  /\ UNCHANGED <<host, power, uptime, timer, beat, marker, bounds, endedBy, done>>

Running == ctl.phase \in {"starting", "working", "wedged"}

\* Restart=on-failure, until StartLimitBurst starts in StartLimitIntervalSec.
RestartedOrFailed ==
  \E phase \in {"delay", "failed"} : ctl' = Ctl(phase)

\* A failure exit.  The stop hook leaves the instance alone.
Crash ==
  /\ power = "on" /\ Running /\ crashes < MaxCrashes
  /\ crashes' = crashes + 1
  /\ RestartedOrFailed
  /\ lapsed' = (lapsed \/ ctl.phase # "working" \/ ctl'.phase = "failed")
  /\ StillOn
  /\ UNCHANGED <<host, uptime, timer, beat, marker, reboots, stops, done>>

\* The process lives, its workers do not get to a checkpoint any more.
Wedge ==
  /\ power = "on" /\ ctl.phase \in {"starting", "working"}
  /\ ctl' = Ctl("wedged")
  /\ lapsed' = TRUE
  /\ UNCHANGED <<host, power, uptime, timer, beat, marker, bounds, endedBy, done>>

\* on_controller_stop.sh with SERVICE_RESULT=success: sync, then terminate.  A
\* hook that fails makes the unit fail, and systemd starts the controller again.
StopHook ==
  IF host.hook
  THEN Off("hook") /\ UNCHANGED <<ctl, lapsed>>
  ELSE RestartedOrFailed /\ lapsed' = TRUE /\ StillOn

\* run() returns, the process exits with 0.
Finish ==
  /\ power = "on" /\ ctl.phase = "working"
  /\ done' = TRUE
  /\ StopHook
  /\ UNCHANGED <<host, uptime, timer, beat, marker, bounds>>

\* SIGTERM is a clean exit to systemd: the result is "success" here too.
OperatorStops ==
  /\ power = "on" /\ Running /\ stops < MaxStops
  /\ stops' = stops + 1
  /\ StopHook
  /\ UNCHANGED <<host, uptime, timer, beat, marker, crashes, reboots, done>>

\* comfyctl preflight before the run: check_heartbeat_path writes the file.
PreflightWrites ==
  /\ power = "on" /\ ctl.phase = "boot"
  /\ beat' = 0
  /\ UNCHANGED <<host, power, uptime, timer, marker, ctl, bounds, endedBy, done, lapsed>>

\* The heartbeat file is on disk, the marker in /run.
Reboot(down) ==
  /\ power = "on" /\ reboots < MaxReboots
  /\ reboots' = reboots + 1
  /\ uptime' = 0 /\ timer' = 0
  /\ beat' = IF beat = NoFile THEN NoFile ELSE LeastOf(beat + down, Stale)
  /\ marker' = NoFile
  /\ ctl' = Ctl("boot")
  /\ UNCHANGED <<host, power, crashes, stops, endedBy, done, lapsed>>

Next ==
  \/ Tick \/ CeilingReached \/ CheckHeartbeat
  \/ Start \/ Checkpoint \/ CheckpointNotWritten
  \/ Crash \/ Wedge \/ Finish \/ OperatorStops
  \/ PreflightWrites
  \/ \E down \in 0 .. Stale : Reboot(down)

Spec == Init /\ [][Next]_vars

\* Clocks and timers run, systemd starts what is due, a working controller gets
\* to its next checkpoint; nothing is assumed of crashes, wedges and operators.
FairSpec ==
  /\ Spec
  /\ WF_vars(Tick) /\ WF_vars(CeilingReached) /\ WF_vars(CheckHeartbeat)
  /\ WF_vars(Start) /\ WF_vars(Checkpoint)

-----------------------------------------------------------------------------
(* Properties                                                              *)

\* What the settings must satisfy: the grace and the stale limit cover what a
\* first boot takes, and the stale limit also a crash right before a write was
\* due and the restart after it.
KeepsContract ==
  /\ BootDelay + StartTime < Grace
  /\ BootDelay + StartTime < Stale
  /\ Interval + MaxSilence + RestartSec + StartTime <= Stale

\* The watchdog never ends an instance whose controller is on time: starting
\* for the first time, working, or on its way back from a crash.
HealthyIsSpared == endedBy = "watchdog" => lapsed \/ reboots > 0

\* Nor one that its host has rebooted: the heartbeat file outlives a reboot that
\* the marker does not, and tells of the time before it (deadman.sh:293).
RebootedIsSpared == endedBy = "watchdog" => lapsed

\* A controller that hangs, or that systemd has given up, does not keep the
\* instance running, whatever state it left heartbeat and marker in; the
\* ceiling is not needed for it.
Dead == {"wedged", "failed"}
DeadIsTerminated ==
  (ctl.phase \in Dead /\ host.root) ~> (power = "off" \/ ctl.phase \notin Dead)

\* "SERVICE_RESULT=success means (...) the batch actually finished"
\* (ops/on_controller_stop.sh:17); the runbook resumes a run with systemctl
\* restart (docs/runbook.md:149).
HookEndsFinishedBatches == endedBy = "hook" => done
=============================================================================
