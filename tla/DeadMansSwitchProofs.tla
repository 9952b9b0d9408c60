------------------------ MODULE DeadMansSwitchProofs ------------------------
(***************************************************************************)
(* For all settings that keep the contract, the watchdog spares every      *)
(* controller that is on time (DeadMansSwitch).  The inductive invariant   *)
(* says how old heartbeat and marker can be in each phase of such a        *)
(* controller.                                                             *)
(***************************************************************************)
EXTENDS DeadMansSwitch, TLAPS

USE SwitchAssumption DEF NoFile

\* The oldest heartbeat a crash can leave behind.
Oldest == Interval - 1 + MaxSilence

BootOnTime ==
  /\ ctl.phase = "boot"
  /\ ctl.since <= BootDelay
  /\ beat <= ctl.since /\ marker <= ctl.since

DelayOnTime ==
  /\ ctl.phase = "delay"
  /\ ctl.since <= RestartSec
  /\ 0 <= beat /\ beat <= Oldest + ctl.since

StartOnTime ==
  /\ ctl.phase = "starting"
  /\ ctl.since <= StartTime
  /\ \/ beat = NoFile /\ marker <= BootDelay + ctl.since
     \/ 0 <= beat /\ beat <= BootDelay + ctl.since
     \/ 0 <= beat /\ beat <= Oldest + RestartSec + ctl.since

WorkOnTime ==
  /\ ctl.phase = "working"
  /\ ctl.since <= MaxSilence
  /\ 0 <= beat /\ beat <= Interval - 1 + ctl.since
  /\ ctl.written < Interval => beat <= ctl.written

OnTime == BootOnTime \/ DelayOnTime \/ StartOnTime \/ WorkOnTime

\* A reboot ends what is promised.
Excused == lapsed \/ reboots > 0

IInv == TypeOK /\ (Excused \/ OnTime) /\ HealthyIsSpared

-----------------------------------------------------------------------------
(* Types                                                                   *)

\* A phase starts with its counters at 0.
LEMMA FreshCtl ==
  ASSUME NEW phase \in Phases
  PROVE  Ctl(phase) \in [phase : Phases, since : Nat, written : Nat]
  BY DEF Ctl

\* The capped counters stay within their caps.
LEMMA CappedAges ==
  ASSUME NEW cap \in Nat, NEW age \in -1 .. cap
  PROVE  /\ Older(age, cap) \in -1 .. cap
         /\ age >= 0 => Older(age, cap) \in 0 .. age + 1
         /\ age = -1 => Older(age, cap) = -1
  BY DEF Older, LeastOf

LEMMA CappedCounts ==
  ASSUME NEW cap \in Nat, NEW n \in Nat
  PROVE  /\ LeastOf(n, cap) \in 0 .. cap
         /\ LeastOf(n, cap) < cap => LeastOf(n, cap) = n
  BY DEF LeastOf

LEMMA TypeInit == Init => TypeOK
<1> SUFFICES ASSUME Init PROVE TypeOK
  OBVIOUS
<1>1. host \in [arm : BOOLEAN, root : BOOLEAN, hook : BOOLEAN]
  <2>1. \A works : Armed(works) \in BOOLEAN /\ Terminates(works) \in BOOLEAN
    BY DEF Armed, Terminates
  <2> QED
    BY <2>1 DEF Init
<1>2. ctl \in [phase : Phases, since : Nat, written : Nat]
  BY FreshCtl DEF Init, Phases
<1>3. uptime = 0 /\ timer = 0 /\ beat = -1 /\ marker = -1
  BY DEF Init
<1>4. /\ power \in {"on", "off"} /\ endedBy \in {"nobody", "ceiling", "watchdog", "hook"}
      /\ done \in BOOLEAN /\ lapsed \in BOOLEAN
      /\ crashes \in Nat /\ reboots \in Nat /\ stops \in Nat
  BY DEF Init
<1> QED
  BY <1>1, <1>2, <1>3, <1>4 DEF TypeOK

\* Every action keeps the types.
LEMMA TypeStep == TypeOK /\ [Next]_vars => TypeOK'
<1> SUFFICES ASSUME TypeOK, [Next]_vars PROVE TypeOK'
  OBVIOUS
<1> USE DEF TypeOK
<1>0. /\ \A phase \in Phases : Ctl(phase) \in [phase : Phases, since : Nat, written : Nat]
      /\ ctl.phase \in Phases /\ ctl.since \in Nat /\ ctl.written \in Nat
  BY FreshCtl
<1>1. CASE Tick
  <2>1. uptime' \in 0 .. Ceiling
    BY <1>1, CappedCounts DEF Tick
  <2>2. timer' \in 0 .. TimerEvery
    BY <1>1 DEF Tick
  <2>3. beat' \in -1 .. Stale /\ marker' \in -1 .. Grace
    BY <1>1, CappedAges DEF Tick
  <2>4. ctl' \in [phase : Phases, since : Nat, written : Nat]
    <3>1. LeastOf(ctl.written + 1, Interval) \in Nat
      BY <1>0 DEF LeastOf
    <3>2. CASE ctl.phase \in DOMAIN Patience
      <4>1. ctl' = [ctl EXCEPT !.since = ctl.since + 1,
                               !.written = LeastOf(ctl.written + 1, Interval)]
        BY <1>1, <3>2 DEF Tick
      <4>2. ctl' = [phase |-> ctl.phase, since |-> ctl.since + 1,
                    written |-> LeastOf(ctl.written + 1, Interval)]
        BY <4>1
      <4> QED
        BY <4>2, <3>1, <1>0
    <3>3. CASE ctl.phase \notin DOMAIN Patience
      BY <1>1, <3>3 DEF Tick
    <3> QED
      BY <3>2, <3>3
  <2> QED
    BY <1>1, <2>1, <2>2, <2>3, <2>4 DEF Tick, bounds
<1>2. CASE CeilingReached
  BY <1>2 DEF CeilingReached, Off, bounds
<1>3. CASE CheckHeartbeat
  BY <1>3 DEF CheckHeartbeat, WatchdogTerminates, Off, StillOn, MarkerSeen, bounds
<1>4. CASE Start
  BY <1>4, <1>0 DEF Start, Phases, bounds
<1>5. CASE Checkpoint
  <2>1. ctl' \in [phase : Phases, since : Nat, written : Nat]
    BY <1>5, <1>0 DEF Checkpoint, Phases
  <2> QED
    BY <1>5, <2>1 DEF Checkpoint, bounds
<1>6. CASE CheckpointNotWritten
  BY <1>6, <1>0 DEF CheckpointNotWritten, Phases, bounds
<1>7. CASE Crash
  BY <1>7, <1>0 DEF Crash, RestartedOrFailed, StillOn, Phases
<1>8. CASE Wedge
  BY <1>8, <1>0 DEF Wedge, Phases, bounds
<1>9. CASE Finish
  BY <1>9, <1>0 DEF Finish, StopHook, RestartedOrFailed, Off, StillOn, Phases, bounds
<1>10. CASE OperatorStops
  <2>1. /\ ctl' \in [phase : Phases, since : Nat, written : Nat]
        /\ power' \in {"on", "off"} /\ lapsed' \in BOOLEAN
        /\ endedBy' \in {"nobody", "ceiling", "watchdog", "hook"}
    BY <1>10, <1>0 DEF OperatorStops, StopHook, RestartedOrFailed, Off, StillOn, Phases
  <2> QED
    BY <1>10, <2>1 DEF OperatorStops
<1>11. CASE PreflightWrites
  BY <1>11 DEF PreflightWrites, bounds
<1>12. CASE \E down \in 0 .. Stale : Reboot(down)
  <2> PICK down \in 0 .. Stale : Reboot(down)
    BY <1>12
  <2>1. beat' \in -1 .. Stale
    BY CappedCounts DEF Reboot
  <2> QED
    BY <2>1, <1>0 DEF Reboot, Phases
<1>13. CASE UNCHANGED vars
  BY <1>13 DEF vars, bounds
<1> QED
  BY <1>1, <1>2, <1>3, <1>4, <1>5, <1>6, <1>7, <1>8, <1>9, <1>10, <1>11, <1>12, <1>13
  DEF Next

\* Type correctness of the switch, for all settings.
THEOREM SwitchTypeCorrect == Spec => []TypeOK
<1> QED
  BY TypeInit, TypeStep, PTL DEF Spec

-----------------------------------------------------------------------------
(* The watchdog spares a controller that is on time                        *)

\* What the watchdog reads of a controller that is on time is below both of its
\* thresholds.
LEMMA OnTimeIsFresh ==
  ASSUME KeepsContract, TypeOK, OnTime
  PROVE  /\ ~IsStale
         /\ beat < 0 => MarkerSeen < Grace
<1> USE DEF TypeOK, KeepsContract
<1>1. CASE BootOnTime
  BY <1>1 DEF BootOnTime, IsStale, MarkerSeen
<1>2. CASE DelayOnTime
  BY <1>2 DEF DelayOnTime, Oldest, IsStale, MarkerSeen
<1>3. CASE StartOnTime
  BY <1>3 DEF StartOnTime, Oldest, IsStale, MarkerSeen
<1>4. CASE WorkOnTime
  BY <1>4 DEF WorkOnTime, IsStale, MarkerSeen
<1> QED
  BY <1>1, <1>2, <1>3, <1>4 DEF OnTime

\* Time passes: the ages grow with the time in the phase.
LEMMA TickOnTime ==
  ASSUME TypeOK, OnTime, Tick
  PROVE  OnTime'
<1> USE DEF TypeOK
<1>1. /\ beat' = Older(beat, Stale) /\ marker' = Older(marker, Grace)
      /\ ctl.since \in Nat /\ ctl.written \in Nat
  BY DEF Tick
<1>2. /\ beat' \in -1 .. Stale /\ marker' \in -1 .. Grace
      /\ beat >= 0 => beat' >= 0 /\ beat' <= beat + 1
      /\ beat = -1 => beat' = -1
      /\ marker' <= marker + 1
  <2>1. /\ Stale \in Nat /\ beat \in -1 .. Stale
        /\ Grace \in Nat /\ marker \in -1 .. Grace
    OBVIOUS
  <2>2. /\ Older(beat, Stale) \in -1 .. Stale
        /\ beat >= 0 => Older(beat, Stale) \in 0 .. beat + 1
        /\ beat = -1 => Older(beat, Stale) = -1
    BY <2>1, CappedAges
  <2>3. /\ Older(marker, Grace) \in -1 .. Grace
        /\ marker >= 0 => Older(marker, Grace) \in 0 .. marker + 1
        /\ marker = -1 => Older(marker, Grace) = -1
    BY <2>1, CappedAges
  <2> QED
    BY <1>1, <2>1, <2>2, <2>3
<1>3. ASSUME ctl.phase \in DOMAIN Patience
      PROVE  /\ ctl'.phase = ctl.phase /\ ctl'.since = ctl.since + 1
             /\ ctl'.written = LeastOf(ctl.written + 1, Interval)
             /\ ctl.since < Patience[ctl.phase]
  BY <1>3 DEF Tick, InTime
<1>4. CASE BootOnTime
  <2>1. ctl'.phase = "boot" /\ ctl'.since = ctl.since + 1 /\ ctl.since < BootDelay
    BY <1>3, <1>4 DEF BootOnTime, Patience
  <2> QED
    BY <2>1, <1>1, <1>2, <1>4 DEF OnTime, BootOnTime
<1>5. CASE DelayOnTime
  <2>1. ctl'.phase = "delay" /\ ctl'.since = ctl.since + 1 /\ ctl.since < RestartSec
    BY <1>3, <1>5 DEF DelayOnTime, Patience
  <2> QED
    BY <2>1, <1>1, <1>2, <1>5 DEF OnTime, DelayOnTime, Oldest
<1>6. CASE StartOnTime
  <2>1. ctl'.phase = "starting" /\ ctl'.since = ctl.since + 1 /\ ctl.since < StartTime
    BY <1>3, <1>6 DEF StartOnTime, Patience
  <2> QED
    BY <2>1, <1>1, <1>2, <1>6 DEF OnTime, StartOnTime, Oldest
<1>7. CASE WorkOnTime
  <2>1. /\ ctl'.phase = "working" /\ ctl'.since = ctl.since + 1 /\ ctl.since < MaxSilence
        /\ ctl'.written = LeastOf(ctl.written + 1, Interval)
    BY <1>3, <1>7 DEF WorkOnTime, Patience
  <2>2. ctl'.written < Interval => ctl'.written = ctl.written + 1
    BY <2>1, <1>1, CappedCounts
  <2> QED
    BY <2>1, <2>2, <1>1, <1>2, <1>7 DEF OnTime, WorkOnTime
<1> QED
  BY <1>4, <1>5, <1>6, <1>7 DEF OnTime

\* A controller on time stays on time with every step of its own that is not
\* counted as a lapse.
LEMMA CheckpointOnTime ==
  ASSUME TypeOK, OnTime, Checkpoint
  PROVE  OnTime'
<1> USE DEF TypeOK
<1>1. CASE WriteDue
  BY <1>1 DEF Checkpoint, Ctl, OnTime, WorkOnTime
<1>2. CASE ~WriteDue
  <2>1. /\ ctl.phase = "working" /\ ctl.written < Interval /\ UNCHANGED beat
        /\ ctl' = [ctl EXCEPT !.since = 0]
    BY <1>2 DEF Checkpoint, WriteDue
  <2>2. WorkOnTime
    BY <2>1 DEF OnTime, BootOnTime, DelayOnTime, StartOnTime
  <2> QED
    BY <2>1, <2>2 DEF OnTime, WorkOnTime
<1> QED
  BY <1>1, <1>2

LEMMA StartKeepsTime ==
  ASSUME TypeOK, OnTime, Start
  PROVE  OnTime'
<1> USE DEF TypeOK
<1>1. ctl' = Ctl("starting") /\ UNCHANGED <<beat, marker>>
  BY DEF Start
<1>2. BootOnTime \/ DelayOnTime
  BY DEF Start, OnTime, StartOnTime, WorkOnTime
<1> QED
  BY <1>1, <1>2 DEF OnTime, BootOnTime, DelayOnTime, StartOnTime, Oldest, Ctl

LEMMA CrashOnTime ==
  ASSUME TypeOK, OnTime, Crash, ~lapsed'
  PROVE  OnTime'
<1> USE DEF TypeOK
<1>1. /\ ctl.phase = "working" /\ ctl' = Ctl("delay") /\ UNCHANGED <<beat, marker>>
  <2>1. lapsed' = (lapsed \/ ctl.phase # "working" \/ ctl'.phase = "failed")
    BY DEF Crash
  <2>2. ctl.phase = "working" /\ ctl'.phase # "failed"
    BY <2>1
  <2>3. PICK phase \in {"delay", "failed"} : ctl' = Ctl(phase)
    BY DEF Crash, RestartedOrFailed
  <2>4. ctl'.phase = phase
    BY <2>3 DEF Ctl
  <2> QED
    BY <2>2, <2>3, <2>4 DEF Crash
<1>2. WorkOnTime
  BY <1>1 DEF OnTime, BootOnTime, DelayOnTime, StartOnTime
<1> QED
  BY <1>1, <1>2 DEF OnTime, WorkOnTime, DelayOnTime, Oldest, Ctl

\* What excuses the watchdog excuses it from then on.
LEMMA ExcusedStays ==
  ASSUME TypeOK, [Next]_vars, Excused
  PROVE  Excused'
<1> USE DEF TypeOK, Excused, bounds
<1>1. CASE Tick \/ CeilingReached \/ CheckHeartbeat \/ Start \/ Checkpoint
  BY <1>1 DEF Tick, CeilingReached, CheckHeartbeat, Start, Checkpoint
<1>2. CASE CheckpointNotWritten \/ Wedge \/ PreflightWrites
  BY <1>2 DEF CheckpointNotWritten, Wedge, PreflightWrites
<1>3. CASE Crash
  <2>1. lapsed => lapsed'
    BY <1>3 DEF Crash
  <2> QED
    BY <1>3, <2>1 DEF Crash
<1>4. CASE Finish \/ OperatorStops
  BY <1>4 DEF Finish, OperatorStops, StopHook
<1>5. CASE \E down \in 0 .. Stale : Reboot(down)
  BY <1>5 DEF Reboot
<1>6. CASE UNCHANGED vars
  BY <1>6 DEF vars
<1> QED
  BY <1>1, <1>2, <1>3, <1>4, <1>5, <1>6 DEF Next

LEMMA SpareStep ==
  ASSUME KeepsContract
  PROVE  IInv /\ [Next]_vars => IInv'
<1> SUFFICES ASSUME IInv, [Next]_vars PROVE IInv'
  OBVIOUS
<1>0. TypeOK /\ TypeOK'
  BY TypeStep DEF IInv
<1>a. CASE Excused
  BY <1>0, <1>a, ExcusedStays DEF IInv, Excused, HealthyIsSpared
<1>b. CASE ~Excused
  <2>a. OnTime /\ endedBy # "watchdog"
    BY <1>b DEF IInv, Excused, HealthyIsSpared
  <2> SUFFICES (Excused' \/ OnTime') /\ (endedBy' # "watchdog" \/ Excused')
    BY <1>0 DEF IInv, Excused, HealthyIsSpared
  <2>b. ASSUME UNCHANGED <<ctl, beat, marker>> PROVE OnTime'
    BY <2>a, <2>b DEF OnTime, BootOnTime, DelayOnTime, StartOnTime, WorkOnTime
  <2>1. CASE Tick
    BY <1>0, <2>1, <2>a, TickOnTime DEF Tick
  <2>2. CASE CeilingReached
    BY <2>2, <2>a, <2>b DEF CeilingReached, Off
  <2>3. CASE CheckHeartbeat
    <3>1. ~IsStale /\ (beat < 0 => MarkerSeen < Grace)
      BY <1>0, <2>a, OnTimeIsFresh
    <3>2. UNCHANGED <<endedBy, ctl, beat>>
      BY <1>0, <2>3, <3>1 DEF CheckHeartbeat, StillOn, TypeOK
    <3>3. marker' <= marker \/ marker' = NoFile \/ marker' = 0
      BY <1>0, <2>3 DEF CheckHeartbeat, MarkerSeen, TypeOK
    <3>4. OnTime'
      BY <1>0, <2>a, <3>2, <3>3
      DEF OnTime, BootOnTime, DelayOnTime, StartOnTime, WorkOnTime, TypeOK
    <3> QED
      BY <2>a, <3>2, <3>4
  <2>4. CASE Start
    BY <1>0, <2>4, <2>a, StartKeepsTime DEF Start
  <2>5. CASE Checkpoint
    BY <1>0, <2>5, <2>a, CheckpointOnTime DEF Checkpoint
  <2>6. CASE CheckpointNotWritten \/ Wedge
    BY <2>6 DEF CheckpointNotWritten, Wedge, Excused
  <2>7. CASE Crash
    <3>1. CASE lapsed'
      BY <3>1 DEF Excused
    <3>2. CASE ~lapsed'
      BY <1>0, <2>7, <2>a, <3>2, CrashOnTime DEF Crash, StillOn
    <3> QED
      BY <3>1, <3>2
  <2>8. CASE StopHook /\ UNCHANGED <<beat, marker>>
    BY <2>8, <2>a, <2>b DEF StopHook, Off, Excused
  <2>9. CASE Finish \/ OperatorStops
    BY <2>8, <2>9 DEF Finish, OperatorStops
  <2>10. CASE PreflightWrites
    BY <1>0, <2>10, <2>a
    DEF PreflightWrites, OnTime, BootOnTime, DelayOnTime, StartOnTime, WorkOnTime, TypeOK
  <2>11. CASE \E down \in 0 .. Stale : Reboot(down)
    BY <1>0, <2>11 DEF Reboot, Excused, TypeOK
  <2>12. CASE UNCHANGED vars
    BY <2>12, <2>a, <2>b DEF vars
  <2> QED
    BY <2>1, <2>2, <2>3, <2>4, <2>5, <2>6, <2>7, <2>9, <2>10, <2>11, <2>12 DEF Next
<1> QED
  BY <1>a, <1>b

LEMMA SpareInit == Init => IInv
<1> SUFFICES ASSUME Init PROVE IInv
  OBVIOUS
<1>1. OnTime
  BY DEF Init, OnTime, BootOnTime, Ctl
<1> QED
  BY <1>1, TypeInit DEF Init, IInv, HealthyIsSpared

\* The watchdog never ends the instance of a controller that is on time, for
\* all settings that keep the contract, until the host reboots.
THEOREM WatchdogSparesTheHealthy ==
  ASSUME KeepsContract
  PROVE  Spec => []HealthyIsSpared
<1>1. IInv /\ [Next]_vars => IInv'
  BY SpareStep
<1>2. IInv => HealthyIsSpared
  BY DEF IInv
<1> QED
  BY SpareInit, <1>1, <1>2, PTL DEF Spec
=============================================================================
