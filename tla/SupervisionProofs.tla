------------------------- MODULE SupervisionProofs -------------------------
(***************************************************************************)
(* Proofs about Supervision: hysteresis, the finality of a hold, the       *)
(* ceiling on restarts and what trips the global breaker, for any          *)
(* thresholds, windows and faults.                                         *)
(***************************************************************************)
EXTENDS Supervision, FiniteSetTheorems, SequenceTheorems, WellFoundedInduction,
        TLAPS

\* The parts of the state that the two properties rest on.
Shape ==
  /\ loop = [pc |-> loop.pc, reason |-> loop.reason, wait |-> loop.wait,
             prior |-> loop.prior, at |-> loop.at]
  /\ sup = [streak |-> sup.streak, restarts |-> sup.restarts, held |-> sup.held]
  /\ sup.streak \in Nat /\ badRun \in Nat

\* The streak counts no bad verdict that was not given since the last good one
\* or the last restart; and a restart for a verdict has its full streak.
StreakIsEarned ==
  /\ sup.streak <= badRun
  /\ loop.pc = "restart" /\ loop.reason = "verdict" => sup.streak >= HysteresisN

SupervisionInv == Shape /\ StreakIsEarned /\ HoldIsFinal

LEMMA InitInv == Init => SupervisionInv
BY DEF Init, SupervisionInv, Shape, StreakIsEarned, HoldIsFinal,
       FreshSupervisor, FreshLoop

LEMMA TickStep == SupervisionInv /\ Tick => SupervisionInv'
<1> SUFFICES ASSUME SupervisionInv, Tick PROVE SupervisionInv'
  OBVIOUS
<1>1. /\ sup'.streak = sup.streak /\ sup'.held = sup.held /\ badRun' = badRun
      /\ sup' = [streak |-> sup'.streak, restarts |-> sup'.restarts, held |-> sup'.held]
  BY DEF Tick, SupervisionInv, Shape
<1>2. CASE loop.pc = "sleep" /\ loop' = [loop EXCEPT !.pc = "wake"]
  BY <1>1, <1>2 DEF SupervisionInv, Shape, StreakIsEarned, HoldIsFinal
<1>3. CASE loop.pc = "backoff" /\ loop' = [loop EXCEPT !.wait = @ - 1]
  BY <1>1, <1>3 DEF SupervisionInv, Shape, StreakIsEarned, HoldIsFinal
<1>4. QED
  BY <1>2, <1>3 DEF Tick

LEMMA AssessStep == SupervisionInv /\ Assess => SupervisionInv'
<1> SUFFICES ASSUME SupervisionInv, Assess PROVE SupervisionInv'
  OBVIOUS
<1>1. CASE stop
  <2>1. loop' = [loop EXCEPT !.pc = "exited"] /\ UNCHANGED <<sup, badRun>>
    BY <1>1 DEF Assess
  <2>2. QED
    BY <2>1 DEF SupervisionInv, Shape, StreakIsEarned, HoldIsFinal
<1>2. CASE ~stop
  <2>1. PICK verdict \in Verdicts :
          /\ sup' = [sup EXCEPT !.streak = StreakAfter(verdict)]
          /\ badRun' = IF Bad(verdict) THEN OneMore(badRun) ELSE 0
          /\ loop' = IF StreakAfter(verdict) >= HysteresisN
                     THEN [loop EXCEPT !.pc = "restart", !.reason = "verdict"]
                     ELSE [loop EXCEPT !.pc = "after"]
    BY <1>2, Zenon DEF Assess
  <2>2. HysteresisN \in Nat
    BY SupervisionAssumption
  <2>3. /\ StreakAfter(verdict) \in Nat
        /\ badRun' \in Nat
        /\ StreakAfter(verdict) <= badRun'
    BY <2>1, <2>2 DEF StreakAfter, OneMore, SupervisionInv, Shape, StreakIsEarned
  <2>4. /\ sup'.streak = StreakAfter(verdict) /\ sup'.held = sup.held
        /\ sup' = [streak |-> sup'.streak, restarts |-> sup'.restarts, held |-> sup'.held]
    BY <2>1 DEF SupervisionInv, Shape
  <2>5. /\ loop' = [pc |-> loop'.pc, reason |-> loop'.reason, wait |-> loop'.wait,
                    prior |-> loop'.prior, at |-> loop'.at]
        /\ loop'.pc = "restart" => StreakAfter(verdict) >= HysteresisN
        /\ loop'.pc \in {"restart", "after"}
    BY <2>1 DEF SupervisionInv, Shape
  <2>6. QED
    BY <2>3, <2>4, <2>5 DEF SupervisionInv, Shape, StreakIsEarned, HoldIsFinal
<1>3. QED
  BY <1>1, <1>2

LEMMA BeginStep == SupervisionInv /\ BeginRestart => SupervisionInv'
<1> SUFFICES ASSUME SupervisionInv, BeginRestart PROVE SupervisionInv'
  OBVIOUS
<1>1. /\ StreakOnReturn \in Nat /\ StreakOnReturn <= sup.streak
      /\ ReturnsTo \in {"after", "sleep"}
  BY DEF StreakOnReturn, ReturnsTo, SupervisionInv, Shape
<1>2. badRun' = badRun
  BY DEF BeginRestart
<1>3. CASE /\ OnHold
           /\ sup' = [sup EXCEPT !.streak = StreakOnReturn]
           /\ loop' = [loop EXCEPT !.pc = ReturnsTo]
  <2>1. sup'.streak = StreakOnReturn /\ loop'.pc = ReturnsTo
    BY <1>3 DEF SupervisionInv, Shape
  <2>2. Shape'
    BY <1>1, <1>2, <1>3 DEF SupervisionInv, Shape
  <2>3. QED
    BY <1>1, <1>2, <2>1, <2>2 DEF SupervisionInv, Shape, StreakIsEarned, HoldIsFinal
<1>4. CASE /\ sup' = [streak |-> StreakOnReturn,
                      restarts |-> InWindow(sup.restarts), held |-> TRUE]
           /\ loop' = [loop EXCEPT !.pc = ReturnsTo]
  <2>1. sup'.streak = StreakOnReturn /\ loop'.pc = ReturnsTo
    BY <1>4 DEF SupervisionInv, Shape
  <2>2. Shape'
    BY <1>1, <1>2, <1>4 DEF SupervisionInv, Shape
  <2>3. QED
    BY <1>1, <1>2, <2>1, <2>2 DEF SupervisionInv, Shape, StreakIsEarned, HoldIsFinal
<1>5. CASE /\ ~OnHold
           /\ sup' = [sup EXCEPT !.restarts = InWindow(sup.restarts)]
           /\ loop' = [loop EXCEPT !.pc = "backoff",
                                   !.wait = Delay(Len(InWindow(sup.restarts)))]
  <2>1. sup'.streak = sup.streak /\ loop'.pc = "backoff" /\ ~sup'.held
    BY <1>5 DEF SupervisionInv, Shape, OnHold
  <2>2. Shape'
    BY <1>2, <1>5 DEF SupervisionInv, Shape
  <2>3. QED
    BY <1>2, <2>1, <2>2 DEF SupervisionInv, Shape, StreakIsEarned, HoldIsFinal
<1>6. QED
  BY <1>3, <1>4, <1>5, Zenon DEF BeginRestart

LEMMA FinishStep == SupervisionInv /\ (FinishRestart \/ LaunchRaises) => SupervisionInv'
<1>1. ASSUME SupervisionInv, FinishRestart PROVE SupervisionInv'
  <2>1. /\ sup' = [sup EXCEPT !.streak = 0, !.restarts = Append(sup.restarts, 0)]
        /\ loop' = [loop EXCEPT !.pc = ReturnsTo]
        /\ badRun' = 0
    BY <1>1 DEF FinishRestart
  <2>2. sup'.streak = 0 /\ loop'.pc \in {"after", "sleep"}
    BY <1>1, <2>1 DEF SupervisionInv, Shape, ReturnsTo
  <2>3. Shape'
    BY <1>1, <2>1 DEF SupervisionInv, Shape
  <2>4. QED
    BY <1>1, <2>1, <2>2, <2>3 DEF SupervisionInv, Shape, StreakIsEarned, HoldIsFinal
<1>2. ASSUME SupervisionInv, LaunchRaises PROVE SupervisionInv'
  <2>1. PICK pc \in LoopPc \ {"restart", "backoff"} : loop' = [loop EXCEPT !.pc = pc]
    BY <1>2 DEF LaunchRaises, LoopPc
  <2>2. UNCHANGED <<sup, badRun>>
    BY <1>2 DEF LaunchRaises, history
  <2>3. QED
    BY <1>2, <2>1, <2>2 DEF SupervisionInv, Shape, StreakIsEarned, HoldIsFinal
<1>3. QED
  BY <1>1, <1>2

LEMMA AfterStep == SupervisionInv /\ AfterTick => SupervisionInv'
<1> SUFFICES ASSUME SupervisionInv, AfterTick PROVE SupervisionInv'
  OBVIOUS
<1>1. UNCHANGED <<sup, badRun>>
  BY DEF AfterTick
<1>2. PICK prior : GoOn(prior)
  BY DEF AfterTick
<1>3. \/ /\ sup.held
         /\ loop' = [loop EXCEPT !.pc = "exited", !.prior = prior]
      \/ loop' = [loop EXCEPT !.pc = "restart", !.reason = "recycle",
                              !.at = jobs, !.prior = prior]
      \/ loop' = [loop EXCEPT !.pc = "sleep", !.prior = prior]
  BY <1>2 DEF GoOn
<1>4. /\ loop' = [pc |-> loop'.pc, reason |-> loop'.reason, wait |-> loop'.wait,
                  prior |-> loop'.prior, at |-> loop'.at]
      /\ loop'.pc # "backoff"
      /\ loop'.pc = "restart" => loop'.reason = "recycle"
  <2>1. CASE loop' = [loop EXCEPT !.pc = "exited", !.prior = prior]
    BY <2>1 DEF SupervisionInv, Shape
  <2>2. CASE loop' = [loop EXCEPT !.pc = "restart", !.reason = "recycle",
                                  !.at = jobs, !.prior = prior]
    BY <2>2 DEF SupervisionInv, Shape
  <2>3. CASE loop' = [loop EXCEPT !.pc = "sleep", !.prior = prior]
    BY <2>3 DEF SupervisionInv, Shape
  <2>4. QED
    BY <1>3, <2>1, <2>2, <2>3
<1>5. QED
  BY <1>1, <1>4 DEF SupervisionInv, Shape, StreakIsEarned, HoldIsFinal

LEMMA StepInv == SupervisionInv /\ [Next]_vars => SupervisionInv'
<1> SUFFICES ASSUME SupervisionInv, [Next]_vars PROVE SupervisionInv'
  OBVIOUS
<1>1. CASE Tick
  BY <1>1, TickStep
<1>2. CASE LoopStep
  BY <1>2, AssessStep, BeginStep, FinishStep, AfterStep DEF LoopStep
<1>3. CASE RunEnds
  BY <1>3 DEF RunEnds, history, SupervisionInv, Shape, StreakIsEarned, HoldIsFinal
<1>4. CASE Resume
  BY <1>4 DEF Resume, FreshSupervisor, FreshLoop,
              SupervisionInv, Shape, StreakIsEarned, HoldIsFinal
<1>5. CASE JobDone \/ WorkerSeesTrip \/ ComfyAnswers \/ ComfyFails \/ UNCHANGED vars
  <2>1. UNCHANGED <<sup, loop, badRun>>
    BY <1>5 DEF JobDone, WorkerSeesTrip, ComfyAnswers, ComfyFails, vars, history
  <2>2. QED
    BY <2>1 DEF SupervisionInv, Shape, StreakIsEarned, HoldIsFinal
<1>6. QED
  BY <1>1, <1>2, <1>3, <1>4, <1>5 DEF Next

LEMMA Invariance == Spec => []SupervisionInv
BY InitInv, StepInv, PTL DEF Spec

-----------------------------------------------------------------------------
\* Hysteresis: tick restarts ComfyUI for a run of bad verdicts only.
THEOREM OneSampleNeverRestarts == Spec => []NeverOnOneSample
<1>1. SupervisionInv => NeverOnOneSample
  BY SupervisionAssumption
     DEF SupervisionInv, Shape, StreakIsEarned, NeverOnOneSample
<1>2. QED
  BY <1>1, Invariance, PTL

\* A supervisor on hold neither is in a restart nor begins one.
THEOREM HoldStopsRestarts == Spec => []HoldIsFinal
<1>1. SupervisionInv => HoldIsFinal
  BY DEF SupervisionInv
<1>2. QED
  BY <1>1, Invariance, PTL
-----------------------------------------------------------------------------
(* Lists of ages.  A time that is appended is the youngest, and all grow   *)
(* old together: the oldest come first.                                    *)

Ages(times) ==
  /\ times \in Seq(Nat)
  /\ \A i, j \in 1 .. Len(times) : i <= j => times[j] <= times[i]

\* The age before which k younger ones are listed.
Back(times, k) == times[Len(times) - k]

LEMMA Least ==
  ASSUME NEW T \in SUBSET Nat, T # {}
  PROVE  \E n \in T : \A m \in T : n <= m
<1>1. PICK n \in T : \A m \in T : ~ (<<m, n>> \in OpToRel(<, Nat))
  BY NatLessThanWellFounded, WFMin, Zenon
<1>2. ASSUME NEW m \in T PROVE n <= m
  <2>1. <<m, n>> \notin OpToRel(<, Nat)
    BY <1>1
  <2>2. OpToRel(<, Nat) = {pair \in Nat \X Nat : pair[1] < pair[2]}
    BY DEF OpToRel
  <2>3. ~ (m < n)
    BY <2>1, <2>2
  <2>4. QED
    BY <2>3
<1>3. QED
  BY <1>2

LEMMA BackInOrder ==
  ASSUME NEW times, Ages(times)
  PROVE  /\ Len(times) \in Nat
         /\ \A k \in Nat : k < Len(times) => Back(times, k) \in Nat
         /\ \A j, k \in Nat : j <= k /\ k < Len(times) =>
              Back(times, j) <= Back(times, k)
<1>1. Len(times) \in Nat
  BY DEF Ages
<1>2. ASSUME NEW k \in Nat, k < Len(times)
      PROVE  Len(times) - k \in 1 .. Len(times)
  BY <1>1, <1>2
<1>3. \A k \in Nat : k < Len(times) => Back(times, k) \in Nat
  BY <1>2 DEF Ages, Back
<1>4. ASSUME NEW j \in Nat, NEW k \in Nat, j <= k, k < Len(times)
      PROVE  Back(times, j) <= Back(times, k)
  <2>1. /\ Len(times) - j \in 1 .. Len(times)
        /\ Len(times) - k \in 1 .. Len(times)
        /\ Len(times) - k <= Len(times) - j
    BY <1>1, <1>4
  <2>2. QED
    BY <2>1 DEF Ages, Back
<1>5. QED
  BY <1>1, <1>3, <1>4

LEMMA BackEmpty == Ages(<<>>) /\ Len(<<>>) = 0
BY DEF Ages

LEMMA BackOlder ==
  ASSUME NEW times, Ages(times), NEW limit \in Nat
  PROVE  /\ Ages(OlderUpTo(times, limit))
         /\ Len(OlderUpTo(times, limit)) = Len(times)
         /\ \A k \in Nat : k < Len(times) =>
              Back(OlderUpTo(times, limit), k) =
                IF Back(times, k) < limit THEN Back(times, k) + 1 ELSE limit
<1> DEFINE older == OlderUpTo(times, limit)
<1>1. /\ times \in Seq(Nat) /\ Len(times) \in Nat
      /\ DOMAIN times = 1 .. Len(times)
      /\ \A i \in 1 .. Len(times) : times[i] \in Nat
  BY DEF Ages
<1>2. /\ older \in Seq(Nat) /\ Len(older) = Len(times)
      /\ \A i \in 1 .. Len(times) :
           older[i] = IF times[i] < limit THEN times[i] + 1 ELSE limit
  BY <1>1 DEF OlderUpTo
<1>3. Ages(older)
  <2>1. ASSUME NEW i \in 1 .. Len(times), NEW j \in 1 .. Len(times), i <= j
        PROVE  older[j] <= older[i]
    <3>1. times[j] <= times[i] /\ times[i] \in Nat /\ times[j] \in Nat
      BY <1>1, <2>1 DEF Ages
    <3>2. QED
      BY <1>2, <3>1
  <2>2. QED
    BY <1>2, <2>1 DEF Ages
<1>4. ASSUME NEW k \in Nat, k < Len(times)
      PROVE  Back(older, k) =
               IF Back(times, k) < limit THEN Back(times, k) + 1 ELSE limit
  <2>1. Len(times) - k \in 1 .. Len(times)
    BY <1>1, <1>4
  <2>2. QED
    BY <1>2, <2>1 DEF Back
<1>5. QED
  BY <1>2, <1>3, <1>4

LEMMA BackAppend ==
  ASSUME NEW times, Ages(times)
  PROVE  /\ Ages(Append(times, 0))
         /\ Len(Append(times, 0)) = Len(times) + 1
         /\ Back(Append(times, 0), 0) = 0
         /\ \A k \in Nat : k < Len(times) =>
              Back(Append(times, 0), k + 1) = Back(times, k)
<1> DEFINE longer == Append(times, 0)
<1>1. /\ times \in Seq(Nat) /\ Len(times) \in Nat
      /\ \A i \in 1 .. Len(times) : times[i] \in Nat
  BY DEF Ages
<1>2. /\ longer \in Seq(Nat) /\ Len(longer) = Len(times) + 1
      /\ \A i \in 1 .. Len(times) : longer[i] = times[i]
      /\ longer[Len(times) + 1] = 0
  BY <1>1
<1>3. Ages(longer)
  <2>1. ASSUME NEW i \in 1 .. Len(times) + 1, NEW j \in 1 .. Len(times) + 1, i <= j
        PROVE  longer[j] <= longer[i]
    <3>1. CASE j = Len(times) + 1
      BY <1>1, <1>2, <3>1
    <3>2. CASE j # Len(times) + 1
      <4>1. i \in 1 .. Len(times) /\ j \in 1 .. Len(times)
        BY <1>1, <2>1, <3>2
      <4>2. QED
        BY <1>2, <2>1, <4>1 DEF Ages
    <3>3. QED
      BY <3>1, <3>2
  <2>2. QED
    BY <1>2, <2>1 DEF Ages
<1>4. Back(longer, 0) = 0
  BY <1>1, <1>2 DEF Back
<1>5. ASSUME NEW k \in Nat, k < Len(times) PROVE Back(longer, k + 1) = Back(times, k)
  <2>1. /\ Len(times) - k \in 1 .. Len(times)
        /\ Len(longer) - (k + 1) = Len(times) - k
    BY <1>1, <1>2, <1>5
  <2>2. QED
    BY <1>2, <2>1 DEF Back
<1>6. QED
  BY <1>2, <1>3, <1>4, <1>5

\* The ages at or above a limit are a prefix of the list.
LEMMA OldPrefix ==
  ASSUME NEW times, Ages(times), NEW limit \in Nat
  PROVE  \E n \in 0 .. Len(times) :
           {i \in DOMAIN times : times[i] >= limit} = 1 .. n
<1> DEFINE young == {i \in 1 .. Len(times) : times[i] < limit}
           old == {i \in DOMAIN times : times[i] >= limit}
<1>1. /\ times \in Seq(Nat) /\ Len(times) \in Nat
      /\ DOMAIN times = 1 .. Len(times)
      /\ \A i \in 1 .. Len(times) : times[i] \in Nat
  BY DEF Ages
<1>2. CASE young = {}
  <2>1. old = 1 .. Len(times)
    BY <1>1, <1>2
  <2>2. QED
    BY <1>1, <2>1
<1>3. CASE young # {}
  <2>1. young \in SUBSET Nat
    BY <1>1
  <2>2. PICK first \in young : \A i \in young : first <= i
    BY <1>3, <2>1, Least
  <2>3. ASSUME NEW i \in 1 .. Len(times) PROVE times[i] >= limit <=> i < first
    <3>1. i \in young \/ times[i] >= limit
      BY <1>1
    <3>2. i \in Nat /\ first \in Nat /\ times[i] \in Nat /\ times[first] \in Nat
      BY <1>1
    <3>3. first <= i => times[i] <= times[first]
      BY <1>1 DEF Ages
    <3>4. times[first] < limit
      OBVIOUS
    <3>5. i \in young => times[i] < limit /\ first <= i
      BY <2>2
    <3>6. QED
      BY <3>1, <3>2, <3>3, <3>4, <3>5
  <2>4. first \in 1 .. Len(times)
    OBVIOUS
  <2>5. old = 1 .. (first - 1)
    <3>1. ASSUME NEW i PROVE i \in old <=> i \in 1 .. (first - 1)
      <4>1. i \in old <=> i \in 1 .. Len(times) /\ i < first
        BY <1>1, <2>3
      <4>2. QED
        BY <1>1, <2>4, <4>1
    <3>2. QED
      BY <3>1
  <2>6. first - 1 \in 0 .. Len(times)
    BY <1>1, <2>4
  <2>7. QED
    BY <2>5, <2>6
<1>4. QED
  BY <1>2, <1>3

LEMMA BackYounger ==
  ASSUME NEW times, Ages(times), NEW limit \in Nat
  PROVE  /\ Ages(Younger(times, limit))
         /\ Len(Younger(times, limit)) <= Len(times)
         /\ \A k \in Nat : k < Len(Younger(times, limit)) =>
              /\ Back(Younger(times, limit), k) = Back(times, k)
              /\ Back(times, k) < limit
         /\ \A k \in Nat : k < Len(times) /\ Back(times, k) < limit =>
              k < Len(Younger(times, limit))
<1> DEFINE kept == Younger(times, limit)
<1>1. /\ times \in Seq(Nat) /\ Len(times) \in Nat
      /\ DOMAIN times = 1 .. Len(times)
      /\ \A i \in 1 .. Len(times) : times[i] \in Nat
  BY DEF Ages
<1>2. PICK n \in 0 .. Len(times) :
        {i \in DOMAIN times : times[i] >= limit} = 1 .. n
  BY OldPrefix
<1>3. Cardinality(1 .. n) = n
  BY <1>1, <1>2, FS_Interval
<1>4. kept = SubSeq(times, 1 + n, Len(times))
  BY <1>2, <1>3, Zenon DEF Younger
<1>5. /\ kept \in Seq(Nat) /\ Len(kept) = Len(times) - n
      /\ \A i \in 1 .. (Len(times) - n) : kept[i] = times[n + i]
  <2>1. \A i \in 1 + n .. Len(times) : times[i] \in Nat
    BY <1>1, <1>2
  <2>2. /\ SubSeq(times, 1 + n, Len(times)) \in Seq(Nat)
        /\ Len(SubSeq(times, 1 + n, Len(times)))
             = IF 1 + n <= Len(times) THEN Len(times) - (1 + n) + 1 ELSE 0
        /\ \A i \in 1 .. Len(times) - (1 + n) + 1 :
             SubSeq(times, 1 + n, Len(times))[i] = times[(1 + n) + i - 1]
    <3>1. 1 + n \in Int /\ Len(times) \in Int
      BY <1>1, <1>2
    <3>2. QED
      BY <2>1, <3>1, SubSeqProperties
  <2>3. /\ Len(kept) = Len(times) - n /\ kept \in Seq(Nat)
        /\ Len(times) - (1 + n) + 1 = Len(times) - n
    <3>1. /\ Len(times) - (1 + n) + 1 = Len(times) - n
          /\ 1 + n <= Len(times) \/ Len(times) - n = 0
      <4>1. n \in Nat /\ n <= Len(times) /\ Len(times) \in Nat
        BY <1>1
      <4>2. QED
        BY <4>1
    <3>2. QED
      BY <1>4, <2>2, <3>1
  <2>4. ASSUME NEW i \in 1 .. (Len(times) - n) PROVE kept[i] = times[n + i]
    <3>1. kept[i] = times[(1 + n) + i - 1]
      BY <1>4, <2>2, <2>3
    <3>2. (1 + n) + i - 1 = n + i
      BY <1>1, <1>2
    <3>3. QED
      BY <3>1, <3>2
  <2>5. QED
    BY <2>3, <2>4
<1>6. Ages(kept)
  <2>1. ASSUME NEW i \in 1 .. Len(kept), NEW j \in 1 .. Len(kept), i <= j
        PROVE  kept[j] <= kept[i]
    <3>1. /\ n + i \in 1 .. Len(times) /\ n + j \in 1 .. Len(times)
          /\ n + i <= n + j
      BY <1>1, <1>2, <1>5, <2>1
    <3>2. QED
      BY <1>5, <3>1 DEF Ages
  <2>2. QED
    BY <1>5, <2>1 DEF Ages
<1>7. \A i \in 1 .. Len(times) : times[i] >= limit <=> i <= n
  BY <1>1, <1>2
<1>8. ASSUME NEW k \in Nat, k < Len(kept)
      PROVE  Back(kept, k) = Back(times, k) /\ Back(times, k) < limit
  <2>1. /\ Len(kept) - k \in 1 .. (Len(times) - n)
        /\ n + (Len(kept) - k) = Len(times) - k
        /\ Len(times) - k \in 1 .. Len(times)
        /\ ~(Len(times) - k <= n)
    BY <1>1, <1>2, <1>5, <1>8
  <2>2. kept[Len(kept) - k] = times[Len(times) - k]
    BY <1>5, <2>1
  <2>3. times[Len(times) - k] < limit
    <3>1. /\ times[Len(times) - k] \in Nat /\ limit \in Nat
          /\ ~(times[Len(times) - k] >= limit)
      <4>1. PICK i \in 1 .. Len(times) : i = Len(times) - k
        BY <2>1
      <4>2. ~(i <= n)
        BY <2>1, <4>1
      <4>3. times[i] \in Nat /\ ~(times[i] >= limit)
        BY <1>1, <1>7, <4>1, <4>2, Zenon
      <4>4. QED
        BY <4>1, <4>3
    <3>2. QED
      BY <3>1
  <2>4. QED
    BY <2>2, <2>3 DEF Back
<1>9. ASSUME NEW k \in Nat, k < Len(times), Back(times, k) < limit
      PROVE  k < Len(kept)
  <2>1. Len(times) - k \in 1 .. Len(times)
    BY <1>1, <1>9
  <2>2. ~(Len(times) - k <= n)
    BY <1>1, <1>7, <1>9, <2>1 DEF Back
  <2>3. QED
    BY <1>1, <1>2, <1>5, <2>2
<1>10. QED
  BY <1>1, <1>2, <1>5, <1>6, <1>8, <1>9


-----------------------------------------------------------------------------
(* The ceiling.                                                            *)

Lists ==
  /\ Ages(log) /\ Ages(sup.restarts) /\ Ages(crash.times)
  /\ crash = [times |-> crash.times, tripped |-> crash.tripped]
  /\ loop.prior \in Nat

\* The supervisor forgets no restart that is still in the window, and begins
\* none that would be one too many.
Remembered ==
  \A k \in 0 .. Len(log) - 1 : Back(log, k) < Window =>
    /\ k < Len(sup.restarts) /\ Back(sup.restarts, k) = Back(log, k)
    /\ k < MaxRestarts

RoomForOne == loop.pc = "backoff" => Len(sup.restarts) < MaxRestarts

CeilingInv == Lists /\ Remembered /\ RoomForOne

-----------------------------------------------------------------------------
(* What trips the global breaker.                                          *)

\* Is there a restart that the loop has not looked at?
Unseen == IF Len(sup.restarts) > loop.prior THEN 1 ELSE 0

\* Every crash that still counts is a restart of its own, counted a tick late
\* at most.
Matched ==
  \A k \in 0 .. Len(crash.times) - 1 : Back(crash.times, k) <= CrashWindow =>
    /\ k + Unseen < Len(log)
    /\ Back(log, k + Unseen) <= Back(crash.times, k) + 1

\* A restart is looked at after the next tick, which begins with no streak and
\* so cannot be another restart's first.
Fresh ==
  Unseen = 1 =>
    /\ Len(log) > 0
    /\ loop.pc \in {"sleep", "wake", "after", "exited"}
    /\ loop.pc \in {"sleep", "wake"} => sup.streak = 0
    /\ loop.pc = "sleep" => Back(log, 0) = 0
    /\ loop.pc \in {"wake", "after"} => Back(log, 0) <= 1

TrickleInv == Matched /\ Fresh


-----------------------------------------------------------------------------
(* What the steps do to the lists.                                         *)

LEMMA Sizes ==
  /\ Window \in Nat /\ CrashWindow \in Nat /\ CrashWindow + 1 \in Nat
  /\ MaxRestarts \in Nat /\ BackoffCap \in Nat /\ HysteresisN \in Nat
  /\ CrashThreshold \in Nat \ {0}
  /\ Horizon \in Nat /\ Horizon >= 2
  /\ Horizon >= Window /\ Horizon >= CrashWindow + BackoffCap + 2
BY SupervisionAssumption DEF Horizon

\* A tick ages every list; the log drops what no window looks at.
LEMMA TickForm ==
  ASSUME Shape, Lists, Tick
  PROVE  /\ log' = Younger(OlderUpTo(log, Horizon), Horizon)
         /\ sup'.restarts = OlderUpTo(sup.restarts, Window)
         /\ sup'.streak = sup.streak
         /\ crash' = [times |-> OlderUpTo(crash.times, CrashWindow + 1),
                      tripped |-> crash.tripped]
         /\ loop'.prior = loop.prior
         /\ \/ loop.pc = "sleep" /\ loop'.pc = "wake"
            \/ loop.pc = "backoff" /\ loop'.pc = "backoff"
<1>1. /\ loop'.prior = loop.prior
      /\ \/ loop.pc = "sleep" /\ loop'.pc = "wake"
         \/ loop.pc = "backoff" /\ loop'.pc = "backoff"
  BY DEF Tick, Shape
<1>2. /\ sup'.restarts = OlderUpTo(sup.restarts, Window)
      /\ sup'.streak = sup.streak
  BY DEF Tick, Shape
<1>3. crash' = [times |-> OlderUpTo(crash.times, CrashWindow + 1),
                tripped |-> crash.tripped]
  BY DEF Tick, Lists
<1>4. QED
  BY <1>1, <1>2, <1>3 DEF Tick

\* The list of an ageing log, seen from its young end.
LEMMA LogAges ==
  ASSUME Lists, log' = Younger(OlderUpTo(log, Horizon), Horizon)
  PROVE  /\ Ages(log') /\ Len(log') \in Nat /\ Len(log') <= Len(log)
         /\ \A k \in Nat : k < Len(log') => Back(log', k) = Back(log, k) + 1
         /\ \A k \in Nat : k < Len(log) /\ Back(log, k) + 1 < Horizon => k < Len(log')
<1> DEFINE older == OlderUpTo(log, Horizon)
<1>1. /\ Ages(older) /\ Len(older) = Len(log)
      /\ \A k \in Nat : k < Len(log) =>
           Back(older, k) = IF Back(log, k) < Horizon THEN Back(log, k) + 1 ELSE Horizon
  BY BackOlder, Sizes DEF Lists
<1>2. /\ Len(log) \in Nat
      /\ \A k \in Nat : k < Len(log) => Back(log, k) \in Nat
  BY BackInOrder DEF Lists
<1> HIDE DEF older
<1>3. /\ Ages(log') /\ Len(log') <= Len(older)
      /\ \A k \in Nat : k < Len(log') =>
           Back(log', k) = Back(older, k) /\ Back(older, k) < Horizon
      /\ \A k \in Nat : k < Len(older) /\ Back(older, k) < Horizon => k < Len(log')
  <2>1. log' = Younger(older, Horizon)
    BY DEF older
  <2>2. QED
    BY <1>1, <2>1, BackYounger, Sizes
<1>4. Len(log') \in Nat
  BY <1>3, BackInOrder
<1>5. ASSUME NEW k \in Nat, k < Len(log') PROVE Back(log', k) = Back(log, k) + 1
  <2>1. k < Len(log)
    BY <1>1, <1>2, <1>3, <1>4, <1>5
  <2>2. /\ Back(log', k) = Back(older, k) /\ Back(older, k) < Horizon
        /\ Back(older, k) = IF Back(log, k) < Horizon THEN Back(log, k) + 1 ELSE Horizon
        /\ Back(log, k) \in Nat
    BY <1>1, <1>2, <1>3, <1>5, <2>1
  <2>3. QED
    BY <2>2, Sizes
<1>6. ASSUME NEW k \in Nat, k < Len(log), Back(log, k) + 1 < Horizon PROVE k < Len(log')
  <2>1. /\ Back(older, k) = IF Back(log, k) < Horizon THEN Back(log, k) + 1 ELSE Horizon
        /\ Back(log, k) \in Nat
    BY <1>1, <1>2, <1>6
  <2>2. Back(older, k) < Horizon
    BY <1>6, <2>1, Sizes
  <2>3. QED
    BY <1>1, <1>3, <1>6, <2>2
<1>7. QED
  BY <1>1, <1>3, <1>4, <1>5, <1>6

\* restart() before its backoff keeps what is in the window.
LEMMA BeginForm ==
  ASSUME Shape, Lists, BeginRestart
  PROVE  /\ log' = log /\ crash' = crash /\ loop'.prior = loop.prior
         /\ loop.pc = "restart" /\ loop'.pc \in {"sleep", "after", "backoff"}
         /\ sup'.restarts = sup.restarts \/ sup'.restarts = InWindow(sup.restarts)
         /\ loop'.pc = "backoff" => ~AtCeiling(sup'.restarts)
<1>1. log' = log /\ crash' = crash /\ loop.pc = "restart"
  BY DEF BeginRestart
<1>2. ReturnsTo \in {"sleep", "after"}
  BY DEF ReturnsTo
<1>3. CASE /\ OnHold
           /\ sup' = [sup EXCEPT !.streak = StreakOnReturn]
           /\ loop' = [loop EXCEPT !.pc = ReturnsTo]
  <2>1. /\ loop'.prior = loop.prior /\ loop'.pc = ReturnsTo
        /\ sup'.restarts = sup.restarts
    BY <1>3 DEF Shape
  <2>2. QED
    BY <1>1, <1>2, <2>1
<1>4. CASE /\ sup' = [streak |-> StreakOnReturn,
                      restarts |-> InWindow(sup.restarts), held |-> TRUE]
           /\ loop' = [loop EXCEPT !.pc = ReturnsTo]
  <2>1. /\ loop'.prior = loop.prior /\ loop'.pc = ReturnsTo
        /\ sup'.restarts = InWindow(sup.restarts)
    BY <1>4 DEF Shape
  <2>2. QED
    BY <1>1, <1>2, <2>1
<1>5. CASE /\ ~AtCeiling(InWindow(sup.restarts))
           /\ sup' = [sup EXCEPT !.restarts = InWindow(sup.restarts)]
           /\ loop' = [loop EXCEPT !.pc = "backoff",
                                   !.wait = Delay(Len(InWindow(sup.restarts)))]
  <2>1. /\ loop'.prior = loop.prior /\ loop'.pc = "backoff"
        /\ sup'.restarts = InWindow(sup.restarts)
    BY <1>5 DEF Shape
  <2>2. QED
    BY <1>1, <1>5, <2>1
<1>6. QED
  BY <1>3, <1>4, <1>5, Zenon DEF BeginRestart

\* A restart is entered in the supervisor's list and in the log.
LEMMA FinishForm ==
  ASSUME Shape, FinishRestart
  PROVE  /\ log' = Append(log, 0) /\ crash' = crash /\ loop'.prior = loop.prior
         /\ loop.pc = "backoff" /\ loop'.pc \in {"sleep", "after"}
         /\ sup'.restarts = Append(sup.restarts, 0) /\ sup'.streak = 0
<1>1. /\ sup' = [sup EXCEPT !.streak = 0, !.restarts = Append(sup.restarts, 0)]
      /\ loop' = [loop EXCEPT !.pc = ReturnsTo]
      /\ log' = Append(log, 0) /\ crash' = crash /\ loop.pc = "backoff"
  BY DEF FinishRestart
<1>2. QED
  BY <1>1 DEF Shape, ReturnsTo

\* The loop looks at the restarts: a crash at most, and the highest count yet.
LEMMA AfterForm ==
  ASSUME Shape, Lists, AfterTick
  PROVE  /\ UNCHANGED <<sup, log>> /\ loop.pc = "after"
         /\ loop'.pc \in {"exited", "restart", "sleep"}
         /\ \/ /\ Len(sup.restarts) > loop.prior
               /\ crash' = CrashRecorded(crash)
               /\ loop'.prior = Len(sup.restarts)
            \/ /\ ~(Len(sup.restarts) > loop.prior)
               /\ crash' = crash
               /\ loop'.prior = loop.prior
<1>1. UNCHANGED <<sup, log>> /\ loop.pc = "after"
  BY DEF AfterTick
<1>2. ASSUME NEW prior, GoOn(prior)
      PROVE  loop'.prior = prior /\ loop'.pc \in {"exited", "restart", "sleep"}
  <2>1. \/ loop' = [loop EXCEPT !.pc = "exited", !.prior = prior]
        \/ loop' = [loop EXCEPT !.pc = "restart", !.reason = "recycle",
                                !.at = jobs, !.prior = prior]
        \/ loop' = [loop EXCEPT !.pc = "sleep", !.prior = prior]
    BY <1>2 DEF GoOn
  <2>2. QED
    BY <2>1 DEF Shape
<1>3. CASE Len(sup.restarts) > loop.prior
  <2>1. crash' = CrashRecorded(crash) /\ GoOn(Len(sup.restarts))
    BY <1>3 DEF AfterTick
  <2>2. QED
    BY <1>1, <1>2, <1>3, <2>1
<1>4. CASE ~(Len(sup.restarts) > loop.prior)
  <2>1. crash' = crash /\ GoOn(loop.prior)
    BY <1>4 DEF AfterTick
  <2>2. QED
    BY <1>1, <1>2, <1>4, <2>1
<1>5. QED
  BY <1>3, <1>4

\* The other steps leave the lists alone, or, in a new process, empty.
LEMMA RestForm ==
  ASSUME Shape, Assess \/ LaunchRaises \/ RunEnds \/ JobDone \/ WorkerSeesTrip
                \/ ComfyAnswers \/ ComfyFails \/ UNCHANGED vars
  PROVE  /\ log' = log /\ crash' = crash /\ sup'.restarts = sup.restarts
         /\ loop'.prior = loop.prior
         /\ loop'.pc = "backoff" => loop.pc = "backoff"
<1>1. CASE Assess
  <2>1. log' = log /\ crash' = crash
    BY <1>1 DEF Assess
  <2>2. CASE stop
    <3>1. loop' = [loop EXCEPT !.pc = "exited"] /\ sup' = sup
      BY <1>1, <2>2 DEF Assess
    <3>2. QED
      BY <2>1, <3>1 DEF Shape
  <2>3. CASE ~stop
    <3>1. PICK verdict \in Verdicts :
            /\ sup' = [sup EXCEPT !.streak = StreakAfter(verdict)]
            /\ loop' = IF StreakAfter(verdict) >= HysteresisN
                       THEN [loop EXCEPT !.pc = "restart", !.reason = "verdict"]
                       ELSE [loop EXCEPT !.pc = "after"]
      BY <1>1, <2>3, Zenon DEF Assess
    <3>2. sup'.restarts = sup.restarts
      BY <3>1 DEF Shape
    <3>3. loop'.prior = loop.prior /\ loop'.pc \in {"restart", "after"}
      BY <3>1 DEF Shape
    <3>4. QED
      BY <2>1, <3>2, <3>3
  <2>4. QED
    BY <2>2, <2>3
<1>2. CASE LaunchRaises
  <2>1. /\ log' = log /\ crash' = crash /\ sup' = sup
        /\ \/ loop' = [loop EXCEPT !.pc = "sleep"]
           \/ loop' = [loop EXCEPT !.pc = "lost"]
    BY <1>2 DEF LaunchRaises, history
  <2>2. QED
    BY <2>1 DEF Shape
<1>3. CASE RunEnds
  <2>1. /\ log' = log /\ crash' = crash /\ sup' = sup
        /\ loop' = [loop EXCEPT !.pc = "exited"]
    BY <1>3 DEF RunEnds, history
  <2>2. QED
    BY <2>1 DEF Shape
<1>4. CASE JobDone \/ WorkerSeesTrip \/ ComfyAnswers \/ ComfyFails \/ UNCHANGED vars
  BY <1>4 DEF JobDone, WorkerSeesTrip, ComfyAnswers, ComfyFails, vars, history
<1>5. QED
  BY <1>1, <1>2, <1>3, <1>4

LEMMA ResumeForm ==
  ASSUME Resume
  PROVE  /\ log' = <<>> /\ sup'.restarts = <<>> /\ sup'.streak = 0
         /\ crash' = [times |-> <<>>, tripped |-> FALSE]
         /\ loop'.prior = 0 /\ loop'.pc = "sleep"
BY DEF Resume, FreshSupervisor, FreshLoop, FreshBreaker


-----------------------------------------------------------------------------
(* The ceiling holds.                                                      *)

LEMMA CeilingInit == Init => CeilingInv
<1> SUFFICES ASSUME Init PROVE CeilingInv
  OBVIOUS
<1>1. Lists
  BY BackEmpty DEF Init, Lists, FreshSupervisor, FreshLoop, FreshBreaker
<1>2. Remembered
  BY BackEmpty DEF Init, Remembered
<1>3. RoomForOne
  BY DEF Init, RoomForOne, FreshLoop
<1>4. QED
  BY <1>1, <1>2, <1>3 DEF CeilingInv

LEMMA TickKeepsCeiling == Shape /\ CeilingInv /\ Tick => CeilingInv'
<1> SUFFICES ASSUME Shape, CeilingInv, Tick PROVE CeilingInv'
  OBVIOUS
<1>1. Lists /\ Remembered /\ RoomForOne
  BY DEF CeilingInv
<1>2. /\ log' = Younger(OlderUpTo(log, Horizon), Horizon)
      /\ sup'.restarts = OlderUpTo(sup.restarts, Window)
      /\ crash' = [times |-> OlderUpTo(crash.times, CrashWindow + 1),
                   tripped |-> crash.tripped]
      /\ loop'.prior = loop.prior
      /\ loop'.pc = "backoff" => loop.pc = "backoff"
  BY <1>1, TickForm
<1>3. /\ Ages(log') /\ Len(log') \in Nat /\ Len(log) \in Nat /\ Len(log') <= Len(log)
      /\ \A k \in Nat : k < Len(log') => Back(log', k) = Back(log, k) + 1
      /\ \A k \in Nat : k < Len(log) => Back(log, k) \in Nat
  BY <1>1, <1>2, LogAges, BackInOrder DEF Lists
<1>4. /\ Ages(sup'.restarts) /\ Len(sup'.restarts) = Len(sup.restarts)
      /\ \A k \in Nat : k < Len(sup.restarts) =>
           Back(sup'.restarts, k) =
             IF Back(sup.restarts, k) < Window THEN Back(sup.restarts, k) + 1 ELSE Window
  <2>1. Ages(sup.restarts) /\ Window \in Nat
    BY <1>1, Sizes DEF Lists
  <2>2. /\ Ages(OlderUpTo(sup.restarts, Window))
        /\ Len(OlderUpTo(sup.restarts, Window)) = Len(sup.restarts)
    BY <2>1, BackOlder
  <2>3. ASSUME NEW k \in Nat, k < Len(sup.restarts)
        PROVE  Back(OlderUpTo(sup.restarts, Window), k) =
                 IF Back(sup.restarts, k) < Window THEN Back(sup.restarts, k) + 1 ELSE Window
    BY <2>1, <2>3, BackOlder
  <2>4. QED
    BY <1>2, <2>2, <2>3
<1>5. Ages(crash'.times)
  BY <1>1, <1>2, BackOlder, Sizes DEF Lists
<1>6. Lists'
  BY <1>1, <1>2, <1>3, <1>4, <1>5 DEF Lists
<1>7. ASSUME NEW k \in 0 .. Len(log') - 1, Back(log', k) < Window
      PROVE  /\ k < Len(sup'.restarts) /\ Back(sup'.restarts, k) = Back(log', k)
             /\ k < MaxRestarts
  <2>1. /\ k \in 0 .. Len(log) - 1 /\ k \in Nat /\ k < Len(log') /\ k < Len(log)
    BY <1>3
  <2>2. Back(log', k) = Back(log, k) + 1 /\ Back(log, k) \in Nat
    BY <1>3, <2>1
  <2>3. Back(log, k) < Window
    BY <1>7, <2>2, Sizes
  <2>4. /\ k < Len(sup.restarts) /\ Back(sup.restarts, k) = Back(log, k)
        /\ k < MaxRestarts
    BY <1>1, <2>1, <2>3 DEF Remembered
  <2>5. QED
    BY <1>4, <2>1, <2>2, <2>3, <2>4
<1>8. QED
  BY <1>1, <1>2, <1>4, <1>6, <1>7 DEF CeilingInv, Remembered, RoomForOne

LEMMA BeginKeepsCeiling == Shape /\ CeilingInv /\ BeginRestart => CeilingInv'
<1> SUFFICES ASSUME Shape, CeilingInv, BeginRestart PROVE CeilingInv'
  OBVIOUS
<1>1. Lists /\ Remembered
  BY DEF CeilingInv
<1>2. /\ log' = log /\ crash' = crash /\ loop'.prior = loop.prior
      /\ sup'.restarts = sup.restarts \/ sup'.restarts = InWindow(sup.restarts)
      /\ loop'.pc = "backoff" => ~AtCeiling(sup'.restarts)
  BY <1>1, BeginForm
<1>3. /\ Ages(sup'.restarts)
      /\ \A k \in Nat : k < Len(sup.restarts) /\ Back(sup.restarts, k) < Window =>
           /\ k < Len(sup'.restarts)
           /\ Back(sup'.restarts, k) = Back(sup.restarts, k)
  <2>1. CASE sup'.restarts = sup.restarts
    BY <1>1, <2>1 DEF Lists
  <2>2. CASE sup'.restarts = Younger(sup.restarts, Window)
    <3>1. Ages(sup.restarts) /\ Window \in Nat
      BY <1>1, Sizes DEF Lists
    <3>2. QED
      BY <2>2, <3>1, BackYounger, Zenon
  <2>3. QED
    BY <1>2, <2>1, <2>2 DEF InWindow
<1>4. Lists'
  BY <1>1, <1>2, <1>3 DEF Lists
<1>5. Len(log) \in Nat
  BY <1>1, BackInOrder DEF Lists
<1>6. Remembered'
  BY <1>1, <1>2, <1>3, <1>5 DEF Remembered
<1>7. RoomForOne'
  <2>1. Len(sup'.restarts) \in Nat
    BY <1>3, BackInOrder
  <2>2. QED
    BY <1>2, <2>1, Sizes DEF RoomForOne, AtCeiling
<1>8. QED
  BY <1>4, <1>6, <1>7 DEF CeilingInv

LEMMA FinishKeepsCeiling == Shape /\ CeilingInv /\ FinishRestart => CeilingInv'
<1> SUFFICES ASSUME Shape, CeilingInv, FinishRestart PROVE CeilingInv'
  OBVIOUS
<1>1. Lists /\ Remembered /\ RoomForOne
  BY DEF CeilingInv
<1>2. /\ log' = Append(log, 0) /\ crash' = crash /\ loop'.prior = loop.prior
      /\ loop.pc = "backoff" /\ loop'.pc \in {"sleep", "after"}
      /\ sup'.restarts = Append(sup.restarts, 0)
  BY FinishForm
<1>3. /\ Ages(log') /\ Len(log') = Len(log) + 1 /\ Len(log) \in Nat
      /\ Back(log', 0) = 0
      /\ \A k \in Nat : k < Len(log) => Back(log', k + 1) = Back(log, k)
  BY <1>1, <1>2, BackAppend, BackInOrder DEF Lists
<1>4. /\ Ages(sup'.restarts) /\ Len(sup'.restarts) = Len(sup.restarts) + 1
      /\ Len(sup.restarts) \in Nat /\ Back(sup'.restarts, 0) = 0
      /\ \A k \in Nat : k < Len(sup.restarts) =>
           Back(sup'.restarts, k + 1) = Back(sup.restarts, k)
  BY <1>1, <1>2, BackAppend, BackInOrder DEF Lists
<1>5. Lists'
  BY <1>1, <1>2, <1>3, <1>4 DEF Lists
<1>6. Len(sup.restarts) < MaxRestarts
  BY <1>1, <1>2 DEF RoomForOne
<1>7. ASSUME NEW k \in 0 .. Len(log') - 1, Back(log', k) < Window
      PROVE  /\ k < Len(sup'.restarts) /\ Back(sup'.restarts, k) = Back(log', k)
             /\ k < MaxRestarts
  <2>1. CASE k = 0
    BY <1>3, <1>4, <1>6, <2>1, Sizes
  <2>2. CASE k # 0
    <3>1. PICK j \in Nat : k = j + 1 /\ j < Len(log) /\ j \in 0 .. Len(log) - 1
      <4>1. k - 1 \in Nat /\ k = (k - 1) + 1 /\ k - 1 < Len(log)
        BY <1>3, <2>2
      <4>2. QED
        BY <1>3, <4>1
    <3>2. Back(log, j) < Window /\ Back(log', k) = Back(log, j)
      BY <1>3, <1>7, <3>1
    <3>3. j < Len(sup.restarts) /\ Back(sup.restarts, j) = Back(log, j)
      BY <1>1, <3>1, <3>2 DEF Remembered
    <3>4. Back(sup'.restarts, k) = Back(sup.restarts, j)
      BY <1>4, <3>1, <3>3
    <3>5. QED
      BY <1>4, <1>6, <3>1, <3>2, <3>3, <3>4, Sizes
  <2>3. QED
    BY <2>1, <2>2
<1>8. QED
  BY <1>2, <1>5, <1>7 DEF CeilingInv, Remembered, RoomForOne

LEMMA AfterKeepsCeiling == Shape /\ CeilingInv /\ AfterTick => CeilingInv'
<1> SUFFICES ASSUME Shape, CeilingInv, AfterTick PROVE CeilingInv'
  OBVIOUS
<1>1. Lists /\ Remembered /\ RoomForOne
  BY DEF CeilingInv
<1>2. /\ UNCHANGED <<sup, log>> /\ loop'.pc # "backoff"
      /\ crash' \in {crash, CrashRecorded(crash)}
      /\ loop'.prior \in {loop.prior, Len(sup.restarts)}
  BY <1>1, AfterForm
<1>3. loop'.prior \in Nat
  BY <1>1, <1>2, BackInOrder DEF Lists
<1>4. /\ Ages(crash'.times)
      /\ crash' = [times |-> crash'.times, tripped |-> crash'.tripped]
  <2>1. CASE crash' = crash
    BY <1>1, <2>1 DEF Lists
  <2>2. CASE /\ crash' = CrashRecorded(crash) /\ crash' # crash
    <3>1. /\ crash'.times = Append(Younger(crash.times, CrashWindow + 1), 0)
          /\ crash' = [times |-> crash'.times, tripped |-> crash'.tripped]
      BY <2>2 DEF CrashRecorded
    <3>2. QED
      BY <1>1, <3>1, BackYounger, BackAppend, Sizes DEF Lists
  <2>3. QED
    BY <1>2, <2>1, <2>2
<1>5. QED
  BY <1>1, <1>2, <1>3, <1>4 DEF CeilingInv, Lists, Remembered, RoomForOne

LEMMA CeilingStep == SupervisionInv /\ CeilingInv /\ [Next]_vars => CeilingInv'
<1> SUFFICES ASSUME SupervisionInv, CeilingInv, [Next]_vars PROVE CeilingInv'
  OBVIOUS
<1>1. Shape
  BY DEF SupervisionInv
<1>2. CASE Tick
  BY <1>1, <1>2, TickKeepsCeiling
<1>3. CASE BeginRestart
  BY <1>1, <1>3, BeginKeepsCeiling
<1>4. CASE FinishRestart
  BY <1>1, <1>4, FinishKeepsCeiling
<1>5. CASE AfterTick
  BY <1>1, <1>5, AfterKeepsCeiling
<1>6. CASE Assess \/ LaunchRaises \/ RunEnds \/ JobDone \/ WorkerSeesTrip
           \/ ComfyAnswers \/ ComfyFails \/ UNCHANGED vars
  <2>1. /\ log' = log /\ crash' = crash /\ sup'.restarts = sup.restarts
        /\ loop'.prior = loop.prior
        /\ loop'.pc = "backoff" => loop.pc = "backoff"
    BY <1>1, <1>6, RestForm
  <2>2. QED
    BY <2>1 DEF CeilingInv, Lists, Remembered, RoomForOne
<1>7. CASE Resume
  <2>1. /\ log' = <<>> /\ sup'.restarts = <<>>
        /\ crash' = [times |-> <<>>, tripped |-> FALSE]
        /\ loop'.prior = 0 /\ loop'.pc = "sleep"
    BY <1>7, ResumeForm
  <2>2. QED
    BY <2>1, BackEmpty DEF CeilingInv, Lists, Remembered, RoomForOne
<1>8. QED
  BY <1>2, <1>3, <1>4, <1>5, <1>6, <1>7 DEF Next, LoopStep

LEMMA CeilingHolds == Spec => []CeilingInv
BY Invariance, CeilingInit, CeilingStep, PTL DEF Spec

\* Restart intensity: at no time do more restarts than the ceiling lie within
\* the window, whatever asked for them.
THEOREM CeilingIsKept == Spec => []RestartIntensity
<1>1. CeilingInv => RestartIntensity
  <2> SUFFICES ASSUME CeilingInv PROVE RestartIntensity
    OBVIOUS
  <2>1. Len(log) \in Nat /\ log \in Seq(Nat) /\ DOMAIN log = 1 .. Len(log)
    BY BackInOrder DEF CeilingInv, Lists, Ages
  <2>2. ASSUME NEW i \in DOMAIN log, log[i] < Window
        PROVE  i \in Len(log) - MaxRestarts + 1 .. Len(log)
    <3>1. /\ Len(log) - i \in 0 .. Len(log) - 1 /\ i \in 1 .. Len(log)
          /\ Len(log) - (Len(log) - i) = i
      BY <2>1
    <3>2. Back(log, Len(log) - i) < Window
      BY <2>2, <3>1 DEF Back
    <3>3. Len(log) - i < MaxRestarts
      BY <3>1, <3>2 DEF CeilingInv, Remembered
    <3>4. QED
      BY <2>1, <3>1, <3>3, Sizes
  <2>3. RestartsWithin(Window) \subseteq Len(log) - MaxRestarts + 1 .. Len(log)
    BY <2>2 DEF RestartsWithin
  <2>4. /\ Len(log) - MaxRestarts + 1 \in Int /\ Len(log) \in Int
        /\ IF Len(log) - MaxRestarts + 1 > Len(log) THEN MaxRestarts = 0
           ELSE Len(log) - (Len(log) - MaxRestarts + 1) + 1 = MaxRestarts
    BY <2>1, Sizes
  <2>5. /\ IsFiniteSet(Len(log) - MaxRestarts + 1 .. Len(log))
        /\ Cardinality(Len(log) - MaxRestarts + 1 .. Len(log)) = MaxRestarts
    BY <2>4, FS_Interval
  <2>6. Cardinality(RestartsWithin(Window)) <= MaxRestarts
    BY <2>3, <2>5, FS_Subset
  <2>7. QED
    BY <2>6 DEF RestartIntensity
<1>2. QED
  BY <1>1, CeilingHolds, PTL


-----------------------------------------------------------------------------
(* A crash that counts is a recent restart.  With a hysteresis of one, a   *)
(* restart may follow another before the loop has looked at it.            *)

LEMMA TrickleInit == Init => TrickleInv
<1> SUFFICES ASSUME Init PROVE TrickleInv
  OBVIOUS
<1>1. Unseen = 0
  BY BackEmpty DEF Init, Unseen, FreshSupervisor, FreshLoop
<1>2. QED
  BY <1>1, BackEmpty DEF Init, TrickleInv, Matched, Fresh, FreshBreaker

LEMMA UnseenIs == Unseen \in {0, 1}
BY DEF Unseen

LEMMA TickKeepsTrickle == Shape /\ Lists /\ TrickleInv /\ Tick => TrickleInv'
<1> SUFFICES ASSUME Shape, Lists, TrickleInv, Tick PROVE TrickleInv'
  OBVIOUS
<1>1. /\ log' = Younger(OlderUpTo(log, Horizon), Horizon)
      /\ sup'.restarts = OlderUpTo(sup.restarts, Window)
      /\ sup'.streak = sup.streak
      /\ crash' = [times |-> OlderUpTo(crash.times, CrashWindow + 1),
                   tripped |-> crash.tripped]
      /\ loop'.prior = loop.prior
      /\ \/ loop.pc = "sleep" /\ loop'.pc = "wake"
         \/ loop.pc = "backoff" /\ loop'.pc = "backoff"
  BY TickForm
<1>2. /\ Len(log') \in Nat /\ Len(log') <= Len(log) /\ Len(log) \in Nat
      /\ \A k \in Nat : k < Len(log') => Back(log', k) = Back(log, k) + 1
      /\ \A k \in Nat : k < Len(log) /\ Back(log, k) + 1 < Horizon => k < Len(log')
      /\ \A k \in Nat : k < Len(log) => Back(log, k) \in Nat
  BY <1>1, LogAges, BackInOrder DEF Lists
<1>3. Len(sup'.restarts) = Len(sup.restarts)
  BY <1>1, BackOlder, Sizes DEF Lists
<1>4. Unseen' = Unseen
  BY <1>1, <1>3 DEF Unseen
<1>5. /\ Len(crash'.times) = Len(crash.times) /\ Len(crash.times) \in Nat
      /\ \A k \in Nat : k < Len(crash.times) => Back(crash.times, k) \in Nat
  BY <1>1, BackOlder, BackInOrder, Sizes DEF Lists
<1>6. ASSUME NEW k \in Nat, k < Len(crash.times)
      PROVE  Back(crash'.times, k) =
               IF Back(crash.times, k) < CrashWindow + 1 THEN Back(crash.times, k) + 1
               ELSE CrashWindow + 1
  <2>1. Ages(crash.times) /\ CrashWindow + 1 \in Nat
    BY Sizes DEF Lists
  <2>2. Back(OlderUpTo(crash.times, CrashWindow + 1), k) =
               IF Back(crash.times, k) < CrashWindow + 1 THEN Back(crash.times, k) + 1
               ELSE CrashWindow + 1
    BY <1>6, <2>1, BackOlder
  <2>3. QED
    BY <1>1, <2>2
<1>7. Matched'
  <2>1. ASSUME NEW k \in 0 .. Len(crash'.times) - 1, Back(crash'.times, k) <= CrashWindow
        PROVE  /\ k + Unseen < Len(log')
               /\ Back(log', k + Unseen) <= Back(crash'.times, k) + 1
    <3>1. /\ k \in Nat /\ k < Len(crash.times) /\ k \in 0 .. Len(crash.times) - 1
          /\ k + Unseen \in Nat
      BY <1>5, UnseenIs
    <3>2. /\ Back(crash'.times, k) = Back(crash.times, k) + 1
          /\ Back(crash.times, k) \in Nat /\ Back(crash.times, k) < CrashWindow
      BY <1>5, <1>6, <2>1, <3>1, Sizes
    <3>3. /\ k + Unseen < Len(log)
          /\ Back(log, k + Unseen) <= Back(crash.times, k) + 1
      BY <3>1, <3>2, Sizes DEF TrickleInv, Matched
    <3>4. Back(log, k + Unseen) \in Nat
      BY <1>2, <3>1, <3>3
    <3>5. Back(log, k + Unseen) + 1 < Horizon
      BY <3>2, <3>3, <3>4, Sizes
    <3>6. k + Unseen < Len(log')
      BY <1>2, <3>1, <3>3, <3>5
    <3>7. Back(log', k + Unseen) = Back(log, k + Unseen) + 1
      BY <1>2, <3>1, <3>6
    <3>8. QED
      BY <3>2, <3>3, <3>4, <3>6, <3>7
  <2>2. QED
    BY <1>4, <2>1 DEF Matched
<1>8. Fresh'
  <2>1. CASE Unseen = 1
    <3>1. /\ Len(log) > 0 /\ sup.streak = 0 /\ Back(log, 0) = 0
          /\ loop'.pc = "wake"
      BY <1>1, <2>1 DEF TrickleInv, Fresh
    <3>2. Len(log') > 0 /\ Back(log', 0) = 1
      <4>1. 0 \in Nat /\ 0 < Len(log) /\ Back(log, 0) + 1 < Horizon
        BY <3>1, Sizes
      <4>2. 0 < Len(log')
        BY <1>2, <4>1
      <4>3. QED
        BY <1>2, <3>1, <4>1, <4>2
    <3>3. QED
      BY <1>1, <3>1, <3>2 DEF Fresh
  <2>2. CASE Unseen # 1
    BY <1>4, <2>2 DEF Fresh
  <2>3. QED
    BY <2>1, <2>2
<1>9. QED
  BY <1>7, <1>8 DEF TrickleInv

LEMMA AssessKeepsTrickle ==
  HysteresisN > 1 /\ Shape /\ TrickleInv /\ Assess => TrickleInv'
<1> SUFFICES ASSUME HysteresisN > 1, Shape, TrickleInv, Assess PROVE TrickleInv'
  OBVIOUS
<1>1. /\ log' = log /\ crash' = crash /\ sup'.restarts = sup.restarts
      /\ loop'.prior = loop.prior
  BY RestForm
<1>2. Unseen' = Unseen
  BY <1>1 DEF Unseen
<1>3. Matched'
  BY <1>1, <1>2 DEF TrickleInv, Matched
<1>4. loop.pc = "wake"
  BY DEF Assess
<1>5. ASSUME Unseen = 1 PROVE loop'.pc \in {"after", "exited"}
  <2>1. sup.streak = 0
    BY <1>4, <1>5 DEF TrickleInv, Fresh
  <2>2. CASE stop
    <3>1. loop' = [loop EXCEPT !.pc = "exited"]
      BY <2>2 DEF Assess
    <3>2. QED
      BY <3>1 DEF Shape
  <2>3. CASE ~stop
    <3>1. PICK verdict \in Verdicts :
            loop' = IF StreakAfter(verdict) >= HysteresisN
                    THEN [loop EXCEPT !.pc = "restart", !.reason = "verdict"]
                    ELSE [loop EXCEPT !.pc = "after"]
      BY <2>3, Zenon DEF Assess
    <3>2. StreakAfter(verdict) \in {0, 1}
      BY <2>1, Sizes DEF StreakAfter, OneMore
    <3>3. ~(StreakAfter(verdict) >= HysteresisN)
      BY <3>2, Sizes
    <3>4. QED
      BY <3>1, <3>3 DEF Shape
  <2>4. QED
    BY <2>2, <2>3
<1>6. Fresh'
  BY <1>1, <1>2, <1>4, <1>5 DEF TrickleInv, Fresh
<1>7. QED
  BY <1>3, <1>6 DEF TrickleInv

LEMMA BeginKeepsTrickle == Shape /\ Lists /\ TrickleInv /\ BeginRestart => TrickleInv'
<1> SUFFICES ASSUME Shape, Lists, TrickleInv, BeginRestart PROVE TrickleInv'
  OBVIOUS
<1>1. /\ log' = log /\ crash' = crash /\ loop'.prior = loop.prior
      /\ loop.pc = "restart"
      /\ sup'.restarts = sup.restarts \/ sup'.restarts = InWindow(sup.restarts)
  BY BeginForm
<1>2. Unseen = 0
  BY <1>1, UnseenIs DEF TrickleInv, Fresh
<1>3. /\ Len(sup'.restarts) <= Len(sup.restarts)
      /\ Len(sup'.restarts) \in Nat /\ Len(sup.restarts) \in Nat
  <2>1. Ages(sup.restarts) /\ Window \in Nat
    BY Sizes DEF Lists
  <2>2. /\ Ages(Younger(sup.restarts, Window))
        /\ Len(Younger(sup.restarts, Window)) <= Len(sup.restarts)
    BY <2>1, BackYounger
  <2>3. QED
    BY <1>1, <2>1, <2>2, BackInOrder DEF InWindow
<1>4. Unseen' = 0
  BY <1>1, <1>2, <1>3 DEF Unseen, Lists
<1>5. QED
  BY <1>1, <1>2, <1>4 DEF TrickleInv, Matched, Fresh

LEMMA FinishKeepsTrickle == Shape /\ Lists /\ TrickleInv /\ FinishRestart => TrickleInv'
<1> SUFFICES ASSUME Shape, Lists, TrickleInv, FinishRestart PROVE TrickleInv'
  OBVIOUS
<1>1. /\ log' = Append(log, 0) /\ crash' = crash /\ loop'.prior = loop.prior
      /\ loop.pc = "backoff" /\ loop'.pc \in {"sleep", "after"}
      /\ sup'.restarts = Append(sup.restarts, 0) /\ sup'.streak = 0
  BY FinishForm
<1>2. Unseen = 0 /\ Unseen' \in {0, 1}
  BY <1>1, UnseenIs DEF TrickleInv, Fresh, Unseen
<1>3. /\ Len(log') = Len(log) + 1 /\ Len(log) \in Nat
      /\ Back(log', 0) = 0
      /\ \A k \in Nat : k < Len(log) => Back(log', k + 1) = Back(log, k)
      /\ \A k \in Nat : k < Len(log) => Back(log, k) \in Nat
      /\ \A j, k \in Nat : j <= k /\ k < Len(log) => Back(log, j) <= Back(log, k)
  BY <1>1, BackAppend, BackInOrder DEF Lists
<1>4. /\ Len(crash.times) \in Nat
      /\ \A k \in Nat : k < Len(crash.times) => Back(crash.times, k) \in Nat
  BY BackInOrder DEF Lists
<1>5. ASSUME NEW k \in 0 .. Len(crash.times) - 1, Back(crash.times, k) <= CrashWindow
      PROVE  /\ k + Unseen' < Len(log')
             /\ Back(log', k + Unseen') <= Back(crash.times, k) + 1
  <2>1. /\ k \in Nat /\ k < Len(log) /\ Back(log, k) <= Back(crash.times, k) + 1
        /\ Back(crash.times, k) \in Nat /\ Back(log, k) \in Nat
    BY <1>2, <1>3, <1>4, <1>5 DEF TrickleInv, Matched
  <2>2. CASE Unseen' = 1
    BY <1>3, <2>1, <2>2
  <2>3. CASE Unseen' = 0 /\ k = 0
    BY <1>3, <2>1, <2>3
  <2>4. CASE Unseen' = 0 /\ k # 0
    <3>1. k - 1 \in Nat /\ k - 1 < Len(log) /\ (k - 1) + 1 = k /\ k - 1 <= k
      BY <2>1, <2>4
    <3>2. Back(log', k) = Back(log, k - 1) /\ Back(log, k - 1) <= Back(log, k)
      BY <1>3, <2>1, <3>1
    <3>3. Back(log, k - 1) \in Nat
      BY <1>3, <3>1
    <3>4. QED
      BY <1>3, <2>1, <2>4, <3>2, <3>3
  <2>5. QED
    BY <1>2, <2>2, <2>3, <2>4
<1>6. Matched'
  BY <1>1, <1>5 DEF Matched
<1>7. Fresh'
  BY <1>1, <1>3 DEF Fresh
<1>8. QED
  BY <1>6, <1>7 DEF TrickleInv

LEMMA AfterKeepsTrickle == Shape /\ Lists /\ TrickleInv /\ AfterTick => TrickleInv'
<1> SUFFICES ASSUME Shape, Lists, TrickleInv, AfterTick PROVE TrickleInv'
  OBVIOUS
<1>1. /\ UNCHANGED <<sup, log>> /\ loop.pc = "after"
      /\ \/ /\ Len(sup.restarts) > loop.prior
            /\ crash' = CrashRecorded(crash)
            /\ loop'.prior = Len(sup.restarts)
         \/ /\ ~(Len(sup.restarts) > loop.prior)
            /\ crash' = crash
            /\ loop'.prior = loop.prior
  BY AfterForm
<1>2. Unseen' = 0
  <2>1. Len(sup.restarts) \in Nat
    BY BackInOrder DEF Lists
  <2>2. QED
    BY <1>1, <2>1 DEF Unseen
<1>3. Fresh'
  BY <1>2 DEF Fresh
<1>4. /\ Len(log) \in Nat
      /\ \A k \in Nat : k < Len(log) => Back(log, k) \in Nat
      /\ \A j, k \in Nat : j <= k /\ k < Len(log) => Back(log, j) <= Back(log, k)
  BY BackInOrder DEF Lists
<1>5. /\ Len(crash.times) \in Nat
      /\ \A k \in Nat : k < Len(crash.times) => Back(crash.times, k) \in Nat
  BY BackInOrder DEF Lists
<1>6. CASE crash' = crash
  <2>1. ASSUME NEW k \in 0 .. Len(crash.times) - 1, Back(crash.times, k) <= CrashWindow
        PROVE  k < Len(log) /\ Back(log, k) <= Back(crash.times, k) + 1
    <3>1. /\ k + Unseen < Len(log)
          /\ Back(log, k + Unseen) <= Back(crash.times, k) + 1
      BY <2>1 DEF TrickleInv, Matched
    <3>2. /\ k \in Nat /\ k + Unseen \in Nat /\ k <= k + Unseen
      BY UnseenIs
    <3>3. k < Len(log)
      BY <1>4, <3>1, <3>2
    <3>4. Back(log, k) <= Back(log, k + Unseen)
      BY <1>4, <3>1, <3>2
    <3>5. Back(crash.times, k) \in Nat
      BY <1>5
    <3>6. Back(log, k) \in Nat /\ Back(log, k + Unseen) \in Nat
      BY <1>4, <3>1, <3>2, <3>3
    <3>7. QED
      BY <3>1, <3>3, <3>4, <3>5, <3>6
  <2>2. Matched'
    BY <1>1, <1>2, <1>6, <2>1 DEF Matched
  <2>3. QED
    BY <1>3, <2>2 DEF TrickleInv
<1>7. CASE crash' # crash
  <2>1. /\ Unseen = 1 /\ crash' = CrashRecorded(crash)
    BY <1>1, <1>7 DEF Unseen
  <2> DEFINE recent == Younger(crash.times, CrashWindow + 1)
  <2>2. crash'.times = Append(recent, 0)
    BY <1>7, <2>1 DEF CrashRecorded
  <2>3. /\ Ages(recent) /\ Len(recent) <= Len(crash.times)
        /\ \A k \in Nat : k < Len(recent) =>
             /\ Back(recent, k) = Back(crash.times, k)
             /\ Back(crash.times, k) < CrashWindow + 1
    BY BackYounger, Sizes DEF Lists
  <2> HIDE DEF recent
  <2>4. /\ Len(recent) \in Nat /\ Len(crash'.times) = Len(recent) + 1
        /\ Back(crash'.times, 0) = 0
        /\ \A k \in Nat : k < Len(recent) => Back(crash'.times, k + 1) = Back(recent, k)
    BY <2>2, <2>3, BackAppend, BackInOrder
  <2>5. ASSUME NEW k \in 0 .. Len(crash'.times) - 1
        PROVE  k < Len(log) /\ Back(log, k) <= Back(crash'.times, k) + 1
    <3>1. CASE k = 0
      <4>1. Len(log) > 0 /\ Back(log, 0) <= 1
        BY <1>1, <2>1 DEF TrickleInv, Fresh
      <4>2. QED
        BY <2>4, <3>1, <4>1
    <3>2. CASE k # 0
      <4>1. PICK j \in Nat : k = j + 1 /\ j < Len(recent)
        <5>1. k - 1 \in Nat /\ k = (k - 1) + 1 /\ k - 1 < Len(recent)
          BY <2>4, <3>2
        <5>2. QED
          BY <5>1
      <4>2. /\ Back(crash'.times, k) = Back(crash.times, j)
            /\ Back(crash.times, j) < CrashWindow + 1
        BY <2>3, <2>4, <4>1
      <4>3. j \in 0 .. Len(crash.times) - 1 /\ Back(crash.times, j) \in Nat
        BY <1>5, <2>3, <2>4, <4>1
      <4>4. Back(crash.times, j) <= CrashWindow
        BY <4>2, <4>3, Sizes
      <4>5. j + 1 < Len(log) /\ Back(log, j + 1) <= Back(crash.times, j) + 1
        BY <2>1, <4>3, <4>4 DEF TrickleInv, Matched
      <4>6. QED
        BY <4>1, <4>2, <4>5
    <3>3. QED
      BY <3>1, <3>2
  <2>6. ASSUME NEW k \in 0 .. Len(crash'.times) - 1
        PROVE  k + Unseen' < Len(log') /\ Back(log', k + Unseen') <= Back(crash'.times, k) + 1
    <3>1. k + Unseen' = k /\ log' = log
      BY <1>1, <1>2
    <3>2. QED
      BY <2>5, <3>1
  <2>7. Matched'
    BY <2>6 DEF Matched
  <2>8. QED
    BY <1>3, <2>7 DEF TrickleInv
<1>8. QED
  BY <1>6, <1>7

LEMMA TrickleStep ==
  HysteresisN > 1 /\ SupervisionInv /\ CeilingInv /\ TrickleInv /\ [Next]_vars
    => TrickleInv'
<1> SUFFICES ASSUME HysteresisN > 1, SupervisionInv, CeilingInv, TrickleInv, [Next]_vars
             PROVE  TrickleInv'
  OBVIOUS
<1>1. Shape /\ Lists
  BY DEF SupervisionInv, CeilingInv
<1>2. CASE Tick
  BY <1>1, <1>2, TickKeepsTrickle
<1>3. CASE Assess
  BY <1>1, <1>3, AssessKeepsTrickle
<1>4. CASE BeginRestart
  BY <1>1, <1>4, BeginKeepsTrickle
<1>5. CASE FinishRestart
  BY <1>1, <1>5, FinishKeepsTrickle
<1>6. CASE AfterTick
  BY <1>1, <1>6, AfterKeepsTrickle
<1>7. CASE LaunchRaises \/ RunEnds
  <2>1. /\ log' = log /\ crash' = crash /\ sup'.restarts = sup.restarts
        /\ loop'.prior = loop.prior
    BY <1>1, <1>7, RestForm
  <2>2. Unseen' = Unseen
    BY <2>1 DEF Unseen
  <2>3. RunEnds => loop'.pc = "exited"
    BY <1>1 DEF RunEnds, Shape
  <2>4. LaunchRaises => Unseen = 0
    BY UnseenIs DEF LaunchRaises, TrickleInv, Fresh
  <2>5. QED
    BY <1>7, <2>1, <2>2, <2>3, <2>4 DEF TrickleInv, Matched, Fresh
<1>8. CASE JobDone \/ WorkerSeesTrip \/ ComfyAnswers \/ ComfyFails \/ UNCHANGED vars
  <2>1. UNCHANGED <<log, crash, sup, loop>>
    BY <1>8 DEF JobDone, WorkerSeesTrip, ComfyAnswers, ComfyFails, vars, history
  <2>2. QED
    BY <2>1 DEF TrickleInv, Matched, Fresh, Unseen
<1>9. CASE Resume
  <2>1. /\ log' = <<>> /\ sup'.restarts = <<>>
        /\ crash' = [times |-> <<>>, tripped |-> FALSE]
        /\ loop'.prior = 0
    BY <1>9, ResumeForm
  <2>2. Unseen' = 0
    BY <2>1, BackEmpty DEF Unseen
  <2>3. QED
    BY <2>1, <2>2, BackEmpty DEF TrickleInv, Matched, Fresh
<1>10. QED
  BY <1>2, <1>3, <1>4, <1>5, <1>6, <1>7, <1>8, <1>9 DEF Next, LoopStep


\* In the step in which the breaker trips, all crashes it counts are recent.
LEMMA TripIsEarned ==
  SupervisionInv /\ CeilingInv /\ TrickleInv /\ TrickleInv' /\ [Next]_vars
  /\ ~crash.tripped /\ crash'.tripped
    => Cardinality(RestartsWithin(CrashWindow + BackoffCap + 2)) >= CrashThreshold
<1> SUFFICES ASSUME SupervisionInv, CeilingInv, TrickleInv, TrickleInv', [Next]_vars,
                    ~crash.tripped, crash'.tripped
             PROVE  Cardinality(RestartsWithin(CrashWindow + BackoffCap + 2))
                      >= CrashThreshold
  OBVIOUS
<1>1. Shape /\ Lists
  BY DEF SupervisionInv, CeilingInv
<1>2. AfterTick
  <2>1. ~Tick
    BY <1>1, TickForm
  <2>2. ~BeginRestart
    BY <1>1, BeginForm
  <2>3. ~FinishRestart
    BY <1>1, FinishForm
  <2>4. ~Resume
    BY ResumeForm
  <2>5. ~(Assess \/ LaunchRaises \/ RunEnds \/ JobDone \/ WorkerSeesTrip
          \/ ComfyAnswers \/ ComfyFails \/ UNCHANGED vars)
    BY <1>1, RestForm
  <2>6. QED
    BY <2>1, <2>2, <2>3, <2>4, <2>5 DEF Next, LoopStep
<1>3. /\ UNCHANGED <<sup, log>>
      /\ crash' = CrashRecorded(crash)
      /\ loop'.prior = Len(sup.restarts)
  BY <1>1, <1>2, AfterForm
<1>4. Len(sup.restarts) \in Nat
  BY <1>1, BackInOrder DEF Lists
<1>5. Unseen' = 0
  BY <1>3, <1>4 DEF Unseen
<1> DEFINE recent == Younger(crash.times, CrashWindow + 1)
<1>6. /\ crash'.times = Append(recent, 0)
      /\ Len(crash'.times) >= CrashThreshold
  BY <1>3 DEF CrashRecorded
<1>7. /\ Ages(recent)
      /\ \A k \in Nat : k < Len(recent) =>
           Back(recent, k) = Back(crash.times, k) /\ Back(crash.times, k) < CrashWindow + 1
  <2>1. Ages(crash.times) /\ CrashWindow + 1 \in Nat
    BY <1>1, Sizes DEF Lists
  <2>2. QED
    BY <2>1, BackYounger
<1> HIDE DEF recent
<1>8. /\ Len(recent) \in Nat /\ Len(crash'.times) = Len(recent) + 1
      /\ Back(crash'.times, 0) = 0
      /\ \A k \in Nat : k < Len(recent) => Back(crash'.times, k + 1) = Back(recent, k)
      /\ \A k \in Nat : k < Len(recent) => Back(recent, k) \in Nat
  BY <1>6, <1>7, BackAppend, BackInOrder
<1>9. ASSUME NEW k \in 0 .. Len(crash'.times) - 1
      PROVE  Back(crash'.times, k) \in Nat /\ Back(crash'.times, k) <= CrashWindow
  <2>1. CASE k = 0
    BY <1>8, <2>1, Sizes
  <2>2. CASE k # 0
    <3>1. k - 1 \in Nat /\ k = (k - 1) + 1 /\ k - 1 < Len(recent)
      BY <1>8, <2>2
    <3>2. /\ Back(crash'.times, k) = Back(recent, k - 1)
          /\ Back(recent, k - 1) < CrashWindow + 1 /\ Back(recent, k - 1) \in Nat
      BY <1>7, <1>8, <3>1
    <3>3. QED
      BY <3>2, Sizes
  <2>3. QED
    BY <2>1, <2>2
<1>10. /\ Len(log) \in Nat /\ log \in Seq(Nat) /\ DOMAIN log = 1 .. Len(log)
       /\ \A k \in Nat : k < Len(log) => Back(log, k) \in Nat
  <2>1. Ages(log)
    BY <1>1 DEF Lists
  <2>2. log \in Seq(Nat)
    BY <2>1 DEF Ages
  <2>3. \A k \in Nat : k < Len(log) => Back(log, k) \in Nat
    BY <2>1, BackInOrder
  <2>4. QED
    BY <2>2, <2>3
<1>11. ASSUME NEW k \in 0 .. CrashThreshold - 1
       PROVE  k < Len(log) /\ Back(log, k) < CrashWindow + BackoffCap + 2
  <2>1. k \in 0 .. Len(crash'.times) - 1 /\ k \in Nat
    BY <1>6, <1>8, Sizes
  <2>2. Back(crash'.times, k) \in Nat /\ Back(crash'.times, k) <= CrashWindow
    BY <1>9, <2>1
  <2>3. /\ k + Unseen' < Len(log')
        /\ Back(log', k + Unseen') <= Back(crash'.times, k) + 1
    BY <2>1, <2>2 DEF TrickleInv, Matched
  <2>4. k < Len(log) /\ Back(log, k) <= Back(crash'.times, k) + 1
    <3>1. k + Unseen' = k /\ log' = log
      BY <1>3, <1>5, <2>1
    <3>2. QED
      BY <2>3, <3>1
  <2>5. QED
    BY <1>10, <2>1, <2>2, <2>4, Sizes
<1> DEFINE within == RestartsWithin(CrashWindow + BackoffCap + 2)
           young == Len(log) - CrashThreshold + 1 .. Len(log)
<1>12. CrashThreshold <= Len(log)
  BY <1>10, <1>11, Sizes
<1>13. young \subseteq within
  <2>1. ASSUME NEW i \in young
        PROVE  i \in DOMAIN log /\ log[i] < CrashWindow + BackoffCap + 2
    <3>1. /\ Len(log) - i \in 0 .. CrashThreshold - 1 /\ i \in 1 .. Len(log)
          /\ Len(log) - (Len(log) - i) = i
      BY <1>10, <1>12, Sizes
    <3>2. Back(log, Len(log) - i) < CrashWindow + BackoffCap + 2
      BY <1>11, <3>1
    <3>3. QED
      BY <1>10, <3>1, <3>2 DEF Back
  <2>2. QED
    BY <2>1 DEF RestartsWithin
<1>14. IsFiniteSet(within)
  <2>1. within \subseteq 1 .. Len(log)
    BY <1>10 DEF RestartsWithin
  <2>2. IsFiniteSet(1 .. Len(log))
    BY <1>10, FS_Interval
  <2>3. QED
    BY <2>1, <2>2, FS_Subset
<1>15. Cardinality(young) = CrashThreshold
  <2>1. /\ Len(log) - CrashThreshold + 1 \in Int /\ Len(log) \in Int
        /\ ~(Len(log) - CrashThreshold + 1 > Len(log))
        /\ Len(log) - (Len(log) - CrashThreshold + 1) + 1 = CrashThreshold
    BY <1>10, Sizes
  <2>2. QED
    BY <2>1, FS_Interval
<1>16. Cardinality(young) <= Cardinality(within) /\ Cardinality(within) \in Nat
  BY <1>13, <1>14, FS_Subset, FS_CardinalityType
<1>17. QED
  BY <1>15, <1>16, Sizes

\* Crashes that trickle do not stop the batch: the global breaker trips only
\* when as many restarts as its threshold lie within its window and the time by
\* which the loop may count one late.  A hysteresis of more than one sample is
\* needed, as the default has it: with one, failing launches can keep the loop
\* from looking at a restart until it is old.
THEOREM TricklesAreForgiven ==
  ASSUME HysteresisN > 1
  PROVE  Spec => TrickleIsForgiven
<1>1. Init => TrickleInv
  BY TrickleInit
<1>2. SupervisionInv /\ CeilingInv /\ TrickleInv /\ [Next]_vars => TrickleInv'
  BY TrickleStep
<1>3. SupervisionInv /\ CeilingInv /\ TrickleInv /\ TrickleInv' /\ [Next]_vars
      => [~crash.tripped /\ crash'.tripped
            => Cardinality(RestartsWithin(CrashWindow + BackoffCap + 2))
                 >= CrashThreshold]_vars
  BY TripIsEarned
<1>4. QED
  BY <1>1, <1>2, <1>3, Invariance, CeilingHolds, PTL DEF Spec, TrickleIsForgiven
=============================================================================
