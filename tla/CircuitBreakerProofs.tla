------------------------ MODULE CircuitBreakerProofs ------------------------
(***************************************************************************)
(* Proofs about CircuitBreaker, for any workers, partitions, classes,      *)
(* threshold and cooldown.                                                 *)
(***************************************************************************)
EXTENDS CircuitBreaker, TLAPS

-----------------------------------------------------------------------------
(* The operations of one partition keep its type.                          *)

\* An admission changes the state and the canary flag only.
LEMMA AdmittedType ==
  ASSUME NEW b \in PartitionState
  PROVE  Admitted(b) \in PartitionState
BY Zenon DEF PartitionState, Admitted

\* A recorded success leaves a partition without failures.
LEMMA SucceededType ==
  ASSUME NEW b \in PartitionState
  PROVE  /\ Succeeded(b) \in PartitionState
         /\ Succeeded(b).failures = 0 /\ Succeeded(b).class = NoClass
         /\ Succeeded(b).state # "half_open"
<1> DEFINE reset == [b EXCEPT !.failures = 0, !.class = NoClass, !.canary = FALSE]
<1>1. reset \in PartitionState
  BY DEF PartitionState
<1>2. reset.failures = 0 /\ reset.class = NoClass /\ reset.state = b.state
  BY DEF PartitionState
<1> HIDE DEF reset
<1>3. /\ [reset EXCEPT !.state = "closed", !.cooldown = 0] \in PartitionState
      /\ [reset EXCEPT !.state = "closed", !.cooldown = 0].failures = reset.failures
      /\ [reset EXCEPT !.state = "closed", !.cooldown = 0].class = reset.class
      /\ [reset EXCEPT !.state = "closed", !.cooldown = 0].state = "closed"
  BY <1>1 DEF PartitionState
<1>4. Succeeded(b) = IF b.state = "half_open"
                     THEN [reset EXCEPT !.state = "closed", !.cooldown = 0] ELSE reset
  BY DEF Succeeded, reset
<1>5. QED
  BY <1>1, <1>2, <1>3, <1>4, Zenon

\* A recorded failure leaves no partition half open, and closed only those
\* whose count is below the threshold.
LEMMA FailedType ==
  ASSUME NEW b \in PartitionState, NEW class \in ErrorClasses
  PROVE  /\ Failed(b, class) \in PartitionState
         /\ Failed(b, class).state # "half_open"
         /\ Failed(b, class).state = "closed"
              => Failed(b, class).failures < Threshold
<1>1. BaseCooldown \in Nat /\ Threshold \in Nat
  BY BreakerAssumption
<1>2. CASE b.state = "half_open"
  <2>1. Failed(b, class) = Reopened(b)
    BY <1>2 DEF Failed
  <2> DEFINE cooldown == 2 * IF b.cooldown = 0 THEN BaseCooldown ELSE b.cooldown
  <2>2. cooldown \in Nat
    BY <1>1 DEF PartitionState
  <2>3. Reopened(b) = [b EXCEPT !.state = "open", !.age = 0, !.canary = FALSE,
                                !.cooldown = cooldown]
    BY DEF Reopened, PartitionState
  <2> HIDE DEF cooldown
  <2>4. 0 \in Nat
    OBVIOUS
  <2>5. [b EXCEPT !.state = "open", !.age = 0, !.canary = FALSE, !.cooldown = cooldown]
          \in PartitionState
    BY <2>2, <2>4, Zenon DEF PartitionState
  <2>6. Reopened(b).state = "open"
    BY <2>3 DEF PartitionState
  <2>7. QED
    BY <2>1, <2>3, <2>5, <2>6
<1>3. CASE b.state # "half_open"
  <2> DEFINE count == IF b.class = class THEN b.failures + 1 ELSE 1
             after == Counted(b, class)
             opened == [after EXCEPT !.state = "open", !.age = 0,
                                     !.cooldown = BaseCooldown]
  <2>1. count \in Nat
    BY DEF PartitionState
  <2>2. after = [b EXCEPT !.failures = count, !.class = class]
    BY DEF Counted, PartitionState
  <2> HIDE DEF count, after
  <2>3. after \in PartitionState /\ after.state = b.state
    BY <2>1, <2>2 DEF PartitionState
  <2>4. opened \in PartitionState /\ opened.state = "open"
    BY <1>1, <2>3 DEF PartitionState
  <2>5. Failed(b, class) = IF after.failures >= Threshold THEN opened ELSE after
    BY <1>3 DEF Failed, after
  <2> HIDE DEF opened
  <2>6. after.failures \in Nat
    BY <2>3 DEF PartitionState
  <2>7. after.failures >= Threshold \/ after.failures < Threshold
    BY <1>1, <2>6
  <2>8. QED
    BY <1>3, <2>3, <2>4, <2>5, <2>7, Zenon
<1>4. QED
  BY <1>2, <1>3

\* Outside half-open, a failure is counted by class, as in `streak'; a failed
\* canary is not counted.
LEMMA FailedCounts ==
  ASSUME NEW b \in PartitionState, NEW class \in ErrorClasses
  PROVE  /\ b.state = "half_open" =>
              /\ Failed(b, class).failures = b.failures
              /\ Failed(b, class).class = b.class
         /\ b.state # "half_open" =>
              /\ Failed(b, class).failures = IF b.class = class THEN b.failures + 1 ELSE 1
              /\ Failed(b, class).class = class
<1>1. CASE b.state = "half_open"
  BY <1>1 DEF PartitionState, Failed, Reopened
<1>2. CASE b.state # "half_open"
  BY <1>2 DEF PartitionState, Failed, Counted
<1>3. QED
  BY <1>1, <1>2

-----------------------------------------------------------------------------
(* The invariant.                                                          *)

\* What the breaker counts is the run of failures, whatever its state.
CountsTheStreak ==
  \A p \in Partitions :
    /\ breaker[p].failures = streak[p].length
    /\ breaker[p].class = streak[p].class
    /\ breaker[p].state = "closed" => breaker[p].failures < Threshold

BreakerInv == TypeOK /\ CountsTheStreak /\ HalfOpenIsWatched

LEMMA InitInv == Init => BreakerInv
<1> SUFFICES ASSUME Init PROVE BreakerInv
  OBVIOUS
<1>1. FreshPartition \in PartitionState
  BY DEF FreshPartition, PartitionState
<1>2. Idle \in Worker
  BY DEF Idle, Worker, Pc
<1>3. TypeOK
  BY <1>1, <1>2, BreakerAssumption, Zenon DEF Init, TypeOK, Idle
<1>4. CountsTheStreak
  BY BreakerAssumption DEF Init, CountsTheStreak, FreshPartition
<1>5. HalfOpenIsWatched
  BY DEF Init, HalfOpenIsWatched, FreshPartition
<1>6. QED
  BY <1>3, <1>4, <1>5 DEF BreakerInv

\* Where a worker may go on to, or leave its claim for.
LEMMA MovedWorker ==
  ASSUME TypeOK, NEW w \in Workers, worker[w].pc # "idle",
         \/ \E pc \in {"run", "judge"} : Continues(w, pc)
         \/ Leaves(w)
         \/ \E pc \in {"run", "judge"} : worker' = [worker EXCEPT ![w].pc = pc]
  PROVE  /\ worker' \in [Workers -> Worker]
         /\ \A v \in Workers : worker'[v].pc # "idle" => worker'[v].partition \in Partitions
<1>1. worker[w] \in Worker /\ worker[w].partition \in Partitions /\ Idle \in Worker
  BY DEF TypeOK, Worker, Pc, Idle
<1>2. PICK next \in Worker :
        /\ worker' = [worker EXCEPT ![w] = next]
        /\ next.pc # "idle" => next.partition \in Partitions
  <2>1. CASE Leaves(w)
    BY <1>1, <2>1 DEF Leaves, Idle
  <2>2. ASSUME NEW pc \in {"run", "judge"}, Continues(w, pc)
        PROVE  \E next \in Worker :
                 /\ worker' = [worker EXCEPT ![w] = next]
                 /\ next.pc # "idle" => next.partition \in Partitions
    <3> DEFINE round == worker[w].round + 1
    <3>0. round \in Nat
      BY <1>1 DEF Worker
    <3> HIDE DEF round
    <3>1. [worker[w] EXCEPT !.pc = pc, !.round = round] \in Worker
      BY <1>1, <2>2, <3>0 DEF Worker, Pc
    <3>2. worker' = [worker EXCEPT ![w] = [worker[w] EXCEPT !.pc = pc, !.round = round]]
      BY <2>2 DEF Continues, round
    <3>3. [worker[w] EXCEPT !.pc = pc, !.round = round].partition = worker[w].partition
      BY <1>1 DEF Worker
    <3>4. QED
      BY <1>1, <3>1, <3>2, <3>3
  <2>3. ASSUME NEW pc \in {"run", "judge"}, worker' = [worker EXCEPT ![w].pc = pc]
        PROVE  \E next \in Worker :
                 /\ worker' = [worker EXCEPT ![w] = next]
                 /\ next.pc # "idle" => next.partition \in Partitions
    <3>1. /\ [worker[w] EXCEPT !.pc = pc] \in Worker
          /\ [worker[w] EXCEPT !.pc = pc].partition = worker[w].partition
      BY <1>1 DEF Worker, Pc
    <3>2. QED
      BY <1>1, <2>3, <3>1
  <2>4. QED
    BY <2>1, <2>2, <2>3
<1>3. QED
  BY <1>2 DEF TypeOK

\* The watch is kept by a step that leaves the breaker and the running workers
\* alone.
LEMMA WatchKept ==
  ASSUME BreakerInv, UNCHANGED breaker, leaked \subseteq leaked',
         \A v \in Workers : worker[v].pc = "run" => worker'[v] = worker[v]
  PROVE  HalfOpenIsWatched'
<1>1. ASSUME NEW p \in Partitions \ leaked', breaker'[p].state = "half_open"
      PROVE  /\ breaker'[p].canary
             /\ \E v \in Workers : worker'[v].pc = "run" /\ worker'[v].partition = p
  <2>1. breaker'[p] = breaker[p] /\ p \in Partitions \ leaked
    BY <1>1
  <2>2. /\ breaker[p].canary
        /\ \E v \in Workers : worker[v].pc = "run" /\ worker[v].partition = p
    BY <1>1, <2>1, Zenon DEF BreakerInv, HalfOpenIsWatched
  <2>3. PICK v \in Workers : worker[v].pc = "run" /\ worker[v].partition = p
    BY <2>2
  <2>4. worker'[v] = worker[v]
    BY <2>3
  <2>5. QED
    BY <2>1, <2>2, <2>3, <2>4, Zenon
<1>2. QED
  BY <1>1, Zenon DEF HalfOpenIsWatched

\* Steps that only move a worker out of "idle" or out of "judge".
LEMMA ClaimStep ==
  ASSUME BreakerInv, NEW w \in Workers, NEW p \in Partitions, Claim(w, p)
  PROVE  BreakerInv'
<1>1. /\ worker' \in [Workers -> Worker]
      /\ \A v \in Workers : worker'[v].pc # "idle" => worker'[v].partition \in Partitions
  <2>1. [Idle EXCEPT !.pc = "gate", !.partition = p] \in Worker
    BY DEF Worker, Idle, Pc
  <2>2. [Idle EXCEPT !.pc = "gate", !.partition = p].partition = p
    BY DEF Idle
  <2>3. QED
    BY <2>1, <2>2 DEF BreakerInv, TypeOK, Claim, history
<1>2. left' \in [Partitions -> Nat]
  BY DEF BreakerInv, TypeOK, Claim, history
<1>3. TypeOK'
  BY <1>1, <1>2 DEF BreakerInv, TypeOK, Claim, history
<1>4. CountsTheStreak'
  BY DEF BreakerInv, CountsTheStreak, Claim, history
<1>5. HalfOpenIsWatched'
  <2>1. \A v \in Workers : worker[v].pc = "run" => worker'[v] = worker[v]
    BY DEF Claim, BreakerInv, TypeOK, history
  <2>2. UNCHANGED breaker /\ leaked \subseteq leaked'
    BY DEF Claim, history
  <2>3. QED
    BY <2>1, <2>2, WatchKept
<1>6. QED
  BY <1>3, <1>4, <1>5 DEF BreakerInv

LEMMA JudgeStep ==
  ASSUME BreakerInv, NEW w \in Workers, Judge(w)
  PROVE  BreakerInv'
<1>1. TypeOK'
  <2>1. /\ worker' \in [Workers -> Worker]
        /\ \A v \in Workers : worker'[v].pc # "idle" => worker'[v].partition \in Partitions
    BY MovedWorker DEF BreakerInv, Judge, history
  <2>2. QED
    BY <2>1 DEF BreakerInv, TypeOK, Judge, history
<1>2. CountsTheStreak'
  BY DEF BreakerInv, CountsTheStreak, Judge, history
<1>3. HalfOpenIsWatched'
  <2>1. \A v \in Workers : worker[v].pc = "run" => worker'[v] = worker[v]
    BY DEF Judge, Continues, Leaves, BreakerInv, TypeOK, history
  <2>2. UNCHANGED breaker /\ leaked \subseteq leaked'
    BY DEF Judge, history
  <2>3. QED
    BY <2>1, <2>2, WatchKept
<1>4. QED
  BY <1>1, <1>2, <1>3 DEF BreakerInv

\* Through the gate: a partition that turns half open has this worker.
LEMMA GateStep ==
  ASSUME BreakerInv, NEW w \in Workers, PassGate(w)
  PROVE  BreakerInv'
<1> DEFINE q == worker[w].partition
<1>1. q \in Partitions
  BY DEF BreakerInv, TypeOK, PassGate
<1>2. /\ Admitted(breaker[q]) \in PartitionState
      /\ Admitted(breaker[q]).failures = breaker[q].failures
      /\ Admitted(breaker[q]).class = breaker[q].class
      /\ Admitted(breaker[q]).state = "closed" => breaker[q].state = "closed"
      /\ Admitted(breaker[q]).state = "half_open" => Admitted(breaker[q]).canary
  <2>1. breaker[q] \in PartitionState
    BY <1>1 DEF BreakerInv, TypeOK
  <2>2. QED
    BY <2>1, AdmittedType DEF Admitted, PartitionState
<1>3. \A p \in Partitions :
        breaker'[p] = IF p = q THEN Admitted(breaker[q]) ELSE breaker[p]
  BY DEF PassGate, BreakerInv, TypeOK
<1>4. TypeOK'
  <2>1. /\ worker' \in [Workers -> Worker]
        /\ \A v \in Workers : worker'[v].pc # "idle" => worker'[v].partition \in Partitions
    BY MovedWorker DEF BreakerInv, PassGate
  <2>2. breaker' \in [Partitions -> PartitionState]
    BY <1>1, <1>2 DEF PassGate, BreakerInv, TypeOK
  <2>3. canaries' \in [Partitions -> SUBSET Workers]
    BY <1>1 DEF PassGate, BreakerInv, TypeOK
  <2>4. QED
    BY <2>1, <2>2, <2>3 DEF BreakerInv, TypeOK, PassGate
<1>5. CountsTheStreak'
  BY <1>1, <1>2, <1>3 DEF BreakerInv, CountsTheStreak, PassGate
<1>6. HalfOpenIsWatched'
  <2>1. /\ worker'[w].pc = "run" /\ worker'[w].partition = q
        /\ \A v \in Workers : worker[v].pc = "run" => worker'[v] = worker[v]
    BY DEF PassGate, BreakerInv, TypeOK, Worker
  <2> HIDE DEF q
  <2>2. ASSUME NEW p \in Partitions \ leaked', breaker'[p].state = "half_open"
        PROVE  /\ breaker'[p].canary
               /\ \E v \in Workers : worker'[v].pc = "run" /\ worker'[v].partition = p
    <3>1. CASE p = q
      BY <1>2, <1>3, <2>1, <2>2, <3>1, Zenon
    <3>2. CASE p # q
      <4>1. breaker'[p] = breaker[p] /\ p \in Partitions \ leaked
        BY <1>3, <2>2, <3>2 DEF PassGate
      <4>2. /\ breaker[p].canary
            /\ \E v \in Workers : worker[v].pc = "run" /\ worker[v].partition = p
        BY <2>2, <4>1, Zenon DEF BreakerInv, HalfOpenIsWatched
      <4>3. PICK v \in Workers : worker[v].pc = "run" /\ worker[v].partition = p
        BY <4>2
      <4>4. worker'[v] = worker[v]
        BY <2>1, <4>3
      <4>5. QED
        BY <4>1, <4>2, <4>3, <4>4, Zenon
    <3>3. QED
      BY <3>1, <3>2
  <2>3. QED
    BY <2>2, Zenon DEF HalfOpenIsWatched
<1>7. QED
  BY <1>4, <1>5, <1>6 DEF BreakerInv

\* An outcome is recorded: its partition is not half open afterwards, and the
\* watch over every other partition is kept by the workers that keep it now.
LEMMA RecordedWatch ==
  ASSUME BreakerInv, NEW w \in Workers, UNCHANGED leaked,
         breaker' = [breaker EXCEPT ![worker[w].partition] =
                       breaker'[worker[w].partition]],
         breaker'[worker[w].partition].state # "half_open",
         \A v \in Workers \ {w} : worker'[v] = worker[v]
  PROVE  HalfOpenIsWatched'
<1> DEFINE q == worker[w].partition
<1>1. \A p \in Partitions : p # q => breaker'[p] = breaker[p]
  BY DEF BreakerInv, TypeOK
<1>2. ASSUME NEW p \in Partitions \ leaked', breaker'[p].state = "half_open"
      PROVE  /\ breaker'[p].canary
             /\ \E v \in Workers : worker'[v].pc = "run" /\ worker'[v].partition = p
  <2>1. p # q /\ breaker'[p] = breaker[p] /\ p \in Partitions \ leaked
    BY <1>1, <1>2
  <2>2. /\ breaker[p].canary
        /\ \E v \in Workers : worker[v].pc = "run" /\ worker[v].partition = p
    BY <1>2, <2>1, Zenon DEF BreakerInv, HalfOpenIsWatched
  <2>3. PICK v \in Workers : worker[v].pc = "run" /\ worker[v].partition = p
    BY <2>2
  <2>4. worker'[v] = worker[v]
    BY <2>1, <2>3
  <2>5. QED
    BY <2>1, <2>2, <2>3, <2>4, Zenon
<1>3. QED
  BY <1>2, Zenon DEF HalfOpenIsWatched

LEMMA SucceedStep ==
  ASSUME BreakerInv, NEW w \in Workers, Succeed(w)
  PROVE  BreakerInv'
<1> DEFINE q == worker[w].partition
<1>1. q \in Partitions /\ breaker[q] \in PartitionState
  BY DEF BreakerInv, TypeOK, Succeed
<1>2. /\ Succeeded(breaker[q]) \in PartitionState
      /\ Succeeded(breaker[q]).failures = 0 /\ Succeeded(breaker[q]).class = NoClass
      /\ Succeeded(breaker[q]).state # "half_open"
  BY <1>1, SucceededType
<1>3. breaker' = [breaker EXCEPT ![q] = Succeeded(breaker[q])]
  BY DEF Succeed
<1>4. TypeOK'
  <2>1. /\ worker' \in [Workers -> Worker]
        /\ \A v \in Workers : worker'[v].pc # "idle" => worker'[v].partition \in Partitions
    BY MovedWorker DEF BreakerInv, Succeed
  <2>2. breaker' \in [Partitions -> PartitionState]
    BY <1>1, <1>2, <1>3 DEF BreakerInv, TypeOK
  <2>3. canaries' \in [Partitions -> SUBSET Workers]
    BY <1>1 DEF Succeed, Resolved, BreakerInv, TypeOK
  <2>4. streak' \in [Partitions -> [class : ErrorClasses \cup {NoClass}, length : Nat]]
    BY <1>1 DEF Succeed, BreakerInv, TypeOK
  <2>5. QED
    BY <2>1, <2>2, <2>3, <2>4 DEF BreakerInv, TypeOK, Succeed
<1>5. CountsTheStreak'
  BY <1>1, <1>2, <1>3, BreakerAssumption
     DEF BreakerInv, CountsTheStreak, Succeed, TypeOK
<1>6. HalfOpenIsWatched'
  <2>1. \A v \in Workers \ {w} : worker'[v] = worker[v]
    BY DEF Succeed, BreakerInv, TypeOK
  <2>2. breaker'[q] = Succeeded(breaker[q]) /\ UNCHANGED leaked
    BY <1>1, <1>3 DEF BreakerInv, TypeOK, Succeed
  <2>3. QED
    BY <1>2, <1>3, <2>1, <2>2, RecordedWatch
<1>7. QED
  BY <1>4, <1>5, <1>6 DEF BreakerInv

LEMMA FailStep ==
  ASSUME BreakerInv, NEW w \in Workers, Fail(w)
  PROVE  BreakerInv'
<1> DEFINE q == worker[w].partition
<1>1. q \in Partitions /\ breaker[q] \in PartitionState
  BY DEF BreakerInv, TypeOK, Fail
<1>2. PICK class \in ErrorClasses :
        /\ breaker' = [breaker EXCEPT ![q] = Failed(breaker[q], class)]
        /\ streak' = IF breaker[q].state = "half_open" THEN streak
                     ELSE [streak EXCEPT ![q] =
                             [class |-> class,
                              length |-> IF @.class = class THEN @.length + 1 ELSE 1]]
  BY DEF Fail
<1>3. /\ Failed(breaker[q], class) \in PartitionState
      /\ Failed(breaker[q], class).state # "half_open"
      /\ Failed(breaker[q], class).state = "closed"
           => Failed(breaker[q], class).failures < Threshold
  BY <1>1, FailedType
<1>4. breaker'[q] = Failed(breaker[q], class)
  BY <1>1, <1>2 DEF BreakerInv, TypeOK
<1>5. TypeOK'
  <2>1. /\ worker' \in [Workers -> Worker]
        /\ \A v \in Workers : worker'[v].pc # "idle" => worker'[v].partition \in Partitions
    BY MovedWorker DEF BreakerInv, Fail
  <2>2. breaker' \in [Partitions -> PartitionState]
    BY <1>1, <1>2, <1>3 DEF BreakerInv, TypeOK
  <2>3. canaries' \in [Partitions -> SUBSET Workers]
    BY <1>1 DEF Fail, Resolved, BreakerInv, TypeOK
  <2>4. streak' \in [Partitions -> [class : ErrorClasses \cup {NoClass}, length : Nat]]
    BY <1>1, <1>2 DEF BreakerInv, TypeOK
  <2>5. left' \in [Partitions -> Nat]
    BY DEF Fail, BreakerInv, TypeOK
  <2>6. leaked' \in SUBSET Partitions
    BY DEF Fail, BreakerInv, TypeOK
  <2>7. QED
    BY <2>1, <2>2, <2>3, <2>4, <2>5, <2>6 DEF TypeOK
<1>6. CountsTheStreak'
  <2>1. /\ breaker[q].failures = streak[q].length
        /\ breaker[q].class = streak[q].class
    BY <1>1 DEF BreakerInv, CountsTheStreak
  <2>2. /\ breaker'[q].failures = streak'[q].length
        /\ breaker'[q].class = streak'[q].class
    BY <1>1, <1>2, <1>4, <2>1, FailedCounts DEF BreakerInv, TypeOK
  <2>3. \A p \in Partitions : p # q => breaker'[p] = breaker[p] /\ streak'[p] = streak[p]
    BY <1>2 DEF BreakerInv, TypeOK
  <2>4. QED
    BY <1>3, <1>4, <2>2, <2>3 DEF BreakerInv, CountsTheStreak
<1>7. HalfOpenIsWatched'
  <2>1. UNCHANGED leaked /\ \A v \in Workers \ {w} : worker'[v] = worker[v]
    BY DEF Fail, Continues, Leaves, BreakerInv, TypeOK
  <2>2. QED
    BY <1>2, <1>3, <1>4, <2>1, RecordedWatch
<1>8. QED
  BY <1>5, <1>6, <1>7 DEF BreakerInv

LEMMA LeakStep ==
  ASSUME BreakerInv, NEW w \in Workers, Leak(w)
  PROVE  BreakerInv'
<1>1. TypeOK'
  <2>1. /\ worker' \in [Workers -> Worker]
        /\ \A v \in Workers : worker'[v].pc # "idle" => worker'[v].partition \in Partitions
    BY MovedWorker DEF BreakerInv, Leak, history
  <2>2. QED
    BY <2>1 DEF BreakerInv, TypeOK, Leak, history
<1>2. CountsTheStreak'
  BY DEF BreakerInv, CountsTheStreak, Leak, history
<1>3. HalfOpenIsWatched'
  <2> DEFINE q == worker[w].partition
  <2> SUFFICES ASSUME NEW p \in Partitions \ leaked', breaker'[p].state = "half_open"
               PROVE  /\ breaker'[p].canary
                      /\ \E v \in Workers : worker'[v].pc = "run" /\ worker'[v].partition = p
    BY Zenon DEF HalfOpenIsWatched
  <2>1. p # q /\ p \notin leaked /\ breaker' = breaker
    BY DEF Leak, history
  <2>2. PICK v \in Workers : worker[v].pc = "run" /\ worker[v].partition = p
    BY <2>1, Zenon DEF BreakerInv, HalfOpenIsWatched
  <2>3. breaker[p].canary
    BY <2>1, Zenon DEF BreakerInv, HalfOpenIsWatched
  <2>4. v # w
    BY <2>1, <2>2
  <2>5. worker'[v] = worker[v]
    BY <2>4 DEF Leak, Leaves, BreakerInv, TypeOK, history
  <2>6. QED
    BY <2>1, <2>2, <2>3, <2>5, Zenon
<1>4. QED
  BY <1>1, <1>2, <1>3 DEF BreakerInv

LEMMA TickStep ==
  ASSUME BreakerInv, Tick
  PROVE  BreakerInv'
<1>1. \A p \in Partitions :
        /\ breaker'[p] \in PartitionState
        /\ breaker'[p].failures = breaker[p].failures
        /\ breaker'[p].class = breaker[p].class
        /\ breaker'[p].state = breaker[p].state
        /\ breaker'[p].canary = breaker[p].canary
  <2> TAKE p \in Partitions
  <2>1. breaker[p] \in PartitionState
    BY DEF BreakerInv, TypeOK
  <2>2. \/ breaker'[p] = breaker[p]
        \/ breaker'[p] = [breaker[p] EXCEPT !.age = @ + 1]
    BY DEF Tick, history
  <2>3. QED
    BY <2>1, <2>2 DEF PartitionState
<1>2. TypeOK'
  BY <1>1 DEF BreakerInv, TypeOK, Tick, history
<1>3. CountsTheStreak'
  BY <1>1 DEF BreakerInv, CountsTheStreak, Tick, history
<1>4. HalfOpenIsWatched'
  BY <1>1, Zenon DEF BreakerInv, HalfOpenIsWatched, Tick, history
<1>5. QED
  BY <1>2, <1>3, <1>4 DEF BreakerInv

LEMMA StepInv == BreakerInv /\ [Next]_vars => BreakerInv'
<1> SUFFICES ASSUME BreakerInv, [Next]_vars PROVE BreakerInv'
  OBVIOUS
<1>1. CASE Tick
  BY <1>1, TickStep
<1>2. ASSUME NEW w \in Workers, WorkerStep(w) PROVE BreakerInv'
  BY <1>2, ClaimStep, GateStep, SucceedStep, JudgeStep, FailStep, LeakStep
     DEF WorkerStep
<1>3. CASE UNCHANGED vars
  BY <1>3 DEF vars, BreakerInv, TypeOK, CountsTheStreak, HalfOpenIsWatched, history
<1>4. QED
  BY <1>1, <1>2, <1>3 DEF Next

LEMMA Invariance == Spec => []BreakerInv
BY InitInv, StepInv, PTL DEF Spec

-----------------------------------------------------------------------------
\* Every variable keeps its type.
THEOREM BreakerTypeCorrect == Spec => []TypeOK
<1>1. BreakerInv => TypeOK
  BY DEF BreakerInv
<1>2. QED
  BY <1>1, Invariance, PTL

\* A breaker opens on a run of failures of one class, no longer and no
\* shorter than the threshold (record_failure, record_success).
THEOREM OpensOnARun == Spec => []ClosedBelowThreshold
<1>1. BreakerInv => ClosedBelowThreshold
  BY DEF BreakerInv, CountsTheStreak, ClosedBelowThreshold
<1>2. QED
  BY <1>1, Invariance, PTL

\* While no claim behind its gate has ended without a record, a half-open
\* partition has a worker whose record will close it or open it again (allow).
THEOREM CanaryIsNeverStranded == Spec => []HalfOpenIsWatched
<1>1. BreakerInv => HalfOpenIsWatched
  BY DEF BreakerInv
<1>2. QED
  BY <1>1, Invariance, PTL

-----------------------------------------------------------------------------
(* One canary.                                                             *)

\* A half-open partition has granted its canary, whatever became of it.
Marked == \A p \in Partitions : breaker[p].state = "half_open" => breaker[p].canary

LEMMA AdmittedIsMarked ==
  ASSUME NEW b \in PartitionState, b.state = "half_open" => b.canary
  PROVE  Admitted(b).state = "half_open" => Admitted(b).canary
BY DEF PartitionState, Admitted

\* Only an admission makes a partition half open, and it marks the canary.
LEMMA MarkedStep ==
  ASSUME TypeOK, Marked, [Next]_vars
  PROVE  Marked'
<1>1. breaker \in [Partitions -> PartitionState]
  BY DEF TypeOK
<1>2. ASSUME NEW p \in Partitions, NEW b, breaker' = [breaker EXCEPT ![p] = b],
             b.state = "half_open" => b.canary
      PROVE  Marked'
  BY <1>1, <1>2 DEF Marked
<1>3. ASSUME NEW w \in Workers, WorkerStep(w)
      PROVE  Marked'
  <2>1. CASE PassGate(w)
    <3>1. PICK p \in Partitions : p = worker[w].partition
      BY <2>1 DEF PassGate, TypeOK
    <3>2. Admitted(breaker[p]).state = "half_open" => Admitted(breaker[p]).canary
      BY <1>1, AdmittedIsMarked DEF Marked
    <3>3. breaker' = [breaker EXCEPT ![p] = Admitted(breaker[p])]
      BY <2>1, <3>1 DEF PassGate
    <3> QED
      BY <1>2, <3>2, <3>3
  <2>2. CASE Succeed(w)
    <3>1. PICK p \in Partitions : p = worker[w].partition
      BY <2>2 DEF Succeed, TypeOK
    <3>2. Succeeded(breaker[p]).state # "half_open"
      BY <1>1, SucceededType
    <3>3. breaker' = [breaker EXCEPT ![p] = Succeeded(breaker[p])]
      BY <2>2, <3>1 DEF Succeed
    <3> QED
      BY <1>2, <3>2, <3>3
  <2>3. CASE Fail(w)
    <3>1. PICK p \in Partitions : p = worker[w].partition
      BY <2>3 DEF Fail, TypeOK
    <3>2. PICK class \in ErrorClasses :
            breaker' = [breaker EXCEPT ![p] = Failed(breaker[p], class)]
      BY <2>3, <3>1 DEF Fail
    <3>3. Failed(breaker[p], class).state # "half_open"
      BY <1>1, FailedType
    <3> QED
      BY <1>2, <3>2, <3>3
  <2>4. CASE (\E p \in Partitions : Claim(w, p)) \/ Judge(w) \/ Leak(w)
    BY <2>4 DEF Claim, Judge, Leak, Marked
  <2> QED
    BY <1>3, <2>1, <2>2, <2>3, <2>4 DEF WorkerStep
<1>4. CASE Tick
  <2>1. \A p \in Partitions : /\ breaker'[p].state = breaker[p].state
                              /\ breaker'[p].canary = breaker[p].canary
    BY <1>1, <1>4 DEF Tick, PartitionState
  <2> QED
    BY <2>1 DEF Marked
<1> QED
  BY <1>3, <1>4 DEF Next, vars, Marked

\* A half-open partition whose canary is marked lets nobody pass its gate.
LEMMA GateHolds ==
  ASSUME TypeOK, Marked, [Next]_vars,
         NEW p \in Partitions, breaker[p].state = "half_open",
         NEW w \in Workers, worker[w].pc = "gate", worker[w].partition = p
  PROVE  worker'[w].pc = "gate"
<1>1. worker \in [Workers -> Worker] /\ breaker[p] \in PartitionState
  BY DEF TypeOK
<1>2. ~Allows(breaker[p])
  BY DEF Marked, Allows
<1>3. ASSUME NEW v \in Workers, WorkerStep(v)
      PROVE  worker'[w] = worker[w]
  <2>1. ~PassGate(w)
    BY <1>2 DEF PassGate
  <2>2. CASE v = w
    BY <1>3, <2>1, <2>2 DEF WorkerStep, Claim, Succeed, Judge, Fail, Leak
  <2>3. CASE v # w
    BY <1>1, <1>3, <2>3
       DEF WorkerStep, Claim, PassGate, Succeed, Judge, Fail, Leak, Continues, Leaves
  <2> QED
    BY <2>2, <2>3
<1>4. CASE Tick \/ UNCHANGED vars
  BY <1>4 DEF Tick, vars
<1> QED
  BY <1>3, <1>4 DEF Next

\* While a partition is half open, the gate that granted one canary lets no
\* other worker of that partition pass, however many wait there, and also when
\* the canary's claim ended without a record (allow).
THEOREM HalfOpenHoldsTheRest == Spec => HalfOpenAdmitsOne
<1>1. Init => Marked
  BY DEF Init, FreshPartition, Marked
<1>2. TypeOK /\ Marked /\ [Next]_vars => Marked'
  BY MarkedStep
<1>3. TypeOK /\ Marked /\ [Next]_vars =>
        \A p \in Partitions :
          breaker[p].state = "half_open" /\ breaker'[p].state = "half_open"
          => \A w \in Workers :
               worker[w].pc = "gate" /\ worker[w].partition = p
               => worker'[w].pc = "gate"
  BY GateHolds
<1>4. QED
  BY <1>1, <1>2, <1>3, BreakerTypeCorrect, PTL DEF Spec, HalfOpenAdmitsOne
=============================================================================
