--------------------------- MODULE CircuitBreaker ---------------------------
(***************************************************************************)
(* The partitioned CircuitBreaker of src/comfy_controller/core/policy.py   *)
(* and the workers of runner.py that go through it: _await_breaker before  *)
(* the first submission of a claim, one record per outcome after that.     *)
(*                                                                         *)
(* A worker passes the gate once per claim, but a claim may record several *)
(* outcomes: a QC round or a repaired frame submits again behind the gate. *)
(* What a claim is for (rows, prompts, images) is in BatchRunner; here a   *)
(* claim is a unit of work of one partition.                               *)
(***************************************************************************)
EXTENDS Naturals, FiniteSets

CONSTANTS
  Workers,       \* the concurrency worker loops
  Partitions,    \* workflows
  NoPartition,   \* the partition of a worker between two claims
  ErrorClasses,  \* what the classifier tells apart
  Threshold,     \* failure_threshold (5)
  BaseCooldown,  \* cooldown_s (300 s), in clock ticks
  Claims,        \* bound: claims of one behaviour, per partition
  MaxRounds      \* bound: submissions behind the gate after the first

ASSUME BreakerAssumption ==
  /\ NoPartition \notin Partitions
  /\ Threshold \in Nat \ {0}
  /\ BaseCooldown \in Nat \ {0}
  /\ Claims \in [Partitions -> Nat]
  /\ MaxRounds \in Nat

\* last_failure_class before any failure, and after a success.
NoClass == "none"
ASSUME ClassAssumption == NoClass \notin ErrorClasses

VARIABLES
  breaker,  \* _partitions: one record per workflow
  worker,   \* where each worker is with its claim
  left,     \* claims that have still to be made, per partition
  \* history
  canaries, \* workers let through a half-open gate, their outcome unknown
  streak,   \* failures since the last success or closing, and their class
  leaked    \* partitions behind whose gate a claim ended without a record

history == <<canaries, streak, leaked>>
vars == <<breaker, worker, left, history>>

-----------------------------------------------------------------------------
(* The breaker.  `age' is now - opened_at, as far as it matters.           *)

PartitionState ==
  [state : {"closed", "open", "half_open"},
   failures : Nat,  \* consecutive_failures
   class : ErrorClasses \cup {NoClass},
   age : Nat, cooldown : Nat, canary : BOOLEAN]

FreshPartition ==
  [state |-> "closed", failures |-> 0, class |-> NoClass,
   age |-> 0, cooldown |-> 0, canary |-> FALSE]

CooledDown(b) == b.age >= b.cooldown

\* CircuitBreaker.allow: the answer, and the partition after the call.
Allows(b) ==
  \/ b.state = "closed"
  \/ b.state = "open" /\ CooledDown(b)
  \/ b.state = "half_open" /\ ~b.canary

\* Mutation: the canary is not marked.
AdmittedUnmarked(b) ==
  IF b.state = "closed" THEN b ELSE [b EXCEPT !.state = "half_open"]

Admitted(b) ==
  IF b.state = "closed" THEN b
  ELSE [b EXCEPT !.state = "half_open", !.canary = TRUE]

\* Mutation: a closing breaker remembers the failures that opened it.
SucceededWithoutReset(b) ==
  IF b.state = "half_open"
  THEN [b EXCEPT !.state = "closed", !.cooldown = 0, !.canary = FALSE]
  ELSE [b EXCEPT !.failures = 0, !.class = NoClass, !.canary = FALSE]

\* CircuitBreaker.record_success
Succeeded(b) ==
  LET after == [b EXCEPT !.failures = 0, !.class = NoClass, !.canary = FALSE] IN
  IF b.state = "half_open"
  THEN [after EXCEPT !.state = "closed", !.cooldown = 0]
  ELSE after

Counted(b, class) ==
  [b EXCEPT !.failures = IF b.class = class THEN @ + 1 ELSE 1, !.class = class]

\* A canary failed: open again, for twice as long.
Reopened(b) ==
  [b EXCEPT !.state = "open", !.age = 0, !.canary = FALSE,
            !.cooldown = 2 * IF @ = 0 THEN BaseCooldown ELSE @]

\* Mutation: the failed canary is counted as any other failure.
FailedAsAnyOther(b, class) ==
  LET after == Counted(b, class) IN
  IF after.failures >= Threshold
  THEN [after EXCEPT !.age = 0, !.cooldown = BaseCooldown,
                     !.state = IF @ = "closed" THEN "open" ELSE @]
  ELSE after

\* CircuitBreaker.record_failure
Failed(b, class) ==
  IF b.state = "half_open" THEN Reopened(b)
  ELSE LET after == Counted(b, class) IN
       IF after.failures >= Threshold
       THEN [after EXCEPT !.state = "open", !.age = 0, !.cooldown = BaseCooldown]
       ELSE after

-----------------------------------------------------------------------------
\* "gate": in _await_breaker; "run": from the gate, or from a verdict, to the
\* outcome of the submission; "judge": the outcome is recorded.
Pc == {"idle", "gate", "run", "judge"}
Worker == [pc : Pc, partition : Partitions \cup {NoPartition}, round : Nat]
Idle == [pc |-> "idle", partition |-> NoPartition, round |-> 0]

TypeOK ==
  /\ breaker \in [Partitions -> PartitionState]
  /\ worker \in [Workers -> Worker]
  /\ \A w \in Workers :
       worker[w].pc # "idle" => worker[w].partition \in Partitions
  /\ left \in [Partitions -> Nat]
  /\ canaries \in [Partitions -> SUBSET Workers]
  /\ streak \in [Partitions -> [class : ErrorClasses \cup {NoClass}, length : Nat]]
  /\ leaked \in SUBSET Partitions

Init ==
  /\ breaker = [p \in Partitions |-> FreshPartition]
  /\ worker = [w \in Workers |-> Idle]
  /\ left = Claims
  /\ canaries = [p \in Partitions |-> {}]
  /\ streak = [p \in Partitions |-> [class |-> NoClass, length |-> 0]]
  /\ leaked = {}

\* claim_next: any asset that may be claimed, whatever its workflow.
Claim(w, p) ==
  /\ worker[w].pc = "idle"
  /\ left[p] > 0
  /\ left' = [left EXCEPT ![p] = @ - 1]
  /\ worker' = [worker EXCEPT ![w] = [Idle EXCEPT !.pc = "gate", !.partition = p]]
  /\ UNCHANGED breaker /\ UNCHANGED history

\* The polling loop of _await_breaker, when allow answers yes.
PassGate(w) ==
  LET p == worker[w].partition IN
  /\ worker[w].pc = "gate"
  /\ Allows(breaker[p])
  /\ breaker' = [breaker EXCEPT ![p] = Admitted(@)]
  /\ worker' = [worker EXCEPT ![w].pc = "run"]
  /\ canaries' = IF breaker[p].state = "closed" THEN canaries
                 ELSE [canaries EXCEPT ![p] = @ \cup {w}]
  /\ UNCHANGED <<left, streak, leaked>>

\* The claim submits again behind the gate, or is done with.
Continues(w, pc) ==
  /\ worker[w].round < MaxRounds
  /\ worker' = [worker EXCEPT ![w].pc = pc, ![w].round = @ + 1]

Leaves(w) == worker' = [worker EXCEPT ![w] = Idle]

Resolved(w, p) == canaries' = [canaries EXCEPT ![p] = @ \ {w}]

Succeed(w) ==
  LET p == worker[w].partition IN
  /\ worker[w].pc = "run"
  /\ breaker' = [breaker EXCEPT ![p] = Succeeded(@)]
  /\ worker' = [worker EXCEPT ![w].pc = "judge"]
  /\ streak' = [streak EXCEPT ![p] = [class |-> NoClass, length |-> 0]]
  /\ Resolved(w, p)
  /\ UNCHANGED <<left, leaked>>

\* The verdict ends the claim or asks for another round; the next frame of a
\* sequence is one too.
Judge(w) ==
  /\ worker[w].pc = "judge"
  /\ Continues(w, "run") \/ Leaves(w)
  /\ UNCHANGED <<breaker, left>> /\ UNCHANGED history

\* The submission, the execution or the graph itself failed.  A single asset
\* gives its claim up; a frame is tried again at once.
Fail(w) ==
  LET p == worker[w].partition IN
  /\ worker[w].pc = "run"
  /\ \E class \in ErrorClasses :
       /\ breaker' = [breaker EXCEPT ![p] = Failed(@, class)]
       /\ streak' = IF breaker[p].state = "half_open" THEN streak
                    ELSE [streak EXCEPT ![p] =
                            [class |-> class,
                             length |-> IF @.class = class THEN @.length + 1 ELSE 1]]
  /\ Continues(w, "run") \/ Leaves(w)
  /\ Resolved(w, p)
  /\ UNCHANGED <<left, leaked>>

\* The claim ends in the worker's blanket handler, before any record: an
\* await_outcome that raises, the store refusing the submission, or the
\* timeout of a frame.
Leak(w) ==
  /\ worker[w].pc = "run"
  /\ Leaves(w)
  /\ leaked' = leaked \cup {worker[w].partition}
  /\ UNCHANGED <<breaker, left, canaries, streak>>

\* The clock, as long as some cooldown depends on it.
Tick ==
  /\ \E p \in Partitions : breaker[p].state = "open" /\ ~CooledDown(breaker[p])
  /\ breaker' = [p \in Partitions |->
       IF breaker[p].state = "open" /\ ~CooledDown(breaker[p])
       THEN [breaker[p] EXCEPT !.age = @ + 1] ELSE breaker[p]]
  /\ UNCHANGED <<worker, left>> /\ UNCHANGED history

WorkerStep(w) ==
  \/ \E p \in Partitions : Claim(w, p)
  \/ PassGate(w) \/ Succeed(w) \/ Judge(w) \/ Fail(w) \/ Leak(w)

Next == Tick \/ \E w \in Workers : WorkerStep(w)

Spec == Init /\ [][Next]_vars

\* Time passes, and the event loop runs every worker that can go on.
FairSpec == Spec /\ WF_vars(Tick) /\ \A w \in Workers : WF_vars(WorkerStep(w))

-----------------------------------------------------------------------------
(* Properties.                                                             *)

\* While a partition is half open, one worker at most was let through that
\* gate for it (policy.py, allow: "grants exactly one canary").
HalfOpenAdmitsOne ==
  [][\A p \in Partitions :
       breaker[p].state = "half_open" /\ breaker'[p].state = "half_open"
       => \A w \in Workers :
            worker[w].pc = "gate" /\ worker[w].partition = p
            => worker'[w].pc = "gate"]_vars

\* As long as every claim behind its gate records an outcome, a half-open
\* partition is never stranded: some worker there has still to record the one
\* that closes it or opens it again.
HalfOpenIsWatched ==
  \A p \in Partitions \ leaked : breaker[p].state = "half_open" =>
    /\ breaker[p].canary
    /\ \E w \in Workers : worker[w].pc = "run" /\ worker[w].partition = p

\* The breaker opens on a run of failures of one class and on nothing else:
\* while it is closed, its count is that run and is below the threshold.
ClosedBelowThreshold ==
  \A p \in Partitions : breaker[p].state = "closed" =>
    /\ breaker[p].failures < Threshold
    /\ breaker[p].failures = streak[p].length
    /\ breaker[p].class = streak[p].class

\* As long as every claim records an outcome, all get through their gates in
\* the end, whatever fails on the way.
EveryClaimEnds ==
  \/ <>(leaked # {})
  \/ <>[](/\ \A p \in Partitions : left[p] = 0
          /\ \A w \in Workers : worker[w].pc = "idle")

\* At most one canary of a partition is out at a time (policy.py, allow:
\* "further calls while that canary is outstanding are refused").
OneCanaryOutstanding ==
  \A p \in Partitions : Cardinality(canaries[p]) <= 1

\* The cooldown of a partition that has not had a success never gets shorter
\* (policy.py, record_failure: "re-open with a longer cooldown").
CooldownOnlyGrows ==
  [][\A p \in Partitions :
       breaker'[p].cooldown < breaker[p].cooldown
       => breaker'[p].state = "closed"]_vars

\* Unrelated work goes on while a workflow's breaker is open (runner.py):
\* never is every worker held at shut gates with a claim for an open one left.
UnrelatedWorkMoves ==
  ~ /\ \A w \in Workers :
         worker[w].pc = "gate" /\ ~Allows(breaker[worker[w].partition])
    /\ \E p \in Partitions : left[p] > 0 /\ breaker[p].state = "closed"

\* One bad workflow does not halt the others (policy.py, CircuitBreaker):
\* a partition that never failed gets all its claims made.
HealthyPartitionFinishes ==
  \A p \in Partitions :
    [](breaker[p].state = "closed") => <>(left[p] = 0)
=============================================================================
