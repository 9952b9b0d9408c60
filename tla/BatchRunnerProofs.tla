------------------------- MODULE BatchRunnerProofs -------------------------
(***************************************************************************)
(* Types of the batch runner; who may write a row: no claimed row is ever  *)
(* without a worker, a claim is exclusive, terminal rows are final; what a *)
(* row says is true; and the rows keep the life cycle of AssetLifecycle.   *)
(*                                                                         *)
(* The arguments rest on one observation: whatever a worker does, it does  *)
(* one of five things to the table and to its own hands (StepForm).        *)
(***************************************************************************)
EXTENDS BatchRunner, FiniteSetTheorems, TLAPS

HandsWell ==
  \A w \in Workers :
    /\ worker[w].pc \in Busy => worker[w].asset \in Assets
    /\ worker[w].pc \in {"record", "await", "judge"} => worker[w].prompt \in Issued

TypeInv == TypeOK /\ HandsWell

LEMMA GiveUpIsState ==
  ASSUME NEW class, NEW permanent \in BOOLEAN
  PROVE  /\ TerminalState("single", permanent) \in AssetState
         /\ GiveUpState(class, "single") \in AssetState
         /\ QcGiveUpState("single") \in AssetState
BY DEF TerminalState, GiveUpState, QcGiveUpState, AssetState, Finished

LEMMA TransitionType ==
  ASSUME RowsTypeOK,
         NEW a \in Assets, NEW state \in AssetState,
         NEW outputs \in SUBSET PromptIds, NEW waiting \in BOOLEAN,
         Transition(a, state, outputs, waiting)
  PROVE  RowsTypeOK'
<1>1. rows[a] \in Row
  BY DEF RowsTypeOK
<1>2. CrashesAfter(rows[a]) \in Nat
  BY <1>1 DEF Row, CrashesAfter
<1>3. [rows[a] EXCEPT !.state = state, !.outputs = outputs, !.waiting = waiting,
                      !.crashCount = CrashesAfter(rows[a]),
                      !.reconciling = FALSE] \in Row
  BY <1>1, <1>2 DEF Row
<1> QED
  BY <1>3 DEF RowsTypeOK, Transition

LEMMA AtType ==
  ASSUME NEW pc \in Pc
  PROVE  At(pc) \in Worker /\ At(pc).pc = pc /\ At(pc).attempt = 0
BY DEF At, Worker

\* One worker moves on, with hands that fit its new place.
LEMMA MoveType ==
  ASSUME TypeInv, NEW w \in Workers, NEW next \in Worker,
         worker' = [worker EXCEPT ![w] = next],
         next.pc \in Busy => next.asset \in Assets,
         next.pc \in {"record", "await", "judge"} => next.prompt \in Issued',
         Issued \subseteq Issued'
  PROVE  worker' \in [Workers -> Worker] /\ HandsWell'
<1>1. worker' \in [Workers -> Worker]
  BY DEF TypeInv, TypeOK
<1>2. ASSUME NEW v \in Workers
      PROVE  /\ worker'[v].pc \in Busy => worker'[v].asset \in Assets
             /\ worker'[v].pc \in {"record", "await", "judge"} =>
                  worker'[v].prompt \in Issued'
  <2>1. CASE v = w
    BY <2>1 DEF TypeInv, TypeOK
  <2>2. CASE v # w
    BY <2>2 DEF TypeInv, TypeOK, HandsWell
  <2> QED
    BY <2>1, <2>2
<1> QED
  BY <1>1, <1>2 DEF HandsWell

LEMMA GotoType ==
  ASSUME TypeInv, NEW w \in Workers, NEW pc \in {"check", "claim", "exited"},
         Goto(w, pc), Issued \subseteq Issued'
  PROVE  worker' \in [Workers -> Worker] /\ HandsWell'
<1>1. At(pc) \in Worker /\ At(pc).pc = pc
  BY AtType DEF Pc
<1>2. pc \notin Busy /\ pc \notin {"record", "await", "judge"}
  BY DEF Busy
<1> QED
  BY <1>1, <1>2, MoveType DEF Goto

LEMMA SettleType ==
  ASSUME TypeInv, NEW w \in Workers, worker[w].pc \in Busy,
         NEW state \in AssetState, NEW outputs \in SUBSET PromptIds,
         NEW waiting \in BOOLEAN, Settle(w, state, outputs, waiting),
         Issued \subseteq Issued'
  PROVE  RowsTypeOK' /\ worker' \in [Workers -> Worker] /\ HandsWell'
<1>1. worker[w].asset \in Assets
  BY DEF TypeInv, HandsWell
<1>2. RowsTypeOK'
  BY <1>1, TransitionType DEF Settle, TypeInv, TypeOK
<1> QED
  BY <1>2, GotoType DEF Settle

\* A worker keeps its outputs, which are prompts.
LEMMA KeptType ==
  ASSUME TypeInv, NEW w \in Workers, worker[w].pc \in Busy
  PROVE  Kept(w) \in SUBSET PromptIds
BY DEF TypeInv, TypeOK, HandsWell, Kept, RowsTypeOK, Row

LEMMA FailureSettles ==
  ASSUME NEW w, NEW class, HandleExecutionFailure(w, class)
  PROVE  \E state \in AssetState, waiting \in BOOLEAN :
           Settle(w, state, Kept(w), waiting)
<1>1. "retry_wait" \in AssetState /\ GiveUpState(class, "single") \in AssetState
  BY GiveUpIsState DEF AssetState, Unclaimed
<1> QED
  BY <1>1 DEF HandleExecutionFailure

LEMMA ExceptionSettles ==
  ASSUME NEW w, SkipAfterException(w)
  PROVE  Settle(w, "skipped_review", Kept(w), FALSE)
BY DEF SkipAfterException

LEMMA PermanentSettles ==
  ASSUME NEW w, FailAssetPermanently(w)
  PROVE  Settle(w, "permanent_error", Kept(w), FALSE)
BY DEF FailAssetPermanently

LEMMA KeptSettleType ==
  ASSUME TypeInv, NEW w \in Workers, worker[w].pc \in Busy,
         \/ \E state \in AssetState, waiting \in BOOLEAN :
              Settle(w, state, Kept(w), waiting)
         \/ SkipAfterException(w)
         \/ FailAssetPermanently(w)
         \/ \E class : HandleExecutionFailure(w, class),
         Issued \subseteq Issued'
  PROVE  RowsTypeOK' /\ worker' \in [Workers -> Worker] /\ HandsWell'
<1>1. \E state \in AssetState, waiting \in BOOLEAN : Settle(w, state, Kept(w), waiting)
  <2>1. "skipped_review" \in AssetState /\ "permanent_error" \in AssetState
    BY DEF AssetState, Finished
  <2> QED
    BY <2>1, FailureSettles, ExceptionSettles, PermanentSettles
<1> QED
  BY <1>1, KeptType, SettleType

-----------------------------------------------------------------------------
\* Types are kept by every action.

LEMMA TypeStartup ==
  ASSUME TypeInv, Startup
  PROVE  TypeInv'
<1> USE DEF TypeInv, TypeOK
<1>1. CASE Launch
  <2>1. FreshRow("pending") \in Row
    BY StoreAssumption DEF FreshRow, Row, AssetState, Unclaimed
  <2>2. RowsTypeOK'
    BY <1>1, <2>1 DEF Launch, LoadBatch, RowsTypeOK
  <2> QED
    BY <1>1, <2>2 DEF Launch, HandsWell, historyVars, eventCounts, Issued
<1>2. CASE BeginReconciliation
  <2>1. \A a \in Assets : [rows[a] EXCEPT !.reconciling = TRUE] \in Row
    BY DEF RowsTypeOK, Row
  <2>2. RowsTypeOK'
    BY <1>2, <2>1 DEF BeginReconciliation, FlagForReconciliation, RowsTypeOK
  <2>3. todo' \subseteq Assets
    BY <1>2 DEF BeginReconciliation, NeedingReconciliation
  <2> QED
    BY <1>2, <2>2, <2>3 DEF BeginReconciliation, HandsWell, historyVars, eventCounts, Issued
<1>3. CASE StartWorkers
  <2>1. At("check") \in Worker /\ At("check").pc = "check"
    BY AtType DEF Pc
  <2>2. worker' \in [Workers -> Worker] /\ HandsWell'
    BY <1>3, <2>1 DEF StartWorkers, HandsWell, Busy
  <2> QED
    BY <1>3, <2>2 DEF StartWorkers, RowsTypeOK, historyVars, eventCounts, Issued
<1>4. ASSUME NEW a \in Assets, ReconcileOne(a)
      PROVE  TypeInv'
  <2>1. \E state \in AssetState, outputs \in SUBSET PromptIds, waiting \in BOOLEAN :
          Reconciled(a, state, outputs, waiting)
    <3>1. rows[a].outputs \in SUBSET PromptIds
      BY DEF RowsTypeOK, Row
    <3>2. \A probed \in BOOLEAN : FoundOutputs(a, probed) \in SUBSET PromptIds
      BY DEF FoundOutputs, OutputsOnDisk, FilesOf, HistoryEntry
    <3>3. /\ {"retry_wait", "saved", "judge_unavailable"} \subseteq AssetState
          /\ TerminalState("single", FALSE) \in AssetState
          /\ GiveUpState("unknown", "single") \in AssetState
      BY GiveUpIsState DEF AssetState, Unclaimed, Finished
    <3>4. CASE ReconcileGivesUp(a)
      BY <3>4, <3>1, <3>3 DEF ReconcileGivesUp
    <3>5. CASE ReconcileFailed(a)
      BY <3>5, <3>1, <3>3 DEF ReconcileFailed
    <3>6. ASSUME NEW probed \in BOOLEAN, ReconcileJudged(a, FoundOutputs(a, probed))
          PROVE  \E state \in AssetState, outputs \in SUBSET PromptIds,
                    waiting \in BOOLEAN : Reconciled(a, state, outputs, waiting)
      BY <3>6, <3>1, <3>2, <3>3 DEF ReconcileJudged
    <3>7. CASE ReconcileRequeues(a)
      BY <3>7, <3>1, <3>3 DEF ReconcileRequeues
    <3> QED
      BY <1>4, <3>4, <3>5, <3>6, <3>7 DEF ReconcileOne
  <2>2. RowsTypeOK' /\ todo' \subseteq Assets
    BY <2>1, TransitionType DEF Reconciled
  <2>3. rejected' \subseteq PromptIds
    <3>1. \A probed \in BOOLEAN : FoundOutputs(a, probed) \in SUBSET PromptIds
      BY DEF FoundOutputs, OutputsOnDisk, FilesOf, HistoryEntry
    <3> QED
      BY <1>4, <3>1 DEF ReconcileOne, ReconcileGivesUp, ReconcileFailed,
           ReconcileJudged, ReconcileRequeues
  <2> QED
    BY <2>1, <2>2, <2>3 DEF Reconciled, HandsWell, eventCounts, Issued
<1> QED
  BY <1>1, <1>2, <1>3, <1>4 DEF Startup

LEMMA TypeGateAndRound ==
  ASSUME TypeInv, NEW w \in Workers,
         \/ Check(w) \/ Claim(w) \/ FindNothing(w) \/ PassGate(w) \/ YieldForHalt(w)
  PROVE  TypeInv'
<1> USE DEF TypeInv
<1>1. CASE Check(w)
  <2>1. worker' \in [Workers -> Worker] /\ HandsWell'
    BY <1>1, GotoType DEF Check, Issued
  <2> QED
    BY <1>1, <2>1 DEF Check, TypeOK, RowsTypeOK, historyVars, eventCounts, Issued
<1>2. CASE Claim(w)
  <2>1. PICK a \in Assets :
          /\ ClaimNext(a)
          /\ worker' = [worker EXCEPT ![w] =
               [At("gate") EXCEPT !.asset = a, !.attempt = rows[a].attempt + 1]]
    BY <1>2 DEF Claim
  <2>2. rows[a] \in Row
    BY DEF TypeOK, RowsTypeOK
  <2>3. rows[a].attempt + 1 \in Nat /\ "claimed" \in AssetState
    BY <2>2 DEF Row, AssetState, InFlight
  <2>4. RowsTypeOK'
    BY <2>1, <2>2, <2>3 DEF ClaimNext, TypeOK, RowsTypeOK, Row
  <2> DEFINE next == [At("gate") EXCEPT !.asset = a, !.attempt = rows[a].attempt + 1]
  <2>5. next \in Worker /\ next.pc = "gate" /\ next.asset = a
    <3>1. At("gate") \in Worker /\ At("gate").pc = "gate"
      BY AtType DEF Pc, Busy
    <3> QED
      BY <2>3, <3>1 DEF Worker
  <2>6. worker' = [worker EXCEPT ![w] = next]
    BY <2>1
  <2>7. Issued \subseteq Issued'
    BY <1>2 DEF Claim, Issued
  <2> HIDE DEF next
  <2>8. worker' \in [Workers -> Worker] /\ HandsWell'
    BY <2>5, <2>6, <2>7, MoveType
  <2> QED
    BY <1>2, <2>4, <2>8 DEF Claim, TypeOK, historyVars, eventCounts, Issued
<1>3. CASE FindNothing(w)
  <2>1. worker' \in [Workers -> Worker] /\ HandsWell'
    BY <1>3, GotoType DEF FindNothing, Issued
  <2> QED
    BY <1>3, <2>1 DEF FindNothing, TypeOK, RowsTypeOK, historyVars, eventCounts, Issued
<1>4. CASE PassGate(w)
  <2>1. worker[w].pc \in Busy /\ Issued \subseteq Issued' /\ worker[w] \in Worker
    BY <1>4 DEF PassGate, Busy, Issued, TypeOK
  <2>2. RowsTypeOK' /\ worker' \in [Workers -> Worker] /\ HandsWell'
    <3>1. CASE worker' = [worker EXCEPT ![w].pc = "round"] /\ UNCHANGED rows
      <4> DEFINE next == [worker[w] EXCEPT !.pc = "round"]
      <4>1. next \in Worker /\ next.pc = "round" /\ next.asset = worker[w].asset
        BY <2>1 DEF Worker, Pc, Busy
      <4>2. worker' = [worker EXCEPT ![w] = next]
        BY <3>1 DEF TypeOK
      <4>3. next.asset \in Assets
        BY <2>1, <4>1 DEF HandsWell
      <4> HIDE DEF next
      <4> QED
        BY <2>1, <3>1, <4>1, <4>2, <4>3, MoveType DEF TypeOK, RowsTypeOK
    <3>2. CASE FailAssetPermanently(w)
      BY <3>2, <2>1, KeptSettleType
    <3> QED
      BY <1>4, <3>1, <3>2 DEF PassGate
  <2> QED
    BY <1>4, <2>2 DEF PassGate, TypeOK, historyVars, eventCounts, Issued
<1>5. CASE YieldForHalt(w)
  <2>1. worker[w].pc \in Busy /\ Issued \subseteq Issued' /\ "retry_wait" \in AssetState
    BY <1>5 DEF YieldForHalt, Busy, Issued, AssetState, Unclaimed
  <2>2. RowsTypeOK' /\ worker' \in [Workers -> Worker] /\ HandsWell'
    BY <1>5, <2>1, KeptSettleType DEF YieldForHalt
  <2>3. yields' \in [Assets -> Nat]
    BY <1>5, <2>1 DEF YieldForHalt, TypeOK, HandsWell
  <2> QED
    BY <1>5, <2>2, <2>3 DEF YieldForHalt, TypeOK, eventCounts, Issued
<1> QED
  BY <1>1, <1>2, <1>3, <1>4, <1>5

LEMMA AbandonType ==
  ASSUME TypeInv, NEW ids, Abandon(ids)
  PROVE  orphans' \subseteq PromptIds
BY DEF Abandon, LivePrompts, TypeInv, TypeOK

LEMMA TypeProcessDies ==
  ASSUME TypeInv, ProcessDies, kills' \in Nat
  PROVE  TypeInv'
<1>1. At("check") \in Worker /\ At("check").pc = "check"
  BY AtType DEF Pc
<1>2. worker' \in [Workers -> Worker] /\ HandsWell'
  BY <1>1 DEF ProcessDies, HandsWell, Busy
<1>3. crashes' \in Nat
  BY DEF ProcessDies, TypeInv, TypeOK
<1>4. RowsTypeOK' /\ Issued' \subseteq PromptIds /\ prompts' \in [Issued' -> Prompt]
  BY DEF ProcessDies, TypeInv, TypeOK, RowsTypeOK, Issued
<1>5. /\ rejected' \subseteq PromptIds /\ superseded' \subseteq PromptIds
      /\ yields' \in [Assets -> Nat] /\ orphans' \subseteq PromptIds
      /\ halts' \in Nat /\ comfyRestarts' \in Nat /\ approvals' \in Nat
  BY AbandonType DEF ProcessDies, TypeInv, TypeOK
<1>6. /\ proc' \in {"down", "loaded", "reconciling", "running"}
      /\ lastExit' \in {"none", "finished", "halted", "crashed"}
      /\ todo' \subseteq Assets /\ stop' \in BOOLEAN
      /\ halt' \in {"none", "budget", "tripped"}
  BY DEF ProcessDies
<1> QED
  BY <1>2, <1>3, <1>4, <1>5, <1>6 DEF TypeInv, TypeOK

\* A prompt that a worker puts on the server is well formed.
LEMMA AcceptType ==
  ASSUME TypeInv, NEW w \in Workers, worker[w].pc \in Busy,
         NEW ids \in SUBSET PromptIds, Accept(w, ids)
  PROVE  /\ Issued' = Issued \cup ids
         /\ Issued' \subseteq PromptIds
         /\ prompts' \in [Issued' -> Prompt]
<1>1. worker[w] \in Worker /\ worker[w].asset \in Assets
  BY DEF TypeInv, TypeOK, HandsWell
<1>2. NewPrompt(w) \in Prompt
  BY <1>1 DEF NewPrompt, Prompt, Worker
<1> QED
  BY <1>2 DEF Accept, TypeInv, TypeOK, Issued

\* A call of comfy.submit ends in one of three ways, whatever it left behind.
LEMMA SubmitForm ==
  ASSUME NEW w, Submit(w)
  PROVE  \E lost \in SUBSET (PromptIds \ Issued) :
           /\ orphans' = orphans \cup lost
           /\ \/ \E p \in PromptIds \ (Issued \cup lost) :
                   Accept(w, lost \cup {p}) /\ Submitted(w, p)
              \/ Accept(w, lost) /\ \E class \in ErrorClass : HandleExecutionFailure(w, class)
              \/ lost = {} /\ prompts' = prompts /\ FailAssetPermanently(w)
<1>1. Unanswered \subseteq SUBSET (PromptIds \ Issued)
  BY DEF Unanswered
<1>2. "temporary" \in ErrorClass
  BY DEF ErrorClass
<1> QED
  BY <1>1, <1>2 DEF Submit

LEMMA TypeSubmit ==
  ASSUME TypeInv, NEW w \in Workers, Submit(w)
  PROVE  TypeInv'
<1>1. worker[w].pc \in Busy /\ worker[w] \in Worker /\ worker[w].asset \in Assets
  BY DEF Submit, Busy, TypeInv, TypeOK, HandsWell
<1> DEFINE Goal == /\ Issued' \subseteq PromptIds /\ prompts' \in [Issued' -> Prompt]
                   /\ RowsTypeOK' /\ worker' \in [Workers -> Worker] /\ HandsWell'
<1>2. ASSUME NEW ids \in SUBSET PromptIds, NEW p \in ids,
             Accept(w, ids), Submitted(w, p)
      PROVE  Goal
  <2>1. Issued' = Issued \cup ids /\ Issued' \subseteq PromptIds
        /\ prompts' \in [Issued' -> Prompt]
    BY <1>1, <1>2, AcceptType
  <2> DEFINE next == [worker[w] EXCEPT !.pc = "record", !.prompt = p]
  <2>2. next \in Worker /\ next.asset = worker[w].asset /\ next.prompt = p
    BY <1>1 DEF Worker, Pc, Busy
  <2>3. worker' = [worker EXCEPT ![w] = next]
    BY <1>2 DEF Submitted, TypeInv, TypeOK
  <2>4. next.asset \in Assets /\ next.prompt \in Issued' /\ Issued \subseteq Issued'
    BY <1>1, <2>1, <2>2
  <2>5. RowsTypeOK'
    BY <1>2 DEF Submitted, TypeInv, TypeOK, RowsTypeOK
  <2> HIDE DEF next
  <2> QED
    BY <2>1, <2>2, <2>3, <2>4, <2>5, MoveType
<1>3. ASSUME NEW ids \in SUBSET PromptIds, Accept(w, ids),
             NEW class, HandleExecutionFailure(w, class)
      PROVE  Goal
  <2>1. Issued' = Issued \cup ids /\ Issued' \subseteq PromptIds
        /\ prompts' \in [Issued' -> Prompt]
    BY <1>1, <1>3, AcceptType
  <2> QED
    BY <1>1, <1>3, <2>1, KeptSettleType
<1>4. ASSUME UNCHANGED prompts,
             \/ FailAssetPermanently(w)
             \/ \E class : HandleExecutionFailure(w, class)
      PROVE  Goal
  <2>1. Issued' = Issued
    BY <1>4 DEF Issued
  <2> QED
    BY <1>1, <1>4, <2>1, KeptSettleType DEF TypeInv, TypeOK
<1>5. PICK lost \in SUBSET (PromptIds \ Issued) :
        /\ orphans' = orphans \cup lost
        /\ \/ \E p \in PromptIds \ (Issued \cup lost) :
                Accept(w, lost \cup {p}) /\ Submitted(w, p)
           \/ Accept(w, lost) /\ \E class \in ErrorClass : HandleExecutionFailure(w, class)
           \/ lost = {} /\ prompts' = prompts /\ FailAssetPermanently(w)
  BY SubmitForm
<1>6. Goal
  <2> HIDE DEF Goal
  <2>1. ASSUME NEW p \in PromptIds, Accept(w, lost \cup {p}), Submitted(w, p)
        PROVE  Goal
    <3>1. lost \cup {p} \in SUBSET PromptIds /\ p \in lost \cup {p}
      OBVIOUS
    <3> QED
      BY <1>2, <2>1, <3>1
  <2>2. ASSUME Accept(w, lost), NEW class, HandleExecutionFailure(w, class)
        PROVE  Goal
    BY <1>3, <2>2
  <2> QED
    BY <1>4, <1>5, <2>1, <2>2
<1>7. orphans' \subseteq PromptIds
  BY <1>5 DEF TypeInv, TypeOK
<1> QED
  BY <1>6, <1>7 DEF Submit, TypeInv, TypeOK, eventCounts

LEMMA TypeRecordAndAwait ==
  ASSUME TypeInv, NEW w \in Workers, Record(w) \/ Await(w)
  PROVE  TypeInv'
<1>1. /\ worker[w].pc \in Busy /\ worker[w] \in Worker /\ worker[w].asset \in Assets
      /\ worker[w].prompt \in Issued /\ Issued' = Issued
  BY DEF Record, Await, Busy, TypeInv, TypeOK, HandsWell, Issued
<1>2. RowsTypeOK' /\ worker' \in [Workers -> Worker] /\ HandsWell'
  <2>1. ASSUME NEW pc \in {"await", "judge"}, worker' = [worker EXCEPT ![w].pc = pc]
        PROVE  worker' \in [Workers -> Worker] /\ HandsWell'
    <3> DEFINE next == [worker[w] EXCEPT !.pc = pc]
    <3>1. /\ next \in Worker /\ next.asset = worker[w].asset
          /\ next.prompt = worker[w].prompt
      BY <1>1 DEF Worker, Pc, Busy
    <3>2. worker' = [worker EXCEPT ![w] = next]
      BY <2>1 DEF TypeInv, TypeOK
    <3>3. next.asset \in Assets /\ next.prompt \in Issued'
      BY <1>1, <3>1
    <3> HIDE DEF next
    <3> QED
      BY <1>1, <3>1, <3>2, <3>3, MoveType
  <2>2. ASSUME RecordSubmission(worker[w].asset, worker[w].prompt)
        PROVE  RowsTypeOK'
    <3>1. rows[worker[w].asset] \in Row /\ worker[w].prompt \in PromptIds
      BY <1>1 DEF TypeInv, TypeOK, RowsTypeOK
    <3>2. "submitted" \in AssetState
      BY DEF AssetState, InFlight
    <3> QED
      BY <1>1, <2>2, <3>1, <3>2 DEF RecordSubmission, TypeInv, TypeOK, RowsTypeOK, Row
  <2>3. ASSUME \/ SkipAfterException(w)
               \/ \E class : HandleExecutionFailure(w, class)
        PROVE  RowsTypeOK' /\ worker' \in [Workers -> Worker] /\ HandsWell'
    BY <1>1, <2>3, KeptSettleType
  <2>4. ASSUME UNCHANGED rows
        PROVE  RowsTypeOK'
    BY <2>4 DEF TypeInv, TypeOK, RowsTypeOK
  <2>5. CASE Record(w)
    BY <2>5, <2>1, <2>2, <2>3 DEF Record
  <2>6. CASE Await(w)
    BY <2>6, <2>1, <2>3, <2>4 DEF Await
  <2> QED
    BY <2>5, <2>6
<1>3. orphans' \subseteq PromptIds
  BY AbandonType DEF Record, Await, TypeInv, TypeOK
<1> QED
  BY <1>1, <1>2, <1>3 DEF Record, Await, TypeInv, TypeOK, eventCounts

LEMMA TypeJudge ==
  ASSUME TypeInv, NEW w \in Workers, Judge(w)
  PROVE  TypeInv'
<1>1. /\ worker[w].pc \in Busy /\ worker[w] \in Worker /\ worker[w].asset \in Assets
      /\ worker[w].prompt \in Issued /\ Issued' = Issued
      /\ {worker[w].prompt} \in SUBSET PromptIds
  BY DEF Judge, Busy, TypeInv, TypeOK, HandsWell, Issued
<1>2. RowsTypeOK' /\ worker' \in [Workers -> Worker] /\ HandsWell'
  <2>1. ASSUME NEW state \in AssetState, Settle(w, state, {worker[w].prompt}, FALSE)
        PROVE  RowsTypeOK' /\ worker' \in [Workers -> Worker] /\ HandsWell'
    BY <1>1, <2>1, SettleType
  <2>2. CASE Settle(w, "saved", {worker[w].prompt}, FALSE)
    BY <2>1, <2>2 DEF AssetState, Finished
  <2>3. CASE NotPassed(w)
    <3>1. CASE /\ worker' = [worker EXCEPT ![w].pc = "round", ![w].round = @ + 1]
               /\ UNCHANGED rows
      <4> DEFINE next == [worker[w] EXCEPT !.pc = "round", !.round = @ + 1]
      <4>1. worker[w].round + 1 \in Nat
        BY <1>1 DEF Worker
      <4>2. next \in Worker /\ next.asset = worker[w].asset /\ next.pc = "round"
        BY <1>1, <4>1 DEF Worker, Pc, Busy
      <4>3. worker' = [worker EXCEPT ![w] = next]
        BY <3>1 DEF TypeInv, TypeOK
      <4>4. next.asset \in Assets
        BY <1>1, <4>2
      <4>5. RowsTypeOK'
        BY <3>1 DEF TypeInv, TypeOK, RowsTypeOK
      <4> HIDE DEF next
      <4> QED
        BY <1>1, <4>2, <4>3, <4>4, <4>5, MoveType
    <3>2. CASE Settle(w, QcGiveUpState("single"), {worker[w].prompt}, FALSE)
      BY <2>1, <3>2, GiveUpIsState
    <3>3. CASE Settle(w, "parked_approval", {worker[w].prompt}, FALSE)
      BY <2>1, <3>3 DEF AssetState, Finished
    <3> QED
      BY <2>3, <3>1, <3>2, <3>3 DEF NotPassed
  <2>4. CASE NoVerdict(w)
    <3>1. CASE Settle(w, "judge_unavailable", {worker[w].prompt}, FALSE)
      BY <2>1, <3>1 DEF AssetState, Finished
    <3>2. CASE SkipAfterException(w)
      BY <1>1, <3>2, KeptSettleType
    <3>3. CASE Settle(w, TerminalState("single", FALSE), {worker[w].prompt}, FALSE)
      BY <2>1, <3>3, GiveUpIsState
    <3> QED
      BY <2>4, <3>1, <3>2, <3>3 DEF NoVerdict
  <2> QED
    BY <2>2, <2>3, <2>4 DEF Judge
<1>3. rejected' \subseteq PromptIds
  BY <1>1 DEF Judge, NotPassed, TypeInv, TypeOK
<1> QED
  BY <1>1, <1>2, <1>3 DEF Judge, TypeInv, TypeOK, eventCounts

LEMMA TypePromptEnds ==
  ASSUME TypeInv, NEW p, NEW status \in {"succeeded", "failed"},
         NEW file \in {"intact", "none"}, PromptEnds(p, status, file)
  PROVE  TypeInv'
<1>1. p \in Issued /\ prompts[p] \in Prompt
  BY DEF PromptEnds, TypeInv, TypeOK
<1>2. [prompts[p] EXCEPT !.status = status, !.listed = TRUE, !.file = file] \in Prompt
  BY <1>1 DEF Prompt
<1>3. Issued' = Issued /\ prompts' \in [Issued -> Prompt]
  BY <1>1, <1>2 DEF PromptEnds, TypeInv, TypeOK, Issued
<1>4. orphans' \subseteq PromptIds
  BY DEF PromptEnds, TypeInv, TypeOK
<1> QED
  BY <1>3, <1>4 DEF PromptEnds, TypeInv, TypeOK, HandsWell, RowsTypeOK, runVars,
       historyVars, eventCounts

LEMMA TypeComfyRestarts ==
  ASSUME TypeInv, ComfyRestarts
  PROVE  TypeInv'
<1>1. PICK left \in [Issued -> {"none", "intact", "corrupt"}] :
        prompts' = [p \in Issued |->
          [prompts[p] EXCEPT !.status = IF @ = "live" THEN "lost" ELSE @,
                             !.listed = FALSE, !.file = left[p]]]
  BY DEF ComfyRestarts
<1>2. \A p \in Issued : prompts[p] \in Prompt
  BY DEF TypeInv, TypeOK
<1>3. \A p \in Issued : (IF prompts[p].status = "live" THEN "lost" ELSE prompts[p].status)
                          \in {"live", "succeeded", "failed", "lost"}
  BY <1>2 DEF Prompt
<1>4. Issued' = Issued
  BY <1>1 DEF Issued
<1>5. prompts' \in [Issued -> Prompt]
  BY <1>1, <1>2, <1>3 DEF Prompt
<1>6. comfyRestarts' \in Nat
  <2>1. comfyRestarts' = comfyRestarts + 1
    BY Zenon DEF ComfyRestarts
  <2> QED
    BY <2>1 DEF TypeInv, TypeOK
<1> QED
  BY <1>4, <1>5, <1>6 DEF ComfyRestarts, TypeInv, TypeOK, HandsWell, RowsTypeOK,
       runVars, historyVars

LEMMA TypeApprove ==
  ASSUME TypeInv, NEW a \in Assets, Approve(a)
  PROVE  TypeInv'
<1>1. FreshRow("pending") \in Row
  BY DEF FreshRow, Row, AssetState, Unclaimed
<1>2. RowsTypeOK'
  BY <1>1 DEF Approve, RequeueForRegeneration, TypeInv, TypeOK, RowsTypeOK
<1>3. superseded' \subseteq PromptIds /\ yields' \in [Assets -> Nat]
  BY DEF Approve, TypeInv, TypeOK
<1>4. approvals' \in Nat
  BY DEF Approve, TypeInv, TypeOK
<1> QED
  BY <1>2, <1>3, <1>4 DEF Approve, TypeInv, TypeOK, HandsWell, Issued, runVars

LEMMA TypeRetryFallsDue ==
  ASSUME TypeInv, NEW a \in Assets, RetryFallsDue(a)
  PROVE  TypeInv'
<1>1. rows[a] \in Row
  BY DEF TypeInv, TypeOK, RowsTypeOK
<1>2. RowsTypeOK'
  BY <1>1 DEF RetryFallsDue, BackoffElapses, TypeInv, TypeOK, RowsTypeOK, Row
<1> QED
  BY <1>2 DEF RetryFallsDue, TypeInv, TypeOK, HandsWell, Issued, runVars,
       historyVars, eventCounts

LEMMA TypeHaltRequested ==
  ASSUME TypeInv, HaltRequested
  PROVE  TypeInv'
<1>1. halts' \in Nat
  BY DEF HaltRequested, TypeInv, TypeOK
<1>2. stop' \in BOOLEAN /\ halt' \in {"none", "budget", "tripped"}
  BY DEF HaltRequested, TypeInv, TypeOK
<1> QED
  BY <1>1, <1>2 DEF HaltRequested, TypeInv, TypeOK, HandsWell, RowsTypeOK, Issued,
       historyVars

LEMMA TypeReturn ==
  ASSUME TypeInv, Return
  PROVE  TypeInv'
BY DEF Return, TypeInv, TypeOK, HandsWell, RowsTypeOK, Issued, historyVars, eventCounts

LEMMA TypeStutter ==
  ASSUME TypeInv, UNCHANGED vars
  PROVE  TypeInv'
BY DEF vars, TypeInv, TypeOK, HandsWell, RowsTypeOK, Issued

LEMMA TypeDying ==
  ASSUME TypeInv, Kill \/ (\E w \in Workers : RefusedAtGate(w))
  PROVE  TypeInv'
<1>1. ProcessDies
  BY DEF Kill, RefusedAtGate
<1>2. kills' \in Nat
  <2>1. CASE Kill
    BY <2>1 DEF Kill, TypeInv, TypeOK
  <2>2. CASE \E w \in Workers : RefusedAtGate(w)
    BY <2>2 DEF RefusedAtGate, TypeInv, TypeOK
  <2> QED
    BY <2>1, <2>2
<1> QED
  BY <1>1, <1>2, TypeProcessDies

LEMMA TypeStep ==
  ASSUME TypeInv, [Next]_vars
  PROVE  TypeInv'
<1>1. CASE Startup
  BY <1>1, TypeStartup
<1>2. ASSUME NEW w \in Workers, WorkerStep(w)
      PROVE  TypeInv'
  BY <1>2, TypeGateAndRound, TypeDying, TypeSubmit, TypeRecordAndAwait, TypeJudge
     DEF WorkerStep
<1>3. CASE Environment
  <2>1. ASSUME NEW p \in PromptIds, ComfySucceeds(p) \/ ComfyFails(p)
        PROVE  TypeInv'
    BY <2>1, TypePromptEnds DEF ComfySucceeds, ComfyFails
  <2> QED
    BY <1>3, <2>1, TypeComfyRestarts, TypeDying, TypeHaltRequested, TypeApprove,
       TypeRetryFallsDue DEF Environment
<1> QED
  BY <1>1, <1>2, <1>3, TypeReturn, TypeStutter DEF Next

LEMMA TypeInit ==
  ASSUME Init
  PROVE  TypeInv
<1>1. FreshRow("absent") \in Row
  BY DEF FreshRow, Row
<1>2. RowsTypeOK
  BY <1>1 DEF Init, StoreInit, RowsTypeOK
<1>3. At("check") \in Worker /\ At("check").pc = "check"
  BY AtType DEF Pc
<1>4. worker \in [Workers -> Worker] /\ HandsWell
  BY <1>3 DEF Init, HandsWell, Busy
<1>5. Issued \subseteq PromptIds /\ prompts \in [Issued -> Prompt]
  BY DEF Init, Issued
<1> QED
  BY <1>2, <1>4, <1>5 DEF Init, TypeInv, TypeOK

\* Types: for any number of assets, workers, prompts, retries, kills and
\* faults, every row, worker and prompt of the batch runner stays well formed,
\* and what a busy worker holds is an asset of the manifest and a prompt that
\* ComfyUI has accepted.
THEOREM TypeCorrect == Spec => []TypeOK
<1>1. Init => TypeInv
  BY TypeInit
<1>2. TypeInv /\ [Next]_vars => TypeInv'
  BY TypeStep
<1>3. TypeInv => TypeOK
  BY DEF TypeInv
<1> QED
  BY <1>1, <1>2, <1>3, PTL DEF Spec

-----------------------------------------------------------------------------
(* What a step of a worker can be.                                         *)


\* The worker goes round its loop, without an asset.
Idles(w) ==
  /\ worker[w].pc \notin Busy
  /\ rows' = rows /\ yields' = yields
  /\ \E pc \in {"check", "claim", "exited"} : Goto(w, pc)

\* It claims an asset.
Claims(w) ==
  /\ worker[w].pc \notin Busy
  /\ yields' = yields
  /\ \E a \in Assets :
       /\ ClaimNext(a)
       /\ worker' = [worker EXCEPT ![w] =
            [At("gate") EXCEPT !.asset = a, !.attempt = rows[a].attempt + 1]]

\* It goes on with its asset; it only comes to await or judge a prompt that it
\* was awaiting already.
Continues(w) ==
  /\ worker[w].pc \in Busy
  /\ rows' = rows /\ yields' = yields
  /\ \E next \in Worker :
       /\ worker' = [worker EXCEPT ![w] = next]
       /\ next.pc \in Busy
       /\ next.asset = worker[w].asset /\ next.attempt = worker[w].attempt
       /\ next.pc \in {"await", "judge"} =>
            worker[w].pc = "await" /\ next.prompt = worker[w].prompt

\* It records the prompt it has submitted.
Records(w) ==
  /\ worker[w].pc = "record"
  /\ RecordSubmission(worker[w].asset, worker[w].prompt)
  /\ worker' = [worker EXCEPT ![w].pc = "await"]
  /\ yields' = yields

\* It puts the asset down, for good or within what the retry policy allows.
Settles(w) ==
  /\ worker[w].pc \in Busy
  /\ \E state \in {"retry_wait"} \cup Finished, outputs \in SUBSET PromptIds,
        waiting \in BOOLEAN :
       /\ Settle(w, state, outputs, waiting)
       /\ waiting => state = "retry_wait"
       /\ \/ state \in Finished /\ yields' = yields
          \/ worker[w].attempt <= TemporaryRetries /\ yields' = yields
          \/ yields' = [yields EXCEPT ![worker[w].asset] = @ + 1]

StepForm(w) ==
  /\ proc = "running" /\ proc' = proc /\ todo' = todo
  /\ crashes' = crashes /\ approvals' = approvals
  /\ Idles(w) \/ Claims(w) \/ Continues(w) \/ Records(w) \/ Settles(w)

-----------------------------------------------------------------------------
\* Giving up always ends in a terminal state.
LEMMA GiveUpIsFinished ==
  ASSUME NEW class, NEW permanent \in BOOLEAN
  PROVE  /\ TerminalState("single", permanent) \in Finished
         /\ GiveUpState(class, "single") \in Finished
         /\ QcGiveUpState("single") \in Finished
BY DEF TerminalState, GiveUpState, QcGiveUpState, Finished

\* No class of error is retried more often than a temporary one.
LEMMA RetryWithinLadder ==
  ASSUME NEW class \in ErrorClass, NEW attempt \in Nat,
         ShouldRetry(class, AttemptsBefore(attempt))
  PROVE  attempt <= TemporaryRetries
<1>1. RetryLimit(class) \in Nat /\ RetryLimit(class) <= TemporaryRetries
  BY RetryAssumption DEF RetryLimit, ErrorClass
<1>2. AttemptsBefore(attempt) < RetryLimit(class)
  BY DEF ShouldRetry
<1> QED
  BY <1>1, <1>2, RetryAssumption DEF AttemptsBefore

\* What a failed execution leads to.
LEMMA FailureForm ==
  ASSUME TypeInv, NEW w \in Workers, worker[w].pc \in Busy, yields' = yields,
         NEW class \in ErrorClass, HandleExecutionFailure(w, class)
  PROVE  Settles(w)
<1>1. Kept(w) \in SUBSET PromptIds /\ worker[w].attempt \in Nat
  BY KeptType DEF TypeInv, TypeOK, Worker
<1>2. CASE ShouldRetry(class, AttemptsBefore(worker[w].attempt))
  <2>1. worker[w].attempt <= TemporaryRetries
    BY <1>1, <1>2, RetryWithinLadder
  <2> QED
    BY <1>1, <1>2, <2>1 DEF HandleExecutionFailure, Settles
<1>3. CASE ~ShouldRetry(class, AttemptsBefore(worker[w].attempt))
  <2>1. GiveUpState(class, "single") \in Finished
    BY GiveUpIsFinished
  <2> QED
    BY <1>1, <1>3, <2>1 DEF HandleExecutionFailure, Settles
<1> QED
  BY <1>2, <1>3

\* What an exception or an unusable graph leads to.
LEMMA ExceptionForm ==
  ASSUME TypeInv, NEW w \in Workers, worker[w].pc \in Busy, yields' = yields,
         SkipAfterException(w) \/ FailAssetPermanently(w)
  PROVE  Settles(w)
<1>1. Kept(w) \in SUBSET PromptIds
  BY KeptType
<1>2. "skipped_review" \in Finished /\ "permanent_error" \in Finished
  BY DEF Finished
<1> QED
  BY <1>1, <1>2 DEF SkipAfterException, FailAssetPermanently, Settles

\* A busy worker moves on with the same asset.
LEMMA ContinueForm ==
  ASSUME TypeInv, NEW w \in Workers, worker[w].pc \in Busy,
         yields' = yields, rows' = rows,
         NEW next \in Worker, worker' = [worker EXCEPT ![w] = next],
         next.pc \in Busy,
         next.asset = worker[w].asset, next.attempt = worker[w].attempt,
         next.pc \in {"await", "judge"} =>
           worker[w].pc = "await" /\ next.prompt = worker[w].prompt
  PROVE  Continues(w)
BY DEF Continues

\* Every step of a worker has one of the five forms, or ends the process.
LEMMA WorkerStepForm ==
  ASSUME TypeInv, NEW w \in Workers, WorkerStep(w)
  PROVE  StepForm(w) \/ ProcessDies
<1>1. worker[w] \in Worker /\ worker \in [Workers -> Worker]
  BY DEF TypeInv, TypeOK
<1>2. CASE RefusedAtGate(w)
  BY <1>2 DEF RefusedAtGate
<1>3. CASE Check(w)
  <2>1. Idles(w)
    BY <1>3 DEF Check, Idles, Busy, historyVars
  <2> QED
    BY <1>3, <2>1 DEF Check, StepForm, eventCounts
<1>4. CASE FindNothing(w)
  <2>1. Idles(w)
    BY <1>4 DEF FindNothing, Idles, Busy, historyVars
  <2> QED
    BY <1>4, <2>1 DEF FindNothing, StepForm, eventCounts
<1>5. CASE Claim(w)
  <2>1. Claims(w)
    BY <1>5 DEF Claim, Claims, Busy, historyVars
  <2> QED
    BY <1>5, <2>1 DEF Claim, StepForm, eventCounts
<1>6. CASE PassGate(w)
  <2>1. worker[w].pc = "gate" /\ worker[w].pc \in Busy /\ yields' = yields
    BY <1>6 DEF PassGate, Busy, historyVars
  <2>2. CASE worker' = [worker EXCEPT ![w].pc = "round"] /\ UNCHANGED rows
    <3> DEFINE next == [worker[w] EXCEPT !.pc = "round"]
    <3>1. /\ next \in Worker /\ next.pc = "round" /\ next.asset = worker[w].asset
          /\ next.attempt = worker[w].attempt
      BY <1>1 DEF Worker, Pc, Busy
    <3>2. worker' = [worker EXCEPT ![w] = next]
      BY <2>2, <1>1
    <3>3. next.pc \in Busy /\ next.pc \notin {"await", "judge"}
      BY <3>1 DEF Busy
    <3> HIDE DEF next
    <3> QED
      BY <1>6, <2>1, <2>2, <3>1, <3>2, <3>3, ContinueForm DEF PassGate, StepForm, eventCounts
  <2>3. CASE FailAssetPermanently(w)
    BY <1>6, <2>1, <2>3, ExceptionForm DEF PassGate, StepForm, eventCounts
  <2> QED
    BY <1>6, <2>2, <2>3 DEF PassGate
<1>7. CASE YieldForHalt(w)
  <2>1. worker[w].pc \in Busy /\ Kept(w) \in SUBSET PromptIds
    BY <1>7, KeptType DEF YieldForHalt, Busy
  <2>2. Settles(w)
    BY <1>7, <2>1 DEF YieldForHalt, Settles
  <2> QED
    BY <1>7, <2>2 DEF YieldForHalt, StepForm, eventCounts
<1>8. CASE Submit(w)
  <2>1. worker[w].pc = "round" /\ worker[w].pc \in Busy /\ yields' = yields
    BY <1>8 DEF Submit, Busy, historyVars
  <2>2. ASSUME NEW p \in PromptIds, Submitted(w, p)
        PROVE  Continues(w)
    <3> DEFINE next == [worker[w] EXCEPT !.pc = "record", !.prompt = p]
    <3>1. /\ next \in Worker /\ next.pc = "record" /\ next.asset = worker[w].asset
          /\ next.attempt = worker[w].attempt
      BY <1>1 DEF Worker, Pc, Busy
    <3>2. worker' = [worker EXCEPT ![w] = next] /\ rows' = rows
      BY <2>2, <1>1 DEF Submitted
    <3>3. next.pc \in Busy /\ next.pc \notin {"await", "judge"}
      BY <3>1 DEF Busy
    <3> HIDE DEF next
    <3> QED
      BY <2>1, <3>1, <3>2, <3>3, ContinueForm
  <2>3. ASSUME NEW class \in ErrorClass, HandleExecutionFailure(w, class)
        PROVE  Settles(w)
    BY <2>1, <2>3, FailureForm
  <2>4. FailAssetPermanently(w) => Settles(w)
    BY <2>1, ExceptionForm
  <2>5. Continues(w) \/ Settles(w)
    BY <1>8, <2>2, <2>3, <2>4, SubmitForm
  <2> QED
    BY <1>8, <2>5 DEF Submit, StepForm, eventCounts
<1>9. CASE Record(w)
  <2>1. worker[w].pc = "record" /\ worker[w].pc \in Busy /\ yields' = yields
    BY <1>9 DEF Record, Busy, historyVars
  <2>2. SkipAfterException(w) => Settles(w)
    BY <2>1, ExceptionForm
  <2>3. Records(w) \/ Settles(w)
    BY <1>9, <2>1, <2>2 DEF Record, Records
  <2> QED
    BY <1>9, <2>3 DEF Record, StepForm, eventCounts
<1>10. CASE Await(w)
  <2>1. worker[w].pc = "await" /\ worker[w].pc \in Busy /\ yields' = yields
    BY <1>10 DEF Await, Busy, historyVars
  <2>2. ASSUME worker' = [worker EXCEPT ![w].pc = "judge"], rows' = rows
        PROVE  Continues(w)
    <3> DEFINE next == [worker[w] EXCEPT !.pc = "judge"]
    <3>1. /\ next \in Worker /\ next.pc \in Busy /\ next.asset = worker[w].asset
          /\ next.attempt = worker[w].attempt /\ next.prompt = worker[w].prompt
      BY <1>1 DEF Worker, Pc, Busy
    <3>2. worker' = [worker EXCEPT ![w] = next]
      BY <2>2, <1>1
    <3> HIDE DEF next
    <3> QED
      BY <2>1, <2>2, <3>1, <3>2, ContinueForm
  <2>3. ASSUME NEW class \in ErrorClass, HandleExecutionFailure(w, class)
        PROVE  Settles(w)
    BY <2>1, <2>3, FailureForm
  <2>4. "temporary" \in ErrorClass
    BY DEF ErrorClass
  <2>5. SkipAfterException(w) => Settles(w)
    BY <2>1, ExceptionForm
  <2>6. Continues(w) \/ Settles(w)
    BY <1>10, <2>2, <2>3, <2>4, <2>5 DEF Await
  <2> QED
    BY <1>10, <2>6 DEF Await, StepForm, eventCounts
<1>11. CASE Judge(w)
  <2>1. /\ worker[w].pc = "judge" /\ worker[w].pc \in Busy /\ yields' = yields
        /\ {worker[w].prompt} \in SUBSET PromptIds
    BY <1>11 DEF Judge, Busy, TypeInv, TypeOK, HandsWell
  <2>2. ASSUME NEW state \in Finished, Settle(w, state, {worker[w].prompt}, FALSE)
        PROVE  Settles(w)
    BY <2>1, <2>2 DEF Settles
  <2>3. {"saved", "parked_approval", "judge_unavailable"} \subseteq Finished
    BY DEF Finished
  <2>4. SkipAfterException(w) => Settles(w)
    BY <2>1, ExceptionForm
  <2>5. ASSUME worker' = [worker EXCEPT ![w].pc = "round", ![w].round = @ + 1], rows' = rows
        PROVE  Continues(w)
    <3> DEFINE next == [worker[w] EXCEPT !.pc = "round", !.round = @ + 1]
    <3>1. worker[w].round + 1 \in Nat
      BY <1>1 DEF Worker
    <3>2. /\ next \in Worker /\ next.pc = "round" /\ next.asset = worker[w].asset
          /\ next.attempt = worker[w].attempt
      BY <1>1, <3>1 DEF Worker, Pc, Busy
    <3>3. worker' = [worker EXCEPT ![w] = next]
      BY <2>5, <1>1
    <3>4. next.pc \in Busy /\ next.pc \notin {"await", "judge"}
      BY <3>2 DEF Busy
    <3> HIDE DEF next
    <3> QED
      BY <2>1, <2>5, <3>2, <3>3, <3>4, ContinueForm
  <2>6. NotPassed(w) => Continues(w) \/ Settles(w)
    BY <2>2, <2>3, <2>5, GiveUpIsFinished DEF NotPassed
  <2>7. NoVerdict(w) => Settles(w)
    BY <2>2, <2>3, <2>4, GiveUpIsFinished DEF NoVerdict
  <2>8. Continues(w) \/ Settles(w)
    BY <1>11, <2>2, <2>3, <2>6, <2>7 DEF Judge
  <2> QED
    BY <1>11, <2>8 DEF Judge, StepForm, eventCounts
<1> QED
  BY <1>2, <1>3, <1>4, <1>5, <1>6, <1>7, <1>8, <1>9, <1>10, <1>11 DEF WorkerStep

-----------------------------------------------------------------------------
\* The other steps: reconciliation of one row, the clock, the operator, and
\* everything that leaves table, workers and run alone.
Reconciles(a) ==
  /\ proc = "reconciling" /\ proc' = proc /\ worker' = worker /\ yields' = yields
  /\ approvals' = approvals /\ crashes' = crashes
  /\ a \in todo /\ todo' = todo \ {a}
  /\ \E state \in {"retry_wait"} \cup Finished, outputs \in SUBSET PromptIds,
        waiting \in BOOLEAN :
       /\ Transition(a, state, outputs, waiting)
       /\ waiting => state = "retry_wait"
       /\ rows[a].crashCount >= CrashLimit => state \in Finished

Elsewhere ==
  /\ proc' = proc /\ worker' = worker /\ todo' = todo /\ yields' = yields
  /\ approvals' = approvals /\ crashes' = crashes

LEMMA ReconcileForm ==
  ASSUME TypeInv, NEW a \in Assets, ReconcileOne(a)
  PROVE  Reconciles(a)
<1> DEFINE Moves == \E state \in {"retry_wait"} \cup Finished,
                       outputs \in SUBSET PromptIds, waiting \in BOOLEAN :
                       /\ Reconciled(a, state, outputs, waiting)
                       /\ waiting => state = "retry_wait"
                       /\ rows[a].crashCount >= CrashLimit => state \in Finished
<1>1. rows[a].outputs \in SUBSET PromptIds
  BY DEF TypeInv, TypeOK, RowsTypeOK, Row
<1>2. \A probed \in BOOLEAN : FoundOutputs(a, probed) \in SUBSET PromptIds
  BY DEF FoundOutputs, OutputsOnDisk, FilesOf, HistoryEntry, TypeInv, TypeOK
<1>3. /\ {"saved", "judge_unavailable"} \subseteq Finished
      /\ TerminalState("single", FALSE) \in Finished
      /\ GiveUpState("unknown", "single") \in Finished
  BY GiveUpIsFinished DEF Finished
<1>4. ReconcileGivesUp(a) => Moves
  BY <1>1, <1>3 DEF ReconcileGivesUp
<1>5. ASSUME rows[a].crashCount < CrashLimit
      PROVE  ~(rows[a].crashCount >= CrashLimit)
  BY <1>5, RunnerAssumption DEF TypeInv, TypeOK, RowsTypeOK, Row
<1>6. ASSUME rows[a].crashCount < CrashLimit, ReconcileFailed(a)
      PROVE  Moves
  BY <1>1, <1>3, <1>5, <1>6 DEF ReconcileFailed
<1>7. ASSUME rows[a].crashCount < CrashLimit, NEW probed \in BOOLEAN,
             ReconcileJudged(a, FoundOutputs(a, probed))
      PROVE  Moves
  BY <1>1, <1>2, <1>3, <1>5, <1>7 DEF ReconcileJudged
<1>8. ASSUME rows[a].crashCount < CrashLimit, ReconcileRequeues(a)
      PROVE  Moves
  BY <1>1, <1>5, <1>8 DEF ReconcileRequeues
<1>9. Moves
  BY <1>4, <1>6, <1>7, <1>8 DEF ReconcileOne
<1> QED
  BY <1>9 DEF Reconciled, ReconcileOne, Reconciles, eventCounts

LEMMA ElsewhereForm ==
  ASSUME \/ \E p \in PromptIds : ComfySucceeds(p) \/ ComfyFails(p)
         \/ ComfyRestarts \/ HaltRequested
         \/ UNCHANGED vars
  PROVE  Elsewhere /\ rows' = rows
BY DEF ComfySucceeds, ComfyFails, PromptEnds, ComfyRestarts, HaltRequested, vars,
     Elsewhere, runVars, historyVars, eventCounts

\* A row that a worker or the reconciler settles is not in flight any more.
LEMMA SettledIsNotInFlight ==
  ASSUME RowsTypeOK, NEW a \in Assets, NEW state \in {"retry_wait"} \cup Finished,
         NEW outputs, NEW waiting, Transition(a, state, outputs, waiting)
  PROVE  /\ rows'[a].state = state /\ state \notin InFlight
         /\ rows'[a].attempt = rows[a].attempt
         /\ rows'[a].crashCount = CrashesAfter(rows[a])
         /\ rows'[a].waiting = waiting
         /\ \A b \in Assets \ {a} : rows'[b] = rows[b]
<1>1. rows[a] \in Row /\ rows \in [Assets -> Row]
  BY DEF RowsTypeOK
<1>2. state \notin InFlight
  BY DEF Finished, InFlight
<1> QED
  BY <1>1, <1>2 DEF Transition, Row

-----------------------------------------------------------------------------
(* No lost asset.                                                          *)

\* Before the workers start, reconciliation still has every claimed row on
\* its list; once they run, each has a worker.
Manned ==
  /\ proc = "reconciling" => \A a \in Assets : rows[a].state \in InFlight => a \in todo
  /\ InFlightHasWorker

LEMMA MannedWorkerStep ==
  ASSUME TypeInv, Manned, NEW w \in Workers, StepForm(w)
  PROVE  Manned'
<1>1. proc = "running" /\ proc' = "running"
  BY DEF StepForm
<1>2. /\ worker \in [Workers -> Worker] /\ rows \in [Assets -> Row] /\ RowsTypeOK
      /\ \A b \in Assets : rows[b] \in Row
  BY DEF TypeInv, TypeOK, RowsTypeOK
<1>3. \A b \in Assets : rows[b].state \in InFlight => \E v \in Workers : Holds(v, b)
  BY <1>1 DEF Manned, InFlightHasWorker
<1>4. SUFFICES ASSUME NEW b \in Assets, rows'[b].state \in InFlight
               PROVE  \E v \in Workers : Holds(v, b)'
  BY <1>1 DEF Manned, InFlightHasWorker
<1>5. CASE Idles(w)
  <2>1. PICK v \in Workers : Holds(v, b)
    BY <1>3, <1>4, <1>5 DEF Idles
  <2>2. v # w
    BY <1>5, <2>1 DEF Idles, Holds
  <2>3. worker'[v] = worker[v]
    BY <1>2, <1>5, <2>2 DEF Idles, Goto
  <2> QED
    BY <2>1, <2>3 DEF Holds
<1>6. CASE Claims(w)
  <2>1. PICK a \in Assets :
          /\ ClaimNext(a)
          /\ worker' = [worker EXCEPT ![w] =
               [At("gate") EXCEPT !.asset = a, !.attempt = rows[a].attempt + 1]]
    BY <1>6 DEF Claims
  <2>2. CASE b = a
    <3>1. worker'[w].pc = "gate" /\ worker'[w].asset = a
      BY <1>2, <2>1 DEF At
    <3> QED
      BY <2>2, <3>1 DEF Holds, Busy
  <2>3. CASE b # a
    <3>1. rows'[b] = rows[b]
      BY <1>2, <2>1, <2>3 DEF ClaimNext
    <3>2. PICK v \in Workers : Holds(v, b)
      BY <1>3, <1>4, <3>1
    <3>3. v # w
      BY <1>6, <3>2 DEF Claims, Holds
    <3>4. worker'[v] = worker[v]
      BY <1>2, <2>1, <3>3
    <3> QED
      BY <3>2, <3>4 DEF Holds
  <2> QED
    BY <2>2, <2>3
<1>7. CASE Continues(w)
  <2>1. PICK v \in Workers : Holds(v, b)
    BY <1>3, <1>4, <1>7 DEF Continues
  <2>2. Holds(v, b)'
    <3>1. CASE v = w
      BY <1>2, <1>7, <2>1, <3>1 DEF Continues, Holds
    <3>2. CASE v # w
      BY <1>2, <1>7, <2>1, <3>2 DEF Continues, Holds
    <3> QED
      BY <3>1, <3>2
  <2> QED
    BY <2>2
<1>8. CASE Records(w)
  <2>1. worker[w].asset \in Assets /\ rows[worker[w].asset].state \in InFlight
    BY <1>8 DEF Records, RecordSubmission, SubmissionAccepted, TypeInv, HandsWell, Busy
  <2>2. rows[b].state \in InFlight
    BY <1>2, <1>4, <1>8, <2>1 DEF Records, RecordSubmission
  <2>3. PICK v \in Workers : Holds(v, b)
    BY <1>3, <2>2
  <2>4. Holds(v, b)'
    BY <1>2, <1>8, <2>3 DEF Records, Holds, Busy
  <2> QED
    BY <2>4
<1>9. CASE Settles(w)
  <2>1. PICK state \in {"retry_wait"} \cup Finished, outputs \in SUBSET PromptIds,
             waiting \in BOOLEAN : Settle(w, state, outputs, waiting)
    BY <1>9 DEF Settles
  <2>2. worker[w].asset \in Assets
    BY <1>9 DEF Settles, TypeInv, HandsWell
  <2>3. b # worker[w].asset /\ rows'[b] = rows[b]
    BY <1>2, <1>4, <2>1, <2>2, SettledIsNotInFlight DEF Settle
  <2>4. PICK v \in Workers : Holds(v, b)
    BY <1>3, <1>4, <2>3
  <2>5. v # w
    BY <2>3, <2>4 DEF Holds
  <2>6. worker'[v] = worker[v]
    BY <1>2, <2>1, <2>5 DEF Settle, Goto
  <2> QED
    BY <2>4, <2>6 DEF Holds
<1> QED
  BY <1>5, <1>6, <1>7, <1>8, <1>9 DEF StepForm

LEMMA MannedStep ==
  ASSUME TypeInv, Manned, [Next]_vars
  PROVE  Manned'
<1>1. /\ rows \in [Assets -> Row] /\ RowsTypeOK /\ \A b \in Assets : rows[b] \in Row
  BY DEF TypeInv, TypeOK, RowsTypeOK
<1>2. ASSUME proc' \notin {"reconciling", "running"}
      PROVE  Manned'
  BY <1>2 DEF Manned, InFlightHasWorker
<1>3. CASE Launch \/ Return \/ ProcessDies
  BY <1>2, <1>3 DEF Launch, Return, ProcessDies
<1>4. CASE BeginReconciliation
  <2>1. \A b \in Assets : rows'[b].state = rows[b].state
    BY <1>1, <1>4 DEF BeginReconciliation, FlagForReconciliation, Row
  <2> QED
    BY <1>4, <2>1 DEF BeginReconciliation, NeedingReconciliation, Manned, InFlightHasWorker
<1>5. CASE StartWorkers
  BY <1>5 DEF StartWorkers, Manned, InFlightHasWorker
<1>6. ASSUME NEW a \in Assets, ReconcileOne(a)
      PROVE  Manned'
  <2>1. Reconciles(a)
    BY <1>6, ReconcileForm
  <2>2. /\ rows'[a].state \notin InFlight
        /\ \A b \in Assets \ {a} : rows'[b] = rows[b]
    BY <1>1, <2>1, SettledIsNotInFlight DEF Reconciles
  <2> QED
    BY <2>1, <2>2 DEF Reconciles, Manned, InFlightHasWorker
<1>7. ASSUME NEW w \in Workers, WorkerStep(w)
      PROVE  Manned'
  BY <1>3, <1>7, WorkerStepForm, MannedWorkerStep
<1>8. CASE Elsewhere /\ rows' = rows
  BY <1>8 DEF Elsewhere, Manned, InFlightHasWorker, Holds
<1>9. ASSUME NEW a \in Assets, Approve(a)
      PROVE  Manned'
  <2>1. \A b \in Assets : rows'[b].state \in InFlight => rows[b].state \in InFlight
    BY <1>1, <1>9 DEF Approve, RequeueForRegeneration, FreshRow, InFlight
  <2> QED
    BY <1>9, <2>1 DEF Approve, runVars, Manned, InFlightHasWorker, Holds
<1>10. ASSUME NEW a \in Assets, RetryFallsDue(a)
       PROVE  Manned'
  <2>1. \A b \in Assets : rows'[b].state = rows[b].state
    BY <1>1, <1>10 DEF RetryFallsDue, BackoffElapses, Row
  <2> QED
    BY <1>10, <2>1 DEF RetryFallsDue, runVars, Manned, InFlightHasWorker, Holds
<1>11. Kill => ProcessDies
  BY DEF Kill
<1> QED
  BY <1>3, <1>4, <1>5, <1>6, <1>7, <1>8, <1>9, <1>10, <1>11, ElsewhereForm
     DEF Next, Startup, Environment

\* No lost asset: whatever the number of workers and assets, also with
\* approvals beside the run, every claimed or submitted row of a running batch
\* has a worker that will settle it.
THEOREM NoLostAsset == Spec => []InFlightHasWorker
<1>1. Init => TypeInv /\ Manned
  BY TypeInit DEF Init, Manned, InFlightHasWorker
<1>2. TypeInv /\ Manned /\ [Next]_vars => TypeInv' /\ Manned'
  BY TypeStep, MannedStep
<1>3. Manned => InFlightHasWorker
  BY DEF Manned
<1> QED
  BY <1>1, <1>2, <1>3, PTL DEF Spec

-----------------------------------------------------------------------------
(* The claim is a lock.                                                    *)

\* Workers hold assets only while the batch runs; what a worker holds is its
\* own, and what it has recorded is what it awaits.  Rows that wait for
\* reconciliation are in flight and flagged.
Ownership ==
  /\ proc # "running" => \A w \in Workers : worker[w].pc \notin Busy
  /\ SoleOwner
  /\ RecordedPromptIsAwaited
  /\ proc = "reconciling" =>
       \A a \in todo : rows[a].state \in InFlight /\ rows[a].reconciling

\* The worker w may change its asset's row in the ways of StepForm without
\* touching what the other workers hold.
LEMMA OwnershipOfOthers ==
  ASSUME TypeInv, SoleOwner, NEW w \in Workers, worker[w].pc \in Busy,
         NEW v \in Workers \ {w}, worker[v].pc \in Busy
  PROVE  /\ worker[v].asset # worker[w].asset
         /\ worker[v].asset \in Assets /\ worker[w].asset \in Assets
BY DEF SoleOwner, Holds, TypeInv, HandsWell

LEMMA OwnershipWorkerStep ==
  ASSUME TypeInv, Ownership, NEW w \in Workers, StepForm(w)
  PROVE  Ownership'
<1>1. proc = "running" /\ proc' = "running"
  BY DEF StepForm
<1>2. /\ worker \in [Workers -> Worker] /\ rows \in [Assets -> Row] /\ RowsTypeOK
      /\ \A b \in Assets : rows[b] \in Row
  BY DEF TypeInv, TypeOK, RowsTypeOK
<1>3. SoleOwner /\ RecordedPromptIsAwaited
  BY DEF Ownership
<1>4. \A v \in Workers : worker[v].pc \in Busy => worker[v].asset \in Assets
  BY DEF TypeInv, HandsWell
<1>5. {"await", "judge"} \subseteq Busy
  BY DEF Busy
\* It suffices to look at one busy worker and at any other one.
<1>6. SUFFICES ASSUME NEW v \in Workers, worker'[v].pc \in Busy
               PROVE  /\ rows'[worker'[v].asset].state \in InFlight
                      /\ rows'[worker'[v].asset].attempt = worker'[v].attempt
                      /\ \A u \in Workers \ {v} :
                           worker'[u].pc \in Busy => worker'[u].asset # worker'[v].asset
                      /\ worker'[v].pc \in {"await", "judge"} =>
                           /\ rows'[worker'[v].asset].state = "submitted"
                           /\ rows'[worker'[v].asset].promptId = worker'[v].prompt
  BY <1>1, <1>5 DEF Ownership, SoleOwner, RecordedPromptIsAwaited, Holds
<1>7. CASE Idles(w)
  <2>1. PICK pc \in {"check", "claim", "exited"} : worker' = [worker EXCEPT ![w] = At(pc)]
    BY <1>7 DEF Idles, Goto
  <2>2. At(pc).pc \notin Busy
    BY DEF At, Busy
  <2>3. \A u \in Workers : worker'[u].pc \in Busy => u # w /\ worker'[u] = worker[u]
    BY <1>2, <2>1, <2>2
  <2> QED
    BY <1>3, <1>6, <1>7, <2>3 DEF Idles, SoleOwner, RecordedPromptIsAwaited, Holds
<1>8. CASE Claims(w)
  <2>1. PICK a \in Assets :
          /\ ClaimNext(a)
          /\ worker' = [worker EXCEPT ![w] =
               [At("gate") EXCEPT !.asset = a, !.attempt = rows[a].attempt + 1]]
    BY <1>8 DEF Claims
  <2>2. /\ worker'[w].pc = "gate" /\ worker'[w].asset = a
        /\ worker'[w].attempt = rows[a].attempt + 1
    BY <1>2, <2>1 DEF At
  <2>3. \A u \in Workers \ {w} : worker'[u] = worker[u]
    BY <1>2, <2>1
  <2>4. rows[a].state \notin InFlight
    BY <2>1 DEF ClaimNext, Claimable, Unclaimed, InFlight
  <2>5. \A u \in Workers : worker[u].pc \in Busy => u # w /\ worker[u].asset # a
    BY <1>3, <1>8, <2>4 DEF SoleOwner, Claims
  <2>6. /\ rows'[a].state = "claimed" /\ rows'[a].attempt = rows[a].attempt + 1
        /\ \A b \in Assets \ {a} : rows'[b] = rows[b]
    BY <1>2, <2>1 DEF ClaimNext, Row
  <2>7. CASE v = w
    BY <2>2, <2>3, <2>5, <2>6, <2>7 DEF InFlight
  <2>8. CASE v # w
    BY <1>3, <1>4, <1>6, <2>2, <2>3, <2>5, <2>6, <2>8
       DEF SoleOwner, RecordedPromptIsAwaited, Holds
  <2> QED
    BY <2>7, <2>8
<1>9. CASE Continues(w)
  <2>1. PICK next \in Worker :
          /\ worker' = [worker EXCEPT ![w] = next]
          /\ next.pc \in Busy
          /\ next.asset = worker[w].asset /\ next.attempt = worker[w].attempt
          /\ next.pc \in {"await", "judge"} =>
               worker[w].pc = "await" /\ next.prompt = worker[w].prompt
    BY <1>9 DEF Continues
  <2>2. worker[w].pc \in Busy /\ rows' = rows
    BY <1>9 DEF Continues
  <2>3. worker'[w] = next /\ \A u \in Workers \ {w} : worker'[u] = worker[u]
    BY <1>2, <2>1
  <2>4. \A u \in Workers : /\ worker'[u].asset = worker[u].asset
                           /\ worker'[u].attempt = worker[u].attempt
                           /\ worker'[u].pc \in Busy <=> worker[u].pc \in Busy
    BY <2>1, <2>2, <2>3
  <2>5. /\ rows'[worker'[v].asset].state \in InFlight
        /\ rows'[worker'[v].asset].attempt = worker'[v].attempt
        /\ \A u \in Workers \ {v} :
             worker'[u].pc \in Busy => worker'[u].asset # worker'[v].asset
    BY <1>3, <1>6, <2>2, <2>4 DEF SoleOwner, Holds
  <2>6. CASE v = w
    BY <1>3, <2>1, <2>2, <2>3, <2>5, <2>6 DEF RecordedPromptIsAwaited
  <2>7. CASE v # w
    BY <1>3, <2>2, <2>3, <2>5, <2>7 DEF RecordedPromptIsAwaited
  <2> QED
    BY <2>6, <2>7
<1>10. CASE Records(w)
  <2>1. worker[w].pc \in Busy /\ worker[w].asset \in Assets
    BY <1>4, <1>10 DEF Records, Busy
  <2>2. /\ worker'[w] = [worker[w] EXCEPT !.pc = "await"]
        /\ \A u \in Workers \ {w} : worker'[u] = worker[u]
    BY <1>2, <1>10 DEF Records
  <2>3. worker'[w].pc = "await" /\ worker'[w].asset = worker[w].asset
        /\ worker'[w].attempt = worker[w].attempt /\ worker'[w].prompt = worker[w].prompt
    BY <1>2, <2>2 DEF Worker
  <2>4. /\ rows'[worker[w].asset].state = "submitted"
        /\ rows'[worker[w].asset].promptId = worker[w].prompt
        /\ rows'[worker[w].asset].attempt = rows[worker[w].asset].attempt
        /\ \A b \in Assets \ {worker[w].asset} : rows'[b] = rows[b]
    BY <1>2, <1>10, <2>1 DEF Records, RecordSubmission, Row
  <2>5. \A u \in Workers \ {w} : worker[u].pc \in Busy => worker[u].asset # worker[w].asset
    BY <1>3, <2>1 DEF SoleOwner, Holds
  <2>6. CASE v = w
    BY <1>3, <2>1, <2>2, <2>3, <2>4, <2>5, <2>6 DEF SoleOwner, InFlight
  <2>7. CASE v # w
    <3>1. worker[v].pc \in Busy /\ worker'[v] = worker[v]
          /\ rows'[worker[v].asset] = rows[worker[v].asset]
      BY <1>4, <1>6, <2>2, <2>4, <2>5, <2>7
    <3>2. \A u \in Workers \ {v} :
            worker'[u].pc \in Busy => worker'[u].asset # worker[v].asset
      <4>1. \A u \in Workers \ {v} : worker[u].pc \in Busy => worker[u].asset # worker[v].asset
        BY <1>3, <3>1 DEF SoleOwner, Holds
      <4> QED
        BY <2>1, <2>2, <2>3, <4>1
    <3> QED
      BY <1>3, <3>1, <3>2 DEF SoleOwner, RecordedPromptIsAwaited
  <2> QED
    BY <2>6, <2>7
<1>11. CASE Settles(w)
  <2>1. PICK state \in {"retry_wait"} \cup Finished, outputs \in SUBSET PromptIds,
             waiting \in BOOLEAN : Settle(w, state, outputs, waiting)
    BY <1>11 DEF Settles
  <2>2. worker[w].pc \in Busy /\ worker[w].asset \in Assets
    BY <1>4, <1>11 DEF Settles
  <2>3. worker'[w].pc \notin Busy /\ \A u \in Workers \ {w} : worker'[u] = worker[u]
    BY <1>2, <2>1 DEF Settle, Goto, At, Busy
  <2>4. \A b \in Assets \ {worker[w].asset} : rows'[b] = rows[b]
    BY <1>2, <2>1, <2>2, SettledIsNotInFlight DEF Settle
  <2>5. v # w /\ worker[v].pc \in Busy /\ worker[v].asset # worker[w].asset
        /\ worker[v].asset \in Assets
    BY <1>3, <1>4, <1>6, <2>2, <2>3 DEF SoleOwner, Holds
  <2>6. worker'[v] = worker[v] /\ rows'[worker[v].asset] = rows[worker[v].asset]
    BY <2>3, <2>4, <2>5
  <2>7. \A u \in Workers \ {v} : worker'[u].pc \in Busy => worker'[u].asset # worker[v].asset
    BY <1>3, <2>3, <2>5 DEF SoleOwner, Holds
  <2> QED
    BY <1>3, <2>5, <2>6, <2>7 DEF SoleOwner, RecordedPromptIsAwaited
<1> QED
  BY <1>7, <1>8, <1>9, <1>10, <1>11 DEF StepForm

\* Nobody has approved beside the run, and nobody has before if nobody has now.
Calm == ApproveWhileRunning => approvals = 0

LEMMA ApprovalsGrow ==
  ASSUME TypeInv, [Next]_vars
  PROVE  approvals' = approvals \/ approvals' = approvals + 1
<1>1. ASSUME NEW w \in Workers, WorkerStep(w)
      PROVE  approvals' = approvals
  BY <1>1, WorkerStepForm DEF StepForm, ProcessDies
<1>2. ASSUME NEW a \in Assets, ReconcileOne(a)
      PROVE  approvals' = approvals
  BY <1>2, ReconcileForm DEF Reconciles
<1>3. ASSUME NEW a \in Assets, Approve(a)
      PROVE  approvals' = approvals + 1
  BY <1>3 DEF Approve
<1>4. ASSUME NEW a \in Assets, RetryFallsDue(a)
      PROVE  approvals' = approvals
  BY <1>4 DEF RetryFallsDue, eventCounts
<1>5. CASE Launch \/ BeginReconciliation \/ StartWorkers \/ Return \/ Kill
  BY <1>5 DEF Launch, BeginReconciliation, StartWorkers, Return, Kill, ProcessDies,
     eventCounts
<1> QED
  BY <1>1, <1>2, <1>3, <1>4, <1>5, ElsewhereForm
     DEF Next, Startup, Environment, Elsewhere

LEMMA CalmBefore ==
  ASSUME TypeInv, [Next]_vars, Calm'
  PROVE  Calm
<1>1. approvals \in Nat
  BY DEF TypeInv, TypeOK
<1> QED
  BY <1>1, ApprovalsGrow DEF Calm

LEMMA OwnershipStep ==
  ASSUME Calm', TypeInv, Ownership, [Next]_vars
  PROVE  Ownership'
<1>1. /\ rows \in [Assets -> Row] /\ RowsTypeOK /\ \A b \in Assets : rows[b] \in Row
  BY DEF TypeInv, TypeOK, RowsTypeOK
<1>2. {"await", "judge"} \subseteq Busy
  BY DEF Busy
<1>3. ASSUME \A w \in Workers : worker'[w].pc \notin Busy,
             proc' = "reconciling" =>
               \A a \in todo' : rows'[a].state \in InFlight /\ rows'[a].reconciling
      PROVE  Ownership'
  BY <1>2, <1>3 DEF Ownership, SoleOwner, RecordedPromptIsAwaited
<1>4. ASSUME proc # "running", worker' = worker
      PROVE  \A w \in Workers : worker'[w].pc \notin Busy
  BY <1>4 DEF Ownership
<1>5. CASE Launch
  BY <1>3, <1>4, <1>5 DEF Launch
<1>6. CASE ProcessDies
  BY <1>3, <1>6 DEF ProcessDies, At, Busy
<1>7. CASE Return
  BY <1>3, <1>7 DEF Return, Busy
<1>8. CASE BeginReconciliation
  <2>1. \A b \in NeedingReconciliation : rows'[b].state \in InFlight /\ rows'[b].reconciling
    BY <1>1, <1>8 DEF BeginReconciliation, FlagForReconciliation, NeedingReconciliation, Row
  <2> QED
    BY <1>3, <1>4, <1>8, <2>1 DEF BeginReconciliation
<1>9. CASE StartWorkers
  BY <1>3, <1>9 DEF StartWorkers, At, Busy
<1>10. ASSUME NEW a \in Assets, ReconcileOne(a)
       PROVE  Ownership'
  <2>1. Reconciles(a)
    BY <1>10, ReconcileForm
  <2>2. \A b \in Assets \ {a} : rows'[b] = rows[b]
    BY <1>1, <2>1, SettledIsNotInFlight DEF Reconciles
  <2>3. todo \subseteq Assets
    BY DEF TypeInv, TypeOK
  <2> QED
    BY <1>3, <1>4, <2>1, <2>2, <2>3 DEF Reconciles, Ownership
<1>11. ASSUME NEW w \in Workers, WorkerStep(w)
       PROVE  Ownership'
  BY <1>6, <1>11, WorkerStepForm, OwnershipWorkerStep
<1>12. CASE Elsewhere /\ rows' = rows
  BY <1>12 DEF Elsewhere, Ownership, SoleOwner, RecordedPromptIsAwaited, Holds
<1>13. ASSUME NEW a \in Assets, Approve(a)
       PROVE  Ownership'
  <2>1. approvals \in Nat /\ approvals' = approvals + 1
    BY <1>13 DEF Approve, TypeInv, TypeOK
  <2>2. ~ApproveWhileRunning
    BY <2>1 DEF Calm
  <2> QED
    BY <1>3, <1>4, <1>13, <2>2 DEF Approve, runVars
<1>14. ASSUME NEW a \in Assets, RetryFallsDue(a)
       PROVE  Ownership'
  <2>1. \A b \in Assets :
          /\ rows'[b].state = rows[b].state /\ rows'[b].attempt = rows[b].attempt
          /\ rows'[b].promptId = rows[b].promptId
          /\ rows'[b].reconciling = rows[b].reconciling
    BY <1>1, <1>14 DEF RetryFallsDue, BackoffElapses, Row
  <2>2. /\ \A w \in Workers : worker[w].pc \in Busy => worker[w].asset \in Assets
        /\ todo \subseteq Assets
    BY DEF TypeInv, TypeOK, HandsWell
  <2> QED
    BY <1>2, <1>14, <2>1, <2>2 DEF RetryFallsDue, runVars, Ownership, SoleOwner,
       RecordedPromptIsAwaited, Holds
<1>15. Kill => ProcessDies
  BY DEF Kill
<1> QED
  BY <1>5, <1>6, <1>7, <1>8, <1>9, <1>10, <1>11, <1>12, <1>13, <1>14, <1>15,
     ElsewhereForm DEF Next, Startup, Environment

LEMMA OwnershipHolds == Spec => [](TypeInv /\ (Calm => Ownership))
<1>1. Init => TypeInv /\ Ownership
  <2>1. ASSUME Init, NEW w \in Workers
        PROVE  worker[w].pc \notin Busy /\ worker[w].pc \notin {"await", "judge"}
    BY <2>1 DEF Init, At, Busy
  <2>2. Init => proc = "down"
    BY DEF Init
  <2> QED
    BY TypeInit, <2>1, <2>2 DEF Ownership, SoleOwner, RecordedPromptIsAwaited
<1>2. TypeInv /\ (Calm => Ownership) /\ [Next]_vars => TypeInv' /\ (Calm => Ownership)'
  BY TypeStep, CalmBefore, OwnershipStep
<1> QED
  BY <1>1, <1>2, PTL DEF Spec

\* The claim is a lock: when nobody approves beside the run, a busy worker's
\* row is in flight on the attempt it claimed and nobody else has the asset.
THEOREM ClaimIsALock ==
  ASSUME ~ApproveWhileRunning
  PROVE  Spec => []SoleOwner
<1>1. (Calm => Ownership) => SoleOwner
  BY DEF Calm, Ownership
<1> QED
  BY <1>1, OwnershipHolds, PTL

\* From record_submission to the verdict the row names the worker's prompt, so
\* a crash in between is reconciled against the right generation.
THEOREM RecordedIsAwaited ==
  ASSUME ~ApproveWhileRunning
  PROVE  Spec => []RecordedPromptIsAwaited
<1>1. (Calm => Ownership) => RecordedPromptIsAwaited
  BY DEF Calm, Ownership
<1> QED
  BY <1>1, OwnershipHolds, PTL

-----------------------------------------------------------------------------
(* Terminal rows are final.                                                *)

\* Only a row that waits to be retried has a retry_after.
Waits == \A a \in Assets : rows[a].waiting => rows[a].state = "retry_wait"

LEMMA WaitsStep ==
  ASSUME TypeInv, Waits, [Next]_vars
  PROVE  Waits'
<1>1. /\ rows \in [Assets -> Row] /\ RowsTypeOK /\ \A b \in Assets : rows[b] \in Row
  BY DEF TypeInv, TypeOK, RowsTypeOK
<1>2. ASSUME NEW a \in Assets, NEW state \in {"retry_wait"} \cup Finished,
             NEW outputs \in SUBSET PromptIds, NEW waiting \in BOOLEAN,
             Transition(a, state, outputs, waiting), waiting => state = "retry_wait"
      PROVE  Waits'
  <2>1. /\ rows'[a].state = state /\ rows'[a].waiting = waiting
        /\ \A b \in Assets \ {a} : rows'[b] = rows[b]
    BY <1>1, <1>2, SettledIsNotInFlight
  <2>2. rows'[a].waiting => rows'[a].state = "retry_wait"
    BY Zenon, <1>2, <2>1
  <2>3. \A b \in Assets \ {a} : rows'[b].waiting => rows'[b].state = "retry_wait"
    BY <2>1 DEF Waits
  <2> QED
    BY <2>2, <2>3 DEF Waits
<1>3. CASE rows' = rows
  BY <1>3 DEF Waits
<1>4. CASE Launch
  <2>1. \A b \in Assets : rows'[b] = rows[b] \/ rows'[b] = FreshRow("pending")
    BY <1>4 DEF Launch, LoadBatch
  <2> QED
    BY <2>1 DEF Waits, FreshRow
<1>5. CASE BeginReconciliation
  <2>1. \A b \in Assets : rows'[b].state = rows[b].state /\ rows'[b].waiting = rows[b].waiting
    BY <1>1, <1>5 DEF BeginReconciliation, FlagForReconciliation, Row
  <2> QED
    BY <2>1 DEF Waits
<1>6. ASSUME NEW a \in Assets, ReconcileOne(a)
      PROVE  Waits'
  <2>1. Reconciles(a)
    BY <1>6, ReconcileForm
  <2> QED
    BY Zenon, <1>2, <2>1 DEF Reconciles
<1>7. ASSUME NEW w \in Workers, StepForm(w)
      PROVE  Waits'
  <2>1. worker[w].pc \in Busy => worker[w].asset \in Assets
    BY DEF TypeInv, HandsWell
  <2>2. CASE Claims(w)
    <3>1. PICK a \in Assets : ClaimNext(a)
      BY <2>2 DEF Claims
    <3>2. \A b \in Assets : rows'[b].waiting => rows'[b] = rows[b]
      BY <1>1, <3>1 DEF ClaimNext, Claimable, Row
    <3> QED
      BY <3>2 DEF Waits
  <2>3. CASE Records(w)
    <3>1. worker[w].asset \in Assets /\ RecordSubmission(worker[w].asset, worker[w].prompt)
      BY <2>1, <2>3 DEF Records, Busy
    <3>2. ~rows[worker[w].asset].waiting
      BY <3>1 DEF RecordSubmission, SubmissionAccepted, InFlight, Waits
    <3>3. \A b \in Assets : rows'[b].waiting => rows'[b] = rows[b]
      BY <1>1, <3>1, <3>2 DEF RecordSubmission, Row
    <3> QED
      BY <3>3 DEF Waits
  <2>4. CASE Settles(w)
    BY <1>2, <2>1, <2>4 DEF Settles, Settle
  <2> QED
    BY <1>3, <1>7, <2>2, <2>3, <2>4 DEF StepForm, Idles, Continues
<1>8. ASSUME NEW a \in Assets, Approve(a)
      PROVE  Waits'
  <2>1. \A b \in Assets : rows'[b] = rows[b] \/ rows'[b] = FreshRow("pending")
    BY <1>1, <1>8 DEF Approve, RequeueForRegeneration
  <2> QED
    BY <2>1 DEF Waits, FreshRow
<1>9. ASSUME NEW a \in Assets, RetryFallsDue(a)
      PROVE  Waits'
  <2>1. \A b \in Assets : rows'[b].waiting => rows'[b] = rows[b]
    BY <1>1, <1>9 DEF RetryFallsDue, BackoffElapses, Row
  <2> QED
    BY <2>1 DEF Waits
<1>10. StartWorkers \/ Return \/ ProcessDies => rows' = rows
  BY DEF StartWorkers, Return, ProcessDies
<1>11. ASSUME NEW w \in Workers, WorkerStep(w)
       PROVE  Waits'
  BY <1>3, <1>7, <1>10, <1>11, WorkerStepForm
<1>12. Kill => ProcessDies
  BY DEF Kill
<1> QED
  BY <1>3, <1>4, <1>5, <1>6, <1>8, <1>9, <1>10, <1>11, <1>12, ElsewhereForm
     DEF Next, Startup, Environment

\* What the properties below have in common.
Foundation == TypeInv /\ Ownership /\ Manned /\ Waits

LEMMA CalmFoundation == Spec => [](TypeInv /\ (Calm => Foundation))
<1>1. Init => Waits
  BY DEF Init, StoreInit, FreshRow, Waits
<1>2. Init => TypeInv /\ Manned
  BY TypeInit DEF Init, Manned, InFlightHasWorker
<1>3. TypeInv /\ Waits /\ Manned /\ [Next]_vars => TypeInv' /\ Waits' /\ Manned'
  BY TypeStep, WaitsStep, MannedStep
<1> QED
  BY <1>1, <1>2, <1>3, OwnershipHolds, PTL DEF Spec, Foundation

LEMMA FoundationHolds ==
  ASSUME ~ApproveWhileRunning
  PROVE  Spec => []Foundation
<1>1. TypeInv /\ (Calm => Foundation) => Foundation
  BY DEF Calm
<1> QED
  BY <1>1, CalmFoundation, PTL

LEMMA FinalStep ==
  ASSUME Foundation, [Next]_vars,
         NEW a \in Assets, rows[a].state \in Finished
  PROVE  rows'[a] = rows[a] \/ approvals' # approvals
<1>1. /\ rows \in [Assets -> Row] /\ RowsTypeOK /\ \A b \in Assets : rows[b] \in Row
      /\ \A w \in Workers : worker[w].pc \in Busy => worker[w].asset \in Assets
      /\ approvals \in Nat
  BY DEF Foundation, TypeInv, TypeOK, RowsTypeOK, HandsWell
<1>2. /\ rows[a].state \notin InFlight /\ rows[a].state \notin Unclaimed
      /\ rows[a].state # "absent" /\ ~rows[a].waiting
  BY DEF Foundation, Waits, Finished, InFlight, Unclaimed
<1>3. CASE rows' = rows
  BY <1>3
<1>4. CASE Launch
  BY <1>2, <1>4 DEF Launch, LoadBatch
<1>5. CASE BeginReconciliation
  BY <1>2, <1>5 DEF BeginReconciliation, FlagForReconciliation
<1>6. ASSUME NEW b \in Assets, ReconcileOne(b)
      PROVE  rows'[a] = rows[a]
  <2>1. Reconciles(b)
    BY <1>6, ReconcileForm DEF Foundation
  <2>2. b # a
    BY <1>2, <2>1 DEF Reconciles, Foundation, Ownership
  <2> QED
    BY <1>1, <2>1, <2>2, SettledIsNotInFlight DEF Reconciles
<1>7. ASSUME NEW w \in Workers, StepForm(w)
      PROVE  rows'[a] = rows[a]
  <2>1. CASE Claims(w)
    BY <1>1, <1>2, <2>1 DEF Claims, ClaimNext, Claimable
  <2>2. CASE Records(w)
    BY <1>1, <1>2, <2>2 DEF Records, RecordSubmission, SubmissionAccepted
  <2>3. CASE Settles(w)
    <3>1. worker[w].asset \in Assets /\ worker[w].asset # a
      BY <1>1, <1>2, <2>3 DEF Settles, Foundation, Ownership, SoleOwner
    <3> QED
      BY <1>1, <2>3, <3>1, SettledIsNotInFlight DEF Settles, Settle
  <2> QED
    BY <1>7, <2>1, <2>2, <2>3 DEF StepForm, Idles, Continues
<1>8. ASSUME NEW b \in Assets, Approve(b)
      PROVE  approvals' # approvals
  BY <1>1, <1>8 DEF Approve
<1>9. ASSUME NEW b \in Assets, RetryFallsDue(b)
      PROVE  rows'[a] = rows[a]
  BY <1>1, <1>2, <1>9 DEF RetryFallsDue, BackoffElapses
<1>10. StartWorkers \/ Return \/ ProcessDies => rows' = rows
  BY DEF StartWorkers, Return, ProcessDies
<1>11. ASSUME NEW w \in Workers, WorkerStep(w)
       PROVE  rows'[a] = rows[a]
  BY <1>7, <1>10, <1>11, WorkerStepForm DEF Foundation
<1>12. Kill => ProcessDies
  BY DEF Kill
<1> QED
  BY <1>3, <1>4, <1>5, <1>6, <1>8, <1>9, <1>10, <1>11, <1>12, ElsewhereForm
     DEF Next, Startup, Environment

\* A terminal row is only ever changed by an approval: no late worker, no
\* reconciliation and no reload of the manifest writes over it.
THEOREM TerminalRowsAreFinal ==
  ASSUME ~ApproveWhileRunning
  PROVE  Spec => FinishedIsFinal
<1>1. Foundation /\ [Next]_vars =>
        \A a \in Assets : rows[a].state \in Finished =>
          rows'[a] = rows[a] \/ approvals' # approvals
  BY FinalStep
<1> QED
  BY <1>1, FoundationHolds, PTL DEF Spec, FinishedIsFinal

-----------------------------------------------------------------------------
(* How a run ends.                                                         *)

\* A worker that has left its loop, not because of a halt, has seen every row
\* finished; and so they are when the run has returned.
Done ==
  approvals = 0 =>
    /\ proc = "running" /\ ~stop /\ (\E w \in Workers : worker[w].pc = "exited") =>
         \A a \in Assets : rows[a].state \in Finished
    /\ FinishedMeansDone

\* The steps that neither begin nor end a run, and let no worker leave.
Stays ==
  /\ proc' = proc /\ (proc = "running" => (stop => stop')) /\ lastExit' = lastExit
  /\ \A w \in Workers : worker'[w].pc = "exited" => worker[w].pc = "exited"

\* What a step does to the end of the run.
LEMMA EndForm ==
  ASSUME TypeInv, [Next]_vars
  PROVE  \/ Stays
         \/ \E w \in Workers : Check(w) \/ FindNothing(w)
         \/ Launch \/ BeginReconciliation \/ StartWorkers \/ Return \/ ProcessDies
<1>1. worker \in [Workers -> Worker]
  BY DEF TypeInv, TypeOK
<1>2. ASSUME worker' = worker, UNCHANGED <<proc, lastExit, stop>>
      PROVE  Stays
  BY <1>2 DEF Stays
<1>3. ASSUME NEW w \in Workers, NEW next, next.pc # "exited",
             worker' = [worker EXCEPT ![w] = next], UNCHANGED <<proc, lastExit>>,
             stop' = stop \/ stop' = TRUE
      PROVE  Stays
  BY <1>1, <1>3 DEF Stays
<1>4. ASSUME NEW w \in Workers, NEW state, NEW outputs, NEW waiting,
             Settle(w, state, outputs, waiting), UNCHANGED <<proc, lastExit>>,
             stop' = stop \/ stop' = TRUE
      PROVE  Stays
  <2>1. At("check").pc # "exited"
    BY DEF At
  <2> QED
    BY <1>3, <1>4, <2>1 DEF Settle, Goto
<1>5. ASSUME NEW w \in Workers, NEW class, HandleExecutionFailure(w, class),
             UNCHANGED <<proc, lastExit, stop>>
      PROVE  Stays
  BY <1>4, <1>5 DEF HandleExecutionFailure
<1>6. ASSUME NEW w \in Workers, SkipAfterException(w) \/ FailAssetPermanently(w),
             UNCHANGED <<proc, lastExit, stop>>
      PROVE  Stays
  BY <1>4, <1>6 DEF SkipAfterException, FailAssetPermanently
<1>7. ASSUME NEW w \in Workers, NEW pc, pc # "exited",
             worker' = [worker EXCEPT ![w].pc = pc], UNCHANGED <<proc, lastExit, stop>>
      PROVE  Stays
  <2>1. \A v \in Workers : worker'[v].pc = "exited" => worker[v].pc = "exited"
    BY <1>1, <1>7 DEF Worker
  <2> QED
    BY <1>7, <2>1 DEF Stays
<1>8. ASSUME NEW w \in Workers, WorkerStep(w), ~Check(w), ~FindNothing(w), ~ProcessDies
      PROVE  Stays
  <2>1. CASE Claim(w)
    <3>1. PICK a \in Assets :
            worker' = [worker EXCEPT ![w] =
              [At("gate") EXCEPT !.asset = a, !.attempt = rows[a].attempt + 1]]
      BY <2>1 DEF Claim
    <3>2. [At("gate") EXCEPT !.asset = a, !.attempt = rows[a].attempt + 1].pc # "exited"
      BY DEF At
    <3> QED
      BY <1>3, <2>1, <3>1, <3>2 DEF Claim
  <2>2. CASE PassGate(w)
    BY <1>6, <1>7, <2>2 DEF PassGate
  <2>3. CASE YieldForHalt(w)
    BY <1>4, <2>3 DEF YieldForHalt
  <2>4. CASE Submit(w)
    <3>1. UNCHANGED <<proc, lastExit, stop>>
      BY <2>4 DEF Submit
    <3>2. ASSUME NEW p, Submitted(w, p)
          PROVE  Stays
      <4>1. \A v \in Workers : worker'[v].pc = "exited" => worker[v].pc = "exited"
        BY <1>1, <3>2 DEF Submitted, Worker
      <4> QED
        BY <3>1, <4>1 DEF Stays
    <3> QED
      BY <1>5, <1>6, <2>4, <3>1, <3>2, SubmitForm
  <2>5. CASE Record(w)
    BY <1>6, <1>7, <2>5 DEF Record
  <2>6. CASE Await(w)
    BY <1>5, <1>6, <1>7, <2>6 DEF Await
  <2>7. CASE Judge(w)
    <3>1. UNCHANGED <<proc, lastExit, stop>>
      BY <2>7 DEF Judge
    <3>2. ASSUME worker' = [worker EXCEPT ![w].pc = "round", ![w].round = @ + 1]
          PROVE  Stays
      <4>1. \A v \in Workers : worker'[v].pc = "exited" => worker[v].pc = "exited"
        BY <1>1, <3>2 DEF Worker
      <4> QED
        BY <3>1, <4>1 DEF Stays
    <3>3. NotPassed(w) => Stays
      BY <1>4, <3>1, <3>2 DEF NotPassed
    <3>4. NoVerdict(w) => Stays
      BY <1>4, <1>6, <3>1 DEF NoVerdict
    <3> QED
      BY <1>4, <2>7, <3>1, <3>3, <3>4 DEF Judge
  <2> QED
    BY <1>8, <2>1, <2>2, <2>3, <2>4, <2>5, <2>6, <2>7 DEF WorkerStep, RefusedAtGate
<1>9. ASSUME NEW a \in Assets, ReconcileOne(a)
      PROVE  Stays
  <2>1. UNCHANGED <<proc, lastExit, stop, worker>>
    BY <1>9 DEF ReconcileOne, ReconcileGivesUp, ReconcileFailed, ReconcileJudged,
       ReconcileRequeues, Reconciled
  <2> QED
    BY <1>2, <2>1
<1>10. CASE Environment
  <2>1. ASSUME HaltRequested
        PROVE  Stays
    BY <2>1 DEF HaltRequested, Stays
  <2> QED
    BY <1>2, <1>10, <2>1 DEF Environment, ComfySucceeds, ComfyFails, PromptEnds,
       ComfyRestarts, Kill, Approve, RetryFallsDue, runVars
<1>11. UNCHANGED vars => Stays
  BY <1>2 DEF vars
<1> QED
  BY <1>8, <1>9, <1>10, <1>11 DEF Next, Startup

LEMMA DoneStep ==
  ASSUME TypeInv, Calm => Foundation, Done, [Next]_vars
  PROVE  Done'
<1> DEFINE AllFinished == \A a \in Assets : rows[a].state \in Finished
<1>1. SUFFICES ASSUME approvals' = 0
               PROVE  /\ proc' = "running" /\ ~stop'
                         /\ (\E w \in Workers : worker'[w].pc = "exited") => AllFinished'
                      /\ FinishedMeansDone'
  BY DEF Done
<1>2. approvals = 0 /\ approvals' = approvals
  BY <1>1, ApprovalsGrow DEF TypeInv, TypeOK
<1>3. Foundation
  BY <1>2 DEF Calm
<1>4. AllFinished => AllFinished'
  BY <1>2, <1>3, FinalStep
<1>5. /\ proc = "running" /\ ~stop /\ (\E w \in Workers : worker[w].pc = "exited") =>
           AllFinished
      /\ FinishedMeansDone
  BY <1>2 DEF Done
<1>6. worker \in [Workers -> Worker]
  BY DEF TypeInv, TypeOK
<1>7. CASE Stays
  BY <1>1, <1>2, <1>4, <1>5, <1>7 DEF Stays, FinishedMeansDone
<1>8. ASSUME NEW w \in Workers, Check(w)
      PROVE  Done'
  <2>1. /\ proc = "running" /\ proc' = "running"
        /\ \/ stop' = TRUE
           \/ stop' = stop /\ worker' = [worker EXCEPT ![w] = At("claim")]
    BY <1>8 DEF Check, Goto
  <2>2. CASE stop'
    BY <2>1, <2>2 DEF Done, FinishedMeansDone
  <2>3. CASE stop' = stop /\ worker' = [worker EXCEPT ![w] = At("claim")]
    <3>1. At("claim").pc # "exited"
      BY DEF At
    <3>2. \A v \in Workers : worker'[v].pc = "exited" => worker[v].pc = "exited"
      BY <1>6, <2>3, <3>1
    <3> QED
      BY <1>4, <1>5, <2>1, <2>3, <3>2 DEF Done, FinishedMeansDone
  <2> QED
    BY <2>1, <2>2, <2>3
<1>9. ASSUME NEW w \in Workers, FindNothing(w)
      PROVE  Done'
  <2>1. /\ proc = "running" /\ proc' = "running" /\ stop' = stop
        /\ worker' = [worker EXCEPT ![w] = At(IF AllFinished THEN "exited" ELSE "check")]
    BY <1>9 DEF FindNothing, Goto
  <2>2. CASE AllFinished
    BY <1>4, <2>1, <2>2 DEF Done, FinishedMeansDone
  <2>3. CASE ~AllFinished
    <3>1. At("check").pc # "exited"
      BY DEF At
    <3>2. \A v \in Workers : worker'[v].pc = "exited" => worker[v].pc = "exited"
      BY <1>6, <2>1, <2>3, <3>1
    <3> QED
      BY <1>4, <1>5, <2>1, <3>2 DEF Done, FinishedMeansDone
  <2> QED
    BY <2>2, <2>3
<1>10. CASE Launch \/ BeginReconciliation
  BY <1>10 DEF Launch, BeginReconciliation, FinishedMeansDone
<1>11. CASE StartWorkers
  BY <1>11 DEF StartWorkers, At, FinishedMeansDone
<1>12. CASE Return
  <2>1. PICK w \in Workers : worker[w].pc = "exited"
    BY <1>12, RunnerAssumption DEF Return
  <2>2. proc = "running" /\ proc' = "down" /\ (lastExit' = "finished" => ~stop)
    BY <1>12 DEF Return
  <2>3. lastExit' = "finished" => AllFinished
    BY <1>5, <2>1, <2>2
  <2> QED
    BY <1>4, <2>2, <2>3 DEF FinishedMeansDone
<1>13. CASE ProcessDies
  BY <1>13 DEF ProcessDies, FinishedMeansDone
<1> HIDE DEF AllFinished
<1> QED
  BY <1>1, <1>7, <1>8, <1>9, <1>10, <1>11, <1>12, <1>13, EndForm DEF Done, AllFinished

\* A run that returns without a halt leaves every asset in a terminal state,
\* whoever was its last worker and whatever the others were at: the exit code
\* with which systemd does not start the controller again.
THEOREM FinishedRunIsDone == Spec => []FinishedMeansDone
<1>1. Init => Done
  BY DEF Init, Done, FinishedMeansDone
<1>2. TypeInv /\ (Calm => Foundation) /\ Done /\ [Next]_vars => Done'
  BY DoneStep
<1>3. Done => FinishedMeansDone
  BY DEF Done, FinishedMeansDone
<1> QED
  BY <1>1, <1>2, <1>3, CalmFoundation, PTL DEF Spec

LEMMA CleanExitStep ==
  ASSUME TypeInv, Manned, CleanExitLeavesNothingInFlight, [Next]_vars
  PROVE  CleanExitLeavesNothingInFlight'
<1>1. /\ rows \in [Assets -> Row] /\ \A b \in Assets : rows[b] \in Row
  BY DEF TypeInv, TypeOK, RowsTypeOK
<1>2. CASE Launch \/ BeginReconciliation \/ StartWorkers
  BY <1>2 DEF Launch, BeginReconciliation, StartWorkers, CleanExitLeavesNothingInFlight
<1>3. CASE Return
  <2>1. rows' = rows /\ proc = "running" /\ \A w \in Workers : worker[w].pc \notin Busy
    BY <1>3 DEF Return, Busy
  <2>2. \A b \in Assets : rows[b].state \notin InFlight
    BY <2>1 DEF Manned, InFlightHasWorker, Holds
  <2> QED
    BY <2>1, <2>2 DEF CleanExitLeavesNothingInFlight
<1>4. CASE ProcessDies
  BY <1>4 DEF ProcessDies, CleanExitLeavesNothingInFlight
<1>5. ASSUME NEW a \in Assets, ReconcileOne(a)
      PROVE  CleanExitLeavesNothingInFlight'
  BY <1>5, ReconcileForm DEF Reconciles, CleanExitLeavesNothingInFlight
<1>6. ASSUME NEW w \in Workers, WorkerStep(w)
      PROVE  CleanExitLeavesNothingInFlight'
  BY <1>4, <1>6, WorkerStepForm DEF StepForm, CleanExitLeavesNothingInFlight
<1>7. ASSUME UNCHANGED <<proc, lastExit>>,
             \A b \in Assets : rows'[b].state \in {rows[b].state, "pending"}
      PROVE  CleanExitLeavesNothingInFlight'
  BY <1>7 DEF CleanExitLeavesNothingInFlight, InFlight
<1>8. ASSUME NEW a \in Assets, Approve(a)
      PROVE  CleanExitLeavesNothingInFlight'
  <2>1. \A b \in Assets : rows'[b].state \in {rows[b].state, "pending"}
    BY <1>1, <1>8 DEF Approve, RequeueForRegeneration, FreshRow
  <2> QED
    BY <1>7, <1>8, <2>1 DEF Approve, runVars
<1>9. ASSUME NEW a \in Assets, RetryFallsDue(a)
      PROVE  CleanExitLeavesNothingInFlight'
  <2>1. \A b \in Assets : rows'[b].state = rows[b].state
    BY <1>1, <1>9 DEF RetryFallsDue, BackoffElapses, Row
  <2> QED
    BY <1>7, <1>9, <2>1 DEF RetryFallsDue, runVars
<1>10. ASSUME \/ \E p \in PromptIds : ComfySucceeds(p) \/ ComfyFails(p)
              \/ ComfyRestarts \/ HaltRequested \/ UNCHANGED vars
       PROVE  CleanExitLeavesNothingInFlight'
  BY <1>7, <1>10 DEF ComfySucceeds, ComfyFails, PromptEnds, ComfyRestarts,
     HaltRequested, runVars, vars
<1>11. Kill => ProcessDies
  BY DEF Kill
<1> QED
  BY <1>2, <1>3, <1>4, <1>5, <1>6, <1>8, <1>9, <1>10, <1>11
     DEF Next, Startup, Environment

\* A run that returns, halted or not, has given back or finished every claim:
\* the next one has nothing to reconcile. Approvals beside the run included.
THEOREM CleanExitIsClean == Spec => []CleanExitLeavesNothingInFlight
<1>1. Init => TypeInv /\ Manned /\ CleanExitLeavesNothingInFlight
  BY TypeInit DEF Init, Manned, InFlightHasWorker, CleanExitLeavesNothingInFlight
<1>2. TypeInv /\ Manned /\ CleanExitLeavesNothingInFlight /\ [Next]_vars =>
        TypeInv' /\ Manned' /\ CleanExitLeavesNothingInFlight'
  BY TypeStep, MannedStep, CleanExitStep
<1> QED
  BY <1>1, <1>2, PTL DEF Spec

-----------------------------------------------------------------------------
(* What a row says is true, over any number of kills, restarts, halts and  *)
(* retries: `attempt' never runs past the retry ladder except for crashes  *)
(* and for claims given back, `crash_count' counts crashes and nothing     *)
(* else, the prompt a row names was generated for it, the images it was    *)
(* saved with are on the disk; and so the rows keep the life cycle of      *)
(* AssetLifecycle.                                                         *)

\* The part of the ladder that is spent: a row that waits for a claim has one
\* attempt left.
Ladder ==
  \A a \in Assets :
    /\ rows[a].attempt <= 1 + TemporaryRetries + rows[a].crashCount + yields[a]
    /\ rows[a].state \in Unclaimed =>
         rows[a].attempt <= TemporaryRetries + rows[a].crashCount + yields[a]

\* A row that a dead run left in flight has a crash to be counted, and is
\* flagged only until it has been.
CrashAccount ==
  \A a \in Assets :
    /\ rows[a].crashCount <= crashes
    /\ rows[a].state \in InFlight /\ proc # "running" => rows[a].crashCount < crashes
    /\ rows[a].crashCount <= CrashLimit + 1
    /\ rows[a].crashCount > CrashLimit => rows[a].state \in Finished
    /\ rows[a].reconciling => rows[a].state \in InFlight /\ proc # "running"

Numbers ==
  /\ TemporaryRetries \in Nat /\ CrashLimit \in Nat /\ crashes \in Nat
  /\ rows \in [Assets -> Row] /\ RowsTypeOK
  /\ \A b \in Assets : /\ rows[b] \in Row /\ yields[b] \in Nat
                       /\ rows[b].attempt \in Nat /\ rows[b].crashCount \in Nat
  /\ yields \in [Assets -> Nat]
  /\ \A w \in Workers : worker[w].pc \in Busy =>
       worker[w].asset \in Assets /\ worker[w].attempt \in Nat

LEMMA NumbersHold ==
  ASSUME TypeInv
  PROVE  Numbers
BY RetryAssumption, RunnerAssumption
   DEF TypeInv, TypeOK, HandsWell, Numbers, RowsTypeOK, Row, Worker

\* A row that moves on counts at most one crash more.
LEMMA CrashesGrow ==
  ASSUME NEW row \in Row
  PROVE  /\ CrashesAfter(row) \in Nat
         /\ CrashesAfter(row) = row.crashCount \/ CrashesAfter(row) = row.crashCount + 1
         /\ row.reconciling /\ row.state \in InFlight =>
              CrashesAfter(row) = row.crashCount + 1
         /\ ~row.reconciling => CrashesAfter(row) = row.crashCount
BY DEF CrashesAfter, Row

\* Which rows a step changes, and how the columns of the accounts change.
LEMMA ClaimedColumns ==
  ASSUME RowsTypeOK, NEW a \in Assets, ClaimNext(a)
  PROVE  /\ rows[a].state \in Unclaimed
         /\ rows'[a].state = "claimed" /\ rows'[a].attempt = rows[a].attempt + 1
         /\ rows'[a].crashCount = rows[a].crashCount
         /\ rows'[a].reconciling = rows[a].reconciling
         /\ \A b \in Assets \ {a} : rows'[b] = rows[b]
BY DEF RowsTypeOK, Row, ClaimNext, Claimable

LEMMA RecordedColumns ==
  ASSUME RowsTypeOK, NEW a \in Assets, NEW p, RecordSubmission(a, p)
  PROVE  /\ rows[a].state \in InFlight /\ rows'[a].state = "submitted"
         /\ rows'[a].attempt = rows[a].attempt
         /\ rows'[a].crashCount = rows[a].crashCount
         /\ rows'[a].reconciling = rows[a].reconciling
         /\ \A b \in Assets \ {a} : rows'[b] = rows[b]
BY DEF RowsTypeOK, Row, RecordSubmission, SubmissionAccepted

LEMMA SettledColumns ==
  ASSUME RowsTypeOK, NEW a \in Assets, NEW state, NEW outputs, NEW waiting,
         Transition(a, state, outputs, waiting)
  PROVE  /\ rows'[a].state = state /\ rows'[a].attempt = rows[a].attempt
         /\ rows'[a].crashCount = CrashesAfter(rows[a])
         /\ ~rows'[a].reconciling
         /\ \A b \in Assets \ {a} : rows'[b] = rows[b]
BY DEF RowsTypeOK, Row, Transition

\* The steps outside claims, submissions and settlements: each row is as it
\* was in the columns that count, or it is a fresh pending row.
Neutral ==
  \A a \in Assets :
    \/ /\ rows'[a].state = rows[a].state /\ rows'[a].attempt = rows[a].attempt
       /\ rows'[a].crashCount = rows[a].crashCount /\ yields'[a] = yields[a]
    \/ rows'[a] = FreshRow("pending") /\ yields'[a] \in Nat

LEMMA NeutralSteps ==
  ASSUME TypeInv,
         \/ Launch \/ BeginReconciliation \/ StartWorkers \/ Return \/ ProcessDies
         \/ (Elsewhere /\ rows' = rows)
         \/ \E a \in Assets : Approve(a) \/ RetryFallsDue(a)
  PROVE  Neutral
<1>1. Numbers
  BY NumbersHold
<1>2. ASSUME rows' = rows, yields' = yields
      PROVE  Neutral
  BY <1>2 DEF Neutral
<1>3. CASE Launch
  BY <1>1, <1>3 DEF Launch, LoadBatch, Neutral, Numbers, historyVars
<1>4. CASE BeginReconciliation
  <2>1. \A b \in Assets : /\ rows'[b].state = rows[b].state
                          /\ rows'[b].attempt = rows[b].attempt
                          /\ rows'[b].crashCount = rows[b].crashCount
    BY <1>1, <1>4 DEF BeginReconciliation, FlagForReconciliation, Numbers, Row
  <2> QED
    BY <1>4, <2>1 DEF BeginReconciliation, Neutral, historyVars
<1>5. CASE StartWorkers \/ Return \/ ProcessDies \/ (Elsewhere /\ rows' = rows)
  BY <1>2, <1>5 DEF StartWorkers, Return, ProcessDies, Elsewhere, historyVars
<1>6. ASSUME NEW a \in Assets, Approve(a)
      PROVE  Neutral
  <2>1. rows'[a] = FreshRow("pending") /\ yields'[a] = 0
    BY <1>1, <1>6 DEF Approve, RequeueForRegeneration, Numbers
  <2>2. \A b \in Assets \ {a} : rows'[b] = rows[b] /\ yields'[b] = yields[b]
    BY <1>1, <1>6 DEF Approve, RequeueForRegeneration, Numbers
  <2> QED
    BY <2>1, <2>2 DEF Neutral
<1>7. ASSUME NEW a \in Assets, RetryFallsDue(a)
      PROVE  Neutral
  <2>1. \A b \in Assets : /\ rows'[b].state = rows[b].state
                          /\ rows'[b].attempt = rows[b].attempt
                          /\ rows'[b].crashCount = rows[b].crashCount
    BY <1>1, <1>7 DEF RetryFallsDue, BackoffElapses, Numbers, Row
  <2> QED
    BY <1>7, <2>1 DEF RetryFallsDue, Neutral, historyVars
<1> QED
  BY <1>3, <1>4, <1>5, <1>6, <1>7

-----------------------------------------------------------------------------
(* The retry ladder.                                                       *)

LEMMA LadderWorkerStep ==
  ASSUME Foundation, Ladder, NEW w \in Workers, StepForm(w)
  PROVE  Ladder'
<1>1. Numbers
  BY NumbersHold DEF Foundation
<1>2. CASE Idles(w) \/ Continues(w)
  BY <1>2 DEF Idles, Continues, Ladder
<1>3. CASE Claims(w)
  <2>1. PICK a \in Assets : ClaimNext(a)
    BY <1>3 DEF Claims
  <2>2. yields' = yields /\ "claimed" \notin Unclaimed
    BY <1>3 DEF Claims, Unclaimed
  <2>3. \A b \in Assets \ {a} : rows'[b] = rows[b]
    BY <1>1, <2>1, ClaimedColumns DEF Numbers
  <2>4. rows[a].attempt <= TemporaryRetries + rows[a].crashCount + yields[a]
    BY <1>1, <2>1, ClaimedColumns DEF Numbers, Ladder
  <2>5. /\ rows'[a].state = "claimed" /\ rows'[a].attempt = rows[a].attempt + 1
        /\ rows'[a].crashCount = rows[a].crashCount
    BY <1>1, <2>1, ClaimedColumns DEF Numbers
  <2>6. rows'[a].attempt <= 1 + TemporaryRetries + rows'[a].crashCount + yields'[a]
    BY <1>1, <2>2, <2>4, <2>5 DEF Numbers
  <2> QED
    BY <2>2, <2>3, <2>5, <2>6 DEF Ladder
<1>4. CASE Records(w)
  <2>1. worker[w].asset \in Assets
    BY <1>1, <1>4 DEF Records, Numbers, Busy
  <2>2. "submitted" \notin Unclaimed /\ yields' = yields
    BY <1>4 DEF Records, Unclaimed
  <2> QED
    BY <1>1, <1>4, <2>1, <2>2, RecordedColumns DEF Records, Numbers, Ladder
<1>5. CASE Settles(w)
  <2> DEFINE a == worker[w].asset
  <2>1. PICK state \in {"retry_wait"} \cup Finished, outputs \in SUBSET PromptIds,
             waiting \in BOOLEAN :
          /\ Settle(w, state, outputs, waiting)
          /\ \/ state \in Finished /\ yields' = yields
             \/ worker[w].attempt <= TemporaryRetries /\ yields' = yields
             \/ yields' = [yields EXCEPT ![worker[w].asset] = @ + 1]
    BY <1>5 DEF Settles
  <2>2. a \in Assets /\ rows[a].attempt = worker[w].attempt
    BY <1>1, <1>5 DEF Settles, Numbers, Foundation, Ownership, SoleOwner
  <2>3. /\ rows'[a].state = state /\ rows'[a].attempt = rows[a].attempt
        /\ rows'[a].crashCount = CrashesAfter(rows[a])
        /\ \A b \in Assets \ {a} : rows'[b] = rows[b]
    BY <1>1, <2>1, <2>2, SettledColumns DEF Settle, Numbers
  <2>4. rows'[a].crashCount \in Nat /\ rows'[a].crashCount >= rows[a].crashCount
    BY <1>1, <2>2, <2>3, CrashesGrow DEF Numbers
  <2>5. \A b \in Assets \ {a} : yields'[b] = yields[b]
    BY <1>1, <2>1 DEF Numbers
  <2>6. yields'[a] \in Nat /\ yields'[a] >= yields[a]
    BY <1>1, <2>1, <2>2 DEF Numbers
  <2>7. rows'[a].attempt <= 1 + TemporaryRetries + rows'[a].crashCount + yields'[a]
    BY <1>1, <2>2, <2>3, <2>4, <2>6 DEF Ladder, Numbers
  <2>8. state \in Finished => state \notin Unclaimed
    BY DEF Finished, Unclaimed
  <2>9. state \in Unclaimed =>
          rows'[a].attempt <= TemporaryRetries + rows'[a].crashCount + yields'[a]
    <3>1. CASE rows[a].attempt <= TemporaryRetries
      BY <1>1, <2>2, <2>3, <2>4, <2>6, <3>1 DEF Numbers
    <3>2. CASE yields' = [yields EXCEPT ![a] = @ + 1]
      <4>1. yields'[a] = yields[a] + 1
        BY <1>1, <2>2, <3>2 DEF Numbers
      <4>2. rows[a].attempt <= 1 + TemporaryRetries + rows[a].crashCount + yields[a]
        BY <2>2 DEF Ladder
      <4> QED
        BY <1>1, <2>2, <2>3, <2>4, <4>1, <4>2 DEF Numbers
    <3> QED
      BY <2>1, <2>2, <2>8, <3>1, <3>2
  <2> HIDE DEF a
  <2> QED
    BY <2>3, <2>5, <2>7, <2>9 DEF Ladder
<1> QED
  BY <1>2, <1>3, <1>4, <1>5 DEF StepForm

LEMMA LadderStep ==
  ASSUME Foundation, Ladder, [Next]_vars
  PROVE  Ladder'
<1>1. Numbers
  BY NumbersHold DEF Foundation
<1>2. CASE Neutral
  <2>1. ASSUME NEW a \in Assets, rows'[a] = FreshRow("pending"), yields'[a] \in Nat
        PROVE  /\ rows'[a].attempt <= 1 + TemporaryRetries + rows'[a].crashCount + yields'[a]
               /\ rows'[a].attempt <= TemporaryRetries + rows'[a].crashCount + yields'[a]
    BY <1>1, <2>1 DEF FreshRow, Numbers
  <2> QED
    BY <1>2, <2>1 DEF Neutral, Ladder
<1>3. ASSUME NEW a \in Assets, ReconcileOne(a)
      PROVE  Ladder'
  <2>1. Reconciles(a)
    BY <1>3, ReconcileForm DEF Foundation
  <2>2. PICK state, outputs, waiting : Transition(a, state, outputs, waiting)
    BY <2>1 DEF Reconciles
  <2>3. /\ rows'[a].attempt = rows[a].attempt
        /\ rows'[a].crashCount = CrashesAfter(rows[a])
        /\ \A b \in Assets \ {a} : rows'[b] = rows[b]
    BY <1>1, <2>2, SettledColumns DEF Numbers
  <2>4. rows[a].state \in InFlight /\ rows[a].reconciling
    BY <2>1 DEF Reconciles, Foundation, Ownership
  <2>5. rows'[a].crashCount = rows[a].crashCount + 1
    BY <1>1, <2>3, <2>4, CrashesGrow DEF Numbers
  <2>6. yields' = yields
    BY <2>1 DEF Reconciles
  <2>7. /\ rows'[a].attempt <= 1 + TemporaryRetries + rows'[a].crashCount + yields'[a]
        /\ rows'[a].attempt <= TemporaryRetries + rows'[a].crashCount + yields'[a]
    BY <1>1, <2>3, <2>5, <2>6 DEF Ladder, Numbers
  <2> QED
    BY <2>3, <2>6, <2>7 DEF Ladder
<1>4. ASSUME NEW w \in Workers, WorkerStep(w)
      PROVE  Ladder'
  BY <1>2, <1>4, WorkerStepForm, LadderWorkerStep, NeutralSteps DEF Foundation
<1>5. Kill => ProcessDies
  BY DEF Kill
<1>6. Foundation => TypeInv
  BY DEF Foundation
<1> QED
  BY <1>2, <1>3, <1>4, <1>5, <1>6, ElsewhereForm, NeutralSteps DEF Next, Startup, Environment

\* The retry ladder is bounded over kills, restarts and halts: every attempt
\* beyond it was paid for by a crash or by a claim given back for a halt.
THEOREM LadderIsBounded ==
  ASSUME ~ApproveWhileRunning
  PROVE  Spec => []AttemptsBounded
<1>1. Init => Ladder
  BY RetryAssumption DEF Init, StoreInit, FreshRow, Ladder, Unclaimed
<1>2. Foundation /\ Ladder /\ [Next]_vars => Ladder'
  BY LadderStep
<1>3. Ladder => AttemptsBounded
  BY DEF Ladder, AttemptsBounded
<1> QED
  BY <1>1, <1>2, <1>3, FoundationHolds, PTL DEF Spec

-----------------------------------------------------------------------------
(* The crash counter.                                                      *)

LEMMA CrashWorkerStep ==
  ASSUME Foundation, CrashAccount, NEW w \in Workers, StepForm(w)
  PROVE  CrashAccount'
<1>1. Numbers
  BY NumbersHold DEF Foundation
<1>2. proc = "running" /\ proc' = "running" /\ crashes' = crashes
  BY DEF StepForm
<1>3. \A b \in Assets : ~rows[b].reconciling
  BY <1>2 DEF CrashAccount
<1>4. \A b \in Assets : rows[b].state \in InFlight \cup Unclaimed => rows[b].crashCount <= CrashLimit
  <2>1. \A b \in Assets : rows[b].state \in InFlight \cup Unclaimed => rows[b].state \notin Finished
    BY DEF InFlight, Unclaimed, Finished
  <2> QED
    BY <1>1, <2>1 DEF CrashAccount, Numbers
<1>5. ASSUME NEW a \in Assets, rows[a].state \in InFlight \cup Unclaimed,
             rows'[a].crashCount = rows[a].crashCount, ~rows'[a].reconciling,
             \A b \in Assets \ {a} : rows'[b] = rows[b]
      PROVE  CrashAccount'
  <2>1. /\ rows'[a].crashCount <= crashes' /\ rows'[a].crashCount <= CrashLimit
        /\ ~(rows'[a].crashCount > CrashLimit) /\ rows'[a].crashCount <= CrashLimit + 1
    BY <1>1, <1>2, <1>4, <1>5 DEF CrashAccount, Numbers
  <2> QED
    BY <1>2, <1>5, <2>1 DEF CrashAccount
<1>6. CASE Idles(w) \/ Continues(w)
  BY <1>2, <1>6 DEF Idles, Continues, CrashAccount
<1>7. CASE Claims(w)
  <2>1. PICK a \in Assets : ClaimNext(a)
    BY <1>7 DEF Claims
  <2> QED
    BY <1>1, <1>3, <1>5, <2>1, ClaimedColumns DEF Numbers
<1>8. CASE Records(w)
  <2>1. worker[w].asset \in Assets
    BY <1>1, <1>8 DEF Records, Numbers, Busy
  <2> QED
    BY <1>1, <1>3, <1>5, <1>8, <2>1, RecordedColumns DEF Records, Numbers
<1>9. CASE Settles(w)
  <2>1. PICK state, outputs, waiting : Settle(w, state, outputs, waiting)
    BY <1>9 DEF Settles
  <2>2. worker[w].asset \in Assets /\ rows[worker[w].asset].state \in InFlight
    BY <1>1, <1>9 DEF Settles, Numbers, Foundation, Ownership, SoleOwner
  <2>3. /\ rows'[worker[w].asset].crashCount = CrashesAfter(rows[worker[w].asset])
        /\ ~rows'[worker[w].asset].reconciling
        /\ \A b \in Assets \ {worker[w].asset} : rows'[b] = rows[b]
    BY <1>1, <2>1, <2>2, SettledColumns DEF Settle, Numbers
  <2>4. CrashesAfter(rows[worker[w].asset]) = rows[worker[w].asset].crashCount
    BY <1>1, <1>3, <2>2, CrashesGrow DEF Numbers
  <2> QED
    BY <1>5, <2>2, <2>3, <2>4
<1> QED
  BY <1>6, <1>7, <1>8, <1>9 DEF StepForm

LEMMA CrashStep ==
  ASSUME ~ApproveWhileRunning, Foundation, CrashAccount, [Next]_vars
  PROVE  CrashAccount'
<1>1. Numbers /\ TypeInv
  BY NumbersHold DEF Foundation
<1>2. CASE rows' = rows /\ proc' = proc /\ crashes' = crashes
  BY <1>2 DEF CrashAccount
<1>3. CASE ProcessDies
  <2>1. rows' = rows /\ proc' = "down" /\ crashes' = crashes + 1
    BY <1>3 DEF ProcessDies
  <2>2. \A b \in Assets : rows'[b].crashCount < crashes'
    BY <1>1, <2>1 DEF CrashAccount, Numbers
  <2>3. \A b \in Assets : rows'[b].crashCount <= crashes'
    BY <1>1, <2>1 DEF CrashAccount, Numbers
  <2> QED
    BY <2>1, <2>2, <2>3 DEF CrashAccount
<1>4. ASSUME NEW a \in Assets, rows'[a] = FreshRow("pending"), crashes' \in Nat
      PROVE  /\ rows'[a].crashCount <= crashes' /\ rows'[a].crashCount <= CrashLimit + 1
             /\ ~(rows'[a].crashCount > CrashLimit)
             /\ rows'[a].state \notin InFlight /\ ~rows'[a].reconciling
  BY <1>1, <1>4 DEF FreshRow, InFlight, Numbers
<1>5. CASE Launch
  <2>1. proc = "down" /\ proc' = "loaded" /\ crashes' = crashes
    BY <1>5 DEF Launch, eventCounts
  <2>2. \A b \in Assets : rows'[b] = rows[b] \/ rows'[b] = FreshRow("pending")
    BY <1>5 DEF Launch, LoadBatch
  <2> QED
    BY <1>1, <1>4, <2>1, <2>2 DEF CrashAccount, Numbers
<1>6. CASE BeginReconciliation
  <2>1. proc = "loaded" /\ proc' = "reconciling" /\ crashes' = crashes
    BY <1>6 DEF BeginReconciliation, eventCounts
  <2>2. \A b \in Assets : /\ rows'[b].state = rows[b].state
                          /\ rows'[b].crashCount = rows[b].crashCount
                          /\ rows'[b].reconciling => rows[b].state \in InFlight
    BY <1>1, <1>6 DEF BeginReconciliation, FlagForReconciliation, CrashAccount, Numbers, Row
  <2>3. proc # "running" /\ proc' # "running"
    BY <2>1
  <2>4. \A b \in Assets :
          /\ rows'[b].crashCount <= crashes'
          /\ rows'[b].state \in InFlight => rows'[b].crashCount < crashes'
          /\ rows'[b].crashCount <= CrashLimit + 1
          /\ rows'[b].crashCount > CrashLimit => rows'[b].state \in Finished
    BY <2>1, <2>2 DEF CrashAccount
  <2>5. \A b \in Assets : rows'[b].reconciling => rows'[b].state \in InFlight
    BY Zenon, <2>2
  <2> QED
    BY Zenon, <2>3, <2>4, <2>5 DEF CrashAccount
<1>7. CASE StartWorkers
  <2>1. rows' = rows /\ crashes' = crashes /\ proc = "reconciling" /\ proc' = "running"
        /\ todo = {}
    BY <1>7 DEF StartWorkers, eventCounts
  <2>2. \A b \in Assets : rows[b].state \notin InFlight
    BY <2>1 DEF Foundation, Manned
  <2> QED
    BY <2>1, <2>2 DEF CrashAccount
<1>8. CASE Return
  <2>1. /\ rows' = rows /\ crashes' = crashes /\ proc = "running" /\ proc' = "down"
        /\ \A w \in Workers : worker[w].pc \notin Busy
    BY <1>8 DEF Return, eventCounts, Busy
  <2>2. \A b \in Assets : rows[b].state \notin InFlight
    BY <2>1 DEF Foundation, Manned, InFlightHasWorker, Holds
  <2> QED
    BY <2>1, <2>2 DEF CrashAccount
<1>9. ASSUME NEW a \in Assets, ReconcileOne(a)
      PROVE  CrashAccount'
  <2>1. Reconciles(a)
    BY <1>9, <1>1, ReconcileForm
  <2>2. /\ proc = "reconciling" /\ proc' = proc /\ crashes' = crashes
        /\ rows[a].state \in InFlight /\ rows[a].reconciling
    BY <2>1 DEF Reconciles, Foundation, Ownership
  <2>3. PICK state \in {"retry_wait"} \cup Finished, outputs \in SUBSET PromptIds,
             waiting \in BOOLEAN :
          /\ Transition(a, state, outputs, waiting)
          /\ rows[a].crashCount >= CrashLimit => state \in Finished
    BY <2>1 DEF Reconciles
  <2>4. /\ rows'[a].state = state /\ rows'[a].crashCount = CrashesAfter(rows[a])
        /\ ~rows'[a].reconciling
        /\ \A b \in Assets \ {a} : rows'[b] = rows[b]
    BY <1>1, <2>3, SettledColumns DEF Numbers
  <2>5. rows'[a].crashCount = rows[a].crashCount + 1
    BY <1>1, <2>2, <2>4, CrashesGrow DEF Numbers
  <2>6. rows[a].crashCount < crashes /\ ~(rows[a].crashCount > CrashLimit)
        /\ state \notin InFlight
    BY <2>2 DEF CrashAccount, Finished, InFlight
  <2>7. /\ rows'[a].crashCount <= crashes' /\ rows'[a].crashCount <= CrashLimit + 1
        /\ rows'[a].crashCount > CrashLimit => rows'[a].state \in Finished
    BY <1>1, <2>2, <2>3, <2>4, <2>5, <2>6 DEF Numbers
  <2> QED
    BY <2>2, <2>4, <2>6, <2>7 DEF CrashAccount
<1>10. ASSUME NEW w \in Workers, WorkerStep(w)
       PROVE  CrashAccount'
  BY <1>1, <1>3, <1>10, WorkerStepForm, CrashWorkerStep
<1>11. ASSUME NEW a \in Assets, Approve(a)
       PROVE  CrashAccount'
  <2>1. proc' = proc /\ crashes' = crashes
    BY <1>11 DEF Approve, runVars
  <2>2. rows'[a] = FreshRow("pending") /\ \A b \in Assets \ {a} : rows'[b] = rows[b]
    BY <1>1, <1>11 DEF Approve, RequeueForRegeneration, Numbers
  <2> QED
    BY <1>1, <1>4, <2>1, <2>2 DEF CrashAccount, Numbers
<1>12. ASSUME NEW a \in Assets, RetryFallsDue(a)
       PROVE  CrashAccount'
  <2>1. proc' = proc /\ crashes' = crashes
    BY <1>12 DEF RetryFallsDue, runVars, eventCounts
  <2>2. \A b \in Assets : /\ rows'[b].state = rows[b].state
                          /\ rows'[b].crashCount = rows[b].crashCount
                          /\ rows'[b].reconciling = rows[b].reconciling
    BY <1>1, <1>12 DEF RetryFallsDue, BackoffElapses, Numbers, Row
  <2> QED
    BY <2>1, <2>2 DEF CrashAccount
<1>13. Kill => ProcessDies
  BY DEF Kill
<1> QED
  BY <1>2, <1>3, <1>5, <1>6, <1>7, <1>8, <1>9, <1>10, <1>11, <1>12, <1>13, ElsewhereForm
     DEF Next, Startup, Environment, Elsewhere

\* crash_count counts crashes, each at most once per asset, and an asset whose
\* count has passed the limit is terminal.
THEOREM CrashesAreCounted ==
  ASSUME ~ApproveWhileRunning
  PROVE  Spec => []CrashCountHonest
<1>1. Init => CrashAccount
  BY RunnerAssumption DEF Init, StoreInit, FreshRow, CrashAccount, InFlight
<1>2. Foundation /\ CrashAccount /\ [Next]_vars => CrashAccount'
  BY CrashStep
<1>3. CrashAccount => CrashCountHonest
  BY DEF CrashAccount, CrashCountHonest
<1> QED
  BY <1>1, <1>2, <1>3, FoundationHolds, PTL DEF Spec

-----------------------------------------------------------------------------
(* Images.                                                                 *)

OwnPrompt(a, p) == p \in Issued /\ prompts[p].asset = a
Image(a, p) == OwnPrompt(a, p) /\ prompts[p].file = "intact"

\* What the server says of a prompt agrees with what it left on the disk, and
\* what a prompt leaves is not there before it has ended.
PromptsSound ==
  \A p \in Issued :
    /\ prompts[p].listed => prompts[p].status \in {"succeeded", "failed"}
    /\ prompts[p].status = "succeeded" => prompts[p].file = "intact"
    /\ prompts[p].file = "intact" => prompts[p].status # "live"

\* A row names a prompt of its own, and is saved with images of its own.
RowGood(a) ==
  /\ rows[a].promptId # NoPrompt => OwnPrompt(a, rows[a].promptId)
  /\ rows[a].state = "saved" =>
       rows[a].outputs # {} /\ \A p \in rows[a].outputs : Image(a, p)

\* A worker submits, awaits and judges prompts of its own asset, and judges
\* those that have succeeded.
HandGood(w) ==
  /\ worker[w].pc \in {"record", "await", "judge"} =>
       OwnPrompt(worker[w].asset, worker[w].prompt)
  /\ worker[w].pc = "judge" => prompts[worker[w].prompt].status = "succeeded"

Images ==
  /\ PromptsSound
  /\ \A a \in Assets : RowGood(a)
  /\ \A w \in Workers : HandGood(w)

\* Prompts are never forgotten, and what has ended stays as it ended.
PromptsKept ==
  /\ Issued \subseteq Issued'
  /\ \A p \in Issued :
       /\ prompts'[p].asset = prompts[p].asset
       /\ prompts'[p].attempt = prompts[p].attempt
       /\ prompts[p].status # "live" =>
            prompts'[p].status = prompts[p].status /\ prompts'[p].file = prompts[p].file

LEMMA AcceptKeeps ==
  ASSUME TypeInv, PromptsSound, NEW w \in Workers, worker[w].pc = "round",
         NEW ids \in SUBSET (PromptIds \ Issued), Accept(w, ids)
  PROVE  /\ PromptsKept /\ PromptsSound'
         /\ Issued' = Issued \cup ids
         /\ \A p \in ids : /\ prompts'[p].asset = worker[w].asset
                           /\ prompts'[p].attempt = worker[w].attempt
                           /\ prompts'[p].status = "live"
         /\ \A p \in Issued : prompts'[p] = prompts[p]
<1>1. Issued' = Issued \cup ids
  BY DEF Accept, Issued
<1>2. /\ \A p \in Issued : prompts'[p] = prompts[p]
      /\ \A p \in ids : prompts'[p] = NewPrompt(w)
  BY <1>1 DEF Accept
<1>3. /\ NewPrompt(w).asset = worker[w].asset /\ NewPrompt(w).attempt = worker[w].attempt
      /\ NewPrompt(w).status = "live" /\ ~NewPrompt(w).listed
      /\ NewPrompt(w).file = "none"
  BY DEF NewPrompt
<1>4. PromptsKept
  BY <1>1, <1>2 DEF PromptsKept
<1>5. PromptsSound'
  BY <1>1, <1>2, <1>3 DEF PromptsSound
<1> QED
  BY <1>1, <1>2, <1>3, <1>4, <1>5

LEMMA EndsKeeps ==
  ASSUME TypeInv, PromptsSound, NEW p \in PromptIds, ComfySucceeds(p) \/ ComfyFails(p)
  PROVE  PromptsKept /\ PromptsSound'
<1>1. PICK status \in {"succeeded", "failed"}, file \in {"intact", "none"} :
        /\ PromptEnds(p, status, file)
        /\ (status = "succeeded" <=> file = "intact")
  BY DEF ComfySucceeds, ComfyFails
<1>2. prompts \in [Issued -> Prompt] /\ \A q \in Issued : prompts[q] \in Prompt
  BY DEF TypeInv, TypeOK
<1>3. Issued' = Issued
  BY <1>1, <1>2 DEF PromptEnds, Issued
<1>4. /\ \A q \in Issued \ {p} : prompts'[q] = prompts[q]
      /\ p \in Issued /\ prompts[p].status = "live"
      /\ prompts'[p].status = status /\ prompts'[p].file = file
      /\ prompts'[p].asset = prompts[p].asset /\ prompts'[p].attempt = prompts[p].attempt
  BY <1>1, <1>2 DEF PromptEnds, Prompt
<1>5. PromptsKept
  BY <1>3, <1>4 DEF PromptsKept
<1>6. PromptsSound'
  <2>1. ASSUME NEW q \in Issued
        PROVE  /\ prompts'[q].listed => prompts'[q].status \in {"succeeded", "failed"}
               /\ prompts'[q].status = "succeeded" => prompts'[q].file = "intact"
               /\ prompts'[q].file = "intact" => prompts'[q].status # "live"
    <3>1. CASE q = p
      BY <1>1, <1>4, <3>1
    <3>2. CASE q # p
      BY <1>4, <3>2 DEF PromptsSound
    <3> QED
      BY <3>1, <3>2
  <2> QED
    BY <1>3, <2>1 DEF PromptsSound
<1> QED
  BY <1>5, <1>6

LEMMA RestartKeeps ==
  ASSUME TypeInv, PromptsSound, ComfyRestarts
  PROVE  PromptsKept /\ PromptsSound'
<1>1. PICK left \in [Issued -> {"none", "intact", "corrupt"}] :
        /\ \A p \in Issued : prompts[p].status # "live" => left[p] = prompts[p].file
        /\ prompts' = [p \in Issued |->
             [prompts[p] EXCEPT !.status = IF @ = "live" THEN "lost" ELSE @,
                                !.listed = FALSE, !.file = left[p]]]
  BY DEF ComfyRestarts
<1>2. Issued' = Issued
  BY <1>1 DEF Issued
<1>3. ASSUME NEW p \in Issued
      PROVE  /\ prompts'[p].asset = prompts[p].asset
             /\ prompts'[p].attempt = prompts[p].attempt
             /\ prompts'[p].status =
                  IF prompts[p].status = "live" THEN "lost" ELSE prompts[p].status
             /\ ~prompts'[p].listed /\ prompts'[p].file = left[p]
  <2>1. prompts[p] \in Prompt
    BY DEF TypeInv, TypeOK
  <2>2. prompts'[p] = [prompts[p] EXCEPT
          !.status = IF prompts[p].status = "live" THEN "lost" ELSE prompts[p].status,
          !.listed = FALSE, !.file = left[p]]
    BY <1>1, <1>2
  <2> QED
    BY <2>1, <2>2 DEF Prompt
<1>4. PromptsKept
  BY <1>1, <1>2, <1>3 DEF PromptsKept
<1>5. ASSUME NEW p \in Issued
      PROVE  /\ ~prompts'[p].listed /\ prompts'[p].status # "live"
             /\ prompts'[p].status = "succeeded" => prompts'[p].file = "intact"
  <2>1. prompts[p].status = "succeeded" => left[p] = "intact"
    BY <1>1 DEF PromptsSound
  <2> QED
    BY <1>3, <2>1
<1>6. PromptsSound'
  BY <1>2, <1>5 DEF PromptsSound
<1> QED
  BY <1>4, <1>6

LEMMA SameKeeps ==
  ASSUME PromptsSound, prompts' = prompts
  PROVE  PromptsKept /\ PromptsSound'
BY DEF PromptsSound, PromptsKept, Issued

\* What was an asset's own, or its image, still is.
LEMMA OwnKept ==
  ASSUME PromptsSound, PromptsKept, NEW a, NEW p, OwnPrompt(a, p)
  PROVE  /\ OwnPrompt(a, p)'
         /\ Image(a, p) => Image(a, p)'
         /\ prompts[p].status = "succeeded" => prompts'[p].status = "succeeded"
BY DEF OwnPrompt, Image, PromptsSound, PromptsKept

\* One worker moves on with something of its own; the others do not.
LEMMA HandsStep ==
  ASSUME TypeInv, PromptsSound, PromptsKept, \A v \in Workers : HandGood(v),
         NEW w \in Workers, NEW next, worker' = [worker EXCEPT ![w] = next],
         next.pc \in {"record", "await", "judge"} =>
           next.prompt \in Issued' /\ prompts'[next.prompt].asset = next.asset,
         next.pc = "judge" => prompts'[next.prompt].status = "succeeded"
  PROVE  \A v \in Workers : HandGood(v)'
<1>1. worker \in [Workers -> Worker]
  BY DEF TypeInv, TypeOK
<1>2. TAKE v \in Workers
<1>3. CASE v = w
  <2>1. worker'[v] = next
    BY <1>1, <1>3
  <2> QED
    BY <2>1 DEF HandGood, OwnPrompt
<1>4. CASE v # w
  <2>1. worker'[v] = worker[v]
    BY <1>1, <1>4
  <2> QED
    BY <2>1, OwnKept DEF HandGood, OwnPrompt
<1> QED
  BY <1>3, <1>4

LEMMA HandsStay ==
  ASSUME PromptsSound, PromptsKept, \A w \in Workers : HandGood(w), worker' = worker
  PROVE  \A w \in Workers : HandGood(w)'
BY OwnKept DEF HandGood, OwnPrompt

\* A row that names no other prompt, and is saved with no other images.
RowKept(a) ==
  /\ rows'[a].promptId \in {rows[a].promptId, NoPrompt}
  /\ rows'[a].state = "saved" =>
       rows[a].state = "saved" /\ rows'[a].outputs = rows[a].outputs

LEMMA KeptIsGood ==
  ASSUME PromptsSound, PromptsKept, NEW a \in Assets, RowGood(a), RowKept(a)
  PROVE  RowGood(a)'
<1>1. rows'[a].promptId # NoPrompt =>
        /\ rows'[a].promptId \in Issued'
        /\ prompts'[rows'[a].promptId].asset = a
  BY DEF RowKept, RowGood, OwnPrompt, PromptsKept
<1>2. ASSUME NEW p, Image(a, p)
      PROVE  p \in Issued' /\ prompts'[p].asset = a /\ prompts'[p].file = "intact"
  BY <1>2 DEF Image, OwnPrompt, PromptsKept, PromptsSound
<1> QED
  BY <1>1, <1>2 DEF RowKept, RowGood, Image, OwnPrompt

\* The transitions that end in anything but "saved" keep every row good.
LEMMA PutDownKeeps ==
  ASSUME TypeInv, NEW a \in Assets, NEW state, NEW outputs, NEW waiting,
         Transition(a, state, outputs, waiting), state # "saved"
  PROVE  \A b \in Assets : RowKept(b)
BY DEF TypeInv, TypeOK, RowsTypeOK, Row, Transition, RowKept

LEMMA SavedKeeps ==
  ASSUME TypeInv, PromptsSound, PromptsKept, \A b \in Assets : RowGood(b),
         NEW a \in Assets, NEW outputs, NEW state, NEW waiting,
         Transition(a, state, outputs, waiting),
         outputs # {}, \A p \in outputs : Image(a, p)
  PROVE  \A b \in Assets : RowGood(b)'
<1>1. /\ rows'[a].promptId = rows[a].promptId /\ rows'[a].outputs = outputs
      /\ \A b \in Assets \ {a} : rows'[b] = rows[b]
  BY DEF TypeInv, TypeOK, RowsTypeOK, Row, Transition
<1>2. \A b \in Assets \ {a} : RowGood(b)'
  BY <1>1, KeptIsGood DEF RowKept
<1>3. \A p \in outputs : Image(a, p)'
  BY OwnKept DEF Image
<1>4. rows[a].promptId # NoPrompt =>
        rows[a].promptId \in Issued' /\ prompts'[rows[a].promptId].asset = a
  BY DEF RowGood, OwnPrompt, PromptsKept
<1>5. RowGood(a)'
  BY <1>1, <1>3, <1>4 DEF RowGood, OwnPrompt
<1> QED
  BY <1>2, <1>5

\* A worker puts its asset down in another state than "saved".
LEMMA SettleKeeps ==
  ASSUME TypeInv, Images, PromptsKept, NEW w \in Workers, worker[w].pc \in Busy,
         NEW state, NEW outputs, NEW waiting,
         Settle(w, state, outputs, waiting), state # "saved"
  PROVE  /\ \A b \in Assets : RowGood(b)'
         /\ \A v \in Workers : HandGood(v)'
<1>1. worker[w].asset \in Assets
  BY DEF TypeInv, HandsWell
<1>2. \A b \in Assets : RowKept(b)
  BY <1>1, PutDownKeeps DEF Settle
<1>3. At("check").pc \notin {"record", "await", "judge"}
  BY DEF At
<1> QED
  BY <1>2, <1>3, KeptIsGood, HandsStep DEF Settle, Goto, Images

LEMMA FailureKeeps ==
  ASSUME TypeInv, Images, PromptsKept, NEW w \in Workers, worker[w].pc \in Busy,
         \/ \E class : HandleExecutionFailure(w, class)
         \/ SkipAfterException(w) \/ FailAssetPermanently(w)
  PROVE  /\ \A b \in Assets : RowGood(b)'
         /\ \A v \in Workers : HandGood(v)'
<1>1. \A class : GiveUpState(class, "single") # "saved"
  BY DEF GiveUpState, TerminalState
<1> QED
  BY <1>1, SettleKeeps DEF HandleExecutionFailure, SkipAfterException, FailAssetPermanently

\* A worker goes on, with nothing in hand to record, await or judge.
LEMMA TurnKeeps ==
  ASSUME TypeInv, Images, PromptsKept, NEW w \in Workers,
         NEW next, worker' = [worker EXCEPT ![w] = next],
         next.pc \notin {"record", "await", "judge"}, \A b \in Assets : RowKept(b)
  PROVE  /\ \A b \in Assets : RowGood(b)'
         /\ \A v \in Workers : HandGood(v)'
BY KeptIsGood, HandsStep DEF Images

LEMMA ImagesOfAWorker ==
  ASSUME TypeInv, Images, NEW w \in Workers, WorkerStep(w), ~ProcessDies
  PROVE  Images'
<1>1. /\ worker \in [Workers -> Worker] /\ worker[w] \in Worker
      /\ worker[w].pc \in Busy => worker[w].asset \in Assets
      /\ \A b \in Assets : rows[b] \in Row
      /\ PromptsSound
  BY DEF TypeInv, TypeOK, HandsWell, RowsTypeOK, Images
<1>2. ASSUME rows' = rows
      PROVE  \A b \in Assets : RowKept(b)
  BY <1>2 DEF RowKept
<1>3. ASSUME prompts' = prompts, PromptsKept =>
               (\A b \in Assets : RowGood(b)') /\ (\A v \in Workers : HandGood(v)')
      PROVE  Images'
  BY <1>1, <1>3, SameKeeps DEF Images
<1>4. \A pc \in {"check", "claim", "exited", "gate"} :
        At(pc).pc \notin {"record", "await", "judge"}
  BY DEF At
<1>5. CASE Check(w) \/ FindNothing(w)
  <2>1. \E pc \in {"check", "claim", "exited"} : worker' = [worker EXCEPT ![w] = At(pc)]
    BY <1>5 DEF Check, FindNothing, Goto
  <2>2. prompts' = prompts /\ rows' = rows
    BY <1>5 DEF Check, FindNothing
  <2> QED
    BY <1>2, <1>3, <1>4, <2>1, <2>2, TurnKeeps
<1>6. CASE Claim(w)
  <2>1. PICK a \in Assets :
          /\ ClaimNext(a)
          /\ worker' = [worker EXCEPT ![w] =
               [At("gate") EXCEPT !.asset = a, !.attempt = rows[a].attempt + 1]]
    BY <1>6 DEF Claim
  <2>2. \A b \in Assets : RowKept(b)
    BY <1>1, <2>1 DEF ClaimNext, RowKept, TypeInv, TypeOK, RowsTypeOK, Row
  <2>3. [At("gate") EXCEPT !.asset = a, !.attempt = rows[a].attempt + 1].pc = "gate"
    BY DEF At
  <2> QED
    BY <1>3, <1>6, <2>1, <2>2, <2>3, TurnKeeps DEF Claim
<1>7. CASE PassGate(w)
  <2>1. worker[w].pc \in Busy /\ prompts' = prompts
    BY <1>7 DEF PassGate, Busy
  <2>2. ASSUME worker' = [worker EXCEPT ![w].pc = "round"], UNCHANGED rows
        PROVE  Images'
    <3> DEFINE next == [worker[w] EXCEPT !.pc = "round"]
    <3>1. worker' = [worker EXCEPT ![w] = next] /\ next.pc = "round"
      BY <1>1, <2>2 DEF Worker
    <3> HIDE DEF next
    <3> QED
      BY <1>2, <1>3, <2>1, <2>2, <3>1, TurnKeeps
  <2>3. FailAssetPermanently(w) => Images'
    BY <1>3, <2>1, FailureKeeps
  <2> QED
    BY <1>7, <2>2, <2>3 DEF PassGate
<1>8. CASE YieldForHalt(w)
  BY <1>3, <1>8, SettleKeeps DEF YieldForHalt, Busy
<1>9. CASE Submit(w)
  <2>1. worker[w].pc = "round" /\ worker[w].pc \in Busy
    BY <1>9 DEF Submit, Busy
  <2>2. ASSUME NEW ids \in SUBSET (PromptIds \ Issued), Accept(w, ids),
               NEW p \in ids, Submitted(w, p)
        PROVE  Images'
    <3>1. /\ PromptsKept /\ PromptsSound' /\ p \in Issued'
          /\ prompts'[p].asset = worker[w].asset
      BY <1>1, <2>1, <2>2, AcceptKeeps
    <3> DEFINE next == [worker[w] EXCEPT !.pc = "record", !.prompt = p]
    <3>2. /\ worker' = [worker EXCEPT ![w] = next] /\ next.pc = "record"
          /\ next.prompt = p /\ next.asset = worker[w].asset
      BY <1>1, <2>2 DEF Submitted, Worker
    <3> HIDE DEF next
    <3>3. \A v \in Workers : HandGood(v)'
      BY <3>1, <3>2, HandsStep DEF Images
    <3>4. \A b \in Assets : RowGood(b)'
      BY <1>2, <2>2, <3>1, KeptIsGood DEF Submitted, Images
    <3> QED
      BY <3>1, <3>3, <3>4 DEF Images
  <2>3. ASSUME NEW ids \in SUBSET (PromptIds \ Issued), Accept(w, ids),
               NEW class, HandleExecutionFailure(w, class)
        PROVE  Images'
    <3>1. PromptsKept /\ PromptsSound'
      BY <1>1, <2>1, <2>3, AcceptKeeps
    <3> QED
      BY <2>1, <2>3, <3>1, FailureKeeps DEF Images
  <2>4. prompts' = prompts /\ FailAssetPermanently(w) => Images'
    BY <1>3, <2>1, FailureKeeps
  <2>5. PICK lost \in SUBSET (PromptIds \ Issued) :
          \/ \E p \in PromptIds \ (Issued \cup lost) :
               Accept(w, lost \cup {p}) /\ Submitted(w, p)
          \/ Accept(w, lost) /\ \E class \in ErrorClass : HandleExecutionFailure(w, class)
          \/ prompts' = prompts /\ FailAssetPermanently(w)
    BY <1>9, SubmitForm
  <2>6. ASSUME NEW p \in PromptIds \ Issued, Accept(w, lost \cup {p}), Submitted(w, p)
        PROVE  Images'
    <3>1. lost \cup {p} \in SUBSET (PromptIds \ Issued) /\ p \in lost \cup {p}
      OBVIOUS
    <3> QED
      BY <2>2, <2>6, <3>1
  <2> QED
    BY <2>3, <2>4, <2>5, <2>6
<1>10. CASE Record(w)
  <2>1. worker[w].pc = "record" /\ worker[w].pc \in Busy /\ prompts' = prompts
    BY <1>10 DEF Record, Busy
  <2>2. ASSUME RecordSubmission(worker[w].asset, worker[w].prompt),
               worker' = [worker EXCEPT ![w].pc = "await"], PromptsKept
        PROVE  (\A b \in Assets : RowGood(b)') /\ (\A v \in Workers : HandGood(v)')
    <3> PICK a, p : a \in Assets /\ a = worker[w].asset /\ p = worker[w].prompt
      BY <1>1, <2>1
    <3> DEFINE next == [worker[w] EXCEPT !.pc = "await"]
    <3>1. OwnPrompt(a, p)
      BY <2>1 DEF Images, HandGood
    <3>2. /\ worker' = [worker EXCEPT ![w] = next] /\ next.pc = "await"
          /\ next.asset = a /\ next.prompt = p
      BY <1>1, <2>2 DEF Worker
    <3>3. /\ rows'[a].promptId = p /\ rows'[a].state = "submitted"
          /\ \A b \in Assets \ {a} : rows'[b] = rows[b]
      BY <1>1, <2>1, <2>2 DEF RecordSubmission, TypeInv, TypeOK, RowsTypeOK, Row
    <3>4. p \in Issued' /\ prompts'[p].asset = a
      BY <2>2, <3>1 DEF OwnPrompt, PromptsKept
    <3> HIDE DEF next
    <3>5. \A v \in Workers : HandGood(v)'
      BY <2>2, <3>2, <3>4, HandsStep DEF Images
    <3>6. \A b \in Assets \ {a} : RowGood(b)'
      BY <2>2, <3>3, KeptIsGood DEF RowKept, Images
    <3>7. RowGood(a)'
      BY <3>3, <3>4 DEF RowGood, OwnPrompt
    <3> QED
      BY <3>5, <3>6, <3>7
  <2> QED
    BY <1>3, <1>10, <2>1, <2>2, FailureKeeps DEF Record
<1>11. CASE Await(w)
  <2>1. worker[w].pc = "await" /\ worker[w].pc \in Busy /\ prompts' = prompts
    BY <1>11 DEF Await, Busy
  <2>2. ASSUME prompts[worker[w].prompt].status = "succeeded",
               worker' = [worker EXCEPT ![w].pc = "judge"], UNCHANGED rows, PromptsKept
        PROVE  (\A b \in Assets : RowGood(b)') /\ (\A v \in Workers : HandGood(v)')
    <3> DEFINE next == [worker[w] EXCEPT !.pc = "judge"]
    <3>1. /\ worker' = [worker EXCEPT ![w] = next]
          /\ next.asset = worker[w].asset /\ next.prompt = worker[w].prompt
      BY <1>1, <2>2 DEF Worker
    <3>2. OwnPrompt(worker[w].asset, worker[w].prompt)
      BY <2>1 DEF Images, HandGood
    <3>3. /\ next.prompt \in Issued' /\ prompts'[next.prompt].asset = next.asset
          /\ prompts'[next.prompt].status = "succeeded"
      BY <2>1, <2>2, <3>1, <3>2 DEF OwnPrompt, PromptsKept
    <3> HIDE DEF next
    <3> QED
      BY <1>2, <2>2, <3>1, <3>3, KeptIsGood, HandsStep DEF Images
  <2> QED
    BY <1>3, <1>11, <2>1, <2>2, FailureKeeps DEF Await
<1>12. CASE Judge(w)
  <2>1. worker[w].pc = "judge" /\ worker[w].pc \in Busy /\ prompts' = prompts
    BY <1>12 DEF Judge, Busy
  <2>2. ASSUME Settle(w, "saved", {worker[w].prompt}, FALSE), PromptsKept
        PROVE  (\A b \in Assets : RowGood(b)') /\ (\A v \in Workers : HandGood(v)')
    <3> PICK a, outputs : a \in Assets /\ a = worker[w].asset /\ outputs = {worker[w].prompt}
      BY <1>1, <2>1
    <3>1. outputs # {} /\ \A p \in outputs : Image(a, p)
      BY <2>1 DEF Images, HandGood, PromptsSound, Image, OwnPrompt
    <3>2. \A b \in Assets : RowGood(b)'
      <4>1. Transition(a, "saved", outputs, FALSE)
        BY <2>2 DEF Settle
      <4> QED
        BY <2>2, <3>1, <4>1, SavedKeeps DEF Images
    <3>3. \A v \in Workers : HandGood(v)'
      BY <1>4, <2>2, HandsStep DEF Settle, Goto, Images
    <3> QED
      BY <3>2, <3>3
  <2>3. ASSUME worker' = [worker EXCEPT ![w].pc = "round", ![w].round = @ + 1],
               UNCHANGED rows
        PROVE  Images'
    <3> DEFINE next == [worker[w] EXCEPT !.pc = "round", !.round = @ + 1]
    <3>1. worker' = [worker EXCEPT ![w] = next] /\ next.pc = "round"
      BY <1>1, <2>3 DEF Worker
    <3> HIDE DEF next
    <3> QED
      BY <1>2, <1>3, <2>1, <2>3, <3>1, TurnKeeps
  <2>4. QcGiveUpState("single") # "saved" /\ TerminalState("single", FALSE) # "saved"
    BY DEF QcGiveUpState, TerminalState
  <2>5. NotPassed(w) => Images'
    BY <1>3, <2>1, <2>3, <2>4, SettleKeeps DEF NotPassed
  <2>6. NoVerdict(w) => Images'
    BY <1>3, <2>1, <2>4, SettleKeeps, FailureKeeps DEF NoVerdict
  <2> QED
    BY <1>3, <1>12, <2>1, <2>2, <2>5, <2>6 DEF Judge
<1> QED
  BY <1>5, <1>6, <1>7, <1>8, <1>9, <1>10, <1>11, <1>12 DEF WorkerStep, RefusedAtGate

\* Reconciliation only ever finds images of the asset: a history entry that
\* has not failed, or intact files under its job key.
LEMMA FoundAreImages ==
  ASSUME TypeInv, Images, NEW a \in Assets, NEW probed \in BOOLEAN,
         ~(probed /\ HistoryFailed(a)), NEW p \in FoundOutputs(a, probed)
  PROVE  Image(a, p)
<1>1. CASE probed /\ HistoryEntry(rows[a].promptId)
  <2>1. /\ p = rows[a].promptId /\ p \in Issued /\ prompts[p].listed
        /\ prompts[p].status # "failed" /\ p # NoPrompt
    BY <1>1, StoreAssumption
       DEF FoundOutputs, HistoryEntry, HistoryFailed, TypeInv, TypeOK
  <2> QED
    BY <2>1 DEF Images, RowGood, PromptsSound, Image, OwnPrompt
<1>2. CASE ~(probed /\ HistoryEntry(rows[a].promptId))
  BY <1>2 DEF FoundOutputs, OutputsOnDisk, FilesOf, Image, OwnPrompt
<1> QED
  BY <1>1, <1>2

LEMMA ImagesOfReconciliation ==
  ASSUME TypeInv, Images, NEW a \in Assets, ReconcileOne(a)
  PROVE  Images'
<1>1. worker' = worker /\ prompts' = prompts
  BY DEF ReconcileOne, ReconcileGivesUp, ReconcileFailed, ReconcileJudged,
     ReconcileRequeues, Reconciled
<1>2. PromptsKept /\ PromptsSound'
  BY <1>1, SameKeeps DEF Images
<1>3. \A w \in Workers : HandGood(w)'
  BY <1>1, <1>2, HandsStay DEF Images
<1>4. ASSUME NEW state, NEW outputs, NEW waiting,
             Reconciled(a, state, outputs, waiting), state # "saved"
      PROVE  \A b \in Assets : RowGood(b)'
  BY <1>2, <1>4, PutDownKeeps, KeptIsGood DEF Reconciled, Images
<1>5. \A class, permanent : /\ GiveUpState(class, "single") # "saved"
                            /\ TerminalState("single", permanent) # "saved"
  BY DEF GiveUpState, TerminalState
<1>6. ReconcileGivesUp(a) \/ ReconcileFailed(a) \/ ReconcileRequeues(a) =>
        \A b \in Assets : RowGood(b)'
  BY <1>4, <1>5 DEF ReconcileGivesUp, ReconcileFailed, ReconcileRequeues
<1>7. ASSUME NEW outputs, outputs # {}, \A p \in outputs : Image(a, p),
             ReconcileJudged(a, outputs)
      PROVE  \A b \in Assets : RowGood(b)'
  <2>1. Reconciled(a, "saved", outputs, FALSE) => \A b \in Assets : RowGood(b)'
    BY <1>2, <1>7, SavedKeeps DEF Reconciled, Images
  <2> QED
    BY <1>4, <1>5, <1>7, <2>1 DEF ReconcileJudged
<1>8. ASSUME NEW probed \in BOOLEAN, ~(probed /\ HistoryFailed(a)),
             FoundOutputs(a, probed) # {}, ReconcileJudged(a, FoundOutputs(a, probed))
      PROVE  \A b \in Assets : RowGood(b)'
  <2>1. PICK outputs : outputs = FoundOutputs(a, probed)
    OBVIOUS
  <2> QED
    BY <1>7, <1>8, <2>1, FoundAreImages
<1> QED
  BY <1>2, <1>3, <1>6, <1>8 DEF ReconcileOne, Images

LEMMA ImagesStep ==
  ASSUME TypeInv, Images, [Next]_vars
  PROVE  Images'
<1>1. \A b \in Assets : rows[b] \in Row
  BY DEF TypeInv, TypeOK, RowsTypeOK
<1>2. ASSUME PromptsKept, PromptsSound', worker' = worker, \A b \in Assets : RowKept(b)
      PROVE  Images'
  BY <1>2, KeptIsGood, HandsStay DEF Images
<1>3. ASSUME rows' = rows
      PROVE  \A b \in Assets : RowKept(b)
  BY <1>3 DEF RowKept
<1>4. ASSUME \A b \in Assets : rows'[b] = rows[b] \/ rows'[b] = FreshRow("pending")
      PROVE  \A b \in Assets : RowKept(b)
  BY <1>4 DEF RowKept, FreshRow
<1>5. prompts' = prompts => PromptsKept /\ PromptsSound'
  BY SameKeeps DEF Images
<1>6. CASE Launch
  <2>1. \A b \in Assets : rows'[b] = rows[b] \/ rows'[b] = FreshRow("pending")
    BY <1>6 DEF Launch, LoadBatch
  <2> QED
    BY <1>2, <1>4, <1>5, <1>6, <2>1 DEF Launch
<1>7. CASE BeginReconciliation
  <2>1. \A b \in Assets : RowKept(b)
    BY <1>1, <1>7 DEF BeginReconciliation, FlagForReconciliation, RowKept, Row
  <2> QED
    BY <1>2, <1>5, <1>7, <2>1 DEF BeginReconciliation
<1>8. CASE StartWorkers \/ ProcessDies
  <2>1. /\ prompts' = prompts /\ rows' = rows
        /\ worker' = [w \in Workers |-> At("check")]
    BY <1>8 DEF StartWorkers, ProcessDies
  <2>2. \A w \in Workers : HandGood(w)'
    BY <2>1 DEF HandGood, At
  <2> QED
    BY <1>3, <1>5, <2>1, <2>2, KeptIsGood DEF Images
<1>9. CASE Return \/ HaltRequested \/ UNCHANGED vars
  BY <1>2, <1>3, <1>5, <1>9 DEF Return, HaltRequested, vars
<1>10. ASSUME NEW w \in Workers, WorkerStep(w)
       PROVE  Images'
  BY <1>8, <1>10, ImagesOfAWorker
<1>11. ASSUME NEW a \in Assets, ReconcileOne(a)
       PROVE  Images'
  BY <1>11, ImagesOfReconciliation
<1>12. ASSUME NEW p \in PromptIds, ComfySucceeds(p) \/ ComfyFails(p)
       PROVE  Images'
  BY <1>2, <1>3, <1>12, EndsKeeps DEF ComfySucceeds, ComfyFails, PromptEnds, Images
<1>13. CASE ComfyRestarts
  BY <1>2, <1>3, <1>13, RestartKeeps DEF ComfyRestarts, Images
<1>14. ASSUME NEW a \in Assets, Approve(a)
       PROVE  Images'
  <2>1. \A b \in Assets : rows'[b] = rows[b] \/ rows'[b] = FreshRow("pending")
    BY <1>1, <1>14 DEF Approve, RequeueForRegeneration, TypeInv, TypeOK, RowsTypeOK
  <2> QED
    BY <1>2, <1>4, <1>5, <1>14, <2>1 DEF Approve
<1>15. ASSUME NEW a \in Assets, RetryFallsDue(a)
       PROVE  Images'
  <2>1. \A b \in Assets : RowKept(b)
    BY <1>1, <1>15 DEF RetryFallsDue, BackoffElapses, RowKept, TypeInv, TypeOK,
       RowsTypeOK, Row
  <2> QED
    BY <1>2, <1>5, <1>15, <2>1 DEF RetryFallsDue
<1>16. Kill => ProcessDies
  BY DEF Kill
<1> QED
  BY <1>6, <1>7, <1>8, <1>9, <1>10, <1>11, <1>12, <1>13, <1>14, <1>15, <1>16
     DEF Next, Startup, Environment

LEMMA ImagesHold == Spec => [](TypeInv /\ Images)
<1>1. Init => Images
  BY DEF Init, StoreInit, FreshRow, At, Issued, Images, PromptsSound, RowGood, HandGood
<1>2. TypeInv /\ Images /\ [Next]_vars => TypeInv' /\ Images'
  BY TypeStep, ImagesStep
<1> QED
  BY TypeInit, <1>1, <1>2, PTL DEF Spec

\* A saved asset has its images: whatever died, was restarted, lost or torn in
\* between, an asset is saved with at least one image, generated for it and
\* complete on the disk. Approvals beside the run included.
THEOREM SavedIsThere == Spec => []SavedHasItsImage
<1>1. Images => SavedHasItsImage
  BY DEF Images, RowGood, SavedHasItsImage, Image, OwnPrompt
<1> QED
  BY <1>1, ImagesHold, PTL

-----------------------------------------------------------------------------
(* Whose prompt a row names.                                               *)

\* A row names a prompt of one of its claims so far, and a worker that is about
\* to record a prompt has submitted it for the attempt it is at.
NamesItsClaim(a) ==
  rows[a].promptId # NoPrompt => prompts[rows[a].promptId].attempt <= rows[a].attempt
RecordsItsAttempt(w) ==
  worker[w].pc = "record" => prompts[worker[w].prompt].attempt = worker[w].attempt

Attempted ==
  /\ \A a \in Assets : NamesItsClaim(a)
  /\ \A w \in Workers : RecordsItsAttempt(w)

\* No step forgets a prompt or changes what it was generated for.
LEMMA PromptsStay ==
  ASSUME TypeInv, Images, [Next]_vars
  PROVE  PromptsKept
<1>1. PromptsSound /\ (prompts' = prompts => PromptsKept)
  BY SameKeeps DEF Images
<1>2. ASSUME NEW w \in Workers, Submit(w)
      PROVE  PromptsKept
  <2>1. worker[w].pc = "round"
    BY <1>2 DEF Submit
  <2>2. ASSUME NEW ids \in SUBSET (PromptIds \ Issued), Accept(w, ids)
        PROVE  PromptsKept
    BY <1>1, <2>1, <2>2, AcceptKeeps
  <2>3. \/ prompts' = prompts
        \/ \E ids \in SUBSET (PromptIds \ Issued) : Accept(w, ids)
    <3>1. ASSUME NEW lost \in SUBSET (PromptIds \ Issued),
                 NEW p \in PromptIds \ (Issued \cup lost)
          PROVE  lost \cup {p} \in SUBSET (PromptIds \ Issued)
      OBVIOUS
    <3> QED
      BY <1>2, <3>1, SubmitForm
  <2> QED
    BY <1>1, <2>2, <2>3
<1>3. ASSUME NEW w \in Workers, WorkerStep(w), ~Submit(w)
      PROVE  prompts' = prompts
  BY <1>3 DEF WorkerStep, Check, Claim, FindNothing, PassGate, RefusedAtGate, ProcessDies,
     YieldForHalt, Record, Await, Judge
<1>4. Startup \/ Return => prompts' = prompts
  BY DEF Startup, Launch, BeginReconciliation, StartWorkers, ReconcileOne,
     ReconcileGivesUp, ReconcileFailed, ReconcileJudged, ReconcileRequeues, Reconciled, Return
<1>5. CASE Environment
  <2>1. ASSUME NEW p \in PromptIds, ComfySucceeds(p) \/ ComfyFails(p)
        PROVE  PromptsKept
    BY <1>1, <2>1, EndsKeeps
  <2>2. ComfyRestarts => PromptsKept
    BY <1>1, RestartKeeps
  <2>3. Kill \/ HaltRequested \/ (\E a \in Assets : Approve(a) \/ RetryFallsDue(a)) =>
          prompts' = prompts
    BY DEF Kill, ProcessDies, HaltRequested, Approve, RetryFallsDue
  <2> QED
    BY <1>1, <1>5, <2>1, <2>2, <2>3 DEF Environment
<1>6. UNCHANGED vars => prompts' = prompts
  BY DEF vars
<1> QED
  BY <1>1, <1>2, <1>3, <1>4, <1>5, <1>6 DEF Next

\* A worker comes to record a prompt by submitting it.
LEMMA HandsAttempts ==
  ASSUME TypeInv, Images, Attempted, [Next]_vars
  PROVE  \A w \in Workers : RecordsItsAttempt(w)'
<1>1. /\ worker \in [Workers -> Worker] /\ PromptsSound /\ PromptsKept
      /\ \A v \in Workers : worker[v] \in Worker
  BY PromptsStay DEF TypeInv, TypeOK, Images
<1>2. ASSUME NEW v \in Workers, worker'[v] = worker[v]
      PROVE  RecordsItsAttempt(v)'
  <2> SUFFICES ASSUME worker[v].pc = "record"
               PROVE  prompts'[worker[v].prompt].attempt = worker[v].attempt
    BY <1>2 DEF RecordsItsAttempt
  <2>1. worker[v].prompt \in Issued
    BY DEF Images, HandGood, OwnPrompt
  <2> QED
    BY <1>1, <2>1 DEF PromptsKept, Attempted, RecordsItsAttempt
<1>3. ASSUME worker' = worker
      PROVE  \A v \in Workers : RecordsItsAttempt(v)'
  BY <1>2, <1>3
<1>4. ASSUME NEW w \in Workers, NEW next, worker' = [worker EXCEPT ![w] = next],
             next.pc = "record" => prompts'[next.prompt].attempt = next.attempt
      PROVE  \A v \in Workers : RecordsItsAttempt(v)'
  <2> TAKE v \in Workers
  <2>1. CASE v = w
    BY <1>1, <1>4, <2>1 DEF RecordsItsAttempt
  <2>2. CASE v # w
    BY <1>1, <1>2, <1>4, <2>2
  <2> QED
    BY <2>1, <2>2
<1>5. ASSUME NEW w \in Workers, NEW pc \in {"check", "claim", "exited"},
             worker' = [worker EXCEPT ![w] = At(pc)]
      PROVE  \A v \in Workers : RecordsItsAttempt(v)'
  BY <1>4, <1>5 DEF At
<1>6. ASSUME NEW w \in Workers, NEW state, NEW outputs, NEW waiting,
             Settle(w, state, outputs, waiting)
      PROVE  \A v \in Workers : RecordsItsAttempt(v)'
  BY <1>5, <1>6 DEF Settle, Goto
<1>7. ASSUME NEW w \in Workers,
             \/ \E class : HandleExecutionFailure(w, class)
             \/ SkipAfterException(w) \/ FailAssetPermanently(w)
      PROVE  \A v \in Workers : RecordsItsAttempt(v)'
  BY <1>6, <1>7 DEF HandleExecutionFailure, SkipAfterException, FailAssetPermanently
<1>8. ASSUME NEW w \in Workers, Submit(w)
      PROVE  \A v \in Workers : RecordsItsAttempt(v)'
  <2>1. worker[w].pc = "round"
    BY <1>8 DEF Submit
  <2>2. ASSUME NEW ids \in SUBSET (PromptIds \ Issued), Accept(w, ids),
               NEW p \in ids, Submitted(w, p)
        PROVE  \A v \in Workers : RecordsItsAttempt(v)'
    <3>1. prompts'[p].attempt = worker[w].attempt
      BY <1>1, <2>1, <2>2, AcceptKeeps
    <3> DEFINE next == [worker[w] EXCEPT !.pc = "record", !.prompt = p]
    <3>2. /\ worker' = [worker EXCEPT ![w] = next]
          /\ next.prompt = p /\ next.attempt = worker[w].attempt
      BY <1>1, <2>2 DEF Submitted, Worker
    <3> HIDE DEF next
    <3> QED
      BY <1>4, <3>1, <3>2
  <2>3. ASSUME NEW lost \in SUBSET (PromptIds \ Issued), NEW p \in PromptIds \ Issued,
               Accept(w, lost \cup {p}), Submitted(w, p)
        PROVE  \A v \in Workers : RecordsItsAttempt(v)'
    <3>1. lost \cup {p} \in SUBSET (PromptIds \ Issued) /\ p \in lost \cup {p}
      OBVIOUS
    <3> QED
      BY <2>2, <2>3, <3>1
  <2> QED
    BY <1>7, <1>8, <2>3, SubmitForm
<1>9. ASSUME NEW w \in Workers, WorkerStep(w), ~Submit(w), ~ProcessDies
      PROVE  \A v \in Workers : RecordsItsAttempt(v)'
  <2>1. CASE Check(w) \/ FindNothing(w)
    BY <1>5, <2>1 DEF Check, FindNothing, Goto
  <2>2. CASE Claim(w)
    <3>1. PICK a \in Assets : worker' = [worker EXCEPT ![w] =
            [At("gate") EXCEPT !.asset = a, !.attempt = rows[a].attempt + 1]]
      BY <2>2 DEF Claim
    <3>2. [At("gate") EXCEPT !.asset = a, !.attempt = rows[a].attempt + 1].pc = "gate"
      BY DEF At
    <3> QED
      BY <1>4, <3>1, <3>2
  <2>3. ASSUME NEW pc \in {"round", "await", "judge"}, worker' = [worker EXCEPT ![w].pc = pc]
        PROVE  \A v \in Workers : RecordsItsAttempt(v)'
    <3> DEFINE next == [worker[w] EXCEPT !.pc = pc]
    <3>1. worker' = [worker EXCEPT ![w] = next] /\ next.pc = pc
      BY <1>1, <2>3 DEF Worker
    <3> HIDE DEF next
    <3> QED
      BY <1>4, <3>1
  <2>4. ASSUME worker' = [worker EXCEPT ![w].pc = "round", ![w].round = @ + 1]
        PROVE  \A v \in Workers : RecordsItsAttempt(v)'
    <3> DEFINE next == [worker[w] EXCEPT !.pc = "round", !.round = @ + 1]
    <3>1. worker' = [worker EXCEPT ![w] = next] /\ next.pc = "round"
      BY <1>1, <2>4 DEF Worker
    <3> HIDE DEF next
    <3> QED
      BY <1>4, <3>1
  <2>5. CASE PassGate(w) \/ YieldForHalt(w)
    BY <1>6, <1>7, <2>3, <2>5 DEF PassGate, YieldForHalt
  <2>6. CASE Record(w)
    BY <1>7, <2>3, <2>6 DEF Record
  <2>7. CASE Await(w)
    BY <1>7, <2>3, <2>7 DEF Await
  <2>8. CASE Judge(w)
    BY <1>6, <1>7, <2>4, <2>8 DEF Judge, NotPassed, NoVerdict
  <2> QED
    BY <1>9, <2>1, <2>2, <2>5, <2>6, <2>7, <2>8 DEF WorkerStep, RefusedAtGate
<1>10. CASE StartWorkers \/ ProcessDies
  BY <1>10 DEF StartWorkers, ProcessDies, RecordsItsAttempt, At
<1>11. Launch \/ BeginReconciliation \/ Return \/ (\E a \in Assets : ReconcileOne(a)) =>
         worker' = worker
  BY DEF Launch, BeginReconciliation, Return, ReconcileOne, ReconcileGivesUp,
     ReconcileFailed, ReconcileJudged, ReconcileRequeues, Reconciled
<1>12. \A a \in Assets : Approve(a) \/ RetryFallsDue(a) => worker' = worker
  BY DEF Approve, RetryFallsDue
<1>13. Kill => ProcessDies
  BY DEF Kill
<1> QED
  BY <1>3, <1>8, <1>9, <1>10, <1>11, <1>12, <1>13, ElsewhereForm
     DEF Next, Startup, Environment, Elsewhere

\* No step but a submission gives a row a prompt, and an attempt is taken back
\* together with the prompt only.
NamesNoOther(a) ==
  \/ rows'[a].promptId = NoPrompt
  \/ rows'[a].promptId = rows[a].promptId /\ rows[a].attempt <= rows'[a].attempt

LEMMA RowsNames ==
  ASSUME Foundation, [Next]_vars
  PROVE  \/ \A a \in Assets : NamesNoOther(a)
         \/ \E w \in Workers : WorkerStep(w) /\ Records(w)
<1>1. /\ TypeInv /\ rows \in [Assets -> Row]
      /\ \A b \in Assets : rows[b] \in Row /\ rows[b].attempt \in Nat
      /\ \A w \in Workers : worker[w].pc \in Busy => worker[w].asset \in Assets
  BY DEF Foundation, TypeInv, TypeOK, RowsTypeOK, HandsWell, Row
<1>2. ASSUME NEW b \in Assets, rows'[b].promptId = rows[b].promptId,
             rows'[b].attempt \in {rows[b].attempt, rows[b].attempt + 1}
      PROVE  NamesNoOther(b)
  BY <1>1, <1>2 DEF NamesNoOther
<1>3. ASSUME NEW b \in Assets, rows'[b] = rows[b] \/ rows'[b] = FreshRow("pending")
      PROVE  NamesNoOther(b)
  BY <1>1, <1>3 DEF NamesNoOther, FreshRow
<1>4. ASSUME NEW a \in Assets, NEW state, NEW outputs, NEW waiting,
             Transition(a, state, outputs, waiting)
      PROVE  \A b \in Assets : NamesNoOther(b)
  <2>1. /\ rows'[a].promptId = rows[a].promptId /\ rows'[a].attempt = rows[a].attempt
        /\ \A b \in Assets \ {a} : rows'[b] = rows[b]
    BY <1>1, <1>4 DEF Transition, Row
  <2> QED
    BY <1>2, <1>3, <2>1
<1>5. ASSUME NEW w \in Workers, StepForm(w), ~Records(w)
      PROVE  \A b \in Assets : NamesNoOther(b)
  <2>1. CASE Idles(w) \/ Continues(w)
    BY <1>3, <2>1 DEF Idles, Continues
  <2>2. CASE Claims(w)
    <3>1. PICK a \in Assets : ClaimNext(a)
      BY <2>2 DEF Claims
    <3>2. /\ rows'[a].promptId = rows[a].promptId
          /\ rows'[a].attempt = rows[a].attempt + 1
          /\ \A b \in Assets \ {a} : rows'[b] = rows[b]
      BY <1>1, <3>1 DEF ClaimNext, Row
    <3> QED
      BY <1>2, <1>3, <3>2
  <2>3. CASE Settles(w)
    BY <1>1, <1>4, <2>3 DEF Settles, Settle
  <2> QED
    BY <1>5, <2>1, <2>2, <2>3 DEF StepForm
<1>6. CASE rows' = rows
  BY <1>3, <1>6
<1>7. CASE Launch
  BY <1>3, <1>7 DEF Launch, LoadBatch
<1>8. CASE BeginReconciliation
  <2>1. \A b \in Assets : /\ rows'[b].promptId = rows[b].promptId
                          /\ rows'[b].attempt = rows[b].attempt
    BY <1>1, <1>8 DEF BeginReconciliation, FlagForReconciliation, Row
  <2> QED
    BY <1>2, <2>1
<1>9. ASSUME NEW a \in Assets, ReconcileOne(a)
      PROVE  \A b \in Assets : NamesNoOther(b)
  <2>1. Reconciles(a)
    BY <1>1, <1>9, ReconcileForm
  <2> QED
    BY <1>4, <2>1 DEF Reconciles
<1>10. ASSUME NEW a \in Assets, Approve(a)
       PROVE  \A b \in Assets : NamesNoOther(b)
  <2>1. \A b \in Assets : rows'[b] = rows[b] \/ rows'[b] = FreshRow("pending")
    BY <1>1, <1>10 DEF Approve, RequeueForRegeneration
  <2> QED
    BY <1>3, <2>1
<1>11. ASSUME NEW a \in Assets, RetryFallsDue(a)
       PROVE  \A b \in Assets : NamesNoOther(b)
  <2>1. \A b \in Assets : /\ rows'[b].promptId = rows[b].promptId
                          /\ rows'[b].attempt = rows[b].attempt
    BY <1>1, <1>11 DEF RetryFallsDue, BackoffElapses, Row
  <2> QED
    BY <1>2, <2>1
<1>12. StartWorkers \/ Return \/ ProcessDies => rows' = rows
  BY DEF StartWorkers, Return, ProcessDies
<1>13. Kill => ProcessDies
  BY DEF Kill
<1> QED
  BY <1>1, <1>5, <1>6, <1>7, <1>8, <1>9, <1>10, <1>11, <1>12, <1>13, WorkerStepForm,
     ElsewhereForm DEF Next, Startup, Environment

LEMMA AttemptedStep ==
  ASSUME Foundation, Images, Attempted, [Next]_vars
  PROVE  Attempted'
<1>1. TypeInv /\ PromptsKept /\ \A w \in Workers : RecordsItsAttempt(w)'
  BY PromptsStay, HandsAttempts DEF Foundation
<1>2. ASSUME NEW a \in Assets, NamesNoOther(a)
      PROVE  NamesItsClaim(a)'
  <2> SUFFICES ASSUME rows'[a].promptId # NoPrompt
               PROVE  prompts'[rows'[a].promptId].attempt <= rows'[a].attempt
    BY DEF NamesItsClaim
  <2> DEFINE p == rows[a].promptId
             old == rows[a].attempt
             new == rows'[a].attempt
             of == prompts[p].attempt
  <2>1. rows'[a].promptId = p /\ old <= new
    BY <1>2 DEF NamesNoOther
  <2>2. p \in Issued /\ of <= old
    BY <2>1 DEF Images, RowGood, OwnPrompt, Attempted, NamesItsClaim
  <2>3. prompts'[p].attempt = of
    BY <1>1, <2>2 DEF PromptsKept
  <2>4. of \in Nat /\ old \in Nat /\ new \in Nat
    <3>1. prompts[p] \in Prompt /\ rows[a] \in Row
      BY <1>1, <2>2 DEF TypeInv, TypeOK, RowsTypeOK
    <3>2. rows'[a] \in Row
      BY <1>1, TypeStep DEF TypeInv, TypeOK, RowsTypeOK
    <3> QED
      BY <3>1, <3>2 DEF Prompt, Row
  <2> HIDE DEF p, old, new, of
  <2>5. of <= new
    BY <2>1, <2>2, <2>4
  <2> QED
    BY <2>1, <2>3, <2>5 DEF new
<1>3. ASSUME NEW w \in Workers, Records(w)
      PROVE  \A a \in Assets : NamesItsClaim(a)'
  <2> PICK b, p : b = worker[w].asset /\ p = worker[w].prompt
    OBVIOUS
  <2>1. worker[w].pc = "record" /\ worker[w].pc \in Busy /\ b \in Assets
    BY <1>1, <1>3 DEF Records, Busy, TypeInv, HandsWell
  <2>2. /\ rows'[b].promptId = p /\ rows'[b].attempt = rows[b].attempt
        /\ \A a \in Assets \ {b} : rows'[a] = rows[a]
        /\ \A a \in Assets : rows[a].attempt \in Nat
    BY <1>1, <1>3, <2>1 DEF Records, RecordSubmission, TypeInv, TypeOK, RowsTypeOK, Row
  <2>3. rows[b].attempt = worker[w].attempt
    BY <2>1 DEF Foundation, Ownership, SoleOwner
  <2>4. p \in Issued /\ prompts[p].attempt = worker[w].attempt
    BY <2>1 DEF Images, HandGood, OwnPrompt, Attempted, RecordsItsAttempt
  <2>5. prompts'[p].attempt = rows'[b].attempt /\ rows'[b].attempt \in Nat
    BY <1>1, <2>1, <2>2, <2>3, <2>4 DEF PromptsKept
  <2>6. NamesItsClaim(b)'
    BY <2>2, <2>5 DEF NamesItsClaim
  <2>7. \A a \in Assets \ {b} : NamesNoOther(a)
    BY <2>2 DEF NamesNoOther
  <2> QED
    BY <1>2, <2>6, <2>7
<1> QED
  BY <1>1, <1>2, <1>3, RowsNames DEF Attempted

\* A row never names a prompt that was generated for another asset, or for an
\* attempt that the row has not come to: the key that reconciliation asks
\* ComfyUI for is the row's own, over any number of kills and retries.
THEOREM PromptsAreTheirRows ==
  ASSUME ~ApproveWhileRunning
  PROVE  Spec => []PromptBelongsToRow
<1>1. Init => Attempted
  BY DEF Init, StoreInit, FreshRow, At, Attempted, NamesItsClaim, RecordsItsAttempt
<1>2. Foundation /\ Images /\ Attempted /\ [Next]_vars => Attempted'
  BY AttemptedStep
<1>3. Images /\ Attempted => PromptBelongsToRow
  BY DEF Images, RowGood, OwnPrompt, Attempted, NamesItsClaim, PromptBelongsToRow
<1> QED
  BY <1>1, <1>2, <1>3, FoundationHolds, ImagesHold, PTL DEF Spec

-----------------------------------------------------------------------------
(* Generations.                                                            *)

\* A worker is about to record the prompt, or awaits it.
Heard(p) ==
  \E w \in Workers : worker[w].pc \in {"record", "await"} /\ worker[w].prompt = p

\* Whatever ComfyUI works on, somebody waits for, or has given up.
Generations == \A p \in LivePrompts : p \in orphans \/ Heard(p)

LEMMA OthersStay ==
  ASSUME TypeInv, NEW w \in Workers, StepForm(w), NEW v \in Workers \ {w}
  PROVE  worker'[v] = worker[v]
<1>1. worker \in [Workers -> Worker]
  BY DEF TypeInv, TypeOK
<1> QED
  BY <1>1 DEF StepForm, Idles, Claims, Continues, Records, Settles, Settle, Goto

\* A worker stops listening to a prompt that has ended, or gives it up.
LEMMA StopsListening ==
  ASSUME TypeInv, NEW w \in Workers, WorkerStep(w), ~ProcessDies,
         worker[w].pc \in {"record", "await"}, worker[w].prompt \in LivePrompts
  PROVE  \/ worker'[w].pc \in {"record", "await"} /\ worker'[w].prompt = worker[w].prompt
         \/ worker[w].prompt \in orphans'
<1>1. worker \in [Workers -> Worker] /\ worker[w] \in Worker
  BY DEF TypeInv, TypeOK
<1>2. Abandon({worker[w].prompt}) => worker[w].prompt \in orphans'
  BY DEF Abandon
<1>3. ASSUME worker' = [worker EXCEPT ![w].pc = "await"]
      PROVE  worker'[w].pc = "await" /\ worker'[w].prompt = worker[w].prompt
  BY <1>1, <1>3 DEF Worker
<1>4. Record(w) \/ Await(w)
  BY DEF WorkerStep, Check, Claim, FindNothing, PassGate, RefusedAtGate, YieldForHalt,
     Submit, Judge
<1>5. prompts[worker[w].prompt].status = "live"
  BY DEF LivePrompts
<1>6. CASE Record(w)
  BY <1>2, <1>3, <1>6 DEF Record
<1>7. CASE Await(w)
  BY <1>2, <1>5, <1>7 DEF Await
<1> QED
  BY <1>4, <1>6, <1>7

\* The steps of a worker that put no prompt on the server.
LEMMA NothingNew ==
  ASSUME NEW w \in Workers, WorkerStep(w), ~Submit(w)
  PROVE  prompts' = prompts /\ orphans \subseteq orphans'
BY DEF WorkerStep, Check, Claim, FindNothing, PassGate, RefusedAtGate, YieldForHalt,
   Record, Await, Judge, ProcessDies, Abandon, historyVars

\* What a submission puts on the server is given up, or its worker listens to it.
LEMMA SubmittedIsHeard ==
  ASSUME TypeInv, PromptsSound, NEW w \in Workers, Submit(w)
  PROVE  /\ orphans \subseteq orphans'
         /\ \A p \in Issued : prompts'[p] = prompts[p]
         /\ \A p \in Issued' \ Issued : p \in orphans' \/ Heard(p)'
<1>1. worker \in [Workers -> Worker] /\ worker[w] \in Worker /\ worker[w].pc = "round"
  BY DEF TypeInv, TypeOK, Submit
<1>2. PICK lost \in SUBSET (PromptIds \ Issued) :
        /\ orphans' = orphans \cup lost
        /\ \/ \E p \in PromptIds \ (Issued \cup lost) :
                Accept(w, lost \cup {p}) /\ Submitted(w, p)
           \/ Accept(w, lost)
           \/ prompts' = prompts
  BY SubmitForm
<1>3. CASE \E p \in PromptIds \ (Issued \cup lost) :
             Accept(w, lost \cup {p}) /\ Submitted(w, p)
  <2>1. PICK p \in PromptIds \ (Issued \cup lost) :
          Accept(w, lost \cup {p}) /\ Submitted(w, p)
    BY <1>3
  <2>2. lost \cup {p} \in SUBSET (PromptIds \ Issued)
    OBVIOUS
  <2>3. Issued' = Issued \cup (lost \cup {p}) /\ \A q \in Issued : prompts'[q] = prompts[q]
    BY <1>1, <2>1, <2>2, AcceptKeeps
  <2>4. worker'[w].pc = "record" /\ worker'[w].prompt = p
    BY <1>1, <2>1 DEF Submitted, Worker
  <2> QED
    BY <1>2, <2>3, <2>4 DEF Heard
<1>4. CASE Accept(w, lost)
  <2>1. Issued' = Issued \cup lost /\ \A q \in Issued : prompts'[q] = prompts[q]
    BY <1>1, <1>4, AcceptKeeps
  <2> QED
    BY <1>2, <2>1
<1>5. CASE prompts' = prompts
  BY <1>2, <1>5 DEF Issued
<1> QED
  BY <1>2, <1>3, <1>4, <1>5

LEMMA GenerationsOfAWorker ==
  ASSUME TypeInv, PromptsSound, Generations,
         NEW w \in Workers, WorkerStep(w), ~ProcessDies
  PROVE  Generations'
<1>1. ASSUME NEW p \in LivePrompts
      PROVE  p \in orphans' \/ Heard(p)'
  <2>1. orphans \subseteq orphans'
    BY NothingNew, SubmittedIsHeard
  <2>2. CASE p \in orphans
    BY <2>1, <2>2
  <2>3. CASE Heard(p)
    <3>1. PICK v \in Workers : worker[v].pc \in {"record", "await"} /\ worker[v].prompt = p
      BY <2>3 DEF Heard
    <3>2. CASE v # w
      BY <3>1, <3>2, WorkerStepForm, OthersStay DEF Heard
    <3>3. CASE v = w
      BY <1>1, <3>1, <3>3, StopsListening DEF Heard
    <3> QED
      BY <3>2, <3>3
  <2> QED
    BY <2>2, <2>3 DEF Generations
<1>2. CASE Submit(w)
  <2>1. /\ \A p \in Issued : prompts'[p] = prompts[p]
        /\ \A p \in Issued' \ Issued : p \in orphans' \/ Heard(p)'
    BY <1>2, SubmittedIsHeard
  <2>2. LivePrompts' \subseteq LivePrompts \cup (Issued' \ Issued)
    BY <2>1 DEF LivePrompts
  <2> QED
    BY <1>1, <2>1, <2>2 DEF Generations
<1>3. CASE ~Submit(w)
  <2>1. LivePrompts' = LivePrompts
    BY <1>3, NothingNew DEF LivePrompts, Issued
  <2> QED
    BY <1>1, <2>1 DEF Generations
<1> QED
  BY <1>2, <1>3

LEMMA GenerationsStep ==
  ASSUME Foundation, PromptsSound, Generations, [Next]_vars
  PROVE  Generations'
<1>1. TypeInv /\ Ownership
  BY DEF Foundation
<1>2. ASSUME worker' = worker, prompts' = prompts, orphans' = orphans
      PROVE  Generations'
  BY <1>2 DEF Generations, Heard, LivePrompts, Issued
<1>3. CASE ProcessDies
  <2>1. orphans' = orphans \cup (Awaited \cap LivePrompts) /\ prompts' = prompts
    BY <1>3 DEF ProcessDies, Abandon
  <2>2. \A p : Heard(p) => p \in Awaited
    BY DEF Heard, Awaited
  <2>3. LivePrompts' = LivePrompts
    BY <2>1 DEF LivePrompts, Issued
  <2> QED
    BY <2>1, <2>2, <2>3 DEF Generations
<1>4. CASE Launch \/ BeginReconciliation \/ Return \/ HaltRequested \/ UNCHANGED vars
  BY <1>2, <1>4
     DEF Launch, BeginReconciliation, Return, HaltRequested, vars, historyVars
<1>5. CASE StartWorkers
  <2>1. proc = "reconciling" /\ prompts' = prompts /\ orphans' = orphans
    BY <1>5 DEF StartWorkers, historyVars
  <2>2. \A p : ~Heard(p)
    BY <1>1, <2>1 DEF Heard, Ownership, Busy
  <2>3. LivePrompts' = LivePrompts
    BY <2>1 DEF LivePrompts, Issued
  <2> QED
    BY <2>1, <2>2, <2>3 DEF Generations
<1>6. ASSUME NEW a \in Assets, ReconcileOne(a)
      PROVE  Generations'
  BY <1>2, <1>6 DEF ReconcileOne, ReconcileGivesUp, ReconcileFailed, ReconcileJudged,
     ReconcileRequeues, Reconciled
<1>7. ASSUME NEW w \in Workers, WorkerStep(w)
      PROVE  Generations'
  BY <1>1, <1>3, <1>7, GenerationsOfAWorker
<1>8. ASSUME NEW p \in PromptIds, ComfySucceeds(p) \/ ComfyFails(p)
      PROVE  Generations'
  <2>1. PICK status, file : status \in {"succeeded", "failed"} /\ PromptEnds(p, status, file)
    BY <1>8 DEF ComfySucceeds, ComfyFails
  <2>2. worker' = worker /\ orphans' = orphans \ {p}
    BY <2>1 DEF PromptEnds
  <2>3. LivePrompts' \subseteq LivePrompts \ {p}
    <3>1. prompts \in [Issued -> Prompt] /\ p \in Issued
      BY <1>1, <2>1 DEF PromptEnds, TypeInv, TypeOK
    <3>2. prompts[p] \in Prompt
      BY <3>1
    <3>3. /\ Issued' = Issued /\ prompts'[p].status = status
          /\ \A q \in Issued \ {p} : prompts'[q] = prompts[q]
      BY <2>1, <3>1, <3>2 DEF PromptEnds, Issued, Prompt
    <3> QED
      BY <2>1, <3>3 DEF LivePrompts
  <2> QED
    BY <2>2, <2>3 DEF Generations, Heard
<1>9. CASE ComfyRestarts
  <2>1. PICK left : prompts' = [p \in Issued |->
          [prompts[p] EXCEPT !.status = IF @ = "live" THEN "lost" ELSE @,
                             !.listed = FALSE, !.file = left[p]]]
    BY <1>9 DEF ComfyRestarts
  <2>2. Issued' = Issued
    BY <2>1 DEF Issued
  <2>3. ASSUME NEW p \in Issued
        PROVE  prompts'[p].status # "live"
    <3>1. prompts[p] \in Prompt
      BY <1>1 DEF TypeInv, TypeOK
    <3>2. prompts'[p] = [prompts[p] EXCEPT
            !.status = IF prompts[p].status = "live" THEN "lost" ELSE prompts[p].status,
            !.listed = FALSE, !.file = left[p]]
      BY <2>1
    <3> QED
      BY <3>1, <3>2 DEF Prompt
  <2>4. LivePrompts' = {}
    BY <2>2, <2>3 DEF LivePrompts
  <2> QED
    BY <2>4 DEF Generations
<1>10. ASSUME NEW a \in Assets, Approve(a) \/ RetryFallsDue(a)
       PROVE  Generations'
  BY <1>2, <1>10 DEF Approve, RetryFallsDue, historyVars
<1>11. Kill => ProcessDies
  BY DEF Kill
<1> QED
  BY <1>3, <1>4, <1>5, <1>6, <1>7, <1>8, <1>9, <1>10, <1>11
     DEF Next, Startup, Environment

\* ComfyUI never works on two generations of an asset at once that are waited
\* for, over any kills, halts, lost replies and timeouts: beside the one of the
\* worker that holds the claim there are orphans only.  Approvals are made
\* between runs; one beside the run takes the claim from its worker.
THEOREM OneAtATime ==
  ASSUME ~ApproveWhileRunning
  PROVE  Spec => []OneGenerationAtATime
<1>1. Init => Generations
  BY DEF Init, Issued, LivePrompts, Generations
<1>2. Foundation /\ Images /\ Generations /\ [Next]_vars => Generations'
  BY GenerationsStep DEF Images
<1>3. Foundation /\ Images /\ Generations => OneGenerationAtATime
  <2> SUFFICES ASSUME Foundation, Images, Generations,
                      NEW p \in LivePrompts \ orphans, NEW q \in LivePrompts \ orphans, p # q
               PROVE  prompts[p].asset # prompts[q].asset
    BY DEF OneGenerationAtATime, OnePerAsset
  <2>1. PICK v \in Workers : worker[v].pc \in {"record", "await"} /\ worker[v].prompt = p
    BY DEF Generations, Heard
  <2>2. PICK w \in Workers : worker[w].pc \in {"record", "await"} /\ worker[w].prompt = q
    BY DEF Generations, Heard
  <2>3. v # w /\ worker[v].pc \in Busy /\ worker[w].pc \in Busy
    BY <2>1, <2>2 DEF Busy
  <2>4. prompts[p].asset = worker[v].asset /\ prompts[q].asset = worker[w].asset
    BY <2>1, <2>2 DEF Images, HandGood, OwnPrompt
  <2>5. worker[v].asset # worker[w].asset
    BY <2>3 DEF Foundation, Ownership, SoleOwner, Holds
  <2> QED
    BY <2>4, <2>5
<1> QED
  BY <1>1, <1>2, <1>3, FoundationHolds, ImagesHold, PTL DEF Spec

-----------------------------------------------------------------------------
(* The claims that halts give back.                                        *)

\* The run has been asked to halt; these workers will not claim any more
\* before they leave.
Halted == proc = "running" /\ (stop \/ halt # "none")
Leaving == {w \in Workers : worker[w].pc \in {"check", "exited"}}

\* Every worker gives back at most one claim for each halt: the one it holds
\* or is about to make when the halt is asked for.
Quota ==
  /\ halts <= MaxHalts
  /\ Halted => halts > 0
  /\ \A a \in Assets :
       yields[a] <= IF Halted
                    THEN Cardinality(Workers) * (halts - 1) + Cardinality(Leaving)
                    ELSE Cardinality(Workers) * halts

LEMMA CrewSize ==
  ASSUME NEW crew \in SUBSET Workers
  PROVE  /\ IsFiniteSet(crew) /\ Cardinality(crew) \in Nat
         /\ Cardinality(Workers) \in Nat
         /\ Cardinality(crew) <= Cardinality(Workers)
BY RunnerAssumption, FS_Subset, FS_CardinalityType

LEMMA Multiples ==
  ASSUME NEW n \in Nat, NEW k \in Nat
  PROVE  /\ n * k \in Nat
         /\ n * (k + 1) = n * k + n
         /\ k > 0 => n * (k - 1) \in Nat /\ n * k = n * (k - 1) + n
         /\ \A m \in Nat : k <= m => n * k <= n * m
OBVIOUS

\* The steps that keep the account: nothing is given back, and nobody who is
\* leaving turns back; or the run is over.
QuotaKept ==
  /\ halts' = halts
  /\ \A a \in Assets : yields'[a] \in {yields[a], 0}
  /\ Halted' => Halted /\ Leaving \subseteq Leaving'

LEMMA KeptQuota ==
  ASSUME TypeInv, Quota, QuotaKept
  PROVE  Quota'
<1>1. halts \in Nat /\ \A a \in Assets : yields[a] \in Nat
  BY DEF TypeInv, TypeOK
<1>2. Leaving \in SUBSET Workers /\ Leaving' \in SUBSET Workers
  BY DEF Leaving
<1>3. Cardinality(Leaving) \in Nat /\ Cardinality(Leaving') \in Nat /\ Cardinality(Workers) \in Nat
      /\ Cardinality(Leaving) <= Cardinality(Workers)
  BY <1>2, CrewSize
<1>4. Halted' => Cardinality(Leaving) <= Cardinality(Leaving')
  BY <1>2, CrewSize, FS_Subset DEF QuotaKept
<1> DEFINE full == Cardinality(Workers) * halts
           rest == Cardinality(Workers) * (halts - 1)
<1>5. full \in Nat /\ (halts > 0 => rest \in Nat /\ full = rest + Cardinality(Workers))
  BY <1>1, <1>3, Multiples
<1>6. /\ Halted => halts > 0
      /\ \A a \in Assets : yields[a] <= IF Halted THEN rest + Cardinality(Leaving) ELSE full
  BY DEF Quota
<1>7. full' = full /\ rest' = rest /\ halts' = halts
  BY DEF QuotaKept
<1> HIDE DEF full, rest
<1>8. ASSUME NEW a \in Assets
      PROVE  yields'[a] <= IF Halted' THEN rest + Cardinality(Leaving') ELSE full
  <2>1. yields'[a] \in {yields[a], 0} /\ yields[a] \in Nat
    BY <1>1 DEF QuotaKept
  <2>2. CASE Halted'
    BY <1>3, <1>4, <1>5, <1>6, <2>1, <2>2 DEF QuotaKept
  <2>3. CASE ~Halted'
    BY <1>3, <1>5, <1>6, <2>1, <2>3
  <2> QED
    BY <2>2, <2>3
<1>9. halts' <= MaxHalts /\ (Halted' => halts' > 0)
  BY <1>6, <1>7 DEF Quota, QuotaKept
<1> QED
  BY <1>7, <1>8, <1>9 DEF Quota, full, rest

LEMMA QuotaOfYield ==
  ASSUME TypeInv, Quota, NEW w \in Workers, YieldForHalt(w)
  PROVE  Quota'
<1>1. /\ halts \in Nat /\ \A a \in Assets : yields[a] \in Nat
      /\ yields \in [Assets -> Nat] /\ worker \in [Workers -> Worker]
  BY DEF TypeInv, TypeOK
<1>2. /\ Halted /\ Halted' /\ halts' = halts
      /\ worker[w].pc = "round" /\ worker' = [worker EXCEPT ![w] = At("check")]
      /\ yields' = [yields EXCEPT ![worker[w].asset] = @ + 1]
  BY DEF YieldForHalt, Halted, Settle, Goto, eventCounts
<1>3. Leaving' = Leaving \cup {w} /\ w \notin Leaving
  BY <1>1, <1>2 DEF Leaving, At
<1>4. Cardinality(Leaving') = Cardinality(Leaving) + 1
  BY <1>3, CrewSize, FS_AddElement DEF Leaving
<1>5. Cardinality(Leaving) \in Nat /\ Cardinality(Workers) \in Nat
  BY CrewSize DEF Leaving
<1> DEFINE rest == Cardinality(Workers) * (halts - 1)
<1>6. halts > 0 /\ rest \in Nat
  BY <1>1, <1>2, <1>5, Multiples DEF Quota
<1>7. \A a \in Assets : yields[a] <= rest + Cardinality(Leaving)
  BY <1>2 DEF Quota
<1>8. rest' = rest
  BY <1>2
<1> HIDE DEF rest
<1>9. \A a \in Assets : yields'[a] <= rest + Cardinality(Leaving')
  BY <1>1, <1>2, <1>4, <1>5, <1>6, <1>7
<1> QED
  BY <1>2, <1>6, <1>8, <1>9 DEF Quota, rest

LEMMA QuotaOfHalt ==
  ASSUME TypeInv, Quota, HaltRequested
  PROVE  Quota'
<1>1. halts \in Nat /\ \A a \in Assets : yields[a] \in Nat
  BY DEF TypeInv, TypeOK
<1>2. halts' = halts + 1 /\ halts < MaxHalts /\ yields' = yields /\ worker' = worker
  BY DEF HaltRequested, historyVars
<1>3. Leaving' \in SUBSET Workers /\ Leaving \in SUBSET Workers
  BY DEF Leaving
<1>4. /\ Cardinality(Leaving') \in Nat /\ Cardinality(Leaving) \in Nat
      /\ Cardinality(Workers) \in Nat /\ Cardinality(Leaving) <= Cardinality(Workers)
  BY <1>3, CrewSize
<1> DEFINE full == Cardinality(Workers) * halts
           rest == Cardinality(Workers) * (halts - 1)
           more == Cardinality(Workers) * (halts + 1)
<1>5. /\ full \in Nat /\ more \in Nat /\ more = full + Cardinality(Workers)
      /\ halts > 0 => rest \in Nat /\ full = rest + Cardinality(Workers)
  <2>1. full \in Nat /\ more = full + Cardinality(Workers)
    BY <1>1, <1>4, Multiples, Zenon
  <2>2. halts > 0 => rest \in Nat /\ full = rest + Cardinality(Workers)
    BY <1>1, <1>4, Multiples, Zenon
  <2> HIDE DEF full, more, rest
  <2> QED
    BY <1>4, <2>1, <2>2
<1>6. /\ Halted => halts > 0
      /\ \A a \in Assets : yields[a] <= IF Halted THEN rest + Cardinality(Leaving) ELSE full
  BY DEF Quota
<1>7. halts' - 1 = halts
  BY <1>1, <1>2
<1>8. /\ Cardinality(Workers) * (halts' - 1) = full
      /\ Cardinality(Workers) * halts' = more
  BY <1>2, <1>7
<1> HIDE DEF full, rest, more
<1>9. \A a \in Assets : yields[a] <= full
  BY <1>1, <1>4, <1>5, <1>6
<1>10. \A a \in Assets : yields'[a] <= IF Halted' THEN full + Cardinality(Leaving') ELSE more
  BY <1>1, <1>2, <1>4, <1>5, <1>9
<1>11. halts' <= MaxHalts /\ halts' > 0
  BY <1>1, <1>2, RunnerAssumption
<1>12. \A a \in Assets :
         yields'[a] <= IF Halted'
                       THEN Cardinality(Workers) * (halts' - 1) + Cardinality(Leaving')
                       ELSE Cardinality(Workers) * halts'
  BY <1>8, <1>10
<1> QED
  BY <1>11, <1>12 DEF Quota

LEMMA QuotaOfAWorker ==
  ASSUME TypeInv, Quota, NEW w \in Workers, WorkerStep(w)
  PROVE  Quota'
<1>1. /\ worker \in [Workers -> Worker] /\ yields \in [Assets -> Nat]
  BY DEF TypeInv, TypeOK
<1>2. ASSUME UNCHANGED <<proc, stop, halt, halts, yields>>,
             NEW next, worker' = [worker EXCEPT ![w] = next],
             worker[w].pc \in {"check", "exited"} => next.pc \in {"check", "exited"}
      PROVE  Quota'
  <2>1. Leaving \subseteq Leaving'
    BY <1>1, <1>2 DEF Leaving
  <2> QED
    BY <1>2, <2>1, KeptQuota DEF QuotaKept, Halted
<1>3. ASSUME ~Halted', halts' = halts, yields' = yields
      PROVE  Quota'
  BY <1>3, KeptQuota DEF QuotaKept
<1>4. CASE Check(w)
  <2>1. CASE stop \/ halt # "none"
    <3>1. /\ halts' = halts /\ yields' = yields /\ Halted
          /\ worker[w].pc = "check" /\ worker' = [worker EXCEPT ![w] = At("exited")]
      BY <1>4, <2>1 DEF Check, Goto, Halted, historyVars, eventCounts
    <3>2. Leaving \subseteq Leaving'
      BY <1>1, <3>1 DEF Leaving, At
    <3> QED
      BY <3>1, <3>2, KeptQuota DEF QuotaKept
  <2>2. CASE ~(stop \/ halt # "none")
    BY <1>3, <1>4, <2>2 DEF Check, Halted, historyVars, eventCounts
  <2> QED
    BY <2>1, <2>2
<1>5. CASE FindNothing(w)
  BY <1>2, <1>5 DEF FindNothing, Goto, historyVars, eventCounts
<1>6. CASE Claim(w)
  <2>1. PICK a \in Assets :
          worker' = [worker EXCEPT ![w] =
            [At("gate") EXCEPT !.asset = a, !.attempt = rows[a].attempt + 1]]
    BY <1>6 DEF Claim
  <2> QED
    BY <1>2, <1>6, <2>1 DEF Claim, historyVars, eventCounts
<1>7. CASE ProcessDies
  BY <1>3, <1>7 DEF ProcessDies, Halted, historyVars
<1>8. CASE YieldForHalt(w)
  BY <1>8, QuotaOfYield
<1>9. ASSUME PassGate(w) \/ Submit(w) \/ Record(w) \/ Await(w) \/ Judge(w)
      PROVE  Quota'
  <2>1. /\ worker[w].pc \in Busy /\ worker[w].pc \notin {"check", "exited"}
        /\ UNCHANGED <<proc, stop, halt, halts, yields>>
    BY <1>9 DEF PassGate, Submit, Record, Await, Judge, Busy, historyVars, eventCounts
  <2>2. StepForm(w) \/ ProcessDies
    BY WorkerStepForm
  <2>3. ASSUME StepForm(w)
        PROVE  \E next : worker' = [worker EXCEPT ![w] = next]
    <3>1. CASE Continues(w)
      BY <3>1 DEF Continues
    <3>2. CASE Records(w)
      <4>1. worker' = [worker EXCEPT ![w] = [worker[w] EXCEPT !.pc = "await"]]
        BY <1>1, <3>2 DEF Records
      <4> QED
        BY <4>1
    <3>3. CASE Settles(w)
      BY <3>3 DEF Settles, Settle, Goto
    <3> QED
      BY <2>1, <2>3, <3>1, <3>2, <3>3 DEF StepForm, Idles, Claims
  <2> QED
    BY <1>2, <1>7, <2>1, <2>2, <2>3
<1> QED
  BY <1>4, <1>5, <1>6, <1>7, <1>8, <1>9 DEF WorkerStep, RefusedAtGate

LEMMA QuotaStep ==
  ASSUME TypeInv, Quota, [Next]_vars
  PROVE  Quota'
<1>1. yields \in [Assets -> Nat] /\ \A a \in Assets : yields[a] \in Nat
  BY DEF TypeInv, TypeOK
<1>2. ASSUME halts' = halts, \A a \in Assets : yields'[a] \in {yields[a], 0},
             ~Halted' \/ UNCHANGED <<proc, stop, halt, worker>>
      PROVE  Quota'
  BY <1>2, KeptQuota DEF QuotaKept, Halted, Leaving
<1>3. CASE Launch \/ BeginReconciliation \/ StartWorkers \/ Return \/ Kill
  BY <1>2, <1>3 DEF Launch, BeginReconciliation, StartWorkers, Return, Kill,
     ProcessDies, Halted, historyVars, eventCounts
<1>4. ASSUME NEW a \in Assets, ReconcileOne(a)
      PROVE  Quota'
  <2>1. halts' = halts /\ yields' = yields /\ proc' # "running"
    BY <1>4 DEF ReconcileOne, ReconcileGivesUp, ReconcileFailed, ReconcileJudged,
       ReconcileRequeues, Reconciled, eventCounts
  <2> QED
    BY <1>2, <2>1 DEF Halted
<1>5. ASSUME NEW a \in Assets, Approve(a)
      PROVE  Quota'
  BY <1>1, <1>2, <1>5 DEF Approve, runVars
<1>6. ASSUME NEW a \in Assets, RetryFallsDue(a)
      PROVE  Quota'
  BY <1>2, <1>6 DEF RetryFallsDue, runVars, historyVars, eventCounts
<1>7. ASSUME (\E p \in PromptIds : ComfySucceeds(p) \/ ComfyFails(p)) \/ ComfyRestarts
      PROVE  Quota'
  BY <1>2, <1>7 DEF ComfySucceeds, ComfyFails, PromptEnds, ComfyRestarts, runVars,
     historyVars, eventCounts
<1>8. UNCHANGED vars => Quota'
  BY <1>2 DEF vars
<1> QED
  BY <1>3, <1>4, <1>5, <1>6, <1>7, <1>8, QuotaOfAWorker, QuotaOfHalt
     DEF Next, Startup, Environment

-----------------------------------------------------------------------------
(* The life cycle.                                                         *)

\* A row that the manifest has not brought yet has never been claimed.
Unborn == \A a \in Assets : rows[a].state = "absent" => rows[a].attempt = 0

\* What a step does to the life cycle of the assets.
Rests ==
  \A b \in Assets : /\ PhaseOf(rows'[b].state) = PhaseOf(rows[b].state)
                    /\ rows'[b].attempt = rows[b].attempt

PutsDown(a) ==
  /\ rows[a].state \in InFlight
  /\ rows'[a].state \in {"retry_wait"} \cup Finished
  /\ rows'[a].attempt = rows[a].attempt
  /\ \A b \in Assets \ {a} : rows'[b] = rows[b]

LEMMA PhaseKinds ==
  ASSUME NEW state \in AssetState \cup {"absent"}
  PROVE  /\ PhaseOf(state) = "absent" <=> state = "absent"
         /\ PhaseOf(state) = "waiting" <=> state \in Unclaimed
         /\ PhaseOf(state) = "working" <=> state \in InFlight
         /\ PhaseOf(state) = "finished" <=> state \in Finished
BY DEF PhaseOf, AssetState, Unclaimed, InFlight, Finished

LEMMA LifecycleForm ==
  ASSUME Foundation, [Next]_vars
  PROVE  \/ Launch
         \/ \E w \in Workers : proc = "running" /\ Claims(w)
         \/ \E a \in Assets : PutsDown(a) \/ Approve(a)
         \/ Rests
<1>1. Numbers /\ TypeInv
  BY NumbersHold DEF Foundation
<1>2. rows' = rows => Rests
  BY DEF Rests
<1>3. CASE StartWorkers \/ Return \/ ProcessDies \/ (Elsewhere /\ rows' = rows)
  BY <1>2, <1>3 DEF StartWorkers, Return, ProcessDies
<1>4. CASE BeginReconciliation
  <2>1. \A b \in Assets : /\ rows'[b].state = rows[b].state
                          /\ rows'[b].attempt = rows[b].attempt
    BY <1>1, <1>4 DEF BeginReconciliation, FlagForReconciliation, Numbers, Row
  <2> QED
    BY <2>1 DEF Rests
<1>5. ASSUME NEW a \in Assets, RetryFallsDue(a)
      PROVE  Rests
  <2>1. \A b \in Assets : /\ rows'[b].state = rows[b].state
                          /\ rows'[b].attempt = rows[b].attempt
    BY <1>1, <1>5 DEF RetryFallsDue, BackoffElapses, Numbers, Row
  <2> QED
    BY <2>1 DEF Rests
<1>6. ASSUME NEW a \in Assets, ReconcileOne(a)
      PROVE  PutsDown(a)
  <2>1. Reconciles(a)
    BY <1>1, <1>6, ReconcileForm
  <2>2. PICK state \in {"retry_wait"} \cup Finished, outputs \in SUBSET PromptIds,
             waiting \in BOOLEAN : Transition(a, state, outputs, waiting)
    BY <2>1 DEF Reconciles
  <2>3. rows[a].state \in InFlight
    BY <2>1 DEF Reconciles, Foundation, Ownership
  <2> QED
    BY <1>1, <2>2, <2>3, SettledColumns DEF PutsDown, Numbers
<1>7. ASSUME NEW w \in Workers, StepForm(w)
      PROVE  \/ proc = "running" /\ Claims(w)
             \/ \E a \in Assets : PutsDown(a)
             \/ Rests
  <2>1. CASE Idles(w) \/ Continues(w)
    BY <1>2, <2>1 DEF Idles, Continues
  <2>2. CASE Claims(w)
    BY <1>7, <2>2 DEF StepForm
  <2>3. CASE Records(w)
    <3>1. PICK a, p : a \in Assets /\ RecordSubmission(a, p)
      BY <1>1, <2>3 DEF Records, Numbers, Busy
    <3>2. /\ rows[a].state \in InFlight /\ rows'[a].state = "submitted"
          /\ rows'[a].attempt = rows[a].attempt
          /\ \A b \in Assets \ {a} : rows'[b] = rows[b]
      BY <1>1, <3>1, RecordedColumns DEF Numbers
    <3>3. \A state \in InFlight : PhaseOf(state) = "working"
      BY PhaseKinds DEF AssetState
    <3>4. PhaseOf(rows'[a].state) = PhaseOf(rows[a].state)
      BY <3>2, <3>3 DEF InFlight
    <3> QED
      BY <3>2, <3>4 DEF Rests
  <2>4. CASE Settles(w)
    <3>1. PICK a, state, outputs, waiting :
            /\ a \in Assets /\ a = worker[w].asset
            /\ state \in {"retry_wait"} \cup Finished
            /\ Transition(a, state, outputs, waiting)
      BY <1>1, <2>4 DEF Settles, Settle, Numbers
    <3>2. rows[a].state \in InFlight
      BY <2>4, <3>1 DEF Settles, Foundation, Ownership, SoleOwner
    <3> QED
      BY <1>1, <3>1, <3>2, SettledColumns DEF PutsDown, Numbers
  <2> QED
    BY <1>7, <2>1, <2>2, <2>3, <2>4 DEF StepForm
<1>8. Kill => ProcessDies
  BY DEF Kill
<1> QED
  BY <1>1, <1>3, <1>4, <1>5, <1>6, <1>7, <1>8, ElsewhereForm, WorkerStepForm
     DEF Next, Startup, Environment

LEMMA UnbornStep ==
  ASSUME Foundation, Unborn, [Next]_vars
  PROVE  Unborn'
<1>1. Numbers
  BY NumbersHold DEF Foundation
<1>2. CASE Launch
  BY <1>2 DEF Launch, LoadBatch, FreshRow, Unborn
<1>3. ASSUME NEW w \in Workers, Claims(w)
      PROVE  Unborn'
  <2>1. PICK a \in Assets : ClaimNext(a)
    BY <1>3 DEF Claims
  <2> QED
    BY <1>1, <2>1, ClaimedColumns DEF Unborn, Numbers
<1>4. ASSUME NEW a \in Assets, PutsDown(a)
      PROVE  Unborn'
  BY <1>4 DEF PutsDown, Unborn, Finished
<1>5. ASSUME NEW a \in Assets, Approve(a)
      PROVE  Unborn'
  BY <1>1, <1>5 DEF Approve, RequeueForRegeneration, FreshRow, Unborn, Numbers
<1>6. CASE Rests
  <2>1. ASSUME NEW b \in Assets, rows'[b].state = "absent"
        PROVE  rows[b].state = "absent"
    <3>1. PhaseOf(rows[b].state) = "absent"
      BY <1>6, <2>1, PhaseKinds DEF Rests
    <3> QED
      BY <1>1, <3>1, PhaseKinds DEF Numbers, Row
  <2> QED
    BY <1>6, <2>1 DEF Rests, Unborn
<1> QED
  BY <1>2, <1>3, <1>4, <1>5, <1>6, LifecycleForm

\* While a worker is free, fewer assets are in hand than there are workers:
\* each of them has a worker of its own, and the free one has none.
LEMMA OneHandEach ==
  ASSUME Foundation, proc = "running", NEW w \in Workers, worker[w].pc \notin Busy
  PROVE  Cardinality({a \in Assets : rows[a].state \in InFlight}) < Cardinality(Workers)
<1> DEFINE hand == {a \in Assets : rows[a].state \in InFlight}
           crew == Workers \ {w}
           holder == [a \in hand |-> CHOOSE v \in Workers : Holds(v, a)]
<1>1. ASSUME NEW a \in hand
      PROVE  holder[a] \in crew /\ Holds(holder[a], a)
  <2>1. \E v \in Workers : Holds(v, a)
    BY DEF Foundation, Manned, InFlightHasWorker
  <2>2. holder[a] \in Workers /\ Holds(holder[a], a)
    BY <2>1
  <2> QED
    BY <2>2 DEF Holds
<1>2. holder \in [hand -> crew]
  BY <1>1
<1>3. ASSUME NEW a \in hand, NEW b \in hand, holder[a] = holder[b]
      PROVE  a = b
  <2>1. Holds(holder[a], a) /\ Holds(holder[a], b)
    BY <1>1, <1>3
  <2> QED
    BY <2>1 DEF Holds
<1> HIDE DEF hand, crew, holder
<1>4. holder \in Injection(hand, crew)
  BY <1>2, <1>3 DEF Injection, IsInjective
<1>5. /\ IsFiniteSet(crew) /\ Cardinality(crew) = Cardinality(Workers) - 1
      /\ Cardinality(Workers) \in Nat
  BY RunnerAssumption, FS_RemoveElement, FS_CardinalityType DEF crew
<1>6. IsFiniteSet(hand) /\ Cardinality(hand) <= Cardinality(crew)
  BY <1>4, <1>5, FS_Injection
<1>7. Cardinality(hand) \in Nat
  BY <1>6, FS_CardinalityType
<1>8. Cardinality(hand) < Cardinality(Workers)
  BY <1>5, <1>6, <1>7
<1> QED
  BY <1>8 DEF hand

\* An asset that can still be claimed has attempts left.
TriesLeft ==
  \A a \in Assets : rows[a].state \in Unclaimed => rows[a].attempt < MaxTries

LEMMA TriesAreLeft ==
  ASSUME TypeInv, Ladder, CrashAccount, Quota
  PROVE  TriesLeft
<1> SUFFICES ASSUME NEW a \in Assets, rows[a].state \in Unclaimed
             PROVE  rows[a].attempt < MaxTries
  BY DEF TriesLeft
<1>1. Numbers
  BY NumbersHold
<1>2. rows[a].state \notin Finished
  BY DEF Unclaimed, Finished
<1>3. rows[a].crashCount <= CrashLimit
  BY <1>1, <1>2 DEF CrashAccount, Numbers
<1>4. halts \in Nat /\ MaxHalts \in Nat /\ halts <= MaxHalts /\ Cardinality(Workers) \in Nat
  BY RunnerAssumption, CrewSize DEF TypeInv, TypeOK, Quota
<1>5. yields[a] <= Cardinality(Workers) * halts
  <2>1. CASE Halted
    <3>1. /\ halts > 0
          /\ yields[a] <= Cardinality(Workers) * (halts - 1) + Cardinality(Leaving)
      BY <2>1 DEF Quota
    <3>2. Cardinality(Leaving) \in Nat /\ Cardinality(Leaving) <= Cardinality(Workers)
      BY CrewSize DEF Leaving
    <3>3. /\ Cardinality(Workers) * (halts - 1) \in Nat
          /\ Cardinality(Workers) * halts
               = Cardinality(Workers) * (halts - 1) + Cardinality(Workers)
      BY <1>4, <3>1, Multiples, Zenon
    <3> QED
      BY <1>1, <1>4, <3>1, <3>2, <3>3 DEF Numbers
  <2>2. CASE ~Halted
    BY <2>2 DEF Quota
  <2> QED
    BY <2>1, <2>2
<1>6. /\ Cardinality(Workers) * halts \in Nat /\ Cardinality(Workers) * MaxHalts \in Nat
      /\ Cardinality(Workers) * halts <= Cardinality(Workers) * MaxHalts
  BY <1>4, Multiples, Zenon
<1>7. Cardinality(Workers) * MaxHalts = MaxHalts * Cardinality(Workers)
  BY <1>4
<1>8. rows[a].attempt <= TemporaryRetries + rows[a].crashCount + yields[a]
  BY DEF Ladder
<1> DEFINE quota == Cardinality(Workers) * MaxHalts
           used == Cardinality(Workers) * halts
<1>9. used \in Nat /\ quota \in Nat /\ used <= quota /\ yields[a] <= used
      /\ MaxTries = 1 + TemporaryRetries + CrashLimit + quota
  BY <1>5, <1>6, <1>7 DEF MaxTries
<1> HIDE DEF quota, used
<1> QED
  BY <1>1, <1>3, <1>8, <1>9 DEF Numbers

\* What the life cycle needs to know of a state.
Accounts == Foundation /\ Unborn /\ TriesLeft

LEMMA AccountsHold ==
  ASSUME ~ApproveWhileRunning
  PROVE  Spec => []Accounts
<1>1. Init => Ladder
  BY RetryAssumption DEF Init, StoreInit, FreshRow, Ladder, Unclaimed
<1>2. Init => CrashAccount
  BY RunnerAssumption DEF Init, StoreInit, FreshRow, CrashAccount, InFlight
<1>3. Init => Quota
  <2>1. Cardinality(Workers) \in Nat /\ Cardinality(Workers) * 0 = 0
    BY CrewSize
  <2> QED
    BY <2>1, RunnerAssumption DEF Init, Quota, Halted
<1>4. Init => Unborn
  BY DEF Init, StoreInit, FreshRow, Unborn
<1>5. /\ Foundation /\ Ladder /\ [Next]_vars => Ladder'
      /\ Foundation /\ CrashAccount /\ [Next]_vars => CrashAccount'
      /\ Foundation /\ Quota /\ [Next]_vars => Quota'
      /\ Foundation /\ Unborn /\ [Next]_vars => Unborn'
  BY LadderStep, CrashStep, QuotaStep, UnbornStep DEF Foundation
<1>6. Foundation /\ Ladder /\ CrashAccount /\ Quota => TriesLeft
  BY TriesAreLeft DEF Foundation
<1> QED
  BY <1>1, <1>2, <1>3, <1>4, <1>5, <1>6, FoundationHolds, PTL DEF Spec, Accounts

\* An asset that a worker or the reconciliation puts down is given back, with
\* attempts left, or finished.
LEMMA PuttingDown ==
  ASSUME TriesLeft', NEW a \in Assets, PutsDown(a)
  PROVE  Lifecycle!GiveBack(a) \/ Lifecycle!Finish(a)
<1>1. rows[a].state \in InFlight /\ PhaseOf(rows[a].state) = "working"
  BY PhaseKinds DEF PutsDown, AssetState
<1>2. \A b \in Assets \ {a} : PhaseOf(rows'[b].state) = PhaseOf(rows[b].state)
  BY DEF PutsDown
<1>3. Phase[a] = "working" /\ Phase' = [Phase EXCEPT ![a] = PhaseOf(rows'[a].state)]
  BY <1>1, <1>2 DEF Phase
<1>4. Tries' = Tries
  BY DEF Tries, PutsDown
<1>5. CASE rows'[a].state \in Finished
  <2>1. PhaseOf(rows'[a].state) = "finished"
    BY <1>5, PhaseKinds DEF AssetState
  <2> QED
    BY <1>3, <1>4, <2>1 DEF Lifecycle!Finish, Lifecycle!Move
<1>6. CASE rows'[a].state = "retry_wait"
  <2>1. rows'[a].state \in Unclaimed
    BY <1>6 DEF Unclaimed
  <2>2. PhaseOf(rows'[a].state) = "waiting"
    BY <2>1, PhaseKinds DEF AssetState
  <2>3. rows'[a].attempt < MaxTries
    BY <2>1 DEF TriesLeft
  <2>4. Tries[a] < MaxTries
    BY <2>3 DEF Tries, PutsDown
  <2> QED
    BY <1>3, <1>4, <2>2, <2>4 DEF Lifecycle!GiveBack, Lifecycle!Move
<1> QED
  BY <1>5, <1>6 DEF PutsDown

LEMMA Taking ==
  ASSUME Accounts, proc = "running", NEW w \in Workers, Claims(w)
  PROVE  \E a \in Assets : Lifecycle!Start(a)
<1>1. Numbers
  BY NumbersHold DEF Accounts, Foundation
<1>2. PICK a \in Assets : ClaimNext(a)
  BY DEF Claims
<1>3. /\ rows[a].state \in Unclaimed /\ rows'[a].state \in InFlight
      /\ rows'[a].attempt = rows[a].attempt + 1
      /\ \A b \in Assets \ {a} : rows'[b] = rows[b]
  BY <1>1, <1>2, ClaimedColumns DEF Numbers, InFlight
<1>4. PhaseOf(rows[a].state) = "waiting" /\ PhaseOf(rows'[a].state) = "working"
  BY <1>3, PhaseKinds DEF AssetState
<1>5. Phase[a] = "waiting" /\ Phase' = [Phase EXCEPT ![a] = "working"]
  BY <1>3, <1>4 DEF Phase
<1>6. Tries[a] < MaxTries /\ Tries' = [Tries EXCEPT ![a] = @ + 1]
  BY <1>3 DEF Tries, Accounts, TriesLeft
<1>7. Lifecycle!InHand = {b \in Assets : rows[b].state \in InFlight}
  <2>1. \A b \in Assets : Phase[b] = "working" <=> rows[b].state \in InFlight
    BY <1>1, PhaseKinds DEF Phase, Numbers, Row
  <2> QED
    BY <2>1 DEF Lifecycle!InHand
<1>8. Cardinality(Lifecycle!InHand) < Cardinality(Workers)
  BY <1>7, OneHandEach DEF Accounts, Claims
<1>9. Lifecycle!Start(a)
  <2>1. Lifecycle!Move(a, "waiting", "working")
    BY <1>5 DEF Lifecycle!Move
  <2>2. Lifecycle!Cardinality(Lifecycle!InHand) = Cardinality(Lifecycle!InHand)
    BY Zenon DEF Lifecycle!Cardinality, Cardinality
  <2> QED
    BY <1>6, <1>8, <2>1, <2>2 DEF Lifecycle!Start
<1> QED
  BY <1>9

LEMMA LifecycleStep ==
  ASSUME Accounts, Accounts', [Next]_vars
  PROVE  [Lifecycle!Next]_(Lifecycle!vars)
<1>1. Numbers
  BY NumbersHold DEF Accounts, Foundation
<1>2. CASE Launch
  <2>1. \A b \in Assets :
          rows'[b] = IF rows[b].state = "absent" THEN FreshRow("pending") ELSE rows[b]
    BY <1>2 DEF Launch, LoadBatch
  <2>2. \A b \in Assets : Phase[b] = "absent" <=> rows[b].state = "absent"
    BY <1>1, PhaseKinds DEF Phase, Numbers, Row
  <2>3. PhaseOf("pending") = "waiting"
    BY PhaseKinds DEF AssetState, Unclaimed
  <2>4. Phase' = [b \in Assets |->
                    IF b \in Assets /\ Phase[b] = "absent" THEN "waiting" ELSE Phase[b]]
    <3>1. \A b \in Assets : PhaseOf(rows'[b].state) =
            IF b \in Assets /\ Phase[b] = "absent" THEN "waiting" ELSE Phase[b]
      BY <2>1, <2>2, <2>3 DEF Phase, FreshRow
    <3> QED
      BY <3>1 DEF Phase
  <2>5. Tries' = Tries
    <3>1. \A b \in Assets : rows'[b].attempt = rows[b].attempt
      BY <2>1 DEF FreshRow, Accounts, Unborn
    <3> QED
      BY <3>1 DEF Tries
  <2>6. Lifecycle!Enter(Assets)
    BY <2>4, <2>5 DEF Lifecycle!Enter
  <2> QED
    BY <2>6 DEF Lifecycle!Next
<1>3. ASSUME NEW w \in Workers, proc = "running", Claims(w)
      PROVE  Lifecycle!Next
  BY <1>3, Taking DEF Lifecycle!Next
<1>4. ASSUME NEW a \in Assets, PutsDown(a)
      PROVE  Lifecycle!Next
  BY <1>4, PuttingDown DEF Lifecycle!Next, Accounts
<1>5. ASSUME NEW a \in Assets, Approve(a)
      PROVE  Lifecycle!Next
  <2>1. /\ rows[a].state # "absent" /\ rows'[a] = FreshRow("pending")
        /\ \A b \in Assets \ {a} : rows'[b] = rows[b]
    BY <1>1, <1>5 DEF Approve, RequeueForRegeneration, Numbers
  <2>2. PhaseOf("pending") = "waiting" /\ PhaseOf(rows[a].state) # "absent"
    BY <1>1, <2>1, PhaseKinds DEF AssetState, Unclaimed, Numbers, Row
  <2>3. rows'[a].state = "pending" /\ rows'[a].attempt = 0
    BY <2>1 DEF FreshRow
  <2>4. Phase[a] # "absent" /\ Phase' = [Phase EXCEPT ![a] = "waiting"]
    BY <2>1, <2>2, <2>3 DEF Phase
  <2>5. Tries' = [Tries EXCEPT ![a] = 0]
    BY <2>1, <2>3 DEF Tries
  <2>6. Lifecycle!Reopen(a)
    BY <2>4, <2>5 DEF Lifecycle!Reopen
  <2> QED
    BY <2>6 DEF Lifecycle!Next
<1>6. CASE Rests
  BY <1>6 DEF Rests, Phase, Tries, Lifecycle!vars
<1> QED
  BY <1>2, <1>3, <1>4, <1>5, <1>6, LifecycleForm DEF Accounts

\* The batch controller implements AssetLifecycle, over kills, restarts, halts
\* and approvals between runs: no more assets in hand than workers, no asset
\* taken more often than retries, forgiven crashes and halts account for, and
\* what is finished stays so until an operator asks for it again.
THEOREM LifecycleIsKept ==
  ASSUME ~ApproveWhileRunning
  PROVE  Spec => ImplementsLifecycle
<1>1. Init => Lifecycle!Init
  <2>1. PhaseOf("absent") = "absent"
    BY PhaseKinds
  <2> QED
    BY <2>1 DEF Init, StoreInit, FreshRow, Lifecycle!Init, Phase, Tries
<1>2. Accounts /\ Accounts' /\ [Next]_vars => [Lifecycle!Next]_(Lifecycle!vars)
  BY LifecycleStep
<1> QED
  BY <1>1, <1>2, AccountsHold, PTL DEF Spec, ImplementsLifecycle, Lifecycle!Spec
=============================================================================
