------------------------ MODULE SequenceRepairProofs ------------------------
(***************************************************************************)
(* What holds of SequenceRepair for any number of frames and any retry     *)
(* limits.  The rounds judge repaired frames only, so that soundness rests *)
(* on what is still open in a round: every frame that is not has passed,   *)
(* and every pair without an open frame matches.  The order of the steps   *)
(* matters: a repaired frame is not compared with a successor the round is *)
(* to regenerate, because that one is still open.                          *)
(***************************************************************************)
EXTENDS SequenceRepair, TLAPS

InRound == pc \in {"repair", "compare"} \/ (repairing /\ pc \in {"submit", "outcome"})
Open == todo \cup newly \cup (IF pc = "repair" THEN {} ELSE {frame})

Shape ==
  /\ TypeOK
  /\ pc \in {"submit", "outcome", "compare"} => frame \in Frame
  /\ pc \in {"begin", "frames"} => ~repairing
  /\ row = "saved" => pc = "done"

\* What the first pass leaves to the rounds, and one round to the next.
Judged ==
  /\ pc = "judge" => \A i \in Frame : i < frame => i \in passed \cup failed
  /\ pc \in {"consistency", "plan"} => Frame \subseteq passed \cup failed
  /\ pc = "plan" /\ WithConsistency =>
       \A i \in Pair : i \in matches \/ i \in failed \/ i + 1 \in failed

\* What holds within a round.
Round ==
  InRound =>
    /\ Open \subseteq failed
    /\ Frame \subseteq passed \cup Open
    /\ WithConsistency => \A i \in Pair : i \in matches \/ i \in Open \/ i + 1 \in Open
    /\ \A i \in todo : \A j \in failed : j > i => j \in todo
    /\ pc # "repair" => frame \notin todo /\ \A j \in failed : j > frame => j \in todo

\* Every call of submit has an attempt of its own.
Counted == \A i \in Frame : submits[i] <= attempts[i] + 1

\* Calls, attempts and the two limits on them.
Keys ==
  /\ Counted
  /\ pc = "submit" => submits[frame] <= attempts[frame]
  /\ pc = "begin" => \A i \in Frame : submits[i] = 0
  /\ pc = "frames" => \A i \in Frame : i >= frame => submits[i] = 0
  /\ ~repairing /\ pc \in {"submit", "outcome"} =>
       \A i \in Frame : i > frame => submits[i] = 0
  /\ \A i \in Frame :
       attempts[i] <= TemporaryRetries \/ attempts[i] <= QcMaxRetries["sequence"]
  /\ InRound => \A i \in todo : attempts[i] < QcMaxRetries["sequence"]

\* Has ComfyUI nothing yet under the present job key of a frame?
Unused(i) == queued[i].prompts = 0 \/ queued[i].attempt < attempts[i]

Fresh ==
  /\ OneCallPerKey
  /\ \A i \in Frame : queued[i].attempt <= attempts[i]
  /\ \A i \in Frame : submits[i] = 0 => queued[i].prompts = 0
  /\ pc = "submit" => Unused(frame)

SequenceInv == Shape /\ Judged /\ Round /\ Keys /\ Fresh /\ SavedIsSound

-----------------------------------------------------------------------------
\* The limits are numbers, and the ladder of TEMPORARY errors is the longest.
LEMMA Limits ==
  /\ QcMaxRetries["sequence"] \in Nat /\ TemporaryRetries \in Nat
  /\ \A class \in ErrorClass :
       RetryLimit(class) \in Nat /\ RetryLimit(class) <= TemporaryRetries
BY RetryAssumption DEF RetryAssumption, Kind, ErrorClass, RetryLimit

\* The specification starts in the invariant.
LEMMA Starts == Init => SequenceInv
<1> SUFFICES ASSUME Init PROVE SequenceInv
  OBVIOUS
<1> USE DEF Init
<1>0. FrameCount \in Nat /\ Frame = 0 .. FrameCount - 1
  BY SequenceAssumption DEF SequenceAssumption, Frame
<1>1. Shape
  <2>1. frame \in 0 .. FrameCount
    BY <1>0
  <2>2. /\ attempts \in [Frame -> Nat] /\ submits \in [Frame -> Nat]
        /\ repairs \in [Frame -> Nat] /\ prompts \in [Frame -> SUBSET Prompts]
        /\ queued \in [Frame -> [attempt : Nat, prompts : Nat]]
    OBVIOUS
  <2> QED BY <2>1, <2>2 DEF Shape, TypeOK, Pc, Outcome, Reason
<1>2. Judged /\ Round /\ SavedIsSound
  BY DEF Judged, Round, SavedIsSound, InRound
<1>3. Keys
  BY Limits DEF Keys, Counted, InRound
<1>4. Fresh
  BY SequenceAssumption DEF SequenceAssumption, Fresh, OneCallPerKey, Unused
<1> QED BY <1>1, <1>2, <1>3, <1>4 DEF SequenceInv

\* Types, and where the frame at hand is one.
LEMMA ShapeKept ==
  ASSUME SequenceInv, Next
  PROVE  Shape'
<1> USE DEF SequenceInv, Shape, Pc, Outcome, Reason, control, rounds, images, history
<1>0. FrameCount \in Nat /\ Frame = 0 .. FrameCount - 1 /\ Pair = 0 .. FrameCount - 2
  BY SequenceAssumption DEF SequenceAssumption, Frame, Pair
<1>b. frame \in 0 .. FrameCount /\ 0 \in 0 .. FrameCount
  BY <1>0 DEF TypeOK
<1>1. CASE Begin
  <2>1. frame' \in 0 .. FrameCount
    <3>1. frame' = frame \/ frame' = 0
      BY <1>1 DEF Begin, Ends, GoTo
    <3> QED BY <1>b, <3>1
  <2>2. UNCHANGED <<rounds, stop, images, history, repairing>>
    BY <1>1 DEF Begin, Ends, GoTo
  <2>3. \/ pc' = "done" /\ row' = "permanent_error" /\ why' = "manifest"
        \/ pc' = "frames" /\ UNCHANGED <<row, why>> /\ pc = "begin"
    BY <1>1 DEF Begin, Ends, GoTo
  <2> QED BY <2>1, <2>2, <2>3 DEF TypeOK
<1>2. CASE NextFrame
  <2>1. frame' \in 0 .. FrameCount /\ (pc' = "submit" => frame' \in Frame)
    <3>1. /\ frame' = frame \/ frame' = 0
          /\ pc' = "submit" => frame' = frame /\ frame < FrameCount
      BY <1>2 DEF NextFrame, Ends, GoTo
    <3>2. frame < FrameCount => frame \in Frame
      BY <1>0, <1>b
    <3> QED BY <1>b, <3>1, <3>2
  <2>2. UNCHANGED <<rounds, stop, images, history, repairing>> /\ pc = "frames"
    BY <1>2 DEF NextFrame, Ends, GoTo
  <2>3. \/ pc' = "done" /\ row' = "retry_wait" /\ why' = "halt"
        \/ pc' \in {"submit", "judge"} /\ UNCHANGED <<row, why>>
    BY <1>2 DEF NextFrame, Ends, GoTo
  <2> QED BY <2>1, <2>2, <2>3 DEF TypeOK
<1>f. ASSUME FrameFails, frame \in Frame, pc \in {"submit", "outcome"}
      PROVE  /\ pc' \in Pc /\ row' \in {"claimed", "submitted"} \cup Outcome
             /\ row' = "saved" => pc' = "done"
             /\ attempts' \in [Frame -> Nat] /\ why' \in Reason
             /\ UNCHANGED <<frame, repairing, failed, newly, todo>>
             /\ pc' \in {"submit", "done"}
  <2>1. PICK class \in ErrorClass :
          IF ShouldRetry(class, attempts[frame])
          THEN /\ attempts' = CountedOneMore(frame)
               /\ GoTo("submit", frame)
               /\ UNCHANGED <<failed, newly, todo>>
          ELSE /\ Ends(GiveUpState(class, "sequence"), "frame")
               /\ UNCHANGED rounds
    BY <1>f DEF FrameFails
  <2>2. GiveUpState(class, "sequence") = "parked_approval"
    BY DEF GiveUpState, TerminalState
  <2>3. CASE ShouldRetry(class, attempts[frame])
    <3>1. attempts' \in [Frame -> Nat]
      BY <1>f, <2>1, <2>3 DEF TypeOK, CountedOneMore
    <3>2. GoTo("submit", frame) /\ UNCHANGED <<failed, newly, todo>>
      BY <2>1, <2>3
    <3>3. pc' = "submit" /\ UNCHANGED <<frame, row, repairing, why>>
      BY <3>2 DEF GoTo
    <3>4. /\ pc' \in Pc /\ row' \in {"claimed", "submitted"} \cup Outcome
          /\ row' = "saved" => pc' = "done"
          /\ why' \in Reason
      BY <1>f, <3>3 DEF TypeOK
    <3> QED BY <3>1, <3>2, <3>3, <3>4
  <2>4. CASE ~ShouldRetry(class, attempts[frame])
    BY <2>1, <2>2, <2>4 DEF TypeOK, Ends
  <2> QED BY <2>3, <2>4
<1>3. CASE Submit
  <2>0. PICK taken \in 0 .. PostTries :
          /\ queued' = [queued EXCEPT ![frame] = UnderItsKey(frame, taken)]
          /\ \/ FrameFails
             \/ Ends("parked_approval", "frame") /\ UNCHANGED rounds
             \/ /\ pc' = "outcome" /\ row' = "submitted"
                /\ UNCHANGED <<frame, repairing, why, rounds>>
    BY <1>3 DEF Submit
  <2>q. queued' \in [Frame -> [attempt : Nat, prompts : Nat]]
    <3>1. ASSUME frame \in Frame
          PROVE  UnderItsKey(frame, taken) \in [attempt : Nat, prompts : Nat]
      BY <3>1, SequenceAssumption DEF SequenceAssumption, TypeOK, UnderItsKey
    <3> QED BY <2>0, <3>1 DEF TypeOK
  <2>1. /\ submits' \in [Frame -> Nat] /\ prompts' \in [Frame -> SUBSET Prompts]
        /\ queued' \in [Frame -> [attempt : Nat, prompts : Nat]]
    BY <1>3, <2>q DEF TypeOK, Submit, Prompts
  <2>2. UNCHANGED <<stop, images, repairs>>
    BY <1>3 DEF Submit
  <2>3. \/ FrameFails
        \/ Ends("parked_approval", "frame") /\ UNCHANGED rounds
        \/ pc' = "outcome" /\ row' = "submitted" /\ UNCHANGED <<frame, repairing, why, rounds>>
    BY <2>0
  <2>4. frame \in Frame /\ pc = "submit"
    BY <1>3 DEF Submit
  <2>5. CASE FrameFails
    BY <1>0, <1>f, <2>1, <2>2, <2>4, <2>5 DEF TypeOK
  <2>6. CASE Ends("parked_approval", "frame") /\ UNCHANGED rounds
    BY <2>1, <2>2, <2>6 DEF TypeOK, Ends
  <2>7. CASE pc' = "outcome" /\ row' = "submitted" /\ UNCHANGED <<frame, repairing, why, rounds>>
    BY <2>1, <2>2, <2>4, <2>7 DEF TypeOK
  <2> QED BY <2>3, <2>5, <2>6, <2>7
<1>4. CASE Outcomes
  <2>1. UNCHANGED <<stop, history>> /\ frame \in Frame /\ pc = "outcome"
    BY <1>4 DEF Outcomes
  <2>2. CASE FrameFails /\ UNCHANGED images
    BY <1>0, <1>f, <2>1, <2>2 DEF TypeOK
  <2>3. CASE Ends("parked_approval", "timeout") /\ UNCHANGED <<rounds, images>>
    BY <2>1, <2>3 DEF TypeOK, Ends
  <2>4. CASE /\ NewImage(frame)
             /\ IF repairing THEN GoTo("compare", frame) ELSE GoTo("frames", frame + 1)
             /\ UNCHANGED rounds
    <3>1. readable' \subseteq Frame /\ passed' \subseteq Frame /\ matches' \subseteq Pair
          /\ drift' \in BOOLEAN
      BY <2>1, <2>4 DEF TypeOK, NewImage
    <3>2. CASE repairing
      BY <2>1, <2>4, <3>1, <3>2 DEF TypeOK, GoTo
    <3>3. CASE ~repairing
      <4>1. frame' \in 0 .. FrameCount
        BY <1>0, <2>1, <2>4, <3>3 DEF GoTo
      <4> QED BY <2>1, <2>4, <3>1, <3>3, <4>1 DEF TypeOK, GoTo
    <3> QED BY <3>2, <3>3
  <2> QED BY <1>4, <2>2, <2>3, <2>4 DEF Outcomes
<1>5. CASE Judge
  <2>1. frame' \in 0 .. FrameCount
    <3>1. \/ frame' = frame
          \/ frame' = frame + 1 /\ frame \in readable
      BY <1>5 DEF Judge, NotJudged, Ends, GoTo
    <3>2. frame \in readable => frame + 1 \in 0 .. FrameCount
      BY <1>0 DEF TypeOK
    <3> QED BY <1>b, <3>1, <3>2
  <2>2. /\ UNCHANGED <<attempts, newly, todo, stop, readable, matches, drift, history>>
        /\ UNCHANGED repairing
    BY <1>5 DEF Judge, NotJudged, Ends, GoTo
  <2>3. failed' \subseteq Frame /\ passed' \subseteq Frame
    BY <1>5 DEF TypeOK, Judge
  <2>4. \/ pc' = "done" /\ row' = "parked_approval" /\ why' = "unreadable"
        \/ pc' = "done" /\ row' = "judge_unavailable" /\ why' = "judge"
        \/ pc' \in {"judge", "consistency"} /\ UNCHANGED <<row, why>> /\ pc = "judge"
    BY <1>5 DEF Judge, NotJudged, Ends, GoTo
  <2> QED BY <2>1, <2>2, <2>3, <2>4 DEF TypeOK
<1>6. CASE CheckConsistency
  <2>1. failed' \subseteq Frame
    <3>1. FrameCount >= 2 => {FrameCount - 1} \subseteq Frame
      BY <1>0
    <3>2. FrameCount >= 2 => Inconsistent \subseteq Frame
      BY <3>1 DEF Inconsistent
    <3>3. failed' = failed \/ (FrameCount >= 2 /\ failed' = failed \cup Inconsistent)
      BY <1>6 DEF CheckConsistency
    <3> QED BY <3>2, <3>3 DEF TypeOK
  <2>2. /\ UNCHANGED <<attempts, newly, todo, stop, images, history>>
        /\ UNCHANGED <<frame, repairing>>
    BY <1>6 DEF CheckConsistency, Ends, GoTo
  <2>3. \/ pc' = "done" /\ row' = "parked_approval" /\ why' = "raised"
        \/ pc' = "plan" /\ UNCHANGED <<row, why>> /\ pc = "consistency"
    BY <1>6 DEF CheckConsistency, Ends, GoTo
  <2> QED BY <2>1, <2>2, <2>3 DEF TypeOK
<1>7. CASE Plan
  BY <1>7 DEF TypeOK, Plan, Ends, GoTo
<1>8. CASE Regenerate
  <2>1. CASE todo = {} /\ failed' = newly /\ GoTo("plan", frame)
             /\ UNCHANGED <<attempts, newly, todo, repairs>>
    BY <1>8, <2>1 DEF TypeOK, Regenerate, GoTo
  <2>2. ASSUME NEW i \in todo,
               todo' = todo \ {i}, attempts' = CountedOneMore(i),
               repairs' = [repairs EXCEPT ![i] = @ + 1],
               pc' = "submit", frame' = i, repairing' = TRUE,
               UNCHANGED <<row, why, failed, newly>>
        PROVE  Shape'
    <3>1. i \in Frame
      BY DEF TypeOK
    <3>2. attempts' \in [Frame -> Nat] /\ repairs' \in [Frame -> Nat]
      BY <2>2, <3>1 DEF TypeOK, CountedOneMore
    <3>3. frame' \in 0 .. FrameCount /\ todo' \subseteq Frame
      BY <1>0, <2>2, <3>1 DEF TypeOK
    <3>4. UNCHANGED <<stop, images, submits, prompts, queued>> /\ pc = "repair"
      BY <1>8 DEF Regenerate
    <3> QED BY <2>2, <3>1, <3>2, <3>3, <3>4 DEF TypeOK
  <2> QED BY <1>8, <2>1, <2>2 DEF Regenerate
<1>9. CASE Compare
  BY <1>9 DEF TypeOK, Compare, NotJudged, Ends, GoTo
<1>10. CASE Halt
  BY <1>10 DEF TypeOK, Halt
<1> QED
  BY <1>1, <1>2, <1>3, <1>4, <1>5, <1>6, <1>7, <1>8, <1>9, <1>10 DEF Next, Work
-----------------------------------------------------------------------------
\* Where each action leads.
LEMMA Leads ==
  /\ Begin => pc' \in {"done", "frames"}
  /\ NextFrame => pc = "frames" /\ pc' \in {"done", "submit", "judge"} /\ repairing' = repairing
  /\ Submit => pc = "submit" /\ pc' \in {"outcome", "done", "submit"} /\ repairing' = repairing
  /\ Outcomes => pc = "outcome" /\ pc' \in {"compare", "frames", "done", "submit"}
                   /\ repairing' = repairing
  /\ Judge => pc = "judge" /\ pc' \in {"done", "judge", "consistency"}
  /\ CheckConsistency => pc' \in {"done", "plan"}
  /\ Plan => pc = "plan" /\ pc' \in {"done", "repair"}
  /\ Regenerate => pc = "repair" /\ pc' \in {"submit", "plan"}
  /\ Compare => pc = "compare" /\ pc' \in {"done", "repair"}
<1>f. FrameFails => pc' \in {"submit", "done"} /\ repairing' = repairing
  BY DEF FrameFails, GoTo, Ends
<1>1. Begin => pc' \in {"done", "frames"}
  BY DEF Begin, Ends, GoTo
<1>2. NextFrame => pc = "frames" /\ pc' \in {"done", "submit", "judge"} /\ repairing' = repairing
  BY DEF NextFrame, Ends, GoTo
<1>3. Submit => pc = "submit" /\ pc' \in {"outcome", "done", "submit"} /\ repairing' = repairing
  BY <1>f DEF Submit, Ends
<1>4. Outcomes => pc = "outcome" /\ pc' \in {"compare", "frames", "done", "submit"}
                    /\ repairing' = repairing
  BY <1>f DEF Outcomes, Ends, GoTo
<1>5. Judge => pc = "judge" /\ pc' \in {"done", "judge", "consistency"}
  BY DEF Judge, NotJudged, Ends, GoTo
<1>6. CheckConsistency => pc' \in {"done", "plan"}
  BY DEF CheckConsistency, Ends, GoTo
<1>7. Plan => pc = "plan" /\ pc' \in {"done", "repair"}
  BY DEF Plan, Ends, GoTo
<1>8. Regenerate => pc = "repair" /\ pc' \in {"submit", "plan"}
  BY DEF Regenerate, GoTo
<1>9. Compare => pc = "compare" /\ pc' \in {"done", "repair"}
  BY DEF Compare, NotJudged, Ends, GoTo
<1> QED BY <1>1, <1>2, <1>3, <1>4, <1>5, <1>6, <1>7, <1>8, <1>9

\* The judgements of the first pass, and their hand-over to the next round.
LEMMA JudgedKept ==
  ASSUME SequenceInv, Next
  PROVE  Judged'
<1> USE DEF SequenceInv
<1>0. FrameCount \in Nat /\ Frame = 0 .. FrameCount - 1 /\ Pair = 0 .. FrameCount - 2
  BY SequenceAssumption DEF SequenceAssumption, Frame, Pair
<1>t. /\ frame \in 0 .. FrameCount
      /\ newly \subseteq Frame
  BY DEF Shape, TypeOK
<1>1. CASE Begin \/ Submit \/ Outcomes \/ Plan \/ Compare
  BY <1>1, Leads DEF Judged
<1>2. CASE NextFrame
  <2>1. pc' = "judge" => frame' = 0
    BY <1>2 DEF NextFrame, Ends, GoTo
  <2> QED BY <1>0, <1>2, <2>1, Leads DEF Judged
<1>3. CASE Judge
  <2>1. passed \subseteq passed' /\ failed \subseteq failed'
    BY <1>3 DEF Judge
  <2>2. pc' = "judge" => frame' = frame + 1 /\ frame \in passed' \cup failed'
    BY <1>3 DEF Judge, NotJudged, Ends, GoTo
  <2>3. pc' = "consistency" => frame = FrameCount
    BY <1>3 DEF Judge, NotJudged, Ends, GoTo
  <2>4. ASSUME pc' = "judge", NEW i \in Frame, i < frame'
        PROVE  i \in passed' \cup failed'
    <3>1. i < frame \/ i = frame
      BY <1>0, <1>t, <2>2, <2>4
    <3> QED BY <1>3, <2>1, <2>2, <2>4, <3>1, Leads DEF Judged
  <2>5. ASSUME pc' = "consistency"
        PROVE  Frame \subseteq passed' \cup failed'
    <3>1. \A i \in Frame : i < frame
      BY <1>0, <2>3, <2>5
    <3> QED BY <1>3, <2>1, <3>1, Leads DEF Judged
  <2> QED BY <1>3, <2>4, <2>5, Leads DEF Judged
<1>4. CASE CheckConsistency
  <2>1. SUFFICES ASSUME pc' = "plan" PROVE Judged'
    BY <1>4, Leads DEF Judged
  <2>2. /\ pc = "consistency" /\ UNCHANGED images
        /\ failed' = IF WithConsistency /\ FrameCount >= 2
                     THEN failed \cup Inconsistent ELSE failed
    BY <1>4, <2>1 DEF CheckConsistency, Ends
  <2>3. Frame \subseteq passed' \cup failed'
    BY <2>2 DEF Judged, images
  <2>4. ASSUME WithConsistency, NEW i \in Pair, i \notin matches
        PROVE  i + 1 \in failed'
    <3>1. FrameCount >= 2 /\ i + 1 \in Frame /\ i + 1 > 0 /\ (i + 1) - 1 = i
      BY <1>0
    <3>2. i + 1 \in Inconsistent
      BY <2>4, <3>1 DEF Inconsistent
    <3> QED BY <2>2, <2>4, <3>1, <3>2
  <2> QED BY <2>1, <2>2, <2>3, <2>4 DEF Judged, images
<1>5. CASE Regenerate
  <2>1. SUFFICES ASSUME pc' = "plan" PROVE Judged'
    BY <1>5, Leads DEF Judged
  <2>2. pc = "repair" /\ todo = {} /\ failed' = newly /\ UNCHANGED images
    BY <1>5, <2>1 DEF Regenerate
  <2>3. Open = newly /\ InRound
    BY <2>2 DEF Open, InRound
  <2> QED BY <2>1, <2>2, <2>3 DEF Judged, Round, images
<1>6. CASE Halt
  BY <1>6 DEF Halt, Judged, control, rounds, images
<1> QED BY <1>1, <1>2, <1>3, <1>4, <1>5, <1>6 DEF Next, Work

\* A saved sequence is sound when it is saved, and nothing happens to it later.
LEMMA SoundKept ==
  ASSUME SequenceInv, Next
  PROVE  SavedIsSound'
<1> USE DEF SequenceInv
<1>0. FrameCount \in Nat /\ Frame = 0 .. FrameCount - 1 /\ Pair = 0 .. FrameCount - 2
  BY SequenceAssumption DEF SequenceAssumption, Frame, Pair
<1>1. SUFFICES ASSUME row' = "saved" PROVE SavedIsSound'
  BY DEF SavedIsSound
<1>2. CASE row = "saved"
  <2>1. pc = "done"
    BY <1>2 DEF Shape
  <2>2. Halt
    BY <2>1 DEF Next, Work, Begin, NextFrame, Submit, Outcomes, Judge, CheckConsistency,
                Plan, Regenerate, Compare
  <2> QED BY <1>2, <2>2 DEF Halt, SavedIsSound, images, control
<1>3. CASE row # "saved"
  <2>f. ~ FrameFails
    BY <1>1, <1>3 DEF FrameFails, GoTo, Ends, GiveUpState, TerminalState
  <2>1. ~ Begin /\ ~ NextFrame /\ ~ Submit /\ ~ Outcomes
    BY <1>1, <1>3, <2>f DEF Begin, NextFrame, Submit, Outcomes, GoTo, Ends
  <2>2. ~ Judge /\ ~ CheckConsistency /\ ~ Regenerate /\ ~ Compare /\ ~ Halt
    BY <1>1, <1>3 DEF Judge, CheckConsistency, Regenerate, Compare, Halt, NotJudged, GoTo,
                      Ends, control
  <2>3. pc = "plan" /\ failed = {} /\ UNCHANGED images
    BY <1>1, <1>3, <2>1, <2>2 DEF Next, Work, Plan, GoTo, Ends
  <2>4. Frame \subseteq passed /\ (WithConsistency => Pair \subseteq matches)
    BY <2>3 DEF Judged
  <2>5. passed \subseteq Frame /\ matches \subseteq Pair
    BY DEF Shape, TypeOK
  <2> QED BY <2>3, <2>4, <2>5 DEF SavedIsSound, images
<1> QED BY <1>2, <1>3

\* What a failure of the frame at hand changes.
LEMMA FrameFailsKeeps ==
  ASSUME SequenceInv, FrameFails, frame \in Frame
  PROVE  /\ UNCHANGED <<frame, repairing, failed, newly, todo>>
         /\ \/ pc' = "done" /\ attempts' = attempts
            \/ /\ pc' = "submit"
               /\ attempts' = [attempts EXCEPT ![frame] = @ + 1]
               /\ attempts[frame] < TemporaryRetries
<1>1. PICK class \in ErrorClass :
        IF ShouldRetry(class, attempts[frame])
        THEN /\ attempts' = CountedOneMore(frame)
             /\ GoTo("submit", frame)
             /\ UNCHANGED <<failed, newly, todo>>
        ELSE /\ Ends(GiveUpState(class, "sequence"), "frame")
             /\ UNCHANGED rounds
  BY DEF FrameFails
<1>2. CASE ShouldRetry(class, attempts[frame])
  <2>1. attempts[frame] \in Nat /\ attempts[frame] < RetryLimit(class)
    BY <1>2 DEF SequenceInv, Shape, TypeOK, ShouldRetry
  <2>2. attempts[frame] < TemporaryRetries
    BY <2>1, Limits
  <2> QED BY <1>1, <1>2, <2>2 DEF CountedOneMore, GoTo
<1>3. CASE ~ShouldRetry(class, attempts[frame])
  BY <1>1, <1>3 DEF Ends, rounds
<1> QED BY <1>2, <1>3

\* The rounds.
LEMMA RoundKept ==
  ASSUME SequenceInv, Next
  PROVE  Round'
<1> USE DEF SequenceInv
<1>0. FrameCount \in Nat /\ Frame = 0 .. FrameCount - 1 /\ Pair = 0 .. FrameCount - 2
  BY SequenceAssumption DEF SequenceAssumption, Frame, Pair
<1>t. /\ todo \subseteq Frame /\ newly \subseteq Frame /\ failed \subseteq Frame
      /\ matches \subseteq Pair
      /\ pc \in {"submit", "outcome", "compare"} => frame \in Frame
  BY DEF Shape, TypeOK
<1>1. CASE Begin \/ NextFrame \/ Judge \/ CheckConsistency
  <2>1. ~InRound'
    BY <1>1, Leads DEF Shape, InRound
  <2> QED BY <2>1 DEF Round
<1>2. CASE Submit
  <2>1. SUFFICES ASSUME pc' # "done", repairing PROVE Round'
    BY <1>2, Leads DEF Round, InRound
  <2>2. UNCHANGED <<frame, failed, newly, todo, images>> /\ pc = "submit"
        /\ pc' \in {"submit", "outcome"}
    BY <1>2, <1>t, <2>1, FrameFailsKeeps, Leads DEF Submit, Ends, rounds
  <2>3. InRound /\ Open' = Open
    BY <2>1, <2>2 DEF InRound, Open
  <2> QED BY <2>2, <2>3 DEF Round, images
<1>3. CASE Outcomes
  <2>1. SUFFICES ASSUME InRound' PROVE Round'
    BY DEF Round
  <2>2. repairing /\ pc = "outcome" /\ pc' \in {"compare", "submit"}
    <3>1. pc = "outcome" /\ pc' \in {"compare", "submit"} /\ repairing' = repairing
      BY <1>3, <2>1, Leads DEF InRound
    <3>2. pc' = "submit" => repairing
      BY <2>1, <3>1 DEF InRound
    <3>3. FrameFails => pc' # "compare"
      BY DEF FrameFails, GoTo, Ends
    <3>4. pc' = "compare" => repairing
      BY <1>3, <3>3 DEF Outcomes, GoTo, Ends
    <3> QED BY <3>1, <3>2, <3>4
  <2>3. frame \in Frame
    BY <1>t, <2>2
  <2>4. /\ UNCHANGED <<frame, failed, newly, todo>>
        /\ UNCHANGED images \/ NewImage(frame)
    BY <1>3, <2>2, <2>3, FrameFailsKeeps DEF Outcomes, Ends, GoTo, rounds
  <2>5. InRound /\ Open' = Open /\ frame \in Open
    BY <2>2, <2>4 DEF InRound, Open
  <2>6. CASE UNCHANGED images
    BY <2>2, <2>4, <2>5, <2>6 DEF Round, images
  <2>7. CASE NewImage(frame)
    <3>1. Frame \subseteq passed' \cup Open'
      BY <2>5, <2>7 DEF NewImage, Round
    <3>2. ASSUME WithConsistency, NEW i \in Pair
          PROVE  i \in matches' \/ i \in Open' \/ i + 1 \in Open'
      <4>1. CASE i = frame \/ i = frame - 1
        BY <1>0, <2>3, <2>5, <4>1
      <4>2. CASE ~ (i = frame \/ i = frame - 1)
        <5>1. i \in matches => i \in matches'
          BY <2>7, <4>2 DEF NewImage
        <5> QED BY <2>5, <3>2, <5>1 DEF Round
      <4> QED BY <4>1, <4>2
    <3> QED BY <2>2, <2>4, <2>5, <3>1, <3>2 DEF Round
  <2> QED BY <2>4, <2>6, <2>7
<1>4. CASE Plan
  <2>1. SUFFICES ASSUME pc' = "repair" PROVE Round'
    BY <1>4, Leads DEF Round, InRound
  <2>2. /\ pc = "plan" /\ newly' = {} /\ todo' = failed /\ failed' = failed
        /\ UNCHANGED images
    BY <1>4, <2>1 DEF Plan, Ends
  <2>3. Open' = failed
    BY <2>1, <2>2 DEF Open
  <2> QED BY <2>1, <2>2, <2>3 DEF Round, Judged, images
<1>5. CASE Regenerate
  <2>1. SUFFICES ASSUME pc' # "plan" PROVE Round'
    BY <1>5, Leads DEF Round, InRound
  <2>2. PICK i \in todo :
          /\ \A j \in todo : i <= j
          /\ todo' = todo \ {i}
          /\ pc' = "submit" /\ frame' = i /\ repairing' = TRUE
          /\ UNCHANGED <<failed, newly, images>>
    BY <1>5, <2>1 DEF Regenerate, GoTo
  <2>3. pc = "repair" /\ InRound
    BY <1>5, Leads DEF InRound
  <2>4. Open' = Open
    BY <2>2, <2>3 DEF Open
  <2>5. \A k \in todo' : \A j \in failed' : j > k => j \in todo'
    <3>1. SUFFICES ASSUME NEW k \in todo', NEW j \in failed', j > k PROVE j \in todo'
      OBVIOUS
    <3>2. j # i
      BY <1>0, <1>t, <2>2, <3>1
    <3> QED BY <2>2, <2>3, <3>1, <3>2 DEF Round
  <2>6. frame' \notin todo' /\ \A j \in failed' : j > frame' => j \in todo'
    <3>1. \A j \in failed : j > i => j \in todo /\ j # i
      BY <1>0, <1>t, <2>2, <2>3 DEF Round
    <3> QED BY <2>2, <3>1
  <2> QED BY <2>2, <2>3, <2>4, <2>5, <2>6 DEF Round, images
<1>6. CASE Compare
  <2>1. SUFFICES ASSUME pc' = "repair" PROVE Round'
    BY <1>6, Leads DEF Round, InRound
  <2>2. /\ pc = "compare" /\ UNCHANGED <<frame, failed, todo, matches>>
        /\ \/ newly' = newly \cup {frame} /\ passed' = passed
           \/ /\ passed' = passed \cup {frame}
              /\ newly' = IF WithConsistency /\ ~(Against(frame) \subseteq matches)
                          THEN newly \cup {frame} ELSE newly
    BY <1>6, <2>1 DEF Compare, NotJudged, Ends, GoTo
  <2>3. InRound /\ frame \in Frame /\ Open = todo \cup newly \cup {frame}
        /\ Open' = todo' \cup newly'
    BY <1>t, <2>1, <2>2 DEF InRound, Open
  <2>4. CASE newly' = newly \cup {frame}
    <3>1. Open' = Open
      BY <2>2, <2>3, <2>4
    <3> QED BY <2>1, <2>2, <2>3, <3>1 DEF Round
  <2>5. CASE newly' = newly /\ passed' = passed \cup {frame}
    <3>1. Open' = todo \cup newly /\ Open' \subseteq Open
      BY <2>2, <2>3, <2>5
    <3>2. Frame \subseteq passed' \cup Open'
      BY <2>3, <2>5, <3>1 DEF Round
    <3>3. ASSUME WithConsistency, NEW i \in Pair
          PROVE  i \in matches' \/ i \in Open' \/ i + 1 \in Open'
      <4>1. Against(frame) \subseteq matches \/ frame \in newly
        BY <2>2, <2>5, <3>3
      <4>2. CASE frame \in newly
        BY <2>2, <2>3, <3>1, <3>3, <4>2 DEF Round
      <4>3. CASE Against(frame) \subseteq matches
        <5>1. CASE i = frame - 1
          BY <2>2, <3>3, <4>3, <5>1 DEF Against
        <5>2. CASE i = frame /\ i + 1 \notin failed
          BY <2>2, <3>3, <4>3, <5>2 DEF Against
        <5>3. CASE i = frame /\ i + 1 \in failed
          <6>1. i + 1 > frame
            BY <1>0, <2>3, <5>3
          <6> QED BY <2>2, <2>3, <3>1, <5>3, <6>1 DEF Round
        <5>4. CASE i # frame /\ i # frame - 1
          <6>1. i + 1 # frame
            BY <1>0, <2>3, <5>4
          <6> QED BY <2>2, <2>3, <3>1, <3>3, <5>4, <6>1 DEF Round
        <5> QED BY <5>1, <5>2, <5>3, <5>4
      <4> QED BY <4>1, <4>2, <4>3
    <3>4. Open' \subseteq failed'
      BY <2>2, <2>3, <3>1 DEF Round
    <3> QED BY <2>1, <2>2, <2>3, <3>2, <3>3, <3>4 DEF Round
  <2> QED BY <2>2, <2>4, <2>5
<1>7. CASE Halt
  BY <1>7 DEF Halt, Round, InRound, Open, control, rounds, images
<1> QED BY <1>1, <1>2, <1>3, <1>4, <1>5, <1>6, <1>7 DEF Next, Work

\* Submissions and attempts.
LEMMA KeysKept ==
  ASSUME SequenceInv, Next
  PROVE  Keys'
<1> USE DEF SequenceInv
<1>0. FrameCount \in Nat /\ Frame = 0 .. FrameCount - 1
  BY SequenceAssumption DEF SequenceAssumption, Frame
<1>q. QcMaxRetries["sequence"] \in Nat /\ TemporaryRetries \in Nat
  BY Limits
<1>t. /\ attempts \in [Frame -> Nat] /\ submits \in [Frame -> Nat]
      /\ todo \subseteq Frame /\ failed \subseteq Frame
      /\ frame \in 0 .. FrameCount
      /\ pc \in {"submit", "outcome", "compare"} => frame \in Frame
      /\ pc \in {"begin", "frames"} => ~repairing
  BY DEF Shape, TypeOK
<1>1. CASE Begin \/ Judge \/ CheckConsistency \/ Compare
  <2>1. UNCHANGED <<attempts, submits, todo>>
    BY <1>1 DEF Begin, Judge, CheckConsistency, Compare, rounds, history
  <2>2. pc' = "frames" => pc = "begin"
    BY <1>1, Leads DEF Begin
  <2> QED BY <1>1, <2>1, <2>2, Leads DEF Keys, Counted, InRound
<1>2. CASE NextFrame
  <2>1. UNCHANGED <<attempts, submits, todo, repairing>> /\ ~repairing
    BY <1>2, <1>t DEF NextFrame, rounds, history, Ends, GoTo
  <2>2. pc' = "submit" => frame' = frame /\ frame \in Frame
    BY <1>0, <1>2, <1>t DEF NextFrame, Ends, GoTo
  <2>3. pc' = "submit" => submits[frame] = 0 /\ \A i \in Frame : i > frame => submits[i] = 0
    BY <1>0, <1>2, <2>2 DEF Keys, NextFrame
  <2> QED BY <1>2, <1>t, <2>1, <2>2, <2>3, Leads DEF Keys, Counted, InRound
<1>3. CASE Submit
  <2>1. /\ pc = "submit" /\ frame \in Frame
        /\ submits' = [submits EXCEPT ![frame] = @ + 1]
    BY <1>3, <1>t DEF Submit
  <2>2. /\ UNCHANGED <<frame, repairing, todo>>
        /\ \/ pc' \in {"outcome", "done"} /\ attempts' = attempts
           \/ FrameFails
    BY <1>3, <2>1, FrameFailsKeeps DEF Submit, Ends, rounds
  <2>3. CASE pc' \in {"outcome", "done"} /\ attempts' = attempts
    <3>1. \A i \in Frame : submits'[i] <= attempts'[i] + 1
      BY <1>t, <2>1, <2>3 DEF Keys, Counted
    <3>2. \A i \in Frame : i > frame => submits'[i] = submits[i]
      BY <1>0, <1>t, <2>1
    <3> QED BY <2>1, <2>2, <2>3, <3>1, <3>2 DEF Keys, Counted, InRound
  <2>4. CASE /\ pc' = "submit" /\ attempts' = [attempts EXCEPT ![frame] = @ + 1]
             /\ attempts[frame] < TemporaryRetries
    <3>1. \A i \in Frame : submits'[i] <= attempts'[i] + 1
      BY <1>t, <2>1, <2>4 DEF Keys, Counted
    <3>2. submits'[frame] <= attempts'[frame]
      BY <1>t, <2>1, <2>4 DEF Keys
    <3>3. \A i \in Frame : i > frame => submits'[i] = submits[i]
      BY <1>0, <1>t, <2>1
    <3>4. \A i \in Frame : attempts'[i] <= TemporaryRetries
                             \/ attempts'[i] <= QcMaxRetries["sequence"]
      BY <1>q, <1>t, <2>1, <2>4 DEF Keys
    <3>5. repairing => \A i \in todo : attempts'[i] = attempts[i]
      BY <1>t, <2>1, <2>4 DEF Round, InRound
    <3> QED BY <2>1, <2>2, <2>4, <3>1, <3>2, <3>3, <3>4, <3>5
            DEF Keys, Counted, InRound
  <2> QED BY <2>1, <2>2, <2>3, <2>4, FrameFailsKeeps
<1>4. CASE Outcomes
  <2>1. /\ pc = "outcome" /\ frame \in Frame /\ submits' = submits
        /\ repairing' = repairing
    BY <1>4, <1>t, Leads DEF Outcomes, history
  <2>2. \/ FrameFails
        \/ /\ pc' \in {"compare", "frames", "done"}
           /\ UNCHANGED <<attempts, todo>>
           /\ pc' = "compare" => repairing
           /\ pc' = "frames" => ~repairing /\ frame' = frame + 1
    BY <1>4 DEF Outcomes, GoTo, Ends, rounds
  <2>3. CASE /\ pc' \in {"compare", "frames", "done"}
             /\ UNCHANGED <<attempts, todo>>
             /\ pc' = "compare" => repairing
             /\ pc' = "frames" => ~repairing /\ frame' = frame + 1
    <3>1. pc' = "frames" => \A i \in Frame : i >= frame' => submits[i] = 0
      <4>1. SUFFICES ASSUME pc' = "frames", NEW i \in Frame, i >= frame' PROVE submits[i] = 0
        OBVIOUS
      <4>2. i > frame
        BY <1>0, <2>1, <2>3, <4>1
      <4> QED BY <2>1, <2>3, <4>1, <4>2 DEF Keys
    <3> QED BY <2>1, <2>3, <3>1 DEF Keys, Counted, InRound
  <2>4. CASE FrameFails
    <3>1. UNCHANGED <<frame, todo>>
      BY <2>1, <2>4, FrameFailsKeeps
    <3>2. CASE pc' = "done" /\ attempts' = attempts
      BY <2>1, <3>1, <3>2 DEF Keys, Counted, InRound
    <3>3. CASE /\ pc' = "submit" /\ attempts' = [attempts EXCEPT ![frame] = @ + 1]
               /\ attempts[frame] < TemporaryRetries
      <4>1. \A i \in Frame : submits[i] <= attempts'[i] + 1
        BY <1>t, <2>1, <3>3 DEF Keys, Counted
      <4>2. submits[frame] <= attempts'[frame]
        BY <1>t, <2>1, <3>3 DEF Keys, Counted
      <4>3. \A i \in Frame : attempts'[i] <= TemporaryRetries
                               \/ attempts'[i] <= QcMaxRetries["sequence"]
        BY <1>q, <1>t, <2>1, <3>3 DEF Keys
      <4>4. repairing => \A i \in todo : attempts'[i] = attempts[i]
        BY <1>t, <2>1, <3>3 DEF Round, InRound
      <4> QED BY <2>1, <3>1, <3>3, <4>1, <4>2, <4>3, <4>4
              DEF Keys, Counted, InRound
    <3> QED BY <2>1, <2>4, <3>2, <3>3, FrameFailsKeeps
  <2> QED BY <2>2, <2>3, <2>4
<1>5. CASE Plan
  <2>1. UNCHANGED <<attempts, submits>>
    BY <1>5 DEF Plan, history
  <2>2. pc' = "repair" => \A i \in todo' : attempts[i] < QcMaxRetries["sequence"]
    BY <1>q, <1>t, <1>5 DEF Plan, Ends, Exhausted, QcShouldRetry
  <2> QED BY <1>5, <2>1, <2>2, Leads DEF Keys, Counted, InRound
<1>6. CASE Regenerate
  <2>1. UNCHANGED submits /\ pc = "repair"
    BY <1>6 DEF Regenerate
  <2>2. CASE pc' = "plan"
    <3>1. attempts' = attempts
      BY <1>6, <2>2 DEF Regenerate
    <3> QED BY <2>1, <2>2, <3>1 DEF Keys, Counted, InRound
  <2>3. CASE pc' # "plan"
    <3>1. PICK i \in todo :
            /\ todo' = todo \ {i} /\ attempts' = CountedOneMore(i)
            /\ pc' = "submit" /\ frame' = i /\ repairing' = TRUE
      BY <1>6, <2>3 DEF Regenerate, GoTo
    <3>2. i \in Frame /\ attempts' = [attempts EXCEPT ![i] = @ + 1]
      BY <1>t, <3>1 DEF CountedOneMore
    <3>3. attempts[i] < QcMaxRetries["sequence"]
      BY <2>1 DEF Keys, InRound
    <3>4. \A j \in Frame : submits[j] <= attempts'[j] + 1
      BY <1>t, <3>2 DEF Keys, Counted
    <3>5. submits[i] <= attempts'[i]
      BY <1>t, <3>2 DEF Keys, Counted
    <3>6. \A j \in Frame : attempts'[j] <= TemporaryRetries
                             \/ attempts'[j] <= QcMaxRetries["sequence"]
      BY <1>q, <1>t, <3>2, <3>3 DEF Keys
    <3>7. \A j \in todo' : attempts'[j] = attempts[j] /\ j \in todo
      BY <1>t, <3>1, <3>2
    <3> QED BY <2>1, <3>1, <3>4, <3>5, <3>6, <3>7 DEF Keys, Counted, InRound
  <2> QED BY <2>2, <2>3
<1>7. CASE Halt
  BY <1>7 DEF Halt, Keys, Counted, InRound, control, rounds, history
<1> QED BY <1>1, <1>2, <1>3, <1>4, <1>5, <1>6, <1>7 DEF Next, Work

\* What ComfyUI has under the job keys: a submission comes to a key nobody has
\* used, because the attempt is counted before every call but the first.
LEMMA FreshKept ==
  ASSUME SequenceInv, Next
  PROVE  Fresh'
<1> USE DEF SequenceInv
<1>t. /\ attempts \in [Frame -> Nat] /\ submits \in [Frame -> Nat]
      /\ queued \in [Frame -> [attempt : Nat, prompts : Nat]]
      /\ \A i \in Frame : /\ attempts[i] \in Nat /\ submits[i] \in Nat
                          /\ queued[i].attempt \in Nat /\ queued[i].prompts \in Nat
      /\ pc \in {"submit", "outcome", "compare"} => frame \in Frame
      /\ todo \subseteq Frame /\ PostTries \in Nat
  BY SequenceAssumption DEF SequenceAssumption, Shape, TypeOK
<1>1. ASSUME UNCHANGED <<attempts, submits, queued>>, pc' # "submit"
      PROVE  Fresh'
  BY <1>1 DEF Fresh, OneCallPerKey
\* One more attempt, and nothing new on the server.
<1>2. ASSUME NEW i \in Frame, attempts' = [attempts EXCEPT ![i] = @ + 1],
             UNCHANGED <<submits, queued>>, frame' = i
      PROVE  Fresh'
  <2>1. \A j \in Frame : attempts'[j] \in Nat /\ attempts[j] <= attempts'[j]
    BY <1>t, <1>2
  <2>2. queued[i].attempt < attempts'[i]
    BY <1>t, <1>2 DEF Fresh
  <2>3. \A j \in Frame : queued[j].attempt <= attempts'[j]
    BY <1>t, <2>1 DEF Fresh
  <2> QED BY <1>2, <2>2, <2>3 DEF Fresh, OneCallPerKey, Unused
<1>3. CASE Begin \/ Judge \/ CheckConsistency \/ Compare \/ Plan
  BY <1>1, <1>3, Leads DEF Begin, Judge, CheckConsistency, Compare, Plan, rounds, history
<1>4. CASE NextFrame
  <2>1. UNCHANGED <<attempts, submits, queued>>
    BY <1>4 DEF NextFrame, rounds, history
  <2>2. CASE pc' = "submit"
    <3>1. frame' = frame /\ frame \in Frame /\ submits[frame] = 0
      BY <1>4, <2>2, SequenceAssumption
         DEF NextFrame, Ends, GoTo, Keys, Shape, TypeOK, Frame, SequenceAssumption
    <3> QED BY <2>1, <3>1 DEF Fresh, OneCallPerKey, Unused
  <2> QED BY <1>1, <2>1, <2>2
<1>5. CASE Submit
  <2>1. PICK taken \in 0 .. PostTries :
          /\ queued' = [queued EXCEPT ![frame] = UnderItsKey(frame, taken)]
          /\ \/ pc' = "outcome" /\ UNCHANGED rounds
             \/ Ends("parked_approval", "frame") /\ UNCHANGED rounds
             \/ FrameFails
    BY <1>5 DEF Submit
  <2>2. pc = "submit" /\ frame \in Frame /\ submits' = [submits EXCEPT ![frame] = @ + 1]
    BY <1>5, <1>t DEF Submit
  <2>3. /\ queued'[frame] = [attempt |-> attempts[frame], prompts |-> taken]
        /\ \A i \in Frame \ {frame} : queued'[i] = queued[i] /\ submits'[i] = submits[i]
        /\ submits'[frame] # 0
    <3>1. UnderItsKey(frame, taken) = [attempt |-> attempts[frame], prompts |-> taken]
      <4>1. Unused(frame) /\ taken \in Nat
        BY <1>t, <2>1, <2>2 DEF Fresh
      <4>2. (IF queued[frame].attempt = attempts[frame] THEN queued[frame].prompts ELSE 0) = 0
        BY <1>t, <2>2, <4>1 DEF Unused
      <4> QED BY <4>1, <4>2 DEF UnderItsKey
    <3> QED BY <1>t, <2>1, <2>2, <3>1
  <2>4. /\ \A i \in Frame : queued'[i].prompts <= PostTries
        /\ \A i \in Frame : submits'[i] = 0 => queued'[i].prompts = 0
        /\ \A i \in Frame : queued'[i].attempt <= attempts[i]
    <3>1. ASSUME NEW i \in Frame
          PROVE  /\ queued'[i].prompts <= PostTries
                 /\ submits'[i] = 0 => queued'[i].prompts = 0
                 /\ queued'[i].attempt <= attempts[i]
      <4>1. CASE i = frame
        BY <1>t, <2>1, <2>3, <4>1
      <4>2. CASE i # frame
        BY <2>3, <4>2 DEF Fresh, OneCallPerKey
      <4> QED BY <4>1, <4>2
    <3> QED BY <3>1
  <2>5. CASE attempts' = attempts /\ pc' \in {"outcome", "done"}
    BY <2>4, <2>5 DEF Fresh, OneCallPerKey
  <2>6. CASE attempts' = [attempts EXCEPT ![frame] = @ + 1] /\ frame' = frame
    <3>1. /\ \A i \in Frame : attempts'[i] \in Nat /\ attempts[i] <= attempts'[i]
          /\ queued'[frame].attempt < attempts'[frame]
      BY <1>t, <2>2, <2>3, <2>6
    <3>2. ASSUME NEW i \in Frame PROVE queued'[i].attempt <= attempts'[i]
      <4>1. CASE i = frame
        BY <1>t, <2>3, <3>1, <4>1
      <4>2. CASE i # frame
        BY <1>t, <2>3, <3>1, <4>2 DEF Fresh
      <4> QED BY <4>1, <4>2
    <3> QED BY <2>4, <2>6, <3>1, <3>2 DEF Fresh, OneCallPerKey, Unused
  <2> QED BY <2>1, <2>2, <2>5, <2>6, FrameFailsKeeps DEF Ends, rounds
<1>6. CASE Outcomes
  <2>1. pc = "outcome" /\ frame \in Frame /\ UNCHANGED <<submits, queued>>
    BY <1>6, <1>t DEF Outcomes, history
  <2>2. \/ FrameFails
        \/ attempts' = attempts /\ pc' # "submit"
    BY <1>6 DEF Outcomes, GoTo, Ends, rounds
  <2> QED BY <1>1, <1>2, <2>1, <2>2, FrameFailsKeeps
<1>7. CASE Regenerate
  <2>1. UNCHANGED <<submits, queued>>
    BY <1>7 DEF Regenerate
  <2>2. \/ \E i \in todo : attempts' = [attempts EXCEPT ![i] = @ + 1] /\ frame' = i
        \/ attempts' = attempts /\ pc' = "plan"
    BY <1>7 DEF Regenerate, GoTo, CountedOneMore
  <2> QED BY <1>1, <1>2, <1>t, <2>1, <2>2
<1>8. CASE Halt
  BY <1>8 DEF Halt, Fresh, OneCallPerKey, Unused, control, rounds, history
<1> QED BY <1>3, <1>4, <1>5, <1>6, <1>7, <1>8 DEF Next, Work

-----------------------------------------------------------------------------
\* Nothing of it depends on a step being taken.
LEMMA Stutters == SequenceInv /\ UNCHANGED vars => SequenceInv'
<1> SUFFICES ASSUME SequenceInv, UNCHANGED vars PROVE SequenceInv'
  OBVIOUS
<1> USE DEF SequenceInv, vars
<1>1. Shape'
  BY DEF Shape, TypeOK
<1>2. Judged' /\ Round'
  BY DEF Judged, Round, InRound, Open
<1>3. Keys' /\ SavedIsSound'
  BY DEF Keys, Counted, InRound, SavedIsSound
<1>4. Fresh'
  BY DEF Fresh, OneCallPerKey, Unused
<1> QED BY <1>1, <1>2, <1>3, <1>4

\* The invariant holds.
LEMMA Invariant == Spec => []SequenceInv
<1>1. SequenceInv /\ [Next]_vars => SequenceInv'
  <2>1. SequenceInv /\ Next => SequenceInv'
    BY ShapeKept, JudgedKept, RoundKept, KeysKept, FreshKept, SoundKept DEF SequenceInv
  <2> QED BY <2>1, Stutters
<1> QED BY <1>1, Starts, PTL DEF Spec

\* _process_sequence keeps its variables well formed for any frame count.
THEOREM SequenceTypeCorrect == Spec => []TypeOK
<1>1. SequenceInv => TypeOK
  BY DEF SequenceInv, Shape
<1> QED BY <1>1, Invariant, PTL

\* A sequence that is saved has passed frame by frame and matches pair by pair,
\* for any number of frames (_process_sequence and SequenceRepairPlanner.plan).
THEOREM RepairIsSound == Spec => []SavedIsSound
<1>1. SequenceInv => SavedIsSound
  BY DEF SequenceInv
<1> QED BY <1>1, Invariant, PTL

\* A job key is that of one call of submit: whatever number of its POSTs ComfyUI
\* has taken, no retry and no repair adds prompts to the same key
\* (generate_frame, handle_frame_failure, _post_json).
THEOREM KeysAreFresh == Spec => []OneCallPerKey
<1>1. SequenceInv => OneCallPerKey
  BY DEF SequenceInv, Fresh
<1> QED BY <1>1, Invariant, PTL

\* The retries of a failing frame and the repairs of a bad one share a bound:
\* a frame is submitted at most once more than the larger limit.
THEOREM FramesAreBounded == Spec => []SubmissionsBounded
<1>1. SequenceInv => SubmissionsBounded
  <2>1. SUFFICES ASSUME SequenceInv, NEW i \in Frame
                 PROVE  \/ submits[i] <= TemporaryRetries + 1
                        \/ submits[i] <= QcMaxRetries["sequence"] + 1
    BY DEF SubmissionsBounded
  <2>2. submits[i] \in Nat /\ attempts[i] \in Nat
    BY <2>1 DEF SequenceInv, Shape, TypeOK
  <2>3. submits[i] <= attempts[i] + 1
        /\ (attempts[i] <= TemporaryRetries \/ attempts[i] <= QcMaxRetries["sequence"])
    BY <2>1 DEF SequenceInv, Keys, Counted
  <2> QED BY <2>2, <2>3, Limits
<1> QED BY <1>1, Invariant, PTL
=============================================================================
