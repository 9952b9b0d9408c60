--------------------------- MODULE SequenceRepair ---------------------------
(***************************************************************************)
(* One claim of a sequence asset: BatchRunner._process_sequence generates  *)
(* and judges every frame, checks the frames against each other, and then  *)
(* repairs in rounds that SequenceRepairPlanner (core/sequence.py) plans,  *)
(* until the sequence is saved, parked or given back.                      *)
(*                                                                         *)
(* An image is known by what later steps find out about it: whether its    *)
(* file can be read, whether the judge passed it, whether it matches its   *)
(* neighbours, and whether the sequence it is part of drifts.  The gate of *)
(* the circuit breaker is modelled in CircuitBreaker.                      *)
(***************************************************************************)
EXTENDS Integers, FiniteSets, RetryPolicy

CONSTANTS
  FrameCount,       \* asset.frame_count
  WithConsistency,  \* is a FrameConsistencyChecker configured?
  PostTries,        \* POSTs that one call of submit makes at most (4)
  GpuBudget         \* budget.max_gpu_seconds, in frames

ASSUME SequenceAssumption ==
  /\ FrameCount \in Nat
  /\ WithConsistency \in BOOLEAN
  /\ PostTries \in Nat \ {0}
  /\ GpuBudget \in Nat

VARIABLES
  pc,        \* where _process_sequence is
  row,       \* the state of the asset's row
  frame,     \* the frame at hand
  repairing, \* was generate_frame called by a repair round?
  attempts,  \* attempt_counts
  failed,    \* failed_frames
  newly,     \* newly_failed
  todo,      \* frames the round's plan has yet to regenerate
  stop,      \* _halt_reason: the run is to stop, or a budget is spent
  \* the present image of every frame
  readable, passed, matches, drift,
  \* history
  submits,   \* calls of submit per frame
  prompts,   \* the different prompts they asked for
  queued,    \* what ComfyUI has taken under the latest job key of a frame
  repairs,   \* times a repair round has regenerated a frame
  why        \* what ended the claim

control == <<pc, row, frame, repairing>>
rounds == <<attempts, failed, newly, todo>>
images == <<readable, passed, matches, drift>>
history == <<submits, prompts, queued, repairs>>
vars == <<pc, row, frame, repairing, attempts, failed, newly, todo, stop,
          readable, passed, matches, drift, submits, prompts, queued, repairs, why>>

-----------------------------------------------------------------------------
Frame == 0 .. FrameCount - 1
\* Pair i is that of frames i and i + 1.
Pair == 0 .. FrameCount - 2

Pc == {"begin", "frames", "submit", "outcome", "judge", "consistency", "plan",
       "repair", "compare", "done"}
Outcome == {"saved", "parked_approval", "permanent_error", "judge_unavailable", "retry_wait"}
Reason == {"none", "saved", "planner", "frame", "timeout", "raised", "unreadable",
           "judge", "manifest", "halt"}

\* What generate_frame puts into the graph, but for the name of the file: the
\* asset's seed plus the frame's index, and no fix.
Prompt(i) == [seed |-> i, fix |-> "none"]
Prompts == {Prompt(i) : i \in Frame}

TypeOK ==
  /\ pc \in Pc /\ row \in {"claimed", "submitted"} \cup Outcome
  /\ frame \in 0 .. FrameCount /\ repairing \in BOOLEAN
  /\ attempts \in [Frame -> Nat]
  /\ failed \subseteq Frame /\ newly \subseteq Frame /\ todo \subseteq Frame
  /\ stop \in BOOLEAN
  /\ readable \subseteq Frame /\ passed \subseteq Frame
  /\ matches \subseteq Pair /\ drift \in BOOLEAN
  /\ submits \in [Frame -> Nat] /\ repairs \in [Frame -> Nat]
  /\ prompts \in [Frame -> SUBSET Prompts]
  /\ queued \in [Frame -> [attempt : Nat, prompts : Nat]]
  /\ why \in Reason

Init ==
  /\ pc = "begin" /\ row = "claimed" /\ frame = 0 /\ repairing = FALSE
  /\ attempts = [i \in Frame |-> 0]
  /\ failed = {} /\ newly = {} /\ todo = {}
  /\ stop \in BOOLEAN
  /\ readable = {} /\ passed = {} /\ matches = {} /\ drift = FALSE
  /\ submits = [i \in Frame |-> 0] /\ repairs = [i \in Frame |-> 0]
  /\ prompts = [i \in Frame |-> {}]
  /\ queued = [i \in Frame |-> [attempt |-> 0, prompts |-> 0]]
  /\ why = "none"

-----------------------------------------------------------------------------
\* The claim is over.
Ends(state, reason) ==
  /\ pc' = "done" /\ row' = state /\ why' = reason
  /\ UNCHANGED <<frame, repairing>>

GoTo(label, i) ==
  /\ pc' = label /\ frame' = i
  /\ UNCHANGED <<row, repairing, why>>

Begin ==
  /\ pc = "begin"
  /\ \/ FrameCount = 0 /\ Ends("permanent_error", "manifest")
     \/ FrameCount > 0 /\ Ends("permanent_error", "manifest")  \* unloadable workflow
     \/ FrameCount > 0 /\ GoTo("frames", 0)
  /\ UNCHANGED <<rounds, stop, images, history>>

-----------------------------------------------------------------------------
(* Generating a frame.                                                     *)

\* The first pass.  A halt gives the claim back and stops the run.
NextFrame ==
  /\ pc = "frames"
  /\ \/ frame < FrameCount /\ stop /\ Ends("retry_wait", "halt")
     \/ frame < FrameCount /\ ~stop /\ GoTo("submit", frame)
     \/ frame = FrameCount /\ GoTo("judge", 0)
  /\ UNCHANGED <<rounds, stop, images, history>>

\* Mutation: a retry submits under the attempt that failed.
NotCounted(i) == attempts
CountedOneMore(i) == [attempts EXCEPT ![i] = @ + 1]

\* handle_frame_failure: once more, at once, or park the whole sequence.
FrameFails ==
  \E class \in ErrorClass :
    IF ShouldRetry(class, attempts[frame])
    THEN /\ attempts' = CountedOneMore(frame)
         /\ GoTo("submit", frame)
         /\ UNCHANGED <<failed, newly, todo>>
    ELSE /\ Ends(GiveUpState(class, "sequence"), "frame")
         /\ UNCHANGED rounds

\* The job key is made of the frame and its attempt: what ComfyUI has under it
\* when it takes more prompts.
UnderItsKey(i, taken) ==
  [attempt |-> attempts[i],
   prompts |-> taken + (IF queued[i].attempt = attempts[i] THEN queued[i].prompts ELSE 0)]

\* One call of submit.  A POST may fail before or after ComfyUI has taken the
\* prompt, and is repeated with the same key; the last one may be answered,
\* the graph may be refused, and the tries may be spent.
Submit ==
  /\ pc = "submit"
  /\ submits' = [submits EXCEPT ![frame] = @ + 1]
  /\ prompts' = [prompts EXCEPT ![frame] = @ \cup {Prompt(frame)}]
  /\ \E taken \in 0 .. PostTries :
       /\ queued' = [queued EXCEPT ![frame] = UnderItsKey(frame, taken)]
       /\ \/ /\ taken > 0
             /\ pc' = "outcome" /\ row' = "submitted"
             /\ UNCHANGED <<frame, repairing, why, rounds>>
          \/ Ends("parked_approval", "frame") /\ UNCHANGED rounds
          \/ FrameFails
  /\ UNCHANGED <<stop, images, repairs>>

\* The present images of frame i are replaced: nothing found out about the old
\* one holds of the new one.
NewImage(i) ==
  /\ readable' \in {readable \ {i}, readable \cup {i}}
  /\ passed' = passed \ {i}
  /\ \E found \in SUBSET (Pair \cap {i - 1, i}) :
       matches' = (matches \ {i - 1, i}) \cup found
  /\ drift' \in BOOLEAN

Outcomes ==
  /\ pc = "outcome"
  /\ \/ /\ NewImage(frame)
        /\ IF repairing THEN GoTo("compare", frame) ELSE GoTo("frames", frame + 1)
        /\ UNCHANGED rounds
     \/ FrameFails /\ UNCHANGED images
     \/ Ends("parked_approval", "timeout") /\ UNCHANGED <<rounds, images>>
  /\ UNCHANGED <<stop, history>>

-----------------------------------------------------------------------------
(* The first judgement.                                                    *)

\* Mutation: only an unavailable judge is provided for.
JudgeUnavailable == frame \in readable /\ Ends("judge_unavailable", "judge")

\* _judge_or_park, when it does not come to a verdict.
NotJudged ==
  \/ Ends("parked_approval", "unreadable")
  \/ Ends("judge_unavailable", "judge")

Judge ==
  /\ pc = "judge"
  /\ \/ /\ frame < FrameCount /\ NotJudged
        /\ UNCHANGED <<failed, passed>>
     \/ /\ frame \in readable
        /\ \/ passed' = passed \cup {frame} /\ UNCHANGED failed
           \/ failed' = failed \cup {frame} /\ UNCHANGED passed
        /\ GoTo("judge", frame + 1)
     \/ /\ frame = FrameCount /\ GoTo("consistency", frame)
        /\ UNCHANGED <<failed, passed>>
  /\ UNCHANGED <<attempts, newly, todo, stop, readable, matches, drift, history>>

\* _check_sequence_consistency: the later frame of a pair that does not match,
\* and the last one of a sequence that drifts.
Inconsistent ==
  {i \in Frame : i > 0 /\ i - 1 \notin matches}
    \cup (IF drift THEN {FrameCount - 1} ELSE {})

CheckConsistency ==
  /\ pc = "consistency"
  /\ \/ /\ GoTo("plan", frame)
        /\ failed' = IF WithConsistency /\ FrameCount >= 2
                     THEN failed \cup Inconsistent ELSE failed
     \/ /\ WithConsistency /\ FrameCount >= 2
        /\ Ends("parked_approval", "raised") /\ UNCHANGED failed
  /\ UNCHANGED <<attempts, newly, todo, stop, images, history>>

-----------------------------------------------------------------------------
(* Repair rounds.                                                          *)

\* plan(): some frame has used up its retries.
Exhausted == \E i \in failed : ~QcShouldRetry(attempts[i], "sequence")

Plan ==
  /\ pc = "plan"
  /\ \/ /\ stop /\ Ends("retry_wait", "halt")
        /\ UNCHANGED <<newly, todo>>
     \/ /\ ~stop /\ failed = {} /\ Ends("saved", "saved")
        /\ UNCHANGED <<newly, todo>>
     \/ /\ ~stop /\ failed # {} /\ Exhausted /\ Ends("parked_approval", "planner")
        /\ UNCHANGED <<newly, todo>>
     \/ /\ ~stop /\ failed # {} /\ ~Exhausted
        /\ newly' = {} /\ todo' = failed
        /\ GoTo("repair", frame)
  /\ UNCHANGED <<attempts, failed, stop, images, history>>

\* The round's RegenerateFrame steps, in the order of the frames.
Regenerate ==
  /\ pc = "repair"
  /\ \/ \E i \in todo :
          /\ \A j \in todo : i <= j
          /\ todo' = todo \ {i}
          /\ attempts' = CountedOneMore(i)
          /\ repairs' = [repairs EXCEPT ![i] = @ + 1]
          /\ pc' = "submit" /\ frame' = i /\ repairing' = TRUE
          /\ UNCHANGED <<row, why, failed, newly>>
     \/ /\ todo = {}
        /\ failed' = newly
        /\ GoTo("plan", frame)
        /\ UNCHANGED <<attempts, newly, todo, repairs>>
  /\ UNCHANGED <<stop, images, submits, prompts, queued>>

\* Mutation: the successor is never looked at.
PredecessorOnly(i) == {i - 1} \cap Pair

\* QCCompare.against, as pairs: the predecessor, and the successor unless this
\* round regenerates that one too.
Against(i) == ({i - 1} \cup (IF i + 1 \in failed THEN {} ELSE {i})) \cap Pair

\* The round's QCCompare steps.
Compare ==
  /\ pc = "compare"
  /\ \/ NotJudged /\ UNCHANGED <<newly, passed>>
     \/ /\ WithConsistency /\ Against(frame) # {}
        /\ Ends("parked_approval", "raised") /\ UNCHANGED <<newly, passed>>
     \/ /\ frame \in readable
        /\ \/ newly' = newly \cup {frame} /\ UNCHANGED passed
           \/ /\ passed' = passed \cup {frame}
              /\ newly' = IF WithConsistency /\ ~(Against(frame) \subseteq matches)
                          THEN newly \cup {frame} ELSE newly
        /\ GoTo("repair", frame)
  /\ UNCHANGED <<attempts, failed, todo, stop, readable, matches, drift, history>>

-----------------------------------------------------------------------------
\* Another worker, or the supervisor, stops the run, or a budget is spent: that
\* of time and the judge's by anyone, that of the GPU by single assets, since
\* only _process_single adds to _gpu_seconds.
Halt ==
  /\ ~stop /\ stop' = TRUE
  /\ UNCHANGED <<control, rounds, images, history, why>>

Work ==
  Begin \/ NextFrame \/ Submit \/ Outcomes \/ Judge \/ CheckConsistency
    \/ Plan \/ Regenerate \/ Compare

Next == Work \/ Halt

Spec == Init /\ [][Next]_vars

\* The event loop runs the worker; ComfyUI and the judge answer or time out.
FairSpec == Spec /\ WF_vars(Work)

-----------------------------------------------------------------------------
(* Properties.                                                             *)

\* A sequence that is saved is sound: the judge has passed the image that each
\* frame has in the end, and each matches the next, although the rounds look at
\* the repaired frames only (_process_sequence, plan).
SavedIsSound ==
  row = "saved" =>
    /\ passed = Frame
    /\ WithConsistency => matches = Pair

\* No two calls of submit in a claim share a job key.  One call may leave several
\* prompts under its key, since it repeats a POST whose reply was lost; the
\* retries and repairs of a frame come under keys of their own, so that its files
\* are never more than one call accounts for (generate_frame, _post_json).
OneCallPerKey ==
  \A i \in Frame : queued[i].prompts <= PostTries

\* The two retry budgets of a frame do not add up: submit is called for a frame
\* at most once more than the larger of them allows (each call may still repeat
\* its POST).
SubmissionsBounded ==
  \A i \in Frame :
    \/ submits[i] <= TemporaryRetries + 1
    \/ submits[i] <= QcMaxRetries["sequence"] + 1

\* Every claim ends, however verdicts and failures fall.
ClaimEnds == <>(pc = "done")

\* What a repair is for: a sequence is parked by the planner when some frame
\* has been repaired as often as allowed (core/sequence.py: attempt_counts is
\* "how many times each frame has already been regenerated (by this planner's
\* prior rounds)").
ParkedAfterItsRepairs ==
  why = "planner" => \E i \in failed : repairs[i] >= QcMaxRetries["sequence"]

\* Step 5: a repaired frame that does not match its successor sends the
\* successor into the next round (core/sequence.py: "Mismatch with N+1 ->
\* regenerate from N onward").
MismatchReachesSuccessor ==
  [][/\ WithConsistency
     /\ pc = "compare" /\ pc' = "repair" /\ frame \in passed'
     /\ frame \in Against(frame) \ matches
     => frame + 1 \in newly']_vars

\* A sequence that is saved does not drift (_check_sequence_consistency:
\* "sequences must be checked" for "consistency across frames").
SavedHasNoDrift ==
  row = "saved" /\ WithConsistency /\ FrameCount >= 2 => ~drift

\* A timeout is a temporary failure and goes up the retry ladder like any other
\* (core/policy.py lists TimeoutError under TEMPORARY).
TimeoutIsRetried ==
  why = "timeout" => ~ShouldRetry("temporary", attempts[frame])

\* A repair asks for something else than what has failed (core/sequence.py:
\* "Regenerate N using N-1 as reference"): when a repaired frame is compared,
\* it has been asked for in one more way than it has been repaired.
RepairAsksForSomethingElse ==
  pc = "compare" => Cardinality(prompts[frame]) > repairs[frame]

\* A halt is heeded before every frame (_halt_reason: "Anything that loops
\* WITHIN one asset -- QC-repair rounds, and every frame of a sequence -- has to
\* consult them too").
HaltIsHeededPerFrame ==
  [][stop /\ pc' = "submit" => pc \notin {"frames", "repair"}]_vars

\* The GPU budget, in frames, ends a sequence that has used it up
\* (_halt_reason: "or a single manifest row can keep submitting long after the
\* batch was told to stop or blew its budget").
GpuBudgetEndsTheSequence ==
  [][Cardinality({i \in Frame : submits[i] > 0}) >= GpuBudget /\ pc' = "submit"
     => pc # "frames"]_vars
=============================================================================
