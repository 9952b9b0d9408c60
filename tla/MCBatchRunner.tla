--------------------------- MODULE MCBatchRunner ---------------------------
(* Instances of BatchRunner for TLC.                                       *)
EXTENDS BatchRunner, TLC

MCQcMaxRetries == [single |-> 1, sequence |-> 1]

\* Workers and prompt ids are interchangeable; asset ids are ordered.
MCSymmetry == Permutations(Workers) \cup Permutations(PromptIds)

-----------------------------------------------------------------------------
\* A controller that exits with 0 has done the batch
\* (deploy/comfy-controller.service: "a genuinely clean stop (...) i.e. the
\* batch actually finished"), so that the instance may be terminated.
CleanStopMeansDone ==
  proc = "down" /\ lastExit \in {"finished", "halted"} /\ approvals = 0 =>
    \A a \in Assets : rows[a].state \in Finished
=============================================================================
