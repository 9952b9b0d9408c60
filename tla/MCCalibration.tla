--------------------------- MODULE MCCalibration ---------------------------
(* Instances of Calibration, and with it of JudgePanel, for TLC.           *)
EXTENDS Calibration, TLC

\* Each answer below differs from the others in its votes and in its proposal.
MCVerdict(a, b, action, value) ==
  [votes |-> ("product" :> a @@ "colour" :> b), fix |-> [action |-> action, value |-> value]]

MCVerdicts == {
  MCVerdict({TRUE}, {TRUE}, "none", {}),
  MCVerdict({FALSE}, {TRUE}, "adjust_steps", {9}),
  MCVerdict({TRUE}, {FALSE}, "adjust_steps", {-4}),
  MCVerdict({TRUE, FALSE}, {TRUE}, "rewrite_slot", {"background"}),
  MCVerdict({FALSE}, {FALSE}, "rewrite_slot", {"seed"}) }

MCRequired == {"product", "colour"}
MCBounds == "adjust_steps" :> [lo |-> -2, hi |-> 4]

MCLabel(reject, violated, prefiltered) ==
  [reject |-> reject, violated |-> violated, prefiltered |-> prefiltered]
\* A rejection that names a check, beside an image to accept, beside a rejection
\* that names none (of an image that the prefilter rejects too); one with a typo.
MCLabelSets == {
  <<MCLabel(FALSE, {}, FALSE), MCLabel(TRUE, {"product"}, FALSE)>>,
  <<MCLabel(TRUE, {}, TRUE), MCLabel(TRUE, {"product"}, FALSE)>>,
  <<MCLabel(TRUE, {}, TRUE), MCLabel(TRUE, {"color"}, FALSE)>> }
=============================================================================
