---------------------------- MODULE Calibration ----------------------------
(***************************************************************************)
(* calibration.py: every labelled image is shown to the judge several times*)
(* in a row, and the repeated verdicts become the judge's decision on the  *)
(* image, its majority per check, the sweep over the number of failing     *)
(* checks that should reject, the agreement per check and with itself, and *)
(* the production gate.  How wide the confidence intervals are is left open.*)
(***************************************************************************)
EXTENDS JudgePanel, Sequences, FiniteSetsExt, Combinatorics

CONSTANTS
  Images,   \* how many are labelled
  LabelSets,\* of each image: does the human reject it, naming which checks,
            \* and does the prefilter reject it
  Repeats,  \* judgements per image
  MinImages, MinSelfAgreement, MinCheckAgreement  \* of the gate; rates in percent

ASSUME CalibrationAssumption ==
  /\ Images \in Nat \ {0} /\ Repeats \in Nat \ {0}
  /\ MinImages \in Nat /\ MinSelfAgreement \in 0 .. 100 /\ MinCheckAgreement \in 0 .. 100
  /\ \A set \in LabelSets : \A i \in 1 .. Images :
       /\ set[i].reject \in BOOLEAN /\ set[i].prefiltered \in BOOLEAN
       /\ IsFiniteSet(set[i].violated)

VARIABLES
  labels, \* the labelled images
  trials  \* ImageTrial.outcomes of the images so far

vars == <<panel, labels, trials>>

-----------------------------------------------------------------------------
(* ImageTrial                                                              *)

\* Mutation: a tie decides for FALSE.
StrictMajority(values, yes) == 2 * Cardinality(yes) > Cardinality(values)
Majority(values, yes) == 2 * Cardinality(yes) >= Cardinality(values)

Valid(i) == {n \in DOMAIN trials[i] : trials[i][n].available}

\* majority_decision: is the image rejected?
DecidedImages == {i \in DOMAIN trials : Valid(i) # {}}
Decision(i) == Majority(Valid(i), {n \in Valid(i) : ~Passed(trials[i][n])})

\* check_majority: a verdict of the prefilter has no opinion on a check.
HavingCheck(i, c) == {n \in Valid(i) : c \in DOMAIN trials[i][n].checks}
CheckMajority(i, c) ==
  Majority(HavingCheck(i, c), {n \in HavingCheck(i, c) : trials[i][n].checks[c]})

Known(i) == {c \in Required : HavingCheck(i, c) # {}}
FailedChecks(i) == Cardinality({c \in Known(i) : ~CheckMajority(i, c)})

-----------------------------------------------------------------------------
(* The tables                                                              *)

\* confusion_from_pairs, on the images of a table and those the judge rejects.
Confusion(images, rejected) ==
  LET wrong == {i \in images : labels[i].reject}
  IN [tp |-> Cardinality(wrong \cap rejected),
      fp |-> Cardinality(rejected \ wrong),
      fn |-> Cardinality(wrong \ rejected),
      tn |-> Cardinality(images \ (wrong \cup rejected))]

DecisionTable == Confusion(DecidedImages, {i \in DecidedImages : Decision(i)})

SweptImages == {i \in DOMAIN trials : Known(i) # {}}
SweepRow(k) == Confusion(SweptImages, {i \in SweptImages : FailedChecks(i) >= k})

\* _expected_check_pass: a rejection that names no check expects nothing of any.
ExpectedOf(i) == ~labels[i].reject \/ labels[i].violated # {}
Expected(i, c) == ~labels[i].reject \/ c \notin labels[i].violated

\* per_check_agreement
Compared(c) == {i \in DOMAIN trials : ExpectedOf(i) /\ HavingCheck(i, c) # {}}
Agreed(c) == {i \in Compared(c) : CheckMajority(i, c) = Expected(i, c)}

\* self_agreement of an image, in parts of Repeats!, and the images that have one.
Repeated == {i \in DOMAIN trials : Cardinality(Valid(i)) >= 2}
SelfAgreement(i) ==
  Cardinality({n \in Valid(i) : ~Passed(trials[i][n]) = Decision(i)})
    * (factorial[Repeats] \div Cardinality(Valid(i)))

\* evaluate_production_gate, given whether the intervals are narrow enough.
AgreesOn(c) == 100 * Cardinality(Agreed(c)) >= MinCheckAgreement * Cardinality(Compared(c))
\* Mutation: one check that agrees is enough.
SomeCheckAgrees == \E c \in Required : AgreesOn(c)
ChecksAgree == \A c \in Required : AgreesOn(c)

GateOpens(narrow) ==
  /\ narrow
  /\ Cardinality(DecidedImages) >= MinImages
  /\ Repeated # {}
  /\ 100 * MapThenSumSet(SelfAgreement, Repeated)
       >= MinSelfAgreement * factorial[Repeats] * Cardinality(Repeated)
  /\ ChecksAgree

-----------------------------------------------------------------------------
(* run_calibration                                                         *)

Current == IF trials # <<>> /\ Len(trials[Len(trials)]) < Repeats
           THEN Len(trials) ELSE Len(trials) + 1

TypeOK ==
  /\ PanelTypeOK
  /\ DOMAIN trials = 1 .. Len(trials) /\ Len(trials) <= Images
  /\ \A i \in DOMAIN trials : Len(trials[i]) \in 1 .. Repeats

Init ==
  /\ PanelInit
  /\ labels \in LabelSets
  /\ trials = <<>>

Show ==
  /\ Current <= Images
  /\ Ask(labels[Current].prefiltered)
  /\ UNCHANGED <<labels, trials>>

\* The verdict or the JudgeUnavailable joins the outcomes of its image.
Collect ==
  /\ phase = "judged"
  /\ phase' = "idle" /\ got' = NoVerdicts /\ result' = Unavailable
  /\ LET outcome == [result EXCEPT !.fix = NoFix]
     IN trials' = IF Current = Len(trials) + 1
                  THEN Append(trials, <<outcome>>)
                  ELSE [trials EXCEPT ![Current] = Append(@, outcome)]
  /\ UNCHANGED <<calls, labels, unpaid>>

Next == Show \/ Collect \/ (PanelStep /\ UNCHANGED <<labels, trials>>)

Spec == Init /\ [][Next]_vars

-----------------------------------------------------------------------------
(* Properties                                                              *)

\* The sweep's first row never rejects an image that the judge's own decision
\* accepts: as a picture of production it can only be too lenient.
SweepIsNoStricter ==
  LET row == SweepRow(1)
  IN row.tp + row.fp <= DecisionTable.tp + DecisionTable.fp

\* Behind an open gate an image that should have failed a check seldom gets past
\* the judge: of the images a check is compared on, the judge's own decision
\* accepts no more of those whose human named the check than the share the gate
\* lets the check be wrong about.  It speaks of one check at a time: a rejection
\* that names no required check is held against none.
MissedOn(c) ==
  {i \in DecidedImages : labels[i].reject /\ c \in labels[i].violated /\ ~Decision(i)}
OpenGateBoundsMisses ==
  GateOpens(TRUE) =>
    \A c \in Required :
      100 * Cardinality(MissedOn(c)) <= (100 - MinCheckAgreement) * Cardinality(Compared(c))

\* "a typo'd check name (...) silently drops that image out of per-check
\* agreement" (calibration.py:149).
TypoIsLeftOut ==
  \A i \in DOMAIN trials :
    labels[i].violated # {} /\ labels[i].violated \cap Required = {}
      => \A c \in Required : i \notin Compared(c)

\* "in production terms, k=1 failing check already rejects"
\* (calibration.py:607): the sweep's first row is the decision table.
SweepStartsAtProduction == SweepRow(1) = DecisionTable

\* "Ties resolve to True (reject) (...) when the judge can't agree with itself,
\* that is itself evidence against auto-approving" (calibration.py:305).
TiedCheckIsNoPass ==
  \A i \in DOMAIN trials : \A c \in Known(i) :
    LET passes == {n \in HavingCheck(i, c) : trials[i][n].checks[c]}
    IN 2 * Cardinality(passes) = Cardinality(HavingCheck(i, c)) => ~CheckMajority(i, c)
=============================================================================
