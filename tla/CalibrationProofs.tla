------------------------- MODULE CalibrationProofs -------------------------
(***************************************************************************)
(* Proofs about Calibration and the judgements of JudgePanel below it: an  *)
(* image passes on a unanimous vote only, a fix keeps its envelope, the    *)
(* sweep is no stricter than the decisions, and behind an open gate each   *)
(* check's limit bounds what the judge misses on it; for any rubric and    *)
(* any number of samples, images and repeats.                              *)
(***************************************************************************)
EXTENDS Calibration, FiniteSetTheorems, TLAPS

-----------------------------------------------------------------------------
(* Judgements.                                                             *)

\* What was handed on is no verdict, the prefilter's, or the vote of the answers
\* that are still in the panel's hands.
Voted ==
  phase = "judged" =>
    \/ result = Unavailable
    \/ result = Judged([c \in {Prefilter} |-> FALSE], NoFix)
    \/ \E fix \in CombinedFixes : result = Judged(CombinedChecks, fix)

Counted == got \in [Verdicts -> Nat]

PanelInv == Voted /\ Counted

\* What the panel makes of its answers rests on them alone.
LEMMA VoteOfAnswers ==
  got' = got => CombinedChecks' = CombinedChecks /\ CombinedFixes' = CombinedFixes
<1> SUFFICES ASSUME got' = got
             PROVE  CombinedChecks' = CombinedChecks /\ CombinedFixes' = CombinedFixes
  OBVIOUS
<1>1. Responses' = Responses
  BY DEF Responses
<1>2. CombinedChecks' = CombinedChecks
  BY <1>1 DEF CombinedChecks, Remarked, Split, Votes
<1>3. CombinedFixes' = CombinedFixes
  BY <1>1 DEF CombinedFixes, Winner, Support, Validated, Average, TopSlots, SlotVotes,
              Stating, Proposing
<1>4. QED
  BY <1>2, <1>3

LEMMA PanelInitInv == Init => PanelInv
BY DEF Init, PanelInit, PanelInv, Voted, Counted, NoVerdicts

LEMMA PanelNext == PanelInv /\ [Next]_vars => PanelInv'
<1> SUFFICES ASSUME PanelInv, [Next]_vars PROVE PanelInv'
  OBVIOUS
<1>1. CASE Show
  <2>1. PICK prefiltered : Ask(prefiltered)
    BY <1>1 DEF Show
  <2>2. got' = NoVerdicts
    BY <2>1 DEF Ask
  <2>3. Counted'
    BY <2>2 DEF Counted, NoVerdicts
  <2>4. Voted'
    BY <2>1 DEF Ask, Voted
  <2>5. QED
    BY <2>3, <2>4 DEF PanelInv
<1>2. CASE Collect
  BY <1>2 DEF Collect, PanelInv, Voted, Counted, NoVerdicts
<1>3. CASE PanelStep
  <2>1. PICK k \in Attempts :
          \/ Overloaded(k) \/ Refused(k) \/ Invalid(k)
          \/ \E v \in Verdicts : Answered(k, v)
    BY <1>3 DEF PanelStep
  <2>2. CASE Unjudged
    BY <2>2 DEF Unjudged, PanelInv, Voted, Counted, NoVerdicts, Unavailable
  <2>3. CASE Overloaded(k) /\ ~Unjudged
    <3>1. UNCHANGED <<phase, got, result>> /\ phase = "asking"
      BY <2>3 DEF Overloaded, Open
    <3>2. QED
      BY <3>1 DEF PanelInv, Voted, Counted
  <2>4. CASE \E v \in Verdicts : Answered(k, v)
    <3>1. PICK v \in Verdicts : Answered(k, v)
      BY <2>4
    <3>2. got' = [got EXCEPT ![v] = @ + 1]
      BY <3>1 DEF Answered
    <3>3. Counted'
      BY <3>2 DEF PanelInv, Counted
    <3>4. Voted'
      <4>1. CASE \E fix \in CombinedFixes' : result' = Judged(CombinedChecks', fix)
        BY <4>1 DEF Voted, Judged
      <4>2. CASE UNCHANGED <<phase, result>>
        <5>1. phase' = "asking"
          BY <3>1, <4>2 DEF Answered, Open
        <5>2. QED
          BY <5>1 DEF Voted
      <4>3. QED
        BY <3>1, <4>1, <4>2 DEF Answered
    <3>5. QED
      BY <3>3, <3>4 DEF PanelInv
  <2>5. QED
    BY <2>1, <2>2, <2>3, <2>4 DEF Refused, Invalid
<1>4. CASE UNCHANGED vars
  <2>1. UNCHANGED <<phase, got, result>>
    BY <1>4 DEF vars, panel
  <2>2. QED
    BY <2>1, VoteOfAnswers DEF PanelInv, Voted, Counted
<1>5. QED
  BY <1>1, <1>2, <1>3, <1>4 DEF Next

LEMMA PanelHolds == Spec => []PanelInv
BY PanelInitInv, PanelNext, PTL DEF Spec


LEMMA ResponsesFinite == IsFiniteSet(Responses)
<1>1. IsFiniteSet(Verdicts) /\ IsFiniteSet(1 .. Samples)
  BY JudgeAssumption, FS_Interval
<1>2. IsFiniteSet(Verdicts \X (1 .. Samples))
  BY <1>1, FS_Product
<1>3. QED
  BY <1>2, FS_Subset DEF Responses

LEMMA VotesCount ==
  ASSUME NEW c, NEW b
  PROVE  /\ Votes(c, b) \in Nat
         /\ Votes(c, b) = 0 <=> \A r \in Responses : b \notin r[1].votes[c]
<1> DEFINE voting == {r \in Responses : b \in r[1].votes[c]}
<1>1. IsFiniteSet(voting)
  BY ResponsesFinite, FS_Subset
<1>2. /\ Cardinality(voting) \in Nat
      /\ Cardinality(voting) = 0 <=> voting = {}
  BY <1>1, FS_CardinalityType, FS_EmptySet
<1>3. QED
  BY <1>2 DEF Votes

\* An image passes only when all samples pass it, on every required check.
THEOREM PassesAreUnanimous == Spec => []PassedMeansUnanimous
<1>1. PanelInv => PassedMeansUnanimous
  <2> SUFFICES ASSUME PanelInv, phase = "judged", Passed(result),
                      NEW v \in Verdicts, got[v] > 0, NEW c \in Required
               PROVE  v.votes[c] = {TRUE}
    BY DEF PassedMeansUnanimous
  <2>1. result.available /\ \A d \in DOMAIN result.checks : result.checks[d]
    BY DEF Passed
  <2>2. result # Judged([d \in {Prefilter} |-> FALSE], NoFix)
    BY <2>1 DEF Judged
  <2>3. PICK fix \in CombinedFixes : result = Judged(CombinedChecks, fix)
    BY <2>1, <2>2 DEF PanelInv, Voted, Unavailable
  <2>4. result.checks = CombinedChecks
    BY <2>3 DEF Judged
  <2>5. \A d \in Required \cup Remarked :
          d # LowConfidence /\ Votes(d, TRUE) > Votes(d, FALSE)
    BY <2>1, <2>4 DEF CombinedChecks
  <2>6. ~Split(c)
    BY <2>5 DEF Remarked
  <2>7. Votes(c, FALSE) = 0
    <3>1. Votes(c, FALSE) \in Nat /\ Votes(c, TRUE) \in Nat
      BY VotesCount
    <3> DEFINE yes == Votes(c, TRUE)
               no == Votes(c, FALSE)
    <3>2. yes > no /\ ~(yes > 0 /\ no > 0)
      BY <2>5, <2>6, Zenon DEF Split
    <3> HIDE DEF yes, no
    <3>3. yes \in Nat /\ no \in Nat
      BY <3>1 DEF yes, no
    <3>4. no = 0
      BY <3>2, <3>3
    <3>5. QED
      BY <3>4 DEF no
  <2>8. <<v, 1>> \in Responses
    <3>1. 1 \in 1 .. Samples /\ 1 <= got[v]
      BY JudgeAssumption DEF PanelInv, Counted
    <3>2. QED
      BY <3>1 DEF Responses
  <2>9. FALSE \notin v.votes[c]
    <3>1. \A r \in Responses : FALSE \notin r[1].votes[c]
      BY <2>7, VotesCount
    <3>2. <<v, 1>>[1] = v
      OBVIOUS
    <3>3. QED
      BY <2>8, <3>1, <3>2
  <2>10. v.votes[c] \subseteq BOOLEAN /\ v.votes[c] # {}
    BY JudgeAssumption, Zenon
  <2>11. QED
    BY <2>9, <2>10
<1>2. QED
  BY <1>1, PanelHolds, PTL

\* What the clamp returns is between the bounds, whatever was proposed.
LEMMA ClampedWithin ==
  ASSUME NEW action \in DOMAIN Bounds, NEW avg
  PROVE  /\ Bounds[action].lo * Clamped(action, avg)[2] <= Clamped(action, avg)[1]
         /\ Clamped(action, avg)[1] <= Bounds[action].hi * Clamped(action, avg)[2]
<1> DEFINE b == Bounds[action]
<1>1. b.lo \in Int /\ b.hi \in Int /\ b.lo <= b.hi
  BY JudgeAssumption
<1>2. CASE b.lo * avg[2] <= avg[1] /\ avg[1] <= b.hi * avg[2]
  BY <1>2 DEF Clamped
<1>3. CASE ~(b.lo * avg[2] <= avg[1] /\ avg[1] <= b.hi * avg[2])
  <2>1. Clamped(action, avg) = <<IF avg[1] < b.lo * avg[2] THEN b.lo ELSE b.hi, 1>>
    BY <1>3 DEF Clamped
  <2>2. Clamped(action, avg)[1] \in {b.lo, b.hi} /\ Clamped(action, avg)[2] = 1
    BY <2>1
  <2>3. b.lo * 1 = b.lo /\ b.hi * 1 = b.hi
    BY <1>1
  <2>4. QED
    BY <1>1, <2>2, <2>3
<1>4. QED
  BY <1>2, <1>3

\* A fix has more samples behind it than any other action, and stays within the
\* bounds and the slots of the rubric.
THEOREM FixesAreKeptIn == Spec => []FixKeepsTheEnvelope
<1>1. PanelInv => FixKeepsTheEnvelope
  <2> DEFINE fix == result.fix
  <2> SUFFICES ASSUME PanelInv, phase = "judged", fix # NoFix
               PROVE  /\ \A a \in Actions \ {fix.action} : Support(a) < Support(fix.action)
                      /\ fix.action \in DOMAIN Bounds =>
                           /\ Bounds[fix.action].lo * fix.delta[2] <= fix.delta[1]
                           /\ fix.delta[1] <= Bounds[fix.action].hi * fix.delta[2]
                      /\ fix.action = "rewrite_slot" => fix.slot \in Allowed
    BY DEF FixKeepsTheEnvelope
  <2>1. fix \in CombinedFixes
    <3>1. result.fix # NoFix /\ phase = "judged" /\ Voted
      BY DEF PanelInv
    <3>2. PICK f \in CombinedFixes : result = Judged(CombinedChecks, f)
      BY <3>1 DEF Voted, Judged, Unavailable
    <3>3. QED
      BY <3>2 DEF Judged
  <2> HIDE DEF fix
  <2>2. PICK a \in Winner : fix \in Validated(a)
    BY <2>1 DEF CombinedFixes
  <2>3. \/ a = "reseed" /\ fix = [action |-> a]
        \/ /\ a \in {"adjust_steps", "adjust_strength"}
           /\ fix = [action |-> a, delta |-> Clamped(a, Average(a))]
        \/ /\ a = "rewrite_slot"
           /\ \E slot \in TopSlots : slot \in Allowed /\ fix = [action |-> a, slot |-> slot]
    BY <2>2 DEF Validated
  <2>4. fix.action = a
    BY <2>3
  <2>5. \A b \in Actions \ {a} : Support(b) < Support(a)
    BY DEF Winner
  <2>6. a \in DOMAIN Bounds =>
          /\ Bounds[a].lo * fix.delta[2] <= fix.delta[1]
          /\ fix.delta[1] <= Bounds[a].hi * fix.delta[2]
    <3> SUFFICES ASSUME a \in DOMAIN Bounds
                 PROVE  /\ Bounds[a].lo * fix.delta[2] <= fix.delta[1]
                        /\ fix.delta[1] <= Bounds[a].hi * fix.delta[2]
      OBVIOUS
    <3>1. a \in {"adjust_steps", "adjust_strength"}
      BY JudgeAssumption
    <3>2. fix.delta = Clamped(a, Average(a))
      BY <2>3, <3>1
    <3>3. QED
      BY <3>2, ClampedWithin
  <2>7. a = "rewrite_slot" => fix.slot \in Allowed
    BY <2>3
  <2>8. QED
    BY <2>4, <2>5, <2>6, <2>7
<1>2. QED
  BY <1>1, PanelHolds, PTL


-----------------------------------------------------------------------------
(* What the images' outcomes are.                                          *)

PrefilterRejects == [c \in {Prefilter} |-> FALSE]
Votings == [Required -> BOOLEAN] \cup [Required \cup {LowConfidence} -> BOOLEAN]
Outcomes ==
  {Unavailable} \cup {Judged(checks, NoFix) : checks \in Votings \cup {PrefilterRejects}}

\* The outcomes collected so far are verdicts of the panel, their fixes left out.
Collected == trials \in Seq(Seq(Outcomes))

LEMMA WithoutItsFix ==
  ASSUME NEW checks, NEW fix, NEW available, NEW other
  PROVE  [[checks |-> checks, fix |-> fix, available |-> available] EXCEPT !.fix = other]
           = [checks |-> checks, fix |-> other, available |-> available]
OBVIOUS

LEMMA ResultIsAnOutcome ==
  ASSUME Voted, phase = "judged"
  PROVE  [result EXCEPT !.fix = NoFix] \in Outcomes
<1>1. CASE result = Unavailable
  <2>1. [result EXCEPT !.fix = NoFix] = Unavailable
    BY <1>1, WithoutItsFix DEF Unavailable
  <2>2. QED
    BY <2>1 DEF Outcomes
<1>2. CASE result = Judged(PrefilterRejects, NoFix)
  <2>1. [result EXCEPT !.fix = NoFix] = Judged(PrefilterRejects, NoFix)
    BY <1>2, WithoutItsFix DEF Judged
  <2>2. QED
    BY <2>1 DEF Outcomes
<1>3. CASE \E fix \in CombinedFixes : result = Judged(CombinedChecks, fix)
  <2>1. PICK fix \in CombinedFixes : result = Judged(CombinedChecks, fix)
    BY <1>3
  <2>2. Remarked = {} \/ Remarked = {LowConfidence}
    BY DEF Remarked
  <2>3. Required \cup Remarked = Required \/ Required \cup Remarked = Required \cup {LowConfidence}
    BY <2>2
  <2>4. CombinedChecks \in [Required \cup Remarked -> BOOLEAN]
    BY DEF CombinedChecks
  <2>5. CombinedChecks \in Votings
    BY <2>3, <2>4 DEF Votings
  <2>6. [result EXCEPT !.fix = NoFix] = Judged(CombinedChecks, NoFix)
    <3> DEFINE made == [checks |-> CombinedChecks, fix |-> fix, available |-> TRUE]
    <3>1. result = made
      BY <2>1 DEF Judged
    <3>2. [made EXCEPT !.fix = NoFix]
            = [checks |-> CombinedChecks, fix |-> NoFix, available |-> TRUE]
      BY WithoutItsFix, Zenon
    <3>3. QED
      BY <3>1, <3>2, Zenon DEF Judged
  <2>7. QED
    BY <2>5, <2>6 DEF Outcomes
<1>4. QED
  BY <1>1, <1>2, <1>3 DEF Voted, PrefilterRejects

LEMMA CollectedHolds == Spec => []Collected
<1>1. Init => Collected
  BY DEF Init, Collected
<1>2. PanelInv /\ Collected /\ [Next]_vars => Collected'
  <2> SUFFICES ASSUME PanelInv, Collected, [Next]_vars PROVE Collected'
    OBVIOUS
  <2>1. CASE Collect
    <3> DEFINE outcome == [result EXCEPT !.fix = NoFix]
    <3>1. outcome \in Outcomes
      BY <2>1, ResultIsAnOutcome DEF Collect, PanelInv
    <3>2. trials' = IF Current = Len(trials) + 1
                    THEN Append(trials, <<outcome>>)
                    ELSE [trials EXCEPT ![Current] = Append(@, outcome)]
      BY <2>1 DEF Collect
    <3> HIDE DEF outcome
    <3>3. CASE Current = Len(trials) + 1
      <4>1. <<outcome>> \in Seq(Outcomes)
        BY <3>1
      <4>2. QED
        BY <3>2, <3>3, <4>1 DEF Collected
    <3>4. CASE Current # Len(trials) + 1
      <4>1. Current = Len(trials) /\ trials # <<>>
        BY <3>4 DEF Current
      <4>2. Current \in DOMAIN trials
        BY <4>1 DEF Collected
      <4>3. Append(trials[Current], outcome) \in Seq(Outcomes)
        BY <3>1, <4>2 DEF Collected
      <4>4. trials' = [trials EXCEPT ![Current] = Append(trials[Current], outcome)]
        BY <3>2, <3>4
      <4>5. QED
        BY <4>2, <4>3, <4>4 DEF Collected
    <3>5. QED
      BY <3>3, <3>4
  <2>2. CASE UNCHANGED trials
    BY <2>2 DEF Collected
  <2>3. QED
    BY <2>1, <2>2 DEF Next, Show, vars
<1>3. QED
  BY <1>1, <1>2, PanelHolds, PTL DEF Spec

\* A judged outcome has an opinion on every required check, or it is the
\* prefilter's, which rejects.
LEMMA OutcomesOfImages ==
  ASSUME Collected
  PROVE  /\ IsFiniteSet(DOMAIN trials)
         /\ \A i \in DOMAIN trials :
              /\ IsFiniteSet(Valid(i))
              /\ \A n \in Valid(i) :
                   \/ Required \subseteq DOMAIN trials[i][n].checks
                   \/ /\ DOMAIN trials[i][n].checks = {Prefilter}
                      /\ ~trials[i][n].checks[Prefilter]
<1>1. IsFiniteSet(DOMAIN trials)
  BY FS_Interval DEF Collected
<1>2. ASSUME NEW i \in DOMAIN trials
      PROVE  /\ IsFiniteSet(Valid(i))
             /\ \A n \in Valid(i) : trials[i][n] \in Outcomes /\ trials[i][n].available
  <2>1. trials[i] \in Seq(Outcomes)
    BY DEF Collected
  <2>2. IsFiniteSet(DOMAIN trials[i])
    BY <2>1, FS_Interval
  <2>3. Valid(i) \subseteq DOMAIN trials[i]
    BY DEF Valid
  <2>4. IsFiniteSet(Valid(i))
    BY <2>2, <2>3, FS_Subset
  <2>5. QED
    BY <2>1, <2>4 DEF Valid
<1>3. ASSUME NEW o \in Outcomes, o.available
      PROVE  \/ Required \subseteq DOMAIN o.checks
             \/ DOMAIN o.checks = {Prefilter} /\ ~o.checks[Prefilter]
  <2>1. PICK checks \in Votings \cup {PrefilterRejects} : o = Judged(checks, NoFix)
    BY <1>3 DEF Outcomes, Unavailable
  <2>2. o.checks = checks
    BY <2>1 DEF Judged
  <2>3. QED
    BY <2>2 DEF Votings, PrefilterRejects
<1>4. QED
  BY <1>1, <1>2, <1>3


-----------------------------------------------------------------------------
(* The sweep and the decisions.                                            *)

\* The votes on a check are votes of valid outcomes.
LEMMA VotesAreFew ==
  ASSUME Collected, NEW i \in DOMAIN trials, NEW c
  PROVE  /\ HavingCheck(i, c) \subseteq Valid(i)
         /\ IsFiniteSet(HavingCheck(i, c))
         /\ Cardinality(HavingCheck(i, c)) \in Nat
         /\ Cardinality(HavingCheck(i, c)) <= Cardinality(Valid(i))
         /\ Cardinality(Valid(i)) \in Nat
<1>1. HavingCheck(i, c) \subseteq Valid(i)
  BY DEF HavingCheck
<1>2. IsFiniteSet(Valid(i))
  BY OutcomesOfImages
<1>3. IsFiniteSet(HavingCheck(i, c)) /\ Cardinality(HavingCheck(i, c)) <= Cardinality(Valid(i))
  BY <1>1, <1>2, FS_Subset
<1>4. QED
  BY <1>1, <1>2, <1>3, FS_CardinalityType

\* A failed required check fails in more than half of all the valid outcomes:
\* those without an opinion on it reject as well.
LEMMA FailedCheckDecides ==
  ASSUME Collected, NEW i \in DOMAIN trials, NEW c \in Known(i), ~CheckMajority(i, c)
  PROVE  Valid(i) # {} /\ Decision(i)
<1> DEFINE having == HavingCheck(i, c)
           passes == {n \in having : trials[i][n].checks[c]}
           rejects == {n \in Valid(i) : ~Passed(trials[i][n])}
<1>1. /\ having \subseteq Valid(i) /\ having # {} /\ IsFiniteSet(having)
      /\ Cardinality(having) \in Nat /\ Cardinality(Valid(i)) \in Nat
      /\ Cardinality(having) <= Cardinality(Valid(i))
  BY VotesAreFew DEF Known
<1>2. IsFiniteSet(Valid(i))
  BY OutcomesOfImages
<1>3. Valid(i) \ passes \subseteq rejects
  <2> SUFFICES ASSUME NEW n \in Valid(i), n \notin passes PROVE ~Passed(trials[i][n])
    OBVIOUS
  <2>1. CASE n \in having
    BY <2>1 DEF HavingCheck, Passed
  <2>2. CASE n \notin having
    <3>1. c \notin DOMAIN trials[i][n].checks /\ c \in Required
      BY <2>2 DEF HavingCheck, Known
    <3>2. /\ DOMAIN trials[i][n].checks = {Prefilter}
          /\ ~trials[i][n].checks[Prefilter]
      BY <3>1, OutcomesOfImages
    <3>3. QED
      BY <3>2 DEF Passed
  <2>3. QED
    BY <2>1, <2>2
<1>4. passes \subseteq Valid(i) /\ IsFiniteSet(passes)
  BY <1>1, FS_Subset
<1>5. IsFiniteSet(rejects)
  BY <1>2, FS_Subset
<1>6. ~ (2 * Cardinality(passes) >= Cardinality(having))
  BY DEF CheckMajority, Majority
<1>7. Valid(i) \cap passes = passes
  BY <1>4
<1>8. Cardinality(Valid(i) \ passes) = Cardinality(Valid(i)) - Cardinality(passes)
  BY <1>2, <1>7, FS_Difference
<1>9. Cardinality(Valid(i) \ passes) <= Cardinality(rejects)
  BY <1>3, <1>5, FS_Subset
<1>10. Cardinality(passes) \in Nat /\ Cardinality(rejects) \in Nat
  BY <1>4, <1>5, FS_CardinalityType
<1> HIDE DEF having, passes, rejects
<1>11. 2 * Cardinality(rejects) >= Cardinality(Valid(i))
  BY <1>1, <1>6, <1>8, <1>9, <1>10
<1>12. Decision(i)
  BY <1>11 DEF Decision, Majority, rejects
<1>13. QED
  BY <1>1, <1>12

\* The sweep's first row rejects the images with a failed check.
LEMMA FirstRowRejects ==
  ASSUME NEW i
  PROVE  /\ FailedChecks(i) \in Nat
         /\ FailedChecks(i) >= 1 <=> \E c \in Known(i) : ~CheckMajority(i, c)
<1> DEFINE failed == {c \in Known(i) : ~CheckMajority(i, c)}
<1>1. IsFiniteSet(failed)
  BY JudgeAssumption, FS_Subset DEF Known
<1>2. Cardinality(failed) \in Nat /\ (Cardinality(failed) = 0 <=> failed = {})
  BY <1>1, FS_CardinalityType, FS_EmptySet
<1>3. FailedChecks(i) = Cardinality(failed)
  BY DEF FailedChecks
<1>4. FailedChecks(i) >= 1 <=> failed # {}
  BY <1>2, <1>3
<1>5. QED
  BY <1>2, <1>3, <1>4

\* The rejections of a table are its true and false positives.
LEMMA RejectionsOfTable ==
  ASSUME NEW images, NEW rejected, IsFiniteSet(images), rejected \subseteq images
  PROVE  Confusion(images, rejected).tp + Confusion(images, rejected).fp
           = Cardinality(rejected)
<1> DEFINE wrong == {i \in images : labels[i].reject}
           table == Confusion(images, rejected)
<1>1. IsFiniteSet(rejected)
  BY FS_Subset
<1>2. table.tp = Cardinality(wrong \cap rejected) /\ table.fp = Cardinality(rejected \ wrong)
  BY DEF Confusion
<1>3. wrong \cap rejected = rejected \cap wrong
  OBVIOUS
<1>4. Cardinality(rejected \ wrong) = Cardinality(rejected) - Cardinality(rejected \cap wrong)
  BY <1>1, FS_Difference
<1>5. Cardinality(rejected) \in Nat /\ Cardinality(rejected \cap wrong) \in Nat
  BY <1>1, FS_Intersection, FS_CardinalityType
<1> DEFINE all == Cardinality(rejected)
           both == Cardinality(rejected \cap wrong)
<1>6. table.tp = both /\ table.fp = all - both
  BY <1>2, <1>3, <1>4, Zenon
<1>7. all \in Nat /\ both \in Nat
  BY <1>5
<1> HIDE DEF all, both
<1>8. both + (all - both) = all
  BY <1>7
<1>9. table.tp + table.fp = all
  BY <1>6, <1>8
<1>10. QED
  BY <1>9 DEF table, all

\* The sweep's first row never rejects an image that the judge's own decision
\* accepts.
THEOREM FirstRowIsLenient == Spec => []SweepIsNoStricter
<1>1. Collected => SweepIsNoStricter
  <2> SUFFICES ASSUME Collected
               PROVE  SweepRow(1).tp + SweepRow(1).fp <= DecisionTable.tp + DecisionTable.fp
    BY DEF SweepIsNoStricter
  <2> DEFINE swept == {i \in SweptImages : FailedChecks(i) >= 1}
             decided == {i \in DecidedImages : Decision(i)}
  <2>1. swept \subseteq decided
    <3> SUFFICES ASSUME NEW i \in SweptImages, FailedChecks(i) >= 1
                 PROVE  i \in DecidedImages /\ Decision(i)
      OBVIOUS
    <3>1. i \in DOMAIN trials
      BY DEF SweptImages
    <3>2. PICK c \in Known(i) : ~CheckMajority(i, c)
      BY FirstRowRejects
    <3>3. Valid(i) # {} /\ Decision(i)
      BY <3>1, <3>2, FailedCheckDecides
    <3>4. QED
      BY <3>1, <3>3 DEF DecidedImages
  <2>2. /\ IsFiniteSet(SweptImages) /\ IsFiniteSet(DecidedImages) /\ IsFiniteSet(decided)
    <3>1. IsFiniteSet(DOMAIN trials)
      BY OutcomesOfImages
    <3>2. IsFiniteSet(SweptImages) /\ IsFiniteSet(DecidedImages)
      BY <3>1, FS_Subset DEF SweptImages, DecidedImages
    <3>3. QED
      BY <3>2, FS_Subset
  <2>3. Cardinality(swept) <= Cardinality(decided)
    BY <2>1, <2>2, FS_Subset
  <2>4. swept \subseteq SweptImages /\ decided \subseteq DecidedImages
    OBVIOUS
  <2>5. SweepRow(1) = Confusion(SweptImages, swept)
        /\ DecisionTable = Confusion(DecidedImages, decided)
    BY DEF SweepRow, DecisionTable
  <2> HIDE DEF swept, decided
  <2>6. /\ SweepRow(1).tp + SweepRow(1).fp = Cardinality(swept)
        /\ DecisionTable.tp + DecisionTable.fp = Cardinality(decided)
    BY <2>2, <2>4, <2>5, RejectionsOfTable
  <2>7. QED
    BY <2>3, <2>6
<1>2. QED
  BY <1>1, CollectedHolds, PTL


-----------------------------------------------------------------------------
(* The gate.                                                               *)

\* An image that its human rejects for a check, and the judge accepts, passed
\* that check in the judge's eyes: the check is compared on it, and is wrong.
LEMMA MissedIsAnError ==
  ASSUME Collected, NEW c \in Required, NEW i \in MissedOn(c)
  PROVE  i \in Compared(c) \ Agreed(c)
<1>1. /\ i \in DOMAIN trials /\ Valid(i) # {} /\ ~Decision(i)
      /\ labels[i].reject /\ c \in labels[i].violated
  BY DEF MissedOn, DecidedImages
<1>2. PICK n \in Valid(i) : Passed(trials[i][n])
  <2> SUFFICES ASSUME \A n \in Valid(i) : ~Passed(trials[i][n])
               PROVE  Decision(i)
    BY <1>1
  <2>1. {n \in Valid(i) : ~Passed(trials[i][n])} = Valid(i)
    OBVIOUS
  <2>2. Cardinality(Valid(i)) \in Nat
    BY <1>1, OutcomesOfImages, FS_CardinalityType
  <2>3. 2 * Cardinality(Valid(i)) >= Cardinality(Valid(i))
    BY <2>2
  <2>4. QED
    BY <2>1, <2>3 DEF Decision, Majority
<1>3. n \in HavingCheck(i, c)
  <2>1. ~ (/\ DOMAIN trials[i][n].checks = {Prefilter}
           /\ ~trials[i][n].checks[Prefilter])
    BY <1>2 DEF Passed
  <2>2. Required \subseteq DOMAIN trials[i][n].checks
    BY <1>1, <2>1, OutcomesOfImages
  <2>3. QED
    BY <2>2 DEF HavingCheck
<1>4. CheckMajority(i, c)
  <2>1. c \in Known(i)
    BY <1>3 DEF Known
  <2>2. QED
    BY <1>1, <2>1, FailedCheckDecides
<1>5. ~Expected(i, c) /\ ExpectedOf(i)
  BY <1>1 DEF Expected, ExpectedOf
<1>6. QED
  BY <1>1, <1>3, <1>4, <1>5 DEF Compared, Agreed

\* Behind an open gate no check errs on more of its images than its limit.
LEMMA ChecksErrSeldom ==
  ASSUME Collected, NEW c \in Required, AgreesOn(c)
  PROVE  100 * Cardinality(Compared(c) \ Agreed(c))
           <= (100 - MinCheckAgreement) * Cardinality(Compared(c))
<1>1. IsFiniteSet(Compared(c))
  <2>1. IsFiniteSet(DOMAIN trials)
    BY OutcomesOfImages
  <2>2. QED
    BY <2>1, FS_Subset DEF Compared
<1>2. Agreed(c) \subseteq Compared(c)
  BY DEF Agreed
<1>3. IsFiniteSet(Agreed(c)) /\ Compared(c) \cap Agreed(c) = Agreed(c)
  BY <1>1, <1>2, FS_Subset
<1>4. Cardinality(Compared(c) \ Agreed(c)) = Cardinality(Compared(c)) - Cardinality(Agreed(c))
  BY <1>1, <1>3, FS_Difference
<1> DEFINE compared == Cardinality(Compared(c))
           agreed == Cardinality(Agreed(c))
           errors == Cardinality(Compared(c) \ Agreed(c))
<1>5. compared \in Nat /\ agreed \in Nat
  BY <1>1, <1>3, FS_CardinalityType
<1>6. 100 * agreed >= MinCheckAgreement * compared
  BY DEF AgreesOn
<1>7. errors = compared - agreed
  BY <1>4
<1> HIDE DEF compared, agreed, errors
<1>8. MinCheckAgreement \in 0 .. 100
  BY CalibrationAssumption
<1>9. (100 - MinCheckAgreement) * compared = 100 * compared - MinCheckAgreement * compared
  BY <1>5, <1>8
<1>10. MinCheckAgreement * compared \in Int
  BY <1>5, <1>8
<1>11. 100 * errors <= (100 - MinCheckAgreement) * compared
  BY <1>5, <1>6, <1>7, <1>9, <1>10
<1>12. QED
  BY <1>11 DEF compared, errors

\* Behind an open gate the limit on a check's errors bounds the images that the
\* judge accepts although their human rejects them for that check.
THEOREM MissesAreBounded == Spec => []OpenGateBoundsMisses
<1>1. Collected => OpenGateBoundsMisses
  <2> SUFFICES ASSUME Collected, GateOpens(TRUE), NEW c \in Required
               PROVE  100 * Cardinality(MissedOn(c))
                        <= (100 - MinCheckAgreement) * Cardinality(Compared(c))
    BY DEF OpenGateBoundsMisses
  <2>1. AgreesOn(c)
    BY DEF GateOpens, ChecksAgree
  <2>2. MissedOn(c) \subseteq Compared(c) \ Agreed(c)
    BY MissedIsAnError
  <2>3. IsFiniteSet(Compared(c))
    BY OutcomesOfImages, FS_Subset DEF Compared
  <2>4. IsFiniteSet(Compared(c) \ Agreed(c))
    BY <2>3, FS_Subset
  <2>5. /\ Cardinality(MissedOn(c)) <= Cardinality(Compared(c) \ Agreed(c))
        /\ IsFiniteSet(MissedOn(c))
    BY <2>2, <2>4, FS_Subset
  <2> DEFINE missed == Cardinality(MissedOn(c))
             errors == Cardinality(Compared(c) \ Agreed(c))
             bound == (100 - MinCheckAgreement) * Cardinality(Compared(c))
  <2>6. missed <= errors /\ missed \in Nat /\ errors \in Nat
    BY <2>4, <2>5, FS_CardinalityType
  <2>7. 100 * errors <= bound
    BY <2>1, ChecksErrSeldom
  <2>8. bound \in Int
    BY <2>3, FS_CardinalityType, CalibrationAssumption
  <2> HIDE DEF missed, errors, bound
  <2>9. 100 * missed <= bound
    BY <2>6, <2>7, <2>8
  <2>10. QED
    BY <2>9 DEF missed, bound
<1>2. QED
  BY <1>1, CollectedHolds, PTL
=============================================================================
