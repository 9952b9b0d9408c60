----------------------------- MODULE JudgePanel -----------------------------
(***************************************************************************)
(* One judgement of ClaudeJudge (adapters/claude_judge.py): the calls that *)
(* sample the model side by side, their retries, the vote over the rubric's*)
(* required checks, and the envelope a proposed fix is kept in.            *)
(*                                                                         *)
(* The calls are alike: what is kept is how many are at which attempt and  *)
(* how often each verdict came back.  Optional checks, evidence and        *)
(* critique are text for a reader and are left out.                        *)
(***************************************************************************)
EXTENDS Integers, FiniteSets, FiniteSetsExt

CONSTANTS
  Required,  \* the rubric's required checks
  Verdicts,  \* what a valid response may say
  Samples,   \* self_consistency_n
  MaxRetries,\* max_retry_attempts
  Bounds,    \* fix_bounds, as far as the rubric states them
  Allowed    \* slot_allowlist

ASSUME JudgeAssumption ==
  /\ IsFiniteSet(Required) /\ IsFiniteSet(Verdicts)
  /\ Samples \in Nat \ {0} /\ MaxRetries \in Nat
  \* A valid response answers every required check.
  /\ \A v \in Verdicts, c \in Required : v.votes[c] # {} /\ v.votes[c] \subseteq BOOLEAN
  /\ DOMAIN Bounds \subseteq {"adjust_steps", "adjust_strength"}
  /\ \A a \in DOMAIN Bounds :
       Bounds[a].lo \in Int /\ Bounds[a].hi \in Int /\ Bounds[a].lo <= Bounds[a].hi

VARIABLES
  phase,   \* of the judgement
  calls,   \* how many calls are at each attempt
  got,     \* how often each verdict has come back
  result,  \* what judge() returned or raised
  \* history
  unpaid   \* has a response been billed that the CostTracker does not know?

panel == <<phase, calls, got, result, unpaid>>

-----------------------------------------------------------------------------
(* The vote                                                                *)

Attempts == 1 .. MaxRetries + 1
NoneAt == [k \in Attempts |-> 0]
NoVerdicts == [v \in Verdicts |-> 0]

LowConfidence == "_low_confidence"
Prefilter == "prefilter"

NoFix == [action |-> "none"]
Unavailable == [checks |-> <<>>, fix |-> NoFix, available |-> FALSE]
Judged(checks, fix) == [checks |-> checks, fix |-> fix, available |-> TRUE]
Passed(r) == r.available /\ \A c \in DOMAIN r.checks : r.checks[c]

\* The valid responses, with a number to tell those that say the same apart.
Responses == {r \in Verdicts \X (1 .. Samples) : r[2] <= got[r[1]]}

\* A response may list a check twice and contradict itself: votes[c] has both.
Votes(c, b) == Cardinality({r \in Responses : b \in r[1].votes[c]})
Split(c) == Votes(c, TRUE) > 0 /\ Votes(c, FALSE) > 0

\* Mutation: the majority decides, and a split is not remarked on.
Unremarked == {}
Remarked == IF \E c \in Required : Split(c) THEN {LowConfidence} ELSE {}

CombinedChecks ==
  [c \in Required \cup Remarked |->
     c # LowConfidence /\ Votes(c, TRUE) > Votes(c, FALSE)]

-----------------------------------------------------------------------------
(* The fix                                                                 *)

Actions == {"none", "reseed", "adjust_steps", "adjust_strength", "rewrite_slot"}
Proposing(action) == {r \in Responses : r[1].fix.action = action}
Support(action) == Cardinality(Proposing(action))

\* A proposal states at most one value: a delta or a slot.
Stating(action) == {r \in Proposing(action) : r[1].fix.value # {}}
Value(r) == CHOOSE x \in r[1].fix.value : TRUE

\* A tie of actions fixes nothing.
Winner == {a \in Actions : \A b \in Actions \ {a} : Support(b) < Support(a)}

\* The average delta, as a fraction.
Average(action) == <<MapThenSumSet(Value, Stating(action)), Cardinality(Stating(action))>>

\* Mutation: as proposed.
Unclamped(action, avg) == avg
Clamped(action, avg) ==
  IF action \notin DOMAIN Bounds THEN avg
  ELSE LET b == Bounds[action] IN
       IF b.lo * avg[2] <= avg[1] /\ avg[1] <= b.hi * avg[2] THEN avg
       ELSE <<IF avg[1] < b.lo * avg[2] THEN b.lo ELSE b.hi, 1>>

SlotVotes(slot) ==
  Cardinality({r \in Stating("rewrite_slot") : Value(r) = slot})

\* most_common takes the first sample's slot of those that tie.
TopSlots ==
  LET slots == {Value(r) : r \in Stating("rewrite_slot")} IN
  {s \in slots : \A t \in slots : SlotVotes(t) <= SlotVotes(s)}

\* _combine_fix and _validate_and_clamp: what an agreed action becomes.
Validated(action) ==
  LET stated == Stating(action) # {}
  IN CASE action = "reseed" -> {[action |-> action]}
       [] action \in {"adjust_steps", "adjust_strength"} /\ stated ->
            {[action |-> action, delta |-> Clamped(action, Average(action))]}
       [] action = "rewrite_slot" /\ stated ->
            {IF slot \in Allowed THEN [action |-> action, slot |-> slot] ELSE NoFix :
               slot \in TopSlots}
       [] OTHER -> {NoFix}

CombinedFixes == IF Winner = {} THEN {NoFix} ELSE UNION {Validated(a) : a \in Winner}

-----------------------------------------------------------------------------
(* The calls                                                               *)

PanelTypeOK ==
  /\ phase \in {"idle", "asking", "judged"}
  /\ calls \in [Attempts -> 0 .. Samples]
  /\ got \in [Verdicts -> 0 .. Samples]
  /\ result.available \in BOOLEAN /\ unpaid \in BOOLEAN

PanelInit ==
  /\ phase = "idle" /\ calls = NoneAt /\ got = NoVerdicts
  /\ result = Unavailable /\ unpaid = FALSE

\* judge(): an image the prefilter rejects is not shown to the model.
Ask(prefiltered) ==
  /\ phase = "idle"
  /\ got' = NoVerdicts
  /\ IF prefiltered
     THEN /\ phase' = "judged" /\ calls' = NoneAt
          /\ result' = Judged([c \in {Prefilter} |-> FALSE], NoFix)
     ELSE /\ phase' = "asking" /\ calls' = [NoneAt EXCEPT ![1] = Samples]
          /\ UNCHANGED result
  /\ UNCHANGED unpaid

Open(k) == phase = "asking" /\ calls[k] > 0

\* gather raises the first exception; the calls beside it go on, and nobody
\* reads what they return.
Unjudged ==
  /\ phase' = "judged" /\ calls' = NoneAt /\ got' = NoVerdicts
  /\ result' = Unavailable

\* 429, 529 or another 5xx.
Overloaded(k) ==
  /\ Open(k)
  /\ IF k > MaxRetries THEN Unjudged
     ELSE /\ calls' = [j \in Attempts |->
                        calls[j] + (IF j = k + 1 THEN 1 ELSE 0)
                                 - (IF j = k THEN 1 ELSE 0)]
          /\ UNCHANGED <<phase, got, result>>
  /\ UNCHANGED unpaid

\* No connection, or any other status.
Refused(k) == Open(k) /\ Unjudged /\ UNCHANGED unpaid

\* A refusal, a truncated or unparseable answer, a required check left out or
\* without evidence: the answer was billed, and raises before it is recorded.
Invalid(k) == Open(k) /\ Unjudged /\ unpaid' = TRUE

\* CostTracker.record, then the vote when all have answered.
Answered(k, v) ==
  /\ Open(k)
  /\ got' = [got EXCEPT ![v] = @ + 1]
  /\ calls' = [calls EXCEPT ![k] = @ - 1]
  /\ IF calls' = NoneAt
     THEN /\ phase' = "judged"
          /\ \E fix \in CombinedFixes' : result' = Judged(CombinedChecks', fix)
     ELSE UNCHANGED <<phase, result>>
  /\ UNCHANGED unpaid

PanelStep ==
  \E k \in Attempts :
    \/ Overloaded(k) \/ Refused(k) \/ Invalid(k)
    \/ \E v \in Verdicts : Answered(k, v)

-----------------------------------------------------------------------------
(* Properties                                                              *)

\* An image passes only when every sample passes it on every required check: a
\* judge that disagrees with itself, or one answer with itself, is not
\* outvoted.
PassedMeansUnanimous ==
  phase = "judged" /\ Passed(result) =>
    \A v \in Verdicts : got[v] > 0 => \A c \in Required : v.votes[c] = {TRUE}

\* Whatever the samples propose, the fix that comes out has more samples behind
\* it than any other action, and stays within the rubric's bounds and slots.
FixKeepsTheEnvelope ==
  LET fix == result.fix
  IN phase = "judged" /\ fix # NoFix =>
       /\ \A a \in Actions \ {fix.action} : Support(a) < Support(fix.action)
       /\ fix.action \in DOMAIN Bounds =>
            /\ Bounds[fix.action].lo * fix.delta[2] <= fix.delta[1]
            /\ fix.delta[1] <= Bounds[fix.action].hi * fix.delta[2]
       /\ fix.action = "rewrite_slot" => fix.slot \in Allowed

\* "We just make sure the number is always right" (claude_judge.py:160).
EveryResponseIsRecorded == ~unpaid
=============================================================================
