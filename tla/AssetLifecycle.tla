--------------------------- MODULE AssetLifecycle ---------------------------
(***************************************************************************)
(* What the batch controller promises about its assets, without store,     *)
(* workers, ComfyUI or restarts: at most `Concurrency' assets are in hand  *)
(* at once, over kills too; an asset is taken in hand at most `MaxTries'   *)
(* times; and once finished it stays finished, unless an operator asks for *)
(* it again.  BatchRunner implements this.                                 *)
(***************************************************************************)
EXTENDS Naturals, FiniteSets

CONSTANTS Assets, Concurrency, MaxTries

VARIABLES
  phase,  \* of each asset: absent, waiting, working or finished
  tries   \* how often it was taken in hand since it entered or was reopened

vars == <<phase, tries>>

InHand == {a \in Assets : phase[a] = "working"}

Init ==
  /\ phase = [a \in Assets |-> "absent"]
  /\ tries = [a \in Assets |-> 0]

Move(a, from, to) ==
  /\ phase[a] = from
  /\ phase' = [phase EXCEPT ![a] = to]

\* A manifest brings new assets; those already known are left alone.
Enter(manifest) ==
  /\ phase' = [a \in Assets |->
                 IF a \in manifest /\ phase[a] = "absent" THEN "waiting" ELSE phase[a]]
  /\ UNCHANGED tries

Start(a) ==
  /\ Move(a, "waiting", "working")
  /\ Cardinality(InHand) < Concurrency
  /\ tries[a] < MaxTries
  /\ tries' = [tries EXCEPT ![a] = @ + 1]

GiveBack(a) ==
  /\ Move(a, "working", "waiting")
  /\ tries[a] < MaxTries
  /\ UNCHANGED tries

Finish(a) ==
  /\ Move(a, "working", "finished")
  /\ UNCHANGED tries

Reopen(a) ==
  /\ phase[a] # "absent"
  /\ phase' = [phase EXCEPT ![a] = "waiting"]
  /\ tries' = [tries EXCEPT ![a] = 0]

Next ==
  \/ \E manifest \in SUBSET Assets : Enter(manifest)
  \/ \E a \in Assets : Start(a) \/ GiveBack(a) \/ Finish(a) \/ Reopen(a)

Spec == Init /\ [][Next]_vars

\* An asset in hand is put down again, and one that waits is not passed over
\* for ever.
Fairness ==
  \A a \in Assets :
    /\ WF_vars(GiveBack(a) \/ Finish(a))
    /\ SF_vars(Start(a))

FairSpec == Spec /\ Fairness
=============================================================================
