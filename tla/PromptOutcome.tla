--------------------------- MODULE PromptOutcome ---------------------------
(***************************************************************************)
(* What a ComfyUI client promises: a prompt meets one fate on the server,  *)
(* and who awaits it is told that fate, once, or that it is not known.     *)
(***************************************************************************)
CONSTANT Prompts

VARIABLES
  fate,  \* what became of the prompt's execution
  told   \* what its submitter was told of it

vars == <<fate, told>>

Fates == {"ok", "failed"}

Init ==
  /\ fate = [p \in Prompts |-> "none"]
  /\ told = [p \in Prompts |-> "none"]

Execute(p) ==
  /\ fate[p] = "none"
  /\ \E f \in Fates : fate' = [fate EXCEPT ![p] = f]
  /\ UNCHANGED told

Tell(p) ==
  /\ told[p] = "none"
  /\ fate[p] \in Fates
  /\ told' = [told EXCEPT ![p] = fate[p]]
  /\ UNCHANGED fate

\* A timeout, a server that does not answer, a cancelled caller.
GiveUp(p) ==
  /\ told[p] = "none"
  /\ told' = [told EXCEPT ![p] = "unknown"]
  /\ UNCHANGED fate

Next == \E p \in Prompts : Execute(p) \/ Tell(p) \/ GiveUp(p)

Spec == Init /\ [][Next]_vars
=============================================================================
