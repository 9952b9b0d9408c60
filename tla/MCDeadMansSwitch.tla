-------------------------- MODULE MCDeadMansSwitch --------------------------
(* Instances of DeadMansSwitch for TLC.                                    *)
EXTENDS DeadMansSwitch
=============================================================================
