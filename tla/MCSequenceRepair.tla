-------------------------- MODULE MCSequenceRepair --------------------------
(* Instances of SequenceRepair for TLC.                                    *)
EXTENDS SequenceRepair

MCQcMaxRetries == [single |-> 3, sequence |-> 2]
=============================================================================
