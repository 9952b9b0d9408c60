--------------------------- MODULE MCComfyClient ---------------------------
(* Instances of ComfyClient for TLC.                                       *)
EXTENDS ComfyClient
=============================================================================
