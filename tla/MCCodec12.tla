----------------------------- MODULE MCCodec12 -----------------------------
(* Instances of Codec12 for TLC.                                           *)
EXTENDS Codec12
AllFaults == {"redis", "parser", "backend", "writer"}
=============================================================================
