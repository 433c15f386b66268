------------------------ MODULE MCTelemetryConsumer ------------------------
(* Instances of TelemetryConsumer for TLC.                                 *)
EXTENDS TelemetryConsumer, TLC

DatabaseFaults == AllFaults \ {"connection"}
LinkFaults     == {"connection", "crash", "sigterm"}
InsertFault    == {"insert"}

MessageSymmetry == Permutations(Messages)
=============================================================================
