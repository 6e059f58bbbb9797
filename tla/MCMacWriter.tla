---------------------------- MODULE MCMacWriter ----------------------------
(* The instance of MacWriter for TLC. *)
EXTENDS MacWriter

(* The client of this run is the one MacWriterProofs speaks of. *)
ASSUME MCDisciplined == Disciplined

AllOps == {"set_flush", "flush", "reset"}
=============================================================================
