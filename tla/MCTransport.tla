---------------------------- MODULE MCTransport ----------------------------
(* Bounds for model-checking Transport. *)
EXTENDS Transport, TLC

=============================================================================
