--------------------------- MODULE MCMemoryStore ---------------------------
(* Bounds for model-checking MemoryStore. *)
EXTENDS MemoryStore

=============================================================================
