------------------------- MODULE MCPluginLifecycle -------------------------
(* Instances of PluginLifecycle for TLC. *)
EXTENDS PluginLifecycle, TLC

CONSTANTS p, q, s, t, u, v

NoDeps == [x \in Plugins |-> {}]

(* q depends on u. *)
QOnU == [x \in Plugins |-> IF x = q THEN {u} ELSE {}]

(* t can only authenticate through s. *)
TOnS == [x \in Plugins |-> IF x = t THEN {s} ELSE {}]

HandleSymmetry == Permutations(Handles)
=============================================================================
