---------------------------- MODULE MCControlStack ----------------------------
(* Model checking of ControlStack. *)
EXTENDS ControlStack, TLC

(* The tags of the program's catches are interchangeable. *)
TagSymmetry == Permutations(Tags)

=============================================================================
