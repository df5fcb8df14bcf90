--------------------------- MODULE MCNameBinding ---------------------------
(* Model-checking instance of NameBinding: names and types are interchangeable. *)
EXTENDS NameBinding

Symmetry == Permutations(Names) \cup Permutations(Types)
=============================================================================
