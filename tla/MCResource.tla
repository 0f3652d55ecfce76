----------------------------- MODULE MCResource -----------------------------
(* Instances of Resource for TLC: resources and contents are interchangeable.*)
EXTENDS Resource, TLC

Symmetric == Permutations(Names) \cup Permutations(Contents)
=============================================================================
