------------------------------ MODULE MCWebEdit ------------------------------
(* Small instances of WebEdit. *)
EXTENDS WebEdit, TLC
CONSTANT v1
OneRow == {[p \in Props |-> v1]}
\* Users, properties and the values that no item is created with are alike.
Symmetry == Permutations(Users) \cup Permutations(Props) \cup Permutations(Values \ {v1})
=============================================================================
