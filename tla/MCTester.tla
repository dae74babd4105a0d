------------------------------ MODULE MCTester ------------------------------
(* Instances of Tester for model checking. *)
EXTENDS Tester, TLC

Symmetry == Permutations(Thread) \cup Permutations(Id)
=============================================================================
