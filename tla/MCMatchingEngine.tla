-------------------------- MODULE MCMatchingEngine --------------------------
(* MatchingEngine for TLC: users are interchangeable. *)
EXTENDS MatchingEngine, TLC

UserSymmetry == Permutations(Users)
=============================================================================
