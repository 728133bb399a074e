-------------------------- MODULE MCCandidateStore --------------------------
(***************************************************************************)
(* CandidateStore with two processes and one row of candidate_actions.     *)
(***************************************************************************)
EXTENDS CandidateStore, TLC

CONSTANTS a1, a2, r1

MCActors == {a1, a2}
MCRows == {r1}
Symmetry == Permutations(MCActors)
=============================================================================
