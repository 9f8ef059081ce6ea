-------------------------- MODULE MCAccountService --------------------------
(***************************************************************************)
(* AccountResponses for TLC: symmetric sets of model values.               *)
(***************************************************************************)
EXTENDS AccountResponses, TLC

SymmetryOfCalls == Permutations(Call) \cup Permutations(AccountId)

Symmetry == SymmetryOfCalls \cup Permutations(Name)
=============================================================================
