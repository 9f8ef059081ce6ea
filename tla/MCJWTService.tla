---------------------------- MODULE MCJWTService ----------------------------
(***************************************************************************)
(* JWTService for TLC: symmetric sets of model values.                     *)
(***************************************************************************)
EXTENDS JWTService, TLC

Symmetry == Permutations(TokenCall) \cup Permutations(AccountId)
=============================================================================
