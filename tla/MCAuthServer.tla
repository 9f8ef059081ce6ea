---------------------------- MODULE MCAuthServer ----------------------------
(***************************************************************************)
(* AuthServer for TLC: symmetric sets of model values.                     *)
(***************************************************************************)
EXTENDS AuthServer, TLC

Symmetry ==
    Permutations(Call) \cup Permutations(AccountId)
        \cup Permutations(TokenCall) \cup Permutations(Password)
=============================================================================
