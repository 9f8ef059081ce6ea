-------------------------- MODULE MCCsrfProtection --------------------------
(***************************************************************************)
(* CsrfProtection for TLC: symmetric model values.                         *)
(***************************************************************************)
EXTENDS CsrfProtection, TLC

Symmetry == Permutations(Exchange)
=============================================================================
