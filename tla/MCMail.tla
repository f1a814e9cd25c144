------------------------------- MODULE MCMail -------------------------------
(***************************************************************************)
(* A small instance of Mail for TLC.                                       *)
(***************************************************************************)
EXTENDS Mail, TLC

Symmetry == Permutations(Workers)
=============================================================================
