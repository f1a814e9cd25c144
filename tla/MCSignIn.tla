------------------------------ MODULE MCSignIn ------------------------------
(***************************************************************************)
(* A small instance of SignIn for TLC.                                     *)
(***************************************************************************)
EXTENDS SignIn, TLC

Symmetry == Permutations(Requests)
=============================================================================
