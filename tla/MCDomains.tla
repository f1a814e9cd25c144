----------------------------- MODULE MCDomains -----------------------------
(***************************************************************************)
(* A small instance of Domains for TLC: pages of one zone, so that three   *)
(* zones take several calls.                                               *)
(***************************************************************************)
EXTENDS Domains, TLC

Symmetry == Permutations(Syncers)
=============================================================================
