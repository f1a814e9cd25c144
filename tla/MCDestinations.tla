--------------------------- MODULE MCDestinations ---------------------------
(***************************************************************************)
(* Small instances of Destinations for TLC.  Row ids are ordered numbers;  *)
(* workers, mailboxes and Cloudflare's identifiers are interchangeable,    *)
(* which the safety run uses; the run with liveness does not.              *)
(***************************************************************************)
EXTENDS Destinations, TLC

Symmetry ==
  Permutations(Workers) \cup Permutations(CfIds) \cup Permutations(Emails)
=============================================================================
