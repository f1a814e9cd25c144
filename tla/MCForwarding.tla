---------------------------- MODULE MCForwarding ----------------------------
(***************************************************************************)
(* Small instances of Forwarding for TLC.  Nothing orders the workers, the *)
(* identifiers, the mailboxes or the destinations, so the safety runs may  *)
(* identify states that differ by a permutation of them.                   *)
(***************************************************************************)
EXTENDS Forwarding, TLC

Symmetry ==
  Permutations(Workers) \cup Permutations(RuleIds) \cup Permutations(CfIds)
    \cup Permutations(Emails) \cup Permutations(Dests)
=============================================================================
