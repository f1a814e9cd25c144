---------------------------- MODULE MCMailboxes ----------------------------
(***************************************************************************)
(* A small instance of Mailboxes for TLC: two domain rows of one name, the *)
(* first under the account of "u1", the second under that of "u2".         *)
(***************************************************************************)
EXTENDS Mailboxes, TLC

TheOwners == "d1" :> "u1" @@ "d2" :> "u2"

Symmetry == Permutations(Clients) \cup Permutations(Tokens)
=============================================================================
