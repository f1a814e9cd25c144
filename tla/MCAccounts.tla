---------------------------- MODULE MCAccounts ----------------------------
(***************************************************************************)
(* A small instance of Accounts for TLC: user token "t1" reaches account   *)
(* "k1" with every right and "k2" with all but one; token "t2" belongs to  *)
(* account "k1" and says so in its prefix, "t1" has no known prefix.       *)
(***************************************************************************)
EXTENDS Accounts, TLC

ThePrefix  == "t1" :> "bare" @@ "t2" :> "cfat"
TheGranted == "t1" :> ({"k1"} \X Abilities) \cup ({"k2"} \X (Abilities \ {"sending"}))
              @@ "t2" :> ({"k1"} \X Abilities)

TheRevocable == {<<"k1", "zone">>}

Symmetry == Permutations(Workers)
=============================================================================
