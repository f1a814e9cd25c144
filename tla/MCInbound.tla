----------------------------- MODULE MCInbound -----------------------------
(***************************************************************************)
(* Small instances of Inbound for TLC: one account bound with two zones,   *)
(* and one Cloudflare account bound twice.                                 *)
(***************************************************************************)
EXTENDS Inbound, TLC

OneRow       == "a1" :> "k1"
TwoZonesHome == "z1" :> "k1" @@ "z2" :> "k1"
TwoNames     == "z1" :> "n1" @@ "z2" :> "n2"

BoundTwice  == "a1" :> "k1" @@ "a2" :> "k1"
OneZoneHome == "z1" :> "k1"
OneName     == "z1" :> "n1"
=============================================================================
