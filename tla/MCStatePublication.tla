------------------------- MODULE MCStatePublication -------------------------
(* Instances of StatePublication for TLC. *)
EXTENDS StatePublication, TLC

(* A message with an action that may be rejected, and one that is invalid.*)
MCMsg == "m1" :> <<"a1">> @@ "m2" :> <<"a2">>

(* Two messages that are invalid, one after the other.                     *)
MCInvalidMsg == "m1" :> <<"a1">> @@ "m2" :> <<"a2">>
=============================================================================
