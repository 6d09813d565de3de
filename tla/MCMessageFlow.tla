--------------------------- MODULE MCMessageFlow ---------------------------
(* Instances of MessageFlow for TLC. *)
EXTENDS MessageFlow, TLC

(* Orders and instant actions of other makes are well-formed where errors *)
(* take references from them.                                             *)
MCTrusted == {<<"headerId">>, <<"orderId">>, <<"orderUpdateId">>}
MCNoTrust == {}
=============================================================================
