---------------------------- MODULE MCMasterOrders ----------------------------
(* Instances of MasterOrders for TLC. *)
EXTENDS MasterOrders, TLC

Order(id, upd, first, base, last, names, acts) ==
  [orderId |-> id, orderUpdateId |-> upd, first |-> first, base |-> base, last |-> last,
   nodeId |-> [s \in {s \in first .. last : IsNode(s)} |-> names[s]],
   actions |-> [s \in first .. last |-> IF s \in DOMAIN acts THEN acts[s] ELSE << >>]]

NoActions == [s \in {} |-> << >>]

(* The node at sequenceId s of the common route, and of another route.     *)
Main == [s \in 0 .. 6 |-> <<"n0", "", "n2", "", "n4", "", "n6">>[s + 1]]
Side == [s \in 0 .. 6 |-> <<"m0", "", "m2", "", "m4", "", "m6">>[s + 1]]

(***************************************************************************)
(* A: two base nodes and a horizon.  B: stitched to the base end of A.     *)
(* B1: stitched to the base end of B, an update of it.  C and D: new orders*)
(* elsewhere, without actions on the last node.  E: a new order that ends  *)
(* where it starts, with an action there; no other order starts there.     *)
(***************************************************************************)
MCMsg ==
  "A" :> Order("A", 0, 0, 2, 4, Main, 0 :> <<"s1">> @@ 1 :> <<"e1">>) @@
  "B" :> Order("B", 0, 2, 4, 6, Main, 3 :> <<"h1">>) @@
  "B1" :> Order("B", 1, 4, 6, 6, Main, 6 :> <<"h2">>) @@
  "C" :> Order("C", 0, 0, 2, 2, Side, 0 :> <<"s2">>) @@
  "D" :> Order("D", 0, 0, 2, 2, Side, 1 :> <<"s3">>) @@
  "E" :> Order("E", 0, 0, 0, 0, 0 :> "n6", 0 :> <<"s4">>)

MCOrders == DOMAIN MCMsg

MCBlocking == "s1" :> "SOFT" @@ "s2" :> "SOFT" @@ "s3" :> "SOFT" @@
              "s4" :> "SOFT" @@ "e1" :> "NONE" @@
              "h1" :> "HARD" @@ "h2" :> "HARD"

MCAction == DOMAIN MCBlocking

Scenario(d, p, c, b) == [defersStart |-> d, pauses |-> p, cancels |-> c, button |-> b]

MCScenarios ==
  {Scenario(FALSE, FALSE, TRUE, FALSE), Scenario(TRUE, TRUE, FALSE, FALSE)}

Plan(os, cs, e) == [orders |-> os, cancels |-> cs, errors |-> e]

(* Orders that are assigned again, stitched, rejected, and new; cancelation*)
(* of orders that have neither a horizon nor actions on their last node.   *)
SoundPlans ==
  {Plan(<<"A", "A", "B", "B1", "C">>, << >>, {"orderAction"}), Plan(<<"C", "D">>, <<"c1", "c2">>, {})}

(* Cancelation of an order with actions on its last node.                  *)
LastNodePlans == {Plan(<<"E">>, <<"c1">>, {})}

(* Cancelation of an order with a horizon, and a new order after it.       *)
HorizonPlans == {Plan(<<"A", "C">>, <<"c1">>, {})}

(* Errors of the AGV at any time.                                          *)
ErrorPlans == {Plan(<<"A">>, << >>, {"unreferenced"})}
=============================================================================
