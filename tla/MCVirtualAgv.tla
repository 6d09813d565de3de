---------------------------- MODULE MCVirtualAgv ----------------------------
(* Instances of VirtualAgv for TLC. *)
EXTENDS VirtualAgv, TLC

Def(t, s, o, b) == [type |-> t, scope |-> s, order |-> o, stopDriving |-> b]

(* A pause requested twice and its end, an order with a load to pick and an*)
(* action on its edge, and an order that charges the battery.              *)
MCActionType ==
  "p1" :> Def("startPause", "instant", NoOrder, TRUE) @@
  "p2" :> Def("startPause", "instant", NoOrder, TRUE) @@
  "r1" :> Def("stopPause", "instant", NoOrder, FALSE) @@
  "c1" :> Def("startCharging", "node", "o2", TRUE) @@
  "k1" :> Def("pick", "node", "o1", TRUE) @@
  "e1" :> Def("noop", "edge", "o1", FALSE)

MCInstant == {"p1", "p2", "r1"}
MCOrders == {"o1", "o2"}
=============================================================================
