----------------------------- MODULE MCAgvOrder -----------------------------
(* Instances of AgvOrder for TLC. *)
EXTENDS AgvOrderRefinement, TLC

Order(id, upd, first, base, last, names, acts) ==
  [orderId |-> id, orderUpdateId |-> upd, first |-> first, base |-> base, last |-> last,
   nodeId |-> [s \in {s \in first .. last : IsNode(s)} |-> names[s]],
   actions |-> [s \in first .. last |-> IF s \in DOMAIN acts THEN acts[s] ELSE << >>]]

NoActions == [s \in {} |-> << >>]

(* The node at sequenceId s of the common route, and of another route.     *)
Main == [s \in 0 .. 8 |-> <<"n0", "", "n2", "", "n4", "", "n6", "", "n8">>[s + 1]]
Side == [s \in 0 .. 8 |-> "m"]

(***************************************************************************)
(* A: two base nodes and a horizon.  B: stitched to the base end of A.     *)
(* B2: update of B, stitched while B is active.  A0: the identity of A     *)
(* once more.  C: a new order elsewhere, with an action that only ends     *)
(* when it is canceled.  A NONE action is not parallel to any other.        *)
(***************************************************************************)
SerialMsg ==
  "A" :> Order("A", 0, 0, 2, 6, Main,
               0 :> <<"s1", "s2", "h1">> @@ 1 :> <<"n1">> @@ 2 :> <<"h2", "s3">> @@ 4 :> <<"x">>) @@
  "B" :> Order("B", 0, 2, 4, 4, Main, 3 :> <<"s4", "h3">> @@ 4 :> <<"n2">>) @@
  "B2" :> Order("B", 1, 4, 6, 8, Main, 6 :> <<"h4">>) @@
  "A0" :> Order("A", 0, 0, 0, 0, Main, NoActions) @@
  "C" :> Order("C", 0, 0, 0, 0, Side, 0 :> <<"lasting">>)

(* Two actions on one node that the AGV executes in parallel to driving.   *)
ParallelMsg == "A" :> Order("A", 0, 0, 2, 2, Main, 0 :> <<"n1", "n2">>)

(* A stitching order with an action on its first node.                     *)
StitchingMsg ==
  "A" :> Order("A", 0, 0, 2, 4, Main, NoActions) @@
  "B" :> Order("B", 0, 2, 4, 4, Main, 2 :> <<"h1">>)

SerialOrders == DOMAIN SerialMsg
ParallelOrders == DOMAIN ParallelMsg
StitchingOrders == DOMAIN StitchingMsg

MCBlocking ==
  "s1" :> "SOFT" @@ "s2" :> "SOFT" @@ "s3" :> "SOFT" @@ "s4" :> "SOFT" @@
  "lasting" :> "SOFT" @@ "n1" :> "NONE" @@ "n2" :> "NONE" @@ "x" :> "HARD" @@
  "h1" :> "HARD" @@ "h2" :> "HARD" @@ "h3" :> "HARD" @@ "h4" :> "HARD"

MCAction == DOMAIN MCBlocking

MCSelfEnding == MCAction \ {"lasting"}

Scenario(d, p, c, b) == [defersStart |-> d, pauses |-> p, cancels |-> c, button |-> b]

(* Cancelation with an adapter that starts actions at once; pausing, and   *)
(* pausing at an AGV with a pause button, with an adapter that does not.   *)
SoundScenarios ==
  {Scenario(FALSE, FALSE, TRUE, FALSE), Scenario(TRUE, TRUE, FALSE, FALSE),
   Scenario(TRUE, TRUE, FALSE, TRUE)}

(* Cancelation with an adapter that defers the start of actions.           *)
DeferringScenarios == {Scenario(TRUE, FALSE, TRUE, FALSE)}

(* Cancelation and pausing.                                                *)
PausingScenarios == {Scenario(FALSE, TRUE, TRUE, FALSE)}
=============================================================================
