------------------------- MODULE AgvOrderRefinement -------------------------
(* The controller of AgvOrder implements OrderExecution. *)
EXTENDS AgvOrder

(* Actions that have been passed to executeAction are executed, although   *)
(* an adapter may report them as WAITING until it starts them.             *)
Executed == {c.action : c \in scheduled}

Execution == INSTANCE OrderExecution WITH
  ahead     <- nodeStates \cup edgeStates,
  base      <- currentOrder.base,
  waiting   <- {a \in Action : actionStates[a] = "WAITING"} \ Executed,
  running   <- Executed,
  driving   <- traversing # << >>,
  suspended <- pausedNode # None,
  canceling <- hasCancelingOrder

(* Whatever messages and callbacks interleave, the AGV does what           *)
(* OrderExecution promises: it works at one place at a time, in the order  *)
(* of the route and within its base, starts nothing twice and nothing      *)
(* after a cancelation, and goes on at the end of the base only when that  *)
(* base grows (the handlers of AgvController taken together).              *)
ImplementsOrderExecution == Execution!Spec
=============================================================================
