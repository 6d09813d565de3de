------------------------------ MODULE AgvOrder ------------------------------
(***************************************************************************)
(* Order execution by the AGV controller (src/controller/agv-controller.ts)*)
(* against an AGV adapter that keeps the contract of the interface         *)
(* AgvAdapter: incoming orders (new, update, stitching), traversal of      *)
(* nodes and edges, execution of their actions by blocking type,           *)
(* cancelation of the active order, and pausing.                           *)
(*                                                                         *)
(* The controller is single threaded: each handler below - an incoming     *)
(* message or a callback of the adapter - is one atomic step.  The adapter *)
(* answers every invocation in a step of its own.                          *)
(*                                                                         *)
(* Places.  Nodes have even and edges odd sequenceIds, so one sequenceId   *)
(* names a place of a route and the trailing edge of node s is s + 1.      *)
(***************************************************************************)
EXTENDS ActionBlocking, Integers, FiniteSets

CONSTANTS
  Orders,      \* the order messages master control may send
  Msg,         \* Msg[o] is the content of order message o
  OrderId,     \* the orderIds that occur in messages
  NodeId,      \* the nodeIds that occur in messages
  Vetoable,    \* the orders that a check of adapter or vehicle may fail
  SelfEnding,  \* the actions that end without being told to
  Cancels,     \* the cancelOrder instant actions master control may send
  Scenarios,   \* the environments considered (see env below)
  MaxPauses,   \* how often a behaviour may enter the paused state
  None         \* "undefined"

IsNode(s) == s % 2 = 0

(***************************************************************************)
(* A well-formed order message (_validateOrderConstraints): consecutive    *)
(* sequenceIds from an even first one, the base first .. base before the   *)
(* horizon base + 1 .. last, an edge released iff its end node is.         *)
(***************************************************************************)
OrderMessage(m) ==
  /\ m.orderId \in OrderId /\ m.orderUpdateId \in Nat
  /\ {m.first, m.base, m.last} \subseteq {s \in Nat : IsNode(s)}
  /\ m.first <= m.base /\ m.base <= m.last
  /\ m.nodeId \in [{s \in m.first .. m.last : IsNode(s)} -> NodeId]
  /\ m.actions \in [m.first .. m.last -> Seq(Action)]

(* The places (o, s, i) at which released places of messages list actions. *)
Listed ==
  UNION {UNION {{<<o, s, i>> : i \in DOMAIN Msg[o].actions[s]} :
                s \in Msg[o].first .. Msg[o].base} : o \in Orders}

(***************************************************************************)
(* actionIds are unique over everything master control releases.           *)
(***************************************************************************)
ASSUME OrdersAssumption ==
  /\ \A o \in Orders : OrderMessage(Msg[o])
  /\ \A x, y \in Listed :
       Msg[x[1]].actions[x[2]][x[3]] = Msg[y[1]].actions[y[2]][y[3]] => x = y

ASSUME EnvironmentAssumption ==
  /\ Vetoable \subseteq Orders
  /\ SelfEnding \subseteq Action
  /\ Scenarios \subseteq [defersStart : BOOLEAN, pauses : BOOLEAN,
                          cancels : BOOLEAN, button : BOOLEAN]
  /\ MaxPauses \in Nat
  /\ None \notin OrderId /\ None \notin Cancels /\ None \notin [order : Orders, seq : Nat]

VARIABLES
  (* AgvController *)
  currentOrder,   \* this.currentOrder: identity, base, horizon and node objects
  actions,        \* the action lists of node and edge objects, by message
  nodeStates,     \* state.nodeStates, as the sequenceIds of the nodes
  edgeStates,     \* state.edgeStates, as the sequenceIds of the edges
  actionStates,   \* state.actionStates of node and edge actions
  lastNode,       \* state.lastNodeId and lastNodeSequenceId
  rejections,     \* order rejections among state.errors
  paused,         \* state.paused
  pausedNode,     \* _currentPausedNode
  cancelContext,  \* _cancelOrderContext
  (* AgvAdapter, external *)
  scheduled,      \* contexts of executeAction not yet reported ended
  ending,         \* actions passed to cancelAction or finishEdgeAction
  traversing,     \* contexts of traverseEdge not yet reported traversed
  stopTraverse,   \* number of stopTraverse invocations not yet answered
  (* master control and operator, external *)
  inbox,          \* order messages that may still arrive
  cancelStates,   \* status of each cancelOrder instant action
  pauses,         \* number of times the paused state was entered
  env             \* the environment of this behaviour, fixed initially

controllerVars == <<currentOrder, actions, nodeStates, edgeStates, actionStates,
                    lastNode, rejections, paused, pausedNode, cancelContext>>
adapterVars == <<scheduled, ending, traversing, stopTraverse>>
masterVars == <<inbox, cancelStates, pauses, env>>
vars == <<controllerVars, adapterVars, masterVars>>

(* Statuses INITIALIZING, RUNNING and PAUSED are ACTIVE, FINISHED and      *)
(* FAILED are ENDED: the controller never tells them apart.                *)
Status == {"ABSENT", "WAITING", "ACTIVE", "ENDED"}

-----------------------------------------------------------------------------
(* Node and edge objects *)

(* A node or edge object: the message that carried it and its sequenceId.  *)
Place == {p \in [order : Orders, seq : Nat] :
            p.seq \in Msg[p.order].first .. Msg[p.order].last}

NodePlace == {p \in Place : IsNode(p.seq)}

EdgePlace == {p \in Place : ~ IsNode(p.seq)}

NodeIdOf(p) == Msg[p.order].nodeId[p.seq]

(* The actions of a node or edge object.  Only stitching changes them: it  *)
(* concatenates to the object of the current base end.                     *)
ActionsOf(p, lists) == lists[p.order][p.seq]

NoOrder == [orderId |-> None, orderUpdateId |-> 0, first |-> 0, base |-> -1,
            last |-> -1, at |-> [s \in {} |-> None]]

PlaceIn(ord, s) == [order |-> ord.at[s], seq |-> s]

ActionSet(p, lists) == {ActionsOf(p, lists)[i] : i \in DOMAIN ActionsOf(p, lists)}

(* The actions of the released nodes and edges of an order.                *)
ReleasedActions(ord, lists) ==
  UNION {ActionSet(PlaceIn(ord, s), lists) : s \in ord.first .. ord.base}

(* The actions of the released nodes and edges of a message                *)
(* (_getActionStates).                                                     *)
MessageActions(o) ==
  UNION {{Msg[o].actions[s][i] : i \in DOMAIN Msg[o].actions[s]} :
         s \in Msg[o].first .. Msg[o].base}

(* _getEdgeEndNode: it comes from the message of the edge.                 *)
EndNodeOf(e) == [order |-> e.order, seq |-> e.seq + 1]

(* Fault (TypeOK): nodes and edges are not told apart.                     *)
PlacesIn(from, to) == from .. to

(* _getNodeStates *)
NodesIn(from, to) == {s \in from .. to : IsNode(s)}

(* _getEdgeStates *)
EdgesIn(from, to) == {s \in from .. to : ~ IsNode(s)}

hasActiveOrder ==
  \/ nodeStates # {}
  \/ edgeStates # {}
  \/ \E a \in Action : actionStates[a] \in {"WAITING", "ACTIVE"}

hasCancelingOrder == cancelContext # None

-----------------------------------------------------------------------------
(* Node, edge and action processing.  A handler ends by invoking adapter   *)
(* handlers; Calls collects these invocations.                             *)

NoCalls == [execute |-> {}, traverse |-> << >>]

TraverseEdge(e) == [execute |-> {}, traverse |-> <<e>>]

(* _processNodeActions and _processEdgeActions after index `after`;        *)
(* continuation is what follows when the list is exhausted.                *)
ProcessActions(p, lists, after, continuation) ==
  LET acts == ActionsOf(p, lists)
      next == NextToRun(acts, after)
  IN IF next = {}
     THEN continuation
     ELSE [execute |-> {[action |-> acts[j], place |-> p] : j \in next},
           traverse |-> << >>]

ProcessEdgeActions(e, lists, after) == ProcessActions(e, lists, after, TraverseEdge(e))

(* _processEdge, with _getTrailingEdge looking the edge up in the current  *)
(* order by the nodeId and sequenceId of the node.                         *)
ProcessEdge(n, ord, lists) ==
  LET s == n.seq + 1 IN
  IF s \in ord.first .. ord.base /\ Msg[ord.at[s]].nodeId[n.seq] = NodeIdOf(n)
  THEN ProcessEdgeActions(PlaceIn(ord, s), lists, 0)
  ELSE NoCalls

ProcessNodeActions(n, ord, lists, after) ==
  ProcessActions(n, lists, after, ProcessEdge(n, ord, lists))

(* The tail of _updateActionStatus for an action of a node or an edge that *)
(* has ended while no order is being canceled.                             *)
ContinueAfter(c, ord, lists, statuses) ==
  LET acts  == ActionsOf(c.place, lists)
      i     == CHOOSE j \in DOMAIN acts : acts[j] = c.action
      ended == {a \in Action : statuses[a] = "ENDED"}
      Continuation == IF IsNode(c.place.seq)
                      THEN ProcessEdge(c.place, ord, lists)
                      ELSE TraverseEdge(c.place)
  IN IF Hard(c.action)
     THEN ProcessActions(c.place, lists, i, Continuation)
     ELSE IF NextHard(acts, i) # {}
     THEN IF AreParallelActionsEnded(acts, i, FALSE, ended)
          THEN [execute |-> {[action |-> acts[j], place |-> c.place] : j \in NextHard(acts, i)},
                traverse |-> << >>]
          ELSE NoCalls
     ELSE IF AreParallelActionsEnded(acts, i, TRUE, ended)
          THEN Continuation
          ELSE NoCalls

(***************************************************************************)
(* The adapter receives the invocations.  An adapter that does not defer   *)
(* the start reports INITIALIZING or RUNNING within executeAction.         *)
(***************************************************************************)
Invoke(calls, statuses, contexts, edges) ==
  \E k \in {calls}, before \in {statuses} :
    /\ scheduled' = contexts \cup k.execute
    /\ traversing' = edges \o k.traverse
    /\ actionStates' =
         [a \in Action |->
            IF ~ env.defersStart /\ \E c \in k.execute : c.action = a
            THEN "ACTIVE" ELSE before[a]]

(***************************************************************************)
(* _processNode, in the controller state st: suspended while paused,       *)
(* otherwise the node (and the edge leading up to it, if any) is reported  *)
(* as traversed and the actions of the node are started.                   *)
(***************************************************************************)
ProcessNode(n, traversedEdge, st) ==
  IF st.paused
  THEN /\ pausedNode' = n
       /\ nodeStates' = st.nodes
       /\ edgeStates' = st.edges
       /\ UNCHANGED <<lastNode, ending>>
       /\ Invoke(NoCalls, st.statuses, scheduled, st.traversing)
  ELSE /\ pausedNode' = st.pausedNode
       /\ nodeStates' = st.nodes \ {n.seq}
       /\ edgeStates' = st.edges \ {e.seq : e \in traversedEdge}
       /\ lastNode' = n
       /\ ending' = ending \cup {a \in UNION {ActionSet(e, st.lists) : e \in traversedEdge} :
                                   st.statuses[a] # "ENDED"}
       /\ Invoke(ProcessNodeActions(n, st.order, st.lists, 0),
                 st.statuses, scheduled, st.traversing)

(* The controller state at the start of a handler.                         *)
Now == [order |-> currentOrder, lists |-> actions, nodes |-> nodeStates,
        edges |-> edgeStates, statuses |-> actionStates, paused |-> paused,
        pausedNode |-> pausedNode, traversing |-> traversing]

-----------------------------------------------------------------------------
(* Orders: _processOrder *)

SameOrder(o) == Msg[o].orderId = currentOrder.orderId

(* The start of the new base is the end of the current base.               *)
IsOrderBaseStitching(o) ==
  /\ currentOrder.orderId # None
  /\ Msg[o].first = currentOrder.base
  /\ Msg[o].nodeId[Msg[o].first] = NodeIdOf(PlaceIn(currentOrder, currentOrder.base))

(* The start of the new base is the last node the AGV has traversed.       *)
IsOrderUpdateBaseStitching(o) ==
  /\ lastNode # None
  /\ Msg[o].first = lastNode.seq
  /\ Msg[o].nodeId[Msg[o].first] = NodeIdOf(lastNode)

(* How _processOrder takes an order that passes all preceding checks.      *)
OrderMode(o) ==
  IF SameOrder(o) /\ Msg[o].orderUpdateId <= currentOrder.orderUpdateId
  THEN IF Msg[o].orderUpdateId = currentOrder.orderUpdateId THEN "discard" ELSE "reject"
  ELSE IF hasActiveOrder
  THEN IF IsOrderBaseStitching(o) THEN "stitch" ELSE "reject"
  ELSE IF SameOrder(o)
  THEN IF IsOrderUpdateBaseStitching(o) THEN "update" ELSE "reject"
  ELSE "new"

(***************************************************************************)
(* Rejection.  Route, deviation range, charging, emergency stop, field     *)
(* violation and operating mode are up to the adapter and the vehicle,     *)
(* which may veto some orders at any time; an action that is not           *)
(* executable is rejected with an error that refers to the action.         *)
(***************************************************************************)
RejectOrder(o) ==
  /\ \E byAction \in BOOLEAN :
       /\ IF byAction THEN o \in Vetoable /\ ~ hasCancelingOrder
          ELSE o \in Vetoable \/ hasCancelingOrder \/ OrderMode(o) = "reject"
       /\ rejections' = rejections \cup {[order |-> o, byAction |-> byAction]}
  /\ UNCHANGED <<currentOrder, actions, nodeStates, edgeStates, actionStates,
                 lastNode, paused, pausedNode, cancelContext, adapterVars>>

(* An orderUpdateId that is already assigned: the state is published again.*)
DiscardOrder(o) ==
  /\ ~ hasCancelingOrder
  /\ OrderMode(o) = "discard"
  /\ UNCHANGED <<controllerVars, adapterVars>>

(* _acceptOrder in mode "new" or "update": the order replaces the last one,*)
(* which is not active any more, and its first node is processed.          *)
ReplaceOrder(o) ==
  LET m == Msg[o]
      ord == [orderId |-> m.orderId, orderUpdateId |-> m.orderUpdateId,
              first |-> m.first, base |-> m.base, last |-> m.last,
              at |-> [s \in m.first .. m.last |-> o]]
      statuses == [a \in Action |-> IF a \in MessageActions(o) THEN "WAITING" ELSE "ABSENT"]
  IN /\ ~ hasCancelingOrder
     /\ OrderMode(o) \in {"new", "update"}
     /\ currentOrder' = ord
     /\ rejections' = {}
     /\ ProcessNode(PlaceIn(ord, m.first), {},
                    [Now EXCEPT !.order = ord, !.statuses = statuses,
                                !.nodes = NodesIn(m.first, m.last),
                                !.edges = EdgesIn(m.first, m.last)])
     /\ UNCHANGED <<actions, paused, cancelContext, stopTraverse>>

(* Fault (RouteMatchesPosition): the horizon is not cleared on stitching.  *)
ReleasedStatesWithHorizon(states) == states

(* The node or edge states that are kept: those of the base.               *)
ReleasedStates(states) == {s \in states : s <= currentOrder.base}

(* Fault (SingleLocus): actions still executed at the base end are ignored.*)
IsBaseEndTraversed(baseEnd, lists) == baseEnd.seq \notin nodeStates

(* Fault (NoLostContinuation): stitching always relies on actions to end.  *)
NeverCompleted(baseEnd, lists) == FALSE

(* The current base end node has been traversed and its actions, those of  *)
(* the first node of the stitching order included, have all ended.         *)
IsBaseEndCompleted(baseEnd, lists) ==
  /\ baseEnd.seq \notin nodeStates
  /\ \A a \in ActionSet(baseEnd, lists) : actionStates[a] = "ENDED"

(* _acceptOrder in mode "stitch": the horizon is replaced by the rest of   *)
(* the order, whose first node only contributes its actions.               *)
StitchOrder(o) ==
  LET m == Msg[o]
      baseEnd == PlaceIn(currentOrder, currentOrder.base)
      lists == [actions EXCEPT ![baseEnd.order][baseEnd.seq] = @ \o m.actions[m.first]]
      ord == [orderId |-> m.orderId, orderUpdateId |-> m.orderUpdateId,
              first |-> currentOrder.first, base |-> m.base, last |-> m.last,
              at |-> [s \in currentOrder.first .. m.last |->
                        IF s <= currentOrder.base THEN currentOrder.at[s] ELSE o]]
      statuses == [a \in Action |-> IF a \in MessageActions(o) THEN "WAITING" ELSE actionStates[a]]
  IN /\ ~ hasCancelingOrder
     /\ OrderMode(o) = "stitch"
     /\ currentOrder' = ord
     /\ actions' = lists
     /\ nodeStates' = ReleasedStates(nodeStates) \cup NodesIn(m.first + 1, m.last)
     /\ edgeStates' = ReleasedStates(edgeStates) \cup EdgesIn(m.first, m.last)
     /\ rejections' = {r \in rejections : r.byAction}
     /\ Invoke(IF IsBaseEndCompleted(baseEnd, lists) THEN ProcessEdge(baseEnd, ord, lists) ELSE NoCalls,
               statuses, scheduled, traversing)
     /\ UNCHANGED <<lastNode, paused, pausedNode, cancelContext, ending, stopTraverse>>

ReceiveOrder(o) ==
  /\ o \in inbox
  /\ inbox' = inbox \ {o}
  /\ \/ RejectOrder(o)
     \/ DiscardOrder(o)
     \/ ReplaceOrder(o)
     \/ StitchOrder(o)
  /\ UNCHANGED <<cancelStates, pauses, env>>

-----------------------------------------------------------------------------
(* Callbacks of the adapter *)

(* An adapter that defers the start of an action, such as the virtual AGV  *)
(* (next tick), reports INITIALIZING or RUNNING in a step of its own.      *)
StartAction(c) ==
  /\ c \in scheduled
  /\ actionStates[c.action] # "ACTIVE"
  /\ actionStates' = [actionStates EXCEPT ![c.action] = "ACTIVE"]
  /\ UNCHANGED <<currentOrder, actions, nodeStates, edgeStates, lastNode, rejections,
                 paused, pausedNode, cancelContext, adapterVars, masterVars>>

(* Fault (StopTraverseGuarantee): actions being canceled do not count.     *)
AllOrderActionsStarted(statuses) ==
  \A a \in ReleasedActions(currentOrder, actions) : statuses[a] # "WAITING"

(* Fault (CancelCompletes): the loops do not break at the horizon.         *)
AllListedActionsEnded(statuses) ==
  \A s \in currentOrder.first .. currentOrder.last :
    \A a \in ActionSet(PlaceIn(currentOrder, s), actions) : statuses[a] = "ENDED"

(* _areAllOrderActionsCanceled *)
AllOrderActionsEnded(statuses) ==
  \A a \in ReleasedActions(currentOrder, actions) : statuses[a] = "ENDED"

(* _updateActionStatus with FINISHED or FAILED for a node or edge action:  *)
(* the next actions, the trailing edge or, while the order is being        *)
(* canceled, the stop of the AGV (_onOrderActionsCanceled) follow.         *)
EndAction(c) ==
  LET statuses == [actionStates EXCEPT ![c.action] = "ENDED"] IN
  /\ c \in scheduled
  /\ c.action \in SelfEnding \cup ending
  /\ ending' = ending \ {c.action}
  /\ IF hasCancelingOrder
     THEN /\ Invoke(NoCalls, statuses, scheduled \ {c}, traversing)
          /\ stopTraverse' = IF AllOrderActionsEnded(statuses) THEN stopTraverse + 1 ELSE stopTraverse
     ELSE /\ Invoke(ContinueAfter(c, currentOrder, actions, statuses),
                    statuses, scheduled \ {c}, traversing)
          /\ UNCHANGED stopTraverse
  /\ UNCHANGED <<currentOrder, actions, nodeStates, edgeStates, lastNode, rejections,
                 paused, pausedNode, cancelContext, masterVars>>

(* The edges still to be traversed without the one at index i.             *)
Remaining(i) == SubSeq(traversing, 1, i - 1) \o SubSeq(traversing, i + 1, Len(traversing))

(* Fault (NothingStartsAfterDeletion): no check for a pending cancelation. *)
EdgeTraversedUnchecked(i) ==
  /\ i \in DOMAIN traversing
  /\ ~ paused
  /\ ProcessNode(EndNodeOf(traversing[i]), {traversing[i]},
                 [Now EXCEPT !.traversing = Remaining(i)])
  /\ UNCHANGED <<currentOrder, actions, rejections, paused, cancelContext,
                 stopTraverse, masterVars>>

(* context.edgeTraversed: by contract traversal is postponed while paused. *)
EdgeTraversed(i) ==
  /\ i \in DOMAIN traversing
  /\ ~ paused
  /\ IF hasCancelingOrder
     THEN /\ traversing' = Remaining(i)
          /\ UNCHANGED <<nodeStates, edgeStates, lastNode, pausedNode, ending,
                         scheduled, actionStates>>
     ELSE ProcessNode(EndNodeOf(traversing[i]), {traversing[i]},
                      [Now EXCEPT !.traversing = Remaining(i)])
  /\ UNCHANGED <<currentOrder, actions, rejections, paused, cancelContext,
                 stopTraverse, masterVars>>

-----------------------------------------------------------------------------
(* Cancelation *)

(* Fault (CancelNeverStalls): ended actions count as to be canceled.       *)
ActionsStarted == {a \in Action : actionStates[a] \in {"ACTIVE", "ENDED"}}

(* The scheduled actions that have not ended.                              *)
ActionsToCancel == {a \in Action : actionStates[a] = "ACTIVE"}

(***************************************************************************)
(* The instant action cancelOrder (_checkInstantActionExecutable, then     *)
(* _cancelOrder): WAITING actions fail at once, the others are passed to   *)
(* cancelAction; if there is none, the AGV is stopped right away.          *)
(***************************************************************************)
CancelOrder(c) ==
  /\ env.cancels
  /\ cancelStates[c] = "UNSENT"
  /\ IF ~ hasActiveOrder \/ hasCancelingOrder
     THEN /\ cancelStates' = [cancelStates EXCEPT ![c] = "REJECTED"]
          /\ UNCHANGED <<cancelContext, actionStates, ending, stopTraverse>>
     ELSE /\ cancelStates' = [cancelStates EXCEPT ![c] = "RUNNING"]
          /\ cancelContext' = c
          /\ actionStates' = [a \in Action |-> IF actionStates[a] = "WAITING"
                                               THEN "ENDED" ELSE actionStates[a]]
          /\ ending' = ending \cup ActionsToCancel
          /\ stopTraverse' = IF ActionsToCancel # {} THEN stopTraverse ELSE stopTraverse + 1
  /\ UNCHANGED <<currentOrder, actions, nodeStates, edgeStates, lastNode, rejections,
                 paused, pausedNode, scheduled, traversing, inbox, pauses, env>>

(* An AGV that cannot stop in between nodes: only the node it is driving   *)
(* to is kept, so that the order stays active until the AGV has stopped.   *)
DrivingToNextNode ==
  /\ stopTraverse > 0
  /\ traversing # << >>
  /\ nodeStates' = {s \in nodeStates : s = Head(traversing).seq + 1}
  /\ edgeStates' = {}
  /\ UNCHANGED <<currentOrder, actions, actionStates, lastNode, rejections, paused,
                 pausedNode, cancelContext, adapterVars, masterVars>>

(* context.stopped: the order is deleted and cancelOrder finishes.  By     *)
(* contract edgeTraversed is not invoked any more.  Stopping may end pause *)
(* mode, as the virtual AGV does.                                          *)
Stopped ==
  /\ stopTraverse > 0
  /\ stopTraverse' = stopTraverse - 1
  /\ traversing' = << >>
  /\ nodeStates' = {}
  /\ edgeStates' = {}
  /\ cancelContext' = None
  /\ cancelStates' = [c \in Cancels |-> IF c = cancelContext THEN "FINISHED" ELSE cancelStates[c]]
  /\ paused' \in {paused, FALSE}
  /\ UNCHANGED <<currentOrder, actions, actionStates, lastNode, rejections, pausedNode,
                 scheduled, ending, inbox, pauses, env>>

-----------------------------------------------------------------------------
(* Pausing *)

(* The adapter reports startPause as FINISHED with paused = true.          *)
StartPause ==
  /\ env.pauses
  /\ ~ paused /\ pauses < MaxPauses
  /\ paused' = TRUE
  /\ pauses' = pauses + 1
  /\ UNCHANGED <<currentOrder, actions, nodeStates, edgeStates, actionStates, lastNode,
                 rejections, pausedNode, cancelContext, adapterVars, inbox, cancelStates, env>>

(* Fault (BaseCompletes): the suspended node is dropped.                   *)
StopPauseDropsNode ==
  /\ env.pauses
  /\ paused \/ pausedNode # None
  /\ paused' = FALSE
  /\ pausedNode' = None
  /\ UNCHANGED <<currentOrder, actions, nodeStates, edgeStates, actionStates, lastNode,
                 rejections, cancelContext, adapterVars, masterVars>>

(* The adapter reports stopPause as FINISHED with paused = false: a node   *)
(* that was suspended is processed now, unless the order is being canceled.*)
StopPause ==
  /\ env.pauses
  /\ paused \/ pausedNode # None
  /\ paused' = FALSE
  /\ IF pausedNode # None /\ ~ hasCancelingOrder
     THEN ProcessNode(pausedNode, {}, [Now EXCEPT !.paused = FALSE, !.pausedNode = None])
     ELSE /\ pausedNode' = None
          /\ UNCHANGED <<nodeStates, edgeStates, actionStates, lastNode, scheduled, ending, traversing>>
  /\ UNCHANGED <<currentOrder, actions, rejections, cancelContext, stopTraverse, masterVars>>

(* updatePausedState on the push of a button at the AGV.                   *)
PushPauseButton ==
  /\ env.button
  /\ paused \/ pauses < MaxPauses
  /\ paused' = ~ paused
  /\ pauses' = IF paused THEN pauses ELSE pauses + 1
  /\ UNCHANGED <<currentOrder, actions, nodeStates, edgeStates, actionStates, lastNode,
                 rejections, pausedNode, cancelContext, adapterVars, inbox, cancelStates, env>>

-----------------------------------------------------------------------------
Init ==
  /\ currentOrder = NoOrder
  /\ actions = [o \in Orders |-> Msg[o].actions]
  /\ nodeStates = {} /\ edgeStates = {}
  /\ actionStates = [a \in Action |-> "ABSENT"]
  /\ lastNode = None
  /\ rejections = {}
  /\ paused = FALSE /\ pausedNode = None
  /\ cancelContext = None
  /\ scheduled = {} /\ ending = {} /\ traversing = << >>
  /\ stopTraverse = 0
  /\ inbox = Orders
  /\ cancelStates = [c \in Cancels |-> "UNSENT"]
  /\ pauses = 0
  /\ env \in Scenarios

Next ==
  \/ \E o \in Orders : ReceiveOrder(o)
  \/ \E c \in scheduled : StartAction(c)
  \/ \E c \in scheduled : EndAction(c)
  \/ \E i \in DOMAIN traversing : EdgeTraversed(i)
  \/ \E c \in Cancels : CancelOrder(c)
  \/ DrivingToNextNode
  \/ Stopped
  \/ StartPause
  \/ StopPause
  \/ PushPauseButton

(* The adapter eventually answers every invocation and the operator        *)
(* eventually ends a pause; nobody has to send or pause anything.          *)
Fairness ==
  /\ WF_vars(\E c \in scheduled : EndAction(c))
  /\ WF_vars(\E i \in DOMAIN traversing : EdgeTraversed(i))
  /\ WF_vars(Stopped)
  /\ WF_vars(paused /\ StopPause)

Spec == Init /\ [][Next]_vars /\ Fairness
-----------------------------------------------------------------------------
(* Properties *)

(* A current order, and the action lists of the places of all messages.    *)
OrderOK(ord) ==
  /\ ord.orderId \in OrderId \cup {None}
  /\ ord.orderUpdateId \in Nat
  /\ ord.first \in Nat /\ ord.base \in Int /\ ord.last \in Int
  /\ ord.base <= ord.last
  /\ ord.orderId # None => ord.first <= ord.base
  /\ ord.at \in [ord.first .. ord.last -> Orders]
  /\ \A s \in ord.first .. ord.last : PlaceIn(ord, s) \in Place

ListsOK(lists) ==
  /\ DOMAIN lists = Orders
  /\ \A o \in Orders : lists[o] \in [Msg[o].first .. Msg[o].last -> Seq(Action)]

(* Every variable stays within the values the code can give it.            *)
TypeOK ==
  /\ OrderOK(currentOrder)
  /\ ListsOK(actions)
  /\ nodeStates \subseteq {s \in Nat : IsNode(s)}
  /\ edgeStates \subseteq {s \in Nat : ~ IsNode(s)}
  /\ actionStates \in [Action -> Status]
  /\ lastNode = None \/ lastNode \in NodePlace
  /\ rejections \subseteq [order : Orders, byAction : BOOLEAN]
  /\ paused \in BOOLEAN
  /\ pausedNode = None \/ pausedNode \in NodePlace
  /\ cancelContext \in Cancels \cup {None}
  /\ scheduled \subseteq [action : Action, place : Place]
  /\ ending \subseteq Action
  /\ traversing \in Seq(EdgePlace)
  /\ stopTraverse \in Nat
  /\ inbox \subseteq Orders
  /\ cancelStates \in [Cancels -> {"UNSENT", "REJECTED", "RUNNING", "FINISHED"}]
  /\ pauses \in Nat
  /\ env \in Scenarios

(***************************************************************************)
(* AgvAdapter.traverseEdge: until edgeTraversed is called, no other        *)
(* invocation of this handler occurs.                                      *)
(***************************************************************************)
SingleLocus == Len(traversing) <= 1

(***************************************************************************)
(* While an order is active, the reported nodes and edges are exactly the  *)
(* part of the route ahead of the reported last node, and the AGV drives   *)
(* on the edge behind that node.                                           *)
(***************************************************************************)
RouteMatchesPosition ==
  hasActiveOrder /\ ~ hasCancelingOrder =>
    IF pausedNode # None
    THEN /\ pausedNode = PlaceIn(currentOrder, currentOrder.first)
         /\ nodeStates = NodesIn(currentOrder.first, currentOrder.last)
         /\ edgeStates = EdgesIn(currentOrder.first, currentOrder.last)
         /\ traversing = << >>
    ELSE /\ lastNode = PlaceIn(currentOrder, lastNode.seq)
         /\ nodeStates = NodesIn(lastNode.seq + 1, currentOrder.last)
         /\ edgeStates = EdgesIn(lastNode.seq + 1, currentOrder.last)
         /\ \A i \in DOMAIN traversing :
              traversing[i] = PlaceIn(currentOrder, lastNode.seq + 1)

(***************************************************************************)
(* Processing of an active order never gets lost between two callbacks: if *)
(* the adapter has nothing left to answer, either a node waits for the end *)
(* of a pause, or the AGV waits at the end of the base for a new one.      *)
(***************************************************************************)
NoLostContinuation ==
  hasActiveOrder /\ ~ hasCancelingOrder /\ scheduled = {} /\ traversing = << >> =>
    \/ pausedNode # None
    \/ /\ lastNode = PlaceIn(currentOrder, currentOrder.base)
       /\ \A a \in Action : actionStates[a] # "WAITING"

(***************************************************************************)
(* Blocking types: a HARD action runs by itself, and an action runs only   *)
(* after every HARD action before it, and before every later segment.      *)
(***************************************************************************)
BlockingRespected ==
  \A c \in scheduled :
    LET acts == ActionsOf(c.place, actions)
        i == CHOOSE j \in DOMAIN acts : acts[j] = c.action
    IN /\ Hard(c.action) => scheduled = {c}
       /\ \A j \in DOMAIN acts :
            /\ j < i /\ (Hard(acts[j]) \/ Hard(c.action)) => actionStates[acts[j]] = "ENDED"
            /\ (\E h \in NextHard(acts, i) : j >= h) \/ (j > i /\ Hard(c.action))
                 => ~ \E d \in scheduled : d.action = acts[j]

(***************************************************************************)
(* AgvAdapter.stopTraverse: it is invoked for a pending cancelation only,  *)
(* not again until answered, and when all scheduled actions have ended.    *)
(***************************************************************************)
StopTraverseGuarantee ==
  stopTraverse > 0 => stopTraverse = 1 /\ hasCancelingOrder /\ scheduled = {}

(***************************************************************************)
(* A pending cancelation always waits for an answer the adapter owes: the  *)
(* end of an action it was told to cancel, or the stop of the AGV.         *)
(***************************************************************************)
CancelNeverStalls ==
  hasCancelingOrder =>
    \/ stopTraverse > 0
    \/ scheduled # {} /\ \A c \in scheduled : c.action \in ending

(***************************************************************************)
(* Cancelation deletes the order: once cancelOrder is pending or the order *)
(* is not active any more, no action is executed and no edge is traversed  *)
(* until an order has been accepted.                                       *)
(***************************************************************************)
NothingStartsAfterDeletion ==
  [][(hasCancelingOrder \/ ~ hasActiveOrder) /\ inbox' = inbox
       => scheduled' \subseteq scheduled /\ Len(traversing') <= Len(traversing)]_vars

(***************************************************************************)
(* An action is passed to executeAction at most once, and an action that   *)
(* is reported FINISHED or FAILED is not executed any more.                *)
(***************************************************************************)
ExecutedOnce ==
  [][\A c \in scheduled' :
       /\ actionStates'[c.action] # "ENDED"
       /\ c \notin scheduled => actionStates[c.action] \in {"ABSENT", "WAITING"}]_vars

(* A cancelOrder instant action that was accepted finishes eventually.     *)
CancelCompletes ==
  \A c \in Cancels : cancelStates[c] = "RUNNING" ~> cancelStates[c] = "FINISHED"

AwaitsLastingAction == \E c \in scheduled : c.action \notin SelfEnding

(* The released part of the route has been traversed and all actions of    *)
(* the order have ended.                                                   *)
BaseCompleted ==
  /\ \A s \in nodeStates \cup edgeStates : s > currentOrder.base
  /\ \A a \in Action : actionStates[a] \in {"ABSENT", "ENDED"}

(***************************************************************************)
(* The base of an active order is completed eventually (or the order is    *)
(* canceled), unless an action that does not end by itself is executed.    *)
(* A pause that ends by the button at the AGV does not resume the order.   *)
(***************************************************************************)
BaseCompletes ==
  ~ env.button /\ hasActiveOrder ~> BaseCompleted \/ AwaitsLastingAction
=============================================================================
