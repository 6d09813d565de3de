---------------------------- MODULE MasterOrders ----------------------------
(***************************************************************************)
(* Orders in the master controller (src/controller/master-controller.ts),  *)
(* composed with the AGV controller of module AgvOrder: assigning orders,  *)
(* the caches of assigned orders, and the events dispatched to their event *)
(* handlers from State messages.                                           *)
(*                                                                         *)
(* An AGV publishes its state on every change and again at intervals, and  *)
(* State messages may get lost.  So a State message that arrives is the    *)
(* state of the AGV at some later time: DispatchState may be taken at any  *)
(* time, and any number of changes may happen between two of them.  Delay  *)
(* of messages is delay of their receiver, which nobody else can observe.  *)
(* The code relies on State messages around the arrival of an order: the   *)
(* last one before it and the first one after it are not lost.             *)
(***************************************************************************)
EXTENDS AgvOrder, Lists

CONSTANT Plans  \* what master control does, and the errors the AGV may report

(* Errors beside rejections: a failed action of the order, which refers to *)
(* topic and actionId, and an error of the vehicle without any reference.  *)
AgvErrors == {"orderAction", "unreferenced"}

ASSUME PlansAssumption ==
  /\ Plans \subseteq [orders : Seq(Orders), cancels : Seq(Cancels),
                      errors : SUBSET AgvErrors]
  /\ None \notin Orders

VARIABLES
  (* MasterController, for one AGV *)
  caches,        \* the order state cache of each order ever assigned
  registered,    \* _currentOrders: the orders whose cache is looked up
  lastAssigned,  \* _currentOrders' property "lastCache"
  initiated,     \* _currentInstantActions: cancelOrder actions, oldest first
  (* master control and AGV *)
  plan,          \* what remains to be done
  preceding,     \* the order assigned last
  orderTopic,    \* the order messages under way
  publishing,    \* an order whose publication fails, which is not known yet
  outcomes,      \* the invocations of onOrderProcessed for each order
  upToDate,      \* the present state of the AGV has been dispatched
  canceled,      \* the orders that were active when cancelOrder was executed
  agvErrors      \* the kinds of other errors among state.errors

cacheVars == <<caches, registered, lastAssigned, outcomes>>
systemVars == <<cacheVars, initiated, plan, preceding, orderTopic, publishing, upToDate, canceled, agvErrors>>
allVars == <<vars, systemVars>>

-----------------------------------------------------------------------------
(* Order state caches *)

Identity(o) == <<Msg[o].orderId, Msg[o].orderUpdateId>>

(* _getOrderStateCache with the orderId and orderUpdateId of a State, as a *)
(* set with at most one order.                                             *)
CurrentCaches(orders) ==
  {o \in orders : Identity(o) = <<currentOrder.orderId, currentOrder.orderUpdateId>>}

(* _addOrderStateCache.  combinedOrder is the domain of nodeActions; `first`*)
(* is its first node, and `ready` says that onEdgeTraversing has been       *)
(* invoked for the trailing edge of lastNodeTraversed.                      *)
NewCache(o) ==
  [lastCache |-> lastAssigned,
   first |-> [order |-> o, seq |-> Msg[o].first],
   nodeActions |-> [p \in {[order |-> o, seq |-> s] : s \in Msg[o].first .. Msg[o].last} |->
                    {Msg[o].actions[p.seq][i] : i \in DOMAIN Msg[o].actions[p.seq]}],
   mappedActions |-> MessageActions(o),
   lastActionStates |-> [a \in Action |-> "ABSENT"],
   lastNodeTraversed |-> None,
   lastEdgeProcessed |-> None,
   ready |-> FALSE,
   processed |-> FALSE]

Places(cache) == DOMAIN cache.nodeActions

Released(p) == p.seq <= Msg[p.order].base

(* _getLastActiveOrderStateCache among the orders `kept`.                  *)
LastActive(o, kept) ==
  LET find[x \in DOMAIN caches] ==
        LET last == caches[x].lastCache IN
        IF last = None \/ last \in kept THEN last ELSE find[last]
  IN find[o]

(* Fault (SameRoute): the horizon of the stitched order is kept.           *)
StitchWithHorizon(cache, last) ==
  [cache EXCEPT
     !.first = last.first,
     !.nodeActions = [p \in Places(last) \cup (Places(cache) \ {cache.first}) |->
                        IF p \in Places(last) THEN last.nodeActions[p] ELSE cache.nodeActions[p]],
     !.mappedActions = @ \cup last.mappedActions,
     !.lastActionStates = last.lastActionStates,
     !.lastNodeTraversed = last.lastNodeTraversed,
     !.lastEdgeProcessed = last.lastEdgeProcessed,
     !.ready = last.ready]

(* Fault (EventsAdvance): what was reported before is not taken over.      *)
StitchFromStart(cache, last) ==
  LET kept == {p \in Places(last) : Released(p)} IN
  [cache EXCEPT
     !.first = last.first,
     !.nodeActions = [p \in kept \cup (Places(cache) \ {cache.first}) |->
                        IF p \in kept THEN last.nodeActions[p] ELSE cache.nodeActions[p]],
     !.mappedActions = @ \cup last.mappedActions,
     !.lastActionStates = last.lastActionStates]

(***************************************************************************)
(* Stitching: the cache takes over from the last active one.  The horizon  *)
(* is dropped, and the actions of the first node are joined to those of    *)
(* the base end.                                                           *)
(***************************************************************************)
Stitch(cache, last) ==
  LET kept == {p \in Places(last) : Released(p)}
      baseEnd == CHOOSE p \in kept : \A q \in kept : q.seq <= p.seq
  IN [cache EXCEPT
        !.first = last.first,
        !.nodeActions = [p \in kept \cup (Places(cache) \ {cache.first}) |->
                           IF p = baseEnd THEN last.nodeActions[p] \cup cache.nodeActions[cache.first]
                           ELSE IF p \in kept THEN last.nodeActions[p] ELSE cache.nodeActions[p]],
        !.mappedActions = @ \cup last.mappedActions,
        !.lastActionStates = last.lastActionStates,
        !.lastNodeTraversed = last.lastNodeTraversed,
        !.lastEdgeProcessed = last.lastEdgeProcessed,
        !.ready = last.ready]

-----------------------------------------------------------------------------
(* Dispatching a State message, which is the state of the AGV right now.   *)

SameNode(p, q) == p.seq = q.seq /\ NodeIdOf(p) = NodeIdOf(q)

InNodeStates(p) == p.seq \in nodeStates /\ SameNode(p, PlaceIn(currentOrder, p.seq))

InEdgeStates(p) == p.seq \in edgeStates /\ p = PlaceIn(currentOrder, p.seq)

(* _isOrderCanceling looks at the first cancelOrder action only.           *)
IsOrderCanceling(statuses) ==
  initiated # << >> /\ cancelStates[Head(initiated)] \in statuses

(* Any node or edge action whose status has changed (onActionStateChanged).*)
UpdateActions(cache) ==
  [cache EXCEPT !.lastActionStates =
     [a \in Action |-> IF a \in cache.mappedActions /\ actionStates[a] # "ABSENT"
                       THEN actionStates[a] ELSE @[a]]]

(* _getNextReleasedEdge *)
NextReleasedEdges(cache) ==
  {p \in Places(cache) :
     /\ ~ IsNode(p.seq) /\ Released(p)
     /\ p.seq = cache.lastNodeTraversed.seq + 1
     /\ Msg[p.order].nodeId[p.seq - 1] = NodeIdOf(cache.lastNodeTraversed)}

(* _areAllBlockingActionsEnded *)
AreAllBlockingActionsEnded(cache) ==
  \A a \in cache.nodeActions[cache.lastNodeTraversed] :
    Blocking[a] = "NONE" \/ actionStates[a] = "ENDED"

(* processEdgeEvents: onEdgeTraversed, or onEdgeTraversing.                *)
EdgeEvents(cache) ==
  IF \/ cache.lastNodeTraversed = None
     \/ IsOrderCanceling({"RUNNING", "FINISHED"})
     \/ NextReleasedEdges(cache) = {}
  THEN cache
  ELSE LET edge == CHOOSE p \in NextReleasedEdges(cache) : TRUE IN
       IF InEdgeStates(edge)
       THEN [cache EXCEPT !.ready = @ \/ AreAllBlockingActionsEnded(cache)]
       ELSE IF cache.lastEdgeProcessed = edge THEN cache
       ELSE [cache EXCEPT !.ready = FALSE, !.lastEdgeProcessed = edge]

(* The next node that has been traversed, if any: the first one when it is *)
(* not reported ahead any more, then the last node of the State message.   *)
NextNodes(cache) ==
  IF cache.lastNodeTraversed = None
  THEN {p \in {cache.first} : ~ InNodeStates(p)}
  ELSE {p \in Places(cache) : IsNode(p.seq) /\ lastNode # None /\ SameNode(p, lastNode)
                              /\ ~ SameNode(p, cache.lastNodeTraversed)}

(* onNodeTraversed, followed by the first event for the trailing edge.     *)
NodeEvents(cache) ==
  IF NextNodes(cache) = {} THEN cache
  ELSE EdgeEvents([cache EXCEPT !.lastNodeTraversed = CHOOSE p \in NextNodes(cache) : TRUE])

(* Fault (OrdersReported): a horizon has to be traversed, too.             *)
IsProcessedWithHorizon(cache) ==
  IF \/ nodeStates \cup edgeStates # {}
     \/ \E a \in cache.mappedActions : cache.lastActionStates[a] # "ENDED"
  THEN "no"
  ELSE "completed"

(* Fault (ProcessedTruly): actions are not looked at.                      *)
IsRouteTraversed(cache) ==
  IF \E s \in nodeStates \cup edgeStates : s <= currentOrder.base
  THEN "no"
  ELSE IF nodeStates \cup edgeStates = {} THEN "completed" ELSE "active"

(* _isOrderProcessed *)
IsOrderProcessed(cache) ==
  IF \/ \E s \in nodeStates \cup edgeStates : s <= currentOrder.base
     \/ \E a \in cache.mappedActions : cache.lastActionStates[a] # "ENDED"
  THEN "no"
  ELSE IF nodeStates \cup edgeStates = {} THEN "completed" ELSE "active"

(* Fault (ReportedOnce): an order that was reported stays unmarked.        *)
WithoutMark(cache, result) == cache

(* isOrderProcessedHandlerInvoked; a completed order is not stitched any   *)
(* more, so that the chain of last caches ends.                            *)
Mark(cache, result) ==
  [cache EXCEPT !.processed = @ \/ result # "no",
                !.lastCache = IF result = "completed" /\ ~ cache.processed THEN None ELSE @]

ByCancelation(result) == IF IsOrderCanceling({"FINISHED"}) THEN "canceled" ELSE result

(***************************************************************************)
(* _dispatchOrderState for the cache of the current order: stitching, then *)
(* the events of actions, edges and nodes, then onOrderProcessed.  `kept`  *)
(* are the caches left, and `reports` the invocations made, by rejections. *)
(***************************************************************************)
DispatchOrderState(o, kept, reports) ==
  \E last \in {LastActive(o, kept)} :
  \E stitched \in {IF last = None THEN caches[o] ELSE Stitch(caches[o], caches[last])} :
  \E updated \in {UpdateActions(stitched)} :
  \E driven \in {EdgeEvents(updated)} :
  \E dispatched \in {NodeEvents(driven)} :
    LET result == IsOrderProcessed(dispatched)
        invoked == result # "no" /\ ~ dispatched.processed
    IN /\ caches' = [x \in DOMAIN caches |->
                       IF x = o THEN Mark(dispatched, result)
                       ELSE IF x = last THEN [caches[x] EXCEPT !.lastCache = None]
                       ELSE caches[x]]
       /\ registered' = kept \ ({last} \cup (IF invoked /\ result = "completed" THEN {o} ELSE {}))
       /\ outcomes' = IF invoked THEN [reports EXCEPT ![o] = Append(@, ByCancelation(result))]
                      ELSE reports

(* Fault (RejectedNotExecuted): errors of actions are not skipped.         *)
RejectedByAnyError ==
  {o \in registered : \E r \in rejections : Identity(r.order) = Identity(o)}
    \cup (IF agvErrors # {} THEN {lastAssigned} \ {None} ELSE {})

(* The orders that errors of a State message are taken to reject; an error *)
(* without orderId and actionId rejects the order assigned last.           *)
RejectedOrders ==
  {o \in registered : \E r \in rejections : Identity(r.order) = Identity(o)}
    \cup (IF "unreferenced" \in agvErrors THEN {lastAssigned} \ {None} ELSE {})

(***************************************************************************)
(* _dispatchState: rejections first, then the current order, then the      *)
(* instant actions, which are forgotten when they have ended.              *)
(***************************************************************************)
DispatchState ==
  LET kept == registered \ RejectedOrders
      reports == [o \in Orders |-> IF o \in RejectedOrders THEN Append(outcomes[o], "rejected")
                                   ELSE outcomes[o]]
  IN /\ IF CurrentCaches(kept) = {}
        THEN registered' = kept /\ outcomes' = reports /\ UNCHANGED caches
        ELSE \E o \in CurrentCaches(kept) : DispatchOrderState(o, kept, reports)
     /\ lastAssigned' = IF registered' = {} THEN None ELSE lastAssigned
     /\ initiated' = Kept(initiated, {c \in Cancels : cancelStates[c] \in {"UNSENT", "RUNNING"}})
     /\ upToDate' = TRUE
     /\ UNCHANGED <<vars, plan, preceding, orderTopic, publishing, canceled, agvErrors>>

-----------------------------------------------------------------------------
(* Master control: what it assigns and initiates, as assignOrder requires. *)

(* By VDA 5050, sequenceIds start from 0 in a new order.                   *)
IsNew(o) == Msg[o].first = 0

StitchesOnto(o, p) ==
  /\ Msg[o].first = Msg[p].base
  /\ Msg[o].nodeId[Msg[o].first] = Msg[p].nodeId[Msg[p].base]

IsAssigned(o) == \E x \in registered : Identity(x) = Identity(o)

Sent(o) == o \notin inbox \/ \E i \in DOMAIN orderTopic : orderTopic[i] = o

(* An order extends the one sent before it, or is sent when events have    *)
(* told that no order is active.  An order is assigned once more for lack  *)
(* of events, or because its publication failed.                           *)
MayAssign(o) ==
  \/ IsAssigned(o)
  \/ /\ ~ Sent(o)
     /\ \/ IsNew(o) /\ (registered = {} \/ (preceding \in canceled /\ initiated = << >>))
        \/ preceding # None /\ Sent(preceding) /\ StitchesOnto(o, preceding)

(***************************************************************************)
(* assignOrder: a message for an order that is registered is discarded,    *)
(* otherwise it is sent, unless its publication is going to fail.          *)
(***************************************************************************)
AssignOrder ==
  /\ plan.orders # << >> /\ publishing = {}
  /\ LET o == Head(plan.orders) IN
     /\ MayAssign(o)
     /\ plan' = [plan EXCEPT !.orders = Tail(@)]
     /\ IF IsAssigned(o)
        THEN UNCHANGED <<preceding, orderTopic, publishing, caches, registered, lastAssigned>>
        ELSE /\ preceding' = o
             /\ caches' = [x \in DOMAIN caches \cup {o} |-> IF x = o THEN NewCache(o) ELSE caches[x]]
             /\ registered' = registered \cup {o}
             /\ lastAssigned' = o
             /\ \/ orderTopic' = Append(orderTopic, o) /\ UNCHANGED publishing
                \/ publishing' = {o} /\ UNCHANGED orderTopic
  /\ UNCHANGED <<vars, outcomes, initiated, upToDate, canceled, agvErrors>>

(* The publication fails and assignOrder rejects; lastCache is kept.       *)
(* Master control gives up the orders to be stitched onto this one.        *)
PublishFails ==
  /\ publishing # {}
  /\ publishing' = {}
  /\ registered' = registered \ publishing
  /\ lastAssigned' = IF registered' = {} THEN None ELSE lastAssigned
  /\ plan' = [plan EXCEPT !.orders = Kept(@, {o \in Orders : IsNew(o)})]
  /\ UNCHANGED <<vars, caches, outcomes, initiated, preceding, orderTopic,
                 upToDate, canceled, agvErrors>>

(* initiateInstantActions with cancelOrder, one at a time.                 *)
InitiateCancelOrder ==
  /\ env.cancels
  /\ plan.cancels # << >> /\ initiated = << >> /\ preceding # None
  /\ initiated' = <<Head(plan.cancels)>>
  /\ plan' = [plan EXCEPT !.cancels = Tail(@)]
  /\ UNCHANGED <<vars, cacheVars, preceding, orderTopic, publishing, upToDate, canceled, agvErrors>>

-----------------------------------------------------------------------------
(* The AGV: module AgvOrder, fed by master control. *)

(* An order that is accepted clears errors (_getNonOrderRejectionErrors).  *)
ReceiveAssigned ==
  /\ orderTopic # << >> /\ upToDate
  /\ upToDate' = FALSE
  /\ ReceiveOrder(Head(orderTopic))
  /\ orderTopic' = Tail(orderTopic)
  /\ agvErrors' = IF currentOrder' = currentOrder THEN agvErrors
                  ELSE IF OrderMode(Head(orderTopic)) = "stitch" THEN agvErrors \cap {"orderAction"}
                  ELSE {}
  /\ UNCHANGED <<cacheVars, initiated, plan, preceding, publishing, canceled>>

ReceiveCancelOrder ==
  /\ upToDate' = FALSE
  /\ \E c \in {initiated[i] : i \in DOMAIN initiated} : CancelOrder(c)
  /\ canceled' = IF cancelContext' # cancelContext
                 THEN canceled \cup CurrentCaches(Orders) ELSE canceled
  /\ UNCHANGED <<cacheVars, initiated, plan, preceding, orderTopic, publishing, agvErrors>>

Adapter(Step) ==
  /\ Step
  /\ upToDate' = FALSE
  /\ UNCHANGED <<cacheVars, initiated, plan, preceding, orderTopic, publishing, canceled, agvErrors>>

AdapterStep ==
  \/ Adapter(\E c \in scheduled : StartAction(c))
  \/ Adapter(\E c \in scheduled : EndAction(c))
  \/ Adapter(\E i \in DOMAIN traversing : EdgeTraversed(i))
  \/ Adapter(DrivingToNextNode)
  \/ Adapter(Stopped)
  \/ Adapter(StartPause)
  \/ Adapter(StopPause)

(* The adapter reports an error: updateActionStatus with status FAILED, or *)
(* updateErrors.                                                           *)
ReportAgvError ==
  /\ upToDate' = FALSE
  /\ \E e \in plan.errors \ agvErrors :
       /\ e = "orderAction" => \E a \in Action : actionStates[a] = "ENDED"
       /\ agvErrors' = agvErrors \cup {e}
  /\ UNCHANGED <<vars, cacheVars, initiated, plan, preceding, orderTopic, publishing, canceled>>

-----------------------------------------------------------------------------
SystemInit ==
  /\ Init
  /\ caches = [o \in {} |-> None]
  /\ registered = {} /\ lastAssigned = None /\ initiated = << >>
  /\ plan \in Plans
  /\ preceding = None /\ orderTopic = << >> /\ publishing = {}
  /\ outcomes = [o \in Orders |-> << >>]
  /\ upToDate = TRUE /\ canceled = {} /\ agvErrors = {}

SystemNext ==
  \/ DispatchState
  \/ AssignOrder
  \/ PublishFails
  \/ InitiateCancelOrder
  \/ ReceiveAssigned
  \/ ReceiveCancelOrder
  \/ AdapterStep
  \/ ReportAgvError

(* State messages, order messages and cancelOrder arrive, and the adapter  *)
(* keeps its contract.  The first two are written with the one variable    *)
(* that no other action changes in this way.                               *)
StateArrives == upToDate' = TRUE

OrderArrives == upToDate /\ orderTopic # << >> /\ orderTopic' = Tail(orderTopic)

SystemFairness ==
  /\ WF_upToDate(StateArrives)
  /\ WF_orderTopic(OrderArrives)
  /\ WF_allVars(PublishFails)
  /\ WF_allVars(ReceiveCancelOrder)
  /\ WF_allVars(Adapter(\E c \in scheduled : EndAction(c)))
  /\ WF_allVars(Adapter(\E i \in DOMAIN traversing : EdgeTraversed(i)))
  /\ WF_allVars(Adapter(Stopped))
  /\ WF_allVars(Adapter(paused /\ StopPause))

System == SystemInit /\ [][SystemNext]_allVars /\ SystemFairness
-----------------------------------------------------------------------------
(* Properties *)

CacheOK(cache) ==
  /\ cache.lastCache \in Orders \cup {None}
  /\ cache.first \in NodePlace /\ cache.first \in Places(cache)
  /\ cache.nodeActions \in [Places(cache) -> SUBSET Action] /\ Places(cache) \subseteq Place
  /\ cache.mappedActions \subseteq Action
  /\ cache.lastActionStates \in [Action -> Status]
  /\ cache.lastNodeTraversed \in NodePlace \cup {None}
  /\ cache.lastEdgeProcessed \in EdgePlace \cup {None}
  /\ cache.ready \in BOOLEAN /\ cache.processed \in BOOLEAN

(* Every variable stays within the values the code can give it.            *)
SystemTypeOK ==
  /\ registered \subseteq DOMAIN caches /\ DOMAIN caches \subseteq Orders
  /\ \A o \in DOMAIN caches : CacheOK(caches[o])
  /\ lastAssigned \in Orders \cup {None} /\ (lastAssigned = None <=> registered = {})
  /\ initiated \in Seq(Cancels)
  /\ outcomes \in [Orders -> Seq({"completed", "active", "canceled", "rejected"})]
  /\ orderTopic \in Seq(Orders) /\ publishing \subseteq registered
  /\ agvErrors \subseteq AgvErrors /\ upToDate \in BOOLEAN

(* The cache State messages are dispatched to has been brought up to date. *)
Dispatched(o) == caches[o].lastNodeTraversed # None

(***************************************************************************)
(* Stitching in the master controller mirrors stitching in the AGV: once a *)
(* State of an order has been dispatched, its cache holds the route and    *)
(* the actions that the AGV has, and reports nothing ahead of the AGV.     *)
(***************************************************************************)
SameRoute ==
  \A o \in CurrentCaches(registered) :
    Dispatched(o) /\ hasActiveOrder =>
      /\ Places(caches[o]) = {PlaceIn(currentOrder, s) : s \in currentOrder.first .. currentOrder.last}
      /\ \A p \in Places(caches[o]) : caches[o].nodeActions[p] = ActionSet(p, actions)
      /\ caches[o].mappedActions = ReleasedActions(currentOrder, actions)
      /\ caches[o].lastNodeTraversed.seq <= lastNode.seq

(***************************************************************************)
(* onOrderProcessed is invoked once for an order, and byCancelation tells  *)
(* whether master control canceled it: it is not reported as completed     *)
(* then, nor as canceled otherwise (_dispatchOrderState).                  *)
(***************************************************************************)
ReportedOnce ==
  \A o \in Orders :
    /\ Len(outcomes[o]) <= 1
    /\ \A i \in DOMAIN outcomes[o] :
         /\ outcomes[o][i] = "completed" => o \notin canceled
         /\ outcomes[o][i] = "canceled" => o \in canceled

Progress(cache) ==
  IF cache.lastEdgeProcessed # None /\ cache.lastEdgeProcessed.seq > cache.lastNodeTraversed.seq
  THEN cache.lastEdgeProcessed.seq
  ELSE cache.lastNodeTraversed.seq

(***************************************************************************)
(* Events of nodes and edges follow the route: none is reported a second   *)
(* time or after a later one, also across orders stitched onto each other. *)
(***************************************************************************)
TakesOver(x, o) == o \notin registered' /\ outcomes'[o] = outcomes[o] /\ x # o

EventsAdvance ==
  [][\A o \in registered, x \in DOMAIN caches :
       /\ Dispatched(o)
       /\ x = o \/ TakesOver(x, o)
       /\ caches'[x] # caches[x] /\ caches'[x].lastNodeTraversed # None
       => Progress(caches'[x]) >= Progress(caches[o])]_allVars

(***************************************************************************)
(* onOrderProcessed without an error: the AGV has completed the base of    *)
(* this order, and `active` says whether it still has an active order.     *)
(***************************************************************************)
ProcessedTruly ==
  [][\A o \in Orders :
       outcomes'[o] # outcomes[o] /\ outcomes'[o][Len(outcomes'[o])] \in {"completed", "active"} =>
         /\ o \in CurrentCaches(Orders) /\ BaseCompleted
         /\ (outcomes'[o][Len(outcomes'[o])] = "active") <=> hasActiveOrder]_allVars

(* An order that is reported as rejected is not executed by the AGV.       *)
RejectedNotExecuted ==
  \A o \in Orders : \A i \in DOMAIN outcomes[o] :
    outcomes[o][i] = "rejected" => o \notin CurrentCaches(Orders)

(***************************************************************************)
(* Every order that was sent is reported eventually (processed, canceled   *)
(* or rejected), unless a stitching order takes over its events.           *)
(***************************************************************************)
OrdersReported ==
  \A o \in Orders : o \in registered ~> o \notin registered \/ outcomes[o] # << >>
=============================================================================
