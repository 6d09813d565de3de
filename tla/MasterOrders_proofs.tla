------------------------ MODULE MasterOrders_proofs ------------------------
(***************************************************************************)
(* Theorems about orders as master control knows them.                     *)
(***************************************************************************)
EXTENDS MasterOrders, AgvOrder_proofs, Lists_proofs

-----------------------------------------------------------------------------
(* The AGV within the system *)

Outcome == {"completed", "active", "canceled", "rejected"}

(* What is sent, and to whom.                                              *)
SystemTypes ==
  /\ plan \in [orders : Seq(Orders), cancels : Seq(Cancels), errors : SUBSET AgvErrors]
  /\ orderTopic \in Seq(Orders)
  /\ initiated \in Seq(Cancels)
  /\ registered \subseteq Orders /\ publishing \subseteq Orders
  /\ outcomes \in [Orders -> Seq(Outcome)]
  /\ agvErrors \subseteq plan.errors

LEMMA SystemInitTypes == SystemInit => SystemTypes
BY PlansAssumption DEF SystemInit, SystemTypes

(* Reports of an order, after those of rejections.                         *)
Rejections == [o \in Orders |-> IF o \in RejectedOrders THEN Append(outcomes[o], "rejected")
                                ELSE outcomes[o]]

(* What a State message makes of the reports: an order may be reported     *)
(* that is the current one, and not as rejected.                           *)
LEMMA DispatchFacts ==
  ASSUME SystemTypes, DispatchState
  PROVE  /\ registered' \subseteq Orders
         /\ \/ outcomes' = Rejections
            \/ \E o \in CurrentCaches(Orders) : \E r \in Outcome \ {"rejected"} :
                 outcomes' = [Rejections EXCEPT ![o] = Append(@, r)]
<1> DEFINE kept == registered \ RejectedOrders
<1>1. kept \subseteq Orders
  BY DEF SystemTypes
<1>2. CASE CurrentCaches(kept) = {}
  BY <1>1, <1>2 DEF DispatchState, Rejections
<1>3. CASE CurrentCaches(kept) # {}
  <2>1. PICK o \in CurrentCaches(kept) : DispatchOrderState(o, kept, Rejections)
    BY <1>3 DEF DispatchState, Rejections
  <2>2. o \in CurrentCaches(Orders)
    BY <1>1, <2>1 DEF CurrentCaches
  <2>3. /\ registered' \subseteq kept
        /\ \/ outcomes' = Rejections
           \/ \E d : /\ IsOrderProcessed(d) # "no"
                     /\ outcomes' = [Rejections EXCEPT ![o] = Append(@, ByCancelation(IsOrderProcessed(d)))]
    BY <2>1 DEF DispatchOrderState
  <2>4. ASSUME NEW d, IsOrderProcessed(d) # "no"
        PROVE  ByCancelation(IsOrderProcessed(d)) \in Outcome \ {"rejected"}
    BY <2>4 DEF IsOrderProcessed, ByCancelation, Outcome
  <2> QED
    BY <1>1, <2>2, <2>3, <2>4
<1> QED
  BY <1>2, <1>3

LEMMA SystemNextTypes ==
  ASSUME SystemTypes, [SystemNext]_allVars
  PROVE  SystemTypes'
<1>1. CASE DispatchState
  <2>1. registered' \subseteq Orders
    BY <1>1, DispatchFacts
  <2>2. Rejections \in [Orders -> Seq(Outcome)]
    BY DEF Rejections, SystemTypes, Outcome
  <2>3. outcomes' \in [Orders -> Seq(Outcome)]
    <3>1. ASSUME NEW o \in Orders, NEW r \in Outcome
          PROVE  [Rejections EXCEPT ![o] = Append(@, r)] \in [Orders -> Seq(Outcome)]
      BY <2>2
    <3>2. CurrentCaches(Orders) \subseteq Orders
      BY DEF CurrentCaches
    <3>3. CASE outcomes' = Rejections
      BY <2>2, <3>3
    <3>4. CASE \E o \in CurrentCaches(Orders) : \E r \in Outcome \ {"rejected"} :
                 outcomes' = [Rejections EXCEPT ![o] = Append(@, r)]
      <4>1. PICK o \in CurrentCaches(Orders), r \in Outcome \ {"rejected"} :
              outcomes' = [Rejections EXCEPT ![o] = Append(@, r)]
        BY <3>4
      <4>2. o \in Orders /\ r \in Outcome
        BY <3>2, <4>1
      <4> QED
        BY <3>1, <4>1, <4>2
    <3> QED
      BY <1>1, <3>3, <3>4, DispatchFacts
  <2>4. initiated' \in Seq(Cancels)
    <3>1. PICK S : initiated' = Kept(initiated, S)
      BY <1>1 DEF DispatchState
    <3> QED
      BY <3>1, KeptFacts DEF SystemTypes
  <2> QED
    BY <1>1, <2>1, <2>3, <2>4 DEF DispatchState, SystemTypes
<1>2. CASE AssignOrder
  <2>1. Head(plan.orders) \in Orders /\ Tail(plan.orders) \in Seq(Orders)
    BY <1>2 DEF AssignOrder, SystemTypes
  <2>2. plan' = [plan EXCEPT !.orders = Tail(plan.orders)]
    BY <1>2 DEF AssignOrder
  <2>3. /\ registered' \subseteq Orders /\ publishing' \subseteq Orders
        /\ orderTopic' \in Seq(Orders)
    <3>1. PICK o \in Orders : o = Head(plan.orders)
      BY <2>1
    <3>2. Append(orderTopic, o) \in Seq(Orders)
      BY DEF SystemTypes
    <3>3. /\ registered' = registered \/ registered' = registered \cup {o}
          /\ publishing' = publishing \/ publishing' = {o}
          /\ orderTopic' = orderTopic \/ orderTopic' = Append(orderTopic, o)
      BY <1>2, <3>1, Zenon DEF AssignOrder
    <3> QED
      BY <3>2, <3>3 DEF SystemTypes
  <2> QED
    BY <1>2, <2>1, <2>2, <2>3 DEF AssignOrder, SystemTypes
<1>3. CASE PublishFails
  <2>1. PICK S : plan' = [plan EXCEPT !.orders = Kept(plan.orders, S)]
    BY <1>3 DEF PublishFails
  <2>2. Kept(plan.orders, S) \in Seq(Orders)
    BY KeptFacts DEF SystemTypes
  <2> QED
    BY <1>3, <2>1, <2>2 DEF PublishFails, SystemTypes
<1>4. CASE InitiateCancelOrder
  <2>1. Head(plan.cancels) \in Cancels /\ Tail(plan.cancels) \in Seq(Cancels)
    BY <1>4 DEF InitiateCancelOrder, SystemTypes
  <2>2. plan' = [plan EXCEPT !.cancels = Tail(plan.cancels)]
    BY <1>4 DEF InitiateCancelOrder
  <2>3. initiated' \in Seq(Cancels)
    <3>1. PICK c \in Cancels : c = Head(plan.cancels)
      BY <2>1
    <3>2. initiated' = <<c>>
      BY <1>4, <3>1 DEF InitiateCancelOrder
    <3> QED
      BY <3>2
  <2> QED
    BY <1>4, <2>1, <2>2, <2>3 DEF InitiateCancelOrder, SystemTypes, cacheVars
<1>5. CASE ReceiveAssigned
  BY <1>5 DEF ReceiveAssigned, SystemTypes, cacheVars
<1>6. CASE ReceiveCancelOrder
  BY <1>6 DEF ReceiveCancelOrder, SystemTypes, cacheVars
<1>7. CASE AdapterStep
  BY <1>7 DEF AdapterStep, Adapter, SystemTypes, cacheVars
<1>8. CASE ReportAgvError
  BY <1>8 DEF ReportAgvError, SystemTypes, cacheVars
<1>9. CASE UNCHANGED allVars
  BY <1>9 DEF allVars, systemVars, cacheVars, SystemTypes
<1> QED
  BY <1>1, <1>2, <1>3, <1>4, <1>5, <1>6, <1>7, <1>8, <1>9 DEF SystemNext

(* Every step of the system is a step of the AGV, or changes none of its   *)
(* variables.                                                              *)
LEMMA SystemStep ==
  ASSUME SystemTypes, [SystemNext]_allVars
  PROVE  [Next]_vars
<1>1. CASE DispatchState
  BY <1>1 DEF DispatchState
<1>2. CASE AssignOrder
  BY <1>2 DEF AssignOrder
<1>3. CASE PublishFails
  BY <1>3 DEF PublishFails
<1>4. CASE InitiateCancelOrder
  BY <1>4 DEF InitiateCancelOrder
<1>5. CASE ReceiveAssigned
  <2>1. Head(orderTopic) \in Orders /\ ReceiveOrder(Head(orderTopic))
    BY <1>5 DEF ReceiveAssigned, SystemTypes
  <2> QED
    BY <2>1 DEF Next
<1>6. CASE ReceiveCancelOrder
  <2>1. {initiated[i] : i \in DOMAIN initiated} \subseteq Cancels
    BY DEF SystemTypes
  <2>2. \E c \in Cancels : CancelOrder(c)
    BY <1>6, <2>1 DEF ReceiveCancelOrder
  <2> QED
    BY <2>2 DEF Next
<1>7. CASE AdapterStep
  BY <1>7, Zenon DEF AdapterStep, Adapter, Next
<1>8. CASE ReportAgvError
  BY <1>8 DEF ReportAgvError
<1>9. CASE UNCHANGED allVars
  BY <1>9 DEF allVars
<1> QED
  BY <1>1, <1>2, <1>3, <1>4, <1>5, <1>6, <1>7, <1>8, <1>9 DEF SystemNext

(* The system never shows the AGV controller anything that AgvOrder does   *)
(* not foresee (_processOrder is invoked for orders on their topic, and    *)
(* _cancelOrder for cancelOrder actions): its invariants hold here too.    *)
THEOREM SystemRunsAgv == System => Init /\ [][Next]_vars
<1>1. SystemInit => Init /\ SystemTypes
  BY SystemInitTypes DEF SystemInit
<1>2. SystemTypes /\ [SystemNext]_allVars => SystemTypes'
  BY SystemNextTypes
<1>3. SystemTypes /\ [SystemNext]_allVars => [Next]_vars
  BY SystemStep
<1> QED
  BY <1>1, <1>2, <1>3, PTL DEF System

(* The errors the AGV may report are given with the plan.                  *)
LEMMA PlanErrors ==
  ASSUME SystemTypes, [SystemNext]_allVars
  PROVE  plan'.errors = plan.errors
<1>1. CASE AssignOrder
  BY <1>1 DEF AssignOrder, SystemTypes
<1>2. CASE PublishFails
  BY <1>2 DEF PublishFails, SystemTypes
<1>3. CASE InitiateCancelOrder
  BY <1>3 DEF InitiateCancelOrder, SystemTypes
<1>4. CASE UNCHANGED plan
  BY <1>4
<1> QED
  BY <1>1, <1>2, <1>3, <1>4 DEF SystemNext, DispatchState, ReceiveAssigned, ReceiveCancelOrder,
     AdapterStep, Adapter, ReportAgvError, allVars, systemVars

(* Only a State message makes reports.                                     *)
LEMMA OtherOutcomes ==
  ASSUME [SystemNext]_allVars
  PROVE  DispatchState \/ outcomes' = outcomes
BY DEF SystemNext, AssignOrder, PublishFails, InitiateCancelOrder, ReceiveAssigned, ReceiveCancelOrder,
   AdapterStep, Adapter, ReportAgvError, allVars, systemVars, cacheVars

-----------------------------------------------------------------------------
(* Rejections *)

(***************************************************************************)
(* Orders have identities of their own, and the errors the AGV reports     *)
(* beside rejections have references: one without is taken for a rejection *)
(* (_dispatchState).                                                       *)
(***************************************************************************)
UniqueIdentities == \A o, p \in Orders : Identity(o) = Identity(p) => o = p

ErrorsRefer == \A p \in Plans : "unreferenced" \notin p.errors

(* The AGV has not received o, or has it as its current order.             *)
Current(o) == Identity(o) = <<currentOrder.orderId, currentOrder.orderUpdateId>>

Refused(o) == o \in Orders \ inbox /\ ~ Current(o)

(* The current order is one that was received; an order that was rejected, *)
(* or reported as such, was received and is not the current one.           *)
RejectionInv ==
  /\ currentOrder.orderId # None => \E o \in Orders \ inbox : Current(o)
  /\ \A r \in rejections : Refused(r.order)
  /\ \A o \in Orders : \A i \in DOMAIN outcomes[o] : outcomes[o][i] = "rejected" => Refused(o)

LEMMA IdentityFacts ==
  ASSUME NEW o \in Orders
  PROVE  Identity(o) # <<None, NoOrder.orderUpdateId>> /\ Msg[o].orderId # None
<1>1. Msg[o].orderId \in OrderId
  BY MessageFacts
<1>2. Msg[o].orderId # None
  BY <1>1, EnvironmentAssumption
<1> QED
  BY <1>2 DEF Identity

(* What the AGV does with an order.                                        *)
LEMMA ReceiveFacts ==
  ASSUME NEW o \in Orders, ReceiveOrder(o)
  PROVE  /\ o \in inbox /\ inbox' = inbox \ {o}
         /\ \/ /\ currentOrder' = currentOrder
               /\ \A r \in rejections' : r \in rejections \/ r.order = o
            \/ /\ Identity(o) = <<currentOrder'.orderId, currentOrder'.orderUpdateId>>
               /\ currentOrder'.orderId # None
               /\ rejections' \subseteq rejections
<1>1. o \in inbox /\ inbox' = inbox \ {o}
  BY DEF ReceiveOrder
<1>2. CASE RejectOrder(o)
  BY <1>1, <1>2 DEF RejectOrder
<1>3. CASE DiscardOrder(o)
  BY <1>1, <1>3 DEF DiscardOrder, controllerVars
<1>4. CASE ReplaceOrder(o)
  BY <1>1, <1>4, IdentityFacts DEF ReplaceOrder, Identity
<1>5. CASE StitchOrder(o)
  BY <1>1, <1>5, IdentityFacts DEF StitchOrder, Identity
<1> QED
  BY <1>1, <1>2, <1>3, <1>4, <1>5 DEF ReceiveOrder

(* Steps but ReceiveOrder concern neither the orders received nor rejected.*)
LEMMA OtherFacts ==
  ASSUME [Next]_vars
  PROVE  \/ UNCHANGED <<currentOrder, rejections, inbox>>
         \/ \E o \in Orders : ReceiveOrder(o)
<1>1. CASE \E c \in scheduled : StartAction(c)
  BY <1>1 DEF StartAction, masterVars
<1>2. CASE \E c \in scheduled : EndAction(c)
  BY <1>2 DEF EndAction, masterVars
<1>3. CASE \E i \in DOMAIN traversing : EdgeTraversed(i)
  BY <1>3 DEF EdgeTraversed, masterVars
<1>4. CASE \E c \in Cancels : CancelOrder(c)
  BY <1>4 DEF CancelOrder
<1>5. CASE DrivingToNextNode
  BY <1>5 DEF DrivingToNextNode, masterVars
<1>6. CASE Stopped
  BY <1>6 DEF Stopped
<1>7. CASE StartPause \/ StopPause \/ PushPauseButton
  BY <1>7 DEF StartPause, StopPause, PushPauseButton, masterVars
<1>8. CASE UNCHANGED vars
  BY <1>8 DEF vars, controllerVars, masterVars
<1> QED
  BY <1>1, <1>2, <1>3, <1>4, <1>5, <1>6, <1>7, <1>8 DEF Next

(* A step of the AGV that reports nothing.                                 *)
LEMMA AgvRejections ==
  ASSUME RejectionInv, UniqueIdentities, [Next]_vars, outcomes' = outcomes
  PROVE  RejectionInv'
<1>1. CASE UNCHANGED <<currentOrder, rejections, inbox>>
  BY <1>1 DEF RejectionInv, Refused, Current
<1>2. CASE \E o \in Orders : ReceiveOrder(o)
  <2>1. PICK o \in Orders : ReceiveOrder(o)
    BY <1>2
  <2>2. o \in inbox /\ inbox' = inbox \ {o}
    BY <2>1, ReceiveFacts
  <2>3. ASSUME NEW x \in Orders \ inbox
        PROVE  x \in Orders \ inbox' /\ Identity(x) # Identity(o)
    BY <2>2 DEF UniqueIdentities
  <2>4. CASE /\ currentOrder' = currentOrder
             /\ \A r \in rejections' : r \in rejections \/ r.order = o
    <3>1. \A x : Current(x)' <=> Current(x)
      BY <2>4 DEF Current, Identity
    <3>2. ~ Current(o)
      <4>1. CASE currentOrder.orderId = None
        BY <4>1, IdentityFacts DEF Current, Identity
      <4>2. CASE currentOrder.orderId # None
        <5>1. PICK x \in Orders \ inbox : Current(x)
          BY <4>2 DEF RejectionInv
        <5> QED
          BY <2>3, <5>1 DEF Current
      <4> QED
        BY <4>1, <4>2
    <3>3. \A x : Refused(x) => Refused(x)'
      BY <2>3, <3>1 DEF Refused
    <3>4. Refused(o)'
      BY <2>2, <3>1, <3>2 DEF Refused
    <3> QED
      BY <2>3, <2>4, <3>1, <3>3, <3>4 DEF RejectionInv
  <2>5. CASE /\ Identity(o) = <<currentOrder'.orderId, currentOrder'.orderUpdateId>>
             /\ currentOrder'.orderId # None
             /\ rejections' \subseteq rejections
    <3>1. \A x : Current(x)' <=> Identity(x) = Identity(o)
      BY <2>5 DEF Current, Identity
    <3>2. \A x : Refused(x) => Refused(x)'
      BY <2>3, <3>1 DEF Refused
    <3>3. o \in Orders \ inbox' /\ Current(o)'
      BY <2>2, <3>1
    <3> QED
      BY <2>5, <3>2, <3>3 DEF RejectionInv
  <2> QED
    BY <2>1, <2>4, <2>5, ReceiveFacts
<1> QED
  BY <1>1, <1>2, OtherFacts

(* A State message is dispatched: what it reports as rejected, the AGV has *)
(* rejected.                                                               *)
LEMMA DispatchRejections ==
  ASSUME RejectionInv, SystemTypes, UniqueIdentities, DispatchState, "unreferenced" \notin agvErrors
  PROVE  RejectionInv'
<1>1. UNCHANGED <<currentOrder, rejections, inbox>>
  BY DEF DispatchState, vars, controllerVars, masterVars
<1>2. \A x : Refused(x)' <=> Refused(x)
  BY <1>1 DEF Refused, Current, Identity
<1>3. ASSUME NEW o \in RejectedOrders
      PROVE  Refused(o)
  <2>1. PICK r \in rejections : Identity(r.order) = Identity(o)
    BY DEF RejectedOrders
  <2>2. o \in Orders /\ Refused(r.order) /\ r.order \in Orders
    BY <2>1 DEF RejectedOrders, SystemTypes, RejectionInv, Refused
  <2> QED
    BY <2>1, <2>2 DEF UniqueIdentities
<1>4. Rejections \in [Orders -> Seq(Outcome)]
  BY DEF Rejections, SystemTypes, Outcome
<1>5. ASSUME NEW o \in Orders, NEW i \in DOMAIN Rejections[o], Rejections[o][i] = "rejected"
      PROVE  Refused(o)
  <2>1. CASE o \in RejectedOrders
    BY <1>3, <2>1
  <2>2. CASE o \notin RejectedOrders
    BY <1>5, <2>2 DEF Rejections, RejectionInv
  <2> QED
    BY <2>1, <2>2
<1>6. ASSUME NEW o \in Orders, NEW i \in DOMAIN outcomes'[o], outcomes'[o][i] = "rejected"
      PROVE  Refused(o)
  <2>1. CASE outcomes' = Rejections
    BY <1>5, <1>6, <2>1
  <2>2. ASSUME NEW p \in CurrentCaches(Orders), NEW r \in Outcome \ {"rejected"},
               outcomes' = [Rejections EXCEPT ![p] = Append(@, r)]
        PROVE  Refused(o)
    <3>1. CASE o # p
      BY <1>4, <1>5, <1>6, <2>2, <3>1
    <3>2. CASE o = p
      <4>1. PICK s \in Seq(Outcome) : s = Rejections[o]
        BY <1>4
      <4>2. outcomes'[o] = Append(s, r)
        BY <1>4, <2>2, <3>2, <4>1
      <4>3. PICK t : t = outcomes'[o]
        OBVIOUS
      <4>4. i \in DOMAIN t /\ t[i] = "rejected" /\ t = Append(s, r) /\ r # "rejected"
        BY <1>6, <2>2, <4>2, <4>3
      <4>5. i \in DOMAIN s /\ s[i] = "rejected"
        BY <4>4
      <4> QED
        BY <1>5, <4>1, <4>5
    <3> QED
      BY <3>1, <3>2
  <2> QED
    BY <2>1, <2>2, DispatchFacts
<1> QED
  BY <1>1, <1>2, <1>6 DEF RejectionInv, Current, Identity

(* The invariant of rejections, with what its steps need.                  *)
RejectionIInv == SystemTypes /\ "unreferenced" \notin plan.errors /\ RejectionInv

(* An order that is reported as rejected is not executed by the AGV        *)
(* (_dispatchState, _processOrder): not at the time and not later, whatever*)
(* is assigned, repeated, stitched, canceled and lost, if the AGV reports  *)
(* no error without references and identities of orders are unique.        *)
THEOREM RejectedNotExecutedHolds ==
  ASSUME UniqueIdentities, ErrorsRefer
  PROVE  System => []RejectedNotExecuted
<1>1. SystemInit => RejectionIInv
  <2> SUFFICES ASSUME SystemInit
               PROVE  RejectionIInv
    OBVIOUS
  <2>1. SystemTypes
    BY SystemInitTypes
  <2>2. "unreferenced" \notin plan.errors
    BY DEF SystemInit, ErrorsRefer
  <2>3. RejectionInv
    BY DEF SystemInit, Init, RejectionInv, NoOrder
  <2> QED
    BY <2>1, <2>2, <2>3 DEF RejectionIInv
<1>2. ASSUME RejectionIInv, [SystemNext]_allVars
      PROVE  RejectionIInv'
  <2>1. SystemTypes /\ SystemTypes' /\ [Next]_vars /\ RejectionInv
    BY <1>2, SystemNextTypes, SystemStep DEF RejectionIInv
  <2>2. plan'.errors = plan.errors
    BY <1>2, <2>1, PlanErrors DEF RejectionIInv
  <2>3. CASE DispatchState
    <3>1. "unreferenced" \notin agvErrors
      BY <1>2 DEF RejectionIInv, SystemTypes
    <3> QED
      BY <1>2, <2>1, <2>2, <2>3, <3>1, DispatchRejections DEF RejectionIInv
  <2>4. CASE outcomes' = outcomes
    BY <1>2, <2>1, <2>2, <2>4, AgvRejections DEF RejectionIInv
  <2> QED
    BY <1>2, <2>3, <2>4, OtherOutcomes
<1>3. RejectionIInv => RejectedNotExecuted
  BY DEF RejectionIInv, RejectionInv, RejectedNotExecuted, Refused, Current, CurrentCaches
<1> QED
  BY <1>1, <1>2, <1>3, PTL DEF System

-----------------------------------------------------------------------------
(* Where the AGV is *)

(* It waits at the first node for the end of a pause, or has traversed a   *)
(* node of the base of its order.                                          *)
Waiting ==
  /\ pausedNode # None /\ pausedNode = PlaceIn(currentOrder, currentOrder.first)
  /\ currentOrder.first \in nodeStates

AtNode ==
  /\ pausedNode = None /\ lastNode # None
  /\ lastNode.seq \in BaseRange(currentOrder) /\ lastNode = PlaceIn(currentOrder, lastNode.seq)

Located == currentOrder.orderId # None => Waiting \/ AtNode

LEMMA SuspendedWaits ==
  ASSUME IInv, Suspended
  PROVE  Waiting
<1>1. /\ IsNode(currentOrder.first) /\ currentOrder.first \in Nat
      /\ currentOrder.first <= currentOrder.last /\ currentOrder.last \in Int
  BY DEF Suspended, IInv, TypeOK, OrderOK, OrderInv, Structured
<1>2. currentOrder.first \in NodesIn(currentOrder.first, currentOrder.last)
  BY <1>1 DEF NodesIn
<1> QED
  BY <1>2 DEF Suspended, Waiting

LEMMA CancelsUnpaused ==
  ASSUME IInv, hasCancelingOrder
  PROVE  pausedNode = None /\ env.cancels /\ ~ paused
BY DEF IInv, CancelInv, hasCancelingOrder

(***************************************************************************)
(* A step of the AGV keeps its location known, and moves it forward, unless*)
(* a new order is accepted.                                                *)
(***************************************************************************)
Forward == Located' /\ (AtNode => AtNode' /\ lastNode.seq <= lastNode'.seq)

LEMMA StandsStill ==
  ASSUME Located, TypeOK, UNCHANGED <<currentOrder, lastNode, pausedNode>>,
         nodeStates' = nodeStates \/ pausedNode = None
  PROVE  Forward
<1>1. Waiting => nodeStates' = nodeStates
  BY DEF Waiting
<1>2. Waiting => Waiting'
  BY <1>1 DEF Waiting
<1>3. AtNode => AtNode' /\ lastNode.seq <= lastNode'.seq
  <2>1. AtNode => AtNode'
    BY DEF AtNode
  <2>2. AtNode => lastNode.seq \in Int
    BY DEF AtNode, BaseRange
  <2> QED
    BY <2>1, <2>2
<1>4. currentOrder'.orderId = currentOrder.orderId
  OBVIOUS
<1> QED
  BY <1>2, <1>3, <1>4 DEF Forward, Located

LEMMA ReplaceOrderLocated ==
  ASSUME IInv, IInv', NoneActionsAlone, NEW o \in inbox, o \in Orders, ReplaceOrder(o)
  PROVE  Located'
<1>1. /\ currentOrder' = Replacement(o) /\ ~ hasCancelingOrder /\ ~ hasCancelingOrder'
      /\ OrderOK(Replacement(o)) /\ Msg[o].first \in BaseRange(Replacement(o))
      /\ paused => pausedNode' # None
  BY ReplaceOrderEffect DEF hasCancelingOrder
<1>2. CASE paused
  <2>1. Suspended'
    BY <1>1, <1>2 DEF IInv, RouteInv, Inactive, EnRoute
  <2>2. IInv' /\ Suspended' => Waiting'
    BY SuspendedWaits, PTL
  <2> QED
    BY <2>1, <2>2 DEF Located
<1>3. CASE ~ paused
  <2>1. Inactive
    <3>1. ~ hasActiveOrder
      BY DEF ReplaceOrder, OrderMode
    <3> QED
      BY <1>1, <3>1, InactiveFacts
  <2>2. lastNode' = PlaceIn(Replacement(o), Msg[o].first) /\ pausedNode' = None
    BY <1>3, <2>1 DEF ReplaceOrder, ProcessNode, Now, Replacement, Inactive
  <2>3. lastNode' # None
    BY <1>1, <2>2, ReplacementType, EnvironmentAssumption DEF NodePlace, Place
  <2>4. lastNode'.seq = Msg[o].first
    BY <2>2 DEF PlaceIn
  <2> QED
    BY <1>1, <2>2, <2>3, <2>4 DEF Located, AtNode
<1> QED
  BY <1>2, <1>3

LEMMA StitchOrderLocated ==
  ASSUME IInv, IInv', NoneActionsAlone, NEW o \in inbox, o \in Orders, StitchOrder(o), Located
  PROVE  Forward
<1>1. /\ Stitching(o) /\ ~ hasCancelingOrder' /\ currentOrder' = Stitched(o)
      /\ UNCHANGED <<lastNode, pausedNode>>
  BY StitchOrderEffect DEF hasCancelingOrder
<1>2. AtNode => AtNode' /\ lastNode.seq <= lastNode'.seq
  <2> SUFFICES ASSUME AtNode PROVE AtNode' /\ lastNode.seq <= lastNode'.seq
    OBVIOUS
  <2> DEFINE s == lastNode.seq
  <2>1. s \in currentOrder.first .. currentOrder.base /\ lastNode = PlaceIn(currentOrder, s)
    BY DEF AtNode, BaseRange
  <2>2. s \in Stitched(o).first .. Stitched(o).base /\ Stitched(o).at[s] = currentOrder.at[s]
    BY <1>1, <2>1, StitchedFacts
  <2>3. lastNode' = PlaceIn(Stitched(o), lastNode'.seq) /\ lastNode'.seq = s
    BY <1>1, <2>1, <2>2 DEF PlaceIn
  <2>4. s \in Int
    BY <2>1
  <2> QED
    BY <1>1, <2>2, <2>3, <2>4 DEF AtNode, BaseRange
<1>3. currentOrder.orderId # None
  BY DEF StitchOrder, OrderMode, IsOrderBaseStitching
<1>4. Waiting => Waiting'
  <2>1. pausedNode' # None => Suspended'
    BY <1>1 DEF IInv, RouteInv, Inactive, EnRoute
  <2>2. IInv' /\ Suspended' => Waiting'
    BY SuspendedWaits, PTL
  <2> QED
    BY <1>1, <2>1, <2>2 DEF Waiting
<1> QED
  BY <1>2, <1>3, <1>4 DEF Forward, Located

LEMMA EdgeTraversedLocated ==
  ASSUME IInv, Located, NEW i \in DOMAIN traversing, EdgeTraversed(i)
  PROVE  Forward
<1>1. CASE hasCancelingOrder
  BY <1>1, StandsStill DEF EdgeTraversed, IInv
<1>2. CASE ~ hasCancelingOrder
  <2>1. /\ UNCHANGED currentOrder
        /\ EnRoute /\ traversing # << >> /\ pausedNode' = None
        /\ lastNode.seq \in Nat
        /\ lastNode.seq + 2 \in BaseRange(currentOrder) /\ IsNode(lastNode.seq + 2)
        /\ lastNode'.seq = lastNode.seq + 2
    BY <1>2, EdgeTraversedEffect
  <2>2. lastNode' = EndNodeOf(traversing[i])
    BY <1>2 DEF EdgeTraversed, ProcessNode, Now
  <2>3. traversing[i] = PlaceIn(currentOrder, lastNode.seq + 1) /\ lastNode.seq + 1 \in BaseRange(currentOrder)
        /\ IsNode(lastNode.seq)
    BY <2>1 DEF EnRoute, Ahead
  <2>4. currentOrder.at[lastNode.seq + 2] = currentOrder.at[lastNode.seq + 1]
    <3>1. ~ IsNode(lastNode.seq + 1)
      BY <2>1, <2>3, Parity
    <3>2. lastNode.seq + 1 \in currentOrder.first .. currentOrder.last
      BY <2>3, ListFacts, TypeFacts DEF IInv
    <3>3. currentOrder.at[(lastNode.seq + 1) + 1] = currentOrder.at[lastNode.seq + 1]
      BY <3>1, <3>2 DEF IInv, OrderInv, Structured
    <3> QED
      BY <2>1, <3>3
  <2>5. lastNode' = PlaceIn(currentOrder, lastNode.seq + 2)
    BY <2>1, <2>2, <2>3, <2>4 DEF EndNodeOf, PlaceIn
  <2>6. lastNode' # None
    <3>1. PlaceIn(currentOrder, lastNode.seq + 2) \in Place
      BY <2>1, ListFacts, TypeFacts DEF IInv
    <3> QED
      BY <2>5, <3>1, EnvironmentAssumption DEF Place
  <2>7. AtNode' /\ lastNode.seq <= lastNode'.seq
    BY <2>1, <2>5, <2>6 DEF AtNode
  <2> QED
    BY <2>7 DEF Forward, Located
<1> QED
  BY <1>1, <1>2

LEMMA StopPauseLocated ==
  ASSUME IInv, PromptCancelation, Located, StopPause
  PROVE  Forward
<1>1. UNCHANGED currentOrder
  BY DEF StopPause
<1>2. CASE pausedNode = None
  BY <1>1, <1>2, StandsStill, StopPauseEffect DEF IInv
<1>3. CASE pausedNode # None
  <2>1. /\ Suspended /\ pausedNode' = None /\ ~ hasCancelingOrder
        /\ currentOrder.first \in BaseRange(currentOrder)
        /\ lastNode'.seq = currentOrder.first
    BY <1>3, StopPauseEffect
  <2>2. lastNode' = pausedNode
    BY <1>3, <2>1 DEF StopPause, ProcessNode, Now
  <2>3. AtNode'
    BY <1>1, <1>3, <2>1, <2>2 DEF AtNode, Suspended
  <2> QED
    BY <1>3, <2>3 DEF Forward, Located, AtNode
<1> QED
  BY <1>2, <1>3

LEMMA NextLocated ==
  ASSUME IInv, IInv', NoneActionsAlone, PromptCancelation, Located, [Next]_vars
  PROVE  Located' /\ (Forward \/ \E o \in Orders : ReceiveOrder(o) /\ ReplaceOrder(o))
<1>1. CASE \E o \in Orders : ReceiveOrder(o)
  <2>1. PICK o \in Orders : ReceiveOrder(o)
    BY <1>1
  <2>2. o \in inbox
    BY <2>1 DEF ReceiveOrder
  <2>3. CASE RejectOrder(o) \/ DiscardOrder(o)
    BY <2>3, StandsStill DEF RejectOrder, DiscardOrder, controllerVars, IInv, Forward
  <2>4. CASE ReplaceOrder(o)
    BY <2>1, <2>2, <2>4, ReplaceOrderLocated
  <2>5. CASE StitchOrder(o)
    BY <2>2, <2>5, StitchOrderLocated DEF Forward
  <2> QED
    BY <2>1, <2>3, <2>4, <2>5 DEF ReceiveOrder
<1>2. CASE \E c \in scheduled : StartAction(c)
  BY <1>2, StandsStill DEF StartAction, IInv, Forward
<1>3. CASE \E c \in scheduled : EndAction(c)
  BY <1>3, StandsStill DEF EndAction, IInv, Forward
<1>4. CASE \E i \in DOMAIN traversing : EdgeTraversed(i)
  BY <1>4, EdgeTraversedLocated DEF Forward
<1>5. CASE \E c \in Cancels : CancelOrder(c)
  BY <1>5, StandsStill DEF CancelOrder, IInv, Forward
<1>6. CASE DrivingToNextNode \/ Stopped
  <2>1. pausedNode = None
    BY <1>6, CancelsUnpaused DEF DrivingToNextNode, Stopped, IInv, CancelInv
  <2>2. UNCHANGED <<currentOrder, lastNode, pausedNode>>
    BY <1>6 DEF DrivingToNextNode, Stopped
  <2> QED
    BY <2>1, <2>2, StandsStill DEF IInv, Forward
<1>7. CASE StartPause \/ PushPauseButton
  BY <1>7, StandsStill DEF StartPause, PushPauseButton, IInv, Forward
<1>8. CASE StopPause
  BY <1>8, StopPauseLocated DEF Forward
<1>9. CASE UNCHANGED vars
  BY <1>9, StandsStill DEF vars, controllerVars, IInv, Forward
<1> QED
  BY <1>1, <1>2, <1>3, <1>4, <1>5, <1>6, <1>7, <1>8, <1>9 DEF Next

-----------------------------------------------------------------------------
(* What the AGV makes of the order *)

(* A step of the AGV accepts an order, or leaves its order as it is.       *)
Replaces == \E o \in Orders : ReceiveOrder(o) /\ ReplaceOrder(o)

Extends == \E o \in Orders : ReceiveOrder(o) /\ StitchOrder(o)

LEMMA OrderKept ==
  ASSUME [Next]_vars, ~ Replaces, ~ Extends
  PROVE  UNCHANGED <<currentOrder, actions>>
<1>1. CASE \E o \in Orders : ReceiveOrder(o)
  BY <1>1 DEF ReceiveOrder, RejectOrder, DiscardOrder, controllerVars, Replaces, Extends
<1>2. CASE \E c \in scheduled : StartAction(c)
  BY <1>2 DEF StartAction
<1>3. CASE \E c \in scheduled : EndAction(c)
  BY <1>3 DEF EndAction
<1>4. CASE \E i \in DOMAIN traversing : EdgeTraversed(i)
  BY <1>4 DEF EdgeTraversed
<1>5. CASE \E c \in Cancels : CancelOrder(c)
  BY <1>5 DEF CancelOrder
<1>6. CASE DrivingToNextNode \/ Stopped
  BY <1>6 DEF DrivingToNextNode, Stopped
<1>7. CASE StartPause \/ StopPause \/ PushPauseButton
  BY <1>7 DEF StartPause, StopPause, PushPauseButton
<1>8. CASE UNCHANGED vars
  BY <1>8 DEF vars, controllerVars
<1> QED
  BY <1>1, <1>2, <1>3, <1>4, <1>5, <1>6, <1>7, <1>8 DEF Next

(* Only a new order makes an AGV active.                                   *)
LEMMA StaysInactive ==
  ASSUME IInv, PromptCancelation, [Next]_vars, ~ Replaces, ~ hasActiveOrder
  PROVE  ~ hasActiveOrder'
<1>1. /\ nodeStates = {} /\ edgeStates = {}
      /\ \A a \in Action : actionStates[a] \notin {"WAITING", "ACTIVE"}
  BY DEF hasActiveOrder
<1>2. scheduled = {}
  BY <1>1 DEF IInv, TypeOK, OrderInv, Executing
<1>3. CASE UNCHANGED <<nodeStates, edgeStates, actionStates>>
  BY <1>3 DEF hasActiveOrder
<1>4. CASE \E o \in Orders : ReceiveOrder(o)
  <2>1. PICK o \in Orders : ReceiveOrder(o)
    BY <1>4
  <2>2. ~ StitchOrder(o) /\ ~ ReplaceOrder(o)
    BY <2>1 DEF StitchOrder, OrderMode, Replaces
  <2> QED
    BY <1>3, <2>1, <2>2 DEF ReceiveOrder, RejectOrder, DiscardOrder, controllerVars
<1>5. CASE \E i \in DOMAIN traversing : EdgeTraversed(i)
  <2>1. PICK i \in DOMAIN traversing : EdgeTraversed(i)
    BY <1>5
  <2>2. CASE hasCancelingOrder
    BY <1>3, <2>1, <2>2 DEF EdgeTraversed
  <2>3. CASE ~ hasCancelingOrder
    <3>1. /\ EnRoute /\ lastNode.seq \in Nat
          /\ lastNode.seq + 2 \in BaseRange(currentOrder) /\ IsNode(lastNode.seq + 2)
      BY <2>1, <2>3, EdgeTraversedEffect
    <3>2. lastNode.seq + 2 \in currentOrder.first .. currentOrder.last
      BY <3>1, ListFacts, TypeFacts DEF IInv
    <3>3. currentOrder.last \in Int
      BY DEF IInv, TypeOK, OrderOK
    <3>4. lastNode.seq + 2 \in nodeStates
      BY <3>1, <3>2, <3>3 DEF EnRoute, NodesIn
    <3> QED
      BY <1>1, <3>4
  <2> QED
    BY <2>2, <2>3
<1>6. CASE \E c \in Cancels : CancelOrder(c)
  BY <1>3, <1>6 DEF CancelOrder
<1>7. CASE DrivingToNextNode \/ Stopped
  <2>1. nodeStates' = {} /\ edgeStates' = {} /\ actionStates' = actionStates
    BY <1>1, <1>7 DEF DrivingToNextNode, Stopped
  <2> QED
    BY <1>1, <2>1 DEF hasActiveOrder
<1>8. CASE StopPause
  <2>1. CASE pausedNode = None
    BY <1>3, <1>8, <2>1, StopPauseEffect
  <2>2. CASE pausedNode # None
    <3>1. Suspended
      BY <1>8, <2>2, StopPauseEffect
    <3> QED
      BY <1>1, <3>1, SuspendedWaits DEF Waiting
  <2> QED
    BY <2>1, <2>2
<1> QED
  BY <1>2, <1>3, <1>4, <1>5, <1>6, <1>7, <1>8 DEF Next, StartPause, PushPauseButton, vars, controllerVars

(* The base of the current order is what its messages have released, and   *)
(* it ends as the message accepted last does.                              *)
ReleasedBySender ==
  \A s \in currentOrder.first .. currentOrder.last :
    s <= currentOrder.base <=> s <= Msg[currentOrder.at[s]].base

EndsAsSent ==
  \A o \in Orders : Current(o) => currentOrder.base = Msg[o].base /\ currentOrder.last = Msg[o].last

LEMMA ReleasedBySenderKept ==
  ASSUME IInv, NoneActionsAlone, [Next]_vars, ReleasedBySender
  PROVE  ReleasedBySender'
<1>1. CASE Replaces
  <2>1. PICK o \in Orders : ReceiveOrder(o) /\ ReplaceOrder(o)
    BY <1>1 DEF Replaces
  <2>2. currentOrder' = Replacement(o)
    BY <2>1, ReplaceOrderEffect DEF ReceiveOrder
  <2>3. \A s \in Replacement(o).first .. Replacement(o).last :
          Replacement(o).at[s] = o /\ Replacement(o).base = Msg[o].base
    BY DEF Replacement
  <2> QED
    BY <2>2, <2>3 DEF ReleasedBySender
<1>2. CASE Extends
  <2>1. PICK o \in Orders : ReceiveOrder(o) /\ StitchOrder(o)
    BY <1>2 DEF Extends
  <2>2. Stitching(o) /\ currentOrder' = Stitched(o)
    BY <2>1, StitchOrderEffect DEF ReceiveOrder
  <2>3. currentOrder.base \in Int /\ currentOrder.last \in Int /\ currentOrder.base <= currentOrder.last
    BY DEF IInv, TypeOK, OrderOK
  <2>4. ASSUME NEW s \in Stitched(o).first .. Stitched(o).last
        PROVE  s <= Stitched(o).base <=> s <= Msg[Stitched(o).at[s]].base
    <3>1. /\ s \in currentOrder.first .. Msg[o].last /\ s \in Int /\ Stitched(o).base = Msg[o].base
          /\ currentOrder.base <= Msg[o].base /\ Msg[o].base \in Nat
      BY <2>2, <2>4, StitchedFacts
    <3>2. CASE s <= currentOrder.base
      <4>1. s \in currentOrder.first .. currentOrder.base /\ s \in currentOrder.first .. currentOrder.last
        BY <2>3, <3>1, <3>2
      <4>2. Stitched(o).at[s] = currentOrder.at[s]
        BY <2>2, <4>1, StitchedFacts
      <4>3. s <= Msg[currentOrder.at[s]].base
        BY <3>2, <4>1 DEF ReleasedBySender
      <4> QED
        BY <2>3, <3>1, <3>2, <4>2, <4>3
    <3>3. CASE ~ s <= currentOrder.base
      <4>1. s \in (currentOrder.base + 1) .. Msg[o].last
        BY <2>3, <3>1, <3>3
      <4> QED
        BY <2>2, <3>1, <4>1, StitchedFacts
    <3> QED
      BY <3>2, <3>3
  <2> QED
    BY <2>2, <2>4 DEF ReleasedBySender
<1>3. CASE ~ Replaces /\ ~ Extends
  BY <1>3, OrderKept DEF ReleasedBySender
<1> QED
  BY <1>1, <1>2, <1>3

LEMMA EndsAsSentKept ==
  ASSUME IInv, NoneActionsAlone, UniqueIdentities, [Next]_vars, EndsAsSent
  PROVE  EndsAsSent'
<1>1. CASE Replaces
  <2>1. PICK o \in Orders : ReceiveOrder(o) /\ ReplaceOrder(o)
    BY <1>1 DEF Replaces
  <2>2. currentOrder' = Replacement(o)
    BY <2>1, ReplaceOrderEffect DEF ReceiveOrder
  <2>3. /\ Replacement(o).base = Msg[o].base /\ Replacement(o).last = Msg[o].last
        /\ <<Replacement(o).orderId, Replacement(o).orderUpdateId>> = Identity(o)
    BY DEF Replacement, Identity
  <2>4. \A x \in Orders : Current(x)' => x = o
    BY <2>2, <2>3 DEF UniqueIdentities, Current, Identity
  <2> QED
    BY <2>2, <2>3, <2>4 DEF EndsAsSent
<1>2. CASE Extends
  <2>1. PICK o \in Orders : ReceiveOrder(o) /\ StitchOrder(o)
    BY <1>2 DEF Extends
  <2>2. Stitching(o) /\ currentOrder' = Stitched(o)
    BY <2>1, StitchOrderEffect DEF ReceiveOrder
  <2>3. /\ Stitched(o).base = Msg[o].base /\ Stitched(o).last = Msg[o].last
        /\ <<Stitched(o).orderId, Stitched(o).orderUpdateId>> = Identity(o)
    BY DEF Stitched, Identity
  <2>4. \A x \in Orders : Current(x)' => x = o
    BY <2>2, <2>3 DEF UniqueIdentities, Current, Identity
  <2> QED
    BY <2>2, <2>3, <2>4 DEF EndsAsSent
<1>3. CASE ~ Replaces /\ ~ Extends
  BY <1>3, OrderKept DEF EndsAsSent, Current, Identity
<1> QED
  BY <1>1, <1>2, <1>3

-----------------------------------------------------------------------------
(* Cancelation as the AGV reports it *)

CancelTie == \A c \in Cancels : cancelStates[c] = "RUNNING" <=> cancelContext = c

NotCanceled == \A c \in Cancels : cancelStates[c] = "UNSENT"

(* The horizon of an order that is not canceled remains ahead.             *)
HasHorizon == currentOrder.base < currentOrder.last

EndIsAhead == currentOrder.last \in nodeStates

HorizonAhead == NotCanceled /\ HasHorizon => EndIsAhead

(* Cancelations start with cancelOrder and end when the AGV has stopped.   *)
LEMMA CancelSteps ==
  ASSUME [Next]_vars
  PROVE  \/ UNCHANGED <<cancelStates, cancelContext>>
         \/ \E c \in Cancels : CancelOrder(c)
         \/ Stopped
<1>1. CASE \E o \in Orders : ReceiveOrder(o)
  <2>1. PICK o \in Orders : ReceiveOrder(o)
    BY <1>1
  <2>2. cancelContext' = cancelContext
    BY <2>1, ZenonT(30) DEF ReceiveOrder, RejectOrder, DiscardOrder, controllerVars, ReplaceOrder, StitchOrder
  <2> QED
    BY <2>1, <2>2 DEF ReceiveOrder
<1>2. CASE \E c \in scheduled : StartAction(c)
  BY <1>2 DEF StartAction, masterVars
<1>3. CASE \E c \in scheduled : EndAction(c)
  BY <1>3 DEF EndAction, masterVars
<1>4. CASE \E i \in DOMAIN traversing : EdgeTraversed(i)
  BY <1>4 DEF EdgeTraversed, masterVars
<1>5. CASE DrivingToNextNode
  BY <1>5 DEF DrivingToNextNode, masterVars
<1>6. CASE StartPause \/ StopPause \/ PushPauseButton
  BY <1>6 DEF StartPause, StopPause, PushPauseButton, masterVars
<1>7. CASE UNCHANGED vars
  BY <1>7 DEF vars, controllerVars, masterVars
<1> QED
  BY <1>1, <1>2, <1>3, <1>4, <1>5, <1>6, <1>7 DEF Next

LEMMA CancelTieKept ==
  ASSUME IInv, [Next]_vars, CancelTie
  PROVE  CancelTie'
<1>1. /\ cancelStates \in [Cancels -> {"UNSENT", "REJECTED", "RUNNING", "FINISHED"}]
      /\ cancelContext \in Cancels \cup {None} /\ None \notin Cancels
  BY EnvironmentAssumption DEF IInv, TypeOK
<1>2. CASE \E c \in Cancels : CancelOrder(c)
  <2>1. PICK c \in Cancels : CancelOrder(c)
    BY <1>2
  <2>2. CASE ~ hasActiveOrder \/ hasCancelingOrder
    <3>1. cancelStates' = [cancelStates EXCEPT ![c] = "REJECTED"] /\ cancelContext' = cancelContext
          /\ cancelStates[c] = "UNSENT"
      BY <2>1, <2>2 DEF CancelOrder
    <3> QED
      BY <1>1, <3>1 DEF CancelTie
  <2>3. CASE hasActiveOrder /\ ~ hasCancelingOrder
    <3>1. cancelStates' = [cancelStates EXCEPT ![c] = "RUNNING"] /\ cancelContext' = c
      BY <2>1, <2>3 DEF CancelOrder
    <3>2. cancelContext = None
      BY <2>3 DEF hasCancelingOrder
    <3> QED
      BY <1>1, <3>1, <3>2 DEF CancelTie
  <2> QED
    BY <2>2, <2>3
<1>3. CASE Stopped
  BY <1>1, <1>3 DEF Stopped, CancelTie
<1>4. CASE UNCHANGED <<cancelStates, cancelContext>>
  BY <1>4 DEF CancelTie
<1> QED
  BY <1>2, <1>3, <1>4, CancelSteps

LEMMA NotCanceledBefore ==
  ASSUME IInv, [Next]_vars, NotCanceled'
  PROVE  NotCanceled
<1>1. cancelStates \in [Cancels -> {"UNSENT", "REJECTED", "RUNNING", "FINISHED"}]
  BY DEF IInv, TypeOK
<1>2. CASE \E c \in Cancels : CancelOrder(c)
  BY <1>1, <1>2 DEF CancelOrder, NotCanceled
<1>3. CASE Stopped
  BY <1>1, <1>3 DEF Stopped, NotCanceled
<1>4. CASE UNCHANGED <<cancelStates, cancelContext>>
  BY <1>4 DEF NotCanceled
<1> QED
  BY <1>2, <1>3, <1>4, CancelSteps

LEMMA NotCanceling ==
  ASSUME IInv, CancelTie, NotCanceled
  PROVE  ~ hasCancelingOrder
BY DEF IInv, CancelInv, CancelTie, NotCanceled, hasCancelingOrder

LEMMA RouteShows ==
  ASSUME IInv, Suspended \/ EnRoute, HasHorizon
  PROVE  EndIsAhead
<1> USE DEF HasHorizon, EndIsAhead
<1>1. /\ OrderOK(currentOrder) /\ currentOrder.first \in Nat /\ currentOrder.last \in Int
      /\ currentOrder.base \in Int
  BY DEF IInv, TypeOK, OrderOK
<1>2. currentOrder.orderId # None /\ IsNode(currentOrder.last) /\ currentOrder.first <= currentOrder.base
  BY <1>1 DEF Suspended, EnRoute, IInv, OrderInv, Structured, OrderOK
<1>3. CASE Suspended
  BY <1>1, <1>2, <1>3 DEF Suspended, NodesIn
<1>4. CASE EnRoute
  <2>1. lastNode.seq \in currentOrder.first .. currentOrder.base
    BY <1>4 DEF EnRoute, Ahead, BaseRange
  <2> QED
    BY <1>1, <1>2, <1>4, <2>1 DEF EnRoute, NodesIn
<1> QED
  BY <1>3, <1>4

LEMMA HorizonAheadKept ==
  ASSUME IInv, IInv', NoneActionsAlone, PromptCancelation, CancelTie, CancelTie', [Next]_vars, HorizonAhead
  PROVE  HorizonAhead'
<1> SUFFICES ASSUME NotCanceled', HasHorizon'
             PROVE  EndIsAhead'
  BY DEF HorizonAhead
<1>1. NotCanceled /\ ~ hasCancelingOrder
  BY NotCanceledBefore, NotCanceling
<1>2. ~ hasCancelingOrder'
  <2>1. IInv' /\ CancelTie' /\ NotCanceled' => ~ hasCancelingOrder'
    BY NotCanceling, PTL
  <2> QED
    BY <2>1
<1>3. CASE Suspended' \/ EnRoute'
  <2>1. IInv' /\ (Suspended' \/ EnRoute') /\ HasHorizon' => EndIsAhead'
    BY RouteShows, PTL
  <2> QED
    BY <1>3, <2>1
<1>4. CASE Inactive'
  <2> USE DEF HasHorizon, EndIsAhead
  <2>1. ~ hasActiveOrder'
    BY <1>4 DEF Inactive
  <2>2. nodeStates' = {}
    BY <2>1 DEF hasActiveOrder
  <2>3. CASE Replaces
    <3>1. PICK o \in Orders : ReceiveOrder(o) /\ ReplaceOrder(o)
      BY <2>3 DEF Replaces
    <3>2. currentOrder' = Replacement(o) /\ o \in inbox
      BY <3>1, ReplaceOrderEffect DEF ReceiveOrder
    <3>3. nodeStates' \in {NodesIn(Msg[o].first, Msg[o].last), NodesIn(Msg[o].first, Msg[o].last) \ {Msg[o].first}}
      BY <3>1, <3>2 DEF ReplaceOrder, ProcessNode, Now, PlaceIn
    <3>4. Msg[o].first \in Nat /\ Msg[o].last \in Nat /\ IsNode(Msg[o].last)
          /\ Msg[o].first <= Msg[o].base /\ Msg[o].base \in Nat
      BY MessageFacts
    <3>5. Msg[o].base < Msg[o].last
      BY <3>2 DEF Replacement
    <3>6. Msg[o].last \in NodesIn(Msg[o].first, Msg[o].last) \ {Msg[o].first}
      BY <3>4, <3>5 DEF NodesIn
    <3> QED
      BY <2>2, <3>3, <3>6
  <2>4. CASE Extends
    <3>1. PICK o \in Orders : ReceiveOrder(o) /\ StitchOrder(o)
      BY <2>4 DEF Extends
    <3>2. currentOrder' = Stitched(o) /\ o \in inbox /\ Stitching(o)
      BY <3>1, StitchOrderEffect DEF ReceiveOrder
    <3>3. NodesIn(Msg[o].first + 1, Msg[o].last) \subseteq nodeStates'
      BY <3>1, ZenonT(30) DEF StitchOrder
    <3>4. Msg[o].first \in Nat /\ Msg[o].last \in Nat /\ IsNode(Msg[o].last)
          /\ Msg[o].first <= Msg[o].base /\ Msg[o].base \in Nat
      BY MessageFacts
    <3>5. Msg[o].base < Msg[o].last
      BY <3>2 DEF Stitched
    <3>6. Msg[o].last \in NodesIn(Msg[o].first + 1, Msg[o].last)
      BY <3>4, <3>5 DEF NodesIn
    <3> QED
      BY <2>2, <3>3, <3>6
  <2>5. CASE ~ Replaces /\ ~ Extends
    <3>1. currentOrder' = currentOrder
      BY <2>5, OrderKept
    <3>2. currentOrder.last \in nodeStates
      BY <1>1, <3>1 DEF HorizonAhead
    <3>3. currentOrder.last \in Int /\ currentOrder.base \in Int
      BY DEF IInv, TypeOK, OrderOK
    <3>4. stopTraverse = 0
      BY <1>1 DEF IInv, CancelInv, TypeOK
    <3>5. CASE nodeStates' = nodeStates
      BY <2>2, <3>2, <3>5
    <3>6. CASE \E i \in DOMAIN traversing : EdgeTraversed(i)
      <4>1. PICK i \in DOMAIN traversing : EdgeTraversed(i)
        BY <3>6
      <4>2. /\ EnRoute /\ lastNode.seq \in Nat
            /\ lastNode.seq + 2 \in BaseRange(currentOrder)
            /\ lastNode'.seq = lastNode.seq + 2
        BY <1>1, <4>1, EdgeTraversedEffect
      <4>3. lastNode' = EndNodeOf(traversing[i]) /\ nodeStates' = nodeStates \ {EndNodeOf(traversing[i]).seq}
        BY <1>1, <4>1 DEF EdgeTraversed, ProcessNode, Now
      <4>4. currentOrder.last # lastNode.seq + 2
        BY <3>1, <3>3, <4>2 DEF BaseRange
      <4> QED
        BY <2>2, <3>2, <4>2, <4>3, <4>4
    <3>7. CASE StopPause
      <4>1. CASE pausedNode = None
        BY <3>5, <3>7, <4>1, StopPauseEffect
      <4>2. CASE pausedNode # None
        <5>1. Suspended /\ currentOrder.first \in BaseRange(currentOrder)
          BY <3>7, <4>2, StopPauseEffect
        <5>2. nodeStates' = nodeStates \ {pausedNode.seq}
          BY <1>1, <3>7, <4>2 DEF StopPause, ProcessNode, Now
        <5>3. pausedNode.seq = currentOrder.first
          BY <5>1 DEF Suspended, PlaceIn
        <5>4. currentOrder.first # currentOrder.last
          BY <3>1, <3>3, <5>1 DEF BaseRange
        <5> QED
          BY <2>2, <3>2, <5>2, <5>3, <5>4
      <4> QED
        BY <4>1, <4>2
    <3>8. CASE DrivingToNextNode \/ Stopped
      BY <3>4, <3>8 DEF DrivingToNextNode, Stopped
    <3>9. CASE \E o \in Orders : ReceiveOrder(o)
      BY <2>5, <3>5, <3>9 DEF ReceiveOrder, RejectOrder, DiscardOrder, controllerVars, Replaces, Extends
    <3>10. CASE \E c \in scheduled : EndAction(c) \/ StartAction(c)
      BY <3>5, <3>10 DEF EndAction, StartAction
    <3>11. CASE \E c \in Cancels : CancelOrder(c)
      BY <3>5, <3>11 DEF CancelOrder
    <3> QED
      BY <3>5, <3>6, <3>7, <3>8, <3>9, <3>10, <3>11 DEF Next, StartPause, PushPauseButton, vars, controllerVars
  <2> QED
    BY <2>3, <2>4, <2>5
<1> QED
  BY <1>2, <1>3, <1>4 DEF IInv, RouteInv

-----------------------------------------------------------------------------
(* The chain of last caches *)

(* The order at which _getLastActiveOrderStateCache ends that starts with  *)
(* l, if f tells where it ends that starts with the last cache of an order.*)
Nearest(l, kept, f) == IF l = None \/ l \in kept THEN l ELSE f[l]

(* f tells, for every cache, the closest one of `kept` in its chain; later *)
(* caches have higher ranks, so that the chain ends.                       *)
Chain(cs, kept, f, rk) ==
  /\ f \in [Orders -> Orders \cup {None}] /\ rk \in [Orders -> Nat]
  /\ DOMAIN cs \subseteq Orders
  /\ \A x \in DOMAIN cs :
       /\ cs[x].lastCache \in Orders \cup {None}
       /\ cs[x].lastCache # None => cs[x].lastCache \in DOMAIN cs /\ rk[cs[x].lastCache] < rk[x]
       /\ f[x] = Nearest(cs[x].lastCache, kept, f)
       /\ f[x] # None => f[x] \in kept /\ rk[f[x]] < rk[x]

Finds(find, kept) ==
  find = [x \in DOMAIN caches |-> IF caches[x].lastCache = None \/ caches[x].lastCache \in kept
                             THEN caches[x].lastCache ELSE find[caches[x].lastCache]]

LEMMA FindsUnique ==
  ASSUME NEW kept, NEW f, NEW rk, Chain(caches, kept, f, rk), NEW g, Finds(g, kept)
  PROVE  g = [x \in DOMAIN caches |-> f[x]]
<1> DEFINE bad == {rk[x] : x \in {y \in DOMAIN caches : g[y] # f[y]}}
<1>1. DOMAIN g = DOMAIN caches /\ g = [x \in DOMAIN caches |-> g[x]]
  BY DEF Finds
<1>2. CASE bad = {}
  BY <1>1, <1>2
<1>3. CASE bad # {}
  <2>1. bad \subseteq Nat
    BY DEF Chain
  <2>2. PICK n \in bad : \A m \in bad : n <= m
    BY <1>3, <2>1, LeastNumber
  <2>3. PICK x \in DOMAIN caches : g[x] # f[x] /\ n = rk[x]
    BY <2>2
  <2>4. /\ x \in Orders
        /\ caches[x].lastCache # None =>
             caches[x].lastCache \in DOMAIN caches /\ rk[caches[x].lastCache] < rk[x]
        /\ f[x] = Nearest(caches[x].lastCache, kept, f)
    BY DEF Chain
  <2>5. g[x] = IF caches[x].lastCache = None \/ caches[x].lastCache \in kept
               THEN caches[x].lastCache ELSE g[caches[x].lastCache]
    BY DEF Finds
  <2>6. caches[x].lastCache # None /\ g[caches[x].lastCache] # f[caches[x].lastCache]
    BY <2>3, <2>4, <2>5 DEF Nearest
  <2>7. rk[caches[x].lastCache] \in bad
    BY <2>4, <2>6
  <2>8. rk[caches[x].lastCache] \in Nat /\ n \in Nat
    BY <2>1, <2>2, <2>7
  <2> QED
    BY <2>2, <2>3, <2>4, <2>6, <2>7, <2>8
<1> QED
  BY <1>2, <1>3

LEMMA FindsExists ==
  ASSUME NEW kept, NEW f, NEW rk, Chain(caches, kept, f, rk)
  PROVE  Finds([x \in DOMAIN caches |-> f[x]], kept)
<1> DEFINE g == [x \in DOMAIN caches |-> f[x]]
<1>1. ASSUME NEW x \in DOMAIN caches
      PROVE  g[x] = IF caches[x].lastCache = None \/ caches[x].lastCache \in kept
                    THEN caches[x].lastCache ELSE g[caches[x].lastCache]
  <2>1. /\ x \in Orders
        /\ caches[x].lastCache # None => caches[x].lastCache \in DOMAIN caches
        /\ f[x] = Nearest(caches[x].lastCache, kept, f)
    BY DEF Chain
  <2> QED
    BY <2>1 DEF Nearest
<1> QED
  BY <1>1 DEF Finds

LEMMA LastActiveIs ==
  ASSUME NEW kept, NEW f, NEW rk, Chain(caches, kept, f, rk), NEW o \in DOMAIN caches
  PROVE  LastActive(o, kept) = f[o]
<1> DEFINE found == CHOOSE find : Finds(find, kept)
<1>1. Finds(found, kept)
  BY FindsExists
<1>2. found = [x \in DOMAIN caches |-> f[x]]
  BY <1>1, FindsUnique
<1>3. LastActive(o, kept) = found[o]
  BY DEF LastActive, Finds
<1> QED
  BY <1>2, <1>3

(* f without r.                                                            *)
Past(f, r) == [x \in Orders |-> IF f[x] = r THEN f[r] ELSE f[x]]

LEMMA DropOne ==
  ASSUME NEW cs, NEW kept, NEW f, NEW rk, Chain(cs, kept, f, rk),
         NEW r \in DOMAIN cs, r \in kept, None \notin Orders
  PROVE  /\ Chain(cs, kept \ {r}, Past(f, r), rk)
         /\ f[r] # r
         /\ \A l \in Orders \cup {None} :
              Nearest(l, kept \ {r}, Past(f, r)) =
                IF Nearest(l, kept, f) = r THEN f[r] ELSE Nearest(l, kept, f)
<1>1. /\ f \in [Orders -> Orders \cup {None}] /\ rk \in [Orders -> Nat]
      /\ DOMAIN cs \subseteq Orders /\ r \in Orders
  BY DEF Chain
<1>2. f[r] # None => f[r] \in kept /\ rk[f[r]] < rk[r]
  BY DEF Chain
<1>3. rk[r] \in Nat
  BY <1>1
<1>4. f[r] # r
  BY <1>1, <1>2, <1>3
<1>5. \A x \in Orders : Past(f, r)[x] = IF f[x] = r THEN f[r] ELSE f[x]
  BY DEF Past
<1>6. ASSUME NEW l \in Orders \cup {None}
      PROVE  Nearest(l, kept \ {r}, Past(f, r)) =
               IF Nearest(l, kept, f) = r THEN f[r] ELSE Nearest(l, kept, f)
  BY <1>1, <1>4, <1>5 DEF Nearest
<1>7. Past(f, r) \in [Orders -> Orders \cup {None}]
  BY <1>1 DEF Past
<1>8. ASSUME NEW x \in DOMAIN cs
      PROVE  /\ Past(f, r)[x] = Nearest(cs[x].lastCache, kept \ {r}, Past(f, r))
             /\ Past(f, r)[x] # None =>
                  Past(f, r)[x] \in kept \ {r} /\ rk[Past(f, r)[x]] < rk[x]
  <2>1. cs[x].lastCache \in Orders \cup {None} /\ f[x] = Nearest(cs[x].lastCache, kept, f)
        /\ x \in Orders
    BY <1>8 DEF Chain
  <2>2. Past(f, r)[x] = Nearest(cs[x].lastCache, kept \ {r}, Past(f, r))
    BY <1>5, <1>6, <2>1
  <2>3. f[x] # None => f[x] \in kept /\ rk[f[x]] < rk[x] /\ f[x] \in Orders
    BY <1>1, <1>8 DEF Chain
  <2>4. CASE f[x] = r
    <3>1. f[r] # None => f[r] \in Orders
      BY <1>1
    <3> QED
      BY <1>1, <1>2, <1>4, <1>5, <2>2, <2>3, <2>4, <3>1
  <2>5. CASE f[x] # r
    BY <2>1, <1>5, <2>2, <2>3, <2>5
  <2> QED
    BY <2>4, <2>5
<1> QED
  BY <1>1, <1>4, <1>6, <1>7, <1>8 DEF Chain

(* Caches change, and some that start nothing forget their last cache.     *)
LEMMA SameChain ==
  ASSUME NEW cs, NEW kept, NEW f, NEW rk, Chain(cs, kept, f, rk), NEW ds,
         DOMAIN ds = DOMAIN cs,
         \A x \in DOMAIN cs :
           \/ ds[x].lastCache = cs[x].lastCache
           \/ ds[x].lastCache = None /\ f[x] = None
  PROVE  Chain(ds, kept, f, rk)
<1>1. ASSUME NEW x \in DOMAIN ds
      PROVE  /\ ds[x].lastCache \in Orders \cup {None}
             /\ ds[x].lastCache # None =>
                  ds[x].lastCache \in DOMAIN ds /\ rk[ds[x].lastCache] < rk[x]
             /\ f[x] = Nearest(ds[x].lastCache, kept, f)
             /\ f[x] # None => f[x] \in kept /\ rk[f[x]] < rk[x]
  <2>1. x \in DOMAIN cs
    BY <1>1
  <2>2. /\ cs[x].lastCache \in Orders \cup {None}
        /\ cs[x].lastCache # None => cs[x].lastCache \in DOMAIN cs /\ rk[cs[x].lastCache] < rk[x]
        /\ f[x] = Nearest(cs[x].lastCache, kept, f)
        /\ f[x] # None => f[x] \in kept /\ rk[f[x]] < rk[x]
    BY <2>1 DEF Chain
  <2>3. CASE ds[x].lastCache = cs[x].lastCache
    BY <2>2, <2>3
  <2>4. CASE ds[x].lastCache = None /\ f[x] = None
    BY <2>2, <2>4 DEF Nearest
  <2> QED
    BY <2>1, <2>3, <2>4
<1>2. f \in [Orders -> Orders \cup {None}] /\ rk \in [Orders -> Nat]
  BY DEF Chain
<1> QED
  BY <1>1, <1>2 DEF Chain

(* A new cache, to which none refers.                                      *)
Adds(cs, ds, o, l) ==
  /\ \A x \in DOMAIN cs : cs[x].lastCache # o
  /\ DOMAIN ds = DOMAIN cs \cup {o} /\ \A x \in DOMAIN cs \ {o} : ds[x] = cs[x]
  /\ ds[o].lastCache = l

Agrees(h, f, o) == \A x \in Orders \ {o} : h[x] = f[x]

Extended(ds, kept, f, o, l) ==
  \E h, rh : /\ Chain(ds, kept \cup {o}, h, rh)
             /\ h[o] = Nearest(l, kept, f)
             /\ Agrees(h, f, o)

LEMMA AddToChain ==
  ASSUME NEW cs, NEW kept, NEW f, NEW rk, Chain(cs, kept, f, rk), None \notin Orders,
         NEW o, o \in Orders, o \notin kept,
         NEW l, l \in Orders \cup {None}, l # o, l # None => l \in DOMAIN cs,
         NEW ds, Adds(cs, ds, o, l)
  PROVE  Extended(ds, kept, f, o, l)
<1>0. /\ \A x \in DOMAIN cs : cs[x].lastCache # o
      /\ DOMAIN ds = DOMAIN cs \cup {o} /\ \A x \in DOMAIN cs \ {o} : ds[x] = cs[x]
      /\ ds[o].lastCache = l
  BY DEF Adds
<1> USE <1>0
<1> DEFINE h == [f EXCEPT ![o] = Nearest(l, kept, f)]
           rh == [rk EXCEPT ![o] = IF l = None THEN 0 ELSE rk[l] + 1]
<1>1. /\ f \in [Orders -> Orders \cup {None}] /\ rk \in [Orders -> Nat]
      /\ DOMAIN cs \subseteq Orders /\ DOMAIN ds \subseteq Orders
  BY DEF Chain
<1>2. ASSUME NEW x \in DOMAIN cs
      PROVE  /\ cs[x].lastCache \in Orders \cup {None}
             /\ cs[x].lastCache # None => cs[x].lastCache \in DOMAIN cs /\ rk[cs[x].lastCache] < rk[x]
             /\ f[x] = Nearest(cs[x].lastCache, kept, f)
             /\ f[x] # None => f[x] \in kept /\ rk[f[x]] < rk[x] /\ f[x] # o
  BY <1>2 DEF Chain
<1>3. Nearest(l, kept, f) \in Orders \cup {None}
  BY <1>1 DEF Nearest
<1>4. h \in [Orders -> Orders \cup {None}] /\ rh \in [Orders -> Nat]
  BY <1>1, <1>3
<1>5. /\ h[o] = Nearest(l, kept, f) /\ \A x \in Orders \ {o} : h[x] = f[x]
      /\ rh[o] = (IF l = None THEN 0 ELSE rk[l] + 1) /\ \A x \in Orders \ {o} : rh[x] = rk[x]
  BY <1>1
<1> HIDE DEF h, rh
<1>6. \A m \in Orders \cup {None} : m # o => Nearest(m, kept \cup {o}, h) = Nearest(m, kept, f)
  BY <1>5 DEF Nearest
<1>7. ASSUME NEW x \in DOMAIN ds, x # o
      PROVE  /\ ds[x].lastCache \in Orders \cup {None}
             /\ ds[x].lastCache # None => ds[x].lastCache \in DOMAIN ds /\ rh[ds[x].lastCache] < rh[x]
             /\ h[x] = Nearest(ds[x].lastCache, kept \cup {o}, h)
             /\ h[x] # None => h[x] \in kept \cup {o} /\ rh[h[x]] < rh[x]
  <2>1. ds[x] = cs[x] /\ x \in DOMAIN cs /\ h[x] = f[x] /\ rh[x] = rk[x]
    BY <1>1, <1>5, <1>7
  <2>2. cs[x].lastCache # o
    BY <2>1
  <2>3. h[x] = Nearest(ds[x].lastCache, kept \cup {o}, h)
    BY <1>2, <1>6, <2>1, <2>2
  <2>4. ds[x].lastCache # None => ds[x].lastCache \in DOMAIN ds /\ rh[ds[x].lastCache] < rh[x]
    BY <1>2, <1>5, <2>1, <2>2
  <2>5. h[x] # None => h[x] \in kept \cup {o} /\ rh[h[x]] < rh[x]
    BY <1>1, <1>2, <1>5, <2>1
  <2> QED
    BY <1>2, <2>1, <2>3, <2>4, <2>5
<1>8. /\ ds[o].lastCache \in Orders \cup {None}
      /\ ds[o].lastCache # None => ds[o].lastCache \in DOMAIN ds /\ rh[ds[o].lastCache] < rh[o]
      /\ h[o] = Nearest(ds[o].lastCache, kept \cup {o}, h)
      /\ h[o] # None => h[o] \in kept \cup {o} /\ rh[h[o]] < rh[o]
  <2>1. CASE l = None
    BY <1>5, <1>6, <2>1 DEF Nearest
  <2>2. CASE l # None
    <3>1. l \in Orders /\ l \in DOMAIN cs /\ ds[l] = cs[l] /\ rh[l] = rk[l] /\ rk[l] \in Nat /\ rh[o] = rk[l] + 1
      BY <1>1, <1>5, <2>2
    <3>2. h[o] = Nearest(ds[o].lastCache, kept \cup {o}, h)
      BY <1>5, <1>6
    <3>3. h[o] # None => h[o] \in kept /\ rk[h[o]] <= rk[l]
      <4>1. CASE l \in kept
        BY <1>5, <3>1, <4>1 DEF Nearest
      <4>2. CASE l \notin kept
        <5>1. h[o] = f[l]
          BY <1>5, <2>2, <4>2 DEF Nearest
        <5>2. f[l] # None => f[l] \in kept /\ rk[f[l]] < rk[l] /\ f[l] \in Orders /\ rk[f[l]] \in Nat
          BY <1>1, <1>2, <3>1
        <5> QED
          BY <3>1, <5>1, <5>2
      <4> QED
        BY <4>1, <4>2
    <3>4. h[o] # None => h[o] # o /\ h[o] \in Orders /\ rh[h[o]] = rk[h[o]] /\ rk[h[o]] \in Nat
      BY <1>1, <1>3, <1>5, <3>3
    <3> QED
      BY <3>1, <3>2, <3>3, <3>4
  <2> QED
    BY <2>1, <2>2
<1>9. Chain(ds, kept \cup {o}, h, rh)
  BY <1>4, <1>7, <1>8 DEF Chain
<1>10. Agrees(h, f, o)
  BY <1>5 DEF Agrees
<1> QED
  BY <1>5, <1>9, <1>10 DEF Extended

-----------------------------------------------------------------------------
(* Order state caches and what the events make of them *)

NodeActions == UNION {[S -> SUBSET Action] : S \in SUBSET Place}

OrderStateCache ==
  [lastCache : Orders \cup {None}, first : NodePlace, nodeActions : NodeActions,
   mappedActions : SUBSET Action, lastActionStates : [Action -> Status],
   lastNodeTraversed : NodePlace \cup {None}, lastEdgeProcessed : EdgePlace \cup {None},
   ready : BOOLEAN, processed : BOOLEAN]

(* The events for a State message leave the order of a cache as it is.     *)
Alike(c, d) ==
  /\ d.lastCache = c.lastCache /\ d.first = c.first /\ d.nodeActions = c.nodeActions
  /\ d.mappedActions = c.mappedActions /\ d.processed = c.processed

LEMMA PlacesType ==
  ASSUME NEW c \in OrderStateCache
  PROVE  Places(c) \subseteq Place /\ c.nodeActions \in [Places(c) -> SUBSET Action]
<1>1. c.nodeActions \in NodeActions
  BY DEF OrderStateCache
<1>2. PICK S \in SUBSET Place : c.nodeActions \in [S -> SUBSET Action]
  BY <1>1 DEF NodeActions
<1> QED
  BY <1>2 DEF Places

LEMMA UpdateActionsFacts ==
  ASSUME NEW c \in OrderStateCache, TypeOK, NEW d, d = UpdateActions(c)
  PROVE  /\ d \in OrderStateCache /\ Alike(c, d)
         /\ d.lastNodeTraversed = c.lastNodeTraversed /\ d.lastEdgeProcessed = c.lastEdgeProcessed
         /\ \A a \in c.mappedActions : actionStates[a] # "ABSENT" => d.lastActionStates[a] = actionStates[a]
<1>1. actionStates \in [Action -> Status] /\ c.mappedActions \subseteq Action
      /\ c.lastActionStates \in [Action -> Status]
  BY DEF TypeOK, OrderStateCache
<1> DEFINE updated == [a \in Action |-> IF a \in c.mappedActions /\ actionStates[a] # "ABSENT"
                                        THEN actionStates[a] ELSE c.lastActionStates[a]]
<1>2. updated \in [Action -> Status]
        /\ \A a \in c.mappedActions : actionStates[a] # "ABSENT" => updated[a] = actionStates[a]
  <2>1. updated \in [Action -> Status]
    BY <1>1
  <2>2. ASSUME NEW x \in c.mappedActions, actionStates[x] # "ABSENT"
        PROVE  updated[x] = actionStates[x]
    BY <1>1, <2>2
  <2> QED
    BY <2>1, <2>2
<1>3. d = [c EXCEPT !.lastActionStates = updated]
  BY DEF UpdateActions
<1> HIDE DEF updated
<1>4. d \in OrderStateCache /\ d.lastActionStates = updated /\ Alike(c, d)
      /\ d.lastNodeTraversed = c.lastNodeTraversed /\ d.lastEdgeProcessed = c.lastEdgeProcessed
  BY <1>2, <1>3 DEF OrderStateCache, Alike
<1> QED
  BY <1>2, <1>4

(* An edge is processed behind the node that was traversed last.           *)
EdgeBehind(c, n) == c.lastEdgeProcessed # None /\ c.lastEdgeProcessed.seq = n.seq + 1

LEMMA EdgeEventsFacts ==
  ASSUME NEW c \in OrderStateCache, NEW d, d = EdgeEvents(c)
  PROVE  /\ d \in OrderStateCache /\ Alike(c, d)
         /\ d.lastActionStates = c.lastActionStates
         /\ d.lastNodeTraversed = c.lastNodeTraversed
         /\ \/ d.lastEdgeProcessed = c.lastEdgeProcessed
            \/ c.lastNodeTraversed # None /\ EdgeBehind(d, c.lastNodeTraversed)
<1> DEFINE edge == CHOOSE p \in NextReleasedEdges(c) : TRUE
<1>1. CASE d = c
  BY <1>1 DEF Alike
<1>2. CASE d # c
  <2>1. c.lastNodeTraversed # None /\ NextReleasedEdges(c) # {}
    BY <1>2 DEF EdgeEvents
  <2>2. edge \in NextReleasedEdges(c)
    BY <2>1
  <2>3. \/ d = [c EXCEPT !.ready = c.ready \/ AreAllBlockingActionsEnded(c)]
        \/ d = [c EXCEPT !.ready = FALSE, !.lastEdgeProcessed = edge]
    BY <1>2 DEF EdgeEvents
  <2> HIDE DEF edge
  <2>4. edge \in Place /\ ~ IsNode(edge.seq) /\ edge.seq = c.lastNodeTraversed.seq + 1
    BY <2>2, PlacesType DEF NextReleasedEdges
  <2>5. edge \in EdgePlace /\ edge # None /\ edge.seq = c.lastNodeTraversed.seq + 1
    BY <2>4, EnvironmentAssumption DEF EdgePlace, Place
  <2>6. CASE d = [c EXCEPT !.ready = c.ready \/ AreAllBlockingActionsEnded(c)]
    <3>1. PICK r \in BOOLEAN : d = [c EXCEPT !.ready = r]
      <4>1. c.ready \in BOOLEAN
        BY DEF OrderStateCache
      <4>2. (c.ready \/ AreAllBlockingActionsEnded(c)) \in BOOLEAN
        BY <4>1
      <4> QED
        BY <2>6, <4>2
    <3> QED
      BY <3>1 DEF OrderStateCache, Alike
  <2>7. CASE d = [c EXCEPT !.ready = FALSE, !.lastEdgeProcessed = edge]
    <3>1. PICK r \in BOOLEAN : d = [c EXCEPT !.ready = r, !.lastEdgeProcessed = edge]
      BY <2>7
    <3> QED
      BY <2>1, <2>5, <3>1 DEF OrderStateCache, Alike, EdgeBehind
  <2> QED
    BY <2>3, <2>6, <2>7
<1> QED
  BY <1>1, <1>2

LEMMA NodeEventsFacts ==
  ASSUME NEW c \in OrderStateCache, NEW d, d = NodeEvents(c)
  PROVE  /\ d \in OrderStateCache /\ Alike(c, d)
         /\ d.lastActionStates = c.lastActionStates
         /\ \/ d = c
            \/ \E n \in NextNodes(c) :
                 /\ n \in NodePlace
                 /\ d.lastNodeTraversed = n
                 /\ d.lastEdgeProcessed = c.lastEdgeProcessed \/ EdgeBehind(d, n)
<1> DEFINE n == CHOOSE p \in NextNodes(c) : TRUE
<1>1. CASE NextNodes(c) = {}
  BY <1>1 DEF NodeEvents, Alike
<1>2. CASE NextNodes(c) # {}
  <2>1. n \in NextNodes(c)
    BY <1>2
  <2>2. n \in NodePlace
    <3>1. c.first \in NodePlace
      BY DEF OrderStateCache
    <3> QED
      BY <2>1, <3>1, PlacesType DEF NextNodes, NodePlace
  <2>3. d = EdgeEvents([c EXCEPT !.lastNodeTraversed = n])
    BY <1>2 DEF NodeEvents
  <2> HIDE DEF n
  <2>4. PICK e : e = [c EXCEPT !.lastNodeTraversed = n]
    OBVIOUS
  <2>5. e \in OrderStateCache /\ Alike(c, e) /\ e.lastActionStates = c.lastActionStates
        /\ e.lastNodeTraversed = n /\ e.lastEdgeProcessed = c.lastEdgeProcessed
    BY <2>2, <2>4 DEF OrderStateCache, Alike
  <2>6. /\ d \in OrderStateCache /\ Alike(e, d)
        /\ d.lastActionStates = e.lastActionStates
        /\ d.lastNodeTraversed = e.lastNodeTraversed
        /\ \/ d.lastEdgeProcessed = e.lastEdgeProcessed
           \/ e.lastNodeTraversed # None /\ EdgeBehind(d, e.lastNodeTraversed)
    BY <2>3, <2>4, <2>5, EdgeEventsFacts
  <2> QED
    BY <2>1, <2>2, <2>5, <2>6 DEF Alike
<1> QED
  BY <1>1, <1>2

LEMMA MarkFacts ==
  ASSUME NEW c \in OrderStateCache, NEW result, NEW d, d = Mark(c, result)
  PROVE  /\ d \in OrderStateCache
         /\ d.first = c.first /\ d.nodeActions = c.nodeActions /\ d.mappedActions = c.mappedActions
         /\ d.lastNodeTraversed = c.lastNodeTraversed /\ d.lastEdgeProcessed = c.lastEdgeProcessed
         /\ d.lastCache = c.lastCache \/ d.lastCache = None
         /\ d.processed => c.processed \/ result # "no"
         /\ result # "no" \/ c.processed => d.processed
<1>1. c.processed \in BOOLEAN /\ c.lastCache \in Orders \cup {None}
  BY DEF OrderStateCache
<1>2. PICK b \in BOOLEAN : b = (c.processed \/ result # "no")
  BY <1>1
<1>3. PICK l \in Orders \cup {None} :
        l = IF result = "completed" /\ ~ c.processed THEN None ELSE c.lastCache
  BY <1>1
<1>4. d = [c EXCEPT !.processed = b, !.lastCache = l]
  BY <1>2, <1>3 DEF Mark
<1>5. d \in OrderStateCache /\ d.processed = b /\ d.lastCache = l
      /\ d.first = c.first /\ d.nodeActions = c.nodeActions /\ d.mappedActions = c.mappedActions
      /\ d.lastNodeTraversed = c.lastNodeTraversed /\ d.lastEdgeProcessed = c.lastEdgeProcessed
  BY <1>4 DEF OrderStateCache
<1> QED
  BY <1>2, <1>3, <1>5

-----------------------------------------------------------------------------
(* The line of orders *)

InTopic == {orderTopic[i] : i \in DOMAIN orderTopic}

Earlier(f, x) == IF x = None THEN None ELSE f[x]

LineEnd(tip) == IF orderTopic = << >> THEN tip ELSE orderTopic[Len(orderTopic)]

(***************************************************************************)
(* The orders whose caches are kept form a line: first those that have     *)
(* arrived, of which `tip` is the last one and its predecessor the other   *)
(* one, if any, then those under way, each stitched onto the one before.   *)
(***************************************************************************)
Line(kept, f, tip) ==
  /\ tip \in Orders \cup {None}
  /\ kept \ inbox = {tip, Earlier(f, tip)} \ {None}
  /\ Earlier(f, Earlier(f, tip)) = None
  /\ kept \cap inbox = InTopic \cup publishing
  /\ \A i \in DOMAIN orderTopic : f[orderTopic[i]] = IF i = 1 THEN tip ELSE orderTopic[i - 1]

Queue ==
  /\ publishing \cap InTopic = {}
  /\ \A i, j \in DOMAIN orderTopic : orderTopic[i] = orderTopic[j] => i = j

(* Only orders that were sent are stitched onto.                           *)
Links(f) ==
  /\ \A x \in Orders : f[x] # None => Sent(f[x])
  /\ \A x \in DOMAIN caches : caches[x].lastCache # None => Sent(caches[x].lastCache)

(* The next order will be stitched onto the end of the line.               *)
Ends(kept, f, tip) ==
  /\ lastAssigned \in {None, preceding}
  /\ publishing \subseteq {preceding}
  /\ preceding # None => preceding \in DOMAIN caches
  /\ preceding # None /\ Sent(preceding) =>
       publishing = {} /\ Nearest(lastAssigned, kept, f) = LineEnd(tip)

Core(kept, f, rk, tip) ==
  /\ Chain(caches, kept, f, rk) /\ kept \subseteq DOMAIN caches
  /\ Line(kept, f, tip) /\ Queue /\ Links(f) /\ Ends(kept, f, tip)

LEMMA CoreFacts ==
  ASSUME SystemTypes, NEW kept, NEW f, NEW rk, NEW tip, Core(kept, f, rk, tip)
  PROVE  /\ f \in [Orders -> Orders \cup {None}] /\ DOMAIN caches \subseteq Orders
         /\ kept \subseteq Orders /\ None \notin Orders /\ None \notin kept
         /\ tip \in Orders \cup {None}
         /\ tip # None => tip \in kept /\ tip \notin inbox
         /\ tip # None /\ f[tip] # None =>
              f[tip] \in kept /\ f[tip] \in Orders /\ f[tip] \notin inbox /\ f[f[tip]] = None
         /\ InTopic \subseteq inbox /\ InTopic \subseteq kept
         /\ lastAssigned \in Orders \cup {None}
<1>1. /\ f \in [Orders -> Orders \cup {None}] /\ DOMAIN caches \subseteq Orders
      /\ kept \subseteq Orders
  BY DEF Core, Chain
<1>2. None \notin Orders
  BY PlansAssumption
<1>3. tip \in Orders \cup {None} /\ kept \ inbox = {tip, Earlier(f, tip)} \ {None}
      /\ kept \cap inbox = InTopic \cup publishing /\ Earlier(f, Earlier(f, tip)) = None
  BY DEF Core, Line
<1>4. tip # None => tip \in kept /\ tip \notin inbox
  BY <1>3
<1>5. tip # None /\ f[tip] # None =>
        f[tip] \in kept /\ f[tip] \in Orders /\ f[tip] \notin inbox /\ f[f[tip]] = None
  BY <1>1, <1>3 DEF Earlier
<1>6. InTopic \subseteq inbox /\ InTopic \subseteq kept
  BY <1>3
<1>7. lastAssigned \in Orders \cup {None}
  BY <1>1 DEF Core, Ends
<1> QED
  BY <1>1, <1>2, <1>3, <1>4, <1>5, <1>6, <1>7

LEMMA LineEndFacts ==
  ASSUME SystemTypes, NEW tip
  PROVE  LineEnd(tip) = tip \/ LineEnd(tip) \in InTopic
<1>1. CASE orderTopic = << >>
  BY <1>1 DEF LineEnd
<1>2. CASE orderTopic # << >>
  BY <1>2 DEF LineEnd, InTopic, SystemTypes
<1> QED
  BY <1>1, <1>2

(* The tip leaves the line.                                                *)
LEMMA DropTip ==
  ASSUME SystemTypes, NEW kept, NEW f, NEW rk, NEW tip, Core(kept, f, rk, tip), tip # None
  PROVE  Core(kept \ {tip}, Past(f, tip), rk, f[tip])
<1>1. /\ f \in [Orders -> Orders \cup {None}] /\ DOMAIN caches \subseteq Orders
      /\ None \notin Orders /\ None \notin kept
      /\ tip \in Orders /\ tip \in kept /\ tip \notin inbox
      /\ f[tip] # None => f[tip] \in kept /\ f[tip] \notin inbox /\ f[f[tip]] = None
      /\ InTopic \subseteq inbox
      /\ kept \subseteq DOMAIN caches /\ tip \in DOMAIN caches
      /\ lastAssigned \in Orders \cup {None}
  <2>1. kept \subseteq DOMAIN caches
    BY DEF Core
  <2> QED
    BY <2>1, CoreFacts
<1> DEFINE g == Past(f, tip)
<1>2. /\ Chain(caches, kept \ {tip}, g, rk) /\ f[tip] # tip
      /\ Nearest(lastAssigned, kept \ {tip}, g) =
           IF Nearest(lastAssigned, kept, f) = tip THEN f[tip] ELSE Nearest(lastAssigned, kept, f)
  BY <1>1, DropOne DEF Core
<1>3. \A x \in Orders : g[x] = IF f[x] = tip THEN f[tip] ELSE f[x]
  BY DEF Past
<1> HIDE DEF g
<1>4. f[tip] \in Orders \cup {None} /\ Earlier(g, f[tip]) = None /\ Earlier(g, Earlier(g, f[tip])) = None
  BY <1>1, <1>3 DEF Earlier
<1>5. (kept \ {tip}) \ inbox = {f[tip], Earlier(g, f[tip])} \ {None}
  <2>1. kept \ inbox = {tip, f[tip]} \ {None}
    BY <1>1 DEF Core, Line, Earlier
  <2> QED
    BY <1>2, <1>4, <2>1
<1>6. (kept \ {tip}) \cap inbox = InTopic \cup publishing
  BY <1>1 DEF Core, Line
<1>7. ASSUME NEW i \in DOMAIN orderTopic
      PROVE  g[orderTopic[i]] = IF i = 1 THEN f[tip] ELSE orderTopic[i - 1]
  <2>1. orderTopic[i] \in Orders /\ (i # 1 => orderTopic[i - 1] \in InTopic)
    BY DEF SystemTypes, InTopic
  <2>2. f[orderTopic[i]] = IF i = 1 THEN tip ELSE orderTopic[i - 1]
    BY DEF Core, Line
  <2> QED
    BY <1>1, <1>3, <2>1, <2>2
<1>8. Line(kept \ {tip}, g, f[tip])
  BY <1>4, <1>5, <1>6, <1>7 DEF Line
<1>9. Links(g)
  BY <1>1, <1>3 DEF Core, Links
<1>10. Ends(kept \ {tip}, g, f[tip])
  <2>1. LineEnd(tip) = tip \/ LineEnd(tip) \in InTopic
    BY LineEndFacts
  <2>2. LineEnd(f[tip]) = IF LineEnd(tip) = tip THEN f[tip] ELSE LineEnd(tip)
    <3>1. CASE orderTopic = << >>
      BY <3>1 DEF LineEnd
    <3>2. CASE orderTopic # << >>
      <4>1. LineEnd(tip) = orderTopic[Len(orderTopic)] /\ LineEnd(f[tip]) = orderTopic[Len(orderTopic)]
        BY <3>2 DEF LineEnd
      <4>2. orderTopic[Len(orderTopic)] \in InTopic
        BY <3>2 DEF InTopic, SystemTypes
      <4> QED
        BY <1>1, <4>1, <4>2
    <3> QED
      BY <3>1, <3>2
  <2> QED
    BY <1>2, <2>2 DEF Core, Ends
<1> QED
  BY <1>1, <1>2, <1>8, <1>9, <1>10 DEF Core, g

(* The predecessor of the tip leaves the line.                             *)
LEMMA DropEarlier ==
  ASSUME SystemTypes, NEW kept, NEW f, NEW rk, NEW tip, Core(kept, f, rk, tip),
         tip # None, f[tip] # None
  PROVE  Core(kept \ {f[tip]}, Past(f, f[tip]), rk, tip) /\ Past(f, f[tip])[tip] = None
<1> DEFINE r == f[tip]
           g == Past(f, r)
<1>1. /\ f \in [Orders -> Orders \cup {None}] /\ DOMAIN caches \subseteq Orders
      /\ None \notin Orders /\ None \notin kept
      /\ tip \in Orders /\ tip \in kept /\ tip \notin inbox
      /\ r \in Orders /\ r \in kept /\ r \notin inbox /\ f[r] = None
      /\ InTopic \subseteq inbox
      /\ kept \subseteq DOMAIN caches /\ r \in DOMAIN caches /\ tip \in DOMAIN caches
      /\ lastAssigned \in Orders \cup {None}
  <2>1. kept \subseteq DOMAIN caches
    BY DEF Core
  <2> QED
    BY <2>1, CoreFacts
<1>2. /\ Chain(caches, kept \ {r}, g, rk)
      /\ Nearest(lastAssigned, kept \ {r}, g) =
           IF Nearest(lastAssigned, kept, f) = r THEN f[r] ELSE Nearest(lastAssigned, kept, f)
  BY <1>1, DropOne DEF Core
<1>3. r # tip
  BY <1>1 DEF Core, Chain
<1>4. \A x \in Orders : g[x] = IF f[x] = r THEN f[r] ELSE f[x]
  BY DEF Past
<1> HIDE DEF g
<1>5. g[tip] = None /\ Earlier(g, tip) = None /\ Earlier(g, Earlier(g, tip)) = None
  BY <1>1, <1>4 DEF Earlier
<1>6. (kept \ {r}) \ inbox = {tip, Earlier(g, tip)} \ {None}
  <2>1. kept \ inbox = {tip, r} \ {None}
    BY <1>1 DEF Core, Line, Earlier
  <2> QED
    BY <1>1, <1>3, <1>5, <2>1
<1>7. (kept \ {r}) \cap inbox = InTopic \cup publishing
  BY <1>1 DEF Core, Line
<1>8. ASSUME NEW i \in DOMAIN orderTopic
      PROVE  g[orderTopic[i]] = IF i = 1 THEN tip ELSE orderTopic[i - 1]
  <2>1. orderTopic[i] \in Orders /\ (i # 1 => orderTopic[i - 1] \in InTopic)
    BY DEF SystemTypes, InTopic
  <2>2. f[orderTopic[i]] = IF i = 1 THEN tip ELSE orderTopic[i - 1]
    BY DEF Core, Line
  <2> QED
    BY <1>1, <1>3, <1>4, <2>1, <2>2
<1>9. Line(kept \ {r}, g, tip)
  BY <1>1, <1>5, <1>6, <1>7, <1>8 DEF Line
<1>10. Links(g)
  BY <1>1, <1>4 DEF Core, Links
<1>11. Ends(kept \ {r}, g, tip)
  <2>1. LineEnd(tip) # r
    BY <1>1, <1>3, LineEndFacts
  <2> QED
    BY <1>2, <2>1 DEF Core, Ends
<1> QED
  BY <1>1, <1>2, <1>5, <1>9, <1>10, <1>11 DEF Core, g

-----------------------------------------------------------------------------
(* The AGV as master control relies on it *)

(* Nothing is reported ahead that is not part of the order.                *)
Bounded == \A s \in nodeStates \cup edgeStates : s <= currentOrder.last

LEMMA RouteBounded ==
  ASSUME IInv, ~ hasCancelingOrder
  PROVE  Bounded
<1>1. CASE Inactive
  BY <1>1 DEF Inactive, hasActiveOrder, Bounded
<1>2. CASE Suspended
  BY <1>2 DEF Suspended, Bounded, NodesIn, EdgesIn, IInv, TypeOK, OrderOK
<1>3. CASE EnRoute
  <2>1. lastNode.seq \in Nat
    BY <1>3, ListFacts, TypeFacts DEF EnRoute, Ahead, IInv
  <2> QED
    BY <1>3, <2>1 DEF EnRoute, Bounded, NodesIn, EdgesIn, IInv, TypeOK, OrderOK
<1> QED
  BY <1>1, <1>2, <1>3 DEF IInv, RouteInv

LEMMA BoundedKept ==
  ASSUME IInv, IInv', Bounded, [Next]_vars
  PROVE  Bounded'
<1>1. CASE ~ hasCancelingOrder'
  <2>1. IInv' /\ ~ hasCancelingOrder' => Bounded'
    BY RouteBounded, PTL
  <2> QED
    BY <1>1, <2>1
<1>2. CASE hasCancelingOrder' /\ ~ hasCancelingOrder
  <2>1. \E c \in Cancels : CancelOrder(c)
    BY <1>2, CancelSteps DEF hasCancelingOrder, Stopped
  <2>2. UNCHANGED <<nodeStates, edgeStates, currentOrder>>
    BY <2>1 DEF CancelOrder
  <2> QED
    BY <2>2 DEF Bounded
<1>3. CASE hasCancelingOrder
  <2>1. currentOrder' = currentOrder
    BY <1>3, OrderKept DEF Replaces, Extends, ReplaceOrder, StitchOrder
  <2>2. CASE \E o \in Orders : ReceiveOrder(o)
    BY <1>3, <2>2 DEF ReceiveOrder, RejectOrder, DiscardOrder, ReplaceOrder, StitchOrder, Bounded
  <2>3. CASE \E i \in DOMAIN traversing : EdgeTraversed(i)
    BY <1>3, <2>3 DEF EdgeTraversed, Bounded
  <2>4. CASE \E c \in Cancels : CancelOrder(c)
    BY <2>4 DEF CancelOrder, Bounded
  <2>5. CASE DrivingToNextNode \/ Stopped
    BY <2>5 DEF DrivingToNextNode, Stopped, Bounded
  <2>6. CASE StopPause
    BY <1>3, <2>6, <2>1 DEF StopPause, Bounded
  <2>7. CASE UNCHANGED <<nodeStates, edgeStates>>
    BY <2>1, <2>7 DEF Bounded
  <2> QED
    BY <2>2, <2>3, <2>4, <2>5, <2>6, <2>7
    DEF Next, StartAction, EndAction, StartPause, PushPauseButton, vars, controllerVars
<1> QED
  BY <1>1, <1>2, <1>3

AgvInv ==
  IInv /\ Located /\ ReleasedBySender /\ EndsAsSent /\ CancelTie /\ HorizonAhead /\ Bounded

LEMMA InitAgv == Init => AgvInv
<1> SUFFICES ASSUME Init PROVE AgvInv
  OBVIOUS
<1>1. IInv
  BY InitInv
<1>2. Located
  BY DEF Init, Located, NoOrder
<1>3. ReleasedBySender
  BY DEF Init, ReleasedBySender, NoOrder
<1>4. EndsAsSent
  BY IdentityFacts DEF Init, EndsAsSent, Current, NoOrder
<1>5. CancelTie
  BY EnvironmentAssumption DEF Init, CancelTie
<1>6. HorizonAhead /\ Bounded
  BY DEF Init, HorizonAhead, HasHorizon, Bounded, NoOrder
<1> QED
  BY <1>1, <1>2, <1>3, <1>4, <1>5, <1>6 DEF AgvInv

LEMMA NextAgv ==
  ASSUME NoneActionsAlone, PromptCancelation, UniqueIdentities, AgvInv, [Next]_vars
  PROVE  AgvInv'
<1>1. IInv'
  BY NextInv DEF AgvInv
<1>2. CancelTie'
  BY CancelTieKept DEF AgvInv
<1>3. Located' /\ ReleasedBySender' /\ EndsAsSent' /\ Bounded'
  BY <1>1, NextLocated, ReleasedBySenderKept, EndsAsSentKept, BoundedKept DEF AgvInv
<1>4. HorizonAhead'
  BY <1>1, <1>2, HorizonAheadKept DEF AgvInv
<1> QED
  BY <1>1, <1>2, <1>3, <1>4 DEF AgvInv

-----------------------------------------------------------------------------
(* How the line changes *)

LEMMA SentKept ==
  ASSUME UNCHANGED <<inbox, orderTopic>>, NEW x
  PROVE  Sent(x)' <=> Sent(x)
BY DEF Sent

(* Caches change, and some that start nothing forget their last cache.     *)
LEMMA CoreRelink ==
  ASSUME SystemTypes, NEW kept, NEW f, NEW rk, NEW tip, Core(kept, f, rk, tip),
         DOMAIN caches' = DOMAIN caches,
         \A x \in DOMAIN caches :
           \/ caches'[x].lastCache = caches[x].lastCache
           \/ caches'[x].lastCache = None /\ f[x] = None,
         lastAssigned' = lastAssigned \/ (kept = {} /\ lastAssigned' = None),
         UNCHANGED <<preceding, orderTopic, publishing, inbox>>
  PROVE  Core(kept, f, rk, tip)'
<1>1. Chain(caches, kept, f, rk) /\ kept \subseteq DOMAIN caches
      /\ Line(kept, f, tip) /\ Queue /\ Links(f) /\ Ends(kept, f, tip)
  BY DEF Core
<1>2. PICK ds : ds = caches'
  OBVIOUS
<1>3. Chain(ds, kept, f, rk)
  BY <1>1, <1>2, SameChain
<1>4. Line(kept, f, tip)' /\ Queue'
  BY <1>1 DEF Line, Queue, InTopic
<1>5. Links(f)'
  <2>1. \A x \in DOMAIN caches' : caches'[x].lastCache # None => caches'[x].lastCache = caches[x].lastCache
    OBVIOUS
  <2> QED
    BY <1>1, <2>1, SentKept DEF Links
<1>6. Ends(kept, f, tip)'
  <2>1. LineEnd(tip)' = LineEnd(tip)
    BY DEF LineEnd
  <2>2. CASE lastAssigned' = lastAssigned
    BY <1>1, <2>1, <2>2, SentKept DEF Ends
  <2>3. CASE kept = {} /\ lastAssigned' = None
    <3>1. tip = None /\ InTopic = {}
      BY <1>1, <2>3 DEF Line
    <3>2. LineEnd(tip) = None
      BY <3>1, LineEndFacts
    <3> QED
      BY <1>1, <2>1, <2>3, <3>2, SentKept DEF Ends, Nearest
  <2> QED
    BY <2>2, <2>3
<1> QED
  BY <1>1, <1>2, <1>3, <1>4, <1>5, <1>6 DEF Core

(* An order arrives.                                                       *)
LEMMA CoreReceive ==
  ASSUME SystemTypes, NEW kept, NEW f, NEW rk, NEW tip, Core(kept, f, rk, tip),
         tip # None => f[tip] = None, orderTopic # << >>,
         NEW o, o = Head(orderTopic), orderTopic' = Tail(orderTopic), inbox' = inbox \ {o},
         UNCHANGED <<caches, lastAssigned, preceding, publishing>>
  PROVE  Core(kept, f, rk, o)' /\ o \in Orders /\ o \in kept /\ o \in inbox /\ f[o] = tip
<1>1. Chain(caches, kept, f, rk) /\ kept \subseteq DOMAIN caches
      /\ Line(kept, f, tip) /\ Queue /\ Links(f) /\ Ends(kept, f, tip)
  BY DEF Core
<1>2. /\ f \in [Orders -> Orders \cup {None}] /\ tip \in Orders \cup {None}
      /\ InTopic \subseteq inbox /\ InTopic \subseteq kept /\ None \notin Orders /\ None \notin kept
      /\ tip # None => tip \in kept /\ tip \notin inbox
  BY CoreFacts
<1>3. orderTopic \in Seq(Orders)
  BY DEF SystemTypes
<1>4. /\ o = orderTopic[1] /\ 1 \in DOMAIN orderTopic /\ o \in Orders /\ o \in InTopic
      /\ Len(orderTopic) \in Nat /\ DOMAIN orderTopic = 1 .. Len(orderTopic)
      /\ DOMAIN orderTopic' = 1 .. (Len(orderTopic) - 1)
      /\ \A i \in 1 .. (Len(orderTopic) - 1) : orderTopic'[i] = orderTopic[i + 1]
      /\ Len(orderTopic') = Len(orderTopic) - 1
      /\ Len(orderTopic) = 1 => orderTopic' = << >>
  <2>1. PICK q \in Seq(Orders) : q = orderTopic
    BY <1>3
  <2>2. q # << >> /\ Len(q) \in Nat \ {0} /\ DOMAIN q = 1 .. Len(q)
    BY <2>1
  <2>3. /\ Head(q) = q[1] /\ q[1] \in Orders
        /\ Tail(q) \in Seq(Orders) /\ Len(Tail(q)) = Len(q) - 1
        /\ \A i \in 1 .. (Len(q) - 1) : Tail(q)[i] = q[i + 1]
    BY <2>1, <2>2
  <2>4. DOMAIN Tail(q) = 1 .. (Len(q) - 1)
    BY <2>3
  <2>5. Len(q) = 1 => Tail(q) = << >>
    <3>1. PICK t \in Seq(Orders) : t = Tail(q) /\ Len(t) = Len(q) - 1
      BY <2>3
    <3>2. Len(t) = 0 => t = << >>
      OBVIOUS
    <3> QED
      BY <3>1, <3>2
  <2>6. 1 \in DOMAIN q /\ q[1] \in {q[i] : i \in DOMAIN q}
    BY <2>2
  <2> QED
    BY <2>1, <2>2, <2>3, <2>4, <2>5, <2>6 DEF InTopic
<1>5. o \in kept /\ o \in inbox
  BY <1>2, <1>4
<1>6. f[o] = tip
  BY <1>1, <1>4 DEF Line
<1>7. InTopic' = InTopic \ {o}
  <2>1. ASSUME NEW x \in InTopic'
        PROVE  x \in InTopic \ {o}
    <3>1. PICK i \in DOMAIN orderTopic' : x = orderTopic'[i]
      BY DEF InTopic
    <3>2. i \in 1 .. (Len(orderTopic) - 1) /\ x = orderTopic[i + 1]
      BY <1>4, <3>1
    <3>3. i + 1 \in DOMAIN orderTopic /\ i + 1 # 1
      BY <1>4, <3>2
    <3> QED
      BY <1>1, <1>4, <3>2, <3>3 DEF InTopic, Queue
  <2>2. ASSUME NEW x \in InTopic \ {o}
        PROVE  x \in InTopic'
    <3>1. PICK i \in DOMAIN orderTopic : x = orderTopic[i]
      BY DEF InTopic
    <3>2. i # 1 /\ i - 1 \in 1 .. (Len(orderTopic) - 1) /\ (i - 1) + 1 = i
      BY <1>4, <2>2, <3>1
    <3>3. i - 1 \in DOMAIN orderTopic' /\ orderTopic'[i - 1] = x
      BY <1>4, <3>1, <3>2
    <3> QED
      BY <3>3 DEF InTopic
  <2> QED
    BY <2>1, <2>2
<1>8. ASSUME NEW x \in Orders
      PROVE  Sent(x)' <=> Sent(x)
  <2>1. Sent(x) <=> x \notin inbox \/ x \in InTopic
    BY DEF Sent, InTopic
  <2>2. Sent(x)' <=> x \notin inbox' \/ x \in InTopic'
    BY DEF Sent, InTopic
  <2> QED
    BY <1>5, <1>4, <1>7, <2>1, <2>2
<1>9. Line(kept, f, o)'
  <2>1. kept \ inbox' = {o, Earlier(f, o)} \ {None}
    BY <1>1, <1>2, <1>4, <1>5, <1>6 DEF Line, Earlier
  <2>2. Earlier(f, Earlier(f, o)) = None
    BY <1>2, <1>4, <1>6 DEF Earlier
  <2>3. kept \cap inbox' = InTopic' \cup publishing
    BY <1>1, <1>4, <1>7 DEF Line, Queue
  <2>4. ASSUME NEW i \in DOMAIN orderTopic'
        PROVE  f[orderTopic'[i]] = IF i = 1 THEN o ELSE orderTopic'[i - 1]
    <3>1. i \in 1 .. (Len(orderTopic) - 1) /\ orderTopic'[i] = orderTopic[i + 1] /\ i + 1 # 1
          /\ i + 1 \in DOMAIN orderTopic /\ (i + 1) - 1 = i
      BY <1>4
    <3>2. f[orderTopic'[i]] = orderTopic[i]
      BY <1>1, <3>1 DEF Line
    <3>3. i # 1 => orderTopic'[i - 1] = orderTopic[i]
      <4>1. i # 1 => i - 1 \in 1 .. (Len(orderTopic) - 1) /\ (i - 1) + 1 = i
        BY <1>4, <3>1
      <4> QED
        BY <1>4, <4>1
    <3> QED
      BY <1>4, <3>2, <3>3
  <2>5. o \in Orders \cup {None}
    BY <1>4
  <2> QED
    BY <2>1, <2>2, <2>3, <2>4, <2>5 DEF Line
<1>10. Queue'
  <2>1. publishing' \cap InTopic' = {}
    BY <1>1, <1>7 DEF Queue
  <2>2. ASSUME NEW i \in DOMAIN orderTopic', NEW j \in DOMAIN orderTopic',
               orderTopic'[i] = orderTopic'[j]
        PROVE  i = j
    <3>1. i + 1 \in DOMAIN orderTopic /\ j + 1 \in DOMAIN orderTopic
          /\ orderTopic[i + 1] = orderTopic[j + 1] /\ i \in Nat /\ j \in Nat
      BY <1>4, <2>2
    <3>2. i + 1 = j + 1
      BY <1>1, <3>1 DEF Queue
    <3> QED
      BY <3>1, <3>2
  <2> QED
    BY <2>1, <2>2 DEF Queue
<1>11. Links(f)'
  <2>1. \A x \in Orders : f[x] # None => f[x] \in Orders
    BY <1>2
  <2>2. \A x \in DOMAIN caches : caches[x].lastCache # None => caches[x].lastCache \in Orders
    BY <1>1 DEF Chain
  <2> QED
    BY <1>1, <1>8, <2>1, <2>2 DEF Links
<1>12. Ends(kept, f, o)'
  <2>1. LineEnd(o)' = LineEnd(tip)
    <3>1. CASE Len(orderTopic) = 1
      <4>1. orderTopic' = << >>
        BY <1>4, <3>1
      <4> QED
        BY <1>4, <3>1, <4>1 DEF LineEnd
    <3>2. CASE Len(orderTopic) # 1
      <4>1. Len(orderTopic) - 1 \in 1 .. (Len(orderTopic) - 1) /\ (Len(orderTopic) - 1) + 1 = Len(orderTopic)
        BY <1>4, <3>2
      <4>2. orderTopic' # << >>
        <5>1. Len(<< >>) = 0 /\ Len(orderTopic') # 0
          BY <1>4, <4>1
        <5> QED
          BY <5>1
      <4>3. orderTopic'[Len(orderTopic')] = orderTopic[Len(orderTopic)]
        BY <1>4, <4>1
      <4> QED
        BY <4>2, <4>3 DEF LineEnd
    <3> QED
      BY <3>1, <3>2
  <2>2. preceding # None => preceding \in Orders
    BY <1>1 DEF Ends, Chain
  <2> QED
    BY <1>1, <1>8, <2>1, <2>2 DEF Ends
<1> QED
  BY <1>1, <1>4, <1>5, <1>6, <1>9, <1>10, <1>11, <1>12 DEF Core

-----------------------------------------------------------------------------
(* An order is assigned: it is stitched onto the end of the line, if any.  *)
LEMMA CoreAssign ==
  ASSUME SystemTypes, NEW kept, NEW f, NEW rk, NEW tip, Core(kept, f, rk, tip),
         NEW o \in Orders, o \notin kept, ~ Sent(o), publishing = {},
         \/ kept = {} /\ lastAssigned = None
         \/ preceding # None /\ Sent(preceding),
         preceding' = o, lastAssigned' = o,
         DOMAIN caches' = DOMAIN caches \cup {o},
         \A x \in DOMAIN caches \ {o} : caches'[x] = caches[x],
         caches'[o].lastCache = lastAssigned,
         \/ orderTopic' = Append(orderTopic, o) /\ publishing' = publishing
         \/ publishing' = {o} /\ orderTopic' = orderTopic,
         inbox' = inbox
  PROVE  /\ o \in inbox
         /\ \E h, rh : /\ Core(kept \cup {o}, h, rh, tip)'
                       /\ Agrees(h, f, o)
<1>1. Chain(caches, kept, f, rk) /\ kept \subseteq DOMAIN caches
      /\ Line(kept, f, tip) /\ Queue /\ Links(f) /\ Ends(kept, f, tip)
  BY DEF Core
<1>2. /\ f \in [Orders -> Orders \cup {None}] /\ tip \in Orders \cup {None}
      /\ InTopic \subseteq inbox /\ InTopic \subseteq kept /\ None \notin Orders /\ None \notin kept
      /\ tip # None => tip \in kept /\ tip \notin inbox
      /\ tip # None /\ f[tip] # None =>
           f[tip] \in kept /\ f[tip] \in Orders /\ f[tip] \notin inbox /\ f[f[tip]] = None
      /\ DOMAIN caches \subseteq Orders /\ lastAssigned \in Orders \cup {None}
  BY CoreFacts
<1>3. o \in inbox /\ o \notin InTopic
  BY DEF Sent, InTopic
<1>4. lastAssigned # None =>
        lastAssigned = preceding /\ Sent(lastAssigned) /\ lastAssigned \in DOMAIN caches /\ lastAssigned # o
  BY <1>1 DEF Ends
<1>5. \A x \in DOMAIN caches : caches[x].lastCache # o
  BY <1>1, <1>2 DEF Links
<1>6. PICK cs, ds, l : cs = caches /\ ds = caches' /\ l = lastAssigned
  OBVIOUS
<1>7. Extended(ds, kept, f, o, l)
  <2>1. /\ Chain(cs, kept, f, rk) /\ None \notin Orders
        /\ l \in Orders \cup {None} /\ l # o /\ (l # None => l \in DOMAIN cs)
    BY <1>1, <1>2, <1>4, <1>6
  <2>2. Adds(cs, ds, o, l)
    BY <1>5, <1>6 DEF Adds
  <2> QED
    BY <2>1, <2>2, AddToChain
<1>8. PICK h, rh : /\ Chain(ds, kept \cup {o}, h, rh)
                   /\ h[o] = Nearest(l, kept, f)
                   /\ Agrees(h, f, o)
  BY <1>7 DEF Extended
<1> USE DEF Agrees
<1>9. Nearest(l, kept, f) = LineEnd(tip)
  <2>1. CASE kept = {} /\ lastAssigned = None
    <3>1. tip = None /\ InTopic = {}
      BY <1>1, <2>1 DEF Line
    <3> QED
      BY <1>6, <2>1, <3>1, LineEndFacts DEF Nearest
  <2>2. CASE preceding # None /\ Sent(preceding)
    BY <1>1, <1>6, <2>2 DEF Ends
  <2> QED
    BY <2>1, <2>2
<1>10. h[o] # None => Sent(h[o])
  <2>1. CASE l \in kept
    BY <1>2, <1>4, <1>6, <1>8, <2>1 DEF Nearest
  <2>2. CASE l \notin kept /\ l # None
    BY <1>1, <1>2, <1>6, <1>8, <2>2 DEF Nearest, Links
  <2> QED
    BY <1>8, <2>1, <2>2 DEF Nearest
<1>11. orderTopic \in Seq(Orders)
  BY DEF SystemTypes
<1>12. /\ InTopic' \cup publishing' = InTopic \cup {o} /\ InTopic \subseteq InTopic'
       /\ Queue'
       /\ \A i \in DOMAIN orderTopic' : h[orderTopic'[i]] = IF i = 1 THEN tip ELSE orderTopic'[i - 1]
       /\ publishing' \subseteq {o}
       /\ Sent(o)' => publishing' = {} /\ LineEnd(tip)' = o
  <2>1. CASE orderTopic' = Append(orderTopic, o) /\ publishing' = publishing
    <3>1. /\ DOMAIN orderTopic = 1 .. Len(orderTopic) /\ Len(orderTopic) \in Nat
          /\ DOMAIN orderTopic' = 1 .. (Len(orderTopic) + 1) /\ Len(orderTopic') = Len(orderTopic) + 1
          /\ orderTopic'[Len(orderTopic) + 1] = o
          /\ \A i \in 1 .. Len(orderTopic) : orderTopic'[i] = orderTopic[i]
          /\ orderTopic' # << >>
      BY <1>11, <2>1
    <3>2. InTopic' = InTopic \cup {o}
      <4>1. ASSUME NEW x \in InTopic'
            PROVE  x \in InTopic \cup {o}
        <5>1. PICK i \in DOMAIN orderTopic' : x = orderTopic'[i]
          BY DEF InTopic
        <5>2. i \in 1 .. Len(orderTopic) \/ i = Len(orderTopic) + 1
          BY <3>1
        <5> QED
          BY <3>1, <5>1, <5>2 DEF InTopic
      <4>2. ASSUME NEW x \in InTopic
            PROVE  x \in InTopic'
        <5>1. PICK i \in DOMAIN orderTopic : x = orderTopic[i]
          BY DEF InTopic
        <5>2. i \in DOMAIN orderTopic' /\ orderTopic'[i] = x
          BY <3>1, <5>1
        <5> QED
          BY <5>2 DEF InTopic
      <4>3. o \in InTopic'
        <5>1. Len(orderTopic) + 1 \in DOMAIN orderTopic'
          BY <3>1
        <5> QED
          BY <3>1, <5>1 DEF InTopic
      <4> QED
        BY <4>1, <4>2, <4>3
    <3>3. ASSUME NEW i \in DOMAIN orderTopic'
          PROVE  h[orderTopic'[i]] = IF i = 1 THEN tip ELSE orderTopic'[i - 1]
      <4>1. CASE i \in 1 .. Len(orderTopic)
        <5>1. orderTopic[i] \in Orders \ {o}
          BY <1>3, <1>11, <3>1, <4>1 DEF InTopic
        <5>2. f[orderTopic[i]] = IF i = 1 THEN tip ELSE orderTopic[i - 1]
          BY <1>1, <3>1, <4>1 DEF Line
        <5>3. i # 1 => i - 1 \in 1 .. Len(orderTopic)
          BY <3>1, <4>1
        <5> QED
          BY <1>8, <3>1, <4>1, <5>1, <5>2, <5>3
      <4>2. CASE i = Len(orderTopic) + 1
        <5>1. h[orderTopic'[i]] = LineEnd(tip)
          BY <1>8, <1>9, <3>1, <4>2
        <5>2. CASE orderTopic = << >>
          BY <3>1, <4>2, <5>1, <5>2 DEF LineEnd
        <5>3. CASE orderTopic # << >>
          <6>1. Len(orderTopic) # 0
            BY <1>11, <5>3
          <6>2. i # 1 /\ i - 1 = Len(orderTopic) /\ i - 1 \in 1 .. Len(orderTopic)
            BY <3>1, <4>2, <6>1
          <6> QED
            BY <3>1, <5>1, <5>3, <6>2 DEF LineEnd
        <5> QED
          BY <5>2, <5>3
      <4> QED
        BY <3>1, <4>1, <4>2
    <3>4. Queue'
      <4>1. publishing' \cap InTopic' = {}
        BY <2>1
      <4>2. ASSUME NEW i \in DOMAIN orderTopic', NEW j \in DOMAIN orderTopic',
                   orderTopic'[i] = orderTopic'[j]
            PROVE  i = j
        <5>1. \A k \in 1 .. Len(orderTopic) : orderTopic[k] # o
          BY <1>3, <3>1 DEF InTopic
        <5> QED
          BY <1>1, <3>1, <4>2, <5>1 DEF Queue
      <4> QED
        BY <4>1, <4>2 DEF Queue
    <3>5. LineEnd(tip)' = o
      BY <3>1 DEF LineEnd
    <3> QED
      BY <2>1, <3>2, <3>3, <3>4, <3>5
  <2>2. CASE publishing' = {o} /\ orderTopic' = orderTopic
    <3>1. InTopic' = InTopic
      BY <2>2 DEF InTopic
    <3>2. ASSUME NEW i \in DOMAIN orderTopic'
          PROVE  h[orderTopic'[i]] = IF i = 1 THEN tip ELSE orderTopic'[i - 1]
      <4>1. orderTopic[i] \in Orders \ {o}
        BY <1>3, <1>11, <2>2 DEF InTopic
      <4>2. f[orderTopic[i]] = IF i = 1 THEN tip ELSE orderTopic[i - 1]
        BY <1>1, <2>2 DEF Line
      <4> QED
        BY <1>8, <2>2, <4>1, <4>2
    <3>3. Queue'
      BY <1>1, <1>3, <2>2, <3>1 DEF Queue
    <3>4. ~ Sent(o)'
      <4>1. Sent(o)' <=> o \notin inbox' \/ o \in InTopic'
        BY DEF Sent, InTopic
      <4> QED
        BY <1>3, <3>1, <4>1
    <3> QED
      BY <2>2, <3>1, <3>2, <3>3, <3>4
  <2> QED
    BY <2>1, <2>2
<1>13. ASSUME NEW x, Sent(x)
       PROVE  Sent(x)'
  <2>1. x \notin inbox \/ x \in InTopic
    BY <1>13 DEF Sent, InTopic
  <2>2. x \notin inbox' \/ x \in InTopic'
    BY <1>12, <2>1
  <2>3. Sent(x)' <=> x \notin inbox' \/ x \in InTopic'
    BY DEF Sent, InTopic
  <2> QED
    BY <2>2, <2>3
<1>14. Line(kept \cup {o}, h, tip)'
  <2>1. (kept \cup {o}) \ inbox' = {tip, Earlier(h, tip)} \ {None}
        /\ Earlier(h, Earlier(h, tip)) = None
    <3>1. tip # None => h[tip] = f[tip]
      BY <1>2, <1>3, <1>8
    <3>2. tip # None /\ f[tip] # None => h[f[tip]] = f[f[tip]]
      BY <1>2, <1>3, <1>8
    <3>3. kept \ inbox = {tip, Earlier(f, tip)} \ {None}
      BY <1>1 DEF Line
    <3> QED
      BY <1>2, <1>3, <3>1, <3>2, <3>3 DEF Earlier
  <2>2. (kept \cup {o}) \cap inbox' = InTopic' \cup publishing'
    BY <1>1, <1>3, <1>12 DEF Line
  <2> QED
    BY <1>2, <1>12, <2>1, <2>2 DEF Line
<1>15. Links(h)'
  <2>1. \A x : Sent(x) => x \notin inbox' \/ \E i \in DOMAIN orderTopic' : orderTopic'[i] = x
    BY <1>13 DEF Sent
  <2>2. \A x \in Orders : h[x] # None => Sent(h[x])
    BY <1>1, <1>8, <1>10 DEF Links
  <2>3. \A x \in DOMAIN caches' : caches'[x].lastCache # None => Sent(caches'[x].lastCache)
    BY <1>1, <1>4 DEF Links
  <2> QED
    BY <2>1, <2>2, <2>3 DEF Links, Sent
<1>16. Ends(kept \cup {o}, h, tip)'
  BY <1>2, <1>12 DEF Ends, Nearest
<1>17. Core(kept \cup {o}, h, rh, tip)'
  <2>1. Chain(caches', kept \cup {o}, h, rh) /\ kept \cup {o} \subseteq DOMAIN caches'
    BY <1>1, <1>6, <1>8
  <2> QED
    BY <2>1, <1>12, <1>14, <1>15, <1>16 DEF Core
<1> QED
  BY <1>3, <1>8, <1>17

(* The publication of an order fails that is not stitched onto.            *)
LEMMA CorePublishFails ==
  ASSUME SystemTypes, NEW kept, NEW f, NEW rk, NEW tip, Core(kept, f, rk, tip),
         publishing # {}, publishing' = {},
         lastAssigned' = lastAssigned \/ (kept \ publishing = {} /\ lastAssigned' = None),
         UNCHANGED <<caches, preceding, orderTopic, inbox>>,
         NEW left, left = kept \ publishing
  PROVE  Core(left, f, rk, tip)' /\ publishing \subseteq inbox
<1>1. Chain(caches, kept, f, rk) /\ kept \subseteq DOMAIN caches
      /\ Line(kept, f, tip) /\ Queue /\ Links(f) /\ Ends(kept, f, tip)
  BY DEF Core
<1>2. /\ f \in [Orders -> Orders \cup {None}] /\ tip \in Orders \cup {None}
      /\ None \notin Orders /\ None \notin kept
      /\ tip # None => tip \in kept /\ tip \notin inbox
      /\ DOMAIN caches \subseteq Orders
  BY CoreFacts
<1>3. PICK r : publishing = {r}
  BY <1>1 DEF Ends
<1>4. r = preceding /\ r \in kept /\ r \in inbox /\ r \notin InTopic /\ ~ Sent(r) /\ r \in DOMAIN caches
  <2>1. r = preceding
    BY <1>1, <1>3 DEF Ends
  <2>2. r \in kept /\ r \in inbox
    BY <1>1, <1>3 DEF Line
  <2>3. r \notin InTopic
    BY <1>1, <1>3 DEF Queue
  <2> QED
    BY <1>1, <2>1, <2>2, <2>3 DEF Sent, InTopic
<1>5. \A x \in Orders : f[x] # r
  BY <1>1, <1>2, <1>4 DEF Links
<1>6. Past(f, r) = f
  BY <1>2, <1>5 DEF Past
<1>7. Chain(caches, left, f, rk)
  <2>1. PICK cs : cs = caches
    OBVIOUS
  <2>2. Chain(cs, kept, f, rk) /\ r \in DOMAIN cs /\ r \in kept /\ None \notin Orders
    BY <1>1, <1>2, <1>4, <2>1
  <2>3. Chain(cs, kept \ {r}, Past(f, r), rk)
    BY <2>2, DropOne
  <2>4. left = kept \ {r}
    BY <1>3
  <2> QED
    BY <1>6, <2>1, <2>3, <2>4
<1>8. Line(left, f, tip)'
  BY <1>1, <1>2, <1>3, <1>4 DEF Line, InTopic, Queue
<1>9. Queue'
  BY <1>1 DEF Queue, InTopic
<1>10. Links(f)'
  BY <1>1, SentKept DEF Links
<1>11. Ends(left, f, tip)'
  BY <1>1, <1>2, <1>4, SentKept DEF Ends
<1>12. left \subseteq DOMAIN caches'
  BY <1>1
<1>13. Chain(caches', left, f, rk)
  BY <1>7
<1> QED
  BY <1>3, <1>4, <1>8, <1>9, <1>10, <1>11, <1>12, <1>13 DEF Core

-----------------------------------------------------------------------------
(* Caches and the order of the AGV *)

MessagePlaces(o) == {[order |-> o, seq |-> s] : s \in Msg[o].first .. Msg[o].last}

ListedAt(o, s) == {Msg[o].actions[s][i] : i \in DOMAIN Msg[o].actions[s]}

(* The cache of an order of which no State has been dispatched.            *)
NewIn(c, o) ==
  /\ c \in OrderStateCache
  /\ c.first = [order |-> o, seq |-> Msg[o].first]
  /\ Places(c) = MessagePlaces(o)
  /\ \A s \in Msg[o].first .. Msg[o].last : c.nodeActions[[order |-> o, seq |-> s]] = ListedAt(o, s)
  /\ c.mappedActions = MessageActions(o)
  /\ c.lastNodeTraversed = None /\ c.lastEdgeProcessed = None /\ ~ c.processed

LEMMA NewCacheFacts ==
  ASSUME NEW o \in Orders, lastAssigned \in Orders \cup {None}, NEW c, c = NewCache(o)
  PROVE  NewIn(c, o) /\ c.lastCache = lastAssigned
<1>1. /\ Msg[o].first \in Nat /\ Msg[o].last \in Nat /\ Msg[o].base \in Nat
      /\ Msg[o].first <= Msg[o].base /\ Msg[o].base <= Msg[o].last /\ IsNode(Msg[o].first)
      /\ Msg[o].actions \in [Msg[o].first .. Msg[o].last -> Seq(Action)]
  BY MessageFacts
<1>2. MessagePlaces(o) \subseteq Place
  BY <1>1 DEF MessagePlaces, Place
<1>3. \A s \in Msg[o].first .. Msg[o].last : ListedAt(o, s) \subseteq Action
  <2> SUFFICES ASSUME NEW s \in Msg[o].first .. Msg[o].last PROVE ListedAt(o, s) \subseteq Action
    OBVIOUS
  <2>1. Msg[o].actions[s] \in Seq(Action)
    BY <1>1
  <2> QED
    BY <2>1 DEF ListedAt
<1> DEFINE na == [p \in MessagePlaces(o) |-> ListedAt(o, p.seq)]
<1>4. /\ DOMAIN na = MessagePlaces(o)
      /\ \A s \in Msg[o].first .. Msg[o].last : na[[order |-> o, seq |-> s]] = ListedAt(o, s)
      /\ na \in [MessagePlaces(o) -> SUBSET Action]
  BY <1>3 DEF MessagePlaces
<1>5. na \in NodeActions
  BY <1>2, <1>4 DEF NodeActions
<1>6. MessageActions(o) \subseteq Action
  BY <1>1 DEF MessageActions
<1>7. [order |-> o, seq |-> Msg[o].first] \in NodePlace
  BY <1>1 DEF NodePlace, Place
<1> DEFINE las == [a \in Action |-> "ABSENT"]
<1>8. las \in [Action -> Status]
  BY DEF Status
<1>9. PICK r \in BOOLEAN : r = FALSE
  OBVIOUS
<1>10. c = [lastCache |-> lastAssigned, first |-> [order |-> o, seq |-> Msg[o].first],
            nodeActions |-> na, mappedActions |-> MessageActions(o), lastActionStates |-> las,
            lastNodeTraversed |-> None, lastEdgeProcessed |-> None, ready |-> r, processed |-> r]
  BY <1>9, Zenon DEF NewCache, MessagePlaces, ListedAt
<1> HIDE DEF na, las
<1>11. c \in OrderStateCache
  BY <1>5, <1>6, <1>7, <1>8, <1>10 DEF OrderStateCache
<1>12. /\ c.first = [order |-> o, seq |-> Msg[o].first] /\ c.nodeActions = na
       /\ c.mappedActions = MessageActions(o) /\ c.lastCache = lastAssigned
       /\ c.lastNodeTraversed = None /\ c.lastEdgeProcessed = None /\ ~ c.processed
  BY <1>9, <1>10
<1> QED
  BY <1>4, <1>11, <1>12 DEF NewIn, Places

-----------------------------------------------------------------------------
(* Stitching of caches *)

ReleasedPlaces(c) == {p \in Places(c) : Released(p)}

LastReleased(c) == CHOOSE p \in ReleasedPlaces(c) : \A q \in ReleasedPlaces(c) : q.seq <= p.seq

(* d is c stitched onto l, whose released part ends at e.                  *)
Joins(d, c, l, e) ==
  /\ d \in OrderStateCache
  /\ Places(d) = ReleasedPlaces(l) \cup (Places(c) \ {c.first})
  /\ \A p \in Places(d) :
       d.nodeActions[p] = IF p = e THEN l.nodeActions[p] \cup c.nodeActions[c.first]
                          ELSE IF p \in ReleasedPlaces(l) THEN l.nodeActions[p]
                          ELSE c.nodeActions[p]
  /\ d.mappedActions = c.mappedActions \cup l.mappedActions
  /\ d.first = l.first /\ d.lastNodeTraversed = l.lastNodeTraversed
  /\ d.lastEdgeProcessed = l.lastEdgeProcessed
  /\ d.lastCache = c.lastCache /\ d.processed = c.processed

LEMMA StitchFields ==
  ASSUME NEW c \in OrderStateCache, NEW l \in OrderStateCache, c.first \in Places(c),
         NEW e, e = LastReleased(l), e \in Places(l),
         NEW d, d = Stitch(c, l)
  PROVE  Joins(d, c, l, e)
<1> DEFINE P == ReleasedPlaces(l) \cup (Places(c) \ {c.first})
           na == [p \in P |-> IF p = e THEN l.nodeActions[p] \cup c.nodeActions[c.first]
                              ELSE IF p \in ReleasedPlaces(l) THEN l.nodeActions[p]
                              ELSE c.nodeActions[p]]
<1>1. /\ Places(c) \subseteq Place /\ c.nodeActions \in [Places(c) -> SUBSET Action]
      /\ Places(l) \subseteq Place /\ l.nodeActions \in [Places(l) -> SUBSET Action]
  BY PlacesType
<1>2. ReleasedPlaces(l) \subseteq Places(l)
  BY DEF ReleasedPlaces
<1>3. na \in [P -> SUBSET Action] /\ P \subseteq Place
  <2>1. ASSUME NEW p \in P
        PROVE  na[p] \in SUBSET Action
    <3>1. CASE p = e
      BY <1>1, <3>1
    <3>2. CASE p # e /\ p \in ReleasedPlaces(l)
      BY <1>1, <1>2, <3>2
    <3>3. CASE p # e /\ p \notin ReleasedPlaces(l)
      BY <1>1, <3>3
    <3> QED
      BY <3>1, <3>2, <3>3
  <2> QED
    BY <1>1, <1>2, <2>1
<1>4. na \in NodeActions /\ DOMAIN na = P
  BY <1>3 DEF NodeActions
<1> DEFINE ma == c.mappedActions \cup l.mappedActions
<1>5. d = [c EXCEPT !.first = l.first, !.nodeActions = na, !.mappedActions = ma,
             !.lastActionStates = l.lastActionStates, !.lastNodeTraversed = l.lastNodeTraversed,
             !.lastEdgeProcessed = l.lastEdgeProcessed, !.ready = l.ready]
  BY Zenon DEF Stitch, LastReleased, ReleasedPlaces
<1>6. \A p \in P : na[p] = IF p = e THEN l.nodeActions[p] \cup c.nodeActions[c.first]
                           ELSE IF p \in ReleasedPlaces(l) THEN l.nodeActions[p]
                           ELSE c.nodeActions[p]
  OBVIOUS
<1>7. ma \subseteq Action
  BY DEF OrderStateCache
<1> HIDE DEF na, ma
<1>8. d \in OrderStateCache
  BY <1>4, <1>5, <1>7 DEF OrderStateCache
<1>9. /\ d.nodeActions = na /\ d.mappedActions = ma
      /\ d.first = l.first /\ d.lastNodeTraversed = l.lastNodeTraversed
      /\ d.lastEdgeProcessed = l.lastEdgeProcessed
      /\ d.lastCache = c.lastCache /\ d.processed = c.processed
  BY <1>5 DEF OrderStateCache
<1> QED
  BY <1>4, <1>6, <1>8, <1>9 DEF Joins, Places, ma

-----------------------------------------------------------------------------
(* A cache holds the route and the actions of an order.                    *)
FitsTo(c, ord, lists) ==
  /\ Places(c) = {PlaceIn(ord, s) : s \in ord.first .. ord.last}
  /\ \A s \in ord.first .. ord.last : c.nodeActions[PlaceIn(ord, s)] = ActionSet(PlaceIn(ord, s), lists)
  /\ c.mappedActions = ReleasedActions(ord, lists)
  /\ c.first = PlaceIn(ord, ord.first)

LEMMA NewFits ==
  ASSUME NEW o \in Orders, NEW c, NewIn(c, o), ListsOK(actions), actions[o] = Msg[o].actions,
         NoneActionsAlone
  PROVE  FitsTo(c, Replacement(o), actions)
<1> DEFINE ord == Replacement(o)
<1>1. /\ ord.first = Msg[o].first /\ ord.last = Msg[o].last
      /\ \A s \in Msg[o].first .. Msg[o].last : ord.at[s] = o
  BY DEF Replacement
<1>2. ReleasedActions(ord, actions) = MessageActions(o)
  BY ReplacementFacts
<1>3. Msg[o].first \in Msg[o].first .. Msg[o].last
  BY MessageFacts
<1> HIDE DEF ord
<1>4. \A s \in ord.first .. ord.last : PlaceIn(ord, s) = [order |-> o, seq |-> s]
  BY <1>1 DEF PlaceIn
<1>5. \A s \in ord.first .. ord.last : ActionSet(PlaceIn(ord, s), actions) = ListedAt(o, s)
  BY <1>4 DEF ActionSet, ActionsOf, ListedAt
<1>6. Places(c) = {PlaceIn(ord, s) : s \in ord.first .. ord.last}
  BY <1>1, <1>4 DEF NewIn, MessagePlaces
<1>7. \A s \in ord.first .. ord.last : c.nodeActions[PlaceIn(ord, s)] = ActionSet(PlaceIn(ord, s), actions)
  BY <1>1, <1>4, <1>5 DEF NewIn
<1>8. c.first = PlaceIn(ord, ord.first)
  BY <1>1, <1>3, <1>4 DEF NewIn
<1> QED
  BY <1>2, <1>6, <1>7, <1>8 DEF FitsTo, NewIn, ord

-----------------------------------------------------------------------------
(* The released part of a cache that holds the current order ends at its   *)
(* base end.                                                               *)
LEMMA ReleasedPart ==
  ASSUME TypeOK, ReleasedBySender, currentOrder.first \in Nat, currentOrder.base \in Nat,
         currentOrder.first <= currentOrder.base,
         NEW l, FitsTo(l, currentOrder, actions)
  PROVE  /\ ReleasedPlaces(l) = {PlaceIn(currentOrder, s) : s \in currentOrder.first .. currentOrder.base}
         /\ LastReleased(l) = BaseEnd
         /\ BaseEnd \in ReleasedPlaces(l) /\ ReleasedPlaces(l) \subseteq Places(l)
<1> DEFINE ord == currentOrder
           R == {PlaceIn(ord, s) : s \in ord.first .. ord.base}
<1>1. ord.last \in Int /\ ord.base <= ord.last
  BY DEF TypeOK, OrderOK
<1>2. \A s \in ord.first .. ord.last :
        /\ PlaceIn(ord, s).seq = s
        /\ Released(PlaceIn(ord, s)) <=> s <= ord.base
  BY DEF ReleasedBySender, Released, PlaceIn
<1>3. Places(l) = {PlaceIn(ord, s) : s \in ord.first .. ord.last}
  BY DEF FitsTo
<1>4. ord.first .. ord.base \subseteq ord.first .. ord.last
  BY <1>1
<1>5. ReleasedPlaces(l) = R
  <2>1. ASSUME NEW p \in ReleasedPlaces(l)
        PROVE  p \in R
    <3>1. p \in Places(l) /\ Released(p)
      BY DEF ReleasedPlaces
    <3>2. PICK s \in ord.first .. ord.last : p = PlaceIn(ord, s)
      BY <1>3, <3>1
    <3>3. s <= ord.base
      BY <1>2, <3>1, <3>2
    <3>4. s \in ord.first .. ord.base
      BY <3>2, <3>3
    <3> QED
      BY <3>2, <3>4
  <2>2. ASSUME NEW p \in R
        PROVE  p \in ReleasedPlaces(l)
    <3>1. PICK s \in ord.first .. ord.base : p = PlaceIn(ord, s)
      BY <2>2
    <3>2. s \in ord.first .. ord.last /\ s <= ord.base
      BY <1>4, <3>1
    <3> QED
      BY <1>2, <1>3, <3>1, <3>2 DEF ReleasedPlaces
  <2> QED
    BY <2>1, <2>2
<1>6. /\ BaseEnd \in R /\ BaseEnd.seq = ord.base
      /\ \A p \in R : p.seq <= ord.base /\ p = PlaceIn(ord, p.seq) /\ p.seq \in Nat
  BY <1>2, <1>4 DEF BaseEnd, PlaceIn
<1>7. LastReleased(l) = BaseEnd
  <2> DEFINE e == CHOOSE p \in R : \A q \in R : q.seq <= p.seq
  <2>1. LastReleased(l) = e
    BY <1>5 DEF LastReleased
  <2>2. \E p \in R : \A q \in R : q.seq <= p.seq
    BY <1>6
  <2>3. e \in R /\ \A q \in R : q.seq <= e.seq
    BY <2>2
  <2> HIDE DEF e, R
  <2>4. e.seq = ord.base
    BY <1>6, <2>3
  <2>5. e = BaseEnd
    BY <1>6, <2>3, <2>4
  <2> QED
    BY <2>1, <2>5
<1> QED
  BY <1>5, <1>6, <1>7 DEF ReleasedPlaces

LEMMA Concatenated ==
  ASSUME NEW p \in Seq(Action), NEW q \in Seq(Action)
  PROVE  {(p \o q)[i] : i \in DOMAIN (p \o q)} = {p[i] : i \in DOMAIN p} \cup {q[i] : i \in DOMAIN q}
<1>1. /\ DOMAIN (p \o q) = 1 .. (Len(p) + Len(q))
      /\ DOMAIN p = 1 .. Len(p) /\ DOMAIN q = 1 .. Len(q) /\ Len(p) \in Nat /\ Len(q) \in Nat
      /\ \A i \in 1 .. Len(p) : (p \o q)[i] = p[i]
      /\ \A i \in 1 .. Len(q) : (p \o q)[Len(p) + i] = q[i]
  OBVIOUS
<1>2. ASSUME NEW i \in DOMAIN (p \o q)
      PROVE  (p \o q)[i] \in {p[j] : j \in DOMAIN p} \cup {q[j] : j \in DOMAIN q}
  <2>1. CASE i \in 1 .. Len(p)
    BY <1>1, <2>1
  <2>2. CASE i \notin 1 .. Len(p)
    <3>1. i - Len(p) \in 1 .. Len(q) /\ Len(p) + (i - Len(p)) = i
      BY <1>1, <2>2
    <3> QED
      BY <1>1, <3>1
  <2> QED
    BY <2>1, <2>2
<1>3. ASSUME NEW i \in DOMAIN p
      PROVE  p[i] \in {(p \o q)[j] : j \in DOMAIN (p \o q)}
  <2>1. i \in DOMAIN (p \o q) /\ (p \o q)[i] = p[i]
    BY <1>1
  <2> QED
    BY <2>1
<1>4. ASSUME NEW i \in DOMAIN q
      PROVE  q[i] \in {(p \o q)[j] : j \in DOMAIN (p \o q)}
  <2>1. Len(p) + i \in DOMAIN (p \o q) /\ (p \o q)[Len(p) + i] = q[i]
    BY <1>1
  <2> QED
    BY <2>1
<1> QED
  BY <1>2, <1>3, <1>4

(* The lists of the horizon are those of the message.                      *)
LEMMA StitchedHorizon ==
  ASSUME NEW o, Stitching(o)
  PROVE  StitchedLists(o)[o] = Msg[o].actions
<1>1. BaseEnd.order = currentOrder.at[currentOrder.base]
  BY DEF BaseEnd, PlaceIn
<1>2. currentOrder.base \in currentOrder.first .. currentOrder.last
  BY StitchedFacts, ListFacts DEF Stitching, TypeOK
<1>3. BaseEnd.order # o /\ o \in Orders /\ actions[o] = Msg[o].actions /\ DOMAIN actions = Orders
  BY <1>1, <1>2 DEF Stitching, OrderInv, Received, TypeOK, ListsOK
<1> QED
  BY <1>3 DEF StitchedLists

(* The cache of a stitched order holds what the AGV makes of it.           *)
LEMMA StitchFits ==
  ASSUME NEW o, Stitching(o), ReleasedBySender,
         NEW c, NewIn(c, o), NEW l \in OrderStateCache, FitsTo(l, currentOrder, actions),
         NEW d, d = Stitch(c, l)
  PROVE  /\ FitsTo(d, Stitched(o), StitchedLists(o))
         /\ d \in OrderStateCache /\ ~ d.processed
         /\ d.lastNodeTraversed = l.lastNodeTraversed /\ d.lastEdgeProcessed = l.lastEdgeProcessed
         /\ \A p \in Places(l) : p.seq <= currentOrder.base => p \in Places(d)
<1> DEFINE ord == Stitched(o)
           lists == StitchedLists(o)
           b == currentOrder.base
           a == currentOrder.first
           z == Msg[o].last
           R == ReleasedPlaces(l)
<1>1. /\ b = Msg[o].first /\ {a, b, Msg[o].base, z} \subseteq Nat
      /\ a <= b /\ b <= Msg[o].base /\ Msg[o].base <= z
      /\ ord.first = a /\ ord.base = Msg[o].base /\ ord.last = z
      /\ \A s \in a .. b : ord.at[s] = currentOrder.at[s]
      /\ \A s \in (b + 1) .. z : ord.at[s] = o
      /\ ListsOK(lists) /\ OrderOK(ord)
  BY StitchedFacts
<1>2. o \in Orders /\ o \in inbox /\ TypeOK /\ OrderInv
  BY DEF Stitching
<1>3. /\ R = {PlaceIn(currentOrder, s) : s \in a .. b} /\ LastReleased(l) = BaseEnd
      /\ BaseEnd \in R /\ R \subseteq Places(l)
  BY <1>1, <1>2, ReleasedPart
<1>4. c \in OrderStateCache /\ c.first = [order |-> o, seq |-> b] /\ c.first \in Places(c)
      /\ Places(c) = {[order |-> o, seq |-> s] : s \in b .. z}
      /\ \A s \in b .. z : c.nodeActions[[order |-> o, seq |-> s]] = ListedAt(o, s)
      /\ ~ c.processed
  <2>1. b \in b .. z
    BY <1>1
  <2> QED
    BY <1>1, <2>1 DEF NewIn, MessagePlaces
<1>5. /\ d \in OrderStateCache
      /\ Places(d) = R \cup (Places(c) \ {c.first})
      /\ \A p \in Places(d) :
           d.nodeActions[p] = IF p = BaseEnd THEN l.nodeActions[p] \cup c.nodeActions[c.first]
                              ELSE IF p \in R THEN l.nodeActions[p]
                              ELSE c.nodeActions[p]
      /\ d.mappedActions = c.mappedActions \cup l.mappedActions
      /\ d.first = l.first /\ d.lastNodeTraversed = l.lastNodeTraversed
      /\ d.lastEdgeProcessed = l.lastEdgeProcessed
      /\ d.lastCache = c.lastCache /\ d.processed = c.processed
  <2>1. /\ BaseEnd = LastReleased(l) /\ BaseEnd \in Places(l)
        /\ c \in OrderStateCache /\ c.first \in Places(c)
    BY <1>3, <1>4
  <2>2. R = ReleasedPlaces(l)
    OBVIOUS
  <2> HIDE DEF R
  <2>3. Joins(d, c, l, BaseEnd)
    BY <2>1, StitchFields
  <2> QED
    BY <2>2, <2>3, Zenon DEF Joins
<1> HIDE DEF ord, lists, R
<1>6. \A s \in a .. b : PlaceIn(ord, s) = PlaceIn(currentOrder, s)
  BY <1>1 DEF PlaceIn
<1>7. \A s \in (b + 1) .. z : PlaceIn(ord, s) = [order |-> o, seq |-> s]
  BY <1>1 DEF PlaceIn
<1>8. a .. z = (a .. b) \cup ((b + 1) .. z)
  BY <1>1
<1>9. Places(c) \ {c.first} = {PlaceIn(ord, s) : s \in (b + 1) .. z}
  <2>1. ASSUME NEW p \in Places(c) \ {c.first}
        PROVE  p \in {PlaceIn(ord, s) : s \in (b + 1) .. z}
    <3>1. PICK s \in b .. z : p = [order |-> o, seq |-> s]
      BY <1>4
    <3>2. s # b
      BY <1>4, <3>1
    <3>3. s \in (b + 1) .. z
      BY <1>1, <3>1, <3>2
    <3> QED
      BY <1>7, <3>1, <3>3
  <2>2. ASSUME NEW s \in (b + 1) .. z
        PROVE  PlaceIn(ord, s) \in Places(c) \ {c.first}
    <3>1. s \in b .. z /\ s # b
      BY <1>1
    <3>2. [order |-> o, seq |-> s] # [order |-> o, seq |-> b]
      BY <3>1
    <3> QED
      BY <1>4, <1>7, <3>1, <3>2
  <2> QED
    BY <2>1, <2>2
<1>10. Places(d) = {PlaceIn(ord, s) : s \in ord.first .. ord.last}
  <2>1. R = {PlaceIn(ord, s) : s \in a .. b}
    BY <1>3, <1>6
  <2>2. ord.first .. ord.last = (a .. b) \cup ((b + 1) .. z)
    BY <1>1, <1>8
  <2>3. Places(d) = {PlaceIn(ord, s) : s \in a .. b} \cup {PlaceIn(ord, s) : s \in (b + 1) .. z}
    BY <1>5, <1>9, <2>1
  <2> HIDE DEF a, b, z
  <2> QED
    BY <2>2, <2>3
<1>11. ASSUME NEW s \in ord.first .. ord.last
       PROVE  d.nodeActions[PlaceIn(ord, s)] = ActionSet(PlaceIn(ord, s), lists)
  <2>1. PlaceIn(ord, s) \in Places(d)
    BY <1>10
  <2>2. s \in a .. z /\ s \in Nat
    BY <1>1
  <2> DEFINE p == PlaceIn(ord, s)
  <2>5. /\ p = BaseEnd => d.nodeActions[p] = l.nodeActions[p] \cup c.nodeActions[c.first]
        /\ p # BaseEnd /\ p \in R => d.nodeActions[p] = l.nodeActions[p]
        /\ p # BaseEnd /\ p \notin R => d.nodeActions[p] = c.nodeActions[p]
    BY <1>5, <2>1, Zenon
  <2>3. CASE s <= b
    <3>1. s \in a .. b /\ PlaceIn(ord, s) = PlaceIn(currentOrder, s) /\ PlaceIn(currentOrder, s) \in R
      BY <1>3, <1>6, <2>2, <2>3
    <3>2. s \in BaseRange(ord) /\ s \in BaseRange(currentOrder)
      BY <1>1, <2>2, <2>3 DEF BaseRange
    <3>3. /\ ActionSet(PlaceIn(currentOrder, s), actions) =
               {List(currentOrder, actions, s)[i] : i \in DOMAIN List(currentOrder, actions, s)}
          /\ List(currentOrder, actions, s) \in Seq(Action)
          /\ s \in currentOrder.first .. currentOrder.last
      BY <1>2, <3>2, ListFacts, TypeFacts
    <3>4. ActionSet(PlaceIn(ord, s), lists) = {List(ord, lists, s)[i] : i \in DOMAIN List(ord, lists, s)}
      BY <1>1, <3>2, ListFacts
    <3>5. l.nodeActions[PlaceIn(currentOrder, s)] = ActionSet(PlaceIn(currentOrder, s), actions)
      BY <3>3 DEF FitsTo
    <3>6. CASE s = b
      <4>1. PlaceIn(ord, s) = BaseEnd
        BY <3>1, <3>6 DEF BaseEnd
      <4>2. c.nodeActions[c.first] = ListedAt(o, s)
        <5>1. b \in b .. z
          BY <1>1
        <5> QED
          BY <1>4, <3>6, <5>1
      <4>3. List(ord, lists, s) = List(currentOrder, actions, s) \o Msg[o].actions[s]
        BY <3>2, <3>6, StitchedListsFacts DEF ord, lists
      <4>4. Msg[o].actions[s] \in Seq(Action)
        <5>1. s \in Msg[o].first .. Msg[o].last
          BY <1>1, <3>6
        <5> QED
          BY <1>2, <5>1, MessageFacts
      <4>5. ActionSet(PlaceIn(ord, s), lists) = ActionSet(PlaceIn(currentOrder, s), actions) \cup ListedAt(o, s)
        <5>1. PICK u \in Seq(Action) : u = List(currentOrder, actions, s)
          BY <3>3
        <5>2. PICK v \in Seq(Action) : v = Msg[o].actions[s]
          BY <4>4
        <5>3. {(u \o v)[i] : i \in DOMAIN (u \o v)} = {u[i] : i \in DOMAIN u} \cup {v[i] : i \in DOMAIN v}
          BY Concatenated
        <5>4. ActionSet(PlaceIn(ord, s), lists) = {(u \o v)[i] : i \in DOMAIN (u \o v)}
          BY <3>4, <4>3, <5>1, <5>2
        <5> QED
          BY <3>3, <5>1, <5>2, <5>3, <5>4 DEF ListedAt
      <4> QED
        BY <2>5, <3>1, <3>5, <4>1, <4>2, <4>5
    <3>7. CASE s # b
      <4>1. PlaceIn(ord, s) # BaseEnd
        <5>1. PlaceIn(ord, s).seq = s /\ BaseEnd.seq = b
          BY DEF PlaceIn, BaseEnd
        <5> QED
          BY <3>7, <5>1
      <4>2. List(ord, lists, s) = List(currentOrder, actions, s)
        <5>1. s < b
          BY <1>1, <2>2, <2>3, <3>7
        <5> QED
          BY <3>2, <5>1, StitchedListsFacts DEF ord, lists
      <4> QED
        BY <2>5, <3>1, <3>3, <3>4, <3>5, <4>1, <4>2
    <3> QED
      BY <3>6, <3>7
  <2>4. CASE ~ s <= b
    <3>1. s \in (b + 1) .. z /\ s \in b .. z
      BY <1>1, <2>2, <2>4
    <3>2. PlaceIn(ord, s) = [order |-> o, seq |-> s]
      BY <1>7, <3>1
    <3>3. PlaceIn(ord, s) # BaseEnd /\ PlaceIn(ord, s) \notin R
      <4>1. \A t \in a .. b : PlaceIn(currentOrder, t).seq = t
        BY DEF PlaceIn
      <4>2. \A q \in R : q.seq <= b
        BY <1>1, <1>3, <4>1
      <4> QED
        BY <1>3, <2>4, <3>2, <4>2
    <3>4. ActionSet(PlaceIn(ord, s), lists) = ListedAt(o, s)
      BY <3>2, StitchedHorizon DEF ActionSet, ActionsOf, ListedAt, lists
    <3> QED
      BY <1>4, <2>5, <3>1, <3>2, <3>3, <3>4
  <2> QED
    BY <2>3, <2>4
<1>12. d.mappedActions = ReleasedActions(ord, lists)
  BY <1>5, StitchedReleased DEF NewIn, FitsTo, ord, lists
<1>13. d.first = PlaceIn(ord, ord.first)
  <2>1. a \in a .. b
    BY <1>1
  <2> QED
    BY <1>1, <1>5, <1>6, <2>1 DEF FitsTo
<1>14. ASSUME NEW q \in Places(l), q.seq <= currentOrder.base
       PROVE  q \in Places(d)
  <2>1. PICK s \in currentOrder.first .. currentOrder.last : q = PlaceIn(currentOrder, s)
    BY <1>14 DEF FitsTo
  <2>2. s \in a .. b
    BY <1>14, <2>1 DEF PlaceIn
  <2> QED
    BY <1>3, <1>5, <2>1, <2>2
<1>15. FitsTo(d, ord, lists)
  BY <1>10, <1>11, <1>12, <1>13 DEF FitsTo
<1> QED
  BY <1>4, <1>5, <1>14, <1>15 DEF ord, lists

-----------------------------------------------------------------------------
(* Progress of events *)

(* What has been reported to event handlers is behind the AGV.             *)
InPos(c) ==
  /\ c.lastNodeTraversed # None =>
       /\ AtNode /\ c.lastNodeTraversed \in Places(c)
       /\ IsNode(c.lastNodeTraversed.seq) /\ c.lastNodeTraversed.seq <= lastNode.seq
  /\ c.lastEdgeProcessed # None =>
       /\ c.lastNodeTraversed # None
       /\ c.lastEdgeProcessed.seq <= c.lastNodeTraversed.seq + 1

LEMMA CacheTypes ==
  ASSUME NEW c \in OrderStateCache
  PROVE  /\ c.lastNodeTraversed \in NodePlace \cup {None} /\ c.lastEdgeProcessed \in EdgePlace \cup {None}
         /\ c.lastNodeTraversed # None => c.lastNodeTraversed.seq \in Nat /\ IsNode(c.lastNodeTraversed.seq)
         /\ c.lastEdgeProcessed # None => c.lastEdgeProcessed.seq \in Nat
         /\ c.lastNodeTraversed # None => Progress(c) \in Nat
<1>1. /\ c.lastNodeTraversed \in NodePlace \cup {None} /\ c.lastEdgeProcessed \in EdgePlace \cup {None}
  BY DEF OrderStateCache
<1>2. \A p \in NodePlace : p.seq \in Nat /\ IsNode(p.seq)
  BY DEF NodePlace, Place
<1>3. \A p \in EdgePlace : p.seq \in Nat
  BY DEF EdgePlace, Place
<1> QED
  BY <1>1, <1>2, <1>3 DEF Progress

(* The events for an edge.                                                 *)
LEMMA EdgeAdvances ==
  ASSUME NEW c \in OrderStateCache, NEW d \in OrderStateCache, Alike(c, d),
         d.lastNodeTraversed = c.lastNodeTraversed,
         \/ d.lastEdgeProcessed = c.lastEdgeProcessed
         \/ c.lastNodeTraversed # None /\ EdgeBehind(d, c.lastNodeTraversed),
         InPos(c)
  PROVE  InPos(d) /\ (c.lastNodeTraversed # None => Progress(c) <= Progress(d))
<1>1. Places(d) = Places(c)
  BY DEF Alike, Places
<1>2. InPos(d)
  BY <1>1, CacheTypes DEF InPos, EdgeBehind
<1>3. ASSUME c.lastNodeTraversed # None
      PROVE  Progress(c) <= Progress(d)
  <2>1. Progress(c) \in Nat /\ Progress(c) <= c.lastNodeTraversed.seq + 1
    BY <1>3, CacheTypes DEF Progress, InPos
  <2>2. CASE d.lastEdgeProcessed = c.lastEdgeProcessed
    BY <2>1, <2>2 DEF Progress
  <2>3. CASE EdgeBehind(d, c.lastNodeTraversed)
    <3>1. d.lastEdgeProcessed.seq = c.lastNodeTraversed.seq + 1 /\ d.lastEdgeProcessed # None
      BY <2>3 DEF EdgeBehind
    <3>2. c.lastNodeTraversed.seq \in Nat
      BY <1>3, CacheTypes
    <3> QED
      BY <2>1, <3>1, <3>2 DEF Progress
  <2> QED
    BY <1>3, <2>2, <2>3
<1> QED
  BY <1>2, <1>3

(* A node is reported that is further along the route, and not ahead of    *)
(* the AGV.                                                                *)
LEMMA NextNodeFacts ==
  ASSUME TypeOK, Located, currentOrder.orderId # None,
         NEW c \in OrderStateCache, FitsTo(c, currentOrder, actions), InPos(c), NEW n \in NextNodes(c),
         n \in NodePlace
  PROVE  /\ AtNode /\ n \in Places(c) /\ IsNode(n.seq) /\ n.seq \in Nat /\ n.seq <= lastNode.seq
         /\ c.lastNodeTraversed # None => c.lastNodeTraversed.seq + 2 <= n.seq
<1>1. n.seq \in Nat /\ IsNode(n.seq)
  BY DEF NodePlace, Place
<1>2. /\ currentOrder.first \in Nat /\ currentOrder.base \in Int /\ currentOrder.last \in Int
      /\ currentOrder.base <= currentOrder.last /\ currentOrder.first <= currentOrder.base
  BY DEF TypeOK, OrderOK
<1>3. Places(c) = {PlaceIn(currentOrder, s) : s \in currentOrder.first .. currentOrder.last}
  BY DEF FitsTo
<1>4. CASE c.lastNodeTraversed = None
  <2>1. n = c.first /\ ~ InNodeStates(n)
    BY <1>4 DEF NextNodes
  <2>2. n = PlaceIn(currentOrder, currentOrder.first)
    BY <2>1 DEF FitsTo
  <2>3. n.seq = currentOrder.first
    BY <2>2 DEF PlaceIn
  <2>4. n.seq \notin nodeStates
    BY <2>1, <2>2, <2>3 DEF InNodeStates, SameNode
  <2>5. AtNode
    BY <2>3, <2>4 DEF Located, Waiting
  <2>6. n.seq <= lastNode.seq
    BY <1>2, <2>3, <2>5 DEF AtNode, BaseRange
  <2>7. n \in Places(c)
    BY <1>2, <1>3, <2>2
  <2> QED
    BY <1>1, <1>4, <2>5, <2>6, <2>7
<1>5. CASE c.lastNodeTraversed # None
  <2>1. /\ n \in Places(c) /\ SameNode(n, lastNode) /\ ~ SameNode(n, c.lastNodeTraversed)
    BY <1>5 DEF NextNodes
  <2>2. AtNode /\ c.lastNodeTraversed \in Places(c) /\ c.lastNodeTraversed.seq <= lastNode.seq
    BY <1>5 DEF InPos
  <2>3. n.seq = lastNode.seq
    BY <2>1 DEF SameNode
  <2>4. n.seq # c.lastNodeTraversed.seq
    <3> SUFFICES ASSUME n.seq = c.lastNodeTraversed.seq PROVE FALSE
      OBVIOUS
    <3>1. \A p \in Places(c) : p = PlaceIn(currentOrder, p.seq)
      BY <1>3 DEF PlaceIn
    <3>2. n = c.lastNodeTraversed
      BY <2>1, <2>2, <3>1
    <3> QED
      BY <2>1, <3>2 DEF SameNode
  <2>5. c.lastNodeTraversed.seq \in Nat /\ IsNode(c.lastNodeTraversed.seq)
    BY <1>5, CacheTypes
  <2>6. c.lastNodeTraversed.seq + 1 # n.seq
    BY <1>1, <2>5, Parity
  <2>7. c.lastNodeTraversed.seq + 2 <= n.seq
    BY <1>1, <2>2, <2>3, <2>4, <2>5, <2>6
  <2> QED
    BY <1>1, <2>1, <2>2, <2>3, <2>7
<1> QED
  BY <1>4, <1>5

(* The cache d that the events of a State message make of c.               *)
Driven(c) == NodeEvents(EdgeEvents(UpdateActions(c)))

LEMMA DrivenFacts ==
  ASSUME TypeOK, Located, currentOrder.orderId # None,
         NEW c \in OrderStateCache, FitsTo(c, currentOrder, actions), InPos(c),
         NEW d, d = Driven(c)
  PROVE  /\ d \in OrderStateCache /\ Alike(c, d) /\ InPos(d)
         /\ \A a \in c.mappedActions : actionStates[a] # "ABSENT" => d.lastActionStates[a] = actionStates[a]
         /\ c.lastNodeTraversed # None => d.lastNodeTraversed # None /\ Progress(c) <= Progress(d)
<1>1. PICK u : u = UpdateActions(c)
  OBVIOUS
<1>2. PICK v : v = EdgeEvents(u)
  OBVIOUS
<1>3. d = NodeEvents(v)
  BY <1>1, <1>2 DEF Driven
<1>4. /\ u \in OrderStateCache /\ Alike(c, u)
      /\ u.lastNodeTraversed = c.lastNodeTraversed /\ u.lastEdgeProcessed = c.lastEdgeProcessed
      /\ \A a \in c.mappedActions : actionStates[a] # "ABSENT" => u.lastActionStates[a] = actionStates[a]
  BY <1>1, UpdateActionsFacts
<1>5. InPos(u) /\ (c.lastNodeTraversed # None => Progress(c) <= Progress(u))
  BY <1>4, EdgeAdvances
<1>6. /\ v \in OrderStateCache /\ Alike(u, v)
      /\ v.lastActionStates = u.lastActionStates
      /\ v.lastNodeTraversed = u.lastNodeTraversed
      /\ \/ v.lastEdgeProcessed = u.lastEdgeProcessed
         \/ u.lastNodeTraversed # None /\ EdgeBehind(v, u.lastNodeTraversed)
  BY <1>2, <1>4, EdgeEventsFacts
<1>7. InPos(v) /\ (c.lastNodeTraversed # None => Progress(u) <= Progress(v))
  BY <1>4, <1>5, <1>6, EdgeAdvances
<1>8. FitsTo(v, currentOrder, actions) /\ Places(v) = Places(c) /\ v.lastNodeTraversed = c.lastNodeTraversed
  BY <1>4, <1>6 DEF FitsTo, Alike, Places
<1>9. /\ d \in OrderStateCache /\ Alike(v, d)
      /\ d.lastActionStates = v.lastActionStates
      /\ \/ d = v
         \/ \E n \in NextNodes(v) :
              /\ n \in NodePlace
              /\ d.lastNodeTraversed = n
              /\ d.lastEdgeProcessed = v.lastEdgeProcessed \/ EdgeBehind(d, n)
  BY <1>3, <1>6, NodeEventsFacts
<1>10. Alike(c, d) /\ Places(d) = Places(v)
  BY <1>4, <1>6, <1>9 DEF Alike, Places
<1>11. c.lastNodeTraversed # None => Progress(c) <= Progress(v) /\ Progress(v) \in Nat /\ Progress(c) \in Nat
  BY <1>4, <1>5, <1>6, <1>7, <1>8, CacheTypes
<1>12. InPos(d) /\ (c.lastNodeTraversed # None => d.lastNodeTraversed # None /\ Progress(c) <= Progress(d))
  <2>1. CASE d = v
    BY <1>7, <1>8, <1>11, <2>1
  <2>2. CASE \E n \in NextNodes(v) :
              /\ n \in NodePlace
              /\ d.lastNodeTraversed = n
              /\ d.lastEdgeProcessed = v.lastEdgeProcessed \/ EdgeBehind(d, n)
    <3>1. PICK n \in NextNodes(v) :
              /\ n \in NodePlace
              /\ d.lastNodeTraversed = n
              /\ d.lastEdgeProcessed = v.lastEdgeProcessed \/ EdgeBehind(d, n)
      BY <2>2
    <3>2. /\ AtNode /\ n \in Places(v) /\ IsNode(n.seq) /\ n.seq \in Nat /\ n.seq <= lastNode.seq
          /\ v.lastNodeTraversed # None => v.lastNodeTraversed.seq + 2 <= n.seq
      BY <1>6, <1>7, <1>8, <3>1, NextNodeFacts
    <3>3. n # None
      BY <3>1, EnvironmentAssumption DEF NodePlace, Place
    <3>4. d.lastEdgeProcessed # None => d.lastEdgeProcessed.seq <= n.seq + 1
      <4>1. CASE EdgeBehind(d, n)
        BY <3>2, <4>1 DEF EdgeBehind
      <4>2. CASE d.lastEdgeProcessed = v.lastEdgeProcessed
        BY <1>6, <1>7, <3>2, <4>2, CacheTypes DEF InPos
      <4> QED
        BY <3>1, <4>1, <4>2
    <3>5. InPos(d)
      BY <1>10, <3>1, <3>2, <3>3, <3>4 DEF InPos
    <3>6. ASSUME c.lastNodeTraversed # None
          PROVE  Progress(c) <= Progress(d)
      <4>1. Progress(v) <= v.lastNodeTraversed.seq + 1 /\ v.lastNodeTraversed # None
        BY <1>6, <1>7, <1>8, <3>6, CacheTypes DEF Progress, InPos
      <4>2. n.seq <= Progress(d)
        BY <1>9, <3>1, <3>2, <3>3, CacheTypes DEF Progress
      <4>3. v.lastNodeTraversed.seq \in Nat /\ Progress(d) \in Nat
        BY <1>6, <1>9, <3>1, <3>3, <4>1, CacheTypes
      <4> QED
        BY <1>11, <3>2, <3>6, <4>1, <4>2, <4>3
    <3> QED
      BY <3>1, <3>3, <3>5, <3>6
  <2> QED
    BY <1>9, <2>1, <2>2
<1> QED
  BY <1>4, <1>6, <1>9, <1>10, <1>12

-----------------------------------------------------------------------------
(* The invariant of master control *)

(* A cache holds what the AGV has, and is not ahead of it.                 *)
Matches(c) ==
  /\ c \in OrderStateCache
  /\ FitsTo(c, currentOrder, actions) /\ InPos(c)
  /\ c.processed => HasHorizon

(* The cache of o when the next State message is dispatched to it.         *)
Merged(cs, f, o) == IF f[o] = None THEN cs[o] ELSE Stitch(cs[o], cs[f[o]])

CacheInv(f) ==
  \A o \in registered : Current(o) => \E c : c = Merged(caches, f, o) /\ Matches(c)

(***************************************************************************)
(* The order that arrived last is the current order, or was rejected and   *)
(* its predecessor is the current order; a State message about it is still *)
(* to be dispatched if there is a predecessor or a rejection.              *)
(***************************************************************************)
Tip(f, tip) ==
  /\ tip # None /\ Current(tip) /\ f[tip] # None => ~ upToDate /\ NewIn(caches[tip], tip)
  /\ tip # None /\ ~ Current(tip) =>
       /\ ~ upToDate
       /\ \E r \in rejections : r.order = tip
       /\ f[tip] # None => Current(f[tip])
  /\ \A r \in rejections : r.order \in registered => r.order = tip /\ ~ Current(tip)
  /\ \A o \in registered \cap inbox : NewIn(caches[o], o)

OnLine(f, rk, tip) == Core(registered, f, rk, tip) /\ Tip(f, tip) /\ CacheInv(f)

LineInv == \E f, rk, tip : OnLine(f, rk, tip)

CachesOK == \A x \in DOMAIN caches : caches[x] \in OrderStateCache

(* The active order has a cache, until it is reported as completed.        *)
ActiveOK ==
  \A o \in Orders : Current(o) =>
    /\ hasActiveOrder => o \in registered
    /\ upToDate /\ o \in registered => hasActiveOrder

(* Orders with a horizon are not canceled (see CanceledWithoutHorizon).    *)
MayCancel == plan.cancels # << >> \/ initiated # << >> \/ ~ NotCanceled

Known(o) == o \in DOMAIN caches \/ \E i \in DOMAIN plan.orders : plan.orders[i] = o

HorizonInv == MayCancel => \A o \in Orders : Known(o) => Msg[o].base = Msg[o].last

Assigned == registered = {} => lastAssigned = None

CanceledArrived == canceled \subseteq Orders \ inbox

MasterFacts ==
  RejectionIInv /\ AgvInv /\ CachesOK /\ ActiveOK /\ HorizonInv /\ Assigned /\ CanceledArrived

MasterIInv == MasterFacts /\ LineInv

-----------------------------------------------------------------------------
LEMMA OneCurrent ==
  ASSUME UniqueIdentities, NEW o \in Orders, NEW p \in Orders, Current(o), Current(p)
  PROVE  o = p
BY DEF UniqueIdentities, Current

LEMMA CurrentArrived ==
  ASSUME RejectionInv, UniqueIdentities, NEW o \in Orders, Current(o)
  PROVE  o \notin inbox /\ currentOrder.orderId # None
<1>1. currentOrder.orderId # None
  BY IdentityFacts DEF Current, Identity
<1>2. PICK x \in Orders \ inbox : Current(x)
  BY <1>1 DEF RejectionInv
<1> QED
  BY <1>1, <1>2, OneCurrent

LEMMA CurrentOnLine ==
  ASSUME RejectionInv, UniqueIdentities, SystemTypes, NEW kept, NEW f, NEW rk, NEW tip,
         Core(kept, f, rk, tip), NEW o \in kept, Current(o)
  PROVE  /\ tip # None /\ o \in Orders
         /\ o = tip \/ (f[tip] # None /\ o = f[tip])
<1>1. o \in Orders /\ None \notin Orders
  BY CoreFacts
<1>2. o \notin inbox
  BY <1>1, CurrentArrived
<1>3. o \in {tip, Earlier(f, tip)} \ {None}
  BY <1>2 DEF Core, Line
<1> QED
  BY <1>1, <1>3 DEF Earlier

LEMMA CoreAt ==
  ASSUME NEW f, NEW rk, NEW tip, NEW k, k = registered', Core(k, f, rk, tip)'
  PROVE  Core(registered, f, rk, tip)'
BY DEF Core, Line, Ends

LEMMA MatchesKept ==
  ASSUME UNCHANGED <<currentOrder, actions>>, Forward, NEW c, Matches(c)
  PROVE  Matches(c)'
<1>1. FitsTo(c, currentOrder, actions) /\ InPos(c)
  BY DEF Matches
<1>2. FitsTo(c, currentOrder, actions)'
  BY <1>1 DEF FitsTo
<1>3. InPos(c)'
  <2>1. ASSUME c.lastNodeTraversed # None
        PROVE  /\ AtNode' /\ c.lastNodeTraversed \in Places(c)
               /\ IsNode(c.lastNodeTraversed.seq) /\ c.lastNodeTraversed.seq <= lastNode'.seq
    <3>1. /\ AtNode /\ c.lastNodeTraversed \in Places(c)
          /\ IsNode(c.lastNodeTraversed.seq) /\ c.lastNodeTraversed.seq <= lastNode.seq
      BY <1>1, <2>1 DEF InPos
    <3>2. AtNode' /\ lastNode.seq <= lastNode'.seq
      BY <3>1 DEF Forward
    <3>3. \A p \in Places(c) : p.seq \in Int
      BY <1>1 DEF FitsTo, PlaceIn
    <3>4. lastNode.seq \in Int /\ lastNode'.seq \in Int
      BY <3>1, <3>2 DEF AtNode, BaseRange
    <3>5. c.lastNodeTraversed.seq <= lastNode'.seq
      BY <3>1, <3>2, <3>3, <3>4
    <3> QED
      BY <3>1, <3>2, <3>5
  <2>2. c.lastEdgeProcessed # None =>
          c.lastNodeTraversed # None /\ c.lastEdgeProcessed.seq <= c.lastNodeTraversed.seq + 1
    BY <1>1 DEF InPos
  <2> QED
    BY <2>1, <2>2 DEF InPos
<1> QED
  BY <1>2, <1>3 DEF Matches, HasHorizon

(* Nothing happens to the orders and caches.                               *)
LEMMA QuietLine ==
  ASSUME UNCHANGED <<currentOrder, actions, rejections, inbox>>, Forward,
         UNCHANGED <<caches, registered, lastAssigned, preceding, orderTopic, publishing>>,
         upToDate' => upToDate,
         SystemTypes, NEW f, NEW rk, NEW tip, OnLine(f, rk, tip)
  PROVE  OnLine(f, rk, tip)'
<1>1. PICK k : k = registered
  OBVIOUS
<1>2. Core(k, f, rk, tip)
  BY <1>1 DEF OnLine
<1>3. Core(k, f, rk, tip)'
  BY <1>2, CoreRelink
<1>4. Core(registered, f, rk, tip)'
  BY <1>1, <1>3, CoreAt
<1>5. Tip(f, tip)'
  BY DEF OnLine, Tip, Current, Identity
<1>6. CacheInv(f)'
  <2>1. ASSUME NEW o \in registered', Current(o)'
        PROVE  \E c : c = Merged(caches', f, o) /\ Matches(c)'
    <3>1. PICK c : c = Merged(caches, f, o) /\ Matches(c)
      BY <2>1 DEF OnLine, CacheInv, Current, Identity
    <3> QED
      BY <3>1, MatchesKept
  <2> QED
    BY <2>1 DEF CacheInv
<1> QED
  BY <1>4, <1>5, <1>6 DEF OnLine

-----------------------------------------------------------------------------
(* Steps of the system: what is known to master control *)

LEMMA KeptElements ==
  ASSUME NEW A, NEW s \in Seq(A), NEW S, NEW q, q = Kept(s, S)
  PROVE  /\ q \in Seq(A)
         /\ \A k \in DOMAIN q : \E i \in DOMAIN s : s[i] = q[k]
         /\ s = << >> => q = << >>
<1>1. q \in Seq(A) /\ \E g : Selects(s, S, q, g, Len(s))
  BY KeptFacts
<1>2. PICK g : Selects(s, S, q, g, Len(s))
  BY <1>1
<1>3. \A k \in 1 .. Len(q) : g[k] \in 1 .. Len(s) /\ q[k] = s[g[k]]
  BY <1>2 DEF Selects
<1>4. DOMAIN q = 1 .. Len(q) /\ Len(q) \in Nat /\ DOMAIN s = 1 .. Len(s)
  BY <1>1
<1>5. ASSUME s = << >>
      PROVE  q = << >>
  <2>1. Len(s) = 0
    BY <1>5
  <2>2. Len(q) = 0
    BY <1>3, <1>4, <2>1
  <2> QED
    BY <1>1, <2>2
<1> QED
  BY <1>1, <1>3, <1>4, <1>5

(* The steps but those of master control keep its caches and its plan.     *)
LEMMA CachesChange ==
  ASSUME [SystemNext]_allVars
  PROVE  DispatchState \/ AssignOrder \/ caches' = caches
BY DEF SystemNext, PublishFails, InitiateCancelOrder, ReceiveAssigned, ReceiveCancelOrder,
   AdapterStep, Adapter, ReportAgvError, allVars, systemVars, cacheVars

LEMMA KnownBefore ==
  ASSUME SystemTypes, [SystemNext]_allVars, NEW o \in Orders, Known(o)'
  PROVE  Known(o)
<1>1. PICK q \in Seq(Orders) : q = plan.orders
  BY DEF SystemTypes
<1>2. CASE plan'.orders = plan.orders /\ DOMAIN caches' = DOMAIN caches
  BY <1>2 DEF Known
<1>3. CASE DispatchState
  <2>1. DOMAIN caches' = DOMAIN caches
    BY <1>3 DEF DispatchState, DispatchOrderState
  <2> QED
    BY <1>2, <1>3, <2>1 DEF DispatchState
<1>4. CASE AssignOrder
  <2>1. q # << >> /\ plan'.orders = Tail(q)
    BY <1>1, <1>4 DEF AssignOrder, SystemTypes
  <2>2. DOMAIN caches' \subseteq DOMAIN caches \cup {Head(q)}
    BY <1>1, <1>4 DEF AssignOrder
  <2>3. /\ 1 \in DOMAIN q /\ Head(q) = q[1]
        /\ \A i \in DOMAIN Tail(q) : i + 1 \in DOMAIN q /\ Tail(q)[i] = q[i + 1]
    BY <2>1
  <2> QED
    BY <1>1, <2>1, <2>2, <2>3 DEF Known
<1>5. CASE PublishFails
  <2>1. PICK S : plan'.orders = Kept(q, S)
    BY <1>1, <1>5 DEF PublishFails, SystemTypes
  <2>2. PICK p : p = Kept(q, S)
    OBVIOUS
  <2>3. \A k \in DOMAIN p : \E i \in DOMAIN q : q[i] = p[k]
    BY <2>2, KeptElements
  <2>4. DOMAIN caches' = DOMAIN caches
    BY <1>5 DEF PublishFails
  <2> QED
    BY <1>1, <2>1, <2>2, <2>3, <2>4 DEF Known
<1>6. CASE InitiateCancelOrder
  BY <1>2, <1>6 DEF InitiateCancelOrder, SystemTypes, cacheVars
<1> QED
  BY <1>2, <1>3, <1>4, <1>5, <1>6 DEF SystemNext, ReceiveAssigned, ReceiveCancelOrder,
     AdapterStep, Adapter, ReportAgvError, allVars, systemVars, cacheVars

LEMMA MayCancelBefore ==
  ASSUME SystemTypes, IInv, CancelTie, [SystemNext]_allVars, MayCancel'
  PROVE  MayCancel
<1> SUFFICES ASSUME ~ MayCancel PROVE FALSE
  OBVIOUS
<1>1. plan.cancels = << >> /\ initiated = << >> /\ NotCanceled
  BY DEF MayCancel
<1>2. CASE plan'.cancels = plan.cancels /\ initiated' = initiated /\ cancelStates' = cancelStates
  BY <1>1, <1>2 DEF MayCancel, NotCanceled
<1>3. CASE DispatchState
  <2>1. PICK S : initiated' = Kept(initiated, S)
    BY <1>3 DEF DispatchState
  <2>2. PICK p : p = Kept(initiated, S)
    OBVIOUS
  <2>3. initiated' = << >>
    BY <1>1, <2>1, <2>2, KeptElements DEF SystemTypes
  <2> QED
    BY <1>1, <1>2, <1>3, <2>3 DEF DispatchState, vars, masterVars
<1>4. CASE AssignOrder \/ PublishFails
  BY <1>2, <1>4 DEF AssignOrder, PublishFails, SystemTypes, vars, masterVars
<1>5. CASE InitiateCancelOrder
  BY <1>1, <1>5 DEF InitiateCancelOrder
<1>6. CASE ReceiveAssigned
  BY <1>2, <1>6 DEF ReceiveAssigned, ReceiveOrder
<1>7. CASE ReceiveCancelOrder
  BY <1>1, <1>7 DEF ReceiveCancelOrder
<1>8. CASE AdapterStep
  <2>1. plan' = plan /\ initiated' = initiated
    BY <1>8 DEF AdapterStep, Adapter
  <2>2. CASE Stopped
    <3>1. cancelContext = None
      BY <1>1, NotCanceling DEF hasCancelingOrder
    <3>2. None \notin Cancels /\ cancelStates \in [Cancels -> {"UNSENT", "REJECTED", "RUNNING", "FINISHED"}]
      BY EnvironmentAssumption DEF IInv, TypeOK
    <3>3. cancelStates' = cancelStates
      BY <2>2, <3>1, <3>2 DEF Stopped
    <3> QED
      BY <1>2, <2>1, <3>3
  <2>3. CASE ~ Stopped
    <3>1. cancelStates' = cancelStates
      BY <1>8, <2>3 DEF AdapterStep, Adapter, StartAction, EndAction, EdgeTraversed, DrivingToNextNode,
         StartPause, StopPause, masterVars
    <3> QED
      BY <1>2, <2>1, <3>1
  <2> QED
    BY <2>2, <2>3
<1>9. CASE ReportAgvError \/ UNCHANGED allVars
  BY <1>2, <1>9 DEF ReportAgvError, allVars, systemVars, vars, masterVars
<1> QED
  BY <1>3, <1>4, <1>5, <1>6, <1>7, <1>8, <1>9 DEF SystemNext

LEMMA HorizonInvKept ==
  ASSUME SystemTypes, IInv, CancelTie, [SystemNext]_allVars, HorizonInv
  PROVE  HorizonInv'
<1>1. \A o \in Orders : Known(o)' => Known(o)
  BY KnownBefore
<1>2. MayCancel' => MayCancel
  BY MayCancelBefore
<1> QED
  BY <1>1, <1>2 DEF HorizonInv

(* An empty registry forgets the last cache.                               *)
LEMMA AssignedKept ==
  ASSUME [SystemNext]_allVars, Assigned
  PROVE  Assigned'
<1>1. CASE DispatchState
  BY <1>1 DEF DispatchState, Assigned
<1>2. CASE AssignOrder
  BY <1>2 DEF AssignOrder, Assigned
<1>3. CASE PublishFails
  BY <1>3 DEF PublishFails, Assigned
<1>4. CASE UNCHANGED <<registered, lastAssigned>>
  BY <1>4 DEF Assigned
<1> QED
  BY <1>1, <1>2, <1>3, <1>4 DEF SystemNext, InitiateCancelOrder, ReceiveAssigned, ReceiveCancelOrder,
     AdapterStep, Adapter, ReportAgvError, allVars, systemVars, cacheVars

LEMMA InboxShrinks ==
  ASSUME [Next]_vars
  PROVE  inbox' \subseteq inbox
BY OtherFacts, ReceiveFacts

LEMMA CanceledArrivedKept ==
  ASSUME SystemTypes, RejectionInv, UniqueIdentities, [SystemNext]_allVars, CanceledArrived
  PROVE  CanceledArrived'
<1>1. inbox' \subseteq inbox
  BY SystemStep, InboxShrinks
<1>2. CASE UNCHANGED canceled
  BY <1>1, <1>2 DEF CanceledArrived
<1>3. CASE ReceiveCancelOrder
  <2>1. CurrentCaches(Orders) \subseteq Orders \ inbox
    BY CurrentArrived DEF CurrentCaches, Current
  <2>2. canceled' \subseteq canceled \cup CurrentCaches(Orders)
    BY <1>3 DEF ReceiveCancelOrder
  <2> QED
    BY <1>1, <2>1, <2>2 DEF CanceledArrived
<1> QED
  BY <1>2, <1>3 DEF SystemNext, DispatchState, AssignOrder, PublishFails, InitiateCancelOrder,
     ReceiveAssigned, AdapterStep, Adapter, ReportAgvError, allVars, systemVars

LEMMA RejectionIInvKept ==
  ASSUME UniqueIdentities, RejectionIInv, [SystemNext]_allVars
  PROVE  RejectionIInv'
<1>1. SystemTypes /\ SystemTypes' /\ [Next]_vars /\ RejectionInv
  BY SystemNextTypes, SystemStep DEF RejectionIInv
<1>2. plan'.errors = plan.errors
  BY <1>1, PlanErrors DEF RejectionIInv
<1>3. CASE DispatchState
  <2>1. "unreferenced" \notin agvErrors
    BY DEF RejectionIInv, SystemTypes
  <2> QED
    BY <1>1, <1>2, <1>3, <2>1, DispatchRejections DEF RejectionIInv
<1>4. CASE outcomes' = outcomes
  BY <1>1, <1>2, <1>4, AgvRejections DEF RejectionIInv
<1> QED
  BY <1>3, <1>4, OtherOutcomes

-----------------------------------------------------------------------------
(* Steps of the system: orders that are assigned *)

Continues == LineInv' /\ ActiveOK' /\ CachesOK'

LEMMA MasterFactsAre ==
  ASSUME MasterFacts
  PROVE  /\ SystemTypes /\ RejectionInv /\ "unreferenced" \notin agvErrors
         /\ AgvInv /\ IInv /\ TypeOK /\ Located /\ ReleasedBySender /\ Bounded
         /\ CachesOK /\ ActiveOK /\ HorizonInv /\ Assigned /\ CanceledArrived
BY DEF MasterFacts, RejectionIInv, AgvInv, IInv, SystemTypes

(* No order arrives, and none is assigned or reported.                     *)
LEMMA QuietContinues ==
  ASSUME NoneActionsAlone, PromptCancelation, MasterFacts, LineInv, IInv', [Next]_vars, inbox' = inbox,
         UNCHANGED <<caches, registered, lastAssigned, preceding, orderTopic, publishing>>,
         upToDate' => upToDate /\ UNCHANGED vars
  PROVE  Continues
<1>1. IInv /\ SystemTypes /\ ActiveOK /\ CachesOK /\ Located
  BY MasterFactsAre
<1>2. ~ \E o \in Orders : ReceiveOrder(o)
  BY ReceiveFacts
<1>3. ~ Replaces /\ ~ Extends
  BY <1>2 DEF Replaces, Extends
<1>4. UNCHANGED <<currentOrder, actions, rejections, inbox>>
  BY <1>2, <1>3, OrderKept, OtherFacts
<1>5. Forward
  BY <1>1, <1>2, NextLocated
<1>6. PICK f, rk, tip : OnLine(f, rk, tip)
  BY DEF LineInv
<1>7. OnLine(f, rk, tip)'
  BY <1>1, <1>4, <1>5, <1>6, QuietLine
<1>8. LineInv'
  BY <1>7 DEF LineInv
<1>9. ActiveOK'
  <2>1. hasActiveOrder' => hasActiveOrder
    BY <1>1, <1>3, StaysInactive
  <2>2. upToDate' => (hasActiveOrder' <=> hasActiveOrder)
    BY DEF hasActiveOrder, vars, controllerVars
  <2> QED
    BY <1>1, <1>4, <2>1, <2>2 DEF ActiveOK, Current, Identity
<1>10. CachesOK'
  BY <1>1 DEF CachesOK
<1> QED
  BY <1>8, <1>9, <1>10 DEF Continues

LEMMA VarsKept ==
  ASSUME UNCHANGED vars
  PROVE  UNCHANGED <<currentOrder, actions, rejections, inbox, nodeStates, edgeStates, actionStates,
                     lastNode, pausedNode, cancelStates>>
BY DEF vars, controllerVars, masterVars

(* The AGV does not change: what it has is still matched.                  *)
LEMMA MatchesStill ==
  ASSUME TypeOK, Located, UNCHANGED vars, NEW c, Matches(c)
  PROVE  Matches(c)'
<1>1. Forward
  BY VarsKept, StandsStill
<1> QED
  BY <1>1, VarsKept, MatchesKept

LEMMA AssignContinues ==
  ASSUME UniqueIdentities, MasterFacts, LineInv, AssignOrder, NEW o, o = Head(plan.orders), ~ IsAssigned(o)
  PROVE  Continues
<1>1. SystemTypes /\ RejectionInv /\ ActiveOK /\ CachesOK /\ TypeOK /\ Located /\ Assigned /\ CanceledArrived
  BY MasterFactsAre
<1>2. PICK f, rk, tip : OnLine(f, rk, tip)
  BY DEF LineInv
<1>3. PICK kept : kept = registered
  OBVIOUS
<1>4. Core(kept, f, rk, tip) /\ Tip(f, tip) /\ CacheInv(f)
  BY <1>2, <1>3 DEF OnLine
<1>5. /\ f \in [Orders -> Orders \cup {None}] /\ DOMAIN caches \subseteq Orders
      /\ kept \subseteq Orders /\ None \notin Orders /\ None \notin kept
      /\ tip \in Orders \cup {None}
      /\ tip # None => tip \in kept /\ tip \notin inbox
      /\ lastAssigned \in Orders \cup {None}
  BY <1>1, <1>4, CoreFacts
<1>6. /\ o \in Orders /\ o \notin kept /\ ~ Sent(o) /\ publishing = {}
      /\ preceding' = o /\ lastAssigned' = o /\ registered' = registered \cup {o}
      /\ \/ orderTopic' = Append(orderTopic, o) /\ publishing' = publishing
         \/ publishing' = {o} /\ orderTopic' = orderTopic
      /\ UNCHANGED vars /\ upToDate' = upToDate
  <2>1. o \in Orders
    BY DEF AssignOrder, SystemTypes, MasterFacts, RejectionIInv
  <2>2. o \notin kept
    BY <1>3 DEF IsAssigned
  <2>3. ~ Sent(o) /\ publishing = {}
    BY DEF AssignOrder, MayAssign
  <2> QED
    BY <2>1, <2>2, <2>3 DEF AssignOrder
<1>7. caches' = [x \in DOMAIN caches \cup {o} |-> IF x = o THEN NewCache(o) ELSE caches[x]]
  BY DEF AssignOrder
<1>8. /\ DOMAIN caches' = DOMAIN caches \cup {o}
      /\ \A x \in DOMAIN caches \ {o} : caches'[x] = caches[x]
      /\ caches'[o] = NewCache(o)
  BY <1>7
<1>9. NewIn(caches'[o], o) /\ caches'[o].lastCache = lastAssigned
  <2>1. PICK c : c = NewCache(o)
    OBVIOUS
  <2>2. NewIn(c, o) /\ c.lastCache = lastAssigned
    BY <1>5, <1>6, <2>1, NewCacheFacts
  <2> QED
    BY <1>8, <2>1, <2>2
<1>10. \/ kept = {} /\ lastAssigned = None
       \/ preceding # None /\ Sent(preceding)
  <2>1. registered = {} => lastAssigned = None
    BY <1>1 DEF Assigned
  <2>2. preceding \in canceled => preceding # None /\ Sent(preceding)
    BY <1>1, <1>5 DEF CanceledArrived, Sent
  <2> QED
    BY <1>3, <2>1, <2>2 DEF AssignOrder, MayAssign
<1>11. inbox' = inbox
  BY <1>6, VarsKept
<1>12. /\ o \in inbox
       /\ \E h, rh : Core(kept \cup {o}, h, rh, tip)' /\ Agrees(h, f, o)
  BY <1>1, <1>4, <1>6, <1>8, <1>9, <1>10, <1>11, CoreAssign
<1>13. PICK h, rh : Core(kept \cup {o}, h, rh, tip)' /\ Agrees(h, f, o)
  BY <1>12
<1>14. Core(registered, h, rh, tip)'
  <2>1. PICK k : k = registered'
    OBVIOUS
  <2>2. k = kept \cup {o}
    BY <1>3, <1>6, <2>1
  <2>3. Core(k, h, rh, tip)'
    BY <1>13, <2>2
  <2> QED
    BY <2>1, <2>3, CoreAt
<1>15. \A x : Current(x)' <=> Current(x)
  BY <1>6, VarsKept DEF Current, Identity
<1>16. kept \subseteq DOMAIN caches /\ \A x \in DOMAIN caches : f[x] # None => f[x] \in kept
  BY <1>4 DEF Core, Chain
<1>17. \A x \in kept : x # o /\ x \in DOMAIN caches /\ caches'[x] = caches[x] /\ h[x] = f[x]
  BY <1>5, <1>6, <1>8, <1>13, <1>16 DEF Agrees
<1>18. Tip(h, tip)'
  <2>1. tip # None => tip \in kept /\ caches'[tip] = caches[tip] /\ h[tip] = f[tip]
    BY <1>5, <1>17
  <2>2. \A r \in rejections : r.order # o
    BY <1>1, <1>12 DEF RejectionInv, Refused
  <2>3. rejections' = rejections
    BY <1>6, VarsKept
  <2>4. \A x \in registered' \cap inbox' : NewIn(caches'[x], x)
    BY <1>3, <1>4, <1>6, <1>9, <1>11, <1>17 DEF Tip
  <2>5. \A r \in rejections : r.order \in registered' => r.order = tip /\ ~ Current(tip)
    BY <1>4, <1>6, <2>2 DEF Tip
  <2>6. tip # None /\ Current(tip) /\ f[tip] # None => ~ upToDate /\ NewIn(caches[tip], tip)
    BY <1>4 DEF Tip
  <2>7. tip # None /\ ~ Current(tip) =>
       /\ ~ upToDate
       /\ \E r \in rejections : r.order = tip
       /\ f[tip] # None => Current(f[tip])
    BY <1>4 DEF Tip
  <2> QED
    BY <1>6, <1>15, <2>1, <2>3, <2>4, <2>5, <2>6, <2>7 DEF Tip
<1>19. CacheInv(h)'
  <2>1. ASSUME NEW x \in registered', Current(x)'
        PROVE  \E c : c = Merged(caches', h, x) /\ Matches(c)'
    <3>1. Current(x) /\ x \in Orders
      BY <1>5, <1>6, <1>3, <1>15, <2>1
    <3>2. x \in kept
      BY <1>1, <1>3, <1>6, <1>12, <2>1, <3>1, CurrentArrived
    <3>3. PICK c : c = Merged(caches, f, x) /\ Matches(c)
      BY <1>3, <1>4, <3>1, <3>2 DEF CacheInv
    <3>4. Merged(caches', h, x) = Merged(caches, f, x)
      BY <1>16, <1>17, <3>2 DEF Merged
    <3>5. Matches(c)'
      BY <1>1, <1>6, <3>3, MatchesStill
    <3> QED
      BY <3>3, <3>4, <3>5
  <2> QED
    BY <2>1 DEF CacheInv
<1>20. LineInv'
  BY <1>14, <1>18, <1>19 DEF LineInv, OnLine
<1>21. ActiveOK'
  <2>1. hasActiveOrder' <=> hasActiveOrder
    BY <1>6, VarsKept DEF hasActiveOrder
  <2>2. \A x \in Orders : Current(x) => x # o
    BY <1>1, <1>12, CurrentArrived
  <2> QED
    BY <1>1, <1>6, <1>15, <2>1, <2>2 DEF ActiveOK
<1>22. CachesOK'
  BY <1>1, <1>8, <1>9 DEF CachesOK, NewIn
<1> QED
  BY <1>20, <1>21, <1>22 DEF Continues

LEMMA PublishFailsContinues ==
  ASSUME UniqueIdentities, MasterFacts, LineInv, PublishFails
  PROVE  Continues
<1>1. SystemTypes /\ RejectionInv /\ ActiveOK /\ CachesOK /\ TypeOK /\ Located
  BY MasterFactsAre
<1>2. PICK f, rk, tip : OnLine(f, rk, tip)
  BY DEF LineInv
<1>3. PICK kept : kept = registered
  OBVIOUS
<1>4. Core(kept, f, rk, tip) /\ Tip(f, tip) /\ CacheInv(f)
  BY <1>2, <1>3 DEF OnLine
<1>5. /\ publishing # {} /\ publishing' = {} /\ registered' = registered \ publishing
      /\ UNCHANGED vars /\ UNCHANGED <<caches, preceding, orderTopic, upToDate>>
      /\ lastAssigned' = lastAssigned \/ (registered' = {} /\ lastAssigned' = None)
  BY DEF PublishFails
<1>6. PICK left : left = registered'
  OBVIOUS
<1>7. left = kept \ publishing /\ inbox' = inbox
  BY <1>3, <1>5, <1>6, VarsKept
<1>8. Core(left, f, rk, tip)' /\ publishing \subseteq inbox
  BY <1>1, <1>4, <1>5, <1>6, <1>7, CorePublishFails
<1>9. Core(registered, f, rk, tip)'
  BY <1>6, <1>8, CoreAt
<1>10. \A x : Current(x)' <=> Current(x)
  BY <1>5, VarsKept DEF Current, Identity
<1>11. Tip(f, tip)'
  BY <1>4, <1>5, <1>10, VarsKept DEF Tip
<1>12. CacheInv(f)'
  <2>1. ASSUME NEW x \in registered', Current(x)'
        PROVE  \E c : c = Merged(caches', f, x) /\ Matches(c)'
    <3>1. PICK c : c = Merged(caches, f, x) /\ Matches(c)
      BY <1>4, <1>5, <1>10, <2>1 DEF CacheInv
    <3>2. Matches(c)'
      BY <1>1, <1>5, <3>1, MatchesStill
    <3> QED
      BY <1>5, <3>1, <3>2
  <2> QED
    BY <2>1 DEF CacheInv
<1>13. LineInv'
  BY <1>9, <1>11, <1>12 DEF LineInv, OnLine
<1>14. ActiveOK'
  <2>1. hasActiveOrder' <=> hasActiveOrder
    BY <1>5, VarsKept DEF hasActiveOrder
  <2>2. \A x \in Orders : Current(x) => x \notin publishing
    BY <1>1, <1>8, CurrentArrived
  <2> QED
    BY <1>1, <1>5, <1>10, <2>1, <2>2 DEF ActiveOK
<1>15. CachesOK'
  BY <1>1, <1>5 DEF CachesOK
<1> QED
  BY <1>13, <1>14, <1>15 DEF Continues

-----------------------------------------------------------------------------
(* Steps of the system: an order arrives *)

(* An order arrives at its turn, when the State messages before it have    *)
(* been dispatched.                                                        *)
Arrives(f, rk, tip, o) ==
  /\ Core(registered, f, rk, tip) /\ Tip(f, tip) /\ CacheInv(f)
  /\ tip # None => Current(tip) /\ tip \in registered /\ f[tip] = None /\ tip \notin inbox
  /\ o \in Orders /\ o \in registered /\ o \in inbox /\ f[o] = tip
  /\ tip \in Orders \cup {None} /\ None \notin Orders /\ registered \subseteq DOMAIN caches
  /\ \A r \in rejections : r.order \notin registered
  /\ NewIn(caches[o], o) /\ ~ Current(o)
  /\ \A x \in registered : Current(x) => x = tip
  /\ upToDate /\ ~ upToDate' /\ inbox' = inbox \ {o}
  /\ UNCHANGED <<caches, registered>>
  /\ Core(registered, f, rk, o)'

LEMMA OrderOnLine ==
  ASSUME UniqueIdentities, MasterFacts, ReceiveAssigned, NEW o, o = Head(orderTopic),
         NEW f, NEW rk, NEW tip, OnLine(f, rk, tip)
  PROVE  Arrives(f, rk, tip, o)
<1>1. SystemTypes /\ RejectionInv /\ ActiveOK
  BY MasterFactsAre
<1>2. PICK kept : kept = registered
  OBVIOUS
<1>3. Core(kept, f, rk, tip) /\ Tip(f, tip) /\ CacheInv(f)
  BY <1>2 DEF OnLine
<1>4. /\ f \in [Orders -> Orders \cup {None}] /\ DOMAIN caches \subseteq Orders
      /\ kept \subseteq Orders /\ None \notin Orders /\ None \notin kept
      /\ tip \in Orders \cup {None}
      /\ tip # None => tip \in kept /\ tip \notin inbox
  BY <1>1, <1>3, CoreFacts
<1>5. /\ orderTopic # << >> /\ upToDate /\ ~ upToDate' /\ ReceiveOrder(o)
      /\ orderTopic' = Tail(orderTopic)
      /\ UNCHANGED <<caches, registered, lastAssigned, preceding, publishing>>
  BY DEF ReceiveAssigned, cacheVars
<1>6. tip # None => Current(tip) /\ f[tip] = None
  BY <1>3, <1>5 DEF Tip
<1>7. inbox' = inbox \ {o}
  BY <1>5 DEF ReceiveOrder
<1>8. Core(kept, f, rk, o)' /\ o \in Orders /\ o \in kept /\ o \in inbox /\ f[o] = tip
  BY <1>1, <1>3, <1>5, <1>6, <1>7, CoreReceive
<1>9. Core(registered, f, rk, o)'
  <2>1. kept = registered'
    BY <1>2, <1>5
  <2> QED
    BY <1>8, <2>1, CoreAt
<1>10. \A r \in rejections : r.order \notin registered
  <2> SUFFICES ASSUME NEW r \in rejections, r.order \in registered PROVE FALSE
    OBVIOUS
  <2>1. r.order = tip /\ ~ Current(tip)
    BY <1>3 DEF Tip
  <2>2. tip # None
    BY <1>2, <1>4, <2>1
  <2> QED
    BY <1>6, <2>1, <2>2
<1>11. NewIn(caches[o], o)
  BY <1>2, <1>3, <1>8 DEF Tip
<1>12. ~ Current(o)
  BY <1>1, <1>8, CurrentArrived
<1>13. \A x \in registered : Current(x) => x = tip
  BY <1>1, <1>2, <1>3, <1>6, CurrentOnLine
<1>14. kept \subseteq DOMAIN caches
  BY <1>3 DEF Core
<1> QED
  BY <1>2, <1>3, <1>4, <1>5, <1>6, <1>7, <1>8, <1>9, <1>10, <1>11, <1>12, <1>13, <1>14 DEF Arrives

(* It is rejected.                                                         *)
LEMMA RejectContinues ==
  ASSUME UniqueIdentities, MasterFacts, NEW f, NEW rk, NEW tip, NEW o, Arrives(f, rk, tip, o),
         RejectOrder(o)
  PROVE  Continues
<1> USE DEF Arrives
<1>1. SystemTypes /\ RejectionInv /\ ActiveOK /\ CachesOK /\ TypeOK /\ Located
  BY MasterFactsAre
<1>2. /\ UNCHANGED <<currentOrder, actions, nodeStates, edgeStates, actionStates, lastNode, pausedNode>>
      /\ \E b : rejections' = rejections \cup {[order |-> o, byAction |-> b]}
  BY DEF RejectOrder
<1>3. \A x : Current(x)' <=> Current(x)
  BY <1>2 DEF Current, Identity
<1>4. PICK r : r.order = o /\ rejections' = rejections \cup {r}
  BY <1>2
<1>5. Tip(f, o)'
  BY <1>3, <1>4 DEF Tip
<1>6. CacheInv(f)'
  <2>1. Forward
    BY <1>1, <1>2, StandsStill
  <2>2. ASSUME NEW x \in registered', Current(x)'
        PROVE  \E c : c = Merged(caches', f, x) /\ Matches(c)'
    <3>1. PICK c : c = Merged(caches, f, x) /\ Matches(c)
      BY <1>3, <2>2 DEF CacheInv
    <3>2. Matches(c)'
      BY <1>2, <2>1, <3>1, MatchesKept
    <3> QED
      BY <3>1, <3>2
  <2> QED
    BY <2>2 DEF CacheInv
<1>7. LineInv'
  BY <1>5, <1>6 DEF LineInv, OnLine
<1>8. ActiveOK'
  <2>1. hasActiveOrder' <=> hasActiveOrder
    BY <1>2 DEF hasActiveOrder
  <2> QED
    BY <1>1, <1>3, <2>1 DEF ActiveOK
<1>9. CachesOK'
  BY <1>1 DEF CachesOK
<1> QED
  BY <1>7, <1>8, <1>9 DEF Continues

(* It is accepted as a new order, or as an update of a completed one.      *)
LEMMA ReplaceContinues ==
  ASSUME UniqueIdentities, NoneActionsAlone, MasterFacts, NEW f, NEW rk, NEW tip, NEW o,
         Arrives(f, rk, tip, o), ReplaceOrder(o)
  PROVE  Continues
<1> USE DEF Arrives
<1>1. SystemTypes /\ RejectionInv /\ ActiveOK /\ CachesOK /\ TypeOK /\ IInv
  BY MasterFactsAre
<1>2. currentOrder' = Replacement(o) /\ actions' = actions /\ rejections' = {} /\ ~ hasActiveOrder
  <2>1. o \in inbox /\ o \in Orders
    OBVIOUS
  <2>2. currentOrder' = Replacement(o) /\ actions' = actions
    BY <1>1, <2>1, ReplaceOrderEffect
  <2>3. rejections' = {} /\ OrderMode(o) \in {"new", "update"}
    BY Zenon DEF ReplaceOrder
  <2>4. ~ hasActiveOrder
    BY <2>3 DEF OrderMode
  <2> QED
    BY <2>2, <2>3, <2>4
<1>3. tip = None
  <2> SUFFICES ASSUME tip # None PROVE FALSE
    OBVIOUS
  <2>1. tip \in Orders /\ Current(tip) /\ tip \in registered /\ upToDate
    OBVIOUS
  <2> QED
    BY <1>1, <1>2, <2>1 DEF ActiveOK
<1>4. \A x \in Orders : Current(x)' <=> x = o
  <2>1. \A x : Current(x)' <=> Identity(x) = Identity(o)
    BY <1>2 DEF Current, Identity, Replacement
  <2> QED
    BY <2>1 DEF UniqueIdentities
<1>5. Tip(f, o)'
  BY <1>2, <1>3, <1>4 DEF Tip
<1>6. CacheInv(f)'
  <2>1. PICK c : c = caches[o]
    OBVIOUS
  <2>2. FitsTo(c, Replacement(o), actions)
    BY <1>1, <2>1, NewFits, TypeFacts DEF IInv, OrderInv, Received
  <2>3. FitsTo(c, currentOrder, actions)'
    BY <1>2, <2>2 DEF FitsTo
  <2>4. Matches(c)'
    BY <2>1, <2>3 DEF Matches, InPos, NewIn
  <2>5. c = Merged(caches', f, o)
    BY <1>3, <2>1 DEF Merged
  <2>6. \A x \in registered' : x \in Orders
    BY <1>1 DEF SystemTypes
  <2> QED
    BY <1>4, <2>4, <2>5, <2>6 DEF CacheInv
<1>7. LineInv'
  BY <1>5, <1>6 DEF LineInv, OnLine
<1>8. ActiveOK'
  BY <1>4 DEF ActiveOK
<1>9. CachesOK'
  BY <1>1 DEF CachesOK
<1> QED
  BY <1>7, <1>8, <1>9 DEF Continues

(* It is stitched onto the active order.                                   *)
LEMMA StitchContinues ==
  ASSUME UniqueIdentities, NoneActionsAlone, MasterFacts, IInv', NEW f, NEW rk, NEW tip, NEW o,
         Arrives(f, rk, tip, o), StitchOrder(o)
  PROVE  Continues
<1> USE DEF Arrives
<1>1. /\ SystemTypes /\ RejectionInv /\ ActiveOK /\ CachesOK /\ TypeOK /\ IInv /\ Located
      /\ ReleasedBySender
  BY MasterFactsAre
<1>2. /\ currentOrder' = Stitched(o) /\ actions' = StitchedLists(o) /\ hasActiveOrder
      /\ IsOrderBaseStitching(o) /\ rejections' \subseteq rejections
  <2>1. /\ currentOrder' = Stitched(o) /\ actions' = StitchedLists(o) /\ hasActiveOrder
        /\ IsOrderBaseStitching(o)
    BY StitchOrderFacts
  <2>2. rejections' = {r \in rejections : r.byAction}
    BY Zenon DEF StitchOrder
  <2> QED
    BY <2>1, <2>2
<1>3. tip # None
  <2>1. currentOrder.orderId # None
    BY <1>2 DEF IsOrderBaseStitching
  <2>2. PICK p \in Orders : Current(p)
    BY <1>1, <2>1 DEF RejectionInv
  <2>3. p \in registered
    BY <1>1, <1>2, <2>2 DEF ActiveOK
  <2> QED
    BY <2>2, <2>3
<1>4. \A x \in Orders : Current(x)' <=> x = o
  <2>1. \A x : Current(x)' <=> Identity(x) = Identity(o)
    BY <1>2 DEF Current, Identity, Stitched
  <2> QED
    BY <2>1 DEF UniqueIdentities
<1>5. Tip(f, o)'
  BY <1>2, <1>4 DEF Tip
<1>6. CacheInv(f)'
  <2>1. PICK l : l = caches[tip]
    OBVIOUS
  <2>2. l = Merged(caches, f, tip)
    BY <1>3, <2>1 DEF Merged
  <2>3. Matches(l)
    BY <1>3, <2>2 DEF CacheInv
  <2>4. l \in OrderStateCache
    BY <1>1, <1>3, <2>1 DEF CachesOK
  <2>5. PICK c : c = caches[o]
    OBVIOUS
  <2>6. PICK d : d = Stitch(c, l)
    OBVIOUS
  <2>7. Stitching(o)
    BY <1>1, <1>2 DEF Stitching, IInv
  <2>8. NewIn(c, o) /\ FitsTo(l, currentOrder, actions)
    BY <2>3, <2>5 DEF Matches
  <2>9. /\ FitsTo(d, Stitched(o), StitchedLists(o))
        /\ d \in OrderStateCache /\ ~ d.processed
        /\ d.lastNodeTraversed = l.lastNodeTraversed /\ d.lastEdgeProcessed = l.lastEdgeProcessed
        /\ \A p \in Places(l) : p.seq <= currentOrder.base => p \in Places(d)
    BY <1>1, <2>4, <2>6, <2>7, <2>8, StitchFits
  <2>10. Forward
    BY <1>1, StitchOrderLocated
  <2>11. FitsTo(d, currentOrder, actions)'
    BY <1>2, <2>9 DEF FitsTo
  <2>12. ASSUME l.lastNodeTraversed # None
         PROVE  /\ AtNode' /\ l.lastNodeTraversed \in Places(d)
                /\ IsNode(l.lastNodeTraversed.seq) /\ l.lastNodeTraversed.seq <= lastNode'.seq
    <3>1. /\ AtNode /\ l.lastNodeTraversed \in Places(l)
          /\ IsNode(l.lastNodeTraversed.seq) /\ l.lastNodeTraversed.seq <= lastNode.seq
      BY <2>3, <2>12 DEF Matches, InPos
    <3>2. AtNode' /\ lastNode.seq <= lastNode'.seq
      BY <2>10, <3>1 DEF Forward
    <3>3. l.lastNodeTraversed.seq \in Nat
      BY <2>4, <2>12, CacheTypes
    <3>4. lastNode.seq \in Int /\ lastNode'.seq \in Int /\ lastNode.seq <= currentOrder.base
      BY <3>1, <3>2 DEF AtNode, BaseRange
    <3>5. currentOrder.base \in Int
      BY <1>1 DEF TypeOK, OrderOK
    <3>6. l.lastNodeTraversed.seq <= lastNode'.seq /\ l.lastNodeTraversed.seq <= currentOrder.base
      BY <3>1, <3>2, <3>3, <3>4, <3>5
    <3> QED
      BY <2>9, <3>1, <3>2, <3>6
  <2>13. l.lastEdgeProcessed # None =>
           l.lastNodeTraversed # None /\ l.lastEdgeProcessed.seq <= l.lastNodeTraversed.seq + 1
    BY <2>3 DEF Matches, InPos
  <2>14. InPos(d)'
    BY <2>9, <2>12, <2>13 DEF InPos
  <2>15. Matches(d)'
    BY <2>9, <2>11, <2>14 DEF Matches
  <2>16. d = Merged(caches', f, o)
    BY <1>3, <2>1, <2>5, <2>6 DEF Merged
  <2>17. \A x \in registered' : x \in Orders
    BY <1>1 DEF SystemTypes
  <2> QED
    BY <1>4, <2>15, <2>16, <2>17 DEF CacheInv
<1>7. LineInv'
  BY <1>5, <1>6 DEF LineInv, OnLine
<1>8. ActiveOK'
  BY <1>4 DEF ActiveOK
<1>9. CachesOK'
  BY <1>1 DEF CachesOK
<1> QED
  BY <1>7, <1>8, <1>9 DEF Continues

LEMMA ReceiveContinues ==
  ASSUME UniqueIdentities, NoneActionsAlone, MasterFacts, IInv', LineInv, ReceiveAssigned
  PROVE  Continues
<1>1. PICK f, rk, tip : OnLine(f, rk, tip)
  BY DEF LineInv
<1>2. PICK o : o = Head(orderTopic)
  OBVIOUS
<1>3. Arrives(f, rk, tip, o)
  BY <1>1, <1>2, OrderOnLine
<1>4. ~ DiscardOrder(o)
  BY <1>3 DEF DiscardOrder, OrderMode, SameOrder, Arrives, Current, Identity
<1>5. RejectOrder(o) \/ ReplaceOrder(o) \/ StitchOrder(o)
  BY <1>2, <1>4 DEF ReceiveAssigned, ReceiveOrder
<1> QED
  BY <1>3, <1>5, RejectContinues, ReplaceContinues, StitchContinues

-----------------------------------------------------------------------------
(* Steps of the system: a State message is dispatched *)

(* What is left on the line when rejections have been dispatched: its tip  *)
(* is the current order, if any.                                           *)
Left(kept, g, rk, t) ==
  /\ Core(kept, g, rk, t)
  /\ t # None =>
       /\ Current(t) /\ t \in kept /\ t \in Orders /\ t \in DOMAIN caches /\ t \in registered
       /\ g[t] # None => NewIn(caches[t], t) /\ g[t] \in kept /\ g[t] # t
       /\ \E c : c = Merged(caches, g, t) /\ Matches(c)
  /\ \A r \in rejections : r.order \notin kept
  /\ \A x \in Orders : Current(x) /\ x \in registered => x \in kept
  /\ \A x \in kept \cap inbox : NewIn(caches[x], x)

LEMMA TipLinks ==
  ASSUME SystemTypes, NEW kept, NEW f, NEW rk, NEW tip, Core(kept, f, rk, tip), tip # None
  PROVE  /\ tip \in kept /\ tip \in Orders /\ tip \in DOMAIN caches
         /\ f[tip] # None => f[tip] \in kept /\ f[tip] # tip /\ f[tip] \in DOMAIN caches /\ f[f[tip]] = None
<1>1. tip \in kept /\ tip \in Orders /\ kept \subseteq DOMAIN caches
  BY CoreFacts DEF Core
<1>2. /\ rk \in [Orders -> Nat]
      /\ f[tip] # None => f[tip] \in kept /\ rk[f[tip]] < rk[tip]
  BY <1>1 DEF Core, Chain
<1>3. f[tip] # None => f[f[tip]] = None
  BY <1>1, CoreFacts
<1> QED
  BY <1>1, <1>2, <1>3

LEMMA WhatIsRejected ==
  ASSUME UniqueIdentities, MasterFacts
  PROVE  \A x : x \in RejectedOrders <=> x \in registered /\ \E r \in rejections : r.order = x
<1>1. SystemTypes /\ RejectionInv /\ "unreferenced" \notin agvErrors
  BY MasterFactsAre
<1>2. \A r \in rejections : r.order \in Orders
  BY <1>1 DEF RejectionInv, Refused
<1>3. registered \subseteq Orders
  BY <1>1 DEF SystemTypes
<1> QED
  BY <1>1, <1>2, <1>3 DEF RejectedOrders, UniqueIdentities

LEMMA AfterRejections ==
  ASSUME UniqueIdentities, MasterFacts, NEW f, NEW rk, NEW tip, OnLine(f, rk, tip),
         NEW kept, kept = registered \ RejectedOrders
  PROVE  \E g, t : Left(kept, g, rk, t)
<1>1. SystemTypes /\ RejectionInv
  BY MasterFactsAre
<1>2. PICK k : k = registered
  OBVIOUS
<1>3. Core(k, f, rk, tip) /\ Tip(f, tip) /\ CacheInv(f)
  BY <1>2 DEF OnLine
<1>4. /\ f \in [Orders -> Orders \cup {None}] /\ tip \in Orders \cup {None} /\ None \notin Orders
      /\ None \notin k
      /\ tip # None => tip \in k /\ tip \in Orders
  BY <1>1, <1>3, CoreFacts
<1>5. \A x : x \in RejectedOrders <=> x \in k /\ \E r \in rejections : r.order = x
  BY <1>2, WhatIsRejected
<1>6. \A r \in rejections : r.order \notin kept
  BY <1>2, <1>5
<1>7. \A x \in Orders : Current(x) /\ x \in registered => x \in kept
  BY <1>1, <1>5 DEF RejectionInv, Refused
<1>8. \A x \in kept \cap inbox : NewIn(caches[x], x)
  BY <1>3 DEF Tip
<1>9. \A x \in RejectedOrders : x = tip /\ ~ Current(tip)
  BY <1>2, <1>3, <1>5 DEF Tip
<1>10. CASE tip # None /\ ~ Current(tip)
  <2>1. RejectedOrders = {tip}
    <3>1. tip \in RejectedOrders
      BY <1>3, <1>4, <1>5, <1>10 DEF Tip
    <3> QED
      BY <1>9, <3>1
  <2>2. PICK g : g = Past(f, tip)
    OBVIOUS
  <2>3. PICK t : t = f[tip]
    OBVIOUS
  <2>4. kept = k \ {tip}
    BY <1>2, <2>1
  <2>5. Core(kept, g, rk, t)
    BY <1>1, <1>3, <1>10, <2>2, <2>3, <2>4, DropTip
  <2>6. ASSUME t # None
        PROVE  /\ Current(t) /\ g[t] = None /\ t \in kept /\ t \in Orders /\ t \in DOMAIN caches
               /\ t \in registered /\ \E c : c = Merged(caches, g, t) /\ Matches(c)
    <3>1. Current(t)
      BY <1>3, <1>10, <2>3, <2>6 DEF Tip
    <3>2. f[t] = None /\ t \in k /\ t # tip
      BY <1>1, <1>3, <1>10, <2>3, <2>6, TipLinks
    <3>3. t \in kept /\ t \in Orders /\ t \in DOMAIN caches
      BY <1>1, <2>5, <2>6, TipLinks
    <3>4. g[t] = None
      BY <1>10, <2>2, <3>2, <3>3 DEF Past
    <3>5. PICK c : c = Merged(caches, f, t) /\ Matches(c)
      BY <1>2, <1>3, <3>1, <3>2 DEF CacheInv
    <3>6. c = Merged(caches, g, t)
      BY <3>2, <3>4, <3>5 DEF Merged
    <3> QED
      BY <1>2, <3>1, <3>2, <3>3, <3>4, <3>5, <3>6
  <2>7. Left(kept, g, rk, t)
    BY <1>6, <1>7, <1>8, <2>5, <2>6 DEF Left
  <2> QED
    BY <2>7
<1>11. CASE tip = None \/ Current(tip)
  <2>1. kept = k
    BY <1>2, <1>4, <1>5, <1>9, <1>11
  <2>2. ASSUME tip # None
        PROVE  /\ Current(tip) /\ tip \in kept /\ tip \in Orders /\ tip \in DOMAIN caches /\ tip \in registered
               /\ f[tip] # None => NewIn(caches[tip], tip) /\ f[tip] \in kept /\ f[tip] # tip
               /\ \E c : c = Merged(caches, f, tip) /\ Matches(c)
    <3>1. Current(tip)
      BY <1>11, <2>2
    <3>2. /\ tip \in kept /\ tip \in Orders /\ tip \in DOMAIN caches
          /\ f[tip] # None => f[tip] \in kept /\ f[tip] # tip
      BY <1>1, <1>3, <2>1, <2>2, TipLinks
    <3>3. f[tip] # None => NewIn(caches[tip], tip)
      BY <1>3, <2>2, <3>1 DEF Tip
    <3>4. \E c : c = Merged(caches, f, tip) /\ Matches(c)
      BY <1>2, <1>3, <2>1, <3>1, <3>2 DEF CacheInv
    <3> QED
      BY <1>2, <2>1, <3>1, <3>2, <3>3, <3>4
  <2>3. Left(kept, f, rk, tip)
    BY <1>3, <1>6, <1>7, <1>8, <2>1, <2>2 DEF Left
  <2> QED
    BY <2>3
<1> QED
  BY <1>10, <1>11

LEMMA CurrentLeft ==
  ASSUME UniqueIdentities, MasterFacts, NEW kept, NEW g, NEW rk, NEW t, Left(kept, g, rk, t)
  PROVE  CurrentCaches(kept) = {t} \ {None}
<1>1. SystemTypes /\ RejectionInv
  BY MasterFactsAre
<1>2. Core(kept, g, rk, t)
  BY DEF Left
<1>3. ASSUME NEW x \in CurrentCaches(kept)
      PROVE  x = t /\ t # None
  <2>1. x \in kept /\ Current(x)
    BY DEF CurrentCaches, Current
  <2>2. t # None /\ x \in Orders
    BY <1>1, <1>2, <2>1, CurrentOnLine
  <2>3. Current(t) /\ t \in Orders
    BY <2>2 DEF Left
  <2> QED
    BY <2>1, <2>2, <2>3, OneCurrent
<1>4. t # None => t \in CurrentCaches(kept)
  BY DEF Left, CurrentCaches, Current
<1> QED
  BY <1>3, <1>4

(* What dispatching to the cache of t does, whose last active cache is that*)
(* of l.                                                                   *)
Invokes(d, result) == result # "no" /\ ~ d.processed

Completes(d, result) == Invokes(d, result) /\ result = "completed"

Dispatches(kept, l, t, d, result) ==
  /\ caches' = [x \in DOMAIN caches |->
                  IF x = t THEN Mark(d, result)
                  ELSE IF x = l THEN [caches[x] EXCEPT !.lastCache = None] ELSE caches[x]]
  /\ registered' = kept \ ({l} \cup (IF Completes(d, result) THEN {t} ELSE {}))
  /\ outcomes' = IF Invokes(d, result) THEN [Rejections EXCEPT ![t] = Append(@, ByCancelation(result))]
                 ELSE Rejections

LEMMA DispatchedTo ==
  ASSUME UniqueIdentities, MasterFacts, DispatchState,
         NEW kept, kept = registered \ RejectedOrders,
         NEW g, NEW rk, NEW t, Left(kept, g, rk, t), t # None,
         NEW d, d = Driven(Merged(caches, g, t)), NEW result, result = IsOrderProcessed(d)
  PROVE  Dispatches(kept, g[t], t, d, result)
<1>1. CurrentCaches(kept) = {t}
  BY CurrentLeft
<1>2. DispatchOrderState(t, kept, Rejections)
  <2>1. PICK o \in CurrentCaches(kept) : DispatchOrderState(o, kept, Rejections)
    BY <1>1 DEF DispatchState, Rejections
  <2> QED
    BY <1>1, <2>1
<1>3. LastActive(t, kept) = g[t]
  <2>1. Chain(caches, kept, g, rk) /\ t \in DOMAIN caches
    BY DEF Left, Core
  <2> QED
    BY <2>1, LastActiveIs
<1>4. PICK l : l = g[t]
  OBVIOUS
<1>5. (IF l = None THEN caches[t] ELSE Stitch(caches[t], caches[l])) = Merged(caches, g, t)
  BY <1>4 DEF Merged
<1>6. Dispatches(kept, l, t, d, result)
  <2>1. \E last \in {LastActive(t, kept)} :
        \E stitched \in {IF last = None THEN caches[t] ELSE Stitch(caches[t], caches[last])} :
        \E updated \in {UpdateActions(stitched)} :
        \E driven \in {EdgeEvents(updated)} :
        \E dispatched \in {NodeEvents(driven)} :
          Dispatches(kept, last, t, dispatched, IsOrderProcessed(dispatched))
    BY <1>2, Zenon DEF DispatchOrderState, Dispatches, Completes, Invokes
  <2>2. \E stitched \in {IF l = None THEN caches[t] ELSE Stitch(caches[t], caches[l])} :
        \E updated \in {UpdateActions(stitched)} :
        \E driven \in {EdgeEvents(updated)} :
        \E dispatched \in {NodeEvents(driven)} :
          Dispatches(kept, l, t, dispatched, IsOrderProcessed(dispatched))
    BY <1>3, <1>4, <2>1
  <2>3. \E updated \in {UpdateActions(Merged(caches, g, t))} :
        \E driven \in {EdgeEvents(updated)} :
        \E dispatched \in {NodeEvents(driven)} :
          Dispatches(kept, l, t, dispatched, IsOrderProcessed(dispatched))
    BY <1>5, <2>2
  <2> QED
    BY <2>3 DEF Driven
<1> QED
  BY <1>4, <1>6

-----------------------------------------------------------------------------
(* The cache that State messages are dispatched to *)

(* It has its own place in the chain, and the events of the one before.    *)
LEMMA MergedFacts ==
  ASSUME NEW cs, NEW f, NEW o, cs[o] \in OrderStateCache, NEW c, c = Merged(cs, f, o)
  PROVE  /\ c.lastCache = cs[o].lastCache /\ c.processed = cs[o].processed
         /\ f[o] # None => /\ c.lastNodeTraversed = cs[f[o]].lastNodeTraversed
                           /\ c.lastEdgeProcessed = cs[f[o]].lastEdgeProcessed
<1>1. CASE f[o] = None
  BY <1>1 DEF Merged
<1>2. CASE f[o] # None
  <2>1. PICK b : b = cs[o]
    OBVIOUS
  <2>2. PICK l : l = cs[f[o]]
    OBVIOUS
  <2>3. c = Stitch(b, l) /\ b \in OrderStateCache
    BY <1>2, <2>1, <2>2 DEF Merged
  <2>4. /\ c.lastCache = b.lastCache /\ c.processed = b.processed
        /\ c.lastNodeTraversed = l.lastNodeTraversed
        /\ c.lastEdgeProcessed = l.lastEdgeProcessed
    BY <2>3 DEF Stitch, OrderStateCache
  <2> QED
    BY <1>2, <2>1, <2>2, <2>4
<1> QED
  BY <1>1, <1>2

(* What a State message makes of it.                                       *)
Tells(b, c, d) ==
  /\ d \in OrderStateCache /\ Alike(c, d) /\ InPos(d) /\ FitsTo(d, currentOrder, actions)
  /\ d.lastCache = b.lastCache /\ d.processed = b.processed
  /\ d.processed => HasHorizon
  /\ \A a \in d.mappedActions : actionStates[a] # "ABSENT" => d.lastActionStates[a] = actionStates[a]
  /\ c.lastNodeTraversed # None => d.lastNodeTraversed # None /\ Progress(c) <= Progress(d)

LEMMA LeftTells ==
  ASSUME UniqueIdentities, MasterFacts, NEW kept, NEW g, NEW rk, NEW t, Left(kept, g, rk, t), t # None,
         NEW c, c = Merged(caches, g, t), NEW d, d = Driven(c)
  PROVE  Tells(caches[t], c, d)
<1>1. RejectionInv /\ TypeOK /\ Located /\ CachesOK
  BY MasterFactsAre
<1>2. Current(t) /\ t \in Orders /\ t \in DOMAIN caches /\ Matches(c)
  BY DEF Left
<1>3. currentOrder.orderId # None
  BY <1>1, <1>2, CurrentArrived
<1>4. c \in OrderStateCache /\ FitsTo(c, currentOrder, actions) /\ InPos(c) /\ (c.processed => HasHorizon)
  BY <1>2 DEF Matches
<1>5. /\ d \in OrderStateCache /\ Alike(c, d) /\ InPos(d)
      /\ \A a \in c.mappedActions : actionStates[a] # "ABSENT" => d.lastActionStates[a] = actionStates[a]
      /\ c.lastNodeTraversed # None => d.lastNodeTraversed # None /\ Progress(c) <= Progress(d)
  BY <1>1, <1>3, <1>4, DrivenFacts
<1>6. c.lastCache = caches[t].lastCache /\ c.processed = caches[t].processed
  BY <1>1, <1>2, MergedFacts DEF CachesOK
<1>7. FitsTo(d, currentOrder, actions)
  BY <1>4, <1>5 DEF FitsTo, Alike, Places
<1> QED
  BY <1>4, <1>5, <1>6, <1>7 DEF Tells, Alike

-----------------------------------------------------------------------------
(* Whether the order is processed *)

(* _isOrderProcessed tells from the cache what the AGV has done.           *)
LEMMA Verdict ==
  ASSUME MasterFacts, NEW b, NEW c, NEW d, Tells(b, c, d), NEW result, result = IsOrderProcessed(d)
  PROVE  /\ result \in {"no", "completed", "active"}
         /\ result # "no" => BaseCompleted
         /\ result = "completed" <=> ~ hasActiveOrder
         /\ result = "active" => HasHorizon
<1>1. TypeOK /\ Bounded /\ Reported(currentOrder, actions, actionStates)
  BY MasterFactsAre DEF IInv, OrderInv
<1>2. d.mappedActions = ReleasedActions(currentOrder, actions)
  BY DEF Tells, FitsTo
<1>3. actionStates \in [Action -> Status]
  BY <1>1 DEF TypeOK
<1>4. \A a \in Action : actionStates[a] # "ABSENT" <=> a \in d.mappedActions
  BY <1>1, <1>2 DEF Reported
<1>5. d.mappedActions \subseteq Action
  BY DEF Tells, OrderStateCache
<1>6. \A a \in d.mappedActions : d.lastActionStates[a] = actionStates[a]
  BY <1>4, <1>5 DEF Tells
<1>7. currentOrder.base \in Int /\ currentOrder.last \in Int /\ nodeStates \subseteq Int /\ edgeStates \subseteq Int
  BY <1>1, TypeFacts DEF TypeOK, OrderOK
<1>8. PICK baseAhead \in BOOLEAN : baseAhead <=> \E s \in nodeStates \cup edgeStates : s <= currentOrder.base
  OBVIOUS
<1>9. PICK pending \in BOOLEAN : pending <=> \E a \in d.mappedActions : actionStates[a] # "ENDED"
  OBVIOUS
<1>10. result = IF baseAhead \/ pending THEN "no"
                ELSE IF nodeStates \cup edgeStates = {} THEN "completed" ELSE "active"
  <2>1. pending <=> \E a \in d.mappedActions : d.lastActionStates[a] # "ENDED"
    BY <1>6, <1>9
  <2> QED
    BY <1>8, <2>1 DEF IsOrderProcessed
<1>11. ~ baseAhead => \A s \in nodeStates \cup edgeStates : s > currentOrder.base
  BY <1>7, <1>8
<1>12. pending <=> \E a \in Action : actionStates[a] \in {"WAITING", "ACTIVE"}
  BY <1>3, <1>4, <1>5, <1>9 DEF Status
<1>13. ~ pending => \A a \in Action : actionStates[a] \in {"ABSENT", "ENDED"}
  BY <1>3, <1>12 DEF Status
<1>14. result # "no" => BaseCompleted
  BY <1>10, <1>11, <1>13 DEF BaseCompleted
<1>15. nodeStates \cup edgeStates = {} => ~ baseAhead
  BY <1>8
<1>16. result = "completed" <=> ~ hasActiveOrder
  BY <1>10, <1>12, <1>15 DEF hasActiveOrder
<1>17. ASSUME result = "active" PROVE HasHorizon
  <2>1. PICK s \in nodeStates \cup edgeStates : s > currentOrder.base
    BY <1>10, <1>11, <1>17
  <2>2. s <= currentOrder.last /\ s \in Int
    BY <1>1, <1>7 DEF Bounded
  <2> QED
    BY <1>7, <2>1, <2>2 DEF HasHorizon
<1> QED
  BY <1>10, <1>14, <1>16, <1>17

(* An order with a horizon is not canceled: it remains active.             *)
LEMMA HorizonLasts ==
  ASSUME MasterFacts, HasHorizon, NEW t \in Orders, Current(t), t \in DOMAIN caches
  PROVE  hasActiveOrder
<1>1. TypeOK /\ HorizonInv /\ EndsAsSent /\ HorizonAhead
  BY MasterFactsAre DEF AgvInv
<1>2. currentOrder.base \in Int /\ currentOrder.last \in Int /\ currentOrder.base < currentOrder.last
  BY <1>1 DEF TypeOK, OrderOK, HasHorizon
<1>3. Msg[t].base # Msg[t].last
  BY <1>1, <1>2 DEF EndsAsSent
<1>4. NotCanceled
  BY <1>1, <1>3 DEF HorizonInv, MayCancel, Known
<1>5. EndIsAhead
  BY <1>1, <1>4 DEF HorizonAhead
<1> QED
  BY <1>5 DEF EndIsAhead, hasActiveOrder

-----------------------------------------------------------------------------
(* Steps of the system: a State message is dispatched *)

(* The order t is left, or reported as completed.                          *)
LEMMA DispatchLine ==
  ASSUME SystemTypes, NEW kept, NEW g, NEW rk, NEW t, Left(kept, g, rk, t), t # None,
         NEW done \in BOOLEAN, NEW left, left = kept \ ({g[t]} \cup (IF done THEN {t} ELSE {}))
  PROVE  \E f, tip :
           /\ Core(left, f, rk, tip) /\ tip = IF done THEN None ELSE t
           /\ f[t] = None /\ (g[t] # None => f[g[t]] = None)
<1>1. Core(kept, g, rk, t)
  BY DEF Left
<1>2. g \in [Orders -> Orders \cup {None}] /\ None \notin Orders /\ None \notin kept /\ t \in Orders
  BY <1>1, CoreFacts
<1>3. PICK l : l = g[t]
  OBVIOUS
<1>4. l # None => l \in Orders /\ g[l] = None /\ l # t
  BY <1>1, <1>2, <1>3, TipLinks
<1>5. PICK f : f = IF l = None THEN g ELSE Past(g, l)
  OBVIOUS
<1>6. Core(kept \ {l}, f, rk, t) /\ f[t] = None /\ (l # None => f[l] = None)
  <2>1. CASE l = None
    <3>1. kept \ {l} = kept
      BY <1>2, <2>1
    <3> QED
      BY <1>1, <1>3, <1>5, <2>1, <3>1
  <2>2. CASE l # None
    <3>1. Core(kept \ {l}, f, rk, t) /\ f[t] = None
      BY <1>1, <1>3, <1>5, <2>2, DropEarlier
    <3>2. f[l] = None
      BY <1>2, <1>4, <1>5, <2>2 DEF Past
    <3> QED
      BY <3>1, <3>2
  <2> QED
    BY <2>1, <2>2
<1>7. CASE ~ done
  <2>1. left = kept \ {l}
    BY <1>3, <1>7
  <2> QED
    BY <1>3, <1>6, <1>7, <2>1
<1>8. CASE done
  <2>1. left = (kept \ {l}) \ {t}
    BY <1>3, <1>8
  <2>2. PICK h : h = Past(f, t)
    OBVIOUS
  <2>3. Core(left, h, rk, None)
    BY <1>6, <2>1, <2>2, DropTip
  <2>4. h[t] = None
    BY <1>2, <1>6, <2>2 DEF Past
  <2>5. l # None => h[l] = None
    BY <1>2, <1>4, <1>6, <2>2 DEF Past
  <2> QED
    BY <1>3, <1>8, <2>3, <2>4, <2>5
<1> QED
  BY <1>7, <1>8

(* What remains the same.                                                  *)
LEMMA DispatchKeeps ==
  ASSUME MasterFacts, DispatchState
  PROVE  /\ UNCHANGED <<preceding, orderTopic, publishing, inbox, rejections>>
         /\ UNCHANGED vars
         /\ lastAssigned' = IF registered' = {} THEN None ELSE lastAssigned
         /\ \A x : Current(x)' <=> Current(x)
         /\ hasActiveOrder' <=> hasActiveOrder
<1>1. UNCHANGED vars /\ UNCHANGED <<preceding, orderTopic, publishing>>
      /\ lastAssigned' = IF registered' = {} THEN None ELSE lastAssigned
  BY DEF DispatchState
<1>2. UNCHANGED <<inbox, rejections, currentOrder, nodeStates, edgeStates, actionStates>>
  BY <1>1, VarsKept
<1> QED
  BY <1>1, <1>2 DEF Current, Identity, hasActiveOrder

(* No order is current.                                                    *)
LEMMA DispatchNone ==
  ASSUME UniqueIdentities, MasterFacts, DispatchState,
         NEW kept, kept = registered \ RejectedOrders,
         NEW g, NEW rk, Left(kept, g, rk, None)
  PROVE  Continues
<1>1. SystemTypes /\ CachesOK /\ ActiveOK
  BY MasterFactsAre
<1>2. /\ UNCHANGED <<preceding, orderTopic, publishing, inbox, rejections>>
      /\ lastAssigned' = IF registered' = {} THEN None ELSE lastAssigned
      /\ \A x : Current(x)' <=> Current(x)
      /\ hasActiveOrder' <=> hasActiveOrder
  BY DispatchKeeps
<1>3. CurrentCaches(kept) = {}
  BY CurrentLeft
<1>4. registered' = kept /\ caches' = caches
  BY <1>3 DEF DispatchState
<1>5. \A x \in kept : ~ Current(x)
  BY <1>3 DEF CurrentCaches, Current
<1>6. Core(registered, g, rk, None)'
  <2>1. Core(kept, g, rk, None)
    BY DEF Left
  <2>2. Core(kept, g, rk, None)'
    BY <1>1, <1>2, <1>4, <2>1, CoreRelink
  <2>3. kept = registered'
    BY <1>4
  <2> QED
    BY <2>2, <2>3, CoreAt
<1>7. Tip(g, None)'
  <2>1. \A r \in rejections : r.order \notin kept
    BY DEF Left
  <2>2. \A x \in kept \cap inbox : NewIn(caches[x], x)
    BY DEF Left
  <2> QED
    BY <1>2, <1>4, <2>1, <2>2 DEF Tip
<1>8. CacheInv(g)'
  BY <1>2, <1>4, <1>5 DEF CacheInv
<1>9. LineInv'
  BY <1>6, <1>7, <1>8 DEF LineInv, OnLine
<1>10. ActiveOK'
  <2>1. \A x \in Orders : Current(x) /\ x \in registered => x \in kept
    BY DEF Left
  <2>2. \A x \in Orders : Current(x) => ~ hasActiveOrder
    BY <1>1, <1>5, <2>1 DEF ActiveOK
  <2> QED
    BY <1>2, <1>4, <1>5, <2>2 DEF ActiveOK
<1>11. CachesOK'
  BY <1>1, <1>4 DEF CachesOK
<1> QED
  BY <1>9, <1>10, <1>11 DEF Continues

-----------------------------------------------------------------------------
(* The caches that a State message changes.                                *)
Turns(cs, ds, l, t, e) ==
  /\ DOMAIN ds = DOMAIN cs /\ ds[t] = e
  /\ ds[t].lastCache \in {cs[t].lastCache, None}
  /\ \A x \in DOMAIN cs : x # t /\ x # l => ds[x] = cs[x]
  /\ l \in DOMAIN cs => ds[l] = [cs[l] EXCEPT !.lastCache = None] /\ ds[l].lastCache = None

LEMMA DispatchedCaches ==
  ASSUME CachesOK, NEW kept, NEW l, NEW t \in DOMAIN caches, l # t,
         NEW c, NEW d, NEW result, Tells(caches[t], c, d), Dispatches(kept, l, t, d, result)
  PROVE  Turns(caches, caches', l, t, Mark(d, result)) /\ CachesOK'
<1>1. caches' = [x \in DOMAIN caches |->
                  IF x = t THEN Mark(d, result)
                  ELSE IF x = l THEN [caches[x] EXCEPT !.lastCache = None] ELSE caches[x]]
  BY DEF Dispatches
<1>2. PICK m : m = Mark(d, result)
  OBVIOUS
<1>3. m \in OrderStateCache /\ m.lastCache \in {caches[t].lastCache, None}
  BY <1>2, MarkFacts DEF Tells
<1>4. DOMAIN caches' = DOMAIN caches
  BY <1>1
<1>5. caches'[t] = m
  BY <1>1, <1>2
<1>6. \A x \in DOMAIN caches : x # t /\ x # l => caches'[x] = caches[x]
  BY <1>1
<1>7. ASSUME l \in DOMAIN caches
      PROVE  /\ caches'[l] = [caches[l] EXCEPT !.lastCache = None]
             /\ caches'[l].lastCache = None /\ caches'[l] \in OrderStateCache
  <2>1. PICK b : b = caches[l]
    OBVIOUS
  <2>2. PICK e : e = [b EXCEPT !.lastCache = None]
    OBVIOUS
  <2>3. b \in OrderStateCache
    BY <1>7, <2>1 DEF CachesOK
  <2>4. e \in OrderStateCache /\ e.lastCache = None
    BY <2>2, <2>3 DEF OrderStateCache
  <2>5. caches'[l] = e
    BY <1>1, <1>7, <2>1, <2>2
  <2> QED
    BY <2>1, <2>2, <2>4, <2>5
<1>8. CachesOK'
  <2>1. \A x \in DOMAIN caches : caches[x] \in OrderStateCache
    BY DEF CachesOK
  <2>2. \A x \in DOMAIN caches' : caches'[x] \in OrderStateCache
    BY <1>3, <1>4, <1>5, <1>6, <1>7, <2>1
  <2> QED
    BY <2>2 DEF CachesOK
<1> QED
  BY <1>2, <1>3, <1>4, <1>5, <1>6, <1>7, <1>8 DEF Turns

(* A State message is dispatched to the cache of t.                        *)
Telling(kept, g, rk, t, c, d, result) ==
  /\ Left(kept, g, rk, t) /\ t # None /\ c = Merged(caches, g, t)
  /\ Tells(caches[t], c, d) /\ result = IsOrderProcessed(d)
  /\ Dispatches(kept, g[t], t, d, result)
  /\ t \in Orders /\ t \in DOMAIN caches /\ g[t] # t

LEMMA DispatchCases ==
  ASSUME UniqueIdentities, MasterFacts, LineInv, DispatchState,
         NEW kept, kept = registered \ RejectedOrders
  PROVE  \E g, rk, t : /\ Left(kept, g, rk, t)
                       /\ t # None => \E c, d, result : Telling(kept, g, rk, t, c, d, result)
<1>1. PICK f, rk, tip : OnLine(f, rk, tip)
  BY DEF LineInv
<1>2. PICK g, t : Left(kept, g, rk, t)
  BY <1>1, AfterRejections
<1>3. ASSUME t # None PROVE \E c, d, result : Telling(kept, g, rk, t, c, d, result)
  <2>1. PICK c : c = Merged(caches, g, t)
    OBVIOUS
  <2>2. PICK d : d = Driven(c)
    OBVIOUS
  <2>3. PICK result : result = IsOrderProcessed(d)
    OBVIOUS
  <2>4. Tells(caches[t], c, d)
    BY <1>2, <1>3, <2>1, <2>2, LeftTells
  <2>5. Dispatches(kept, g[t], t, d, result)
    BY <1>2, <1>3, <2>1, <2>2, <2>3, DispatchedTo
  <2>6. t \in Orders /\ t \in DOMAIN caches
    BY <1>2, <1>3 DEF Left
  <2>7. g[t] # t
    <3>1. Left(kept, g, rk, t) /\ t # None
      BY <1>2, <1>3
    <3>2. g[t] # None => g[t] # t
      BY <3>1 DEF Left
    <3> QED
      BY <1>3, <3>2
  <2> QED
    BY <1>2, <1>3, <2>1, <2>3, <2>4, <2>5, <2>6, <2>7 DEF Telling
<1> QED
  BY <1>2, <1>3

LEMMA TellingFacts ==
  ASSUME UniqueIdentities, MasterFacts, NEW kept, NEW g, NEW rk, NEW t, NEW c, NEW d, NEW result,
         Telling(kept, g, rk, t, c, d, result)
  PROVE  /\ Current(t) /\ t \in registered /\ t \in kept /\ t \notin inbox
         /\ \A x \in kept : Current(x) => x = t
         /\ \A x \in Orders : Current(x) => x = t
         /\ result \in {"no", "completed", "active"}
         /\ result # "no" => BaseCompleted
         /\ result = "completed" <=> ~ hasActiveOrder
         /\ result = "active" => HasHorizon
         /\ d.processed => hasActiveOrder
<1> USE DEF Telling
<1>1. RejectionInv /\ SystemTypes
  BY MasterFactsAre
<1>2. Current(t) /\ t \in registered /\ t \in kept
  BY DEF Left
<1>3. t \notin inbox
  BY <1>1, <1>2, CurrentArrived
<1>4. \A x \in Orders : Current(x) => x = t
  BY <1>2, OneCurrent
<1>5. kept \subseteq Orders
  <2>1. Core(kept, g, rk, t)
    BY DEF Left
  <2> QED
    BY <1>1, <2>1, CoreFacts
<1>6. /\ result \in {"no", "completed", "active"}
      /\ result # "no" => BaseCompleted
      /\ result = "completed" <=> ~ hasActiveOrder
      /\ result = "active" => HasHorizon
  BY Verdict
<1>7. d.processed => HasHorizon
  BY DEF Tells
<1>8. d.processed => hasActiveOrder
  BY <1>2, <1>7, HorizonLasts
<1> QED
  BY <1>2, <1>3, <1>4, <1>5, <1>6, <1>8

-----------------------------------------------------------------------------
(* A State message is dispatched to the current order.                     *)
LEMMA DispatchTo ==
  ASSUME UniqueIdentities, MasterFacts, DispatchState,
         NEW kept, kept = registered \ RejectedOrders,
         NEW g, NEW rk, NEW t, NEW c, NEW d, NEW result, Telling(kept, g, rk, t, c, d, result)
  PROVE  Continues
<1>1. SystemTypes /\ CachesOK /\ ActiveOK /\ TypeOK /\ Located
  BY MasterFactsAre
<1>2. /\ UNCHANGED <<preceding, orderTopic, publishing, inbox, rejections>> /\ UNCHANGED vars
      /\ lastAssigned' = IF registered' = {} THEN None ELSE lastAssigned
      /\ \A x : Current(x)' <=> Current(x)
      /\ hasActiveOrder' <=> hasActiveOrder
  BY DispatchKeeps
<1>3. /\ Current(t) /\ t \in registered /\ t \in kept /\ t \notin inbox
      /\ \A x \in kept : Current(x) => x = t
      /\ \A x \in Orders : Current(x) => x = t
      /\ result \in {"no", "completed", "active"}
      /\ result = "completed" <=> ~ hasActiveOrder
      /\ result = "active" => HasHorizon
      /\ d.processed => hasActiveOrder
  BY TellingFacts
<1>4. PICK l : l = g[t]
  OBVIOUS
<1>5. /\ Left(kept, g, rk, t) /\ t # None /\ t \in Orders /\ t \in DOMAIN caches /\ l # t
      /\ Tells(caches[t], c, d) /\ Dispatches(kept, l, t, d, result)
  BY <1>4 DEF Telling
<1>6. PICK done \in BOOLEAN : done <=> Completes(d, result)
  OBVIOUS
<1>7. PICK left : left = kept \ ({g[t]} \cup (IF done THEN {t} ELSE {}))
  OBVIOUS
<1>8. registered' = left
  BY <1>4, <1>5, <1>6, <1>7 DEF Dispatches
<1>9. PICK f, tip :
           /\ Core(left, f, rk, tip) /\ tip = IF done THEN None ELSE t
           /\ f[t] = None /\ (g[t] # None => f[g[t]] = None)
  BY <1>1, <1>5, <1>7, DispatchLine
<1>10. done <=> result = "completed"
  BY <1>3, <1>6 DEF Completes, Invokes
<1>11. Turns(caches, caches', l, t, Mark(d, result)) /\ CachesOK'
  BY <1>1, <1>5, DispatchedCaches
<1>12. Core(kept, g, rk, t) /\ None \notin Orders /\ DOMAIN caches \subseteq Orders
  <2>1. Core(kept, g, rk, t)
    BY <1>5 DEF Left
  <2> QED
    BY <1>1, <2>1, CoreFacts
<1>13. Core(registered, f, rk, tip)'
  <2>1. PICK cs : cs = caches
    OBVIOUS
  <2>2. PICK ds : ds = caches'
    OBVIOUS
  <2>3. Turns(cs, ds, l, t, Mark(d, result))
    BY <1>11, <2>1, <2>2
  <2>4. \A x \in DOMAIN cs : ds[x].lastCache = cs[x].lastCache \/ (ds[x].lastCache = None /\ f[x] = None)
    <3> SUFFICES ASSUME NEW x \in DOMAIN cs
                 PROVE  ds[x].lastCache = cs[x].lastCache \/ (ds[x].lastCache = None /\ f[x] = None)
      OBVIOUS
    <3>1. CASE x = t
      BY <1>9, <2>3, <3>1 DEF Turns
    <3>2. CASE x = l /\ x # t
      <4>1. l # None
        BY <1>12, <2>1, <3>2
      <4> QED
        BY <1>4, <1>9, <2>3, <3>2, <4>1 DEF Turns
    <3>3. CASE x # l /\ x # t
      BY <2>3, <3>3 DEF Turns
    <3> QED
      BY <3>1, <3>2, <3>3
  <2>5. \A x \in DOMAIN caches :
           \/ caches'[x].lastCache = caches[x].lastCache
           \/ caches'[x].lastCache = None /\ f[x] = None
    BY <2>1, <2>2, <2>4
  <2>6. lastAssigned' = lastAssigned \/ (left = {} /\ lastAssigned' = None)
    BY <1>2, <1>8
  <2>7. Core(left, f, rk, tip)
    BY <1>9
  <2>8. DOMAIN caches' = DOMAIN caches /\ UNCHANGED <<preceding, orderTopic, publishing, inbox>>
    BY <1>2, <1>11 DEF Turns
  <2>9. Core(left, f, rk, tip)'
    BY <1>1, <2>5, <2>6, <2>7, <2>8, CoreRelink
  <2>10. left = registered'
    BY <1>8
  <2> QED
    BY <2>9, <2>10, CoreAt
<1>14. left \subseteq kept /\ l \notin left /\ (done => t \notin left) /\ (~ done => t \in left)
  BY <1>3, <1>4, <1>5, <1>7
<1>15. Tip(f, tip)'
  <2>1. \A r \in rejections : r.order \notin kept
    BY <1>5 DEF Left
  <2>2. \A x \in kept \cap inbox : NewIn(caches[x], x) /\ x \in DOMAIN caches
    BY <1>5, <1>12 DEF Left, Core
  <2>3. \A x \in left \cap inbox : NewIn(caches'[x], x)
    BY <1>3, <1>11, <1>14, <2>2 DEF Turns
  <2>4. tip # None => Current(tip) /\ f[tip] = None
    BY <1>3, <1>9
  <2> QED
    BY <1>2, <1>8, <1>14, <2>1, <2>3, <2>4 DEF Tip
<1>16. ~ done => Matches(Mark(d, result))'
  <2> SUFFICES ASSUME ~ done PROVE Matches(Mark(d, result))'
    OBVIOUS
  <2>1. PICK m : m = Mark(d, result)
    OBVIOUS
  <2>2. d \in OrderStateCache /\ InPos(d) /\ FitsTo(d, currentOrder, actions) /\ (d.processed => HasHorizon)
    BY <1>5 DEF Tells
  <2>3. /\ m \in OrderStateCache
        /\ m.first = d.first /\ m.nodeActions = d.nodeActions /\ m.mappedActions = d.mappedActions
        /\ m.lastNodeTraversed = d.lastNodeTraversed /\ m.lastEdgeProcessed = d.lastEdgeProcessed
        /\ m.processed => d.processed \/ result # "no"
    BY <2>1, <2>2, MarkFacts
  <2>4. FitsTo(m, currentOrder, actions)
    BY <2>2, <2>3 DEF FitsTo, Places
  <2>5. InPos(m)
    BY <2>2, <2>3 DEF InPos, Places
  <2>6. Matches(m)
    BY <1>3, <1>10, <2>2, <2>3, <2>4, <2>5 DEF Matches
  <2>7. Matches(m)'
    BY <1>1, <1>2, <2>6, MatchesStill
  <2> QED
    BY <2>1, <2>7
<1>17. CacheInv(f)'
  <2>1. ASSUME NEW x \in registered', Current(x)'
        PROVE  \E e : e = Merged(caches', f, x) /\ Matches(e)'
    <3>1. x = t /\ ~ done
      BY <1>2, <1>3, <1>8, <1>14, <2>1
    <3>2. PICK e : e = caches'[t]
      OBVIOUS
    <3>3. e = Merged(caches', f, x)
      BY <1>9, <3>1, <3>2 DEF Merged
    <3>4. e = Mark(d, result)
      BY <1>11, <3>2 DEF Turns
    <3> QED
      BY <1>16, <3>1, <3>3, <3>4
  <2> QED
    BY <2>1 DEF CacheInv
<1>18. LineInv'
  BY <1>13, <1>15, <1>17 DEF LineInv, OnLine
<1>19. ActiveOK'
  <2>1. \A x \in Orders : Current(x) => x = t
    BY <1>3
  <2>2. hasActiveOrder <=> t \in registered'
    BY <1>3, <1>8, <1>10, <1>14
  <2> QED
    BY <1>2, <2>1, <2>2 DEF ActiveOK
<1> QED
  BY <1>11, <1>18, <1>19 DEF Continues

-----------------------------------------------------------------------------
(* The invariant of master control holds *)

LEMMA DispatchContinues ==
  ASSUME UniqueIdentities, MasterFacts, LineInv, DispatchState
  PROVE  Continues
<1>1. PICK kept : kept = registered \ RejectedOrders
  OBVIOUS
<1>2. PICK g, rk, t : /\ Left(kept, g, rk, t)
                      /\ t # None => \E c, d, result : Telling(kept, g, rk, t, c, d, result)
  BY <1>1, DispatchCases
<1>3. CASE t = None
  <2>1. Left(kept, g, rk, None)
    BY <1>2, <1>3
  <2> QED
    BY <1>1, <2>1, DispatchNone
<1>4. CASE t # None
  <2>1. PICK c, d, result : Telling(kept, g, rk, t, c, d, result)
    BY <1>2, <1>4
  <2> QED
    BY <1>1, <2>1, DispatchTo
<1> QED
  BY <1>3, <1>4

(* Steps of the adapter and cancelOrder: no order arrives.                 *)
LEMMA AdapterQuiet ==
  ASSUME ReceiveCancelOrder \/ AdapterStep
  PROVE  /\ inbox' = inbox /\ upToDate' = FALSE
         /\ UNCHANGED <<caches, registered, lastAssigned, preceding, orderTopic, publishing>>
<1> USE DEF Adapter, cacheVars
<1>1. CASE ReceiveCancelOrder
  <2>1. PICK c : CancelOrder(c)
    BY <1>1 DEF ReceiveCancelOrder
  <2>2. inbox' = inbox
    BY <2>1, Zenon DEF CancelOrder, controllerVars
  <2> QED
    BY <1>1, <2>2 DEF ReceiveCancelOrder
<1>2. CASE Adapter(\E c \in scheduled : StartAction(c))
  BY <1>2 DEF StartAction, masterVars
<1>3. CASE Adapter(\E c \in scheduled : EndAction(c))
  BY <1>3 DEF EndAction, masterVars
<1>4. CASE Adapter(\E i \in DOMAIN traversing : EdgeTraversed(i))
  BY <1>4 DEF EdgeTraversed, masterVars
<1>5. CASE Adapter(DrivingToNextNode)
  BY <1>5 DEF DrivingToNextNode, masterVars
<1>6. CASE Adapter(Stopped)
  BY <1>6 DEF Stopped, masterVars
<1>7. CASE Adapter(StartPause)
  BY <1>7 DEF StartPause, masterVars
<1>8. CASE Adapter(StopPause)
  BY <1>8 DEF StopPause, masterVars
<1> QED
  BY <1>1, <1>2, <1>3, <1>4, <1>5, <1>6, <1>7, <1>8 DEF AdapterStep

LEMMA SystemContinues ==
  ASSUME NoneActionsAlone, PromptCancelation, UniqueIdentities, MasterFacts, LineInv, IInv',
         [Next]_vars, [SystemNext]_allVars
  PROVE  Continues
<1>1. CASE AssignOrder
  <2>1. PICK o : o = Head(plan.orders)
    OBVIOUS
  <2>2. CASE ~ IsAssigned(o)
    BY <1>1, <2>1, <2>2, AssignContinues
  <2>3. CASE IsAssigned(o)
    <3>1. UNCHANGED <<preceding, orderTopic, publishing, caches, registered, lastAssigned>>
      BY <1>1, <2>1, <2>3 DEF AssignOrder
    <3>2. UNCHANGED vars /\ upToDate' = upToDate
      BY <1>1 DEF AssignOrder
    <3>3. inbox' = inbox
      BY <3>2, VarsKept
    <3> QED
      BY <3>1, <3>2, <3>3, QuietContinues
  <2> QED
    BY <2>2, <2>3
<1>2. CASE InitiateCancelOrder \/ UNCHANGED allVars
  <2>1. UNCHANGED <<preceding, orderTopic, publishing, caches, registered, lastAssigned>>
    BY <1>2 DEF InitiateCancelOrder, allVars, systemVars, cacheVars
  <2>2. UNCHANGED vars /\ upToDate' = upToDate
    BY <1>2 DEF InitiateCancelOrder, allVars, systemVars
  <2>3. inbox' = inbox
    BY <2>2, VarsKept
  <2> QED
    BY <2>1, <2>2, <2>3, QuietContinues
<1>3. CASE ReportAgvError
  <2>1. UNCHANGED <<preceding, orderTopic, publishing, caches, registered, lastAssigned>>
    BY <1>3 DEF ReportAgvError, cacheVars
  <2>2. UNCHANGED vars /\ upToDate' = FALSE
    BY <1>3 DEF ReportAgvError
  <2>3. inbox' = inbox
    BY <2>2, VarsKept
  <2> QED
    BY <2>1, <2>2, <2>3, QuietContinues
<1>4. CASE ReceiveCancelOrder \/ AdapterStep
  <2>1. /\ inbox' = inbox /\ upToDate' = FALSE
        /\ UNCHANGED <<caches, registered, lastAssigned, preceding, orderTopic, publishing>>
    BY <1>4, AdapterQuiet
  <2> QED
    BY <2>1, QuietContinues
<1> QED
  BY <1>1, <1>2, <1>3, <1>4, DispatchContinues, PublishFailsContinues, ReceiveContinues DEF SystemNext

LEMMA MasterStep ==
  ASSUME NoneActionsAlone, PromptCancelation, UniqueIdentities, MasterIInv, [SystemNext]_allVars
  PROVE  MasterIInv'
<1>1. MasterFacts /\ LineInv
  BY DEF MasterIInv
<1>2. /\ SystemTypes /\ RejectionInv /\ RejectionIInv /\ AgvInv /\ IInv /\ CancelTie
      /\ HorizonInv /\ Assigned /\ CanceledArrived
  BY <1>1, MasterFactsAre DEF MasterFacts, AgvInv
<1>3. [Next]_vars
  BY <1>2, SystemStep
<1>4. AgvInv'
  BY <1>2, <1>3, NextAgv
<1>5. IInv'
  BY <1>4 DEF AgvInv
<1>6. Continues
  BY <1>1, <1>3, <1>5, SystemContinues
<1>7. RejectionIInv' /\ HorizonInv' /\ Assigned' /\ CanceledArrived'
  BY <1>2, RejectionIInvKept, HorizonInvKept, AssignedKept, CanceledArrivedKept
<1> QED
  BY <1>4, <1>6, <1>7 DEF MasterIInv, MasterFacts, Continues

-----------------------------------------------------------------------------
(* Initially, nothing is known to master control.                          *)

(* Master control cancels only orders without a horizon.                   *)
CanceledWithoutHorizon ==
  \A p \in Plans : p.cancels # << >> =>
    \A i \in DOMAIN p.orders : Msg[p.orders[i]].base = Msg[p.orders[i]].last

LEMMA RejectionInit ==
  ASSUME ErrorsRefer, SystemInit
  PROVE  RejectionIInv
<1>1. SystemTypes
  BY SystemInitTypes
<1>2. "unreferenced" \notin plan.errors
  BY DEF SystemInit, ErrorsRefer
<1>3. RejectionInv
  BY DEF SystemInit, Init, RejectionInv, NoOrder
<1> QED
  BY <1>1, <1>2, <1>3 DEF RejectionIInv

LEMMA LineInit ==
  ASSUME SystemInit
  PROVE  LineInv
<1>1. PICK f : f = [x \in Orders |-> None]
  OBVIOUS
<1>2. PICK rk : rk = [x \in Orders |-> 0]
  OBVIOUS
<1>3. /\ DOMAIN caches = {} /\ registered = {} /\ lastAssigned = None
      /\ preceding = None /\ orderTopic = << >> /\ publishing = {} /\ rejections = {}
  BY DEF SystemInit, Init
<1>4. Chain(caches, {}, f, rk)
  BY <1>1, <1>2, <1>3 DEF Chain
<1>5. Line({}, f, None)
  BY <1>3 DEF Line, Earlier, InTopic
<1>6. Queue
  BY <1>3 DEF Queue, InTopic
<1>7. Links(f)
  BY <1>1, <1>3 DEF Links
<1>8. Ends({}, f, None)
  BY <1>3 DEF Ends
<1>9. Core(registered, f, rk, None)
  BY <1>3, <1>4, <1>5, <1>6, <1>7, <1>8 DEF Core
<1>10. Tip(f, None) /\ CacheInv(f)
  BY <1>3 DEF Tip, CacheInv
<1> QED
  BY <1>9, <1>10 DEF LineInv, OnLine

LEMMA MasterInit ==
  ASSUME ErrorsRefer, CanceledWithoutHorizon, SystemInit
  PROVE  MasterIInv
<1>1. RejectionIInv /\ LineInv
  BY RejectionInit, LineInit
<1>2. Init
  BY DEF SystemInit
<1>3. AgvInv
  BY <1>2, InitAgv
<1>4. CachesOK /\ Assigned /\ CanceledArrived
  BY DEF SystemInit, CachesOK, Assigned, CanceledArrived
<1>5. ActiveOK
  <2>1. \A o \in Orders : ~ Current(o)
    BY <1>2, IdentityFacts DEF Init, Current, NoOrder
  <2> QED
    BY <2>1 DEF ActiveOK
<1>6. HorizonInv
  <2> SUFFICES ASSUME MayCancel, NEW o \in Orders, Known(o)
               PROVE  Msg[o].base = Msg[o].last
    BY DEF HorizonInv
  <2>1. plan \in Plans /\ DOMAIN caches = {} /\ initiated = << >>
    BY DEF SystemInit
  <2>2. NotCanceled
    BY <1>2 DEF Init, NotCanceled
  <2>3. plan.cancels # << >>
    BY <2>1, <2>2 DEF MayCancel
  <2>4. PICK i \in DOMAIN plan.orders : plan.orders[i] = o
    BY <2>1 DEF Known
  <2> QED
    BY <2>1, <2>3, <2>4 DEF CanceledWithoutHorizon
<1> QED
  BY <1>1, <1>3, <1>4, <1>5, <1>6 DEF MasterIInv, MasterFacts
-----------------------------------------------------------------------------
(* The route *)

LEMMA RouteIs ==
  ASSUME UniqueIdentities, MasterIInv
  PROVE  SameRoute
<1>1. MasterFacts /\ LineInv
  BY DEF MasterIInv
<1>2. RejectionInv /\ SystemTypes
  BY <1>1, MasterFactsAre
<1>3. PICK f, rk, tip : OnLine(f, rk, tip)
  BY <1>1 DEF LineInv
<1>4. PICK kept : kept = registered
  OBVIOUS
<1>5. Core(kept, f, rk, tip) /\ Tip(f, tip) /\ CacheInv(f)
  BY <1>3, <1>4 DEF OnLine
<1> SUFFICES ASSUME NEW o \in CurrentCaches(registered), Dispatched(o)
             PROVE  /\ Places(caches[o]) = {PlaceIn(currentOrder, s) : s \in currentOrder.first .. currentOrder.last}
                    /\ \A p \in Places(caches[o]) : caches[o].nodeActions[p] = ActionSet(p, actions)
                    /\ caches[o].mappedActions = ReleasedActions(currentOrder, actions)
                    /\ caches[o].lastNodeTraversed.seq <= lastNode.seq
  BY DEF SameRoute
<1>6. o \in kept /\ Current(o)
  BY <1>4 DEF CurrentCaches, Current
<1>7. tip # None /\ (o = tip \/ (f[tip] # None /\ o = f[tip]))
  BY <1>2, <1>5, <1>6, CurrentOnLine
<1>8. f[o] = None
  <2>1. CASE o = tip
    BY <1>5, <1>6, <1>7, <2>1 DEF Tip, NewIn, Dispatched
  <2>2. CASE f[tip] # None /\ o = f[tip]
    BY <1>2, <1>5, <1>7, <2>2, CoreFacts
  <2> QED
    BY <1>7, <2>1, <2>2
<1>9. PICK c : c = Merged(caches, f, o) /\ Matches(c)
  BY <1>4, <1>5, <1>6 DEF CacheInv
<1>10. c = caches[o]
  BY <1>8, <1>9 DEF Merged
<1>11. FitsTo(c, currentOrder, actions) /\ InPos(c) /\ c.lastNodeTraversed # None
  BY <1>9, <1>10 DEF Matches, Dispatched
<1>12. /\ Places(c) = {PlaceIn(currentOrder, s) : s \in currentOrder.first .. currentOrder.last}
       /\ \A p \in Places(c) : c.nodeActions[p] = ActionSet(p, actions)
       /\ c.mappedActions = ReleasedActions(currentOrder, actions)
  BY <1>11 DEF FitsTo
<1>13. c.lastNodeTraversed.seq <= lastNode.seq
  BY <1>11 DEF InPos
<1> QED
  BY <1>10, <1>12, <1>13

-----------------------------------------------------------------------------
(* Reports *)

LEMMA Appended ==
  ASSUME NEW A, NEW s \in Seq(A), NEW e \in A
  PROVE  Append(s, e) # s /\ Append(s, e)[Len(Append(s, e))] = e
OBVIOUS

LEMMA RejectionsAre ==
  ASSUME SystemTypes, NEW o \in Orders
  PROVE  /\ Rejections \in [Orders -> Seq(Outcome)]
         /\ o \notin RejectedOrders => Rejections[o] = outcomes[o]
         /\ o \in RejectedOrders =>
              Rejections[o] # outcomes[o] /\ Rejections[o][Len(Rejections[o])] = "rejected"
<1>1. outcomes \in [Orders -> Seq(Outcome)] /\ "rejected" \in Outcome
  BY DEF SystemTypes, Outcome
<1>2. \A x \in Orders : outcomes[x] \in Seq(Outcome)
  BY <1>1
<1>3. \A x \in Orders : Append(outcomes[x], "rejected") \in Seq(Outcome)
  BY <1>1, <1>2
<1>4. Rejections \in [Orders -> Seq(Outcome)]
  BY <1>2, <1>3 DEF Rejections
<1>5. /\ Append(outcomes[o], "rejected") # outcomes[o]
      /\ Append(outcomes[o], "rejected")[Len(Append(outcomes[o], "rejected"))] = "rejected"
  BY <1>1, <1>2, Appended
<1> QED
  BY <1>4, <1>5 DEF Rejections

(* What is reported of the order a State message is dispatched to.         *)
ReportsAre(t, d, result) ==
  /\ \A o \in Orders : o # t => outcomes'[o] = Rejections[o]
  /\ ~ Invokes(d, result) => outcomes'[t] = outcomes[t]
  /\ Invokes(d, result) =>
       /\ outcomes'[t] = Append(outcomes[t], ByCancelation(result))
       /\ outcomes'[t] # outcomes[t]
       /\ outcomes'[t][Len(outcomes'[t])] = ByCancelation(result)

LEMMA TellingReports ==
  ASSUME UniqueIdentities, MasterFacts, NEW kept, kept = registered \ RejectedOrders,
         NEW g, NEW rk, NEW t, NEW c, NEW d, NEW result,
         Telling(kept, g, rk, t, c, d, result)
  PROVE  ReportsAre(t, d, result)
<1>1. SystemTypes
  BY MasterFactsAre
<1>2. t \in Orders /\ t \in kept /\ result \in {"no", "completed", "active"}
  BY TellingFacts DEF Telling
<1>3. outcomes' = IF Invokes(d, result) THEN [Rejections EXCEPT ![t] = Append(@, ByCancelation(result))]
                  ELSE Rejections
  BY DEF Telling, Dispatches
<1>4. /\ Rejections \in [Orders -> Seq(Outcome)] /\ Rejections[t] = outcomes[t]
  BY <1>1, <1>2, RejectionsAre
<1>5. outcomes[t] \in Seq(Outcome)
  BY <1>2, <1>4
<1>6. ASSUME Invokes(d, result)
      PROVE  /\ outcomes'[t] = Append(outcomes[t], ByCancelation(result))
             /\ outcomes'[t] # outcomes[t]
             /\ outcomes'[t][Len(outcomes'[t])] = ByCancelation(result)
  <2>1. PICK r : r = ByCancelation(result)
    OBVIOUS
  <2>2. r \in Outcome
    BY <1>2, <1>6, <2>1 DEF Invokes, ByCancelation, Outcome
  <2>3. outcomes'[t] = Append(outcomes[t], r)
    BY <1>2, <1>3, <1>4, <1>6, <2>1
  <2>4. Append(outcomes[t], r) # outcomes[t] /\ Append(outcomes[t], r)[Len(Append(outcomes[t], r))] = r
    BY <1>5, <2>2, Appended
  <2> QED
    BY <2>1, <2>3, <2>4
<1>7. \A o \in Orders : o # t => outcomes'[o] = Rejections[o]
  BY <1>3, <1>4
<1>8. ~ Invokes(d, result) => outcomes'[t] = outcomes[t]
  BY <1>3, <1>4
<1> QED
  BY <1>6, <1>7, <1>8 DEF ReportsAre
-----------------------------------------------------------------------------
(* Processed orders *)

ProcessedStep ==
  \A o \in Orders :
    outcomes'[o] # outcomes[o] /\ outcomes'[o][Len(outcomes'[o])] \in {"completed", "active"} =>
      /\ o \in CurrentCaches(Orders) /\ BaseCompleted
      /\ (outcomes'[o][Len(outcomes'[o])] = "active") <=> hasActiveOrder

LEMMA ProcessedIs ==
  ASSUME UniqueIdentities, MasterIInv, [SystemNext]_allVars
  PROVE  ProcessedStep
<1>1. MasterFacts /\ LineInv
  BY DEF MasterIInv
<1>2. SystemTypes
  BY <1>1, MasterFactsAre
<1> SUFFICES ASSUME NEW o \in Orders, outcomes'[o] # outcomes[o],
                    outcomes'[o][Len(outcomes'[o])] \in {"completed", "active"}
             PROVE  /\ o \in CurrentCaches(Orders) /\ BaseCompleted
                    /\ (outcomes'[o][Len(outcomes'[o])] = "active") <=> hasActiveOrder
  BY DEF ProcessedStep
<1>3. DispatchState
  BY OtherOutcomes
<1>4. PICK kept : kept = registered \ RejectedOrders
  OBVIOUS
<1>5. PICK g, rk, t : /\ Left(kept, g, rk, t)
                      /\ t # None => \E c, d, result : Telling(kept, g, rk, t, c, d, result)
  BY <1>1, <1>3, <1>4, DispatchCases
<1>6. outcomes'[o] # Rejections[o]
  BY <1>2, RejectionsAre
<1>7. t # None
  <2> SUFFICES ASSUME t = None PROVE FALSE
    OBVIOUS
  <2>1. Left(kept, g, rk, None)
    BY <1>5
  <2>2. CurrentCaches(kept) = {}
    BY <1>1, <2>1, CurrentLeft
  <2>3. outcomes' = Rejections
    BY <1>3, <1>4, <2>2 DEF DispatchState, Rejections
  <2> QED
    BY <1>6, <2>3
<1>8. PICK c, d, result : Telling(kept, g, rk, t, c, d, result)
  BY <1>5, <1>7
<1>9. ReportsAre(t, d, result)
  BY <1>1, <1>4, <1>8, TellingReports
<1>10. o = t /\ Invokes(d, result)
  BY <1>6, <1>9 DEF ReportsAre
<1>11. result = outcomes'[o][Len(outcomes'[o])]
  BY <1>9, <1>10 DEF ReportsAre, ByCancelation
<1>12. /\ Current(t) /\ (result # "no" => BaseCompleted)
       /\ result = "completed" <=> ~ hasActiveOrder
  BY <1>1, <1>8, TellingFacts
<1>13. o \in CurrentCaches(Orders)
  BY <1>10, <1>12 DEF CurrentCaches, Current
<1> QED
  BY <1>10, <1>11, <1>12, <1>13 DEF Invokes

-----------------------------------------------------------------------------
(* Events of nodes and edges *)

AdvanceStep ==
  \A o \in registered, x \in DOMAIN caches :
    /\ Dispatched(o)
    /\ x = o \/ TakesOver(x, o)
    /\ caches'[x] # caches[x] /\ caches'[x].lastNodeTraversed # None
    => Progress(caches'[x]) >= Progress(caches[o])

LEMMA SameProgress ==
  ASSUME NEW b, NEW c, b.lastNodeTraversed = c.lastNodeTraversed, b.lastEdgeProcessed = c.lastEdgeProcessed
  PROVE  Progress(b) = Progress(c)
BY DEF Progress

(* An order that leaves the registry without being reported is the one that*)
(* is stitched onto.                                                       *)
LEMMA OrdersLeave ==
  ASSUME UniqueIdentities, MasterFacts, NEW kept, kept = registered \ RejectedOrders,
         NEW g, NEW rk, NEW t, NEW c, NEW d, NEW result, Telling(kept, g, rk, t, c, d, result),
         NEW o \in registered, o \notin registered', outcomes'[o] = outcomes[o]
  PROVE  o = g[t] /\ o # t
<1>1. SystemTypes /\ o \in Orders
  BY MasterFactsAre DEF SystemTypes
<1>2. ReportsAre(t, d, result)
  BY TellingReports
<1>3. registered' = kept \ ({g[t]} \cup (IF Completes(d, result) THEN {t} ELSE {})) /\ g[t] # t
  BY DEF Telling, Dispatches
<1>4. t \in kept
  BY TellingFacts
<1>5. o \in kept
  <2> SUFFICES ASSUME o \in RejectedOrders PROVE FALSE
    OBVIOUS
  <2>1. Rejections[o] # outcomes[o]
    BY <1>1, RejectionsAre
  <2>2. o # t
    BY <1>4
  <2> QED
    BY <1>1, <1>2, <2>1, <2>2 DEF ReportsAre
<1>6. o # t
  <2> SUFFICES ASSUME o = t PROVE FALSE
    OBVIOUS
  <2>1. Completes(d, result)
    BY <1>3, <1>5
  <2> QED
    BY <1>2, <2>1 DEF Completes, ReportsAre
<1> QED
  BY <1>3, <1>5, <1>6

LEMMA DispatchAdvances ==
  ASSUME UniqueIdentities, MasterFacts, NEW kept, kept = registered \ RejectedOrders,
         NEW g, NEW rk, NEW t, NEW c, NEW d, NEW result, Telling(kept, g, rk, t, c, d, result),
         NEW o \in registered, NEW x \in DOMAIN caches, Dispatched(o),
         x = o \/ TakesOver(x, o),
         caches'[x] # caches[x], caches'[x].lastNodeTraversed # None
  PROVE  Progress(caches'[x]) >= Progress(caches[o])
<1>1. SystemTypes /\ CachesOK
  BY MasterFactsAre
<1>2. PICK l : l = g[t]
  OBVIOUS
<1>3. /\ Left(kept, g, rk, t) /\ t # None /\ c = Merged(caches, g, t) /\ l # t
      /\ Tells(caches[t], c, d) /\ Dispatches(kept, l, t, d, result) /\ t \in DOMAIN caches
  BY <1>2 DEF Telling
<1>4. Turns(caches, caches', l, t, Mark(d, result))
  BY <1>1, <1>3, DispatchedCaches
<1>5. x = t \/ x = l
  BY <1>4 DEF Turns
<1>6. x # o => o = l /\ o # t
  BY <1>2, OrdersLeave DEF TakesOver
<1>7. Core(kept, g, rk, t)
  BY <1>3 DEF Left
<1>8. l # None => l \in DOMAIN caches
  BY <1>1, <1>2, <1>3, <1>7, TipLinks
<1>9. o # None
  BY <1>1, <1>7, CoreFacts DEF SystemTypes
<1>10. PICK b : b = caches[o]
  OBVIOUS
<1>11. PICK e : e = caches'[x]
  OBVIOUS
<1>12. b.lastNodeTraversed # None
  BY <1>10 DEF Dispatched
<1>13. CASE x = t
  <2>1. e = Mark(d, result)
    BY <1>4, <1>11, <1>13 DEF Turns
  <2>2. Progress(e) = Progress(d)
    <3>1. e.lastNodeTraversed = d.lastNodeTraversed /\ e.lastEdgeProcessed = d.lastEdgeProcessed
      BY <1>3, <2>1, MarkFacts DEF Tells
    <3> QED
      BY <3>1, SameProgress
  <2>3. c.lastNodeTraversed = b.lastNodeTraversed /\ c.lastEdgeProcessed = b.lastEdgeProcessed
    <3>1. CASE o = t
      <4>1. l = None
        BY <1>2, <1>3, <1>10, <1>12, <3>1 DEF Left, NewIn
      <4>2. c = b
        BY <1>2, <1>3, <1>10, <3>1, <4>1 DEF Merged
      <4> QED
        BY <4>2
    <3>2. CASE o # t
      <4>1. o = l /\ l # None
        BY <1>6, <1>9, <1>13, <3>2
      <4>2. caches[t] \in OrderStateCache
        BY <1>1, <1>3 DEF CachesOK
      <4> QED
        BY <1>2, <1>3, <1>10, <4>1, <4>2, MergedFacts
    <3> QED
      BY <3>1, <3>2
  <2>4. Progress(c) = Progress(b)
    BY <2>3, SameProgress
  <2>5. d.lastNodeTraversed # None /\ Progress(c) <= Progress(d) /\ c \in OrderStateCache
    <3>1. c \in OrderStateCache
      BY <1>3 DEF Left, Matches
    <3> QED
      BY <1>3, <1>12, <2>3, <3>1 DEF Tells
  <2>6. Progress(d) \in Nat /\ Progress(c) \in Nat
    <3>1. d \in OrderStateCache
      BY <1>3 DEF Tells
    <3> QED
      BY <1>12, <2>3, <2>5, <3>1, CacheTypes
  <2>7. Progress(e) >= Progress(b)
    BY <2>2, <2>4, <2>5, <2>6
  <2> QED
    BY <1>10, <1>11, <2>7
<1>14. CASE x = l /\ x # t
  <2>1. o = l
    BY <1>6, <1>14
  <2>2. l \in DOMAIN caches
    BY <1>14
  <2>3. b \in OrderStateCache
    BY <1>1, <1>10, <2>1, <2>2 DEF CachesOK
  <2>4. e = [b EXCEPT !.lastCache = None]
    BY <1>4, <1>10, <1>11, <1>14, <2>1, <2>2 DEF Turns
  <2>5. e.lastNodeTraversed = b.lastNodeTraversed /\ e.lastEdgeProcessed = b.lastEdgeProcessed
    BY <2>3, <2>4 DEF OrderStateCache
  <2>6. Progress(e) = Progress(b)
    BY <2>5, SameProgress
  <2>7. Progress(b) \in Nat
    BY <1>12, <2>3, CacheTypes
  <2>8. Progress(e) >= Progress(b)
    BY <2>6, <2>7
  <2> QED
    BY <1>10, <1>11, <2>8
<1> QED
  BY <1>5, <1>13, <1>14

LEMMA AdvanceIs ==
  ASSUME UniqueIdentities, MasterIInv, [SystemNext]_allVars
  PROVE  AdvanceStep
<1>1. MasterFacts /\ LineInv
  BY DEF MasterIInv
<1>2. SystemTypes
  BY <1>1, MasterFactsAre
<1> SUFFICES ASSUME NEW o \in registered, NEW x \in DOMAIN caches, Dispatched(o),
                    x = o \/ TakesOver(x, o),
                    caches'[x] # caches[x], caches'[x].lastNodeTraversed # None
             PROVE  Progress(caches'[x]) >= Progress(caches[o])
  BY DEF AdvanceStep
<1>3. CASE AssignOrder
  <2>1. PICK p : p = Head(plan.orders)
    OBVIOUS
  <2>2. caches' # caches
    OBVIOUS
  <2>3. caches' = [y \in DOMAIN caches \cup {p} |-> IF y = p THEN NewCache(p) ELSE caches[y]]
    BY <1>3, <2>1, <2>2 DEF AssignOrder
  <2>4. x = p /\ caches'[x] = NewCache(p)
    BY <2>3
  <2>5. NewCache(p).lastNodeTraversed = None
    BY DEF NewCache
  <2> QED
    BY <2>4, <2>5
<1>4. CASE DispatchState
  <2>1. PICK kept : kept = registered \ RejectedOrders
    OBVIOUS
  <2>2. PICK g, rk, t : /\ Left(kept, g, rk, t)
                        /\ t # None => \E c, d, result : Telling(kept, g, rk, t, c, d, result)
    BY <1>1, <1>4, <2>1, DispatchCases
  <2>3. t # None
    <3> SUFFICES ASSUME t = None PROVE FALSE
      OBVIOUS
    <3>1. Left(kept, g, rk, None)
      BY <2>2
    <3>2. CurrentCaches(kept) = {}
      BY <1>1, <3>1, CurrentLeft
    <3>3. caches' = caches
      BY <1>4, <2>1, <3>2 DEF DispatchState
    <3> QED
      BY <3>3
  <2>4. PICK c, d, result : Telling(kept, g, rk, t, c, d, result)
    BY <2>2, <2>3
  <2> QED
    BY <1>1, <2>1, <2>4, DispatchAdvances
<1> QED
  BY <1>3, <1>4, CachesChange
-----------------------------------------------------------------------------
(* Theorems *)

(***************************************************************************)
(* Stitching in _dispatchOrderState mirrors stitching in _acceptOrder:     *)
(* once a State of an order has been dispatched, its cache holds the route *)
(* and the actions of the AGV's active order, and no node that the AGV has *)
(* not reached was reported, whatever States, publications and orders are  *)
(* lost, vetoed or rejected in between.                                    *)
(***************************************************************************)
THEOREM SameRouteHolds ==
  ASSUME NoneActionsAlone, PromptCancelation, UniqueIdentities, ErrorsRefer, CanceledWithoutHorizon
  PROVE  System => []SameRoute
<1>1. SystemInit => MasterIInv
  BY MasterInit
<1>2. MasterIInv /\ [SystemNext]_allVars => MasterIInv'
  BY MasterStep
<1>3. MasterIInv => SameRoute
  BY RouteIs
<1> QED
  BY <1>1, <1>2, <1>3, PTL DEF System

(***************************************************************************)
(* processNodeEvents and processEdgeEvents never report a node or an edge  *)
(* behind one that was reported, also when a stitching order takes over    *)
(* from the order before it.                                               *)
(***************************************************************************)
THEOREM EventsAdvanceHolds ==
  ASSUME NoneActionsAlone, PromptCancelation, UniqueIdentities, ErrorsRefer, CanceledWithoutHorizon
  PROVE  System => EventsAdvance
<1>1. SystemInit => MasterIInv
  BY MasterInit
<1>2. MasterIInv /\ [SystemNext]_allVars => MasterIInv'
  BY MasterStep
<1>3. MasterIInv /\ [SystemNext]_allVars =>
        [\A o \in registered, x \in DOMAIN caches :
           /\ Dispatched(o)
           /\ x = o \/ TakesOver(x, o)
           /\ caches'[x] # caches[x] /\ caches'[x].lastNodeTraversed # None
           => Progress(caches'[x]) >= Progress(caches[o])]_allVars
  BY AdvanceIs DEF AdvanceStep
<1> QED
  BY <1>1, <1>2, <1>3, PTL DEF System, EventsAdvance

(***************************************************************************)
(* onOrderProcessed without an error is invoked for the order the AGV has, *)
(* when its base is completed, and `active` is true exactly if the AGV has *)
(* an active order, although _isOrderProcessed looks only at the cache.    *)
(***************************************************************************)
THEOREM ProcessedTrulyHolds ==
  ASSUME NoneActionsAlone, PromptCancelation, UniqueIdentities, ErrorsRefer, CanceledWithoutHorizon
  PROVE  System => ProcessedTruly
<1>1. SystemInit => MasterIInv
  BY MasterInit
<1>2. MasterIInv /\ [SystemNext]_allVars => MasterIInv'
  BY MasterStep
<1>3. MasterIInv /\ [SystemNext]_allVars =>
        [\A o \in Orders :
           outcomes'[o] # outcomes[o] /\ outcomes'[o][Len(outcomes'[o])] \in {"completed", "active"} =>
             /\ o \in CurrentCaches(Orders) /\ BaseCompleted
             /\ (outcomes'[o][Len(outcomes'[o])] = "active") <=> hasActiveOrder]_allVars
  BY ProcessedIs DEF ProcessedStep
<1> QED
  BY <1>1, <1>2, <1>3, PTL DEF System, ProcessedTruly

-----------------------------------------------------------------------------
(* The AGV while its order is being canceled *)

(* Nothing is executed at the last node of the order, where its base ends. *)
EndsQuietly ==
  /\ currentOrder.base = currentOrder.last
  /\ List(currentOrder, actions, currentOrder.last) = << >>

(* An order that is being canceled has nodes ahead until the AGV stops.    *)
CancelsAhead == hasCancelingOrder => nodeStates # {}

LEMMA EndAhead ==
  ASSUME IInv, CourseInv, hasActiveOrder, ~ hasCancelingOrder, EndsQuietly
  PROVE  nodeStates # {} /\ currentOrder.orderId # None
<1>1. Suspended \/ EnRoute
  BY DEF IInv, RouteInv, Inactive
<1>2. currentOrder.orderId # None
  BY <1>1 DEF Suspended, EnRoute
<1>3. IsNode(currentOrder.first) /\ IsNode(currentOrder.last)
  BY <1>2 DEF IInv, OrderInv, Structured
<1>4. OrderOK(currentOrder) /\ actionStates \in [Action -> Status] /\ ListsOK(actions)
  BY TypeFacts DEF IInv
<1>5. CASE Suspended
  <2>1. Waiting
    BY <1>5, SuspendedWaits
  <2> QED
    BY <1>2, <2>1 DEF Waiting
<1>6. CASE EnRoute
  <2> SUFFICES ASSUME nodeStates = {} PROVE FALSE
    BY <1>2
  <2>1. pausedNode = None
    BY <1>6 DEF EnRoute
  <2>2. PICK pos : pos = lastNode.seq
    OBVIOUS
  <2>3. /\ pos \in BaseRange(currentOrder) /\ IsNode(pos) /\ pos \in Nat
        /\ Behind(currentOrder, actions, actionStates, scheduled, traversing, pos)
    BY <2>1, <2>2, OnwardFacts DEF CourseInv
  <2>4. currentOrder.base \in Int /\ currentOrder.last \in Int /\ pos <= currentOrder.base
    BY <1>4, <2>3 DEF OrderOK, BaseRange
  <2>5. nodeStates = NodesIn(pos + 1, currentOrder.last) /\ edgeStates = EdgesIn(pos + 1, currentOrder.last)
    BY <1>6, <2>2 DEF EnRoute
  <2>6. pos = currentOrder.last
    <3> SUFFICES ASSUME pos # currentOrder.last PROVE FALSE
      OBVIOUS
    <3>1. pos + 1 <= currentOrder.last
      BY <2>3, <2>4 DEF EndsQuietly
    <3>2. currentOrder.last \in NodesIn(pos + 1, currentOrder.last)
      BY <1>3, <2>3, <2>4, <3>1 DEF NodesIn
    <3> QED
      BY <2>5, <3>2
  <2>7. edgeStates = {}
    BY <2>3, <2>4, <2>5, <2>6 DEF EdgesIn
  <2>8. List(currentOrder, actions, pos) = << >>
    BY <2>6 DEF EndsQuietly
  <2>9. PICK a \in Action : actionStates[a] \in {"WAITING", "ACTIVE"}
    BY <2>7 DEF hasActiveOrder
  <2>10. CASE actionStates[a] = "ACTIVE"
    <3>1. PICK c \in scheduled : c.action = a
      BY <2>10 DEF IInv, OrderInv, Executing
    <3>2. c.place.seq \in {pos, pos + 1}
      BY <1>6, <2>2, <3>1 DEF EnRoute, Ahead
    <3>3. /\ c.place.seq \in BaseRange(currentOrder) /\ c.place = PlaceIn(currentOrder, c.place.seq)
          /\ c.action \in ActionSet(c.place, actions)
      BY <3>1 DEF IInv, OrderInv, Executing
    <3>4. c.place.seq = pos
      BY <2>3, <2>4, <2>6, <3>2, <3>3 DEF BaseRange, EndsQuietly
    <3>5. ActionsOf(PlaceIn(currentOrder, pos), actions) = << >>
      BY <1>4, <2>3, <2>8, ListFacts
    <3> QED
      BY <3>3, <3>4, <3>5 DEF ActionSet
  <2>11. CASE actionStates[a] = "WAITING"
    <3>1. a \in ReleasedActions(currentOrder, actions)
      BY <2>11 DEF IInv, OrderInv, Reported
    <3>2. PICK s \in BaseRange(currentOrder) :
            \E i \in DOMAIN List(currentOrder, actions, s) : a = List(currentOrder, actions, s)[i]
      BY <1>4, <3>1, ReleasedFacts
    <3>3. s \in Int /\ s <= pos
      BY <2>4, <2>6, <3>2 DEF BaseRange, EndsQuietly, OrderOK
    <3>4. s # pos
      BY <2>8, <3>2
    <3>5. AllEnded(List(currentOrder, actions, s), actionStates)
      BY <2>3, <3>3, <3>4 DEF Behind
    <3> QED
      BY <2>11, <3>2, <3>5 DEF AllEnded
  <2> QED
    BY <2>9, <2>10, <2>11
<1> QED
  BY <1>1, <1>5, <1>6

LEMMA CancelsAheadKept ==
  ASSUME IInv, PromptCancelation, CourseInv, CancelRoute, CancelsAhead, [Next]_vars,
         ~ hasCancelingOrder /\ hasCancelingOrder' => EndsQuietly
  PROVE  CancelsAhead'
<1> SUFFICES ASSUME hasCancelingOrder' PROVE nodeStates' # {}
  BY DEF CancelsAhead
<1>1. cancelContext' # None
  BY DEF hasCancelingOrder
<1>2. CASE ~ hasCancelingOrder
  <2>1. PICK c \in Cancels : CancelOrder(c)
    BY <1>1, <1>2, CancelSteps DEF hasCancelingOrder, Stopped
  <2>2. hasActiveOrder /\ nodeStates' = nodeStates
    BY <1>1, <1>2, <2>1 DEF CancelOrder, hasCancelingOrder
  <2> QED
    BY <1>2, <2>2, EndAhead
<1>3. CASE hasCancelingOrder
  <2>1. nodeStates # {}
    BY <1>3 DEF CancelsAhead
  <2>2. CASE \E o \in Orders : ReceiveOrder(o)
    <3>1. PICK o \in Orders : ReceiveOrder(o)
      BY <2>2
    <3>2. RejectOrder(o)
      BY <1>3, <3>1, Zenon DEF ReceiveOrder, DiscardOrder, ReplaceOrder, StitchOrder
    <3> QED
      BY <2>1, <3>2 DEF RejectOrder
  <2>3. CASE \E c \in scheduled : StartAction(c) \/ EndAction(c)
    BY <2>1, <2>3 DEF StartAction, EndAction
  <2>4. CASE \E i \in DOMAIN traversing : EdgeTraversed(i)
    BY <1>3, <2>1, <2>4 DEF EdgeTraversed
  <2>5. CASE \E c \in Cancels : CancelOrder(c)
    BY <2>1, <2>5 DEF CancelOrder
  <2>6. CASE DrivingToNextNode
    <3>1. PICK e : e = Head(traversing).seq
      OBVIOUS
    <3>2. traversing # << >> /\ nodeStates' = {s \in nodeStates : s = e + 1}
      BY <2>6, <3>1 DEF DrivingToNextNode
    <3>3. /\ e \in Nat /\ ~ IsNode(e) /\ e + 1 <= currentOrder.last
          /\ ahead \in {e .. currentOrder.last, {e + 1}}
      BY <1>3, <3>1, <3>2 DEF CancelRoute
    <3>4. e + 1 \in ahead /\ IsNode(e + 1)
      <4>1. IsNode(e + 1) /\ currentOrder.last \in Int
        BY <3>3, Parity DEF IInv, TypeOK, OrderOK
      <4> QED
        BY <3>3, <4>1
    <3>5. e + 1 \in nodeStates
      BY <3>4 DEF ahead, IInv, TypeOK
    <3> QED
      BY <3>2, <3>5
  <2>7. CASE Stopped
    BY <1>1, <2>7 DEF Stopped
  <2>8. CASE StartPause \/ PushPauseButton \/ UNCHANGED vars
    BY <2>1, <2>8 DEF StartPause, PushPauseButton, vars, controllerVars
  <2>9. CASE StopPause
    BY <1>3, <2>1, <2>9 DEF StopPause
  <2> QED
    BY <2>2, <2>3, <2>4, <2>5, <2>6, <2>7, <2>8, <2>9 DEF Next
<1> QED
  BY <1>2, <1>3

(* An AGV that has stopped has no active order.                            *)
LEMMA StoppedInactive ==
  ASSUME IInv, Stopped
  PROVE  hasCancelingOrder /\ ~ hasActiveOrder'
<1>1. /\ hasCancelingOrder /\ scheduled = {}
      /\ nodeStates' = {} /\ edgeStates' = {} /\ actionStates' = actionStates
      /\ \A a \in Action : actionStates[a] # "WAITING"
  BY DEF Stopped, IInv, CancelInv
<1>2. \A a \in Action : actionStates[a] # "ACTIVE"
  BY <1>1 DEF IInv, OrderInv, Executing
<1> QED
  BY <1>1, <1>2 DEF hasActiveOrder

-----------------------------------------------------------------------------
(* Orders that are canceled end quietly *)

(* They have no actions on their last node.                                *)
QuietEnds == MayCancel => \A o \in Orders : Known(o) => Msg[o].actions[Msg[o].last] = << >>

EndsEmpty ==
  MayCancel /\ currentOrder.orderId # None => List(currentOrder, actions, currentOrder.last) = << >>

LEMMA QuietEndsKept ==
  ASSUME SystemTypes, IInv, CancelTie, [SystemNext]_allVars, QuietEnds
  PROVE  QuietEnds'
<1>1. \A o \in Orders : Known(o)' => Known(o)
  BY KnownBefore
<1>2. MayCancel' => MayCancel
  BY MayCancelBefore
<1> QED
  BY <1>1, <1>2 DEF QuietEnds

(* The active order is one that master control knows.                      *)
LEMMA ActiveKnown ==
  ASSUME MasterIInv, hasActiveOrder, ~ hasCancelingOrder
  PROVE  \E o \in registered : o \in Orders /\ o \notin inbox /\ Current(o) /\ Known(o)
<1>1. RejectionInv /\ IInv /\ ActiveOK
  BY MasterFactsAre DEF MasterIInv
<1>2. Suspended \/ EnRoute
  BY <1>1 DEF IInv, RouteInv, Inactive
<1>3. currentOrder.orderId # None
  BY <1>1, <1>2 DEF Suspended, EnRoute, IInv, OrderInv, Structured
<1>4. PICK o \in Orders : Current(o) /\ o \notin inbox
  BY <1>1, <1>3 DEF RejectionInv
<1>5. o \in registered
  BY <1>1, <1>4 DEF ActiveOK
<1>6. PICK f, rk, tip : OnLine(f, rk, tip)
  BY DEF MasterIInv, LineInv
<1>7. o \in DOMAIN caches
  BY <1>5, <1>6 DEF OnLine, Core
<1> QED
  BY <1>4, <1>5, <1>7 DEF Known

LEMMA CurrentEndsQuietly ==
  ASSUME MasterIInv, EndsEmpty, MayCancel, hasActiveOrder, ~ hasCancelingOrder
  PROVE  EndsQuietly
<1>1. HorizonInv /\ EndsAsSent /\ IInv
  BY MasterFactsAre DEF MasterIInv, AgvInv
<1>2. PICK o \in Orders : Current(o) /\ Known(o)
  BY ActiveKnown
<1>3. Msg[o].base = Msg[o].last
  BY <1>1, <1>2 DEF HorizonInv
<1>4. currentOrder.base = currentOrder.last
  BY <1>1, <1>2, <1>3 DEF EndsAsSent
<1>5. currentOrder.orderId # None
  BY <1>2, IdentityFacts DEF Current, Identity
<1> QED
  BY <1>4, <1>5 DEF EndsEmpty, EndsQuietly

(* Orders arrive from their topic.                                         *)
LEMMA SystemReceives ==
  ASSUME SystemTypes, [SystemNext]_allVars, NEW o \in Orders, ReceiveOrder(o)
  PROVE  ReceiveAssigned /\ o = Head(orderTopic)
<1>1. o \in inbox /\ inbox' = inbox \ {o}
  BY ReceiveFacts
<1>2. CASE ReceiveAssigned
  <2>1. PICK p : p = Head(orderTopic)
    OBVIOUS
  <2>2. ReceiveOrder(p) /\ p \in Orders
    BY <1>2, <2>1 DEF ReceiveAssigned, SystemTypes
  <2>3. p \in inbox /\ inbox' = inbox \ {p}
    BY <2>2, ReceiveFacts
  <2>4. o = p
    BY <1>1, <2>3
  <2> QED
    BY <1>2, <2>1, <2>4
<1>3. CASE UNCHANGED vars
  BY <1>1, <1>3, VarsKept
<1>4. CASE ReceiveCancelOrder \/ AdapterStep
  BY <1>1, <1>4, AdapterQuiet, Zenon DEF ReceiveCancelOrder, AdapterStep
<1> QED
  BY <1>2, <1>3, <1>4 DEF SystemNext, DispatchState, AssignOrder, PublishFails, InitiateCancelOrder,
     ReportAgvError, allVars, systemVars

LEMMA ArrivesOnLine ==
  ASSUME UniqueIdentities, MasterIInv, [SystemNext]_allVars, NEW o \in Orders, ReceiveOrder(o)
  PROVE  /\ ReceiveAssigned /\ upToDate /\ ~ upToDate'
         /\ o \in inbox /\ o \in registered /\ o \in DOMAIN caches /\ ~ Current(o) /\ Known(o)
<1>1. MasterFacts /\ SystemTypes
  BY MasterFactsAre DEF MasterIInv
<1>2. ReceiveAssigned /\ o = Head(orderTopic)
  BY <1>1, SystemReceives
<1>3. PICK f, rk, tip : OnLine(f, rk, tip)
  BY DEF MasterIInv, LineInv
<1>4. Arrives(f, rk, tip, o)
  BY <1>1, <1>2, <1>3, OrderOnLine
<1>5. /\ upToDate /\ ~ upToDate' /\ o \in inbox /\ o \in registered /\ ~ Current(o)
      /\ registered \subseteq DOMAIN caches
  BY <1>4 DEF Arrives
<1> QED
  BY <1>2, <1>5 DEF Known

LEMMA EndsEmptyKept ==
  ASSUME NoneActionsAlone, UniqueIdentities, MasterIInv, QuietEnds, EndsEmpty, [Next]_vars, [SystemNext]_allVars
  PROVE  EndsEmpty'
<1> SUFFICES ASSUME MayCancel', currentOrder'.orderId # None
             PROVE  List(currentOrder', actions', currentOrder'.last) = << >>
  BY DEF EndsEmpty
<1>1. SystemTypes /\ IInv /\ CancelTie /\ HorizonInv
  BY MasterFactsAre DEF MasterIInv, AgvInv
<1>2. MayCancel
  BY <1>1, MayCancelBefore
<1>3. CASE Replaces
  <2>1. PICK o \in Orders : ReceiveOrder(o) /\ ReplaceOrder(o)
    BY <1>3 DEF Replaces
  <2>2. o \in inbox /\ Known(o)
    BY <2>1, ArrivesOnLine
  <2>3. currentOrder' = Replacement(o) /\ actions' = actions /\ actions[o] = Msg[o].actions
    BY <1>1, <2>1, <2>2, ReplaceOrderEffect DEF IInv, OrderInv, Received
  <2>4. Replacement(o).last = Msg[o].last /\ Replacement(o).at[Msg[o].last] = o
    BY MessageFacts DEF Replacement
  <2>5. Msg[o].actions[Msg[o].last] = << >>
    BY <1>2, <2>2 DEF QuietEnds
  <2> QED
    BY <2>3, <2>4, <2>5 DEF List
<1>4. CASE Extends
  <2>1. PICK o \in Orders : ReceiveOrder(o) /\ StitchOrder(o)
    BY <1>4 DEF Extends
  <2>2. o \in inbox /\ Known(o)
    BY <2>1, ArrivesOnLine
  <2>3. /\ Stitching(o) /\ hasActiveOrder /\ ~ hasCancelingOrder
        /\ currentOrder' = Stitched(o) /\ actions' = StitchedLists(o)
    BY <1>1, <2>1, <2>2, StitchOrderEffect
  <2>4. EndsQuietly
    BY <1>2, <2>3, CurrentEndsQuietly
  <2>5. Msg[o].actions[Msg[o].last] = << >> /\ Msg[o].base = Msg[o].last
    BY <1>1, <1>2, <2>2 DEF QuietEnds, HorizonInv
  <2>6. PICK s : s = Msg[o].last
    OBVIOUS
  <2>7. /\ Stitched(o).first = currentOrder.first /\ Stitched(o).base = s /\ Stitched(o).last = s
        /\ currentOrder.base = Msg[o].first /\ currentOrder.first <= currentOrder.base
        /\ currentOrder.first \in Nat /\ currentOrder.base \in Nat /\ s \in Nat /\ Msg[o].first <= s
    BY <2>3, <2>5, <2>6, StitchedFacts
  <2>8. s \in BaseRange(Stitched(o)) /\ (s = currentOrder.base \/ s > currentOrder.base)
    BY <2>7 DEF BaseRange
  <2>9. List(currentOrder, actions, currentOrder.base) = << >>
    BY <2>4 DEF EndsQuietly
  <2>10. List(Stitched(o), StitchedLists(o), s) = << >>
    BY <2>3, <2>5, <2>6, <2>8, <2>9, StitchedListsFacts
  <2> QED
    BY <2>3, <2>6, <2>7, <2>10
<1>5. CASE ~ Replaces /\ ~ Extends
  <2>1. UNCHANGED <<currentOrder, actions>>
    BY <1>5, OrderKept
  <2> QED
    BY <1>2, <2>1 DEF EndsEmpty
<1> QED
  BY <1>3, <1>4, <1>5

(* Until an order that is canceled has been deleted, it has nodes ahead.   *)
LEMMA CancelsAheadStep ==
  ASSUME PromptCancelation, MasterIInv, EndsEmpty, CourseInv, CancelRoute, CancelsAhead,
         [Next]_vars, [SystemNext]_allVars
  PROVE  CancelsAhead'
<1>1. IInv
  BY MasterFactsAre DEF MasterIInv
<1>2. ASSUME ~ hasCancelingOrder, hasCancelingOrder'
      PROVE  EndsQuietly
  <2>1. PICK c \in Cancels : CancelOrder(c)
    BY <1>2, CancelSteps DEF hasCancelingOrder, Stopped
  <2>2. hasActiveOrder /\ cancelStates[c] = "UNSENT" /\ cancelStates' # cancelStates
    <3>1. cancelStates \in [Cancels -> {"UNSENT", "REJECTED", "RUNNING", "FINISHED"}]
      BY <1>1 DEF IInv, TypeOK
    <3>2. hasActiveOrder
      BY <1>2, <2>1 DEF CancelOrder, hasCancelingOrder
    <3> QED
      BY <2>1, <3>1, <3>2 DEF CancelOrder
  <2>3. MayCancel
    <3> SUFFICES ASSUME ~ MayCancel PROVE FALSE
      OBVIOUS
    <3>1. SystemTypes /\ CancelTie
      BY MasterFactsAre DEF MasterIInv, AgvInv
    <3>2. ~ MayCancel'
      BY <1>1, <3>1, MayCancelBefore
    <3>3. NotCanceled'
      BY <3>2 DEF MayCancel
    <3>4. cancelStates'[c] \in {"REJECTED", "RUNNING"}
      <4>1. cancelStates \in [Cancels -> {"UNSENT", "REJECTED", "RUNNING", "FINISHED"}]
        BY <1>1 DEF IInv, TypeOK
      <4> QED
        BY <2>1, <4>1 DEF CancelOrder
    <3> QED
      BY <3>3, <3>4 DEF NotCanceled
  <2> QED
    BY <1>2, <2>2, <2>3, CurrentEndsQuietly
<1> QED
  BY <1>1, <1>2, CancelsAheadKept

-----------------------------------------------------------------------------
(* An order is reported once *)

(* An order that was reported has arrived, and is marked as processed if   *)
(* it is still known to master control.                                    *)
ReportOK(o) ==
  outcomes[o] # << >> =>
    /\ Len(outcomes[o]) = 1 /\ o \notin inbox
    /\ o \in registered => caches[o].processed

Reports ==
  /\ \A o \in Orders : ReportOK(o)
  /\ \A r \in rejections : r.order \in registered => outcomes[r.order] = << >>

(* Nothing is reported, and only orders that have not arrived are assigned.*)
Unreported ==
  /\ outcomes' = outcomes
  /\ \A o \in registered' :
       o \in Orders /\ (o \in inbox \/ (o \in registered /\ caches'[o] = caches[o]))

LEMMA ReportsKept ==
  ASSUME Reports, Unreported, [Next]_vars
  PROVE  Reports'
<1>1. inbox' \subseteq inbox
  BY InboxShrinks
<1>2. ASSUME NEW o \in Orders
      PROVE  ReportOK(o)'
  <2>1. ReportOK(o)
    BY DEF Reports
  <2> QED
    BY <1>1, <2>1 DEF ReportOK, Unreported
<1>3. ASSUME NEW r \in rejections', r.order \in registered'
      PROVE  outcomes'[r.order] = << >>
  <2>1. r.order \in Orders /\ (r.order \in inbox \/ r.order \in registered) /\ outcomes' = outcomes
    BY <1>3 DEF Unreported
  <2>2. r \in rejections \/ r.order \in inbox
    BY OtherFacts, ReceiveFacts
  <2>3. r.order \in inbox => outcomes[r.order] = << >>
    BY <2>1 DEF Reports, ReportOK
  <2> QED
    BY <2>1, <2>2, <2>3 DEF Reports
<1> QED
  BY <1>2, <1>3 DEF Reports

LEMMA RegisteredCached ==
  ASSUME LineInv
  PROVE  registered \subseteq DOMAIN caches
BY DEF LineInv, OnLine, Core

LEMMA OthersUnreported ==
  ASSUME SystemTypes, LineInv, [SystemNext]_allVars, ~ DispatchState
  PROVE  Unreported
<1>1. registered' \subseteq Orders
  BY SystemNextTypes DEF SystemTypes
<1>2. outcomes' = outcomes
  BY OtherOutcomes
<1>3. CASE registered' \subseteq registered /\ caches' = caches
  BY <1>1, <1>2, <1>3 DEF Unreported
<1>4. CASE AssignOrder
  <2>1. PICK o : o = Head(plan.orders)
    OBVIOUS
  <2>2. CASE IsAssigned(o)
    BY <1>3, <1>4, <2>1, <2>2 DEF AssignOrder
  <2>3. CASE ~ IsAssigned(o)
    <3>1. o \in inbox
      BY <1>4, <2>1, <2>3 DEF AssignOrder, MayAssign, Sent
    <3>2. /\ registered' = registered \cup {o}
          /\ caches' = [x \in DOMAIN caches \cup {o} |-> IF x = o THEN NewCache(o) ELSE caches[x]]
      BY <1>4, <2>1, <2>3 DEF AssignOrder
    <3>3. ASSUME NEW x \in registered'
          PROVE  x \in inbox \/ (x \in registered /\ caches'[x] = caches[x])
      <4>1. CASE x = o
        BY <3>1, <4>1
      <4>2. CASE x # o /\ x \in DOMAIN caches
        BY <3>2, <4>2
      <4>3. CASE x # o /\ x \notin DOMAIN caches
        BY <3>2, <4>3, RegisteredCached
      <4> QED
        BY <4>1, <4>2, <4>3
    <3> QED
      BY <1>1, <1>2, <3>3 DEF Unreported
  <2> QED
    BY <2>2, <2>3
<1>5. CASE PublishFails
  BY <1>3, <1>5 DEF PublishFails
<1> QED
  BY <1>3, <1>4, <1>5 DEF SystemNext, InitiateCancelOrder, ReceiveAssigned, ReceiveCancelOrder,
     AdapterStep, Adapter, ReportAgvError, allVars, systemVars, cacheVars

(* A rejection is the only report of an order.                             *)
LEMMA RejectedOnce ==
  ASSUME UniqueIdentities, MasterFacts, Reports, NEW o \in Orders
  PROVE  /\ o \in RejectedOrders => Rejections[o] = <<"rejected">> /\ o \notin inbox
         /\ o \notin RejectedOrders => Rejections[o] = outcomes[o]
<1>1. CASE o \in RejectedOrders
  <2>1. o \in registered /\ \E r \in rejections : r.order = o
    BY <1>1, WhatIsRejected
  <2>2. outcomes[o] = << >>
    BY <2>1 DEF Reports
  <2>3. RejectionInv
    BY MasterFactsAre
  <2>4. o \notin inbox
    BY <2>1, <2>3 DEF RejectionInv, Refused
  <2>5. Rejections[o] = Append(<< >>, "rejected")
    BY <1>1, <2>2 DEF Rejections
  <2> QED
    BY <1>1, <2>4, <2>5
<1>2. CASE o \notin RejectedOrders
  BY <1>2 DEF Rejections
<1> QED
  BY <1>1, <1>2

LEMMA DispatchReports ==
  ASSUME UniqueIdentities, MasterIInv, Reports, DispatchState
  PROVE  Reports'
<1>1. MasterFacts /\ LineInv /\ CachesOK
  BY MasterFactsAre DEF MasterIInv
<1>2. inbox' = inbox /\ rejections' = rejections
  BY <1>1, DispatchKeeps
<1>3. PICK kept : kept = registered \ RejectedOrders
  OBVIOUS
<1>4. PICK g, rk, t : /\ Left(kept, g, rk, t)
                      /\ t # None => \E c, d, result : Telling(kept, g, rk, t, c, d, result)
  BY <1>1, <1>3, DispatchCases
<1>5. \A r \in rejections : r.order \notin kept
  BY <1>4 DEF Left
<1>6. CASE t = None
  <2>1. CurrentCaches(kept) = {}
    BY <1>1, <1>4, <1>6, CurrentLeft
  <2>2. registered' = kept /\ outcomes' = Rejections /\ caches' = caches
    BY <1>3, <2>1 DEF DispatchState, Rejections
  <2>3. ASSUME NEW o \in Orders
        PROVE  ReportOK(o)'
    <3>1. ReportOK(o)
      BY DEF Reports
    <3>2. CASE o \in RejectedOrders
      <4>1. Rejections[o] = <<"rejected">> /\ o \notin inbox /\ o \notin kept
        BY <1>1, <1>3, <3>2, RejectedOnce
      <4> QED
        BY <1>2, <2>2, <4>1 DEF ReportOK
    <3>3. CASE o \notin RejectedOrders
      <4>1. Rejections[o] = outcomes[o]
        BY <1>1, <3>3, RejectedOnce
      <4> QED
        BY <1>2, <1>3, <2>2, <3>1, <4>1 DEF ReportOK
    <3> QED
      BY <3>2, <3>3
  <2> QED
    BY <1>2, <1>5, <2>2, <2>3 DEF Reports
<1>7. CASE t # None
  <2>1. PICK c, d, result : Telling(kept, g, rk, t, c, d, result)
    BY <1>4, <1>7
  <2>2. /\ Tells(caches[t], c, d) /\ Dispatches(kept, g[t], t, d, result)
        /\ t \in Orders /\ t \in DOMAIN caches /\ g[t] # t
    BY <2>1 DEF Telling
  <2>3. t \in registered /\ t \in kept /\ t \notin inbox
    BY <1>1, <2>1, TellingFacts
  <2>4. ReportsAre(t, d, result)
    BY <1>1, <1>3, <2>1, TellingReports
  <2>5. Turns(caches, caches', g[t], t, Mark(d, result))
    BY <1>1, <2>2, DispatchedCaches
  <2>6. registered' \subseteq kept \ {g[t]}
    BY <2>2 DEF Dispatches
  <2>7. d.processed = caches[t].processed /\ d \in OrderStateCache
    BY <2>2 DEF Tells
  <2>8. caches'[t].processed = (d.processed \/ result # "no")
    <3>1. Mark(d, result).processed = (d.processed \/ result # "no")
      BY <2>7 DEF Mark, OrderStateCache
    <3> QED
      BY <2>5, <3>1 DEF Turns
  <2>9. ASSUME NEW o \in Orders, o # t
        PROVE  ReportOK(o)'
    <3>1. ReportOK(o) /\ outcomes'[o] = Rejections[o]
      BY <2>4, <2>9 DEF Reports, ReportsAre
    <3>2. CASE o \in RejectedOrders
      <4>1. Rejections[o] = <<"rejected">> /\ o \notin inbox /\ o \notin kept
        BY <1>1, <1>3, <3>2, RejectedOnce
      <4> QED
        BY <1>2, <2>6, <3>1, <4>1 DEF ReportOK
    <3>3. CASE o \notin RejectedOrders
      <4>1. Rejections[o] = outcomes[o]
        BY <1>1, <3>3, RejectedOnce
      <4>2. o \in registered' => o \in registered /\ caches'[o] = caches[o]
        <5> SUFFICES ASSUME o \in registered' PROVE o \in registered /\ caches'[o] = caches[o]
          OBVIOUS
        <5>1. o \in registered /\ o # g[t]
          BY <1>3, <2>6
        <5>2. o \in DOMAIN caches
          BY <1>4, <2>6 DEF Left, Core
        <5> QED
          BY <2>5, <2>9, <5>1, <5>2 DEF Turns
      <4> QED
        BY <1>2, <3>1, <4>1, <4>2 DEF ReportOK
    <3> QED
      BY <3>2, <3>3
  <2>10. ReportOK(t)'
    <3>1. ReportOK(t)
      BY <2>2 DEF Reports
    <3>2. CASE Invokes(d, result)
      <4>1. result # "no" /\ ~ d.processed
        BY <3>2 DEF Invokes
      <4>2. outcomes[t] = << >>
        BY <2>3, <2>7, <3>1, <4>1 DEF ReportOK
      <4>3. outcomes'[t] = Append(<< >>, ByCancelation(result))
        BY <2>4, <3>2, <4>2 DEF ReportsAre
      <4>4. Len(outcomes'[t]) = 1
        BY <4>3
      <4> QED
        BY <1>2, <2>3, <2>8, <4>1, <4>4 DEF ReportOK
    <3>3. CASE ~ Invokes(d, result)
      <4>1. outcomes'[t] = outcomes[t]
        BY <2>4, <3>3 DEF ReportsAre
      <4> QED
        BY <1>2, <2>3, <2>7, <2>8, <3>1, <4>1 DEF ReportOK
    <3> QED
      BY <3>2, <3>3
  <2>11. \A o \in Orders : ReportOK(o)'
    BY <2>9, <2>10
  <2> QED
    BY <1>2, <1>5, <2>6, <2>11 DEF Reports
<1> QED
  BY <1>6, <1>7

LEMMA ReportsStep ==
  ASSUME UniqueIdentities, MasterIInv, Reports, [SystemNext]_allVars
  PROVE  Reports'
<1>1. SystemTypes /\ LineInv /\ [Next]_vars
  BY MasterFactsAre, SystemStep DEF MasterIInv
<1>2. CASE DispatchState
  BY <1>2, DispatchReports
<1>3. CASE ~ DispatchState
  BY <1>1, <1>3, OthersUnreported, ReportsKept
<1> QED
  BY <1>2, <1>3

-----------------------------------------------------------------------------
(* cancelOrder actions *)

LEMMA KeptOne ==
  ASSUME NEW A, NEW s \in Seq(A), Len(s) <= 1, NEW S, NEW q, q = Kept(s, S)
  PROVE  /\ q = << >> \/ (q = s /\ Head(s) \in S)
         /\ s # << >> /\ Head(s) \in S => q = s
<1>1. PICK u : KeptUpTo(s, S, u, Len(s)) /\ q = u[Len(s)]
  BY KeptPrefixes
<1>2. u[0] = << >>
  BY <1>1 DEF KeptUpTo
<1>3. CASE Len(s) = 0
  BY <1>1, <1>2, <1>3
<1>4. CASE Len(s) = 1
  <2>1. u[1] = IF s[1] \in S THEN Append(u[0], s[1]) ELSE u[0]
    <3>1. 1 \in 1 .. Len(s) /\ 1 - 1 = 0
      BY <1>4
    <3>2. u[1] = IF s[1] \in S THEN Append(u[1 - 1], s[1]) ELSE u[1 - 1]
      BY <1>1, <3>1, Zenon DEF KeptUpTo
    <3> QED
      BY <3>1, <3>2
  <2>2. Append(<< >>, s[1]) = s /\ Head(s) = s[1] /\ s # << >>
    BY <1>4
  <2> QED
    BY <1>1, <1>2, <1>4, <2>1, <2>2
<1>5. Len(s) = 0 \/ Len(s) = 1
  <2>1. PICK n : n = Len(s)
    OBVIOUS
  <2>2. n \in Nat /\ n <= 1
    BY <2>1
  <2>3. n = 0 \/ n = 1
    BY <2>2
  <2> QED
    BY <2>1, <2>3
<1> QED
  BY <1>3, <1>4, <1>5, Zenon

(* An actionId is used once: cs are the cancelOrder actions still planned, *)
(* q the one that is initiated, and st what the AGV made of them.          *)
Planned(cs, q, st) ==
  /\ Len(q) <= 1
  /\ \A i, j \in DOMAIN cs : cs[i] = cs[j] => i = j
  /\ \A i \in DOMAIN cs : st[cs[i]] = "UNSENT"
  /\ \A i \in DOMAIN cs, j \in DOMAIN q : q[j] # cs[i]

Initiation == Planned(plan.cancels, initiated, cancelStates)

CancelStatus == {"UNSENT", "REJECTED", "RUNNING", "FINISHED"}

LEMMA PlannedNext ==
  ASSUME NEW cs \in Seq(Cancels), cs # << >>, NEW st, Planned(cs, << >>, st)
  PROVE  Planned(Tail(cs), <<Head(cs)>>, st) /\ st[Head(cs)] = "UNSENT"
<1>1. DOMAIN cs = 1 .. Len(cs) /\ Len(cs) \in Nat \ {0} /\ Head(cs) = cs[1]
  OBVIOUS
<1>2. PICK t : t = Tail(cs)
  OBVIOUS
<1>3. DOMAIN t = 1 .. (Len(cs) - 1) /\ \A i \in 1 .. (Len(cs) - 1) : t[i] = cs[i + 1]
  BY <1>1, <1>2
<1>4. \A i \in DOMAIN t : i + 1 \in DOMAIN cs /\ i \in Nat /\ i >= 1
  BY <1>1, <1>3
<1>5. 1 \in DOMAIN cs
  BY <1>1
<1>6. PICK q : q = <<Head(cs)>>
  OBVIOUS
<1>7. Len(q) = 1 /\ DOMAIN q = {1} /\ q[1] = cs[1]
  BY <1>1, <1>6
<1>8. ASSUME NEW i \in DOMAIN t, NEW j \in DOMAIN t, t[i] = t[j]
      PROVE  i = j
  <2>1. cs[i + 1] = cs[j + 1]
    BY <1>3, <1>8
  <2>2. i + 1 = j + 1
    BY <1>4, <2>1 DEF Planned
  <2> QED
    BY <1>4, <2>2
<1>9. ASSUME NEW i \in DOMAIN t
      PROVE  st[t[i]] = "UNSENT" /\ t[i] # cs[1]
  <2>1. t[i] = cs[i + 1] /\ i + 1 \in DOMAIN cs /\ i + 1 # 1
    BY <1>3, <1>4
  <2> QED
    BY <1>5, <2>1 DEF Planned
<1>10. st[cs[1]] = "UNSENT"
  BY <1>5 DEF Planned
<1>11. Planned(t, q, st)
  BY <1>7, <1>8, <1>9 DEF Planned
<1> QED
  BY <1>1, <1>2, <1>6, <1>10, <1>11

(* One that was initiated changes, or one that is not planned any more.    *)
LEMMA PlannedAnswered ==
  ASSUME NEW cs \in Seq(Cancels), NEW q, NEW st, NEW new,
         Planned(cs, q, st), NEW c,
         \/ \E i \in DOMAIN q : q[i] = c
         \/ st[c] # "UNSENT",
         \A d \in Cancels : d # c => new[d] = st[d]
  PROVE  Planned(cs, q, new)
<1>1. ASSUME NEW i \in DOMAIN cs
      PROVE  new[cs[i]] = "UNSENT"
  <2>1. cs[i] \in Cancels /\ st[cs[i]] = "UNSENT"
    BY DEF Planned
  <2>2. cs[i] # c
    BY <2>1 DEF Planned
  <2> QED
    BY <2>1, <2>2
<1> QED
  BY <1>1 DEF Planned

LEMMA InitiationKept ==
  ASSUME SystemTypes, IInv, CancelTie, Initiation, [SystemNext]_allVars
  PROVE  Initiation'
<1>1. /\ cancelStates \in [Cancels -> CancelStatus] /\ cancelContext \in Cancels \cup {None}
      /\ plan.cancels \in Seq(Cancels) /\ initiated \in Seq(Cancels) /\ None \notin Cancels
  BY EnvironmentAssumption DEF SystemTypes, IInv, TypeOK, CancelStatus
<1>2. Planned(plan.cancels, initiated, cancelStates)
  BY DEF Initiation
<1>3. CASE UNCHANGED <<initiated, cancelStates>> /\ plan'.cancels = plan.cancels
  BY <1>2, <1>3 DEF Initiation
<1>4. CASE DispatchState
  <2>1. PICK S : initiated' = Kept(initiated, S)
    BY <1>4 DEF DispatchState
  <2>2. PICK q : q = Kept(initiated, S)
    OBVIOUS
  <2>3. q = << >> \/ q = initiated
    BY <1>1, <1>2, <2>2, KeptOne DEF Planned
  <2>4. plan' = plan /\ cancelStates' = cancelStates
    BY <1>4 DEF DispatchState, vars, masterVars
  <2>5. Planned(plan.cancels, q, cancelStates)
    BY <1>2, <2>3 DEF Planned
  <2> QED
    BY <2>1, <2>2, <2>4, <2>5 DEF Initiation
<1>5. CASE AssignOrder \/ PublishFails
  BY <1>3, <1>5 DEF AssignOrder, PublishFails, SystemTypes, vars, masterVars
<1>6. CASE InitiateCancelOrder
  <2>1. /\ plan.cancels # << >> /\ initiated = << >>
        /\ initiated' = <<Head(plan.cancels)>> /\ plan' = [plan EXCEPT !.cancels = Tail(plan.cancels)]
        /\ cancelStates' = cancelStates
    BY <1>6 DEF InitiateCancelOrder, vars, masterVars
  <2>2. plan'.cancels = Tail(plan.cancels)
    BY <2>1 DEF SystemTypes
  <2>3. Planned(Tail(plan.cancels), <<Head(plan.cancels)>>, cancelStates)
    BY <1>1, <1>2, <2>1, PlannedNext
  <2> QED
    BY <2>1, <2>2, <2>3 DEF Initiation
<1>7. CASE ReceiveAssigned
  BY <1>3, <1>7 DEF ReceiveAssigned, ReceiveOrder
<1>8. CASE ReceiveCancelOrder
  <2>1. PICK i \in DOMAIN initiated : CancelOrder(initiated[i])
    BY <1>8 DEF ReceiveCancelOrder
  <2>2. PICK c : c = initiated[i]
    OBVIOUS
  <2>3. \A d \in Cancels : d # c => cancelStates'[d] = cancelStates[d]
    BY <1>1, <2>1, <2>2 DEF CancelOrder
  <2>4. plan' = plan /\ initiated' = initiated
    BY <1>8 DEF ReceiveCancelOrder
  <2>5. Planned(plan.cancels, initiated, cancelStates')
    BY <1>1, <1>2, <2>2, <2>3, PlannedAnswered
  <2> QED
    BY <2>4, <2>5 DEF Initiation
<1>9. CASE AdapterStep
  <2>1. plan' = plan /\ initiated' = initiated
    BY <1>9 DEF AdapterStep, Adapter
  <2>2. CASE Stopped
    <3>1. cancelStates' = [d \in Cancels |-> IF d = cancelContext THEN "FINISHED" ELSE cancelStates[d]]
      BY <2>2 DEF Stopped
    <3>2. CASE cancelContext = None
      <4>1. cancelStates' = cancelStates
        BY <1>1, <3>1, <3>2
      <4> QED
        BY <1>3, <2>1, <4>1
    <3>3. CASE cancelContext # None
      <4>1. cancelStates[cancelContext] # "UNSENT"
        BY <1>1, <3>3 DEF CancelTie
      <4>2. Planned(plan.cancels, initiated, cancelStates')
        BY <1>1, <1>2, <3>1, <4>1, PlannedAnswered
      <4> QED
        BY <2>1, <4>2 DEF Initiation
    <3> QED
      BY <3>2, <3>3
  <2>3. CASE ~ Stopped
    <3>1. cancelStates' = cancelStates
      BY <1>9, <2>3 DEF AdapterStep, Adapter, StartAction, EndAction, EdgeTraversed, DrivingToNextNode,
         StartPause, StopPause, masterVars
    <3> QED
      BY <1>3, <2>1, <3>1
  <2> QED
    BY <2>2, <2>3
<1>10. CASE ReportAgvError \/ UNCHANGED allVars
  BY <1>3, <1>10 DEF ReportAgvError, allVars, systemVars, vars, masterVars
<1> QED
  BY <1>4, <1>5, <1>6, <1>7, <1>8, <1>9, <1>10 DEF SystemNext

-----------------------------------------------------------------------------
(* Canceled orders *)

Told(o, e) == outcomes[o] # << >> /\ outcomes[o][1] = e

(* While the order that was canceled has a cache, the cancelOrder action   *)
(* has one, and nothing else is executed when it has finished.             *)
Cancelation ==
  /\ \A o \in canceled : Current(o) /\ o \in registered => IsOrderCanceling({"RUNNING", "FINISHED"})
  /\ IsOrderCanceling({"RUNNING", "FINISHED"}) => \E o \in canceled : Current(o)
  /\ IsOrderCanceling({"FINISHED"}) => ~ upToDate /\ ~ hasActiveOrder
  /\ \A o \in Orders : Current(o) /\ Told(o, "completed") => ~ hasActiveOrder

(* What is reported of cancelation is true.                                *)
CancelTruth ==
  \A o \in Orders : /\ Told(o, "completed") => o \notin canceled
                    /\ Told(o, "canceled") => o \in canceled

CancelFacts == Initiation /\ Cancelation /\ CancelTruth

(* The order that is canceled remains the same.                            *)
LEMMA CancelationKept ==
  ASSUME Cancelation, CancelTruth, CanceledArrived,
         UNCHANGED <<currentOrder, cancelStates, canceled, outcomes, initiated>>,
         upToDate' => upToDate, hasActiveOrder' => hasActiveOrder,
         \A o \in registered' : o \in inbox \/ o \in registered
  PROVE  Cancelation' /\ CancelTruth'
<1>1. \A S : IsOrderCanceling(S)' <=> IsOrderCanceling(S)
  BY DEF IsOrderCanceling
<1>2. \A o : (Current(o)' <=> Current(o)) /\ \A e : Told(o, e)' <=> Told(o, e)
  BY DEF Current, Told
<1>3. canceled' = canceled /\ \A o \in canceled : o \in registered' => o \in registered
  BY DEF CanceledArrived
<1>4. Cancelation'
  BY <1>1, <1>2, <1>3 DEF Cancelation
<1>5. CancelTruth'
  BY <1>2, <1>3 DEF CancelTruth
<1> QED
  BY <1>4, <1>5

(* cancelOrder is sent.                                                    *)
LEMMA InitiateCancels ==
  ASSUME SystemTypes, Initiation, Cancelation, CancelTruth, InitiateCancelOrder
  PROVE  Cancelation' /\ CancelTruth'
<1>1. /\ plan.cancels # << >> /\ initiated = << >> /\ initiated' = <<Head(plan.cancels)>>
      /\ UNCHANGED <<canceled, upToDate>> /\ UNCHANGED cacheVars /\ UNCHANGED vars
  BY DEF InitiateCancelOrder
<1>2. cancelStates[Head(plan.cancels)] = "UNSENT"
  BY <1>1, PlannedNext DEF Initiation, SystemTypes
<1>3. cancelStates' = cancelStates /\ Head(initiated') = Head(plan.cancels)
  BY <1>1, VarsKept
<1>4. /\ ~ IsOrderCanceling({"RUNNING", "FINISHED"}) /\ ~ IsOrderCanceling({"RUNNING", "FINISHED"})'
      /\ ~ IsOrderCanceling({"FINISHED"})'
  BY <1>1, <1>2, <1>3 DEF IsOrderCanceling
<1>5. outcomes' = outcomes /\ registered' = registered
  BY <1>1 DEF cacheVars
<1>6. \A o : (Current(o)' <=> Current(o)) /\ \A e : Told(o, e)' <=> Told(o, e)
  BY <1>1, <1>5, VarsKept DEF Current, Told
<1>7. hasActiveOrder' <=> hasActiveOrder
  BY <1>1, VarsKept DEF hasActiveOrder
<1>8. Cancelation'
  BY <1>1, <1>4, <1>5, <1>6, <1>7 DEF Cancelation
<1>9. CancelTruth'
  BY <1>1, <1>6 DEF CancelTruth
<1> QED
  BY <1>8, <1>9

(* An order is accepted: none is being canceled.                           *)
LEMMA AcceptCancels ==
  ASSUME UniqueIdentities, MasterIInv, Reports, Initiation, Cancelation, CancelTruth, [SystemNext]_allVars,
         NEW o \in Orders, ReceiveOrder(o), ~ hasCancelingOrder,
         Identity(o) = <<currentOrder'.orderId, currentOrder'.orderUpdateId>>
  PROVE  Cancelation' /\ CancelTruth'
<1>1. SystemTypes /\ IInv /\ CancelTie /\ CanceledArrived
  BY MasterFactsAre DEF MasterIInv, AgvInv
<1>2. ReceiveAssigned /\ upToDate /\ o \in inbox
  BY ArrivesOnLine
<1>3. UNCHANGED <<cancelStates, canceled, outcomes, initiated, registered>>
  BY <1>2 DEF ReceiveAssigned, ReceiveOrder, cacheVars
<1>4. \A S : IsOrderCanceling(S)' <=> IsOrderCanceling(S)
  BY <1>3 DEF IsOrderCanceling
<1>5. ~ IsOrderCanceling({"FINISHED"})
  BY <1>2 DEF Cancelation
<1>6. ~ IsOrderCanceling({"RUNNING", "FINISHED"})
  <2> SUFFICES ASSUME IsOrderCanceling({"RUNNING", "FINISHED"}) PROVE FALSE
    OBVIOUS
  <2>1. PICK h : h = Head(initiated)
    OBVIOUS
  <2>2. initiated # << >> /\ cancelStates[h] = "RUNNING"
    BY <1>5, <2>1 DEF IsOrderCanceling
  <2>3. h \in Cancels
    BY <1>1, <2>1, <2>2 DEF SystemTypes
  <2>4. cancelContext = h
    BY <1>1, <2>2, <2>3 DEF CancelTie
  <2>5. h # None
    BY <2>3, EnvironmentAssumption
  <2> QED
    BY <2>4, <2>5 DEF hasCancelingOrder
<1>7. \A x \in Orders : Current(x)' => x = o
  BY DEF UniqueIdentities, Current
<1>8. o \notin canceled /\ canceled \subseteq Orders
  BY <1>1, <1>2 DEF CanceledArrived
<1>9. outcomes[o] = << >>
  BY <1>2 DEF Reports, ReportOK
<1>10. \A x, e : Told(x, e)' <=> Told(x, e)
  BY <1>3 DEF Told
<1>11. Cancelation'
  <2>1. \A x \in canceled : ~ Current(x)'
    BY <1>7, <1>8
  <2>2. \A x \in Orders : Current(x)' => ~ Told(x, "completed")'
    BY <1>7, <1>9, <1>10 DEF Told
  <2>3. ~ IsOrderCanceling({"RUNNING", "FINISHED"})' /\ ~ IsOrderCanceling({"FINISHED"})'
    BY <1>4, <1>5, <1>6
  <2> QED
    BY <1>3, <2>1, <2>2, <2>3 DEF Cancelation
<1>12. CancelTruth'
  BY <1>3, <1>10 DEF CancelTruth
<1> QED
  BY <1>11, <1>12

(* cancelOrder is received.                                                *)
LEMMA ReceiveCancels ==
  ASSUME UniqueIdentities, MasterIInv, Initiation, Cancelation, CancelTruth, ReceiveCancelOrder
  PROVE  Cancelation' /\ CancelTruth'
<1>1. SystemTypes /\ IInv /\ CancelTie
  BY MasterFactsAre DEF MasterIInv, AgvInv
<1>2. PICK i \in DOMAIN initiated : CancelOrder(initiated[i])
  BY DEF ReceiveCancelOrder
<1>3. PICK c : c = initiated[i]
  OBVIOUS
<1>4. c \in Cancels /\ initiated # << >> /\ Head(initiated) = c
  <2>1. Len(initiated) <= 1 /\ initiated \in Seq(Cancels)
    BY <1>1 DEF Initiation, Planned, SystemTypes
  <2>2. i = 1
    BY <1>2, <2>1
  <2> QED
    BY <1>2, <1>3, <2>1, <2>2
<1>5. CancelOrder(c) /\ cancelStates[c] = "UNSENT"
  BY <1>2, <1>3 DEF CancelOrder
<1>6. cancelStates \in [Cancels -> CancelStatus] /\ cancelContext \in Cancels \cup {None} /\ None \notin Cancels
  BY <1>1, EnvironmentAssumption DEF IInv, TypeOK, CancelStatus
<1>7. ~ IsOrderCanceling({"RUNNING", "FINISHED"})
  BY <1>4, <1>5 DEF IsOrderCanceling
<1>8. /\ UNCHANGED <<caches, registered, outcomes, initiated>> /\ upToDate' = FALSE
      /\ canceled' = IF cancelContext' # cancelContext THEN canceled \cup CurrentCaches(Orders) ELSE canceled
  BY DEF ReceiveCancelOrder, cacheVars
<1>9. currentOrder' = currentOrder
  BY <1>5 DEF CancelOrder
<1>10. \A o : (Current(o)' <=> Current(o)) /\ \A e : Told(o, e)' <=> Told(o, e)
  BY <1>8, <1>9 DEF Current, Told
<1>11. CASE ~ hasActiveOrder \/ hasCancelingOrder
  <2>1. /\ cancelStates' = [cancelStates EXCEPT ![c] = "REJECTED"]
        /\ UNCHANGED <<cancelContext, actionStates, nodeStates, edgeStates>>
    BY <1>5, <1>11 DEF CancelOrder
  <2>2. canceled' = canceled /\ cancelStates'[c] = "REJECTED"
    BY <1>4, <1>6, <1>8, <2>1
  <2>3. hasActiveOrder' <=> hasActiveOrder
    BY <2>1 DEF hasActiveOrder
  <2>4. ~ IsOrderCanceling({"RUNNING", "FINISHED"})' /\ ~ IsOrderCanceling({"FINISHED"})'
    BY <1>4, <1>8, <2>2 DEF IsOrderCanceling
  <2>5. Cancelation'
    BY <1>7, <1>8, <1>10, <2>2, <2>3, <2>4 DEF Cancelation
  <2>6. CancelTruth'
    BY <1>10, <2>2 DEF CancelTruth
  <2> QED
    BY <2>5, <2>6
<1>12. CASE hasActiveOrder /\ ~ hasCancelingOrder
  <2>1. cancelStates' = [cancelStates EXCEPT ![c] = "RUNNING"] /\ cancelContext' = c
    BY <1>5, <1>12 DEF CancelOrder
  <2>2. cancelStates'[c] = "RUNNING" /\ cancelContext' # cancelContext
    BY <1>4, <1>6, <1>12, <2>1 DEF hasCancelingOrder
  <2>3. canceled' = canceled \cup CurrentCaches(Orders)
    BY <1>8, <2>2
  <2>4. IsOrderCanceling({"RUNNING", "FINISHED"})' /\ ~ IsOrderCanceling({"FINISHED"})'
    BY <1>4, <1>8, <2>2 DEF IsOrderCanceling
  <2>5. PICK o \in Orders : Current(o)
    BY <1>12, ActiveKnown
  <2>6. o \in CurrentCaches(Orders) /\ \A x \in CurrentCaches(Orders) : x \in Orders /\ Current(x)
    BY <2>5 DEF CurrentCaches, Current
  <2>7. \A x \in Orders : Current(x) => ~ Told(x, "completed")
    BY <1>12 DEF Cancelation
  <2>8. Cancelation'
    <3>1. o \in canceled' /\ Current(o)'
      BY <1>10, <2>3, <2>5, <2>6
    <3>2. \A x \in Orders : ~ (Current(x)' /\ Told(x, "completed")')
      BY <1>10, <2>7
    <3> QED
      BY <2>4, <3>1, <3>2 DEF Cancelation
  <2>9. CancelTruth'
    BY <1>10, <2>3, <2>6, <2>7 DEF CancelTruth
  <2> QED
    BY <2>8, <2>9
<1> QED
  BY <1>11, <1>12

(* The AGV has stopped.                                                    *)
LEMMA StopCancels ==
  ASSUME MasterIInv, Cancelation, CancelTruth, Adapter(Stopped)
  PROVE  Cancelation' /\ CancelTruth'
<1>1. SystemTypes /\ IInv /\ CancelTie
  BY MasterFactsAre DEF MasterIInv, AgvInv
<1>2. /\ Stopped /\ upToDate' = FALSE
      /\ UNCHANGED <<caches, registered, outcomes, initiated, canceled>>
  BY DEF Adapter, cacheVars
<1>3. currentOrder' = currentOrder
  BY <1>2 DEF Stopped
<1>4. hasCancelingOrder /\ ~ hasActiveOrder'
  BY <1>1, <1>2, StoppedInactive
<1>5. \A o : (Current(o)' <=> Current(o)) /\ \A e : Told(o, e)' <=> Told(o, e)
  BY <1>2, <1>3 DEF Current, Told
<1>6. /\ cancelContext \in Cancels
      /\ cancelStates' = [d \in Cancels |-> IF d = cancelContext THEN "FINISHED" ELSE cancelStates[d]]
  BY <1>1, <1>2, <1>4 DEF Stopped, IInv, TypeOK, hasCancelingOrder
<1>7. cancelStates[cancelContext] = "RUNNING"
  BY <1>1, <1>6 DEF CancelTie
<1>8. IsOrderCanceling({"RUNNING", "FINISHED"})' <=> IsOrderCanceling({"RUNNING", "FINISHED"})
  <2>1. CASE initiated = << >>
    BY <1>2, <2>1 DEF IsOrderCanceling
  <2>2. CASE initiated # << >>
    <3>1. PICK h : h = Head(initiated)
      OBVIOUS
    <3>2. h \in Cancels /\ initiated' = initiated
      BY <1>1, <1>2, <2>2, <3>1 DEF SystemTypes
    <3>3. cancelStates'[h] \in {"RUNNING", "FINISHED"} <=> cancelStates[h] \in {"RUNNING", "FINISHED"}
      BY <1>6, <1>7, <3>2
    <3> QED
      BY <2>2, <3>1, <3>2, <3>3 DEF IsOrderCanceling
  <2> QED
    BY <2>1, <2>2
<1>9. Cancelation'
  BY <1>2, <1>4, <1>5, <1>8 DEF Cancelation
<1>10. CancelTruth'
  BY <1>2, <1>5 DEF CancelTruth
<1> QED
  BY <1>9, <1>10

-----------------------------------------------------------------------------
(* Reports of cancelation *)

(* What is reported when the order that is current has been processed.     *)
Announces(o, e, result) ==
  /\ Current(o) /\ o \in registered
  /\ result \in {"completed", "active"} /\ e = ByCancelation(result)
  /\ result = "completed" <=> ~ hasActiveOrder

LEMMA DispatchTells ==
  ASSUME UniqueIdentities, MasterIInv, Reports, DispatchState,
         NEW o \in Orders, NEW e, e # "rejected", Told(o, e)'
  PROVE  Told(o, e) \/ \E result : Announces(o, e, result)
<1>1. MasterFacts /\ LineInv
  BY DEF MasterIInv
<1>2. outcomes'[o] # << >> /\ outcomes'[o][1] = e
  BY DEF Told
<1>3. ASSUME outcomes'[o] = Rejections[o]
      PROVE  Told(o, e)
  <2>1. Rejections[o] = outcomes[o]
    BY <1>1, <1>2, <1>3, RejectedOnce
  <2> QED
    BY <1>2, <1>3, <2>1 DEF Told
<1>4. PICK kept : kept = registered \ RejectedOrders
  OBVIOUS
<1>5. PICK g, rk, t : /\ Left(kept, g, rk, t)
                      /\ t # None => \E c, d, result : Telling(kept, g, rk, t, c, d, result)
  BY <1>1, <1>4, DispatchCases
<1>6. CASE t = None
  <2>1. CurrentCaches(kept) = {}
    BY <1>1, <1>5, <1>6, CurrentLeft
  <2>2. outcomes' = Rejections
    BY <1>4, <2>1 DEF DispatchState, Rejections
  <2> QED
    BY <1>3, <2>2
<1>7. CASE t # None
  <2>1. PICK c, d, result : Telling(kept, g, rk, t, c, d, result)
    BY <1>5, <1>7
  <2>2. ReportsAre(t, d, result)
    BY <1>1, <1>4, <2>1, TellingReports
  <2>3. CASE o # t
    BY <1>3, <2>2, <2>3 DEF ReportsAre
  <2>4. CASE o = t /\ ~ Invokes(d, result)
    <3>1. outcomes'[o] = outcomes[o]
      BY <2>2, <2>4 DEF ReportsAre
    <3> QED
      BY <1>2, <3>1 DEF Told
  <2>5. CASE o = t /\ Invokes(d, result)
    <3>1. /\ Current(o) /\ o \in registered /\ result \in {"no", "completed", "active"}
          /\ result = "completed" <=> ~ hasActiveOrder
      BY <1>1, <2>1, <2>5, TellingFacts
    <3>2. result # "no" /\ ~ d.processed /\ d.processed = caches[o].processed
      BY <2>1, <2>5 DEF Invokes, Telling, Tells
    <3>3. outcomes[o] = << >>
      BY <3>1, <3>2 DEF Reports, ReportOK
    <3>4. outcomes'[o] = Append(<< >>, ByCancelation(result))
      BY <2>2, <2>5, <3>3 DEF ReportsAre
    <3>5. PICK b : b = ByCancelation(result)
      OBVIOUS
    <3>6. e = b
      BY <1>2, <3>4, <3>5
    <3> QED
      BY <3>1, <3>2, <3>5, <3>6 DEF Announces
  <2> QED
    BY <2>3, <2>4, <2>5
<1> QED
  BY <1>6, <1>7

(* While an order is being canceled, it is active.                         *)
LEMMA RunningActive ==
  ASSUME SystemTypes, IInv, CancelTie, CancelsAhead, IsOrderCanceling({"RUNNING"})
  PROVE  hasActiveOrder
<1>1. PICK h : h = Head(initiated)
  OBVIOUS
<1>2. initiated # << >> /\ cancelStates[h] = "RUNNING"
  BY <1>1 DEF IsOrderCanceling
<1>3. h \in Cancels
  BY <1>1, <1>2 DEF SystemTypes
<1>4. cancelContext = h /\ h # None
  BY <1>2, <1>3, EnvironmentAssumption DEF CancelTie
<1>5. nodeStates # {}
  BY <1>4 DEF hasCancelingOrder, CancelsAhead
<1> QED
  BY <1>5 DEF hasActiveOrder

LEMMA DispatchCancels ==
  ASSUME UniqueIdentities, MasterIInv, MasterIInv', Reports, Initiation,
         Cancelation, CancelTruth, CancelsAhead, DispatchState
  PROVE  Cancelation' /\ CancelTruth'
<1>1. MasterFacts /\ SystemTypes /\ IInv /\ CancelTie
  BY MasterFactsAre DEF MasterIInv, AgvInv
<1>2. /\ UNCHANGED vars /\ \A x : Current(x)' <=> Current(x)
      /\ hasActiveOrder' <=> hasActiveOrder
  BY <1>1, DispatchKeeps
<1>3. upToDate' = TRUE /\ canceled' = canceled
  BY DEF DispatchState
<1>4. ActiveOK'
  BY DEF MasterIInv, MasterFacts
<1>5. registered' \subseteq registered
  BY <1>1, DispatchKeeps DEF DispatchState, DispatchOrderState
<1>6. cancelStates' = cancelStates
  BY <1>2, VarsKept
<1>7. PICK S : S = {c \in Cancels : cancelStates[c] \in {"UNSENT", "RUNNING"}}
  OBVIOUS
<1>8. /\ initiated' = << >> \/ (initiated' = initiated /\ Head(initiated) \in S)
      /\ initiated # << >> /\ Head(initiated) \in S => initiated' = initiated
  <2>1. PICK q : q = initiated'
    OBVIOUS
  <2>2. q = Kept(initiated, S)
    BY <1>7, <2>1 DEF DispatchState
  <2>3. initiated \in Seq(Cancels) /\ Len(initiated) <= 1
    BY <1>1 DEF SystemTypes, Initiation, Planned
  <2> QED
    BY <2>1, <2>2, <2>3, KeptOne
<1>9. ~ IsOrderCanceling({"FINISHED"})'
  BY <1>6, <1>7, <1>8 DEF IsOrderCanceling
<1>10. IsOrderCanceling({"RUNNING", "FINISHED"})' => IsOrderCanceling({"RUNNING", "FINISHED"})
  BY <1>6, <1>8 DEF IsOrderCanceling
<1>11. ASSUME NEW o \in canceled, Current(o), o \in registered'
       PROVE  IsOrderCanceling({"RUNNING", "FINISHED"})'
  <2>1. o \in registered /\ o \in Orders
    BY <1>1, <1>5, <1>11, MasterFactsAre DEF CanceledArrived
  <2>2. hasActiveOrder
    BY <1>2, <1>3, <1>4, <1>11, <2>1 DEF ActiveOK
  <2>3. IsOrderCanceling({"RUNNING", "FINISHED"}) /\ ~ IsOrderCanceling({"FINISHED"})
    BY <1>11, <2>1, <2>2 DEF Cancelation
  <2>4. initiated # << >> /\ Head(initiated) \in Cancels
    BY <1>1, <2>3 DEF SystemTypes, IsOrderCanceling
  <2>5. cancelStates[Head(initiated)] = "RUNNING"
    BY <2>3 DEF IsOrderCanceling
  <2>6. initiated' = initiated
    BY <1>7, <1>8, <2>4, <2>5
  <2> QED
    BY <1>6, <2>3, <2>6 DEF IsOrderCanceling
<1>12. ASSUME NEW o \in Orders, Told(o, "completed")'
       PROVE  Told(o, "completed") \/ (Current(o) /\ o \in registered /\ ~ hasActiveOrder /\ ~ IsOrderCanceling({"FINISHED"}))
  <2>1. CASE Told(o, "completed")
    BY <2>1
  <2>2. CASE \E result : Announces(o, "completed", result)
    BY <2>2 DEF Announces, ByCancelation
  <2> QED
    BY <1>12, <2>1, <2>2, DispatchTells
<1>13. ASSUME NEW o \in Orders, Told(o, "canceled")'
       PROVE  Told(o, "canceled") \/ (Current(o) /\ IsOrderCanceling({"FINISHED"}))
  <2>1. CASE Told(o, "canceled")
    BY <2>1
  <2>2. CASE \E result : Announces(o, "canceled", result)
    BY <2>2 DEF Announces, ByCancelation
  <2> QED
    BY <1>13, <2>1, <2>2, DispatchTells
<1>14. Cancelation'
  <2>1. \A o \in Orders : Current(o)' /\ Told(o, "completed")' => ~ hasActiveOrder'
    BY <1>2, <1>12 DEF Cancelation
  <2>2. IsOrderCanceling({"RUNNING", "FINISHED"})' => \E o \in canceled : Current(o)
    BY <1>10 DEF Cancelation
  <2> QED
    BY <1>2, <1>3, <1>9, <1>11, <2>1, <2>2 DEF Cancelation
<1>15. CancelTruth'
  <2>1. ASSUME NEW o \in Orders, Told(o, "completed")', o \in canceled
        PROVE  FALSE
    <3>1. Current(o) /\ o \in registered /\ ~ hasActiveOrder /\ ~ IsOrderCanceling({"FINISHED"})
      BY <1>12, <2>1 DEF CancelTruth
    <3>2. IsOrderCanceling({"RUNNING", "FINISHED"})
      BY <2>1, <3>1 DEF Cancelation
    <3>3. IsOrderCanceling({"RUNNING"})
      BY <3>1, <3>2 DEF IsOrderCanceling
    <3> QED
      BY <1>1, <3>1, <3>3, RunningActive
  <2>2. ASSUME NEW o \in Orders, Told(o, "canceled")'
        PROVE  o \in canceled
    <3>1. CASE Told(o, "canceled")
      BY <3>1 DEF CancelTruth
    <3>2. CASE Current(o) /\ IsOrderCanceling({"FINISHED"})
      <4>1. IsOrderCanceling({"RUNNING", "FINISHED"})
        BY <3>2 DEF IsOrderCanceling
      <4>2. PICK x \in canceled : Current(x)
        BY <4>1 DEF Cancelation
      <4>3. x \in Orders
        BY <1>1, MasterFactsAre DEF CanceledArrived
      <4>4. x = o
        BY <3>2, <4>2, <4>3 DEF UniqueIdentities, Current
      <4> QED
        BY <4>2, <4>4
    <3> QED
      BY <1>13, <2>2, <3>1, <3>2
  <2> QED
    BY <1>3, <2>1, <2>2 DEF CancelTruth
<1> QED
  BY <1>14, <1>15

(* Only these steps change what is canceled.                               *)
LEMMA OthersUncanceled ==
  ASSUME [SystemNext]_allVars,
         ~ DispatchState, ~ InitiateCancelOrder, ~ ReceiveCancelOrder, ~ Adapter(Stopped)
  PROVE  UNCHANGED <<cancelStates, canceled, initiated>> /\ (upToDate' => upToDate)
<1>1. CASE AssignOrder
  BY <1>1, VarsKept DEF AssignOrder
<1>2. CASE PublishFails
  BY <1>2, VarsKept DEF PublishFails
<1>3. CASE ReceiveAssigned
  <2>1. PICK o : o = Head(orderTopic)
    OBVIOUS
  <2>2. ReceiveOrder(o) /\ UNCHANGED <<canceled, initiated>> /\ upToDate' = FALSE
    BY <1>3, <2>1 DEF ReceiveAssigned
  <2>3. cancelStates' = cancelStates
    BY <2>2, ZenonT(30) DEF ReceiveOrder
  <2> QED
    BY <2>2, <2>3
<1>4. CASE Adapter(\E c \in scheduled : StartAction(c))
  BY <1>4 DEF Adapter, StartAction, masterVars
<1>5. CASE Adapter(\E c \in scheduled : EndAction(c))
  BY <1>5 DEF Adapter, EndAction, masterVars
<1>6. CASE Adapter(\E i \in DOMAIN traversing : EdgeTraversed(i))
  BY <1>6 DEF Adapter, EdgeTraversed, masterVars
<1>7. CASE Adapter(DrivingToNextNode)
  BY <1>7 DEF Adapter, DrivingToNextNode, masterVars
<1>8. CASE Adapter(StartPause)
  BY <1>8 DEF Adapter, StartPause
<1>9. CASE Adapter(StopPause)
  BY <1>9 DEF Adapter, StopPause, masterVars
<1>10. CASE ReportAgvError
  BY <1>10, VarsKept DEF ReportAgvError
<1>11. CASE UNCHANGED allVars
  BY <1>11, VarsKept DEF allVars, systemVars
<1> QED
  BY <1>1, <1>2, <1>3, <1>4, <1>5, <1>6, <1>7, <1>8, <1>9, <1>10, <1>11 DEF SystemNext, AdapterStep

LEMMA CancelFactsStep ==
  ASSUME PromptCancelation, UniqueIdentities, MasterIInv, MasterIInv', Reports, Initiation,
         Cancelation, CancelTruth, CancelsAhead, [SystemNext]_allVars
  PROVE  Cancelation' /\ CancelTruth'
<1>1. MasterFacts /\ LineInv /\ SystemTypes /\ IInv /\ CanceledArrived /\ [Next]_vars
  BY MasterFactsAre, SystemStep DEF MasterIInv
<1>2. CASE Replaces \/ Extends
  <2>1. PICK o \in Orders : ReceiveOrder(o) /\ (ReplaceOrder(o) \/ StitchOrder(o))
    BY <1>2 DEF Replaces, Extends
  <2>2. ASSUME ReplaceOrder(o)
        PROVE  ~ hasCancelingOrder /\ Identity(o) = <<currentOrder'.orderId, currentOrder'.orderUpdateId>>
    BY <2>2 DEF ReplaceOrder, Identity
  <2>3. ASSUME StitchOrder(o)
        PROVE  ~ hasCancelingOrder /\ Identity(o) = <<currentOrder'.orderId, currentOrder'.orderUpdateId>>
    BY <2>3 DEF StitchOrder, Identity
  <2> QED
    BY <2>1, <2>2, <2>3, AcceptCancels
<1>3. CASE ~ Replaces /\ ~ Extends
  <2>1. currentOrder' = currentOrder /\ (hasActiveOrder' => hasActiveOrder)
    BY <1>1, <1>3, OrderKept, StaysInactive
  <2>2. CASE DispatchState
    BY <2>2, DispatchCancels
  <2>3. CASE InitiateCancelOrder
    BY <1>1, <2>3, InitiateCancels
  <2>4. CASE ReceiveCancelOrder
    BY <2>4, ReceiveCancels
  <2>5. CASE Adapter(Stopped)
    BY <2>5, StopCancels
  <2>6. CASE ~ DispatchState /\ ~ InitiateCancelOrder /\ ~ ReceiveCancelOrder /\ ~ Adapter(Stopped)
    <3>1. UNCHANGED <<cancelStates, canceled, initiated>> /\ (upToDate' => upToDate)
      BY <2>6, OthersUncanceled
    <3>2. Unreported
      BY <1>1, <2>6, OthersUnreported
    <3>3. outcomes' = outcomes /\ \A o \in registered' : o \in inbox \/ o \in registered
      BY <3>2 DEF Unreported
    <3> QED
      BY <1>1, <2>1, <3>1, <3>3, CancelationKept
  <2> QED
    BY <2>2, <2>3, <2>4, <2>5, <2>6
<1> QED
  BY <1>2, <1>3

-----------------------------------------------------------------------------
(* Reports *)

(***************************************************************************)
(* Master control cancels orders that have no actions on their last node:  *)
(* such an order is over when the node is reached, one with actions there  *)
(* may still be canceled when only an action is left of it, and            *)
(* _isOrderProcessed no longer asks about cancelation.                     *)
(***************************************************************************)
CanceledWithoutEndActions ==
  \A p \in Plans : p.cancels # << >> =>
    \A i \in DOMAIN p.orders : Msg[p.orders[i]].actions[Msg[p.orders[i]].last] = << >>

(* Each cancelOrder action has an actionId of its own.                     *)
UniqueCancels ==
  \A p \in Plans : \A i, j \in DOMAIN p.cancels : p.cancels[i] = p.cancels[j] => i = j

(* What makes the reports of cancelation true.                             *)
CanceledFacts == CourseInv /\ CancelRoute /\ CancelsAhead /\ QuietEnds /\ EndsEmpty

ReportIInv == MasterIInv /\ CanceledFacts /\ Reports /\ CancelFacts

LEMMA ReportInit ==
  ASSUME ErrorsRefer, CanceledWithoutHorizon, CanceledWithoutEndActions, UniqueCancels, SystemInit
  PROVE  ReportIInv
<1>1. MasterIInv /\ SystemTypes
  BY MasterInit, MasterFactsAre DEF MasterIInv
<1>2. /\ Init /\ plan \in Plans /\ DOMAIN caches = {} /\ initiated = << >> /\ canceled = {}
      /\ registered = {} /\ outcomes = [o \in Orders |-> << >>]
  BY DEF SystemInit
<1>3. /\ currentOrder = NoOrder /\ rejections = {} /\ cancelContext = None /\ ~ hasActiveOrder
      /\ \A c \in Cancels : cancelStates[c] = "UNSENT"
  BY <1>2 DEF Init, hasActiveOrder
<1>4. CourseInv
  <2>1. currentOrder.orderId = None /\ BaseRange(currentOrder) = {}
    BY <1>3 DEF NoOrder, BaseRange
  <2>2. scheduled = {}
    BY <1>2 DEF Init
  <2> QED
    BY <1>3, <2>1, <2>2 DEF CourseInv, Linked, Origin, SettledNow, Settled, OnwardNow
<1>5. CancelRoute /\ CancelsAhead
  BY <1>3 DEF CancelRoute, CancelsAhead, hasCancelingOrder
<1>6. QuietEnds
  <2> SUFFICES ASSUME MayCancel, NEW o \in Orders, Known(o)
               PROVE  Msg[o].actions[Msg[o].last] = << >>
    BY DEF QuietEnds
  <2>1. plan.cancels # << >>
    BY <1>2, <1>3 DEF MayCancel, NotCanceled
  <2>2. PICK i \in DOMAIN plan.orders : plan.orders[i] = o
    BY <1>2 DEF Known
  <2> QED
    BY <1>2, <2>1, <2>2 DEF CanceledWithoutEndActions
<1>7. EndsEmpty
  BY <1>3 DEF EndsEmpty, NoOrder
<1>8. Reports
  <2>1. \A o \in Orders : outcomes[o] = << >>
    BY <1>2
  <2> QED
    BY <1>3, <2>1 DEF Reports, ReportOK
<1>9. Initiation
  <2>1. plan.cancels \in Seq(Cancels)
    BY <1>1 DEF SystemTypes
  <2>2. \A i \in DOMAIN plan.cancels : plan.cancels[i] \in Cancels
    BY <2>1
  <2>3. \A i, j \in DOMAIN plan.cancels : plan.cancels[i] = plan.cancels[j] => i = j
    BY <1>2 DEF UniqueCancels
  <2>4. Len(initiated) <= 1 /\ DOMAIN initiated = {}
    BY <1>2
  <2> QED
    BY <1>3, <2>2, <2>3, <2>4 DEF Initiation, Planned
<1>10. Cancelation /\ CancelTruth
  <2>1. \A o \in Orders : \A e : ~ Told(o, e)
    BY <1>2 DEF Told
  <2>2. \A S : ~ IsOrderCanceling(S)
    BY <1>2 DEF IsOrderCanceling
  <2> QED
    BY <1>2, <2>1, <2>2 DEF Cancelation, CancelTruth
<1> QED
  BY <1>1, <1>4, <1>5, <1>6, <1>7, <1>8, <1>9, <1>10 DEF ReportIInv, CanceledFacts, CancelFacts

LEMMA ReportStep ==
  ASSUME NoneActionsAlone, PromptCancelation, StitchesWithoutActions, UniqueIdentities,
         ReportIInv, [SystemNext]_allVars
  PROVE  ReportIInv'
<1>1. MasterIInv /\ CourseInv /\ CancelRoute /\ CancelsAhead /\ QuietEnds /\ EndsEmpty /\ Reports
      /\ Initiation /\ Cancelation /\ CancelTruth
  BY DEF ReportIInv, CanceledFacts, CancelFacts
<1>2. MasterIInv'
  BY <1>1, MasterStep
<1>3. SystemTypes /\ IInv /\ CancelTie /\ [Next]_vars
  BY <1>1, MasterFactsAre, SystemStep DEF MasterIInv, AgvInv
<1>4. IInv'
  BY <1>3, NextInv
<1>5. CourseInv' /\ CancelRoute' /\ CancelsAhead'
  BY <1>1, <1>3, <1>4, NextCourse, NextCancelRoute, CancelsAheadStep
<1>6. QuietEnds' /\ EndsEmpty'
  BY <1>1, <1>3, QuietEndsKept, EndsEmptyKept
<1>7. Reports' /\ Initiation'
  BY <1>1, <1>3, ReportsStep, InitiationKept
<1>8. Cancelation' /\ CancelTruth'
  BY <1>1, <1>2, CancelFactsStep
<1> QED
  BY <1>2, <1>5, <1>6, <1>7, <1>8 DEF ReportIInv, CanceledFacts, CancelFacts

LEMMA OnceReported ==
  ASSUME ReportIInv
  PROVE  ReportedOnce
<1> SUFFICES ASSUME NEW o \in Orders
             PROVE  /\ Len(outcomes[o]) <= 1
                    /\ \A i \in DOMAIN outcomes[o] :
                         /\ outcomes[o][i] = "completed" => o \notin canceled
                         /\ outcomes[o][i] = "canceled" => o \in canceled
  BY DEF ReportedOnce
<1>1. SystemTypes /\ Reports /\ CancelTruth
  BY MasterFactsAre DEF ReportIInv, MasterIInv, CancelFacts
<1>2. PICK s : s = outcomes[o]
  OBVIOUS
<1>3. s \in Seq({"completed", "active", "canceled", "rejected"})
  BY <1>1, <1>2 DEF SystemTypes, Outcome
<1>4. CASE s = << >>
  BY <1>2, <1>4
<1>5. CASE s # << >>
  <2>1. Len(s) = 1
    BY <1>1, <1>2, <1>5 DEF Reports, ReportOK
  <2>2. DOMAIN s = {1}
    BY <1>3, <2>1
  <2>3. /\ s[1] = "completed" => o \notin canceled
        /\ s[1] = "canceled" => o \in canceled
    BY <1>1, <1>2, <1>5 DEF CancelTruth, Told
  <2> QED
    BY <1>2, <2>1, <2>2, <2>3
<1> QED
  BY <1>4, <1>5

(***************************************************************************)
(* onOrderProcessed is invoked at most once for an order, however many     *)
(* States of it are dispatched, before and after it is processed,          *)
(* rejected, stitched or canceled, and `byCancelation` is true: an order   *)
(* that cancelOrder was executed for is never reported as completed, and   *)
(* no other one as canceled.                                               *)
(***************************************************************************)
THEOREM ReportedOnceHolds ==
  ASSUME NoneActionsAlone, PromptCancelation, StitchesWithoutActions, UniqueIdentities, ErrorsRefer,
         CanceledWithoutHorizon, CanceledWithoutEndActions, UniqueCancels
  PROVE  System => []ReportedOnce
<1>1. SystemInit => ReportIInv
  BY ReportInit
<1>2. ReportIInv /\ [SystemNext]_allVars => ReportIInv'
  BY ReportStep
<1>3. ReportIInv => ReportedOnce
  BY OnceReported
<1> QED
  BY <1>1, <1>2, <1>3, PTL DEF System
=============================================================================
