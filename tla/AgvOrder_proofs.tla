-------------------------- MODULE AgvOrder_proofs --------------------------
EXTENDS AgvOrderRefinement, WellFoundedInduction, TLAPS

-----------------------------------------------------------------------------
(* Facts about the constants *)

LEMMA Parity ==
  \A s \in Int : /\ IsNode(s) => ~ IsNode(s + 1)
                 /\ ~ IsNode(s) => IsNode(s + 1)
BY DEF IsNode

LEMMA MessageFacts ==
  ASSUME NEW o \in Orders
  PROVE  /\ Msg[o].orderId \in OrderId /\ Msg[o].orderUpdateId \in Nat
         /\ Msg[o].first \in Nat /\ Msg[o].base \in Nat /\ Msg[o].last \in Nat
         /\ IsNode(Msg[o].first) /\ IsNode(Msg[o].base) /\ IsNode(Msg[o].last)
         /\ Msg[o].first <= Msg[o].base /\ Msg[o].base <= Msg[o].last
         /\ Msg[o].actions \in [Msg[o].first .. Msg[o].last -> Seq(Action)]
BY OrdersAssumption DEF OrderMessage

LEMMA ListedFacts ==
  ASSUME NEW o \in Orders, NEW s \in Msg[o].first .. Msg[o].base,
         NEW i \in DOMAIN Msg[o].actions[s]
  PROVE  <<o, s, i>> \in Listed
<1>1. <<o, s, i>> \in {<<o, s, j>> : j \in DOMAIN Msg[o].actions[s]}
  OBVIOUS
<1>2. <<o, s, i>> \in UNION {{<<o, t, j>> : j \in DOMAIN Msg[o].actions[t]} :
                               t \in Msg[o].first .. Msg[o].base}
  BY <1>1
<1> QED
  BY <1>2 DEF Listed

(* actionIds are unique: equal actions are listed at the same place.       *)
LEMMA UniqueListed ==
  ASSUME NEW o \in Orders, NEW s \in Msg[o].first .. Msg[o].base,
         NEW i \in DOMAIN Msg[o].actions[s],
         NEW p \in Orders, NEW t \in Msg[p].first .. Msg[p].base,
         NEW j \in DOMAIN Msg[p].actions[t],
         Msg[o].actions[s][i] = Msg[p].actions[t][j]
  PROVE  o = p /\ s = t /\ i = j
<1> DEFINE x == <<o, s, i>>
           y == <<p, t, j>>
<1>1. x \in Listed /\ y \in Listed
  BY ListedFacts
<1>2. Msg[x[1]].actions[x[2]][x[3]] = Msg[y[1]].actions[y[2]][y[3]]
  OBVIOUS
<1>3. x = y
  BY <1>1, <1>2, OrdersAssumption
<1> QED
  BY <1>3

LEMMA MessageActionsFacts ==
  ASSUME NEW o \in Orders, NEW a
  PROVE  a \in MessageActions(o) <=>
           \E s \in Msg[o].first .. Msg[o].base :
             \E i \in DOMAIN Msg[o].actions[s] : a = Msg[o].actions[s][i]
BY DEF MessageActions

(* An action is listed by one message only.                                *)
LEMMA SameMessage ==
  ASSUME NEW o \in Orders, NEW q \in Orders, NEW a \in MessageActions(o), a \in MessageActions(q)
  PROVE  q = o
<1>1. PICK s \in Msg[q].first .. Msg[q].base :
        \E i \in DOMAIN Msg[q].actions[s] : a = Msg[q].actions[s][i]
  BY MessageActionsFacts
<1>2. PICK t \in Msg[o].first .. Msg[o].base :
        \E j \in DOMAIN Msg[o].actions[t] : a = Msg[o].actions[t][j]
  BY MessageActionsFacts
<1>3. PICK i \in DOMAIN Msg[q].actions[s] : a = Msg[q].actions[s][i]
  BY <1>1
<1>4. PICK j \in DOMAIN Msg[o].actions[t] : a = Msg[o].actions[t][j]
  BY <1>2
<1>5. Msg[q].actions[s][i] = Msg[o].actions[t][j]
  BY <1>3, <1>4
<1> QED
  BY <1>5, UniqueListed

-----------------------------------------------------------------------------
(* Type correctness *)

Calls == [execute : SUBSET [action : Action, place : Place], traverse : Seq(EdgePlace)]

LEMMA PlaceFacts ==
  ASSUME NEW p \in Place
  PROVE  /\ p.order \in Orders /\ p.seq \in Nat
         /\ p.seq \in Msg[p.order].first .. Msg[p.order].last
         /\ p = [order |-> p.order, seq |-> p.seq]
BY DEF Place

LEMMA ActionsType ==
  ASSUME NEW p \in Place, NEW lists, ListsOK(lists)
  PROVE  /\ ActionsOf(p, lists) \in Seq(Action)
         /\ ActionSet(p, lists) \subseteq Action
<1>1. ActionsOf(p, lists) \in Seq(Action)
  BY PlaceFacts DEF ListsOK, ActionsOf
<1> QED
  BY <1>1 DEF ActionSet

LEMMA NextToRunType ==
  ASSUME NEW acts, NEW after
  PROVE  NextToRun(acts, after) \subseteq DOMAIN acts /\ NextHard(acts, after) \subseteq DOMAIN acts
BY DEF NextToRun, Segment, NextHard

LEMMA ProcessActionsType ==
  ASSUME NEW p \in Place, NEW lists, ListsOK(lists), NEW after, NEW continuation \in Calls
  PROVE  ProcessActions(p, lists, after, continuation) \in Calls
<1> DEFINE acts == ActionsOf(p, lists)
<1>1. acts \in Seq(Action)
  BY ActionsType
<1>2. ASSUME NEW S \in SUBSET DOMAIN acts
      PROVE  [execute |-> {[action |-> acts[j], place |-> p] : j \in S}, traverse |-> << >>] \in Calls
  BY <1>1, <1>2 DEF Calls
<1> QED
  BY <1>2, NextToRunType DEF ProcessActions

LEMMA CallsType ==
  /\ NoCalls \in Calls
  /\ \A e \in EdgePlace : TraverseEdge(e) \in Calls
BY DEF NoCalls, TraverseEdge, Calls

LEMMA ProcessEdgeType ==
  ASSUME NEW n \in NodePlace, NEW ord, OrderOK(ord), NEW lists, ListsOK(lists)
  PROVE  ProcessEdge(n, ord, lists) \in Calls
<1> DEFINE s == n.seq + 1
<1>1. CASE s \in ord.first .. ord.base
  <2>1. PlaceIn(ord, s) \in Place
    BY <1>1 DEF OrderOK
  <2>2. n.seq \in Nat /\ IsNode(n.seq)
    BY DEF NodePlace, Place
  <2>3. PlaceIn(ord, s) \in EdgePlace
    BY <2>1, <2>2, Parity DEF EdgePlace, PlaceIn
  <2> QED
    BY <2>1, <2>3, CallsType, ProcessActionsType DEF ProcessEdge, ProcessEdgeActions
<1>2. CASE s \notin ord.first .. ord.base
  BY <1>2, CallsType DEF ProcessEdge
<1> QED
  BY <1>1, <1>2

LEMMA ProcessNodeActionsType ==
  ASSUME NEW n \in NodePlace, NEW ord, OrderOK(ord), NEW lists, ListsOK(lists), NEW after
  PROVE  ProcessNodeActions(n, ord, lists, after) \in Calls
BY ProcessEdgeType, ProcessActionsType DEF ProcessNodeActions, NodePlace

LEMMA ContinueAfterType ==
  ASSUME NEW c \in [action : Action, place : Place], NEW ord, OrderOK(ord),
         NEW lists, ListsOK(lists), NEW statuses
  PROVE  ContinueAfter(c, ord, lists, statuses) \in Calls
<1> DEFINE acts == ActionsOf(c.place, lists)
           i == CHOOSE j \in DOMAIN acts : acts[j] = c.action
           Continuation == IF IsNode(c.place.seq) THEN ProcessEdge(c.place, ord, lists)
                           ELSE TraverseEdge(c.place)
<1>1. c.place \in Place /\ acts \in Seq(Action)
  BY ActionsType
<1>2. Continuation \in Calls
  BY <1>1, CallsType, ProcessEdgeType DEF NodePlace, EdgePlace
<1>3. ProcessActions(c.place, lists, i, Continuation) \in Calls
  BY <1>1, <1>2, ProcessActionsType
<1>4. [execute |-> {[action |-> acts[j], place |-> c.place] : j \in NextHard(acts, i)},
       traverse |-> << >>] \in Calls
  BY <1>1, NextToRunType DEF Calls
<1> QED
  BY <1>2, <1>3, <1>4, CallsType DEF ContinueAfter

Nodes == {s \in Nat : IsNode(s)}
Edges == {s \in Nat : ~ IsNode(s)}

LEMMA InvokeType ==
  ASSUME NEW calls \in Calls, NEW statuses \in [Action -> Status],
         NEW contexts \in SUBSET [action : Action, place : Place],
         NEW edges \in Seq(EdgePlace),
         Invoke(calls, statuses, contexts, edges)
  PROVE  /\ scheduled' \subseteq [action : Action, place : Place]
         /\ traversing' \in Seq(EdgePlace)
         /\ actionStates' \in [Action -> Status]
<1>1. calls.execute \subseteq [action : Action, place : Place] /\ calls.traverse \in Seq(EdgePlace)
  BY DEF Calls
<1>2. scheduled' = contexts \cup calls.execute /\ traversing' = edges \o calls.traverse
  BY DEF Invoke
<1>3. actionStates' = [a \in Action |->
                         IF ~ env.defersStart /\ \E c \in calls.execute : c.action = a
                         THEN "ACTIVE" ELSE statuses[a]]
  BY DEF Invoke
<1> QED
  BY <1>1, <1>2, <1>3 DEF Status

LEMMA ProcessNodeType ==
  ASSUME TypeOK,
         NEW n \in NodePlace, NEW traversedEdge \in SUBSET EdgePlace,
         NEW st, OrderOK(st.order), ListsOK(st.lists),
         st.nodes \subseteq Nodes, st.edges \subseteq Edges, st.statuses \in [Action -> Status],
         st.pausedNode \in NodePlace \cup {None}, st.traversing \in Seq(EdgePlace),
         ProcessNode(n, traversedEdge, st)
  PROVE  /\ pausedNode' \in NodePlace \cup {None}
         /\ nodeStates' \subseteq Nodes
         /\ edgeStates' \subseteq Edges
         /\ lastNode' \in NodePlace \cup {None}
         /\ ending' \subseteq Action
         /\ scheduled' \subseteq [action : Action, place : Place]
         /\ traversing' \in Seq(EdgePlace)
         /\ actionStates' \in [Action -> Status]
<1>1. scheduled \in SUBSET [action : Action, place : Place] /\ ending \subseteq Action
      /\ lastNode \in NodePlace \cup {None}
  BY DEF TypeOK
<1>2. CASE st.paused
  BY <1>1, <1>2, InvokeType, CallsType DEF ProcessNode
<1>3. CASE ~ st.paused
  <2>1. ProcessNodeActions(n, st.order, st.lists, 0) \in Calls
    BY ProcessNodeActionsType
  <2>2. Invoke(ProcessNodeActions(n, st.order, st.lists, 0), st.statuses, scheduled, st.traversing)
    BY <1>3 DEF ProcessNode
  <2>3. \A e \in traversedEdge : ActionSet(e, st.lists) \subseteq Action
    BY ActionsType DEF EdgePlace
  <2>4. ending' \subseteq Action
    BY <1>1, <1>3, <2>3 DEF ProcessNode
  <2>5. /\ pausedNode' = st.pausedNode
        /\ nodeStates' = st.nodes \ {n.seq}
        /\ edgeStates' = st.edges \ {e.seq : e \in traversedEdge}
        /\ lastNode' = n
    BY <1>3 DEF ProcessNode
  <2> QED
    BY <1>1, <2>1, <2>2, <2>4, <2>5, InvokeType
<1> QED
  BY <1>2, <1>3

LEMMA EdgePlaceFacts ==
  ASSUME NEW e \in EdgePlace
  PROVE  EndNodeOf(e) \in NodePlace
<1>1. e \in Place /\ ~ IsNode(e.seq) /\ e.order \in Orders /\ e.seq \in Nat
      /\ e.seq \in Msg[e.order].first .. Msg[e.order].last
  BY PlaceFacts DEF EdgePlace
<1>2. IsNode(e.seq + 1) /\ e.seq + 1 \in Msg[e.order].first .. Msg[e.order].last
  <2>1. IsNode(e.seq + 1)
    BY <1>1, Parity
  <2>2. Msg[e.order].last \in Nat /\ Msg[e.order].first \in Nat /\ IsNode(Msg[e.order].last)
    BY <1>1, MessageFacts
  <2>3. e.seq # Msg[e.order].last
    BY <1>1, <2>2
  <2> QED
    BY <1>1, <2>1, <2>2, <2>3
<1> QED
  BY <1>1, <1>2 DEF EndNodeOf, NodePlace, Place

LEMMA RouteType ==
  ASSUME NEW from \in Nat, NEW to \in Int
  PROVE  NodesIn(from, to) \subseteq Nodes /\ EdgesIn(from, to) \subseteq Edges
BY DEF NodesIn, EdgesIn, Nodes, Edges

(* The order that replaces the current one.                                *)
Replacement(o) ==
  [orderId |-> Msg[o].orderId, orderUpdateId |-> Msg[o].orderUpdateId,
   first |-> Msg[o].first, base |-> Msg[o].base, last |-> Msg[o].last,
   at |-> [s \in Msg[o].first .. Msg[o].last |-> o]]

ReplacementStatuses(o) ==
  [a \in Action |-> IF a \in MessageActions(o) THEN "WAITING" ELSE "ABSENT"]

(* The current order after it has been stitched.                           *)
Stitched(o) ==
  [orderId |-> Msg[o].orderId, orderUpdateId |-> Msg[o].orderUpdateId,
   first |-> currentOrder.first, base |-> Msg[o].base, last |-> Msg[o].last,
   at |-> [s \in currentOrder.first .. Msg[o].last |->
             IF s <= currentOrder.base THEN currentOrder.at[s] ELSE o]]

BaseEnd == PlaceIn(currentOrder, currentOrder.base)

StitchedLists(o) ==
  [actions EXCEPT ![BaseEnd.order][BaseEnd.seq] = @ \o Msg[o].actions[Msg[o].first]]

StitchedStatuses(o) ==
  [a \in Action |-> IF a \in MessageActions(o) THEN "WAITING" ELSE actionStates[a]]

LEMMA ReplacementType ==
  ASSUME NEW o \in Orders
  PROVE  /\ OrderOK(Replacement(o))
         /\ PlaceIn(Replacement(o), Msg[o].first) \in NodePlace
         /\ ReplacementStatuses(o) \in [Action -> Status]
<1>1. \A s \in Msg[o].first .. Msg[o].last : PlaceIn(Replacement(o), s) \in Place
  BY MessageFacts DEF PlaceIn, Replacement, Place
<1>2. OrderOK(Replacement(o))
  <2>1. Replacement(o).at \in [Msg[o].first .. Msg[o].last -> Orders]
    BY DEF Replacement
  <2>2. /\ Msg[o].orderId \in OrderId /\ Msg[o].orderUpdateId \in Nat
        /\ Msg[o].first \in Nat /\ Msg[o].base \in Nat /\ Msg[o].last \in Nat
        /\ Msg[o].first <= Msg[o].base /\ Msg[o].base <= Msg[o].last
    BY MessageFacts
  <2>3. /\ Replacement(o).orderId = Msg[o].orderId
        /\ Replacement(o).orderUpdateId = Msg[o].orderUpdateId
        /\ Replacement(o).first = Msg[o].first
        /\ Replacement(o).base = Msg[o].base
        /\ Replacement(o).last = Msg[o].last
    BY DEF Replacement
  <2> QED
    BY <1>1, <2>1, <2>2, <2>3 DEF OrderOK
<1>3. PlaceIn(Replacement(o), Msg[o].first) \in NodePlace
  BY <1>1, MessageFacts DEF NodePlace, PlaceIn
<1> QED
  BY <1>2, <1>3 DEF ReplacementStatuses, Status

LEMMA StitchedType ==
  ASSUME TypeOK, NEW o \in Orders, IsOrderBaseStitching(o)
  PROVE  /\ OrderOK(Stitched(o))
         /\ ListsOK(StitchedLists(o))
         /\ StitchedStatuses(o) \in [Action -> Status]
<1>1. Msg[o].first = currentOrder.base
  BY DEF IsOrderBaseStitching
<1>2. /\ currentOrder.first \in Nat /\ currentOrder.base \in Int /\ currentOrder.last \in Int
      /\ currentOrder.base <= currentOrder.last
      /\ currentOrder.at \in [currentOrder.first .. currentOrder.last -> Orders]
      /\ \A s \in currentOrder.first .. currentOrder.last : PlaceIn(currentOrder, s) \in Place
  BY DEF TypeOK, OrderOK
<1>3. \A s \in currentOrder.first .. Msg[o].last : PlaceIn(Stitched(o), s) \in Place
  <2> SUFFICES ASSUME NEW s \in currentOrder.first .. Msg[o].last
               PROVE  PlaceIn(Stitched(o), s) \in Place
    OBVIOUS
  <2>1. CASE s <= currentOrder.base
    BY <1>2, <2>1 DEF PlaceIn, Stitched
  <2>2. CASE s > currentOrder.base
    BY <1>1, <1>2, <2>2, MessageFacts DEF PlaceIn, Stitched, Place
  <2> QED
    BY <1>2, <2>1, <2>2
<1>4. Stitched(o).at \in [currentOrder.first .. Msg[o].last -> Orders]
  BY <1>2 DEF Stitched
<1>8. currentOrder.first <= currentOrder.base
  BY DEF TypeOK, OrderOK, IsOrderBaseStitching
<1>5. OrderOK(Stitched(o))
  <2>1. /\ Stitched(o).orderId = Msg[o].orderId
        /\ Stitched(o).orderUpdateId = Msg[o].orderUpdateId
        /\ Stitched(o).first = currentOrder.first
        /\ Stitched(o).base = Msg[o].base
        /\ Stitched(o).last = Msg[o].last
    BY DEF Stitched
  <2>2. /\ Msg[o].orderId \in OrderId /\ Msg[o].orderUpdateId \in Nat
        /\ Msg[o].first \in Nat /\ Msg[o].base \in Nat /\ Msg[o].last \in Nat
        /\ Msg[o].first <= Msg[o].base /\ Msg[o].base <= Msg[o].last
    BY MessageFacts
  <2> QED
    BY <1>1, <1>2, <1>3, <1>4, <1>8, <2>1, <2>2 DEF OrderOK
<1>6. ListsOK(StitchedLists(o))
  <2>1. /\ DOMAIN actions = Orders
        /\ \A q \in Orders : actions[q] \in [Msg[q].first .. Msg[q].last -> Seq(Action)]
    BY DEF TypeOK, ListsOK
  <2>2. DOMAIN StitchedLists(o) = Orders
    BY <2>1 DEF StitchedLists
  <2>3. Msg[o].actions[Msg[o].first] \in Seq(Action)
    BY MessageFacts
  <2>4. ASSUME NEW q \in Orders
        PROVE  StitchedLists(o)[q] \in [Msg[q].first .. Msg[q].last -> Seq(Action)]
    <3>1. CASE q # BaseEnd.order
      BY <2>1, <3>1 DEF StitchedLists
    <3>2. CASE q = BaseEnd.order
      <4>1. StitchedLists(o)[q] = [actions[q] EXCEPT ![BaseEnd.seq] = @ \o Msg[o].actions[Msg[o].first]]
        BY <2>1, <3>2 DEF StitchedLists
      <4>2. ASSUME NEW s \in Msg[q].first .. Msg[q].last
            PROVE  StitchedLists(o)[q][s] \in Seq(Action)
        <5>1. actions[q][s] \in Seq(Action)
          BY <2>1
        <5>2. actions[q][s] \o Msg[o].actions[Msg[o].first] \in Seq(Action)
          BY <2>3, <5>1
        <5> QED
          BY <2>1, <4>1, <5>1, <5>2
      <4>3. DOMAIN StitchedLists(o)[q] = Msg[q].first .. Msg[q].last
        BY <2>1, <4>1
      <4>4. StitchedLists(o)[q] = [s \in Msg[q].first .. Msg[q].last |-> StitchedLists(o)[q][s]]
        BY <2>1, <4>1, <4>3
      <4> QED
        BY <4>2, <4>4
    <3> QED
      BY <3>1, <3>2
  <2> QED
    BY <2>2, <2>4 DEF ListsOK
<1>7. StitchedStatuses(o) \in [Action -> Status]
  BY DEF StitchedStatuses, TypeOK, Status
<1> QED
  BY <1>5, <1>6, <1>7

LEMMA InitType == Init => TypeOK
<1> SUFFICES ASSUME Init PROVE TypeOK
  OBVIOUS
<1>1. OrderOK(currentOrder)
  <2>1. NoOrder.first .. NoOrder.last = {} /\ NoOrder.at \in [{} -> Orders]
    BY DEF NoOrder
  <2> QED
    BY <2>1 DEF Init, OrderOK, NoOrder
<1>2. ListsOK(actions)
  <2>1. \A o \in Orders : actions[o] \in [Msg[o].first .. Msg[o].last -> Seq(Action)]
    BY MessageFacts DEF Init
  <2> QED
    BY <2>1 DEF Init, ListsOK
<1>3. cancelStates \in [Cancels -> {"UNSENT", "REJECTED", "RUNNING", "FINISHED"}]
      /\ actionStates \in [Action -> Status]
  BY DEF Init, Status
<1>4. traversing \in Seq(EdgePlace)
  BY DEF Init
<1> QED
  BY <1>1, <1>2, <1>3, <1>4 DEF Init, TypeOK

LEMMA ReceiveOrderType ==
  ASSUME TypeOK, NEW o \in Orders, ReceiveOrder(o)
  PROVE  TypeOK'
<1> USE DEF masterVars, adapterVars, controllerVars
<1>1. CASE RejectOrder(o)
  BY <1>1 DEF ReceiveOrder, RejectOrder, TypeOK
<1>2. CASE DiscardOrder(o)
  BY <1>2 DEF ReceiveOrder, DiscardOrder, TypeOK
<1>3. CASE ReplaceOrder(o)
  <2> DEFINE st == [Now EXCEPT !.order = Replacement(o), !.statuses = ReplacementStatuses(o),
                               !.nodes = NodesIn(Msg[o].first, Msg[o].last),
                               !.edges = EdgesIn(Msg[o].first, Msg[o].last)]
             n == PlaceIn(Replacement(o), Msg[o].first)
  <2>1. ProcessNode(n, {}, st)
    BY <1>3 DEF ReplaceOrder, Replacement, ReplacementStatuses
  <2>2. /\ currentOrder' = Replacement(o) /\ rejections' = {}
        /\ UNCHANGED <<actions, paused, cancelContext, stopTraverse>>
    BY <1>3 DEF ReplaceOrder, Replacement
  <2>3. /\ st.order = Replacement(o) /\ st.lists = actions
        /\ st.nodes = NodesIn(Msg[o].first, Msg[o].last)
        /\ st.edges = EdgesIn(Msg[o].first, Msg[o].last)
        /\ st.statuses = ReplacementStatuses(o)
        /\ st.pausedNode = pausedNode /\ st.traversing = traversing
    BY DEF Now
  <2>4. /\ OrderOK(st.order) /\ ListsOK(st.lists)
        /\ st.nodes \subseteq Nodes /\ st.edges \subseteq Edges /\ st.statuses \in [Action -> Status]
        /\ st.pausedNode \in NodePlace \cup {None} /\ st.traversing \in Seq(EdgePlace)
        /\ n \in NodePlace
    BY <2>3, ReplacementType, RouteType, MessageFacts DEF TypeOK
  <2> HIDE DEF st, n
  <2>5. /\ pausedNode' \in NodePlace \cup {None}
        /\ nodeStates' \subseteq Nodes /\ edgeStates' \subseteq Edges
        /\ lastNode' \in NodePlace \cup {None}
        /\ ending' \subseteq Action
        /\ scheduled' \subseteq [action : Action, place : Place]
        /\ traversing' \in Seq(EdgePlace) /\ actionStates' \in [Action -> Status]
    BY <2>1, <2>4, ProcessNodeType
  <2>6. OrderOK(currentOrder') /\ ListsOK(actions')
    BY <2>2, ReplacementType DEF TypeOK
  <2> QED
    BY <2>2, <2>5, <2>6 DEF TypeOK, ReceiveOrder, Nodes, Edges
<1>4. CASE StitchOrder(o)
  <2> DEFINE k == IF IsBaseEndCompleted(BaseEnd, StitchedLists(o))
                  THEN ProcessEdge(BaseEnd, Stitched(o), StitchedLists(o)) ELSE NoCalls
  <2>1. /\ IsOrderBaseStitching(o)
        /\ currentOrder' = Stitched(o) /\ actions' = StitchedLists(o)
        /\ nodeStates' = ReleasedStates(nodeStates) \cup NodesIn(Msg[o].first + 1, Msg[o].last)
        /\ edgeStates' = ReleasedStates(edgeStates) \cup EdgesIn(Msg[o].first, Msg[o].last)
        /\ rejections' \subseteq rejections
        /\ Invoke(k, StitchedStatuses(o), scheduled, traversing)
        /\ UNCHANGED <<lastNode, paused, pausedNode, cancelContext, ending, stopTraverse>>
    BY <1>4 DEF StitchOrder, Stitched, StitchedLists, StitchedStatuses, BaseEnd, OrderMode
  <2>2. /\ OrderOK(Stitched(o)) /\ ListsOK(StitchedLists(o))
        /\ StitchedStatuses(o) \in [Action -> Status]
    BY <2>1, StitchedType
  <2>3. k \in Calls
    <3>1. CASE IsBaseEndCompleted(BaseEnd, StitchedLists(o))
      <4>1. BaseEnd \in NodePlace
        <5>1. Msg[o].first = currentOrder.base /\ IsNode(Msg[o].first) /\ currentOrder.base \in Nat
          BY <2>1, MessageFacts DEF IsOrderBaseStitching
        <5>2. currentOrder.orderId # None
          BY <2>1 DEF IsOrderBaseStitching
        <5>3. currentOrder.base \in currentOrder.first .. currentOrder.last
          BY <5>1, <5>2 DEF TypeOK, OrderOK
        <5>4. BaseEnd \in Place /\ BaseEnd.seq = currentOrder.base
          BY <5>3 DEF TypeOK, OrderOK, BaseEnd, PlaceIn
        <5> QED
          BY <5>1, <5>4 DEF NodePlace
      <4> QED
        BY <2>2, <3>1, <4>1, ProcessEdgeType
    <3>2. CASE ~ IsBaseEndCompleted(BaseEnd, StitchedLists(o))
      BY <3>2, CallsType
    <3> QED
      BY <3>1, <3>2
  <2>4. /\ scheduled' \subseteq [action : Action, place : Place]
        /\ traversing' \in Seq(EdgePlace) /\ actionStates' \in [Action -> Status]
    BY <2>1, <2>2, <2>3, InvokeType DEF TypeOK
  <2>5. nodeStates' \subseteq Nodes /\ edgeStates' \subseteq Edges
    <3>1. /\ NodesIn(Msg[o].first + 1, Msg[o].last) \subseteq Nodes
          /\ EdgesIn(Msg[o].first, Msg[o].last) \subseteq Edges
      BY RouteType, MessageFacts
    <3>2. ReleasedStates(nodeStates) \subseteq Nodes /\ ReleasedStates(edgeStates) \subseteq Edges
      BY DEF ReleasedStates, TypeOK, Nodes, Edges
    <3> QED
      BY <2>1, <3>1, <3>2
  <2> QED
    BY <2>1, <2>2, <2>4, <2>5 DEF TypeOK, ReceiveOrder, Nodes, Edges
<1> QED
  BY <1>1, <1>2, <1>3, <1>4 DEF ReceiveOrder

LEMMA StartActionType ==
  ASSUME TypeOK, NEW c \in scheduled, StartAction(c)
  PROVE  TypeOK'
BY DEF TypeOK, StartAction, adapterVars, masterVars, Status

LEMMA EndActionType ==
  ASSUME TypeOK, NEW c \in scheduled, EndAction(c)
  PROVE  TypeOK'
<1> DEFINE statuses == [actionStates EXCEPT ![c.action] = "ENDED"]
<1>1. /\ c \in [action : Action, place : Place]
      /\ statuses \in [Action -> Status]
      /\ scheduled \ {c} \in SUBSET [action : Action, place : Place]
      /\ OrderOK(currentOrder) /\ ListsOK(actions) /\ traversing \in Seq(EdgePlace)
  BY DEF TypeOK, Status
<1>2. /\ scheduled' \subseteq [action : Action, place : Place]
      /\ traversing' \in Seq(EdgePlace) /\ actionStates' \in [Action -> Status]
  <2>1. CASE hasCancelingOrder
    BY <1>1, <2>1, InvokeType, CallsType DEF EndAction
  <2>2. CASE ~ hasCancelingOrder
    BY <1>1, <2>2, InvokeType, ContinueAfterType DEF EndAction
  <2> QED
    BY <2>1, <2>2
<1>3. stopTraverse' \in Nat /\ ending' \subseteq Action
  BY DEF EndAction, TypeOK
<1> QED
  BY <1>2, <1>3 DEF TypeOK, EndAction, masterVars

LEMMA RemainingType ==
  ASSUME traversing \in Seq(EdgePlace), NEW i \in DOMAIN traversing
  PROVE  Remaining(i) \in Seq(EdgePlace)
BY DEF Remaining

LEMMA EdgeTraversedType ==
  ASSUME TypeOK, NEW i \in DOMAIN traversing, EdgeTraversed(i)
  PROVE  TypeOK'
<1>1. /\ traversing[i] \in EdgePlace /\ EndNodeOf(traversing[i]) \in NodePlace
      /\ Remaining(i) \in Seq(EdgePlace)
  BY RemainingType, EdgePlaceFacts DEF TypeOK
<1>2. CASE hasCancelingOrder
  BY <1>1, <1>2 DEF TypeOK, EdgeTraversed, masterVars
<1>3. CASE ~ hasCancelingOrder
  <2> DEFINE st == [Now EXCEPT !.traversing = Remaining(i)]
  <2>1. ProcessNode(EndNodeOf(traversing[i]), {traversing[i]}, st)
    BY <1>3 DEF EdgeTraversed
  <2>2. /\ OrderOK(st.order) /\ ListsOK(st.lists)
        /\ st.nodes \subseteq Nodes /\ st.edges \subseteq Edges /\ st.statuses \in [Action -> Status]
        /\ st.pausedNode \in NodePlace \cup {None} /\ st.traversing \in Seq(EdgePlace)
    BY <1>1 DEF Now, TypeOK, Nodes, Edges
  <2> HIDE DEF st
  <2>3. /\ pausedNode' \in NodePlace \cup {None}
        /\ nodeStates' \subseteq Nodes /\ edgeStates' \subseteq Edges
        /\ lastNode' \in NodePlace \cup {None}
        /\ ending' \subseteq Action
        /\ scheduled' \subseteq [action : Action, place : Place]
        /\ traversing' \in Seq(EdgePlace) /\ actionStates' \in [Action -> Status]
    BY <1>1, <2>1, <2>2, ProcessNodeType
  <2> QED
    BY <2>3 DEF TypeOK, EdgeTraversed, masterVars, Nodes, Edges
<1> QED
  BY <1>2, <1>3

LEMMA CancelOrderType ==
  ASSUME TypeOK, NEW c \in Cancels, CancelOrder(c)
  PROVE  TypeOK'
<1> USE DEF TypeOK, CancelOrder
<1>1. CASE ~ hasActiveOrder \/ hasCancelingOrder
  BY <1>1
<1>2. CASE ~ (~ hasActiveOrder \/ hasCancelingOrder)
  <2>1. ending' \subseteq Action /\ stopTraverse' \in Nat
    BY <1>2 DEF ActionsToCancel
  <2>2. actionStates' \in [Action -> Status]
    BY <1>2 DEF Status
  <2>3. cancelStates' \in [Cancels -> {"UNSENT", "REJECTED", "RUNNING", "FINISHED"}]
    BY <1>2
  <2> QED
    BY <1>2, <2>1, <2>2, <2>3
<1> QED
  BY <1>1, <1>2

LEMMA StopPauseType ==
  ASSUME TypeOK, StopPause
  PROVE  TypeOK'
<1>1. CASE pausedNode # None /\ ~ hasCancelingOrder
  <2> DEFINE st == [Now EXCEPT !.paused = FALSE, !.pausedNode = None]
  <2>1. ProcessNode(pausedNode, {}, st)
    BY <1>1 DEF StopPause
  <2>2. /\ OrderOK(st.order) /\ ListsOK(st.lists)
        /\ st.nodes \subseteq Nodes /\ st.edges \subseteq Edges /\ st.statuses \in [Action -> Status]
        /\ st.pausedNode \in NodePlace \cup {None} /\ st.traversing \in Seq(EdgePlace)
        /\ pausedNode \in NodePlace
    BY <1>1 DEF Now, TypeOK, Nodes, Edges
  <2> HIDE DEF st
  <2>3. /\ pausedNode' \in NodePlace \cup {None}
        /\ nodeStates' \subseteq Nodes /\ edgeStates' \subseteq Edges
        /\ lastNode' \in NodePlace \cup {None}
        /\ ending' \subseteq Action
        /\ scheduled' \subseteq [action : Action, place : Place]
        /\ traversing' \in Seq(EdgePlace) /\ actionStates' \in [Action -> Status]
    BY <2>1, <2>2, ProcessNodeType
  <2> QED
    BY <2>3 DEF TypeOK, StopPause, masterVars, Nodes, Edges
<1>2. CASE ~ (pausedNode # None /\ ~ hasCancelingOrder)
  BY <1>2 DEF TypeOK, StopPause, masterVars
<1> QED
  BY <1>1, <1>2

LEMMA StepType ==
  ASSUME TypeOK, [Next]_vars
  PROVE  TypeOK'
<1>1. CASE \E o \in Orders : ReceiveOrder(o)
  BY <1>1, ReceiveOrderType
<1>2. CASE \E c \in scheduled : StartAction(c)
  BY <1>2, StartActionType
<1>3. CASE \E c \in scheduled : EndAction(c)
  BY <1>3, EndActionType
<1>4. CASE \E i \in DOMAIN traversing : EdgeTraversed(i)
  BY <1>4, EdgeTraversedType
<1>5. CASE \E c \in Cancels : CancelOrder(c)
  BY <1>5, CancelOrderType
<1>6. CASE DrivingToNextNode
  BY <1>6 DEF TypeOK, DrivingToNextNode, adapterVars, masterVars
<1>7. CASE Stopped
  <2>1. cancelStates' \in [Cancels -> {"UNSENT", "REJECTED", "RUNNING", "FINISHED"}]
    BY <1>7 DEF TypeOK, Stopped
  <2>2. stopTraverse' \in Nat /\ traversing' \in Seq(EdgePlace)
    BY <1>7 DEF TypeOK, Stopped
  <2>3. paused' \in BOOLEAN
    BY <1>7, Zenon DEF TypeOK, Stopped
  <2> QED
    BY <1>7, <2>1, <2>2, <2>3 DEF TypeOK, Stopped
<1>8. CASE StartPause
  BY <1>8 DEF TypeOK, StartPause, adapterVars
<1>9. CASE StopPause
  BY <1>9, StopPauseType
<1>10. CASE PushPauseButton
  BY <1>10 DEF TypeOK, PushPauseButton, adapterVars
<1>11. CASE UNCHANGED vars
  BY <1>11 DEF TypeOK, vars, controllerVars, adapterVars, masterVars
<1> QED
  BY <1>1, <1>2, <1>3, <1>4, <1>5, <1>6, <1>7, <1>8, <1>9, <1>10, <1>11 DEF Next

(* Every variable stays within its type, whatever is sent, paused and      *)
(* canceled and however the adapter answers.                               *)
THEOREM TypeCorrect == Spec => []TypeOK
BY InitType, StepType, PTL DEF Spec

-----------------------------------------------------------------------------
(***************************************************************************)
(* The inductive invariant.  It holds under two assumptions.               *)
(*                                                                         *)
(* NoneActionsAlone: a NONE action runs in parallel to no other action of  *)
(* its list, as the end of each of two such actions may start the          *)
(* traversal; and no other order lists actions at the node of a NONE       *)
(* action, as stitching would join the lists.                              *)
(*                                                                         *)
(* PromptCancelation: an adapter that is told to cancel orders neither     *)
(* defers the start of actions nor pauses.                                 *)
(***************************************************************************)
SharesNode(o, q, s) ==
  s \in Msg[q].first .. Msg[q].base /\ Msg[q].nodeId[s] = Msg[o].nodeId[s]

NoneActionsAlone ==
  \A o \in Orders : \A s \in Msg[o].first .. Msg[o].base :
    \A i \in DOMAIN Msg[o].actions[s] :
      Blocking[Msg[o].actions[s][i]] = "NONE" =>
        /\ Parallel(Msg[o].actions[s], i) = {}
        /\ IsNode(s) => \A q \in Orders \ {o} : SharesNode(o, q, s) => Msg[q].actions[s] = << >>

PromptCancelation ==
  \A e \in Scenarios : e.cancels => ~ e.defersStart /\ ~ e.pauses /\ ~ e.button

BaseRange(ord) == ord.first .. ord.base

List(ord, lists, s) == lists[ord.at[s]][s]

(* An order with its action lists: nodes and edges alternate, an edge and  *)
(* its end node come from the same message, actions are unique.            *)
Structured(ord, lists) ==
  /\ ord.orderId # None => IsNode(ord.first) /\ IsNode(ord.base) /\ IsNode(ord.last)
  /\ \A s \in ord.first .. ord.last : ~ IsNode(s) => s < ord.last /\ ord.at[s + 1] = ord.at[s]
  /\ \A s, t \in BaseRange(ord) :
       \A i \in DOMAIN List(ord, lists, s), j \in DOMAIN List(ord, lists, t) :
         List(ord, lists, s)[i] = List(ord, lists, t)[j] => s = t /\ i = j
  /\ \A s \in BaseRange(ord) : \A i \in DOMAIN List(ord, lists, s) :
       Blocking[List(ord, lists, s)[i]] = "NONE" => Parallel(List(ord, lists, s), i) = {}

(* The message of o lists the action a at the place s of the order.        *)
Brings(o, ord, s, a) ==
  /\ s \in Msg[o].first .. Msg[o].base
  /\ \E k \in DOMAIN Msg[o].actions[s] : Msg[o].actions[s][k] = a
  /\ IsNode(s) => Msg[o].nodeId[s] = NodeIdOf(PlaceIn(ord, s))

(* The actions of the current order are those of received messages.        *)
Received ==
  /\ \A o \in inbox : actions[o] = Msg[o].actions
  /\ \A s \in currentOrder.first .. currentOrder.last : currentOrder.at[s] \notin inbox
  /\ \A a \in ReleasedActions(currentOrder, actions) : \E o \in Orders \ inbox : a \in MessageActions(o)
  /\ \A s \in BaseRange(currentOrder) : \A i \in DOMAIN List(currentOrder, actions, s) :
       \E o \in Orders \ inbox : Brings(o, currentOrder, s, List(currentOrder, actions, s)[i])

Reported(ord, lists, statuses) ==
  \A a \in Action : statuses[a] = "ABSENT" <=> a \notin ReleasedActions(ord, lists)

(* What is executed: actions of one place that may run in parallel, or the *)
(* traversal of one edge.                                                  *)
Together(acts, a, b) ==
  /\ Soft(a) /\ Soft(b)
  /\ \E i, j \in DOMAIN acts : acts[i] = a /\ acts[j] = b /\ j \in Parallel(acts, i)

Executing(ord, lists, statuses, sched, trav) ==
  /\ \A c \in sched : /\ c.place.seq \in BaseRange(ord)
                      /\ c.place = PlaceIn(ord, c.place.seq)
                      /\ c.action \in ActionSet(c.place, lists)
                      /\ statuses[c.action] \in {"WAITING", "ACTIVE"}
  /\ \A a \in Action : statuses[a] = "ACTIVE" => \E c \in sched : c.action = a
  /\ \A c, d \in sched : c # d => /\ c.place = d.place
                                  /\ Together(ActionsOf(c.place, lists), c.action, d.action)
  /\ trav # << >> => Len(trav) = 1 /\ sched = {}

(* What is still ahead of an AGV that has traversed the node at pos.       *)
Ahead(ord, lists, statuses, sched, trav, pos) ==
  /\ pos \in BaseRange(ord) /\ IsNode(pos)
  /\ \A c \in sched : c.place.seq \in {pos, pos + 1}
  /\ trav # << >> => pos + 1 \in BaseRange(ord) /\ trav = <<PlaceIn(ord, pos + 1)>>
  /\ \A s \in BaseRange(ord) :
       s > pos + 1 \/ (s = pos + 1 /\ \E c \in sched : c.place.seq = pos) =>
         \A i \in DOMAIN List(ord, lists, s) : statuses[List(ord, lists, s)[i]] = "WAITING"
  /\ \A c \in sched : \A i, j \in DOMAIN ActionsOf(c.place, lists) :
       /\ ActionsOf(c.place, lists)[i] = c.action
       /\ i < j /\ j \notin Parallel(ActionsOf(c.place, lists), i)
       => statuses[ActionsOf(c.place, lists)[j]] = "WAITING"

OrderInv ==
  /\ Structured(currentOrder, actions)
  /\ Received
  /\ Reported(currentOrder, actions, actionStates)
  /\ Executing(currentOrder, actions, actionStates, scheduled, traversing)

Inactive ==
  /\ ~ hasActiveOrder
  /\ scheduled = {} /\ traversing = << >> /\ pausedNode = None

Suspended ==
  /\ currentOrder.orderId # None
  /\ pausedNode # None /\ pausedNode = PlaceIn(currentOrder, currentOrder.first)
  /\ nodeStates = NodesIn(currentOrder.first, currentOrder.last)
  /\ edgeStates = EdgesIn(currentOrder.first, currentOrder.last)
  /\ scheduled = {} /\ traversing = << >>
  /\ \A a \in ReleasedActions(currentOrder, actions) : actionStates[a] = "WAITING"

EnRoute ==
  /\ currentOrder.orderId # None
  /\ pausedNode = None
  /\ lastNode # None /\ lastNode = PlaceIn(currentOrder, lastNode.seq)
  /\ nodeStates = NodesIn(lastNode.seq + 1, currentOrder.last)
  /\ edgeStates = EdgesIn(lastNode.seq + 1, currentOrder.last)
  /\ Ahead(currentOrder, actions, actionStates, scheduled, traversing, lastNode.seq)

RouteInv == ~ hasCancelingOrder => Inactive \/ Suspended \/ EnRoute

CancelInv ==
  /\ env.cancels => /\ ~ paused /\ pausedNode = None
                    /\ \A c \in scheduled : actionStates[c.action] = "ACTIVE"
  /\ ~ env.cancels => cancelContext = None
  /\ hasCancelingOrder => /\ cancelContext \in Cancels
                          /\ \A a \in Action : actionStates[a] # "WAITING"
                          /\ scheduled = {} => stopTraverse > 0
                          /\ \A c \in scheduled : c.action \in ending
  /\ stopTraverse > 0 => stopTraverse = 1 /\ hasCancelingOrder /\ scheduled = {}

IInv == TypeOK /\ OrderInv /\ RouteInv /\ CancelInv

-----------------------------------------------------------------------------
(* What the calls of a handler execute *)

(* The statuses after the adapter has received the calls.                  *)
Started(calls, statuses) ==
  [a \in Action |-> IF ~ env.defersStart /\ \E c \in calls.execute : c.action = a
                    THEN "ACTIVE" ELSE statuses[a]]

(* The calls are all that is executed, at the position pos, and start what *)
(* has not been started yet.                                               *)
Proper(ord, lists, statuses, calls, pos) ==
  /\ Executing(ord, lists, Started(calls, statuses), calls.execute, calls.traverse)
  /\ Ahead(ord, lists, Started(calls, statuses), calls.execute, calls.traverse, pos)
  /\ \A c \in calls.execute : statuses[c.action] = "WAITING"

LEMMA ListFacts ==
  ASSUME NEW ord, OrderOK(ord), NEW lists, ListsOK(lists), NEW s \in BaseRange(ord)
  PROVE  /\ PlaceIn(ord, s) \in Place /\ PlaceIn(ord, s).seq = s
         /\ ActionsOf(PlaceIn(ord, s), lists) = List(ord, lists, s)
         /\ List(ord, lists, s) \in Seq(Action)
         /\ ActionSet(PlaceIn(ord, s), lists) =
              {List(ord, lists, s)[i] : i \in DOMAIN List(ord, lists, s)}
         /\ s \in Nat /\ s \in ord.first .. ord.last
<1>1. s \in Nat /\ s \in ord.first .. ord.last
  BY DEF BaseRange, OrderOK
<1>2. PlaceIn(ord, s) \in Place /\ PlaceIn(ord, s).seq = s
  BY <1>1 DEF OrderOK, PlaceIn
<1>3. ActionsOf(PlaceIn(ord, s), lists) = List(ord, lists, s)
  BY DEF ActionsOf, PlaceIn, List
<1> QED
  BY <1>1, <1>2, <1>3, ActionsType DEF ActionSet

LEMMA NothingProper ==
  ASSUME NEW ord, OrderOK(ord), NEW lists, ListsOK(lists),
         NEW statuses \in [Action -> Status],
         \A a \in Action : statuses[a] # "ACTIVE",
         NEW pos \in BaseRange(ord), IsNode(pos),
         \A s \in BaseRange(ord) : s > pos + 1 =>
           \A i \in DOMAIN List(ord, lists, s) : statuses[List(ord, lists, s)[i]] = "WAITING"
  PROVE  Proper(ord, lists, statuses, NoCalls, pos)
<1>1. Started(NoCalls, statuses) = statuses
  BY DEF Started, NoCalls
<1>2. NoCalls.execute = {} /\ NoCalls.traverse = << >>
  BY DEF NoCalls
<1> QED
  BY <1>1, <1>2 DEF Proper, Executing, Ahead

LEMMA TraverseProper ==
  ASSUME NEW ord, OrderOK(ord), NEW lists, ListsOK(lists),
         NEW statuses \in [Action -> Status],
         \A a \in Action : statuses[a] # "ACTIVE",
         NEW pos \in BaseRange(ord), IsNode(pos), pos + 1 \in BaseRange(ord),
         \A s \in BaseRange(ord) : s > pos + 1 =>
           \A i \in DOMAIN List(ord, lists, s) : statuses[List(ord, lists, s)[i]] = "WAITING"
  PROVE  Proper(ord, lists, statuses, TraverseEdge(PlaceIn(ord, pos + 1)), pos)
<1> DEFINE k == TraverseEdge(PlaceIn(ord, pos + 1))
<1>1. Started(k, statuses) = statuses
  BY DEF Started, TraverseEdge
<1>2. k.execute = {} /\ k.traverse = <<PlaceIn(ord, pos + 1)>>
  BY DEF TraverseEdge
<1> QED
  BY <1>1, <1>2 DEF Proper, Executing, Ahead

(* The places of the indices that NextToRun and NextHard start at once.    *)
AtOnce(acts, S) ==
  \A i, j \in S : i # j => Soft(acts[i]) /\ Soft(acts[j]) /\ j \in Parallel(acts, i)

LEMMA ExecuteProper ==
  ASSUME NEW ord, OrderOK(ord), NEW lists, ListsOK(lists), Structured(ord, lists),
         NEW statuses \in [Action -> Status],
         \A a \in Action : statuses[a] # "ACTIVE",
         NEW pos \in BaseRange(ord), IsNode(pos),
         NEW t \in BaseRange(ord), t \in {pos, pos + 1},
         \A s \in BaseRange(ord) : s > t =>
           \A i \in DOMAIN List(ord, lists, s) : statuses[List(ord, lists, s)[i]] = "WAITING",
         NEW S \in SUBSET DOMAIN List(ord, lists, t), S # {},
         AtOnce(List(ord, lists, t), S),
         \A i \in S : statuses[List(ord, lists, t)[i]] = "WAITING",
         \A i \in S : \A j \in DOMAIN List(ord, lists, t) :
            i < j => j \in S \/ statuses[List(ord, lists, t)[j]] = "WAITING"
  PROVE  Proper(ord, lists, statuses,
                [execute |-> {[action |-> List(ord, lists, t)[j], place |-> PlaceIn(ord, t)] : j \in S},
                 traverse |-> << >>], pos)
<1> DEFINE acts == List(ord, lists, t)
           p == PlaceIn(ord, t)
           k == [execute |-> {[action |-> acts[j], place |-> p] : j \in S}, traverse |-> << >>]
           new == Started(k, statuses)
<1>1. /\ p \in Place /\ p.seq = t /\ ActionsOf(p, lists) = acts /\ acts \in Seq(Action)
      /\ ActionSet(p, lists) = {acts[i] : i \in DOMAIN acts}
  BY ListFacts
<1>2. k.execute = {[action |-> acts[j], place |-> p] : j \in S} /\ k.traverse = << >>
  OBVIOUS
<1>3. ASSUME NEW c \in k.execute
      PROVE  \E j \in S : c.action = acts[j] /\ c.place = p /\ acts[j] \in Action
  BY <1>1, <1>2, <1>3
<1>4. ASSUME NEW j \in S
      PROVE  \E c \in k.execute : c.action = acts[j] /\ c.place = p
  <2>1. [action |-> acts[j], place |-> p] \in k.execute
    BY <1>2
  <2> QED
    BY <2>1
<1>5. ASSUME NEW a \in Action
      PROVE  new[a] = IF ~ env.defersStart /\ \E j \in S : acts[j] = a
                      THEN "ACTIVE" ELSE statuses[a]
  <2> HIDE DEF k, p, acts
  <2>1. (\E c \in k.execute : c.action = a) <=> (\E j \in S : acts[j] = a)
    BY <1>3, <1>4
  <2> QED
    BY <2>1 DEF Started
<1>6. \A i \in DOMAIN acts, j \in DOMAIN acts : acts[i] = acts[j] => i = j
  BY DEF Structured
<1>7. \A s \in BaseRange(ord) : \A i \in DOMAIN List(ord, lists, s) :
        s # t => ~ \E j \in S : acts[j] = List(ord, lists, s)[i]
  BY DEF Structured
<1> HIDE DEF k, new
<1>8. Executing(ord, lists, new, k.execute, k.traverse)
  <2>1. ASSUME NEW c \in k.execute
        PROVE  /\ c.place.seq \in BaseRange(ord)
               /\ c.place = PlaceIn(ord, c.place.seq)
               /\ c.action \in ActionSet(c.place, lists)
               /\ new[c.action] \in {"WAITING", "ACTIVE"}
    BY <1>1, <1>3, <1>5
  <2>2. ASSUME NEW a \in Action, new[a] = "ACTIVE"
        PROVE  \E c \in k.execute : c.action = a
    BY <1>4, <1>5, <2>2
  <2>3. ASSUME NEW c \in k.execute, NEW d \in k.execute, c # d
        PROVE  /\ c.place = d.place
               /\ Together(ActionsOf(c.place, lists), c.action, d.action)
    <3>1. PICK i \in S : c = [action |-> acts[i], place |-> p]
      BY <1>2
    <3>2. PICK j \in S : d = [action |-> acts[j], place |-> p]
      BY <1>2
    <3>3. i # j
      BY <2>3, <3>1, <3>2
    <3> QED
      BY <1>1, <3>1, <3>2, <3>3 DEF AtOnce, Together
  <2> QED
    BY <1>2, <2>1, <2>2, <2>3 DEF Executing
<1>9. Ahead(ord, lists, new, k.execute, k.traverse, pos)
  <2>1. ASSUME NEW s \in BaseRange(ord),
               s > pos + 1 \/ (s = pos + 1 /\ \E c \in k.execute : c.place.seq = pos),
               NEW i \in DOMAIN List(ord, lists, s)
        PROVE  new[List(ord, lists, s)[i]] = "WAITING"
    <3>1. s > t
      BY <1>1, <1>3, <2>1, ListFacts
    <3>2. List(ord, lists, s)[i] \in Action
      BY ListFacts
    <3> QED
      BY <1>5, <1>7, <3>1, <3>2, ListFacts
  <2>2. ASSUME NEW c \in k.execute, NEW i \in DOMAIN acts, NEW j \in DOMAIN acts,
               acts[i] = c.action, i < j, j \notin Parallel(acts, i)
        PROVE  new[acts[j]] = "WAITING"
    <3>1. i \in S
      BY <1>3, <1>6, <2>2
    <3>2. j \notin S
      BY <1>1, <2>2, <3>1 DEF AtOnce
    <3> QED
      BY <1>1, <1>5, <1>6, <2>2, <3>1, <3>2
  <2>3. \A c \in k.execute : c.place.seq \in {pos, pos + 1}
    BY <1>1, <1>3
  <2>4. \A c \in k.execute : \A i, j \in DOMAIN ActionsOf(c.place, lists) :
          /\ ActionsOf(c.place, lists)[i] = c.action
          /\ i < j /\ j \notin Parallel(ActionsOf(c.place, lists), i)
          => new[ActionsOf(c.place, lists)[j]] = "WAITING"
    BY <1>1, <1>3, <2>2
  <2> QED
    BY <1>2, <2>1, <2>3, <2>4 DEF Ahead
<1>10. \A c \in k.execute : statuses[c.action] = "WAITING"
  BY <1>3
<1> QED
  BY <1>8, <1>9, <1>10 DEF Proper, k, new

LEMMA AtOnceFacts ==
  ASSUME NEW ord, OrderOK(ord), NEW lists, ListsOK(lists), Structured(ord, lists),
         NEW t \in BaseRange(ord), NEW after \in Nat
  PROVE  /\ AtOnce(List(ord, lists, t), Segment(List(ord, lists, t), after))
         /\ AtOnce(List(ord, lists, t), NextHard(List(ord, lists, t), after))
<1> DEFINE acts == List(ord, lists, t)
<1>1. acts \in Seq(Action)
  BY ListFacts
<1>2. \A i \in DOMAIN acts : Blocking[acts[i]] = "NONE" => Parallel(acts, i) = {}
  BY DEF Structured
<1> HIDE DEF acts
<1>3. ASSUME NEW i \in Segment(acts, after), NEW j \in Segment(acts, after), i # j
      PROVE  Soft(acts[i]) /\ Soft(acts[j]) /\ j \in Parallel(acts, i)
  <2>1. /\ i \in DOMAIN acts /\ j \in DOMAIN acts /\ i > after /\ j > after
        /\ ~ Hard(acts[i]) /\ ~ Hard(acts[j])
    BY <1>1 DEF Segment
  <2>2. j \in Parallel(acts, i) /\ i \in Parallel(acts, j)
    BY <1>1, <1>3, <2>1 DEF Segment, Parallel
  <2>3. Blocking[acts[i]] # "NONE" /\ Blocking[acts[j]] # "NONE"
    BY <1>2, <2>1, <2>2
  <2>4. acts[i] \in Action /\ acts[j] \in Action
    BY <1>1, <2>1
  <2>5. Soft(acts[i]) /\ Soft(acts[j])
    BY <2>1, <2>3, <2>4, BlockingAssumption DEF Soft, Hard, BlockingType
  <2> QED
    BY <2>2, <2>5
<1>4. \A i, j \in NextHard(acts, after) : i = j
  BY <1>1 DEF NextHard
<1> QED
  BY <1>3, <1>4 DEF AtOnce, acts

LEMMA ProcessActionsProper ==
  ASSUME NEW ord, OrderOK(ord), NEW lists, ListsOK(lists), Structured(ord, lists),
         NEW statuses \in [Action -> Status],
         \A a \in Action : statuses[a] # "ACTIVE",
         NEW pos \in BaseRange(ord), IsNode(pos),
         NEW t \in BaseRange(ord), t \in {pos, pos + 1},
         \A s \in BaseRange(ord) : s > t =>
           \A i \in DOMAIN List(ord, lists, s) : statuses[List(ord, lists, s)[i]] = "WAITING",
         NEW after \in Nat,
         \A j \in DOMAIN List(ord, lists, t) : j > after => statuses[List(ord, lists, t)[j]] = "WAITING",
         NEW continuation, Proper(ord, lists, statuses, continuation, pos)
  PROVE  Proper(ord, lists, statuses,
                ProcessActions(PlaceIn(ord, t), lists, after, continuation), pos)
<1> DEFINE acts == List(ord, lists, t)
           S == NextToRun(acts, after)
<1>1. ActionsOf(PlaceIn(ord, t), lists) = acts /\ acts \in Seq(Action)
  BY ListFacts
<1>2. S \in SUBSET DOMAIN acts /\ AtOnce(acts, S) /\ \A j \in S : j > after
  <2>1. AtOnce(acts, S)
    BY AtOnceFacts DEF NextToRun
  <2>2. S \in SUBSET DOMAIN acts /\ \A j \in S : j > after
    BY DEF NextToRun, Segment, NextHard
  <2> QED
    BY <2>1, <2>2
<1>3. CASE S = {}
  BY <1>1, <1>3 DEF ProcessActions
<1>4. CASE S # {}
  <2>1. /\ \A i \in S : statuses[acts[i]] = "WAITING"
        /\ \A i \in S : \A j \in DOMAIN acts : i < j => j \in S \/ statuses[acts[j]] = "WAITING"
    BY <1>1, <1>2
  <2>2. ProcessActions(PlaceIn(ord, t), lists, after, continuation) =
          [execute |-> {[action |-> acts[j], place |-> PlaceIn(ord, t)] : j \in S}, traverse |-> << >>]
    BY <1>1, <1>4 DEF ProcessActions
  <2> HIDE DEF S
  <2> QED
    BY <1>2, <1>4, <2>1, <2>2, ExecuteProper
<1> QED
  BY <1>3, <1>4

LEMMA ProcessEdgeProper ==
  ASSUME NEW ord, OrderOK(ord), NEW lists, ListsOK(lists), Structured(ord, lists),
         NEW statuses \in [Action -> Status],
         \A a \in Action : statuses[a] # "ACTIVE",
         NEW pos \in BaseRange(ord), IsNode(pos),
         \A s \in BaseRange(ord) : s > pos =>
           \A i \in DOMAIN List(ord, lists, s) : statuses[List(ord, lists, s)[i]] = "WAITING"
  PROVE  Proper(ord, lists, statuses, ProcessEdge(PlaceIn(ord, pos), ord, lists), pos)
<1>1. pos \in Nat /\ PlaceIn(ord, pos).seq = pos
  BY ListFacts
<1>2. \A s \in BaseRange(ord) : s > pos + 1 => s > pos
  BY <1>1 DEF BaseRange, OrderOK
<1>3. Proper(ord, lists, statuses, NoCalls, pos)
  BY <1>2, NothingProper
<1>4. CASE pos + 1 \in BaseRange(ord)
  <2>1. Proper(ord, lists, statuses, TraverseEdge(PlaceIn(ord, pos + 1)), pos)
    BY <1>2, <1>4, TraverseProper
  <2>2. \A j \in DOMAIN List(ord, lists, pos + 1) : statuses[List(ord, lists, pos + 1)[j]] = "WAITING"
    BY <1>1, <1>4
  <2>3. Proper(ord, lists, statuses, ProcessEdgeActions(PlaceIn(ord, pos + 1), lists, 0), pos)
    BY <1>2, <1>4, <2>1, <2>2, ProcessActionsProper DEF ProcessEdgeActions
  <2> QED
    BY <1>1, <1>3, <2>3 DEF ProcessEdge
<1>5. CASE pos + 1 \notin BaseRange(ord)
  BY <1>1, <1>3, <1>5 DEF ProcessEdge, BaseRange
<1> QED
  BY <1>4, <1>5

LEMMA ProcessNodeActionsProper ==
  ASSUME NEW ord, OrderOK(ord), NEW lists, ListsOK(lists), Structured(ord, lists),
         NEW statuses \in [Action -> Status],
         \A a \in Action : statuses[a] # "ACTIVE",
         NEW pos \in BaseRange(ord), IsNode(pos),
         \A s \in BaseRange(ord) : s >= pos =>
           \A i \in DOMAIN List(ord, lists, s) : statuses[List(ord, lists, s)[i]] = "WAITING"
  PROVE  Proper(ord, lists, statuses, ProcessNodeActions(PlaceIn(ord, pos), ord, lists, 0), pos)
<1>1. pos \in Nat
  BY ListFacts
<1>2. \A s \in BaseRange(ord) : s > pos => s >= pos
  BY <1>1 DEF BaseRange, OrderOK
<1>3. Proper(ord, lists, statuses, ProcessEdge(PlaceIn(ord, pos), ord, lists), pos)
  BY <1>2, ProcessEdgeProper
<1>4. \A j \in DOMAIN List(ord, lists, pos) : statuses[List(ord, lists, pos)[j]] = "WAITING"
  BY <1>1
<1> QED
  BY <1>2, <1>3, <1>4, ProcessActionsProper DEF ProcessNodeActions

(* An action that others are executed in parallel to ends: nothing follows.*)
LEMMA ContinueAfterOther ==
  ASSUME NEW c \in [action : Action, place : Place], NEW d \in [action : Action, place : Place],
         NEW ord, NEW lists, ListsOK(lists), NEW statuses,
         \A i, j \in DOMAIN ActionsOf(c.place, lists) :
           ActionsOf(c.place, lists)[i] = ActionsOf(c.place, lists)[j] => i = j,
         Together(ActionsOf(c.place, lists), c.action, d.action),
         statuses[d.action] # "ENDED"
  PROVE  ContinueAfter(c, ord, lists, statuses) = NoCalls
<1> DEFINE acts == ActionsOf(c.place, lists)
           i == CHOOSE j \in DOMAIN acts : acts[j] = c.action
           ended == {a \in Action : statuses[a] = "ENDED"}
<1>1. PICK m \in DOMAIN acts, j \in DOMAIN acts :
        acts[m] = c.action /\ acts[j] = d.action /\ j \in Parallel(acts, m)
  BY DEF Together
<1>2. i = m
  BY <1>1
<1>3. ~ Hard(c.action) /\ Soft(d.action)
  BY DEF Together, Hard, Soft
<1>4. \A softOnly \in BOOLEAN : ~ AreParallelActionsEnded(acts, i, softOnly, ended)
  BY <1>1, <1>2, <1>3 DEF AreParallelActionsEnded
<1> QED
  BY <1>3, <1>4 DEF ContinueAfter

(* The last action that is executed ends.                                  *)
LEMMA ContinueAfterProper ==
  ASSUME NEW ord, OrderOK(ord), NEW lists, ListsOK(lists), Structured(ord, lists),
         NEW c \in [action : Action, place : Place],
         NEW before \in [Action -> Status], NEW trav, NEW pos,
         Executing(ord, lists, before, {c}, trav), Ahead(ord, lists, before, {c}, trav, pos)
  PROVE  Proper(ord, lists, [before EXCEPT ![c.action] = "ENDED"],
                ContinueAfter(c, ord, lists, [before EXCEPT ![c.action] = "ENDED"]), pos)
<1> DEFINE t == c.place.seq
           acts == ActionsOf(c.place, lists)
           i == CHOOSE j \in DOMAIN acts : acts[j] = c.action
           statuses == [before EXCEPT ![c.action] = "ENDED"]
           ended == {a \in Action : statuses[a] = "ENDED"}
           Continuation == IF IsNode(t) THEN ProcessEdge(c.place, ord, lists)
                           ELSE TraverseEdge(c.place)
<1>1. /\ t \in BaseRange(ord) /\ c.place = PlaceIn(ord, t) /\ c.action \in ActionSet(c.place, lists)
      /\ pos \in BaseRange(ord) /\ IsNode(pos) /\ t \in {pos, pos + 1}
  BY DEF Executing, Ahead
<1>2. /\ acts = List(ord, lists, t) /\ acts \in Seq(Action) /\ t \in Nat /\ pos \in Nat
      /\ \E j \in DOMAIN acts : acts[j] = c.action
  BY <1>1, ListFacts
<1>3. i \in DOMAIN acts /\ acts[i] = c.action /\ i \in Nat
  BY <1>2
<1> HIDE DEF i, acts
<1>4. statuses \in [Action -> Status] /\ statuses[c.action] = "ENDED"
      /\ \A a \in Action : a # c.action => statuses[a] = before[a]
  BY DEF Status
<1>5. \A a \in Action : statuses[a] # "ACTIVE"
  BY <1>4 DEF Executing
<1>6. \A s \in BaseRange(ord) : \A j \in DOMAIN List(ord, lists, s) :
        List(ord, lists, s)[j] = c.action => s = t /\ j = i
  BY <1>1, <1>2, <1>3 DEF Structured
<1> HIDE DEF t
<1>7. ASSUME NEW s \in BaseRange(ord), s > t, NEW j \in DOMAIN List(ord, lists, s)
      PROVE  s > pos + 1 \/ t = pos => statuses[List(ord, lists, s)[j]] = "WAITING"
  <2>1. List(ord, lists, s)[j] \in Action /\ s \in Nat
    BY ListFacts
  <2>2. List(ord, lists, s)[j] # c.action
    BY <1>2, <1>6, <1>7, <2>1
  <2>3. s > pos + 1 \/ t = pos => before[List(ord, lists, s)[j]] = "WAITING"
    BY <1>1, <1>2, <1>7, <2>1 DEF Ahead, t
  <2> QED
    BY <1>4, <2>1, <2>2, <2>3
<1>15. \A j \in DOMAIN acts : acts[j] \in Action /\ (acts[j] = c.action => j = i)
  BY <1>1, <1>2, <1>6
<1>8. \A j \in DOMAIN acts : i < j /\ j \notin Parallel(acts, i) => statuses[acts[j]] = "WAITING"
  <2> SUFFICES ASSUME NEW j \in DOMAIN acts, i < j, j \notin Parallel(acts, i)
               PROVE  statuses[acts[j]] = "WAITING"
    OBVIOUS
  <2>1. before[acts[j]] = "WAITING"
    BY <1>3 DEF Ahead, acts
  <2>2. acts[j] \in Action /\ acts[j] # c.action
    BY <1>2, <1>3, <1>15
  <2> QED
    BY <1>4, <2>1, <2>2
<1>9. \A s \in BaseRange(ord) : s > t =>
        \A j \in DOMAIN List(ord, lists, s) : statuses[List(ord, lists, s)[j]] = "WAITING"
  <2> SUFFICES ASSUME NEW s \in BaseRange(ord), s > t, NEW j \in DOMAIN List(ord, lists, s)
               PROVE  statuses[List(ord, lists, s)[j]] = "WAITING"
    OBVIOUS
  <2>1. s > pos + 1 \/ t = pos
    BY <1>1, <1>2, ListFacts
  <2> QED
    BY <1>7, <2>1
<1> HIDE DEF statuses, Continuation
<1>10. Proper(ord, lists, statuses, Continuation, pos)
  <2>1. CASE t = pos
    BY <1>1, <1>4, <1>5, <1>9, <2>1, ProcessEdgeProper DEF Continuation
  <2>2. CASE t = pos + 1
    <3>1. ~ IsNode(t)
      BY <1>1, <1>2, <2>2, Parity
    <3> QED
      BY <1>1, <1>4, <1>5, <1>9, <2>2, <3>1, TraverseProper DEF Continuation
  <2> QED
    BY <1>1, <2>1, <2>2
<1>11. Proper(ord, lists, statuses, NoCalls, pos)
  <2>1. \A s \in BaseRange(ord) : s > pos + 1 => s > t
    BY <1>1, <1>2, ListFacts
  <2> QED
    BY <1>1, <1>4, <1>5, <1>9, <2>1, NothingProper
<1>12. CASE Hard(c.action)
  <2>1. Parallel(acts, i) = {}
    BY <1>2, <1>3, <1>12 DEF Parallel
  <2>2. i \in Nat /\ \A j \in DOMAIN acts : j > i => statuses[acts[j]] = "WAITING"
    BY <1>2, <1>3, <1>8, <2>1
  <2>3. Proper(ord, lists, statuses, ProcessActions(c.place, lists, i, Continuation), pos)
    BY <1>1, <1>2, <1>4, <1>5, <1>9, <1>10, <2>2, ProcessActionsProper
  <2> QED
    BY <1>12, <2>3 DEF ContinueAfter, statuses, acts, i, t, Continuation
<1>13. CASE ~ Hard(c.action) /\ NextHard(acts, i) # {}
  <2> DEFINE S == NextHard(acts, i)
  <2>1. i \in Nat /\ S \in SUBSET DOMAIN acts /\ AtOnce(acts, S)
    <3>1. AtOnce(acts, S)
      BY <1>1, <1>2, <1>3, AtOnceFacts
    <3> QED
      BY <1>3, <3>1 DEF NextHard
  <2>2. \A h \in S : \A j \in DOMAIN acts : h <= j => statuses[acts[j]] = "WAITING"
    <3> SUFFICES ASSUME NEW h \in S, NEW j \in DOMAIN acts, h <= j
                 PROVE  statuses[acts[j]] = "WAITING"
      OBVIOUS
    <3>1. h > i /\ Hard(acts[h]) /\ h \in DOMAIN acts
      BY DEF NextHard
    <3>2. i < j /\ j \notin Parallel(acts, i)
      <4>1. i < h /\ h <= j
        BY <1>2, <1>3, <3>1
      <4> QED
        BY <1>2, <1>3, <3>1, <4>1 DEF Parallel
    <3> QED
      BY <1>8, <3>2
  <2>3. Proper(ord, lists, statuses,
               [execute |-> {[action |-> acts[j], place |-> c.place] : j \in S},
                traverse |-> << >>], pos)
    <3>1. /\ \A h \in S : statuses[acts[h]] = "WAITING"
          /\ \A h \in S : \A j \in DOMAIN acts : h < j => j \in S \/ statuses[acts[j]] = "WAITING"
      BY <1>2, <2>1, <2>2
    <3> HIDE DEF S
    <3> QED
      BY <1>1, <1>2, <1>4, <1>5, <1>9, <1>13, <2>1, <3>1, ExecuteProper DEF S
  <2> QED
    BY <1>11, <1>13, <2>3 DEF ContinueAfter, statuses, acts, i, t, Continuation
<1>14. CASE ~ Hard(c.action) /\ NextHard(acts, i) = {}
  BY <1>10, <1>11, <1>14 DEF ContinueAfter, statuses, acts, i, t, Continuation
<1> QED
  BY <1>12, <1>13, <1>14 DEF statuses

-----------------------------------------------------------------------------
(* Preservation of the inductive invariant *)

LEMMA InvokeEffect ==
  ASSUME NEW calls, NEW statuses, NEW contexts, NEW edges,
         Invoke(calls, statuses, contexts, edges)
  PROVE  /\ scheduled' = contexts \cup calls.execute
         /\ traversing' = edges \o calls.traverse
         /\ actionStates' = Started(calls, statuses)
BY DEF Invoke, Started

LEMMA InvokeNothing ==
  ASSUME NEW statuses \in [Action -> Status], NEW contexts, NEW edges \in Seq(EdgePlace),
         Invoke(NoCalls, statuses, contexts, edges)
  PROVE  scheduled' = contexts /\ traversing' = edges /\ actionStates' = statuses
<1>1. NoCalls.execute = {} /\ NoCalls.traverse = << >>
  BY DEF NoCalls
<1>2. Started(NoCalls, statuses) = statuses
  BY <1>1 DEF Started
<1>3. /\ scheduled' = contexts \cup NoCalls.execute
      /\ traversing' = edges \o NoCalls.traverse
      /\ actionStates' = Started(NoCalls, statuses)
  BY InvokeEffect
<1>4. edges \o << >> = edges
  OBVIOUS
<1> QED
  BY <1>1, <1>2, <1>3, <1>4

LEMMA InvokeAlone ==
  ASSUME NEW calls \in Calls, NEW statuses, Invoke(calls, statuses, {}, << >>)
  PROVE  /\ scheduled' = calls.execute
         /\ traversing' = calls.traverse
         /\ actionStates' = Started(calls, statuses)
<1>1. /\ scheduled' = {} \cup calls.execute
      /\ traversing' = << >> \o calls.traverse
      /\ actionStates' = Started(calls, statuses)
  BY InvokeEffect
<1>2. calls.traverse \in Seq(EdgePlace)
  BY DEF Calls
<1>3. << >> \o calls.traverse = calls.traverse
  BY <1>2
<1> QED
  BY <1>1, <1>3

(* What is started is reported and, unless deferred, active.               *)
LEMMA StartedFacts ==
  ASSUME NEW ord, NEW lists, NEW statuses \in [Action -> Status],
         NEW calls \in Calls, NEW trav,
         Reported(ord, lists, statuses),
         Executing(ord, lists, Started(calls, statuses), calls.execute, trav)
  PROVE  /\ Reported(ord, lists, Started(calls, statuses))
         /\ ~ env.defersStart =>
              \A c \in calls.execute : Started(calls, statuses)[c.action] = "ACTIVE"
<1>1. calls.execute \subseteq [action : Action, place : Place]
  BY DEF Calls
<1>2. ASSUME NEW c \in calls.execute
      PROVE  c.action \in Action /\ c.action \in ReleasedActions(ord, lists)
  BY <1>1 DEF Executing, ReleasedActions, BaseRange
<1>3. Reported(ord, lists, Started(calls, statuses))
  BY <1>2 DEF Reported, Started
<1> QED
  BY <1>2, <1>3 DEF Started

LEMMA DefersNotCancels ==
  ASSUME TypeOK, PromptCancelation, env.cancels
  PROVE  ~ env.defersStart /\ ~ env.pauses /\ ~ env.button
BY DEF TypeOK, PromptCancelation

LEMMA NodesAhead ==
  ASSUME NEW pos \in Nat, IsNode(pos), NEW to \in Int
  PROVE  /\ NodesIn(pos, to) \ {pos} = NodesIn(pos + 1, to)
         /\ EdgesIn(pos, to) = EdgesIn(pos + 1, to)
         /\ NodesIn(pos + 1, to) = NodesIn(pos + 2, to)
         /\ EdgesIn(pos + 1, to) \ {pos + 1} = EdgesIn(pos + 2, to)
<1>1. ~ IsNode(pos + 1)
  BY Parity
<1>2. \A s \in Int : s >= pos => s = pos \/ s = pos + 1 \/ s >= pos + 2
  OBVIOUS
<1> QED
  BY <1>1, <1>2 DEF NodesIn, EdgesIn

(* A node is processed while nothing is executed.                          *)
LEMMA ProcessNodeStep ==
  ASSUME TypeOK, NEW ord, OrderOK(ord), NEW lists, ListsOK(lists), Structured(ord, lists),
         NEW st, NEW traversedEdge, NEW pos \in BaseRange(ord), IsNode(pos),
         st.order = ord, st.lists = lists, st.statuses \in [Action -> Status],
         ~ st.paused, st.traversing = << >>, scheduled = {},
         Reported(ord, lists, st.statuses),
         \A a \in Action : st.statuses[a] # "ACTIVE",
         \A s \in BaseRange(ord) : s >= pos =>
           \A i \in DOMAIN List(ord, lists, s) : st.statuses[List(ord, lists, s)[i]] = "WAITING",
         ProcessNode(PlaceIn(ord, pos), traversedEdge, st)
  PROVE  /\ pausedNode' = st.pausedNode
         /\ nodeStates' = st.nodes \ {pos}
         /\ edgeStates' = st.edges \ {e.seq : e \in traversedEdge}
         /\ lastNode' = PlaceIn(ord, pos)
         /\ Reported(ord, lists, actionStates')
         /\ Executing(ord, lists, actionStates', scheduled', traversing')
         /\ Ahead(ord, lists, actionStates', scheduled', traversing', pos)
         /\ ~ env.defersStart => \A c \in scheduled' : actionStates'[c.action] = "ACTIVE"
         /\ \A c \in scheduled' : st.statuses[c.action] = "WAITING"
<1> DEFINE n == PlaceIn(ord, pos)
           k == ProcessNodeActions(n, ord, lists, 0)
<1>1. n \in NodePlace /\ n.seq = pos
  BY ListFacts DEF NodePlace
<1>2. /\ pausedNode' = st.pausedNode
      /\ nodeStates' = st.nodes \ {n.seq}
      /\ edgeStates' = st.edges \ {e.seq : e \in traversedEdge}
      /\ lastNode' = n
      /\ Invoke(k, st.statuses, {}, << >>)
  BY DEF ProcessNode
<1>3. k \in Calls
  BY <1>1, ProcessNodeActionsType
<1>4. Proper(ord, lists, st.statuses, k, pos)
  BY ProcessNodeActionsProper
<1>5. /\ scheduled' = k.execute /\ traversing' = k.traverse
      /\ actionStates' = Started(k, st.statuses)
  BY <1>2, <1>3, InvokeAlone
<1> HIDE DEF k, n
<1>6. /\ Executing(ord, lists, actionStates', scheduled', traversing')
      /\ Ahead(ord, lists, actionStates', scheduled', traversing', pos)
      /\ \A c \in scheduled' : st.statuses[c.action] = "WAITING"
  BY <1>4, <1>5 DEF Proper
<1>7. /\ Reported(ord, lists, actionStates')
      /\ ~ env.defersStart => \A c \in scheduled' : actionStates'[c.action] = "ACTIVE"
  <2>1. Executing(ord, lists, Started(k, st.statuses), k.execute, k.traverse)
    BY <1>4 DEF Proper
  <2>2. /\ Reported(ord, lists, Started(k, st.statuses))
        /\ ~ env.defersStart =>
             \A c \in k.execute : Started(k, st.statuses)[c.action] = "ACTIVE"
    BY <1>3, <2>1, StartedFacts
  <2> QED
    BY <1>5, <2>2
<1> QED
  BY <1>1, <1>2, <1>6, <1>7 DEF n

(* One of the actions that are executed ends.                              *)
LEMMA EndingExecuting ==
  ASSUME NEW ord, OrderOK(ord), NEW lists, ListsOK(lists), Structured(ord, lists),
         NEW statuses \in [Action -> Status], NEW sched \in SUBSET [action : Action, place : Place],
         NEW trav, Executing(ord, lists, statuses, sched, trav), NEW c \in sched
  PROVE  /\ trav = << >>
         /\ Executing(ord, lists, [statuses EXCEPT ![c.action] = "ENDED"], sched \ {c}, << >>)
         /\ \A d \in sched \ {c} : d.action # c.action
<1>1. trav = << >>
  BY DEF Executing
<1>2. \A d \in sched \ {c} : d.place = c.place /\ d.action # c.action
  BY DEF Executing
<1>3. \A a \in Action : [statuses EXCEPT ![c.action] = "ENDED"][a] =
                          IF a = c.action THEN "ENDED" ELSE statuses[a]
  OBVIOUS
<1> QED
  BY <1>1, <1>2, <1>3 DEF Executing

LEMMA EndingAhead ==
  ASSUME NEW ord, OrderOK(ord), NEW lists, ListsOK(lists), Structured(ord, lists),
         NEW statuses \in [Action -> Status], NEW sched \in SUBSET [action : Action, place : Place],
         NEW trav, Executing(ord, lists, statuses, sched, trav), NEW c \in sched,
         NEW pos, Ahead(ord, lists, statuses, sched, trav, pos),
         NEW new \in Status, NEW rest \in SUBSET sched, sched \ {c} \subseteq rest
  PROVE  Ahead(ord, lists, [statuses EXCEPT ![c.action] = new], rest, trav, pos)
<1> DEFINE after == [statuses EXCEPT ![c.action] = new]
<1>1. \A a \in Action : a # c.action => after[a] = statuses[a]
  OBVIOUS
<1>2. PICK t \in BaseRange(ord) : t = c.place.seq /\ c.place = PlaceIn(ord, t)
  BY DEF Executing
<1>3. PICK m \in DOMAIN List(ord, lists, t) : List(ord, lists, t)[m] = c.action
  BY <1>2, ListFacts DEF Executing
<1>4. \A s \in BaseRange(ord) : \A i \in DOMAIN List(ord, lists, s) :
        List(ord, lists, s)[i] = c.action => s = t /\ i = m
  BY <1>2, <1>3 DEF Structured
<1>5. pos \in Nat /\ t \in {pos, pos + 1}
  BY <1>2, ListFacts DEF Ahead
<1>6. ASSUME NEW s \in BaseRange(ord),
             s > pos + 1 \/ (s = pos + 1 /\ \E d \in rest : d.place.seq = pos),
             NEW i \in DOMAIN List(ord, lists, s)
      PROVE  after[List(ord, lists, s)[i]] = "WAITING"
  <2>1. statuses[List(ord, lists, s)[i]] = "WAITING"
    BY <1>6 DEF Ahead
  <2>2. s # t
    <3>1. CASE s > pos + 1
      BY <1>5, <3>1, ListFacts
    <3>2. CASE s = pos + 1 /\ \E d \in rest : d.place.seq = pos
      BY <1>2, <1>5, <3>2 DEF Executing
    <3> QED
      BY <1>6, <3>1, <3>2
  <2> QED
    BY <1>1, <1>4, <2>1, <2>2, ListFacts
<1>7. ASSUME NEW d \in rest, NEW i \in DOMAIN ActionsOf(d.place, lists),
             NEW j \in DOMAIN ActionsOf(d.place, lists),
             ActionsOf(d.place, lists)[i] = d.action,
             i < j, j \notin Parallel(ActionsOf(d.place, lists), i)
      PROVE  after[ActionsOf(d.place, lists)[j]] = "WAITING"
  <2>1. statuses[ActionsOf(d.place, lists)[j]] = "WAITING"
    BY <1>7 DEF Ahead
  <2>2. /\ d.place.seq \in BaseRange(ord) /\ d.place = PlaceIn(ord, d.place.seq)
        /\ ActionsOf(d.place, lists) = List(ord, lists, d.place.seq)
        /\ ActionsOf(d.place, lists) \in Seq(Action)
    BY ListFacts DEF Executing
  <2>3. ActionsOf(d.place, lists)[j] # c.action
    <3> SUFFICES ASSUME ActionsOf(d.place, lists)[j] = c.action PROVE FALSE
      OBVIOUS
    <3>1. d.place = c.place /\ j = m
      BY <1>2, <1>4, <2>2
    <3>2. CASE d = c
      BY <1>2, <1>4, <1>7, <2>2, <3>1, <3>2
    <3>3. CASE d # c
      <4>1. Together(ActionsOf(d.place, lists), d.action, c.action)
        BY <3>3 DEF Executing
      <4>2. PICK x \in DOMAIN ActionsOf(d.place, lists), y \in DOMAIN ActionsOf(d.place, lists) :
              /\ ActionsOf(d.place, lists)[x] = d.action
              /\ ActionsOf(d.place, lists)[y] = c.action
              /\ y \in Parallel(ActionsOf(d.place, lists), x)
        BY <4>1 DEF Together
      <4>3. x = i /\ y = j
        BY <1>7, <2>2, <4>2 DEF Structured
      <4> QED
        BY <1>7, <4>2, <4>3
    <3> QED
      BY <3>2, <3>3
  <2> QED
    BY <1>1, <2>1, <2>2, <2>3
<1> QED
  BY <1>6, <1>7 DEF Ahead

LEMMA TypeFacts ==
  ASSUME TypeOK
  PROVE  /\ OrderOK(currentOrder) /\ ListsOK(actions)
         /\ actionStates \in [Action -> Status]
         /\ scheduled \in SUBSET [action : Action, place : Place]
         /\ traversing \in Seq(EdgePlace)
         /\ stopTraverse \in Nat /\ ending \subseteq Action /\ env \in Scenarios
BY DEF TypeOK

(* Only what has not been started yet is started.                          *)
Fresh == \A c \in scheduled' : c \notin scheduled => actionStates[c.action] \in {"ABSENT", "WAITING"}

LEMMA StartActionInv ==
  ASSUME IInv, PromptCancelation, NEW c \in scheduled, StartAction(c)
  PROVE  OrderInv' /\ RouteInv' /\ CancelInv'
<1> USE DEF IInv, OrderInv, CancelInv, adapterVars, masterVars
<1>1. ~ env.cancels /\ ~ hasCancelingOrder
  BY DEF StartAction, hasCancelingOrder
<1>2. /\ actionStates' = [actionStates EXCEPT ![c.action] = "ACTIVE"]
      /\ UNCHANGED <<currentOrder, actions, nodeStates, edgeStates, lastNode, rejections,
                     paused, pausedNode, cancelContext, scheduled, ending, traversing,
                     stopTraverse, inbox, cancelStates, pauses, env>>
  BY DEF StartAction
<1>3. c.action \in Action
  BY TypeFacts
<1>4. c.action \in ReleasedActions(currentOrder, actions)
  BY DEF Executing, ReleasedActions, BaseRange
<1>5. Reported(currentOrder, actions, actionStates')
  BY <1>2, <1>3, <1>4, TypeFacts DEF Reported
<1>6. Executing(currentOrder, actions, actionStates', scheduled, traversing)
  BY <1>2, <1>3, TypeFacts DEF Executing
<1>7. OrderInv'
  BY <1>2, <1>5, <1>6 DEF Received
<1>8. RouteInv'
  <2>1. EnRoute
    BY <1>1 DEF RouteInv, Inactive, Suspended
  <2>2. Ahead(currentOrder, actions, actionStates', scheduled, traversing, lastNode.seq)
    BY <1>2, <2>1, EndingAhead, TypeFacts DEF EnRoute, Status
  <2> QED
    BY <1>2, <2>1, <2>2 DEF RouteInv, EnRoute
<1>9. CancelInv'
  BY <1>1, <1>2 DEF hasCancelingOrder
<1> QED
  BY <1>7, <1>8, <1>9

(* The statuses after c has ended, and the calls that follow.              *)
Ended(c) == [actionStates EXCEPT ![c.action] = "ENDED"]

Following(c) == ContinueAfter(c, currentOrder, actions, Ended(c))

(* The order continues when the last action that is executed ends.         *)
LEMMA EndingCalls ==
  ASSUME IInv, ~ hasCancelingOrder, NEW c \in scheduled
  PROVE  /\ Following(c) \in Calls
         /\ scheduled \ {c} = {} =>
              Proper(currentOrder, actions, Ended(c), Following(c), lastNode.seq)
         /\ scheduled \ {c} # {} => Following(c) = NoCalls
<1> USE DEF IInv, OrderInv
<1>1. c \in [action : Action, place : Place]
  BY TypeFacts
<1>2. Following(c) \in Calls
  BY <1>1, ContinueAfterType, TypeFacts DEF Following
<1>3. ASSUME scheduled \ {c} = {}
      PROVE  Proper(currentOrder, actions, Ended(c), Following(c), lastNode.seq)
  <2>1. scheduled = {c}
    BY <1>3
  <2>2. EnRoute
    BY DEF RouteInv, Inactive, Suspended
  <2>3. /\ Executing(currentOrder, actions, actionStates, {c}, traversing)
        /\ Ahead(currentOrder, actions, actionStates, {c}, traversing, lastNode.seq)
    BY <2>1, <2>2 DEF EnRoute
  <2> QED
    BY <1>1, <2>3, ContinueAfterProper, TypeFacts DEF Ended, Following
<1>4. ASSUME NEW d \in scheduled \ {c}
      PROVE  Following(c) = NoCalls
  <2>1. /\ c.place \in Place /\ c.place.seq \in BaseRange(currentOrder)
        /\ c.place = PlaceIn(currentOrder, c.place.seq)
        /\ d \in [action : Action, place : Place]
    BY <1>1, TypeFacts DEF Executing
  <2>2. ActionsOf(c.place, actions) = List(currentOrder, actions, c.place.seq)
    BY <2>1, ListFacts, TypeFacts
  <2>3. \A i, j \in DOMAIN ActionsOf(c.place, actions) :
          ActionsOf(c.place, actions)[i] = ActionsOf(c.place, actions)[j] => i = j
    BY <2>1, <2>2 DEF Structured
  <2>4. Together(ActionsOf(c.place, actions), c.action, d.action)
    BY DEF Executing
  <2>5. Ended(c)[d.action] # "ENDED"
    <3>1. Executing(currentOrder, actions, Ended(c), scheduled \ {c}, << >>)
      BY EndingExecuting, TypeFacts DEF Ended
    <3> QED
      BY <3>1 DEF Executing
  <2>6. ListsOK(actions)
    BY TypeFacts
  <2> QED
    BY <1>1, <2>1, <2>3, <2>4, <2>5, <2>6, ContinueAfterOther DEF Following
<1> QED
  BY <1>2, <1>3, <1>4

LEMMA EndActionInv ==
  ASSUME IInv, PromptCancelation, NEW c \in scheduled, EndAction(c)
  PROVE  OrderInv' /\ RouteInv' /\ CancelInv' /\ Fresh
<1> USE DEF IInv, OrderInv, CancelInv, masterVars
<1> DEFINE statuses == [actionStates EXCEPT ![c.action] = "ENDED"]
           k == ContinueAfter(c, currentOrder, actions, statuses)
<1>1. /\ c \in [action : Action, place : Place]
      /\ statuses \in [Action -> Status] /\ statuses[c.action] = "ENDED"
      /\ \A a \in Action : a # c.action => statuses[a] = actionStates[a]
  BY TypeFacts DEF Status
<1>2. /\ traversing = << >>
      /\ Executing(currentOrder, actions, statuses, scheduled \ {c}, << >>)
      /\ \A d \in scheduled \ {c} : d.action # c.action
  BY EndingExecuting, TypeFacts
<1>3. /\ UNCHANGED <<currentOrder, actions, nodeStates, edgeStates, lastNode, rejections,
                     paused, pausedNode, cancelContext, inbox, cancelStates, pauses, env>>
      /\ ending' = ending \ {c.action}
  BY DEF EndAction
<1>4. stopTraverse = 0
  BY TypeFacts
<1>5. Reported(currentOrder, actions, statuses)
  <2>1. c.action \in ReleasedActions(currentOrder, actions)
    BY DEF Executing, ReleasedActions, BaseRange
  <2> QED
    BY <1>1, <2>1 DEF Reported
<1>6. CASE hasCancelingOrder
  <2>1. /\ Invoke(NoCalls, statuses, scheduled \ {c}, traversing)
        /\ stopTraverse' = IF AllOrderActionsEnded(statuses) THEN stopTraverse + 1 ELSE stopTraverse
    BY <1>6 DEF EndAction
  <2>2. scheduled' = scheduled \ {c} /\ traversing' = << >> /\ actionStates' = statuses
    BY <1>1, <1>2, <2>1, InvokeNothing, TypeFacts
  <2>3. env.cancels /\ hasCancelingOrder'
    BY <1>3, <1>6 DEF hasCancelingOrder
  <2>4. OrderInv' /\ RouteInv'
    BY <1>2, <1>3, <1>5, <2>2, <2>3 DEF Received, RouteInv
  <2>7. Fresh
    BY <2>2 DEF Fresh
  <2>5. AllOrderActionsEnded(statuses) <=> scheduled \ {c} = {}
    <3>1. ASSUME scheduled \ {c} = {}, NEW a \in ReleasedActions(currentOrder, actions)
          PROVE  statuses[a] = "ENDED"
      <4>1. a \in Action
        BY ListFacts, TypeFacts DEF ReleasedActions, BaseRange
      <4>2. statuses[a] # "ABSENT" /\ statuses[a] # "ACTIVE"
        BY <1>2, <1>5, <3>1, <4>1 DEF Reported, Executing
      <4>3. statuses[a] # "WAITING"
        BY <1>1, <1>6, <4>1
      <4> QED
        BY <1>1, <4>1, <4>2, <4>3 DEF Status
    <3>2. ASSUME NEW d \in scheduled \ {c}
          PROVE  /\ d.action \in ReleasedActions(currentOrder, actions)
                 /\ statuses[d.action] # "ENDED"
      BY <1>2 DEF Executing, ReleasedActions, BaseRange
    <3> QED
      BY <3>1, <3>2 DEF AllOrderActionsEnded
  <2>6. CancelInv'
    <3>1. cancelContext' \in Cancels /\ \A a \in Action : actionStates'[a] # "WAITING"
      BY <1>1, <1>3, <1>6, <2>2
    <3>2. \A d \in scheduled' : d.action \in ending' /\ actionStates'[d.action] = "ACTIVE"
      BY <1>1, <1>2, <1>3, <1>6, <2>2, <2>3, TypeFacts
    <3>3. stopTraverse' = IF scheduled' = {} THEN 1 ELSE 0
      BY <1>4, <2>1, <2>2, <2>5
    <3> QED
      BY <1>3, <2>3, <3>1, <3>2, <3>3
  <2> QED
    BY <2>4, <2>6, <2>7
<1>7. CASE ~ hasCancelingOrder
  <2>1. Invoke(k, statuses, scheduled \ {c}, << >>) /\ stopTraverse' = stopTraverse
    BY <1>2, <1>7 DEF EndAction
  <2>2. EnRoute
    BY <1>7 DEF RouteInv, Inactive, Suspended
  <2>3. /\ Reported(currentOrder, actions, actionStates')
        /\ Executing(currentOrder, actions, actionStates', scheduled', traversing')
        /\ Ahead(currentOrder, actions, actionStates', scheduled', traversing', lastNode.seq)
        /\ env.cancels => \A d \in scheduled' : actionStates'[d.action] = "ACTIVE"
        /\ Fresh
    <3>1. CASE scheduled \ {c} = {}
      <4>1. Proper(currentOrder, actions, statuses, k, lastNode.seq)
        BY <1>7, <3>1, EndingCalls DEF Ended, Following
      <4>2. k \in Calls
        BY <1>7, EndingCalls DEF Ended, Following
      <4> HIDE DEF k, statuses
      <4>3. scheduled' = k.execute /\ traversing' = k.traverse /\ actionStates' = Started(k, statuses)
        BY <2>1, <3>1, <4>2, InvokeAlone
      <4>4. /\ Executing(currentOrder, actions, Started(k, statuses), k.execute, k.traverse)
            /\ Ahead(currentOrder, actions, Started(k, statuses), k.execute, k.traverse, lastNode.seq)
            /\ \A d \in k.execute : statuses[d.action] = "WAITING"
        BY <4>1 DEF Proper
      <4>5. /\ Reported(currentOrder, actions, Started(k, statuses))
            /\ ~ env.defersStart =>
                 \A d \in k.execute : Started(k, statuses)[d.action] = "ACTIVE"
        BY <1>1, <1>5, <4>2, <4>4, StartedFacts
      <4>6. Fresh
        <5>1. \A d \in k.execute : d.action \in Action
          BY <4>2 DEF Calls
        <5> QED
          BY <1>1, <4>3, <4>4, <5>1 DEF Fresh
      <4> QED
        BY <4>3, <4>4, <4>5, <4>6, DefersNotCancels
    <3>2. CASE scheduled \ {c} # {}
      <4>1. k = NoCalls
        BY <1>7, <3>2, EndingCalls DEF Ended, Following
      <4>2. scheduled' = scheduled \ {c} /\ traversing' = << >> /\ actionStates' = statuses
        <5> HIDE DEF k, statuses
        <5>1. Invoke(NoCalls, statuses, scheduled \ {c}, << >>) /\ << >> \in Seq(EdgePlace)
          BY <2>1, <4>1
        <5> QED
          BY <1>1, <5>1, InvokeNothing
      <4>3. Ahead(currentOrder, actions, statuses, scheduled \ {c}, << >>, lastNode.seq)
        BY <1>2, <2>2, EndingAhead, TypeFacts DEF EnRoute, Status
      <4> QED
        BY <1>1, <1>2, <1>5, <4>2, <4>3, TypeFacts DEF Fresh
    <3> QED
      BY <3>1, <3>2
  <2>4. OrderInv'
    BY <1>3, <2>3 DEF Received
  <2>5. RouteInv'
    BY <1>3, <2>2, <2>3 DEF RouteInv, EnRoute
  <2>6. CancelInv'
    BY <1>3, <1>4, <1>7, <2>1, <2>3 DEF hasCancelingOrder
  <2> QED
    BY <2>3, <2>4, <2>5, <2>6
<1> QED
  BY <1>6, <1>7

LEMMA EdgeTraversedInv ==
  ASSUME IInv, PromptCancelation, NEW i \in DOMAIN traversing, EdgeTraversed(i)
  PROVE  OrderInv' /\ RouteInv' /\ CancelInv' /\ Fresh
<1> USE DEF IInv, OrderInv, CancelInv, masterVars
<1>1. /\ UNCHANGED <<currentOrder, actions, rejections, paused, cancelContext, stopTraverse,
                     inbox, cancelStates, pauses, env>>
      /\ ~ paused
  BY DEF EdgeTraversed
<1>2. Len(traversing) = 1 /\ i = 1 /\ Remaining(i) = << >> /\ scheduled = {} /\ traversing # << >>
  <2>1. Len(traversing) = 1 /\ i = 1 /\ scheduled = {} /\ traversing # << >>
    BY TypeFacts DEF Executing
  <2> QED
    BY <2>1, TypeFacts DEF Remaining
<1>3. CASE hasCancelingOrder
  <2>1. /\ traversing' = << >>
        /\ UNCHANGED <<nodeStates, edgeStates, lastNode, pausedNode, ending, scheduled, actionStates>>
    BY <1>2, <1>3 DEF EdgeTraversed
  <2>2. Executing(currentOrder, actions, actionStates, scheduled, << >>)
    BY <1>2 DEF Executing
  <2> QED
    BY <1>1, <1>3, <2>1, <2>2 DEF RouteInv, Received, hasCancelingOrder, Fresh
<1>4. CASE ~ hasCancelingOrder
  <2> DEFINE pos == lastNode.seq
             e == PlaceIn(currentOrder, pos + 1)
             st == [Now EXCEPT !.traversing = Remaining(i)]
  <2>1. EnRoute
    BY <1>2, <1>4 DEF RouteInv, Inactive, Suspended
  <2>2. /\ pos \in Nat /\ pos + 1 \in BaseRange(currentOrder) /\ pos \in BaseRange(currentOrder)
        /\ IsNode(pos) /\ traversing[i] = e
    BY <1>2, <2>1, ListFacts, TypeFacts DEF EnRoute, Ahead
  <2>3. /\ IsNode(pos + 2) /\ pos + 2 \in BaseRange(currentOrder)
        /\ EndNodeOf(e) = PlaceIn(currentOrder, pos + 2) /\ e.seq = pos + 1
    <3>1. ~ IsNode(pos + 1) /\ IsNode(pos + 2)
      <4>1. ~ IsNode(pos + 1)
        BY <2>2, Parity
      <4>2. ~ IsNode(pos + 1) => IsNode(pos + 1 + 1)
        BY <2>2, Parity
      <4>3. pos + 1 + 1 = pos + 2
        BY <2>2
      <4> QED
        BY <4>1, <4>2, <4>3
    <3>2. pos + 1 # currentOrder.base
      BY <2>1, <3>1 DEF Structured, EnRoute
    <3>3. pos + 2 \in BaseRange(currentOrder)
      BY <2>2, <3>2, TypeFacts DEF BaseRange, OrderOK
    <3>4. currentOrder.at[pos + 1 + 1] = currentOrder.at[pos + 1]
      <4>1. pos + 1 \in currentOrder.first .. currentOrder.last
        BY <2>2, ListFacts, TypeFacts
      <4>2. \A s \in currentOrder.first .. currentOrder.last :
              ~ IsNode(s) => currentOrder.at[s + 1] = currentOrder.at[s]
        BY DEF Structured
      <4> QED
        BY <3>1, <4>1, <4>2
    <3> QED
      BY <2>2, <3>1, <3>3, <3>4 DEF EndNodeOf, PlaceIn
  <2>4. ProcessNode(PlaceIn(currentOrder, pos + 2), {e}, st)
    BY <1>4, <2>2, <2>3 DEF EdgeTraversed
  <2>5. /\ st.order = currentOrder /\ st.lists = actions /\ st.statuses = actionStates
        /\ ~ st.paused /\ st.traversing = << >> /\ st.pausedNode = pausedNode
        /\ st.nodes = nodeStates /\ st.edges = edgeStates
    BY <1>1, <1>2 DEF Now
  <2>6. \A a \in Action : actionStates[a] # "ACTIVE"
    BY <1>2 DEF Executing
  <2>7. \A s \in BaseRange(currentOrder) : s >= pos + 2 =>
          \A j \in DOMAIN List(currentOrder, actions, s) :
            actionStates[List(currentOrder, actions, s)[j]] = "WAITING"
    <3>1. \A s \in BaseRange(currentOrder) : s >= pos + 2 => s > pos + 1
      BY <2>2, TypeFacts DEF BaseRange, OrderOK
    <3> QED
      BY <2>1, <3>1 DEF EnRoute, Ahead
  <2> HIDE DEF st, e, pos
  <2>8. /\ pausedNode' = pausedNode
        /\ nodeStates' = nodeStates \ {pos + 2}
        /\ edgeStates' = edgeStates \ {x.seq : x \in {e}}
        /\ lastNode' = PlaceIn(currentOrder, pos + 2)
        /\ Reported(currentOrder, actions, actionStates')
        /\ Executing(currentOrder, actions, actionStates', scheduled', traversing')
        /\ Ahead(currentOrder, actions, actionStates', scheduled', traversing', pos + 2)
        /\ ~ env.defersStart => \A c \in scheduled' : actionStates'[c.action] = "ACTIVE"
        /\ \A c \in scheduled' : actionStates[c.action] = "WAITING"
    BY <1>2, <2>3, <2>4, <2>5, <2>6, <2>7, ProcessNodeStep, TypeFacts
  <2>9. lastNode'.seq = pos + 2 /\ lastNode' # None
    <3>1. lastNode' \in Place
      BY <2>3, <2>8, ListFacts, TypeFacts
    <3> QED
      BY <2>8, <3>1, EnvironmentAssumption DEF PlaceIn, Place
  <2>10. /\ nodeStates' = NodesIn(pos + 3, currentOrder.last)
         /\ edgeStates' = EdgesIn(pos + 3, currentOrder.last)
    <3>1. currentOrder.last \in Int /\ pos + 2 \in Nat /\ pos + 2 + 1 = pos + 3
      BY <2>2, TypeFacts DEF OrderOK
    <3>2. /\ NodesIn(pos + 1, currentOrder.last) = NodesIn(pos + 2, currentOrder.last)
          /\ EdgesIn(pos + 1, currentOrder.last) \ {pos + 1} = EdgesIn(pos + 2, currentOrder.last)
      BY <2>2, <3>1, NodesAhead
    <3>3. /\ NodesIn(pos + 2, currentOrder.last) \ {pos + 2} = NodesIn(pos + 2 + 1, currentOrder.last)
          /\ EdgesIn(pos + 2, currentOrder.last) = EdgesIn(pos + 2 + 1, currentOrder.last)
      BY <2>3, <3>1, NodesAhead
    <3>4. {x.seq : x \in {e}} = {pos + 1}
      BY <2>3
    <3>5. nodeStates = NodesIn(pos + 1, currentOrder.last) /\ edgeStates = EdgesIn(pos + 1, currentOrder.last)
      BY <2>1 DEF EnRoute, pos
    <3> QED
      BY <2>8, <3>1, <3>2, <3>3, <3>4, <3>5
  <2>11. OrderInv'
    BY <1>1, <2>8 DEF Received
  <2>12. EnRoute'
    <3>1. lastNode'.seq + 1 = pos + 3
      BY <2>2, <2>9
    <3> QED
      BY <1>1, <2>1, <2>8, <2>9, <2>10, <3>1 DEF EnRoute
  <2>13. CancelInv'
    BY <1>1, <1>4, <2>8, DefersNotCancels DEF hasCancelingOrder
  <2> QED
    BY <2>8, <2>11, <2>12, <2>13 DEF RouteInv, Fresh
<1> QED
  BY <1>3, <1>4

LEMMA CancelOrderInv ==
  ASSUME IInv, PromptCancelation, NEW c \in Cancels, CancelOrder(c)
  PROVE  OrderInv' /\ RouteInv' /\ CancelInv'
<1> USE DEF IInv, OrderInv, CancelInv
<1>1. /\ env.cancels
      /\ UNCHANGED <<currentOrder, actions, nodeStates, edgeStates, lastNode, rejections,
                     paused, pausedNode, scheduled, traversing, inbox, pauses, env>>
  BY DEF CancelOrder
<1>2. CASE ~ hasActiveOrder \/ hasCancelingOrder
  <2>1. UNCHANGED <<cancelContext, actionStates, ending, stopTraverse>>
    BY <1>2 DEF CancelOrder
  <2> QED
    BY <1>1, <2>1 DEF Received, RouteInv, hasCancelingOrder, hasActiveOrder,
                      Inactive, Suspended, EnRoute
<1>3. CASE ~ (~ hasActiveOrder \/ hasCancelingOrder)
  <2>1. /\ cancelContext' = c
        /\ actionStates' = [a \in Action |-> IF actionStates[a] = "WAITING"
                                             THEN "ENDED" ELSE actionStates[a]]
        /\ ending' = ending \cup ActionsToCancel
        /\ stopTraverse' = IF ActionsToCancel # {} THEN stopTraverse ELSE stopTraverse + 1
    BY <1>3 DEF CancelOrder
  <2>2. hasCancelingOrder' /\ stopTraverse = 0
    BY <1>3, <2>1, TypeFacts, EnvironmentAssumption DEF hasCancelingOrder
  <2>3. \A d \in scheduled : d.action \in Action /\ d.action \in ActionsToCancel
    BY <1>1, TypeFacts DEF ActionsToCancel
  <2>4. ActionsToCancel # {} <=> scheduled # {}
    BY <2>3 DEF ActionsToCancel, Executing
  <2>5. Executing(currentOrder, actions, actionStates', scheduled, traversing)
    BY <1>1, <2>1, <2>3 DEF Executing
  <2>6. Reported(currentOrder, actions, actionStates')
    BY <2>1 DEF Reported
  <2>7. CancelInv'
    <3>1. stopTraverse' = IF scheduled' = {} THEN 1 ELSE 0
      BY <1>1, <2>1, <2>2, <2>4
    <3>2. \A d \in scheduled' : d.action \in ending' /\ actionStates'[d.action] = "ACTIVE"
      BY <1>1, <2>1, <2>3
    <3>3. \A a \in Action : actionStates'[a] # "WAITING"
      BY <2>1
    <3> QED
      BY <1>1, <2>1, <2>2, <3>1, <3>2, <3>3
  <2> QED
    BY <1>1, <2>2, <2>5, <2>6, <2>7 DEF Received, RouteInv
<1> QED
  BY <1>2, <1>3

LEMMA StoppedInv ==
  ASSUME IInv, PromptCancelation, Stopped
  PROVE  OrderInv' /\ RouteInv' /\ CancelInv'
<1> USE DEF IInv, OrderInv, CancelInv
<1>1. /\ stopTraverse = 1 /\ hasCancelingOrder /\ scheduled = {} /\ env.cancels
      /\ pausedNode = None /\ ~ paused
  BY DEF Stopped, hasCancelingOrder
<1>2. /\ stopTraverse' = 0 /\ traversing' = << >> /\ nodeStates' = {} /\ edgeStates' = {}
      /\ cancelContext' = None
      /\ UNCHANGED <<currentOrder, actions, actionStates, lastNode, rejections, pausedNode,
                     scheduled, ending, inbox, pauses, env>>
  BY <1>1 DEF Stopped
<1>3. ~ paused'
  BY <1>1, Zenon DEF Stopped
<1>4. Executing(currentOrder, actions, actionStates, scheduled, << >>)
  BY <1>1 DEF Executing
<1>5. OrderInv'
  BY <1>2, <1>4 DEF Received
<1>6. \A a \in Action : actionStates[a] # "WAITING" /\ actionStates[a] # "ACTIVE"
  BY <1>1 DEF Executing
<1>7. Inactive'
  BY <1>1, <1>2, <1>6 DEF Inactive, hasActiveOrder
<1>8. CancelInv'
  BY <1>1, <1>2, <1>3 DEF hasCancelingOrder
<1> QED
  BY <1>5, <1>7, <1>8 DEF RouteInv

LEMMA DrivingToNextNodeInv ==
  ASSUME IInv, DrivingToNextNode
  PROVE  OrderInv' /\ RouteInv' /\ CancelInv'
<1> USE DEF IInv, OrderInv, CancelInv, adapterVars, masterVars
<1>1. /\ hasCancelingOrder
      /\ UNCHANGED <<currentOrder, actions, actionStates, lastNode, rejections, paused,
                     pausedNode, cancelContext, scheduled, ending, traversing, stopTraverse,
                     inbox, cancelStates, pauses, env>>
  BY DEF DrivingToNextNode
<1> QED
  BY <1>1 DEF Received, RouteInv, hasCancelingOrder

LEMMA PauseInv ==
  ASSUME IInv, PromptCancelation, StartPause \/ PushPauseButton
  PROVE  OrderInv' /\ RouteInv' /\ CancelInv'
<1> USE DEF IInv, OrderInv, CancelInv, adapterVars
<1>1. /\ env.pauses \/ env.button
      /\ UNCHANGED <<currentOrder, actions, nodeStates, edgeStates, actionStates, lastNode,
                     rejections, pausedNode, cancelContext, scheduled, ending, traversing,
                     stopTraverse, inbox, cancelStates, env>>
  BY DEF StartPause, PushPauseButton
<1>2. ~ env.cancels
  BY <1>1, DefersNotCancels
<1>3. OrderInv' /\ RouteInv'
  BY <1>1 DEF Received, RouteInv, hasCancelingOrder, Inactive, Suspended, EnRoute, hasActiveOrder
<1>4. CancelInv'
  BY <1>1, <1>2 DEF hasCancelingOrder
<1> QED
  BY <1>3, <1>4

LEMMA StopPauseInv ==
  ASSUME IInv, PromptCancelation, StopPause
  PROVE  OrderInv' /\ RouteInv' /\ CancelInv' /\ Fresh
<1> USE DEF IInv, OrderInv, CancelInv, masterVars
<1>1. /\ env.pauses /\ paused' = FALSE
      /\ UNCHANGED <<currentOrder, actions, rejections, cancelContext, stopTraverse, inbox,
                     cancelStates, pauses, env>>
  BY DEF StopPause
<1>2. ~ env.cancels /\ ~ hasCancelingOrder
  BY <1>1, DefersNotCancels DEF hasCancelingOrder
<1>3. CASE pausedNode = None
  <2>1. UNCHANGED <<nodeStates, edgeStates, actionStates, lastNode, scheduled, ending, traversing>>
        /\ pausedNode' = pausedNode
    BY <1>3 DEF StopPause
  <2> QED
    BY <1>1, <1>2, <2>1 DEF Received, RouteInv, hasCancelingOrder, Inactive, Suspended,
                            EnRoute, hasActiveOrder, Fresh
<1>4. CASE pausedNode # None
  <2> DEFINE pos == currentOrder.first
             st == [Now EXCEPT !.paused = FALSE, !.pausedNode = None]
  <2>1. Suspended
    BY <1>2, <1>4 DEF RouteInv, Inactive, EnRoute
  <2>2. pos \in Nat /\ pos \in BaseRange(currentOrder) /\ IsNode(pos)
    BY <2>1, TypeFacts DEF Suspended, Structured, OrderOK, BaseRange
  <2>3. ProcessNode(PlaceIn(currentOrder, pos), {}, st)
    BY <1>2, <1>4, <2>1 DEF StopPause, Suspended
  <2>4. /\ st.order = currentOrder /\ st.lists = actions /\ st.statuses = actionStates
        /\ ~ st.paused /\ st.traversing = << >> /\ st.pausedNode = None
        /\ st.nodes = nodeStates /\ st.edges = edgeStates /\ scheduled = {}
    BY <2>1 DEF Now, Suspended
  <2>5. \A a \in Action : actionStates[a] # "ACTIVE"
    BY <2>1 DEF Executing, Suspended
  <2>6. \A s \in BaseRange(currentOrder) : s >= pos =>
          \A j \in DOMAIN List(currentOrder, actions, s) :
            actionStates[List(currentOrder, actions, s)[j]] = "WAITING"
    <3> SUFFICES ASSUME NEW s \in BaseRange(currentOrder),
                        NEW j \in DOMAIN List(currentOrder, actions, s)
                 PROVE  actionStates[List(currentOrder, actions, s)[j]] = "WAITING"
      OBVIOUS
    <3>1. List(currentOrder, actions, s)[j] \in ActionSet(PlaceIn(currentOrder, s), actions)
      BY ListFacts, TypeFacts
    <3>2. List(currentOrder, actions, s)[j] \in ReleasedActions(currentOrder, actions)
      BY <3>1 DEF ReleasedActions, BaseRange
    <3> QED
      BY <2>1, <3>2 DEF Suspended
  <2> HIDE DEF st, pos
  <2>7. /\ pausedNode' = None
        /\ nodeStates' = nodeStates \ {pos}
        /\ edgeStates' = edgeStates \ {x.seq : x \in {}}
        /\ lastNode' = PlaceIn(currentOrder, pos)
        /\ Reported(currentOrder, actions, actionStates')
        /\ Executing(currentOrder, actions, actionStates', scheduled', traversing')
        /\ Ahead(currentOrder, actions, actionStates', scheduled', traversing', pos)
        /\ \A c \in scheduled' : actionStates[c.action] = "WAITING"
    BY <2>2, <2>3, <2>4, <2>5, <2>6, ProcessNodeStep, TypeFacts
  <2>8. lastNode'.seq = pos /\ lastNode' # None
    <3>1. lastNode' \in Place
      BY <2>2, <2>7, ListFacts, TypeFacts
    <3> QED
      BY <2>7, <3>1, EnvironmentAssumption DEF PlaceIn, Place
  <2>9. /\ nodeStates' = NodesIn(pos + 1, currentOrder.last)
        /\ edgeStates' = EdgesIn(pos + 1, currentOrder.last)
    <3>1. currentOrder.last \in Int
      BY TypeFacts DEF OrderOK
    <3>2. nodeStates = NodesIn(pos, currentOrder.last) /\ edgeStates = EdgesIn(pos, currentOrder.last)
      BY <2>1 DEF Suspended, pos
    <3> QED
      BY <2>2, <2>7, <3>1, <3>2, NodesAhead
  <2>10. OrderInv'
    BY <1>1, <2>7 DEF Received
  <2>11. EnRoute'
    BY <1>1, <2>1, <2>7, <2>8, <2>9 DEF EnRoute, Suspended
  <2>12. CancelInv'
    BY <1>1, <1>2 DEF hasCancelingOrder
  <2> QED
    BY <2>7, <2>10, <2>11, <2>12 DEF RouteInv, Fresh
<1> QED
  BY <1>3, <1>4

LEMMA RejectOrderInv ==
  ASSUME IInv, NEW o \in inbox, RejectOrder(o) \/ DiscardOrder(o),
         inbox' = inbox \ {o}, UNCHANGED <<cancelStates, pauses, env>>
  PROVE  OrderInv' /\ RouteInv' /\ CancelInv'
<1> USE DEF IInv, OrderInv, CancelInv, adapterVars, controllerVars
<1>1. UNCHANGED <<currentOrder, actions, nodeStates, edgeStates, actionStates, lastNode, paused,
                  pausedNode, cancelContext, scheduled, ending, traversing, stopTraverse, env>>
  BY DEF RejectOrder, DiscardOrder
<1>2. Received'
  BY <1>1 DEF Received
<1>3. RouteInv'
  BY <1>1 DEF RouteInv, hasCancelingOrder, Inactive, Suspended, EnRoute, hasActiveOrder
<1>4. CancelInv'
  BY <1>1 DEF hasCancelingOrder
<1> QED
  BY <1>1, <1>2, <1>3, <1>4

(* When no order is active or being canceled, nothing is executed.         *)
LEMMA InactiveFacts ==
  ASSUME IInv, ~ hasCancelingOrder, ~ hasActiveOrder
  PROVE  Inactive
<1> USE DEF IInv, OrderInv
<1>1. ~ Suspended
  <2> SUFFICES ASSUME Suspended PROVE FALSE
    OBVIOUS
  <2>1. currentOrder.first \in NodesIn(currentOrder.first, currentOrder.last)
    BY TypeFacts DEF Suspended, Structured, OrderOK, NodesIn
  <2> QED
    BY <2>1 DEF Suspended, hasActiveOrder
<1>2. ASSUME EnRoute
      PROVE  Inactive
  <2>1. scheduled = {}
    BY <1>2, TypeFacts DEF Executing, hasActiveOrder
  <2>2. traversing = << >>
    <3> SUFFICES ASSUME traversing # << >> PROVE FALSE
      OBVIOUS
    <3> DEFINE e == lastNode.seq + 1
    <3>1. e \in BaseRange(currentOrder)
      BY <1>2 DEF EnRoute, Ahead
    <3>2. e \in currentOrder.first .. currentOrder.last /\ currentOrder.last \in Int
      BY <3>1, ListFacts, TypeFacts DEF OrderOK
    <3>3. e \in NodesIn(e, currentOrder.last) \cup EdgesIn(e, currentOrder.last)
      BY <3>2, TypeFacts DEF NodesIn, EdgesIn, OrderOK
    <3> QED
      BY <1>2, <3>3 DEF EnRoute, hasActiveOrder
  <2> QED
    BY <1>2, <2>1, <2>2 DEF Inactive, EnRoute
<1> QED
  BY <1>1, <1>2 DEF RouteInv

LEMMA ReplacementFacts ==
  ASSUME NEW o \in Orders, ListsOK(actions), actions[o] = Msg[o].actions, NoneActionsAlone
  PROVE  /\ Structured(Replacement(o), actions)
         /\ ReleasedActions(Replacement(o), actions) = MessageActions(o)
         /\ Reported(Replacement(o), actions, ReplacementStatuses(o))
         /\ Msg[o].first \in BaseRange(Replacement(o)) /\ IsNode(Msg[o].first)
         /\ \A s \in BaseRange(Replacement(o)) : \A i \in DOMAIN List(Replacement(o), actions, s) :
              Brings(o, Replacement(o), s, List(Replacement(o), actions, s)[i])
<1> DEFINE ord == Replacement(o)
<1>1. /\ ord.first = Msg[o].first /\ ord.base = Msg[o].base /\ ord.last = Msg[o].last
      /\ ord.orderId = Msg[o].orderId
      /\ ord.at = [s \in Msg[o].first .. Msg[o].last |-> o]
      /\ BaseRange(ord) = Msg[o].first .. Msg[o].base
  BY DEF Replacement, BaseRange
<1> HIDE DEF ord
<1>2. ASSUME NEW s \in Msg[o].first .. Msg[o].base
      PROVE  /\ List(ord, actions, s) = Msg[o].actions[s]
             /\ ActionSet(PlaceIn(ord, s), actions) =
                  {Msg[o].actions[s][i] : i \in DOMAIN Msg[o].actions[s]}
  <2>1. ord.at[s] = o
    BY <1>1, MessageFacts
  <2> QED
    BY <2>1 DEF List, ActionSet, ActionsOf, PlaceIn
<1>3. ReleasedActions(ord, actions) = MessageActions(o)
  BY <1>1, <1>2 DEF ReleasedActions, MessageActions
<1>4. \A s \in ord.first .. ord.last : ~ IsNode(s) => s < ord.last /\ ord.at[s + 1] = ord.at[s]
  <2> SUFFICES ASSUME NEW s \in ord.first .. ord.last, ~ IsNode(s)
               PROVE  s < ord.last /\ ord.at[s + 1] = ord.at[s]
    OBVIOUS
  <2>1. s # ord.last /\ s \in Int /\ ord.last \in Int /\ ord.first \in Int
    BY <1>1, MessageFacts
  <2> QED
    BY <1>1, <2>1
<1>5. \A s, t \in BaseRange(ord) :
       \A i \in DOMAIN List(ord, actions, s), j \in DOMAIN List(ord, actions, t) :
         List(ord, actions, s)[i] = List(ord, actions, t)[j] => s = t /\ i = j
  BY <1>1, <1>2, UniqueListed
<1>6. \A s \in BaseRange(ord) : \A i \in DOMAIN List(ord, actions, s) :
       Blocking[List(ord, actions, s)[i]] = "NONE" => Parallel(List(ord, actions, s), i) = {}
  <2> SUFFICES ASSUME NEW s \in BaseRange(ord), NEW i \in DOMAIN List(ord, actions, s),
                      Blocking[List(ord, actions, s)[i]] = "NONE"
               PROVE  Parallel(List(ord, actions, s), i) = {}
    OBVIOUS
  <2>1. s \in Msg[o].first .. Msg[o].base /\ List(ord, actions, s) = Msg[o].actions[s]
    BY <1>1, <1>2
  <2>2. Parallel(Msg[o].actions[s], i) = {}
    BY <2>1 DEF NoneActionsAlone
  <2> QED
    BY <2>1, <2>2
<1>7. Structured(ord, actions)
  BY <1>1, <1>4, <1>5, <1>6, MessageFacts DEF Structured
<1>8. Reported(ord, actions, ReplacementStatuses(o))
  BY <1>3 DEF Reported, ReplacementStatuses
<1>9. Msg[o].first \in BaseRange(ord) /\ IsNode(Msg[o].first)
  BY <1>1, MessageFacts
<1>10. ASSUME NEW s \in BaseRange(ord), NEW i \in DOMAIN List(ord, actions, s)
       PROVE  Brings(o, ord, s, List(ord, actions, s)[i])
  <2>1. s \in Msg[o].first .. Msg[o].base /\ List(ord, actions, s) = Msg[o].actions[s]
    BY <1>1, <1>2
  <2>2. ord.at[s] = o
    BY <1>1, <2>1, MessageFacts
  <2> QED
    BY <2>1, <2>2 DEF Brings, NodeIdOf, PlaceIn
<1> QED
  BY <1>3, <1>7, <1>8, <1>9, <1>10 DEF ord

(* The actions of a message that has not been received are not reported.   *)
LEMMA NewActions ==
  ASSUME IInv, NEW o \in inbox, o \in Orders, NEW a \in MessageActions(o)
  PROVE  actionStates[a] = "ABSENT"
<1>1. a \in Action
  BY MessageFacts DEF MessageActions
<1>2. a \notin ReleasedActions(currentOrder, actions)
  <2> SUFFICES ASSUME a \in ReleasedActions(currentOrder, actions) PROVE FALSE
    OBVIOUS
  <2>1. PICK q \in Orders \ inbox : a \in MessageActions(q)
    BY DEF IInv, OrderInv, Received
  <2>2. q = o
    BY <2>1, SameMessage
  <2> QED
    BY <2>1, <2>2
<1> QED
  BY <1>1, <1>2 DEF IInv, OrderInv, Reported

LEMMA ReplaceOrderInv ==
  ASSUME IInv, NoneActionsAlone, PromptCancelation, NEW o \in inbox, o \in Orders, ReplaceOrder(o),
         inbox' = inbox \ {o}, UNCHANGED <<cancelStates, pauses, env>>
  PROVE  OrderInv' /\ RouteInv' /\ CancelInv' /\ Fresh
<1> USE DEF IInv
<1> DEFINE ord == Replacement(o)
           pos == Msg[o].first
           new == ReplacementStatuses(o)
           st == [Now EXCEPT !.order = ord, !.statuses = new,
                             !.nodes = NodesIn(pos, Msg[o].last),
                             !.edges = EdgesIn(pos, Msg[o].last)]
<1>1. /\ ~ hasCancelingOrder /\ ~ hasActiveOrder
      /\ currentOrder' = ord
      /\ UNCHANGED <<actions, paused, cancelContext, stopTraverse>>
  BY DEF ReplaceOrder, Replacement, OrderMode
<1>2. ProcessNode(PlaceIn(ord, pos), {}, st)
  BY DEF ReplaceOrder, Replacement, ReplacementStatuses
<1>3. Inactive
  BY <1>1, InactiveFacts
<1>4. /\ Structured(ord, actions) /\ ReleasedActions(ord, actions) = MessageActions(o)
      /\ Reported(ord, actions, new) /\ pos \in BaseRange(ord) /\ IsNode(pos)
      /\ \A s \in BaseRange(ord) : \A i \in DOMAIN List(ord, actions, s) :
           Brings(o, ord, s, List(ord, actions, s)[i])
  BY ReplacementFacts, TypeFacts DEF OrderInv, Received
<1>5. /\ OrderOK(ord) /\ PlaceIn(ord, pos) \in NodePlace /\ new \in [Action -> Status]
  BY ReplacementType
<1>6. /\ ord.orderId = Msg[o].orderId /\ ord.first = pos /\ ord.last = Msg[o].last
      /\ \A s \in ord.first .. ord.last : ord.at[s] = o
      /\ ord.orderId # None
  BY MessageFacts, EnvironmentAssumption DEF Replacement
<1>7. /\ st.order = ord /\ st.lists = actions /\ st.statuses = new
      /\ st.nodes = NodesIn(pos, Msg[o].last) /\ st.edges = EdgesIn(pos, Msg[o].last)
      /\ st.paused = paused /\ st.pausedNode = pausedNode /\ st.traversing = traversing
  BY DEF Now
<1>8. \A a \in Action : new[a] # "ACTIVE" /\ (a \in MessageActions(o) => new[a] = "WAITING")
  BY DEF ReplacementStatuses
<1> HIDE DEF ord, pos, new, st
<1>9. Received'
  <2>1. \A q \in inbox' : actions'[q] = Msg[q].actions
    BY <1>1 DEF OrderInv, Received
  <2>2. \A s \in currentOrder'.first .. currentOrder'.last : currentOrder'.at[s] \notin inbox'
    BY <1>1, <1>6
  <2>3. \A a \in ReleasedActions(currentOrder', actions') : \E q \in Orders \ inbox' : a \in MessageActions(q)
    BY <1>1, <1>4
  <2>4. \A s \in BaseRange(currentOrder') : \A i \in DOMAIN List(currentOrder', actions', s) :
          \E q \in Orders \ inbox' : Brings(q, currentOrder', s, List(currentOrder', actions', s)[i])
    BY <1>1, <1>4
  <2> QED
    BY <2>1, <2>2, <2>3, <2>4 DEF Received
<1>10. CASE paused
  <2>1. /\ pausedNode' = PlaceIn(ord, pos)
        /\ nodeStates' = NodesIn(pos, Msg[o].last)
        /\ edgeStates' = EdgesIn(pos, Msg[o].last)
        /\ UNCHANGED <<lastNode, ending>>
        /\ Invoke(NoCalls, new, {}, << >>)
    BY <1>2, <1>3, <1>7, <1>10 DEF ProcessNode, Inactive
  <2>2. scheduled' = {} /\ traversing' = << >> /\ actionStates' = new
    <3>1. << >> \in Seq(EdgePlace)
      OBVIOUS
    <3> QED
      BY <1>5, <2>1, <3>1, InvokeNothing
  <2>3. Executing(ord, actions, new, {}, << >>)
    BY <1>8 DEF Executing
  <2>4. OrderInv'
    BY <1>1, <1>4, <1>9, <2>2, <2>3 DEF OrderInv
  <2>5. Suspended'
    <3>1. pausedNode' # None
      BY <1>5, <2>1, EnvironmentAssumption DEF NodePlace, Place
    <3>2. \A a \in MessageActions(o) : new[a] = "WAITING"
      <4>1. MessageActions(o) \subseteq Action
        BY MessageFacts DEF MessageActions
      <4> QED
        BY <1>8, <4>1
    <3> QED
      BY <1>1, <1>4, <1>6, <2>1, <2>2, <3>1, <3>2 DEF Suspended
  <2>6. CancelInv'
    BY <1>1, <1>10, <2>2 DEF CancelInv, hasCancelingOrder
  <2> QED
    BY <2>2, <2>4, <2>5, <2>6 DEF RouteInv, Fresh
<1>11. CASE ~ paused
  <2>1. \A s \in BaseRange(ord) : s >= pos =>
          \A i \in DOMAIN List(ord, actions, s) : new[List(ord, actions, s)[i]] = "WAITING"
    <3> SUFFICES ASSUME NEW s \in BaseRange(ord), NEW i \in DOMAIN List(ord, actions, s)
                 PROVE  new[List(ord, actions, s)[i]] = "WAITING"
      OBVIOUS
    <3>1. List(ord, actions, s)[i] \in ActionSet(PlaceIn(ord, s), actions)
          /\ List(ord, actions, s)[i] \in Action
      BY <1>5, ListFacts, TypeFacts
    <3>2. List(ord, actions, s)[i] \in ReleasedActions(ord, actions)
      BY <3>1 DEF ReleasedActions, BaseRange
    <3> QED
      BY <1>4, <1>8, <3>1, <3>2
  <2>2. /\ pausedNode' = None
        /\ nodeStates' = NodesIn(pos, Msg[o].last) \ {pos}
        /\ edgeStates' = EdgesIn(pos, Msg[o].last) \ {x.seq : x \in {}}
        /\ lastNode' = PlaceIn(ord, pos)
        /\ Reported(ord, actions, actionStates')
        /\ Executing(ord, actions, actionStates', scheduled', traversing')
        /\ Ahead(ord, actions, actionStates', scheduled', traversing', pos)
        /\ ~ env.defersStart => \A c \in scheduled' : actionStates'[c.action] = "ACTIVE"
        /\ \A c \in scheduled' : new[c.action] = "WAITING"
    BY <1>2, <1>3, <1>4, <1>5, <1>7, <1>8, <1>11, <2>1, ProcessNodeStep, TypeFacts DEF Inactive
  <2>3. lastNode'.seq = pos /\ lastNode' # None
    BY <1>5, <2>2, EnvironmentAssumption DEF NodePlace, Place, PlaceIn
  <2>4. /\ nodeStates' = NodesIn(pos + 1, Msg[o].last)
        /\ edgeStates' = EdgesIn(pos + 1, Msg[o].last)
    <3>1. pos \in Nat /\ Msg[o].last \in Int
      BY MessageFacts DEF pos
    <3> QED
      BY <1>4, <2>2, <3>1, NodesAhead
  <2>5. OrderInv'
    BY <1>1, <1>4, <1>9, <2>2 DEF OrderInv
  <2>6. EnRoute'
    BY <1>1, <1>6, <2>2, <2>3, <2>4 DEF EnRoute
  <2>7. CancelInv'
    <3>1. stopTraverse' = 0 /\ cancelContext' = None
      BY <1>1, TypeFacts DEF CancelInv, hasCancelingOrder
    <3>2. env.cancels => ~ env.defersStart
      BY DefersNotCancels
    <3> QED
      BY <1>1, <1>11, <2>2, <3>1, <3>2 DEF CancelInv, hasCancelingOrder
  <2>8. Fresh
    <3> SUFFICES ASSUME NEW c \in scheduled' PROVE actionStates[c.action] \in {"ABSENT", "WAITING"}
      BY DEF Fresh
    <3>1. c.action \in ReleasedActions(ord, actions)
      BY <2>2 DEF Executing, ReleasedActions, BaseRange
    <3> QED
      BY <1>4, <3>1, NewActions DEF OrderInv
  <2> QED
    BY <2>5, <2>6, <2>7, <2>8 DEF RouteInv
<1> QED
  BY <1>10, <1>11

(***************************************************************************)
(* Stitching.  The lists of the stitched order are those of the current    *)
(* order before its base end, those of the message behind it, and their    *)
(* concatenation at it.                                                    *)
(***************************************************************************)
Stitching(o) ==
  /\ TypeOK /\ OrderInv /\ NoneActionsAlone
  /\ o \in Orders /\ o \in inbox
  /\ IsOrderBaseStitching(o)

LEMMA StitchedFacts ==
  ASSUME NEW o, Stitching(o)
  PROVE  /\ currentOrder.base = Msg[o].first
         /\ {currentOrder.first, currentOrder.base, Msg[o].base, Msg[o].last} \subseteq Nat
         /\ currentOrder.first <= currentOrder.base
         /\ currentOrder.base <= Msg[o].base /\ Msg[o].base <= Msg[o].last
         /\ currentOrder.base \in BaseRange(currentOrder) /\ IsNode(currentOrder.base)
         /\ IsNode(Msg[o].base) /\ IsNode(Msg[o].last)
         /\ Stitched(o).first = currentOrder.first
         /\ Stitched(o).base = Msg[o].base /\ Stitched(o).last = Msg[o].last
         /\ \A s \in currentOrder.first .. currentOrder.base : Stitched(o).at[s] = currentOrder.at[s]
         /\ \A s \in (currentOrder.base + 1) .. Msg[o].last : Stitched(o).at[s] = o
         /\ OrderOK(Stitched(o)) /\ ListsOK(StitchedLists(o))
         /\ StitchedStatuses(o) \in [Action -> Status]
<1> USE DEF Stitching
<1>1. /\ currentOrder.base = Msg[o].first /\ currentOrder.orderId # None
  BY DEF IsOrderBaseStitching
<1>2. /\ Msg[o].first \in Nat /\ Msg[o].base \in Nat /\ Msg[o].last \in Nat
      /\ IsNode(Msg[o].first) /\ IsNode(Msg[o].base) /\ IsNode(Msg[o].last)
      /\ Msg[o].first <= Msg[o].base /\ Msg[o].base <= Msg[o].last
  BY MessageFacts
<1>3. currentOrder.first \in Nat /\ currentOrder.first <= currentOrder.base
  BY <1>1, TypeFacts DEF OrderOK
<1>4. /\ Stitched(o).first = currentOrder.first
      /\ Stitched(o).base = Msg[o].base /\ Stitched(o).last = Msg[o].last
      /\ Stitched(o).at = [s \in currentOrder.first .. Msg[o].last |->
             IF s <= currentOrder.base THEN currentOrder.at[s] ELSE o]
  BY DEF Stitched
<1>5. \A s \in currentOrder.first .. currentOrder.base : Stitched(o).at[s] = currentOrder.at[s]
  BY <1>1, <1>2, <1>3, <1>4
<1>6. \A s \in (currentOrder.base + 1) .. Msg[o].last : Stitched(o).at[s] = o
  BY <1>1, <1>2, <1>3, <1>4
<1>7. currentOrder.base \in BaseRange(currentOrder)
  BY <1>1, <1>2, <1>3 DEF BaseRange
<1>8. OrderOK(Stitched(o)) /\ ListsOK(StitchedLists(o)) /\ StitchedStatuses(o) \in [Action -> Status]
  BY StitchedType
<1> QED
  BY <1>1, <1>2, <1>3, <1>4, <1>5, <1>6, <1>7, <1>8

LEMMA OtherUnchanged ==
  ASSUME NEW f, NEW i, NEW x, NEW j \in DOMAIN f, j # i
  PROVE  [f EXCEPT ![i] = x][j] = f[j]
OBVIOUS

LEMMA StitchedListsFacts ==
  ASSUME NEW o, Stitching(o), NEW s \in BaseRange(Stitched(o))
  PROVE  /\ s < currentOrder.base =>
              List(Stitched(o), StitchedLists(o), s) = List(currentOrder, actions, s)
         /\ s = currentOrder.base =>
              List(Stitched(o), StitchedLists(o), s) =
                List(currentOrder, actions, s) \o Msg[o].actions[s]
         /\ s > currentOrder.base =>
              List(Stitched(o), StitchedLists(o), s) = Msg[o].actions[s]
<1> DEFINE b == currentOrder.base
           q == currentOrder.at[b]
<1>1. /\ BaseEnd.order = q /\ BaseEnd.seq = b
      /\ b = Msg[o].first /\ b \in Nat /\ Msg[o].last \in Nat /\ Msg[o].base <= Msg[o].last
      /\ s \in currentOrder.first .. Msg[o].base
      /\ Msg[o].base \in Nat /\ currentOrder.first \in Nat
  BY StitchedFacts DEF BaseEnd, PlaceIn, BaseRange
<1>2. /\ DOMAIN actions = Orders
      /\ \A r \in Orders : actions[r] \in [Msg[r].first .. Msg[r].last -> Seq(Action)]
  BY DEF Stitching, TypeOK, ListsOK
<1>3. /\ q \in Orders /\ q \notin inbox /\ q # o
      /\ b \in Msg[q].first .. Msg[q].last
  <2>1. b \in currentOrder.first .. currentOrder.last
    BY StitchedFacts, ListFacts DEF Stitching, TypeOK
  <2>2. PlaceIn(currentOrder, b) \in Place
    BY <2>1 DEF Stitching, TypeOK, OrderOK
  <2> QED
    BY <2>1, <2>2 DEF PlaceIn, Place, Stitching, OrderInv, Received
<1>4. /\ \A r \in Orders : r # q => StitchedLists(o)[r] = actions[r]
      /\ StitchedLists(o)[q] = [actions[q] EXCEPT ![b] = actions[q][b] \o Msg[o].actions[Msg[o].first]]
  BY <1>1, <1>2, <1>3 DEF StitchedLists
<1>5. b \in DOMAIN actions[q] /\ DOMAIN StitchedLists(o)[q] = DOMAIN actions[q]
  BY <1>2, <1>3, <1>4
<1> HIDE DEF q, b
<1>6. ASSUME s < b
      PROVE  List(Stitched(o), StitchedLists(o), s) = List(currentOrder, actions, s)
  <2> DEFINE r == currentOrder.at[s]
  <2>1. s \in currentOrder.first .. currentOrder.base
    BY <1>1, <1>6 DEF b
  <2>2. Stitched(o).at[s] = r
    BY <2>1, StitchedFacts
  <2>3. PlaceIn(currentOrder, s) \in Place
    BY <2>1, ListFacts DEF Stitching, TypeOK, BaseRange
  <2>4. r \in Orders /\ s \in Msg[r].first .. Msg[r].last
    BY <2>3 DEF PlaceIn, Place
  <2> HIDE DEF r
  <2>5. StitchedLists(o)[r][s] = actions[r][s]
    <3>1. CASE r # q
      BY <1>4, <2>4, <3>1
    <3>2. CASE r = q
      <4>1. s \in DOMAIN actions[q] /\ s # b
        <5>1. s # b
          BY <1>1, <1>6
        <5>2. DOMAIN actions[r] = Msg[r].first .. Msg[r].last
          BY <1>2, <2>4
        <5> QED
          BY <2>4, <3>2, <5>1, <5>2
      <4>2. \A x : [actions[q] EXCEPT ![b] = x][s] = actions[q][s]
        BY <4>1, OtherUnchanged
      <4>3. StitchedLists(o)[q][s] = actions[q][s]
        BY <1>4, <4>2, Zenon
      <4> QED
        BY <3>2, <4>3
    <3> QED
      BY <3>1, <3>2
  <2> QED
    BY <2>2, <2>5 DEF List, r
<1>7. ASSUME s = b
      PROVE  List(Stitched(o), StitchedLists(o), s) =
               List(currentOrder, actions, s) \o Msg[o].actions[s]
  <2>1. Stitched(o).at[s] = q
    BY <1>7, StitchedFacts DEF b, q, BaseRange
  <2>2. StitchedLists(o)[q][b] = actions[q][b] \o Msg[o].actions[Msg[o].first]
    BY <1>4, <1>5
  <2>3. currentOrder.at[s] = q
    BY <1>7 DEF b, q
  <2> QED
    BY <1>1, <1>7, <2>1, <2>2, <2>3 DEF List
<1>8. ASSUME s > b
      PROVE  List(Stitched(o), StitchedLists(o), s) = Msg[o].actions[s]
  <2>1. s \in (currentOrder.base + 1) .. Msg[o].last
    BY <1>1, <1>8 DEF b
  <2>2. Stitched(o).at[s] = o
    BY <2>1, StitchedFacts
  <2>3. StitchedLists(o)[o][s] = Msg[o].actions[s]
    BY <1>3, <1>4 DEF Stitching, OrderInv, Received
  <2> QED
    BY <2>2, <2>3 DEF List
<1> QED
  BY <1>6, <1>7, <1>8 DEF b

(* Where an action of the stitched order comes from.                       *)
FromCurrent(o, s, i) ==
  /\ s \in BaseRange(currentOrder)
  /\ i \in DOMAIN List(currentOrder, actions, s)
  /\ List(Stitched(o), StitchedLists(o), s)[i] = List(currentOrder, actions, s)[i]

Before(s) == IF s = currentOrder.base THEN Len(List(currentOrder, actions, s)) ELSE 0

FromMessage(o, s, i) ==
  /\ s \in Msg[o].first .. Msg[o].base
  /\ i > Before(s)
  /\ i - Before(s) \in DOMAIN Msg[o].actions[s]
  /\ List(Stitched(o), StitchedLists(o), s)[i] = Msg[o].actions[s][i - Before(s)]

LEMMA StitchedOrigin ==
  ASSUME NEW o, Stitching(o), NEW s \in BaseRange(Stitched(o)),
         NEW i \in DOMAIN List(Stitched(o), StitchedLists(o), s)
  PROVE  FromCurrent(o, s, i) \/ FromMessage(o, s, i)
<1> DEFINE b == currentOrder.base
           L == List(Stitched(o), StitchedLists(o), s)
<1>1. /\ b = Msg[o].first /\ b \in Nat /\ Msg[o].base \in Nat /\ currentOrder.first \in Nat
      /\ s \in currentOrder.first .. Msg[o].base /\ o \in Orders
      /\ b \in BaseRange(currentOrder) /\ Msg[o].base <= Msg[o].last /\ Msg[o].last \in Nat
      /\ b <= Msg[o].base /\ currentOrder.first <= b
  BY StitchedFacts DEF BaseRange, Stitching
<1>2. L \in Seq(Action)
  BY StitchedFacts, ListFacts
<1>3. \A t \in Msg[o].first .. Msg[o].base : Msg[o].actions[t] \in Seq(Action)
  BY <1>1, MessageFacts
<1>4. CASE s < b
  BY <1>1, <1>4, StitchedListsFacts DEF FromCurrent, BaseRange
<1>5. CASE s = b
  <2> DEFINE A == List(currentOrder, actions, s)
             B == Msg[o].actions[s]
  <2>1. A \in Seq(Action) /\ B \in Seq(Action)
    BY <1>1, <1>3, <1>5, ListFacts, TypeFacts DEF Stitching
  <2>2. L = A \o B
    BY <1>5, StitchedListsFacts
  <2> HIDE DEF A, B, L
  <2>3. i \in 1 .. (Len(A) + Len(B))
    BY <2>1, <2>2 DEF L
  <2>4. CASE i <= Len(A)
    <3>1. i \in DOMAIN A /\ L[i] = A[i]
      BY <2>1, <2>2, <2>3, <2>4
    <3> QED
      BY <1>1, <1>5, <3>1 DEF FromCurrent, A, L
  <2>5. CASE i > Len(A)
    <3>1. i - Len(A) \in DOMAIN B /\ L[i] = B[i - Len(A)]
      BY <2>1, <2>2, <2>3, <2>5
    <3>2. Before(s) = Len(A)
      BY <1>5 DEF Before, A
    <3>3. s \in Msg[o].first .. Msg[o].base
      BY <1>1, <1>5
    <3> QED
      BY <2>5, <3>1, <3>2, <3>3 DEF FromMessage, B, L
  <2> QED
    BY <2>1, <2>3, <2>4, <2>5
<1>6. CASE s > b
  <2>1. L = Msg[o].actions[s] /\ Before(s) = 0
    BY <1>1, <1>6, StitchedListsFacts DEF Before
  <2>2. s \in Msg[o].first .. Msg[o].base
    BY <1>1, <1>6
  <2>3. i \in Nat /\ i > 0 /\ i - 0 = i
    BY <1>2
  <2> QED
    BY <2>1, <2>2, <2>3 DEF FromMessage
<1> QED
  BY <1>1, <1>4, <1>5, <1>6

(* The actions of the message are new to the current order.                *)
LEMMA StitchedDisjoint ==
  ASSUME NEW o, Stitching(o)
  PROVE  ReleasedActions(currentOrder, actions) \cap MessageActions(o) = {}
<1> SUFFICES ASSUME NEW a, a \in ReleasedActions(currentOrder, actions), a \in MessageActions(o)
             PROVE  FALSE
  OBVIOUS
<1>1. PICK q \in Orders \ inbox : a \in MessageActions(q)
  BY DEF Stitching, OrderInv, Received
<1>2. q = o
  BY <1>1, SameMessage DEF Stitching
<1> QED
  BY <1>1, <1>2 DEF Stitching

LEMMA ReleasedFacts ==
  ASSUME NEW ord, OrderOK(ord), NEW lists, ListsOK(lists), NEW a
  PROVE  a \in ReleasedActions(ord, lists) <=>
           \E s \in BaseRange(ord) : \E i \in DOMAIN List(ord, lists, s) : a = List(ord, lists, s)[i]
<1>1. \A s \in BaseRange(ord) : ActionSet(PlaceIn(ord, s), lists) =
                                 {List(ord, lists, s)[i] : i \in DOMAIN List(ord, lists, s)}
  BY ListFacts
<1> QED
  BY <1>1 DEF ReleasedActions, BaseRange

(* The places and actions of the current order remain.                     *)
LEMMA StitchedKeeps ==
  ASSUME NEW o, Stitching(o), NEW s \in BaseRange(currentOrder)
  PROVE  /\ s \in BaseRange(Stitched(o))
         /\ PlaceIn(Stitched(o), s) = PlaceIn(currentOrder, s)
         /\ \A i \in DOMAIN List(currentOrder, actions, s) : FromCurrent(o, s, i)
         /\ DOMAIN List(currentOrder, actions, s) \subseteq
              DOMAIN List(Stitched(o), StitchedLists(o), s)
<1>1. s \in currentOrder.first .. currentOrder.base
  BY DEF BaseRange
<1>2. s \in BaseRange(Stitched(o))
  BY <1>1, StitchedFacts DEF BaseRange
<1>3. PlaceIn(Stitched(o), s) = PlaceIn(currentOrder, s)
  BY <1>1, StitchedFacts DEF PlaceIn
<1> DEFINE A == List(currentOrder, actions, s)
           B == Msg[o].actions[s]
           L == List(Stitched(o), StitchedLists(o), s)
<1>4. DOMAIN A \subseteq DOMAIN L /\ \A i \in DOMAIN A : L[i] = A[i]
  <2>1. CASE s < currentOrder.base
    BY <1>2, <2>1, StitchedListsFacts
  <2>2. CASE s = currentOrder.base
    <3>1. L = A \o B
      BY <1>2, <2>2, StitchedListsFacts
    <3>2. A \in Seq(Action)
      BY ListFacts, TypeFacts DEF Stitching
    <3>3. B \in Seq(Action)
      BY <2>2, StitchedFacts, MessageFacts DEF Stitching
    <3> HIDE DEF A, B, L
    <3> QED
      BY <3>1, <3>2, <3>3
  <2> QED
    BY <1>1, <2>1, <2>2, StitchedFacts
<1> QED
  BY <1>2, <1>3, <1>4 DEF FromCurrent

(* The actions of the message are listed.                                  *)
LEMMA StitchedAdds ==
  ASSUME NEW o, Stitching(o), NEW s \in Msg[o].first .. Msg[o].base,
         NEW k \in DOMAIN Msg[o].actions[s]
  PROVE  /\ s \in BaseRange(Stitched(o))
         /\ \E i \in DOMAIN List(Stitched(o), StitchedLists(o), s) :
              List(Stitched(o), StitchedLists(o), s)[i] = Msg[o].actions[s][k]
<1>1. s \in BaseRange(Stitched(o)) /\ s >= currentOrder.base
  BY StitchedFacts DEF BaseRange
<1> DEFINE A == List(currentOrder, actions, s)
           B == Msg[o].actions[s]
           L == List(Stitched(o), StitchedLists(o), s)
<1>2. CASE s > currentOrder.base
  BY <1>1, <1>2, StitchedListsFacts
<1>3. CASE s = currentOrder.base
  <2>1. L = A \o B
    BY <1>1, <1>3, StitchedListsFacts
  <2>2. A \in Seq(Action)
    BY <1>3, StitchedFacts, ListFacts, TypeFacts DEF Stitching
  <2>3. B \in Seq(Action)
    BY <1>3, StitchedFacts, MessageFacts DEF Stitching
  <2> DEFINE i == Len(A) + k
  <2>4. k \in DOMAIN B
    OBVIOUS
  <2> HIDE DEF A, B, L
  <2>5. i \in DOMAIN L /\ L[i] = B[k]
    BY <2>1, <2>2, <2>3, <2>4
  <2> HIDE DEF i
  <2> QED
    BY <1>1, <2>5 DEF B, L
<1> QED
  BY <1>1, <1>2, <1>3, StitchedFacts

LEMMA StitchedReleased ==
  ASSUME NEW o, Stitching(o)
  PROVE  ReleasedActions(Stitched(o), StitchedLists(o)) =
           ReleasedActions(currentOrder, actions) \cup MessageActions(o)
<1> DEFINE ord == Stitched(o)
           lists == StitchedLists(o)
<1>1. /\ OrderOK(ord) /\ ListsOK(lists) /\ OrderOK(currentOrder) /\ ListsOK(actions)
      /\ o \in Orders
  BY StitchedFacts, TypeFacts DEF Stitching
<1>2. ASSUME NEW a \in ReleasedActions(ord, lists)
      PROVE  a \in ReleasedActions(currentOrder, actions) \cup MessageActions(o)
  <2>1. PICK s \in BaseRange(ord) : \E i \in DOMAIN List(ord, lists, s) : a = List(ord, lists, s)[i]
    BY <1>1, <1>2, ReleasedFacts
  <2>2. PICK i \in DOMAIN List(ord, lists, s) : a = List(ord, lists, s)[i]
    BY <2>1
  <2>3. CASE FromCurrent(o, s, i)
    BY <1>1, <2>2, <2>3, ReleasedFacts DEF FromCurrent
  <2>4. CASE FromMessage(o, s, i)
    BY <1>1, <2>2, <2>4, MessageActionsFacts DEF FromMessage
  <2> QED
    BY <2>2, <2>3, <2>4, StitchedOrigin
<1>3. ASSUME NEW a \in ReleasedActions(currentOrder, actions)
      PROVE  a \in ReleasedActions(ord, lists)
  <2>1. PICK s \in BaseRange(currentOrder) :
          \E i \in DOMAIN List(currentOrder, actions, s) : a = List(currentOrder, actions, s)[i]
    BY <1>1, <1>3, ReleasedFacts
  <2>2. PICK i \in DOMAIN List(currentOrder, actions, s) : a = List(currentOrder, actions, s)[i]
    BY <2>1
  <2>3. /\ s \in BaseRange(ord) /\ i \in DOMAIN List(ord, lists, s) /\ a = List(ord, lists, s)[i]
    BY <2>2, StitchedKeeps DEF FromCurrent
  <2> QED
    BY <1>1, <2>3, ReleasedFacts
<1>4. ASSUME NEW a \in MessageActions(o)
      PROVE  a \in ReleasedActions(ord, lists)
  <2>1. PICK s \in Msg[o].first .. Msg[o].base : \E k \in DOMAIN Msg[o].actions[s] : a = Msg[o].actions[s][k]
    BY <1>1, <1>4, MessageActionsFacts
  <2>2. PICK k \in DOMAIN Msg[o].actions[s] : a = Msg[o].actions[s][k]
    BY <2>1
  <2>3. s \in BaseRange(ord) /\ \E i \in DOMAIN List(ord, lists, s) : List(ord, lists, s)[i] = a
    BY <2>2, StitchedAdds
  <2> QED
    BY <1>1, <2>3, ReleasedFacts
<1> QED
  BY <1>2, <1>3, <1>4

(* Joining the lists at the base end puts no action in parallel to a NONE  *)
(* action: if both lists hold actions, two orders list them at this node.  *)
LEMMA StitchedNone ==
  ASSUME NEW o, Stitching(o),
         NEW i \in DOMAIN List(Stitched(o), StitchedLists(o), currentOrder.base),
         Blocking[List(Stitched(o), StitchedLists(o), currentOrder.base)[i]] = "NONE"
  PROVE  Parallel(List(Stitched(o), StitchedLists(o), currentOrder.base), i) = {}
<1> DEFINE b == currentOrder.base
           A == List(currentOrder, actions, b)
           B == Msg[o].actions[b]
           L == List(Stitched(o), StitchedLists(o), b)
<1>1. /\ b = Msg[o].first /\ IsNode(b) /\ b \in BaseRange(currentOrder)
      /\ b \in Msg[o].first .. Msg[o].base /\ b \in BaseRange(Stitched(o))
      /\ o \in Orders /\ o \in inbox
  BY StitchedFacts DEF Stitching, BaseRange
<1>2. Msg[o].nodeId[b] = NodeIdOf(PlaceIn(currentOrder, b))
  BY <1>1 DEF Stitching, IsOrderBaseStitching
<1>3. A \in Seq(Action) /\ B \in Seq(Action) /\ L = A \o B
  <2>1. A \in Seq(Action)
    BY <1>1, ListFacts, TypeFacts DEF Stitching
  <2>2. B \in Seq(Action)
    BY <1>1, MessageFacts
  <2>3. L = A \o B
    BY <1>1, StitchedListsFacts
  <2> QED
    BY <2>1, <2>2, <2>3
<1>4. ASSUME NEW k \in DOMAIN A
      PROVE  \E p \in Orders : p # o /\ SharesNode(o, p, b) /\ SharesNode(p, o, b)
                               /\ \E l \in DOMAIN Msg[p].actions[b] : Msg[p].actions[b][l] = A[k]
  <2>1. PICK p \in Orders \ inbox : Brings(p, currentOrder, b, A[k])
    BY <1>1, <1>4 DEF Stitching, OrderInv, Received
  <2>2. p # o /\ Msg[p].nodeId[b] = Msg[o].nodeId[b] /\ b \in Msg[p].first .. Msg[p].base
    BY <1>1, <1>2, <2>1 DEF Brings
  <2>3. SharesNode(o, p, b) /\ SharesNode(p, o, b)
    BY <1>1, <2>2 DEF SharesNode
  <2> QED
    BY <2>1, <2>2, <2>3 DEF Brings
<1>5. CASE B = << >>
  <2>1. L = A
    BY <1>3, <1>5
  <2> QED
    BY <1>1, <2>1 DEF Stitching, OrderInv, Structured
<1>6. CASE A = << >>
  <2>1. L = B
    BY <1>3, <1>6
  <2> QED
    BY <1>1, <2>1 DEF NoneActionsAlone, Stitching
<1>7. CASE A # << >> /\ B # << >>
  <2>1. CASE \E k \in DOMAIN A : Blocking[A[k]] = "NONE"
    <3>1. PICK k \in DOMAIN A : Blocking[A[k]] = "NONE"
      BY <2>1
    <3>2. PICK p \in Orders : /\ p # o /\ SharesNode(p, o, b) /\ SharesNode(o, p, b)
                              /\ \E l \in DOMAIN Msg[p].actions[b] : Msg[p].actions[b][l] = A[k]
      BY <1>4
    <3>3. B = << >>
      BY <1>1, <3>1, <3>2 DEF NoneActionsAlone, SharesNode, Stitching
    <3> QED
      BY <1>7, <3>3
  <2>2. CASE \E k \in DOMAIN B : Blocking[B[k]] = "NONE"
    <3>1. 1 \in DOMAIN A
      <4> HIDE DEF A
      <4> QED
        BY <1>3, <1>7
    <3>2. PICK p \in Orders : /\ p # o /\ SharesNode(p, o, b) /\ SharesNode(o, p, b)
                              /\ \E l \in DOMAIN Msg[p].actions[b] : Msg[p].actions[b][l] = A[1]
      BY <1>4, <3>1
    <3>3. Msg[p].actions[b] = << >>
      BY <1>1, <2>2, <3>2 DEF NoneActionsAlone, Stitching
    <3> QED
      BY <3>2, <3>3
  <2>3. (\E k \in DOMAIN A : L[i] = A[k]) \/ (\E k \in DOMAIN B : L[i] = B[k])
    <3>1. i \in DOMAIN L
      OBVIOUS
    <3> HIDE DEF A, B, L
    <3>2. CASE i <= Len(A)
      BY <1>3, <3>1, <3>2
    <3>3. CASE i > Len(A)
      <4>1. i - Len(A) \in DOMAIN B /\ L[i] = B[i - Len(A)]
        BY <1>3, <3>1, <3>3
      <4> QED
        BY <4>1
    <3> QED
      BY <1>3, <3>1, <3>2, <3>3
  <2> QED
    BY <2>1, <2>2, <2>3
<1> QED
  BY <1>5, <1>6, <1>7

LEMMA StitchedStructured ==
  ASSUME NEW o, Stitching(o)
  PROVE  Structured(Stitched(o), StitchedLists(o))
<1> DEFINE ord == Stitched(o)
           lists == StitchedLists(o)
           b == currentOrder.base
<1>1. Structured(currentOrder, actions) /\ o \in Orders /\ currentOrder.orderId # None
  BY DEF Stitching, OrderInv, IsOrderBaseStitching
<1>2. IsNode(ord.first) /\ IsNode(ord.base) /\ IsNode(ord.last)
  BY <1>1, StitchedFacts DEF Structured
<1>3. ASSUME NEW s \in ord.first .. ord.last, ~ IsNode(s)
      PROVE  s < ord.last /\ ord.at[s + 1] = ord.at[s]
  <2>1. /\ s \in Int /\ s # b /\ s # ord.last /\ s <= ord.last /\ currentOrder.first <= s
        /\ {currentOrder.first, b, Msg[o].last, ord.last} \subseteq Int
    BY <1>2, <1>3, StitchedFacts
  <2>2. CASE s < b
    <3>1. s \in currentOrder.first .. b /\ s + 1 \in currentOrder.first .. b
      BY <2>1, <2>2
    <3>2. s \in currentOrder.first .. currentOrder.last
      BY <3>1, ListFacts, TypeFacts DEF BaseRange, Stitching
    <3>3. currentOrder.at[s + 1] = currentOrder.at[s]
      BY <1>1, <1>3, <3>2 DEF Structured
    <3>4. ord.at[s + 1] = currentOrder.at[s + 1] /\ ord.at[s] = currentOrder.at[s]
      BY <3>1, StitchedFacts
    <3> QED
      BY <2>1, <3>3, <3>4
  <2>3. CASE s > b
    <3>1. s \in (b + 1) .. Msg[o].last /\ s + 1 \in (b + 1) .. Msg[o].last
      BY <2>1, <2>3, StitchedFacts
    <3> QED
      BY <2>1, <3>1, StitchedFacts
  <2> QED
    BY <2>1, <2>2, <2>3
<1>4. ASSUME NEW s \in BaseRange(ord), NEW t \in BaseRange(ord),
             NEW i \in DOMAIN List(ord, lists, s), NEW j \in DOMAIN List(ord, lists, t),
             List(ord, lists, s)[i] = List(ord, lists, t)[j]
      PROVE  s = t /\ i = j
  <2>1. CASE FromCurrent(o, s, i) /\ FromCurrent(o, t, j)
    <3>1. /\ s \in BaseRange(currentOrder) /\ t \in BaseRange(currentOrder)
          /\ i \in DOMAIN List(currentOrder, actions, s)
          /\ j \in DOMAIN List(currentOrder, actions, t)
          /\ List(currentOrder, actions, s)[i] = List(currentOrder, actions, t)[j]
      BY <1>4, <2>1 DEF FromCurrent
    <3>2. \A x, y \in BaseRange(currentOrder) :
            \A k \in DOMAIN List(currentOrder, actions, x), l \in DOMAIN List(currentOrder, actions, y) :
              List(currentOrder, actions, x)[k] = List(currentOrder, actions, y)[l] => x = y /\ k = l
      BY <1>1 DEF Structured
    <3> QED
      BY <3>1, <3>2
  <2>2. CASE FromMessage(o, s, i) /\ FromMessage(o, t, j)
    <3>1. s = t /\ i - Before(s) = j - Before(t)
      <4> DEFINE k == i - Before(s)
                 l == j - Before(t)
      <4>1. /\ s \in Msg[o].first .. Msg[o].base /\ t \in Msg[o].first .. Msg[o].base
            /\ k \in DOMAIN Msg[o].actions[s] /\ l \in DOMAIN Msg[o].actions[t]
            /\ Msg[o].actions[s][k] = Msg[o].actions[t][l]
        BY <1>4, <2>2 DEF FromMessage
      <4> HIDE DEF k, l
      <4>2. s = t /\ k = l
        BY <1>1, <4>1, UniqueListed
      <4> QED
        BY <4>2 DEF k, l
    <3>2. i \in Int /\ j \in Int /\ Before(s) \in Int
      BY StitchedFacts, ListFacts, TypeFacts DEF Before, Stitching
    <3> QED
      BY <3>1, <3>2
  <2>3. ASSUME NEW x, NEW k, NEW y, NEW l, FromCurrent(o, x, k), FromMessage(o, y, l),
               List(ord, lists, x)[k] = List(ord, lists, y)[l]
        PROVE  FALSE
    <3>1. List(ord, lists, x)[k] \in ReleasedActions(currentOrder, actions)
      BY <2>3, ReleasedFacts, TypeFacts DEF FromCurrent, Stitching
    <3>2. List(ord, lists, y)[l] \in MessageActions(o)
      BY <1>1, <2>3, MessageActionsFacts DEF FromMessage
    <3> QED
      BY <2>3, <3>1, <3>2, StitchedDisjoint
  <2>4. /\ FromCurrent(o, s, i) \/ FromMessage(o, s, i)
        /\ FromCurrent(o, t, j) \/ FromMessage(o, t, j)
    BY StitchedOrigin
  <2>5. /\ ~ (FromCurrent(o, s, i) /\ FromMessage(o, t, j))
        /\ ~ (FromCurrent(o, t, j) /\ FromMessage(o, s, i))
    BY <1>4, <2>3
  <2> QED
    BY <2>1, <2>2, <2>4, <2>5, Zenon
<1>5. ASSUME NEW s \in BaseRange(ord), NEW i \in DOMAIN List(ord, lists, s),
             Blocking[List(ord, lists, s)[i]] = "NONE"
      PROVE  Parallel(List(ord, lists, s), i) = {}
  <2>1. CASE s = b
    BY <1>5, <2>1, StitchedNone
  <2>2. CASE s # b /\ FromCurrent(o, s, i)
    <3>1. s < b
      BY <2>2, StitchedFacts DEF FromCurrent, BaseRange
    <3>2. List(ord, lists, s) = List(currentOrder, actions, s)
      BY <3>1, StitchedListsFacts
    <3> QED
      BY <1>1, <1>5, <2>2, <3>2 DEF FromCurrent, Structured
  <2>3. CASE s # b /\ FromMessage(o, s, i)
    <3>1. s \in Msg[o].first .. Msg[o].base /\ s > b
      BY <2>3, StitchedFacts DEF FromMessage
    <3>2. List(ord, lists, s) = Msg[o].actions[s]
      BY <3>1, StitchedListsFacts
    <3> QED
      BY <1>1, <1>5, <3>1, <3>2 DEF Stitching, NoneActionsAlone
  <2> QED
    BY <2>1, <2>2, <2>3, StitchedOrigin
<1> QED
  BY <1>2, <1>3, <1>4, <1>5 DEF Structured

(* Every action of the stitched order is listed at its place by a received *)
(* message or by the one that is stitched.                                 *)
LEMMA StitchedBrings ==
  ASSUME NEW o, Stitching(o), NEW s \in BaseRange(Stitched(o)),
         NEW i \in DOMAIN List(Stitched(o), StitchedLists(o), s)
  PROVE  \E q \in Orders \ (inbox \ {o}) :
           Brings(q, Stitched(o), s, List(Stitched(o), StitchedLists(o), s)[i])
<1>1. CASE FromCurrent(o, s, i)
  <2>1. /\ s \in BaseRange(currentOrder) /\ i \in DOMAIN List(currentOrder, actions, s)
        /\ List(Stitched(o), StitchedLists(o), s)[i] = List(currentOrder, actions, s)[i]
    BY <1>1 DEF FromCurrent
  <2>2. PICK q \in Orders \ inbox : Brings(q, currentOrder, s, List(currentOrder, actions, s)[i])
    BY <2>1 DEF Stitching, OrderInv, Received
  <2>3. PlaceIn(Stitched(o), s) = PlaceIn(currentOrder, s)
    BY <2>1, StitchedKeeps
  <2> QED
    BY <2>1, <2>2, <2>3 DEF Brings
<1>2. CASE FromMessage(o, s, i)
  <2>1. /\ s \in Msg[o].first .. Msg[o].base
        /\ \E k \in DOMAIN Msg[o].actions[s] :
             Msg[o].actions[s][k] = List(Stitched(o), StitchedLists(o), s)[i]
    BY <1>2 DEF FromMessage
  <2>2. CASE s = currentOrder.base
    <3>1. PlaceIn(Stitched(o), s) = PlaceIn(currentOrder, s)
      BY <2>2, StitchedFacts, StitchedKeeps
    <3>2. Msg[o].nodeId[s] = NodeIdOf(PlaceIn(currentOrder, s))
      BY <2>2, StitchedFacts DEF Stitching, IsOrderBaseStitching
    <3> QED
      BY <2>1, <3>1, <3>2 DEF Brings, Stitching
  <2>3. CASE s # currentOrder.base
    <3>1. Stitched(o).at[s] = o
      BY <2>1, <2>3, StitchedFacts
    <3> QED
      BY <2>1, <3>1 DEF Brings, NodeIdOf, PlaceIn, Stitching
  <2> QED
    BY <2>2, <2>3
<1> QED
  BY <1>1, <1>2, StitchedOrigin

LEMMA StitchedStatusFacts ==
  ASSUME NEW o, Stitching(o)
  PROVE  /\ MessageActions(o) \subseteq Action
         /\ \A a \in MessageActions(o) : StitchedStatuses(o)[a] = "WAITING"
         /\ \A a \in Action \ MessageActions(o) : StitchedStatuses(o)[a] = actionStates[a]
         /\ \A a \in ReleasedActions(currentOrder, actions) : StitchedStatuses(o)[a] = actionStates[a]
         /\ Reported(Stitched(o), StitchedLists(o), StitchedStatuses(o))
<1>1. MessageActions(o) \subseteq Action
  BY MessageFacts DEF MessageActions, Stitching
<1>2. /\ \A a \in MessageActions(o) : StitchedStatuses(o)[a] = "WAITING"
      /\ \A a \in Action \ MessageActions(o) : StitchedStatuses(o)[a] = actionStates[a]
  BY <1>1 DEF StitchedStatuses
<1>3. ReleasedActions(currentOrder, actions) \subseteq Action
  BY ReleasedFacts, ListFacts, TypeFacts DEF Stitching
<1>4. \A a \in ReleasedActions(currentOrder, actions) : StitchedStatuses(o)[a] = actionStates[a]
  BY <1>2, <1>3, StitchedDisjoint
<1>5. Reported(Stitched(o), StitchedLists(o), StitchedStatuses(o))
  BY <1>2, StitchedReleased DEF Reported, Stitching, OrderInv
<1> QED
  BY <1>1, <1>2, <1>4, <1>5

(* The actions that are executed keep their index in a longer list.        *)
LEMMA ExecutedFacts ==
  ASSUME NEW o, Stitching(o), NEW c \in scheduled
  PROVE  /\ c \in [action : Action, place : Place]
         /\ c.place.seq \in BaseRange(currentOrder)
         /\ c.place = PlaceIn(currentOrder, c.place.seq)
         /\ c.place = PlaceIn(Stitched(o), c.place.seq)
         /\ ActionsOf(c.place, actions) = List(currentOrder, actions, c.place.seq)
         /\ ActionsOf(c.place, StitchedLists(o)) =
              List(Stitched(o), StitchedLists(o), c.place.seq)
         /\ c.action \in ActionSet(c.place, actions)
         /\ c.action \in ReleasedActions(currentOrder, actions)
         /\ StitchedStatuses(o)[c.action] = actionStates[c.action]
<1>1. /\ c.place.seq \in BaseRange(currentOrder)
      /\ c.place = PlaceIn(currentOrder, c.place.seq)
      /\ c.action \in ActionSet(c.place, actions)
  BY DEF Stitching, OrderInv, Executing
<1>2. c \in [action : Action, place : Place]
  BY TypeFacts DEF Stitching
<1>3. c.place = PlaceIn(Stitched(o), c.place.seq) /\ c.place.seq \in BaseRange(Stitched(o))
  BY <1>1, StitchedKeeps
<1>4. /\ ActionsOf(c.place, actions) = List(currentOrder, actions, c.place.seq)
      /\ ActionsOf(c.place, StitchedLists(o)) = List(Stitched(o), StitchedLists(o), c.place.seq)
  <2>1. ActionsOf(PlaceIn(currentOrder, c.place.seq), actions) =
          List(currentOrder, actions, c.place.seq)
    BY <1>1, ListFacts, TypeFacts DEF Stitching
  <2>2. ActionsOf(PlaceIn(Stitched(o), c.place.seq), StitchedLists(o)) =
          List(Stitched(o), StitchedLists(o), c.place.seq)
    BY <1>3, ListFacts, StitchedFacts
  <2> QED
    BY <1>1, <1>3, <2>1, <2>2
<1>5. c.action \in ReleasedActions(currentOrder, actions)
  BY <1>1 DEF ReleasedActions, BaseRange
<1> QED
  BY <1>1, <1>2, <1>3, <1>4, <1>5, StitchedStatusFacts

LEMMA ParallelKept ==
  ASSUME NEW A \in Seq(Action), NEW L \in Seq(Action),
         DOMAIN A \subseteq DOMAIN L, \A k \in DOMAIN A : L[k] = A[k],
         NEW i \in DOMAIN A, NEW j \in DOMAIN A
  PROVE  j \in Parallel(A, i) <=> j \in Parallel(L, i)
BY DEF Parallel, Hard

LEMMA StitchedExecuting ==
  ASSUME NEW o, Stitching(o)
  PROVE  Executing(Stitched(o), StitchedLists(o), StitchedStatuses(o), scheduled, traversing)
<1> DEFINE ord == Stitched(o)
           lists == StitchedLists(o)
           new == StitchedStatuses(o)
<1>1. Executing(currentOrder, actions, actionStates, scheduled, traversing)
  BY DEF Stitching, OrderInv
<1>2. ASSUME NEW c \in scheduled
      PROVE  /\ c.place.seq \in BaseRange(ord)
             /\ c.place = PlaceIn(ord, c.place.seq)
             /\ c.action \in ActionSet(c.place, lists)
             /\ new[c.action] \in {"WAITING", "ACTIVE"}
  <2> DEFINE s == c.place.seq
  <2>1. s \in BaseRange(currentOrder) /\ s \in BaseRange(ord) /\ c.place = PlaceIn(ord, s)
    BY ExecutedFacts, StitchedKeeps
  <2>2. PICK i \in DOMAIN List(currentOrder, actions, s) : c.action = List(currentOrder, actions, s)[i]
    BY ExecutedFacts DEF ActionSet
  <2>3. i \in DOMAIN List(ord, lists, s) /\ c.action = List(ord, lists, s)[i]
    BY <2>1, <2>2, StitchedKeeps DEF FromCurrent
  <2>4. c.action \in ActionSet(c.place, lists)
    BY <2>3, ExecutedFacts DEF ActionSet
  <2>5. new[c.action] \in {"WAITING", "ACTIVE"}
    BY <1>1, ExecutedFacts DEF Executing
  <2> QED
    BY <2>1, <2>4, <2>5
<1>3. ASSUME NEW a \in Action, new[a] = "ACTIVE"
      PROVE  \E c \in scheduled : c.action = a
  BY <1>1, <1>3, StitchedStatusFacts DEF Executing
<1>4. ASSUME NEW c \in scheduled, NEW d \in scheduled, c # d
      PROVE  c.place = d.place /\ Together(ActionsOf(c.place, lists), c.action, d.action)
  <2> DEFINE A == List(currentOrder, actions, c.place.seq)
             L == List(ord, lists, c.place.seq)
  <2>1. /\ c.place = d.place
        /\ Together(ActionsOf(c.place, actions), c.action, d.action)
    BY <1>1, <1>4 DEF Executing
  <2>2. ActionsOf(c.place, actions) = A /\ ActionsOf(c.place, lists) = L
    BY ExecutedFacts
  <2>3. /\ A \in Seq(Action) /\ L \in Seq(Action)
        /\ DOMAIN A \subseteq DOMAIN L /\ \A k \in DOMAIN A : L[k] = A[k]
    BY ExecutedFacts, StitchedKeeps, StitchedFacts, ListFacts, TypeFacts DEF FromCurrent, Stitching
  <2> HIDE DEF A, L
  <2>4. Together(L, c.action, d.action)
    BY <2>1, <2>2, <2>3, ParallelKept DEF Together
  <2> QED
    BY <2>1, <2>2, <2>4
<1>5. traversing # << >> => Len(traversing) = 1 /\ scheduled = {}
  BY <1>1 DEF Executing
<1> QED
  BY <1>2, <1>3, <1>4, <1>5 DEF Executing

LEMMA StitchedAhead ==
  ASSUME NEW o, Stitching(o), NEW pos,
         Ahead(currentOrder, actions, actionStates, scheduled, traversing, pos)
  PROVE  Ahead(Stitched(o), StitchedLists(o), StitchedStatuses(o), scheduled, traversing, pos)
<1> DEFINE ord == Stitched(o)
           lists == StitchedLists(o)
           new == StitchedStatuses(o)
<1>1. /\ pos \in BaseRange(ord) /\ IsNode(pos)
      /\ \A c \in scheduled : c.place.seq \in {pos, pos + 1}
      /\ traversing # << >> => pos + 1 \in BaseRange(ord) /\ traversing = <<PlaceIn(ord, pos + 1)>>
  BY StitchedKeeps DEF Ahead
<1>2. ASSUME NEW s \in BaseRange(ord),
             s > pos + 1 \/ (s = pos + 1 /\ \E c \in scheduled : c.place.seq = pos),
             NEW i \in DOMAIN List(ord, lists, s)
      PROVE  new[List(ord, lists, s)[i]] = "WAITING"
  <2>1. CASE FromCurrent(o, s, i)
    <3>1. actionStates[List(currentOrder, actions, s)[i]] = "WAITING"
      BY <1>2, <2>1 DEF Ahead, FromCurrent
    <3>2. List(currentOrder, actions, s)[i] \in ReleasedActions(currentOrder, actions)
      BY <2>1, ReleasedFacts, TypeFacts DEF FromCurrent, Stitching
    <3> QED
      BY <2>1, <3>1, <3>2, StitchedStatusFacts DEF FromCurrent
  <2>2. CASE FromMessage(o, s, i)
    <3>1. List(ord, lists, s)[i] \in MessageActions(o)
      BY <2>2, MessageActionsFacts DEF FromMessage, Stitching
    <3> QED
      BY <3>1, StitchedStatusFacts
  <2> QED
    BY <2>1, <2>2, StitchedOrigin
<1>3. ASSUME NEW c \in scheduled, NEW i \in DOMAIN ActionsOf(c.place, lists),
             NEW j \in DOMAIN ActionsOf(c.place, lists),
             ActionsOf(c.place, lists)[i] = c.action,
             i < j, j \notin Parallel(ActionsOf(c.place, lists), i)
      PROVE  new[ActionsOf(c.place, lists)[j]] = "WAITING"
  <2> DEFINE s == c.place.seq
             A == List(currentOrder, actions, s)
             L == List(ord, lists, s)
  <2>1. /\ s \in BaseRange(currentOrder) /\ s \in BaseRange(ord)
        /\ ActionsOf(c.place, lists) = L /\ ActionsOf(c.place, actions) = A
    BY ExecutedFacts, StitchedKeeps
  <2>2. /\ A \in Seq(Action) /\ L \in Seq(Action)
        /\ DOMAIN A \subseteq DOMAIN L /\ \A k \in DOMAIN A : L[k] = A[k]
    BY <2>1, StitchedKeeps, StitchedFacts, ListFacts, TypeFacts DEF FromCurrent, Stitching
  <2>3. CASE FromMessage(o, s, j)
    <3>1. L[j] \in MessageActions(o)
      BY <2>3, MessageActionsFacts DEF FromMessage, Stitching
    <3> QED
      BY <2>1, <3>1, StitchedStatusFacts
  <2>4. CASE FromCurrent(o, s, j)
    <3>1. j \in DOMAIN A /\ L[j] = A[j]
      BY <2>4 DEF FromCurrent
    <3>2. i \in DOMAIN A /\ A[i] = c.action
      <4> HIDE DEF A, L
      <4>1. i \in DOMAIN A
        BY <1>3, <2>1, <2>2, <3>1
      <4> QED
        BY <1>3, <2>1, <2>2, <4>1
    <3>3. j \notin Parallel(A, i)
      <4> HIDE DEF A, L
      <4> QED
        BY <1>3, <2>1, <2>2, <3>1, <3>2, ParallelKept
    <3>4. actionStates[A[j]] = "WAITING"
      BY <1>3, <2>1, <3>1, <3>2, <3>3 DEF Ahead
    <3>5. A[j] \in ReleasedActions(currentOrder, actions)
      BY <2>1, <3>1, ReleasedFacts, TypeFacts DEF Stitching
    <3> QED
      BY <2>1, <3>1, <3>4, <3>5, StitchedStatusFacts
  <2> QED
    BY <2>1, <2>3, <2>4, StitchedOrigin
<1> QED
  BY <1>1, <1>2, <1>3 DEF Ahead

(* The states of a route after stitching: the base, then the rest.         *)
LEMMA RouteStitched ==
  ASSUME NEW from \in Nat, NEW b \in Nat, NEW old \in Int, NEW to \in Int,
         from <= b + 1, b <= old, b <= to, IsNode(b)
  PROVE  /\ {s \in NodesIn(from, old) : s <= b} \cup NodesIn(b + 1, to) = NodesIn(from, to)
         /\ {s \in EdgesIn(from, old) : s <= b} \cup EdgesIn(b, to) = EdgesIn(from, to)
<1>1. \A s \in EdgesIn(b, to) : s # b
  BY DEF EdgesIn
<1>2. {s \in NodesIn(from, old) : s <= b} \cup NodesIn(b + 1, to) = NodesIn(from, to)
  BY DEF NodesIn
<1>3. {s \in EdgesIn(from, old) : s <= b} \cup EdgesIn(b, to) = EdgesIn(from, to)
  BY <1>1 DEF EdgesIn
<1> QED
  BY <1>2, <1>3

(* When the base end is completed, nothing is executed any more.           *)
LEMMA CompletedFacts ==
  ASSUME NEW o, Stitching(o), EnRoute, IsBaseEndCompleted(BaseEnd, StitchedLists(o))
  PROVE  /\ lastNode.seq = currentOrder.base
         /\ scheduled = {} /\ traversing = << >>
<1> DEFINE b == currentOrder.base
           pos == lastNode.seq
<1>1. BaseEnd = PlaceIn(currentOrder, b) /\ BaseEnd.seq = b
  BY DEF BaseEnd, PlaceIn
<1>2. /\ pos \in BaseRange(currentOrder) /\ pos \in Nat /\ b \in Nat /\ IsNode(b)
      /\ currentOrder.last \in Int /\ b <= currentOrder.last /\ pos <= b
  <2>1. pos \in BaseRange(currentOrder)
    BY DEF EnRoute, Ahead
  <2> QED
    BY <2>1, StitchedFacts, TypeFacts DEF BaseRange, OrderOK, Stitching
<1>3. pos = b
  <2>1. b \notin NodesIn(pos + 1, currentOrder.last)
    BY <1>1 DEF IsBaseEndCompleted, EnRoute
  <2> QED
    BY <1>2, <2>1 DEF NodesIn
<1>4. scheduled = {}
  <2> SUFFICES ASSUME NEW c \in scheduled PROVE FALSE
    OBVIOUS
  <2>1. /\ c.place.seq \in {pos, pos + 1} /\ c.place.seq \in BaseRange(currentOrder)
        /\ c.place = PlaceIn(currentOrder, c.place.seq)
    BY ExecutedFacts DEF EnRoute, Ahead
  <2>2. c.place.seq = b /\ c.place = BaseEnd
    BY <1>1, <1>2, <1>3, <2>1 DEF BaseRange
  <2>3. c.action \in ActionSet(c.place, StitchedLists(o)) /\ c.action \in Action
    BY StitchedExecuting, ExecutedFacts DEF Executing
  <2>4. actionStates[c.action] = "ENDED"
    BY <2>2, <2>3 DEF IsBaseEndCompleted
  <2> QED
    BY <2>4 DEF Stitching, OrderInv, Executing
<1>5. traversing = << >>
  BY <1>2, <1>3 DEF EnRoute, Ahead, BaseRange
<1> QED
  BY <1>3, <1>4, <1>5

(* The calls at the end of stitching.                                      *)
StitchCalls(o) ==
  IF IsBaseEndCompleted(BaseEnd, StitchedLists(o))
  THEN ProcessEdge(BaseEnd, Stitched(o), StitchedLists(o))
  ELSE NoCalls

LEMMA StitchOrderFacts ==
  ASSUME NEW o, StitchOrder(o)
  PROVE  /\ ~ hasCancelingOrder /\ hasActiveOrder /\ IsOrderBaseStitching(o)
         /\ currentOrder' = Stitched(o) /\ actions' = StitchedLists(o)
         /\ nodeStates' = {s \in nodeStates : s <= currentOrder.base}
                             \cup NodesIn(currentOrder.base + 1, Msg[o].last)
         /\ edgeStates' = {s \in edgeStates : s <= currentOrder.base}
                             \cup EdgesIn(currentOrder.base, Msg[o].last)
         /\ Invoke(StitchCalls(o), StitchedStatuses(o), scheduled, traversing)
         /\ UNCHANGED <<lastNode, paused, pausedNode, cancelContext, ending, stopTraverse>>
<1>1. /\ ~ hasCancelingOrder /\ hasActiveOrder /\ IsOrderBaseStitching(o)
      /\ currentOrder' = Stitched(o) /\ actions' = StitchedLists(o)
      /\ nodeStates' = ReleasedStates(nodeStates) \cup NodesIn(Msg[o].first + 1, Msg[o].last)
      /\ edgeStates' = ReleasedStates(edgeStates) \cup EdgesIn(Msg[o].first, Msg[o].last)
      /\ Invoke(StitchCalls(o), StitchedStatuses(o), scheduled, traversing)
      /\ UNCHANGED <<lastNode, paused, pausedNode, cancelContext, ending, stopTraverse>>
  BY DEF StitchOrder, StitchCalls, Stitched, StitchedLists, StitchedStatuses, BaseEnd, OrderMode
<1>2. Msg[o].first = currentOrder.base
  BY <1>1 DEF IsOrderBaseStitching
<1> QED
  BY <1>1, <1>2 DEF ReleasedStates

LEMMA StitchOrderInv ==
  ASSUME IInv, NoneActionsAlone, PromptCancelation, NEW o \in inbox, o \in Orders, StitchOrder(o),
         inbox' = inbox \ {o}, UNCHANGED <<cancelStates, pauses, env>>
  PROVE  OrderInv' /\ RouteInv' /\ CancelInv' /\ Fresh
<1> USE DEF IInv
<1> DEFINE b == currentOrder.base
           ord == Stitched(o)
           lists == StitchedLists(o)
           new == StitchedStatuses(o)
           k == IF IsBaseEndCompleted(BaseEnd, lists) THEN ProcessEdge(BaseEnd, ord, lists) ELSE NoCalls
<1>1. /\ ~ hasCancelingOrder /\ hasActiveOrder /\ IsOrderBaseStitching(o)
      /\ currentOrder' = ord /\ actions' = lists
      /\ nodeStates' = {s \in nodeStates : s <= b} \cup NodesIn(b + 1, Msg[o].last)
      /\ edgeStates' = {s \in edgeStates : s <= b} \cup EdgesIn(b, Msg[o].last)
      /\ Invoke(k, new, scheduled, traversing)
      /\ UNCHANGED <<lastNode, paused, pausedNode, cancelContext, ending, stopTraverse>>
  BY StitchOrderFacts DEF StitchCalls
<1>2. Stitching(o)
  BY <1>1 DEF Stitching
<1>3. /\ OrderOK(ord) /\ ListsOK(lists) /\ new \in [Action -> Status]
      /\ ord.first = currentOrder.first /\ ord.last = Msg[o].last
      /\ {b, currentOrder.first, Msg[o].last} \subseteq Nat /\ IsNode(b)
      /\ b <= Msg[o].last /\ currentOrder.first <= b /\ b \in BaseRange(currentOrder)
      /\ currentOrder.last \in Int /\ b <= currentOrder.last
      /\ PlaceIn(ord, b) = BaseEnd /\ b \in BaseRange(ord)
      /\ ord.orderId # None /\ scheduled \in SUBSET [action : Action, place : Place]
      /\ traversing \in Seq(EdgePlace)
  <2>1. PlaceIn(ord, b) = BaseEnd /\ b \in BaseRange(ord)
    BY <1>2, StitchedFacts, StitchedKeeps DEF BaseEnd
  <2>2. ord.orderId # None
    BY MessageFacts, EnvironmentAssumption DEF Stitched
  <2>3. Msg[o].base \in Nat /\ b <= Msg[o].base /\ Msg[o].base <= Msg[o].last
    BY <1>2, StitchedFacts
  <2>4. currentOrder.last \in Int /\ b <= currentOrder.last
    BY TypeFacts DEF OrderOK
  <2> HIDE DEF ord, lists, new
  <2>5. b <= Msg[o].last
    BY <1>2, <2>3, StitchedFacts
  <2> QED
    BY <1>2, <2>1, <2>2, <2>4, <2>5, StitchedFacts, TypeFacts DEF ord, lists, new
<1>4. /\ Structured(ord, lists) /\ Reported(ord, lists, new)
      /\ Executing(ord, lists, new, scheduled, traversing)
  BY <1>2, StitchedStructured, StitchedStatusFacts, StitchedExecuting
<1>5. Received'
  <2>1. \A q \in inbox' : actions'[q] = Msg[q].actions
    <3> SUFFICES ASSUME NEW q \in inbox' PROVE lists[q] = Msg[q].actions
      BY <1>1
    <3>1. q \in inbox /\ q \in Orders /\ BaseEnd.order \notin inbox
      BY <1>3, ListFacts, TypeFacts DEF TypeOK, OrderInv, Received, BaseEnd, PlaceIn
    <3>2. q # BaseEnd.order /\ q \in DOMAIN actions
      BY <3>1, TypeFacts DEF ListsOK
    <3>3. lists[q] = actions[q]
      BY <3>2 DEF StitchedLists
    <3> QED
      BY <3>1, <3>3 DEF OrderInv, Received
  <2>2. \A s \in ord.first .. ord.last : ord.at[s] \notin inbox'
    <3> SUFFICES ASSUME NEW s \in ord.first .. ord.last PROVE ord.at[s] \notin inbox'
      OBVIOUS
    <3>1. CASE s <= b
      <4>1. s \in currentOrder.first .. currentOrder.base /\ s \in currentOrder.first .. currentOrder.last
        BY <1>3, <3>1
      <4>2. ord.at[s] = currentOrder.at[s]
        BY <1>2, <4>1, StitchedFacts
      <4> QED
        BY <4>1, <4>2 DEF OrderInv, Received
    <3>2. CASE s > b
      <4>1. s \in (currentOrder.base + 1) .. Msg[o].last
        BY <1>3, <3>2
      <4> QED
        BY <1>2, <4>1, StitchedFacts
    <3> QED
      BY <1>3, <3>1, <3>2
  <2>3. \A a \in ReleasedActions(ord, lists) : \E q \in Orders \ inbox' : a \in MessageActions(q)
    BY <1>2, StitchedReleased DEF OrderInv, Received
  <2>4. \A s \in BaseRange(ord) : \A i \in DOMAIN List(ord, lists, s) :
          \E q \in Orders \ inbox' : Brings(q, ord, s, List(ord, lists, s)[i])
    BY <1>1, <1>2, StitchedBrings
  <2> QED
    BY <1>1, <2>1, <2>2, <2>3, <2>4 DEF Received
<1>6. ASSUME NEW from \in Nat, from <= b + 1,
             nodeStates = NodesIn(from, currentOrder.last), edgeStates = EdgesIn(from, currentOrder.last)
      PROVE  nodeStates' = NodesIn(from, ord.last) /\ edgeStates' = EdgesIn(from, ord.last)
  BY <1>1, <1>3, <1>6, RouteStitched
<1>7. \A c \in scheduled : new[c.action] = actionStates[c.action]
  BY <1>2, ExecutedFacts
<1>8. stopTraverse = 0 /\ cancelContext = None
  BY <1>1, TypeFacts DEF CancelInv, hasCancelingOrder
<1>9. ~ Inactive
  BY <1>1 DEF Inactive
<1>10. CASE Suspended
  <2>1. k = NoCalls
    <3>1. b \in nodeStates
      BY <1>3, <1>10 DEF Suspended, NodesIn
    <3> QED
      BY <3>1 DEF IsBaseEndCompleted, BaseEnd, PlaceIn
  <2> HIDE DEF k, ord, lists, new
  <2>2. scheduled' = {} /\ traversing' = << >> /\ actionStates' = new
    BY <1>1, <1>3, <1>10, <2>1, InvokeNothing DEF Suspended
  <2>3. Executing(ord, lists, new, {}, << >>)
    BY <1>4, <1>10 DEF Suspended
  <2>4. OrderInv'
    BY <1>1, <1>4, <1>5, <2>2, <2>3 DEF OrderInv
  <2>5. nodeStates' = NodesIn(ord.first, ord.last) /\ edgeStates' = EdgesIn(ord.first, ord.last)
    <3>1. currentOrder.first \in Nat /\ currentOrder.first <= b + 1
      BY <1>3
    <3> QED
      BY <1>3, <1>6, <1>10, <3>1 DEF Suspended
  <2>6. \A a \in ReleasedActions(ord, lists) : new[a] = "WAITING"
    BY <1>2, <1>10, StitchedReleased, StitchedStatusFacts DEF Suspended, ord, lists, new
  <2>7. pausedNode = PlaceIn(ord, ord.first)
    <3>1. currentOrder.first \in BaseRange(currentOrder)
      BY <1>3 DEF BaseRange
    <3>2. PlaceIn(ord, currentOrder.first) = PlaceIn(currentOrder, currentOrder.first)
      BY <1>2, <3>1, StitchedKeeps DEF ord
    <3> QED
      BY <1>3, <1>10, <3>2 DEF Suspended
  <2>8. Suspended'
    BY <1>1, <1>3, <1>10, <2>2, <2>5, <2>6, <2>7 DEF Suspended
  <2>9. CancelInv'
    BY <1>1, <1>8, <2>2 DEF CancelInv, hasCancelingOrder
  <2> QED
    BY <2>2, <2>4, <2>8, <2>9 DEF RouteInv, Fresh
<1>11. CASE EnRoute
  <2> DEFINE pos == lastNode.seq
  <2>1. pos \in Nat /\ pos + 1 <= b + 1 /\ pos \in BaseRange(currentOrder)
    BY <1>3, <1>11, ListFacts, TypeFacts DEF EnRoute, Ahead, BaseRange
  <2>2. nodeStates' = NodesIn(pos + 1, ord.last) /\ edgeStates' = EdgesIn(pos + 1, ord.last)
    <3>1. pos + 1 \in Nat
      BY <2>1
    <3> HIDE DEF ord
    <3> QED
      BY <1>6, <1>11, <2>1, <3>1 DEF EnRoute
  <2>3. lastNode = PlaceIn(ord, pos)
    BY <1>2, <1>11, <2>1, StitchedKeeps DEF EnRoute
  <2>4. /\ Reported(ord, lists, actionStates')
        /\ Executing(ord, lists, actionStates', scheduled', traversing')
        /\ Ahead(ord, lists, actionStates', scheduled', traversing', pos)
        /\ env.cancels => \A c \in scheduled' : actionStates'[c.action] = "ACTIVE"
        /\ Fresh
    <3>1. CASE ~ IsBaseEndCompleted(BaseEnd, lists)
      <4>1. k = NoCalls
        BY <3>1
      <4>2. Ahead(ord, lists, new, scheduled, traversing, pos)
        BY <1>2, <1>11, StitchedAhead DEF EnRoute
      <4> HIDE DEF k, ord, lists, new
      <4>3. scheduled' = scheduled /\ traversing' = traversing /\ actionStates' = new
        BY <1>1, <1>3, <4>1, InvokeNothing
      <4> QED
        BY <1>4, <1>7, <4>2, <4>3 DEF CancelInv, Fresh
    <3>2. CASE IsBaseEndCompleted(BaseEnd, lists)
      <4>1. pos = b /\ scheduled = {} /\ traversing = << >>
        BY <1>2, <1>11, <3>2, CompletedFacts
      <4>2. k = ProcessEdge(PlaceIn(ord, b), ord, lists)
        BY <1>3, <3>2
      <4>3. k \in Calls
        <5>1. PlaceIn(ord, b) \in NodePlace
          BY <1>3, ListFacts DEF NodePlace
        <5> QED
          BY <1>3, <4>2, <5>1, ProcessEdgeType
      <4>4. \A a \in Action : new[a] # "ACTIVE"
        BY <1>4, <4>1 DEF Executing
      <4>5. \A s \in BaseRange(ord) : s > b =>
              \A i \in DOMAIN List(ord, lists, s) : new[List(ord, lists, s)[i]] = "WAITING"
        <5> SUFFICES ASSUME NEW s \in BaseRange(ord), s > b, NEW i \in DOMAIN List(ord, lists, s)
                     PROVE  new[List(ord, lists, s)[i]] = "WAITING"
          OBVIOUS
        <5>1. FromMessage(o, s, i)
          <6>1. ~ FromCurrent(o, s, i)
            BY <1>3 DEF FromCurrent, BaseRange
          <6> QED
            BY <1>2, <6>1, StitchedOrigin
        <5>2. List(ord, lists, s)[i] \in MessageActions(o)
          BY <5>1, MessageActionsFacts DEF FromMessage
        <5> QED
          BY <1>2, <5>2, StitchedStatusFacts
      <4> HIDE DEF k, ord, lists, new
      <4>6. Proper(ord, lists, new, k, b)
        BY <1>3, <1>4, <4>2, <4>4, <4>5, ProcessEdgeProper
      <4>7. scheduled' = k.execute /\ traversing' = k.traverse /\ actionStates' = Started(k, new)
        BY <1>1, <4>1, <4>3, InvokeAlone
      <4>8. /\ Executing(ord, lists, Started(k, new), k.execute, k.traverse)
            /\ Ahead(ord, lists, Started(k, new), k.execute, k.traverse, b)
            /\ \A c \in k.execute : new[c.action] = "WAITING"
        BY <4>6 DEF Proper
      <4>9. /\ Reported(ord, lists, Started(k, new))
            /\ ~ env.defersStart => \A c \in k.execute : Started(k, new)[c.action] = "ACTIVE"
        BY <1>3, <1>4, <4>3, <4>8, StartedFacts
      <4>10. env.cancels => ~ env.defersStart
        BY DefersNotCancels
      <4>11. Fresh
        <5> SUFFICES ASSUME NEW c \in k.execute PROVE actionStates[c.action] \in {"ABSENT", "WAITING"}
          BY <4>7 DEF Fresh
        <5>1. new[c.action] = "WAITING" /\ c.action \in Action
          BY <4>3, <4>8 DEF Calls
        <5>2. CASE c.action \in MessageActions(o)
          BY <5>2, NewActions
        <5>3. CASE c.action \notin MessageActions(o)
          BY <1>2, <5>1, <5>3, StitchedStatusFacts DEF new
        <5> QED
          BY <5>2, <5>3
      <4> QED
        BY <4>1, <4>7, <4>8, <4>9, <4>10, <4>11
    <3> QED
      BY <3>1, <3>2
  <2> HIDE DEF k, ord, lists, new, pos
  <2>5. OrderInv'
    BY <1>1, <1>4, <1>5, <2>4 DEF OrderInv
  <2>6. EnRoute'
    BY <1>1, <1>3, <1>11, <2>2, <2>3, <2>4 DEF EnRoute, pos
  <2>7. CancelInv'
    BY <1>1, <1>8, <2>4 DEF CancelInv, hasCancelingOrder
  <2> QED
    BY <2>4, <2>5, <2>6, <2>7 DEF RouteInv
<1> QED
  BY <1>1, <1>9, <1>10, <1>11 DEF RouteInv

LEMMA ReceiveOrderInv ==
  ASSUME IInv, NoneActionsAlone, PromptCancelation, NEW o \in Orders, ReceiveOrder(o)
  PROVE  OrderInv' /\ RouteInv' /\ CancelInv' /\ Fresh
<1>1. o \in inbox /\ inbox' = inbox \ {o} /\ UNCHANGED <<cancelStates, pauses, env>>
  BY DEF ReceiveOrder
<1>2. CASE RejectOrder(o) \/ DiscardOrder(o)
  <2>1. scheduled' = scheduled
    BY <1>2 DEF RejectOrder, DiscardOrder, adapterVars
  <2> QED
    BY <1>1, <1>2, <2>1, RejectOrderInv DEF Fresh
<1>3. CASE ReplaceOrder(o)
  BY <1>1, <1>3, ReplaceOrderInv
<1>4. CASE StitchOrder(o)
  BY <1>1, <1>4, StitchOrderInv
<1> QED
  BY <1>2, <1>3, <1>4 DEF ReceiveOrder

LEMMA InitInv == Init => IInv
<1> SUFFICES ASSUME Init PROVE IInv
  OBVIOUS
<1>1. /\ currentOrder = NoOrder /\ scheduled = {} /\ traversing = << >>
      /\ actionStates = [a \in Action |-> "ABSENT"]
      /\ currentOrder.orderId = None
      /\ currentOrder.first .. currentOrder.last = {} /\ BaseRange(currentOrder) = {}
  BY DEF Init, NoOrder, BaseRange
<1>2. Structured(currentOrder, actions)
  BY <1>1 DEF Structured
<1>3. ReleasedActions(currentOrder, actions) = {}
  BY <1>1 DEF ReleasedActions, BaseRange
<1>4. Received
  <2>1. \A s \in BaseRange(currentOrder) : \A i \in DOMAIN List(currentOrder, actions, s) :
          \E o \in Orders \ inbox : Brings(o, currentOrder, s, List(currentOrder, actions, s)[i])
    BY <1>1
  <2> QED
    BY <1>1, <1>3, <2>1 DEF Init, Received
<1>5. Reported(currentOrder, actions, actionStates)
  BY <1>1, <1>3 DEF Reported
<1>6. Executing(currentOrder, actions, actionStates, scheduled, traversing)
  BY <1>1 DEF Executing
<1>7. RouteInv
  BY <1>1 DEF Init, RouteInv, Inactive, hasActiveOrder
<1>8. CancelInv
  BY <1>1 DEF Init, CancelInv, hasCancelingOrder
<1> QED
  BY <1>2, <1>4, <1>5, <1>6, <1>7, <1>8, InitType DEF IInv, OrderInv

LEMMA StutterInv ==
  ASSUME IInv, UNCHANGED vars
  PROVE  IInv'
<1> USE DEF IInv, OrderInv, CancelInv, vars, controllerVars, adapterVars, masterVars
<1>1. OrderInv'
  BY DEF Received
<1>2. RouteInv'
  BY DEF RouteInv, hasCancelingOrder, Inactive, Suspended, EnRoute, hasActiveOrder
<1>3. CancelInv'
  BY DEF hasCancelingOrder
<1>4. TypeOK'
  BY DEF TypeOK
<1> QED
  BY <1>1, <1>2, <1>3, <1>4

(* Every step preserves the inductive invariant.                           *)
LEMMA NextInv ==
  ASSUME IInv, NoneActionsAlone, PromptCancelation, [Next]_vars
  PROVE  IInv'
<1>1. TypeOK'
  BY StepType DEF IInv
<1>2. CASE Next
  <2>1. OrderInv' /\ RouteInv' /\ CancelInv'
    <3>1. CASE \E o \in Orders : ReceiveOrder(o)
      BY <3>1, ReceiveOrderInv
    <3>2. CASE \E c \in scheduled : StartAction(c)
      BY <3>2, StartActionInv
    <3>3. CASE \E c \in scheduled : EndAction(c)
      BY <3>3, EndActionInv
    <3>4. CASE \E i \in DOMAIN traversing : EdgeTraversed(i)
      BY <3>4, EdgeTraversedInv
    <3>5. CASE \E c \in Cancels : CancelOrder(c)
      BY <3>5, CancelOrderInv
    <3>6. CASE DrivingToNextNode
      BY <3>6, DrivingToNextNodeInv
    <3>7. CASE Stopped
      BY <3>7, StoppedInv
    <3>8. CASE StartPause \/ PushPauseButton
      BY <3>8, PauseInv
    <3>9. CASE StopPause
      BY <3>9, StopPauseInv
    <3> QED
      BY <1>2, <3>1, <3>2, <3>3, <3>4, <3>5, <3>6, <3>7, <3>8, <3>9 DEF Next
  <2> QED
    BY <1>1, <2>1 DEF IInv
<1>3. CASE UNCHANGED vars
  BY <1>3, StutterInv
<1> QED
  BY <1>2, <1>3

(* No step but those that start actions schedules any.                     *)
LEMMA NextFresh ==
  ASSUME IInv, NoneActionsAlone, PromptCancelation, [Next]_vars
  PROVE  Fresh
<1>1. CASE \E o \in Orders : ReceiveOrder(o)
  BY <1>1, ReceiveOrderInv
<1>2. CASE \E c \in scheduled : EndAction(c)
  BY <1>2, EndActionInv
<1>3. CASE \E i \in DOMAIN traversing : EdgeTraversed(i)
  BY <1>3, EdgeTraversedInv
<1>4. CASE StopPause
  BY <1>4, StopPauseInv
<1>5. CASE scheduled' = scheduled
  BY <1>5 DEF Fresh
<1>6. ASSUME \/ \E c \in scheduled : StartAction(c)
             \/ \E c \in Cancels : CancelOrder(c)
             \/ DrivingToNextNode \/ Stopped \/ StartPause \/ PushPauseButton
             \/ UNCHANGED vars
      PROVE  scheduled' = scheduled
  BY <1>6 DEF StartAction, CancelOrder, DrivingToNextNode, Stopped, StartPause, PushPauseButton,
              vars, adapterVars
<1> QED
  BY <1>1, <1>2, <1>3, <1>4, <1>5, <1>6 DEF Next

-----------------------------------------------------------------------------
(* The properties *)

LEMMA Invariance ==
  ASSUME NoneActionsAlone, PromptCancelation
  PROVE  Spec => []IInv
<1>1. IInv /\ [Next]_vars => IInv'
  BY NextInv
<1> QED
  BY InitInv, <1>1, PTL DEF Spec

(* The adapter is never asked to traverse an edge before it has reported   *)
(* the one before as traversed.                                            *)
THEOREM SingleLocusHolds ==
  ASSUME NoneActionsAlone, PromptCancelation
  PROVE  Spec => []SingleLocus
<1>1. IInv => SingleLocus
  <2> SUFFICES ASSUME IInv PROVE SingleLocus
    OBVIOUS
  <2>1. traversing # << >> => Len(traversing) = 1
    BY DEF IInv, OrderInv, Executing
  <2>2. traversing = << >> => Len(traversing) = 0
    OBVIOUS
  <2>3. Len(traversing) \in {0, 1}
    BY <2>1, <2>2
  <2>4. \A n \in {0, 1} : n <= 1
    OBVIOUS
  <2> QED
    BY <2>3, <2>4, Zenon DEF SingleLocus
<1> QED
  BY Invariance, <1>1, PTL

(* The reported node and edge states are the route ahead of the AGV.       *)
THEOREM RouteMatchesPositionHolds ==
  ASSUME NoneActionsAlone, PromptCancelation
  PROVE  Spec => []RouteMatchesPosition
<1>1. IInv => RouteMatchesPosition
  <2> SUFFICES ASSUME IInv, hasActiveOrder, ~ hasCancelingOrder
               PROVE  RouteMatchesPosition
    BY DEF RouteMatchesPosition
  <2>1. CASE Suspended
    BY <2>1 DEF Suspended, RouteMatchesPosition
  <2>2. CASE EnRoute
    <3>1. \A i \in DOMAIN traversing : traversing[i] = PlaceIn(currentOrder, lastNode.seq + 1)
      <4>1. CASE traversing = << >>
        BY <4>1
      <4>2. CASE traversing # << >>
        BY <2>2, <4>2 DEF EnRoute, Ahead
      <4> QED
        BY <4>1, <4>2
    <3> QED
      BY <2>2, <3>1 DEF EnRoute, RouteMatchesPosition
  <2> QED
    BY <2>1, <2>2 DEF IInv, RouteInv, Inactive
<1> QED
  BY Invariance, <1>1, PTL

(* stopTraverse is invoked once per cancelation, after all actions ended.  *)
THEOREM StopTraverseGuaranteeHolds ==
  ASSUME NoneActionsAlone, PromptCancelation
  PROVE  Spec => []StopTraverseGuarantee
<1>1. IInv => StopTraverseGuarantee
  BY DEF IInv, CancelInv, StopTraverseGuarantee
<1> QED
  BY Invariance, <1>1, PTL

(* A pending cancelation always waits for an answer of the adapter.        *)
THEOREM CancelNeverStallsHolds ==
  ASSUME NoneActionsAlone, PromptCancelation
  PROVE  Spec => []CancelNeverStalls
<1>1. IInv => CancelNeverStalls
  BY DEF IInv, CancelInv, CancelNeverStalls
<1> QED
  BY Invariance, <1>1, PTL

(* Nothing is executed or traversed on behalf of a canceled order.         *)
THEOREM NothingStartsAfterDeletionHolds ==
  ASSUME NoneActionsAlone, PromptCancelation
  PROVE  Spec => NothingStartsAfterDeletion
<1> DEFINE Quiet == (hasCancelingOrder \/ ~ hasActiveOrder) /\ inbox' = inbox
                      => scheduled' \subseteq scheduled /\ Len(traversing') <= Len(traversing)
<1>1. ASSUME IInv, Next, hasCancelingOrder \/ ~ hasActiveOrder, inbox' = inbox
      PROVE  scheduled' \subseteq scheduled /\ Len(traversing') <= Len(traversing)
  <2>1. traversing \in Seq(EdgePlace) /\ Len(traversing) \in Nat /\ actionStates \in [Action -> Status]
    BY <1>1, TypeFacts DEF IInv
  <2>2. ~ hasCancelingOrder => Inactive
    BY <1>1, InactiveFacts
  <2>3. pausedNode = None \/ hasCancelingOrder
    BY <2>2 DEF Inactive
  <2>4. ASSUME scheduled' = scheduled, traversing' = traversing
        PROVE  scheduled' \subseteq scheduled /\ Len(traversing') <= Len(traversing)
    BY <2>1, <2>4
  <2>5. CASE \E o \in Orders : ReceiveOrder(o)
    BY <1>1, <2>5 DEF ReceiveOrder
  <2>6. CASE \E c \in scheduled : EndAction(c)
    <3>1. PICK c \in scheduled : EndAction(c)
      BY <2>6
    <3>2. hasCancelingOrder
      BY <2>2 DEF Inactive
    <3>3. Invoke(NoCalls, [actionStates EXCEPT ![c.action] = "ENDED"], scheduled \ {c}, traversing)
      BY <3>1, <3>2 DEF EndAction
    <3>4. [actionStates EXCEPT ![c.action] = "ENDED"] \in [Action -> Status]
      BY <2>1 DEF Status
    <3>5. scheduled' = scheduled \ {c} /\ traversing' = traversing
      BY <2>1, <3>3, <3>4, InvokeNothing
    <3> QED
      BY <2>1, <3>5
  <2>7. CASE \E i \in DOMAIN traversing : EdgeTraversed(i)
    <3>1. PICK i \in DOMAIN traversing : EdgeTraversed(i)
      BY <2>7
    <3>2. hasCancelingOrder
      BY <2>2 DEF Inactive
    <3>3. scheduled' = scheduled /\ traversing' = Remaining(i)
      BY <3>1, <3>2 DEF EdgeTraversed
    <3>4. Len(traversing) = 1 /\ i = 1
      BY <1>1, <2>1 DEF IInv, OrderInv, Executing
    <3>5. Remaining(i) = << >>
      BY <2>1, <3>4 DEF Remaining
    <3> QED
      BY <3>3, <3>4, <3>5
  <2>8. CASE StopPause
    BY <2>3, <2>4, <2>8 DEF StopPause
  <2>9. CASE Stopped
    BY <2>1, <2>9 DEF Stopped
  <2>10. CASE \/ \E c \in scheduled : StartAction(c)
              \/ \E c \in Cancels : CancelOrder(c)
              \/ DrivingToNextNode \/ StartPause \/ PushPauseButton
    BY <2>4, <2>10 DEF StartAction, CancelOrder, DrivingToNextNode, StartPause, PushPauseButton,
                       adapterVars
  <2> QED
    BY <1>1, <2>5, <2>6, <2>7, <2>8, <2>9, <2>10 DEF Next
<1>2. IInv /\ [Next]_vars => [Quiet]_vars
  BY <1>1
<1>3. Spec => [][Quiet]_vars
  BY Invariance, <1>2, PTL DEF Spec
<1> QED
  BY <1>3 DEF NothingStartsAfterDeletion

(* No action is passed to executeAction twice, and no ended one is run.    *)
THEOREM ExecutedOnceHolds ==
  ASSUME NoneActionsAlone, PromptCancelation
  PROVE  Spec => ExecutedOnce
<1> DEFINE Once == \A c \in scheduled' :
                     /\ actionStates'[c.action] # "ENDED"
                     /\ c \notin scheduled => actionStates[c.action] \in {"ABSENT", "WAITING"}
<1>1. IInv /\ [Next]_vars => [Once]_vars
  <2> SUFFICES ASSUME IInv, [Next]_vars PROVE Once
    OBVIOUS
  <2>1. IInv' /\ Fresh
    BY NextInv, NextFresh
  <2> QED
    BY <2>1 DEF IInv, OrderInv, Executing, Fresh
<1>2. Spec => [][Once]_vars
  BY Invariance, <1>1, PTL DEF Spec
<1> QED
  BY <1>2 DEF ExecutedOnce

-----------------------------------------------------------------------------
(***************************************************************************)
(* Two properties that the inductive invariant IInv is too weak for:       *)
(* blocking types are respected, and processing of an order never gets     *)
(* lost.  Both need to know what has ended behind the AGV.                 *)
(***************************************************************************)

(* Facts about action lists *)

LEMMA NextHardExists ==
  ASSUME NEW acts \in Seq(Action), NEW i \in Nat,
         NEW j \in DOMAIN acts, j > i, Hard(acts[j])
  PROVE  NextHard(acts, i) # {}
<1> DEFINE T == {h \in DOMAIN acts : h > i /\ Hard(acts[h])}
<1>1. T \subseteq Nat /\ T # {}
  OBVIOUS
<1>2. IsWellFoundedOn(OpToRel(<, Nat), Nat)
  BY NatLessThanWellFounded
<1>3. PICK x \in T : \A y \in T : ~ (<<y, x>> \in OpToRel(<, Nat))
  BY <1>1, <1>2, WFMin
<1>4. \A y \in T : ~ (y < x)
  BY <1>1, <1>3 DEF OpToRel
<1>5. x \in NextHard(acts, i)
  BY <1>4 DEF NextHard
<1> QED
  BY <1>5

(* What NextToRun starts comes right after what has ended.                 *)
LEMMA RunFacts ==
  ASSUME NEW acts \in Seq(Action), NEW after \in Nat, NEW i \in NextToRun(acts, after),
         NEW j \in DOMAIN acts
  PROVE  /\ j < i /\ j \notin Parallel(acts, i) => j <= after
         /\ j \in Parallel(acts, i) => j <= after \/ j \in NextToRun(acts, after)
<1>1. CASE Segment(acts, after) # {}
  <2>1. i \in DOMAIN acts /\ i > after /\ \A k \in (after + 1) .. i : ~ Hard(acts[k])
    BY <1>1 DEF NextToRun, Segment
  <2>2. j < i /\ j > after => j \in Parallel(acts, i)
    BY <2>1 DEF Parallel
  <2>3. ASSUME j \in Parallel(acts, i), j > after
        PROVE  j \in Segment(acts, after)
    <3>1. ASSUME NEW k \in (after + 1) .. j PROVE ~ Hard(acts[k])
      <4>1. CASE k <= i
        BY <2>1, <4>1
      <4>2. CASE k > i
        BY <2>1, <2>3, <4>2 DEF Parallel
      <4> QED
        BY <2>1, <4>1, <4>2
    <3> QED
      BY <2>3, <3>1 DEF Segment
  <2> QED
    BY <1>1, <2>1, <2>2, <2>3 DEF NextToRun
<1>2. CASE Segment(acts, after) = {}
  <2>1. /\ i \in DOMAIN acts /\ i > after /\ Hard(acts[i])
        /\ \A k \in (after + 1) .. (i - 1) : ~ Hard(acts[k])
    BY <1>2 DEF NextToRun, NextHard
  <2>2. Parallel(acts, i) = {}
    BY <2>1 DEF Parallel
  <2>3. ASSUME j < i, j > after PROVE j \in Segment(acts, after)
    BY <2>1, <2>3 DEF Segment
  <2> QED
    BY <1>2, <2>1, <2>2, <2>3
<1> QED
  BY <1>1, <1>2

LEMMA NothingToRun ==
  ASSUME NEW acts \in Seq(Action), NEW after \in Nat, NextToRun(acts, after) = {},
         NEW j \in DOMAIN acts
  PROVE  j <= after
<1>1. Segment(acts, after) = {} /\ NextHard(acts, after) = {}
  BY DEF NextToRun
<1> SUFFICES ASSUME j > after PROVE FALSE
  OBVIOUS
<1>2. \A k \in DOMAIN acts : k > after => ~ Hard(acts[k])
  BY <1>1, NextHardExists
<1>3. j \in Segment(acts, after)
  BY <1>2 DEF Segment
<1> QED
  BY <1>1, <1>3

(* The HARD action that follows a segment comes after all of it.           *)
LEMMA NextHardFacts ==
  ASSUME NEW acts \in Seq(Action), NEW i \in DOMAIN acts, ~ Hard(acts[i]),
         NEW h \in NextHard(acts, i), NEW j \in DOMAIN acts
  PROVE  /\ Parallel(acts, h) = {}
         /\ j < h => j = i \/ j \in Parallel(acts, i) \/ (j < i /\ j \notin Parallel(acts, i))
<1>1. /\ h \in DOMAIN acts /\ h > i /\ Hard(acts[h])
      /\ \A k \in (i + 1) .. (h - 1) : ~ Hard(acts[k])
  BY DEF NextHard
<1>2. Parallel(acts, h) = {}
  BY <1>1 DEF Parallel
<1>3. ASSUME j < h, j > i PROVE j \in Parallel(acts, i)
  BY <1>1, <1>3 DEF Parallel
<1> QED
  BY <1>2, <1>3

(* The last segment of a list.                                             *)
LEMMA LastSegmentFacts ==
  ASSUME NEW acts \in Seq(Action), NEW i \in DOMAIN acts, ~ Hard(acts[i]),
         NextHard(acts, i) = {}, NEW j \in DOMAIN acts
  PROVE  j = i \/ j \in Parallel(acts, i) \/ (j < i /\ j \notin Parallel(acts, i))
<1>1. \A k \in DOMAIN acts : k > i => ~ Hard(acts[k])
  BY NextHardExists
<1>2. ASSUME j > i PROVE j \in Parallel(acts, i)
  BY <1>1, <1>2 DEF Parallel
<1> QED
  BY <1>2

-----------------------------------------------------------------------------
(***************************************************************************)
(* What has been started comes after what has ended: every action of a     *)
(* list up to the segment of a scheduled one.                              *)
(***************************************************************************)
EndedBefore(acts, a, statuses) ==
  \A i, j \in DOMAIN acts :
    acts[i] = a /\ j < i /\ j \notin Parallel(acts, i) => statuses[acts[j]] = "ENDED"

Settled(lists, statuses, sched) ==
  \A c \in sched : EndedBefore(ActionsOf(c.place, lists), c.action, statuses)

LEMMA UniqueInList ==
  ASSUME NEW ord, OrderOK(ord), NEW lists, ListsOK(lists), Structured(ord, lists),
         NEW t \in BaseRange(ord)
  PROVE  /\ ActionsOf(PlaceIn(ord, t), lists) = List(ord, lists, t)
         /\ List(ord, lists, t) \in Seq(Action)
         /\ \A i, j \in DOMAIN List(ord, lists, t) :
              List(ord, lists, t)[i] = List(ord, lists, t)[j] => i = j
BY ListFacts DEF Structured

(* What starts next of a list whose first actions have ended.              *)
LEMMA ProcessActionsSettled ==
  ASSUME NEW ord, OrderOK(ord), NEW lists, ListsOK(lists), Structured(ord, lists),
         NEW statuses, NEW t \in BaseRange(ord), NEW after \in Nat,
         \A j \in DOMAIN List(ord, lists, t) :
           j <= after => statuses[List(ord, lists, t)[j]] = "ENDED",
         NEW continuation, Settled(lists, statuses, continuation.execute)
  PROVE  Settled(lists, statuses,
                 ProcessActions(PlaceIn(ord, t), lists, after, continuation).execute)
<1> DEFINE p == PlaceIn(ord, t)
           k == ProcessActions(p, lists, after, continuation)
<1>0. PICK acts : acts = List(ord, lists, t)
  OBVIOUS
<1>1. /\ ActionsOf(p, lists) = acts /\ acts \in Seq(Action)
      /\ \A i, j \in DOMAIN acts : acts[i] = acts[j] => i = j
  BY <1>0, UniqueInList
<1>2. CASE NextToRun(acts, after) = {}
  BY <1>1, <1>2 DEF ProcessActions
<1>3. CASE NextToRun(acts, after) # {}
  <2>1. k.execute = {[action |-> acts[j], place |-> p] : j \in NextToRun(acts, after)}
    BY <1>1, <1>3 DEF ProcessActions
  <2> SUFFICES ASSUME NEW c \in k.execute PROVE EndedBefore(ActionsOf(c.place, lists), c.action, statuses)
    BY DEF Settled
  <2>2. PICK m \in NextToRun(acts, after) : c = [action |-> acts[m], place |-> p]
    BY <2>1
  <2>3. m \in DOMAIN acts /\ c.action = acts[m] /\ ActionsOf(c.place, lists) = acts
    BY <1>1, <2>2, NextToRunType
  <2> SUFFICES ASSUME NEW i \in DOMAIN acts, NEW j \in DOMAIN acts,
                      acts[i] = acts[m], j < i, j \notin Parallel(acts, i)
               PROVE  statuses[acts[j]] = "ENDED"
    BY <2>3 DEF EndedBefore
  <2>4. i = m
    BY <1>1, <2>3
  <2>5. j <= after
    BY <1>1, <2>2, <2>4, RunFacts
  <2> QED
    BY <1>0, <2>5
<1> QED
  BY <1>2, <1>3

LEMMA ProcessEdgeSettled ==
  ASSUME NEW ord, OrderOK(ord), NEW lists, ListsOK(lists), Structured(ord, lists),
         NEW statuses, NEW n, n.seq \in Nat
  PROVE  Settled(lists, statuses, ProcessEdge(n, ord, lists).execute)
<1>1. Settled(lists, statuses, NoCalls.execute)
  BY DEF Settled, NoCalls
<1>2. CASE n.seq + 1 \in BaseRange(ord)
  <2>1. Settled(lists, statuses, TraverseEdge(PlaceIn(ord, n.seq + 1)).execute)
    BY DEF Settled, TraverseEdge
  <2>2. \A j \in DOMAIN List(ord, lists, n.seq + 1) :
          j <= 0 => statuses[List(ord, lists, n.seq + 1)[j]] = "ENDED"
    BY <1>2, ListFacts
  <2>3. Settled(lists, statuses, ProcessEdgeActions(PlaceIn(ord, n.seq + 1), lists, 0).execute)
    BY <1>2, <2>1, <2>2, ProcessActionsSettled DEF ProcessEdgeActions
  <2> QED
    BY <1>1, <2>3 DEF ProcessEdge
<1>3. CASE n.seq + 1 \notin BaseRange(ord)
  BY <1>1, <1>3 DEF ProcessEdge, BaseRange
<1> QED
  BY <1>2, <1>3

LEMMA ProcessNodeActionsSettled ==
  ASSUME NEW ord, OrderOK(ord), NEW lists, ListsOK(lists), Structured(ord, lists),
         NEW statuses, NEW pos \in BaseRange(ord)
  PROVE  Settled(lists, statuses, ProcessNodeActions(PlaceIn(ord, pos), ord, lists, 0).execute)
<1>1. PlaceIn(ord, pos).seq \in Nat
  BY ListFacts
<1>2. Settled(lists, statuses, ProcessEdge(PlaceIn(ord, pos), ord, lists).execute)
  BY <1>1, ProcessEdgeSettled
<1>3. \A j \in DOMAIN List(ord, lists, pos) : j <= 0 => statuses[List(ord, lists, pos)[j]] = "ENDED"
  BY ListFacts
<1> QED
  BY <1>2, <1>3, ProcessActionsSettled DEF ProcessNodeActions

(* What follows the end of an action that is settled.                      *)
LEMMA ContinueAfterSettled ==
  ASSUME NEW ord, OrderOK(ord), NEW lists, ListsOK(lists), Structured(ord, lists),
         NEW c \in [action : Action, place : Place], NEW t \in BaseRange(ord),
         c.place = PlaceIn(ord, t), c.action \in ActionSet(c.place, lists),
         NEW statuses \in [Action -> Status], statuses[c.action] = "ENDED",
         EndedBefore(ActionsOf(c.place, lists), c.action, statuses)
  PROVE  Settled(lists, statuses, ContinueAfter(c, ord, lists, statuses).execute)
<1> DEFINE i == CHOOSE j \in DOMAIN ActionsOf(c.place, lists) : ActionsOf(c.place, lists)[j] = c.action
           ended == {a \in Action : statuses[a] = "ENDED"}
           Continuation == IF IsNode(c.place.seq) THEN ProcessEdge(c.place, ord, lists)
                           ELSE TraverseEdge(c.place)
           k == ContinueAfter(c, ord, lists, statuses)
<1>0. PICK acts : acts = List(ord, lists, t)
  OBVIOUS
<1>1. /\ ActionsOf(c.place, lists) = acts /\ acts \in Seq(Action)
      /\ \A m, j \in DOMAIN acts : acts[m] = acts[j] => m = j
      /\ c.place.seq \in Nat
  BY <1>0, UniqueInList, ListFacts
<1>2. i \in DOMAIN acts /\ acts[i] = c.action /\ i \in Nat
  <2>1. \E j \in DOMAIN acts : acts[j] = c.action
    BY <1>1 DEF ActionSet
  <2> QED
    BY <1>1, <2>1
<1>3. Settled(lists, statuses, NoCalls.execute)
  BY DEF Settled, NoCalls
<1>4. Settled(lists, statuses, Continuation.execute)
  <2>1. Settled(lists, statuses, ProcessEdge(c.place, ord, lists).execute)
    BY <1>1, ProcessEdgeSettled
  <2>2. Settled(lists, statuses, TraverseEdge(c.place).execute)
    BY DEF Settled, TraverseEdge
  <2> QED
    BY <2>1, <2>2
<1>5. \A j \in DOMAIN acts : j < i /\ j \notin Parallel(acts, i) => statuses[acts[j]] = "ENDED"
  BY <1>1, <1>2 DEF EndedBefore
<1> HIDE DEF i, Continuation
<1>6. CASE Hard(c.action)
  <2>1. Parallel(acts, i) = {}
    BY <1>1, <1>2, <1>6 DEF Parallel
  <2>2. \A j \in DOMAIN List(ord, lists, t) : j <= i => statuses[List(ord, lists, t)[j]] = "ENDED"
    <3>1. \A j \in DOMAIN acts : j <= i => j = i \/ j < i
      BY <1>1, <1>2
    <3> QED
      BY <1>0, <1>2, <1>5, <2>1, <3>1
  <2>3. Settled(lists, statuses, ProcessActions(c.place, lists, i, Continuation).execute)
    BY <1>2, <1>4, <2>2, ProcessActionsSettled
  <2> QED
    BY <1>6, <2>3 DEF ContinueAfter, i, Continuation
<1>7. CASE ~ Hard(c.action) /\ NextHard(acts, i) # {} /\ AreParallelActionsEnded(acts, i, FALSE, ended)
  <2>1. k.execute = {[action |-> acts[j], place |-> c.place] : j \in NextHard(acts, i)}
    BY <1>1, <1>7 DEF ContinueAfter, i
  <2>2. \A j \in Parallel(acts, i) : statuses[acts[j]] = "ENDED"
    BY <1>7 DEF AreParallelActionsEnded
  <2> SUFFICES ASSUME NEW d \in k.execute PROVE EndedBefore(ActionsOf(d.place, lists), d.action, statuses)
    BY DEF Settled
  <2>3. PICK h \in NextHard(acts, i) : d = [action |-> acts[h], place |-> c.place]
    BY <2>1
  <2>4. h \in DOMAIN acts /\ d.action = acts[h] /\ ActionsOf(d.place, lists) = acts
    BY <1>1, <2>3 DEF NextHard
  <2> SUFFICES ASSUME NEW m \in DOMAIN acts, NEW j \in DOMAIN acts,
                      acts[m] = acts[h], j < m, j \notin Parallel(acts, m)
               PROVE  statuses[acts[j]] = "ENDED"
    BY <2>4 DEF EndedBefore
  <2>5. m = h
    BY <1>1, <2>4
  <2>6. j = i \/ j \in Parallel(acts, i) \/ (j < i /\ j \notin Parallel(acts, i))
    BY <1>1, <1>2, <1>7, <2>3, <2>5, NextHardFacts
  <2> QED
    BY <1>2, <1>5, <2>2, <2>6
<1>8. CASE ~ Hard(c.action) /\ NextHard(acts, i) # {} /\ ~ AreParallelActionsEnded(acts, i, FALSE, ended)
  BY <1>1, <1>3, <1>8 DEF ContinueAfter, i
<1>9. CASE ~ Hard(c.action) /\ NextHard(acts, i) = {}
  BY <1>1, <1>3, <1>4, <1>9 DEF ContinueAfter, i, Continuation
<1> QED
  BY <1>6, <1>7, <1>8, <1>9

-----------------------------------------------------------------------------
(* What the handlers that invoke the adapter do, case by case *)

(* Calls are all that is executed after a step.                            *)
Issued(k, statuses) ==
  /\ k \in Calls
  /\ scheduled' = k.execute /\ traversing' = k.traverse
  /\ actionStates' = Started(k, statuses)

LEMMA ProcessNodeEffect ==
  ASSUME NEW ord, OrderOK(ord), NEW lists, ListsOK(lists), NEW st, NEW traversedEdge,
         NEW pos \in BaseRange(ord), IsNode(pos), st.order = ord, st.lists = lists,
         ~ st.paused, st.traversing = << >>, scheduled = {},
         ProcessNode(PlaceIn(ord, pos), traversedEdge, st)
  PROVE  /\ pausedNode' = st.pausedNode
         /\ lastNode' = PlaceIn(ord, pos) /\ lastNode'.seq = pos /\ lastNode' # None
         /\ Issued(ProcessNodeActions(PlaceIn(ord, pos), ord, lists, 0), st.statuses)
<1> DEFINE n == PlaceIn(ord, pos)
           k == ProcessNodeActions(n, ord, lists, 0)
<1>1. n \in NodePlace /\ n.seq = pos
  BY ListFacts DEF NodePlace
<1>2. /\ pausedNode' = st.pausedNode /\ lastNode' = n
      /\ Invoke(k, st.statuses, {}, << >>)
  BY DEF ProcessNode
<1>3. k \in Calls
  BY <1>1, ProcessNodeActionsType
<1>4. n # None
  BY <1>1, EnvironmentAssumption DEF NodePlace, Place
<1> HIDE DEF k
<1>5. Issued(k, st.statuses)
  BY <1>2, <1>3, InvokeAlone DEF Issued
<1> QED
  BY <1>1, <1>2, <1>4, <1>5 DEF k

(* The statuses when the action of c is reported FINISHED or FAILED.       *)
Ending(c) == [actionStates EXCEPT ![c.action] = "ENDED"]

LEMMA EndActionEffect ==
  ASSUME IInv, NEW c \in scheduled, EndAction(c)
  PROVE  /\ UNCHANGED <<currentOrder, actions, nodeStates, edgeStates, lastNode,
                        pausedNode, cancelContext>>
         /\ c \in [action : Action, place : Place] /\ traversing = << >>
         /\ Ending(c) \in [Action -> Status] /\ Ending(c)[c.action] = "ENDED"
         /\ \A a \in Action : a # c.action => Ending(c)[a] = actionStates[a]
         /\ c.place.seq \in BaseRange(currentOrder)
         /\ c.place = PlaceIn(currentOrder, c.place.seq)
         /\ c.action \in ActionSet(c.place, actions)
         /\ ~ hasCancelingOrder => EnRoute
         /\ hasCancelingOrder \/ scheduled \ {c} # {} =>
              scheduled' = scheduled \ {c} /\ traversing' = << >> /\ actionStates' = Ending(c)
         /\ ~ hasCancelingOrder /\ scheduled \ {c} = {} =>
              /\ Issued(ContinueAfter(c, currentOrder, actions, Ending(c)), Ending(c))
              /\ \A d \in scheduled' : Ending(c)[d.action] # "ENDED"
<1> USE DEF IInv, OrderInv, CancelInv, masterVars
<1> DEFINE statuses == Ending(c)
           k == ContinueAfter(c, currentOrder, actions, statuses)
<1>1. /\ c \in [action : Action, place : Place]
      /\ statuses \in [Action -> Status] /\ statuses[c.action] = "ENDED"
      /\ \A a \in Action : a # c.action => statuses[a] = actionStates[a]
  BY TypeFacts DEF Status, Ending
<1> HIDE DEF statuses
<1>2. /\ traversing = << >>
      /\ Executing(currentOrder, actions, statuses, scheduled \ {c}, << >>)
  <2>1. /\ traversing = << >>
        /\ Executing(currentOrder, actions, [actionStates EXCEPT ![c.action] = "ENDED"],
                     scheduled \ {c}, << >>)
        /\ \A d \in scheduled \ {c} : d.action # c.action
    <3>1. /\ OrderOK(currentOrder) /\ ListsOK(actions) /\ Structured(currentOrder, actions)
          /\ actionStates \in [Action -> Status]
          /\ scheduled \in SUBSET [action : Action, place : Place]
          /\ Executing(currentOrder, actions, actionStates, scheduled, traversing)
      BY TypeFacts
    <3> HIDE DEF IInv, OrderInv, CancelInv, masterVars
    <3> QED
      BY <3>1, EndingExecuting
  <2> QED
    BY <2>1 DEF statuses, Ending
<1>3. UNCHANGED <<currentOrder, actions, nodeStates, edgeStates, lastNode, pausedNode, cancelContext>>
  BY DEF EndAction
<1>4. /\ c.place.seq \in BaseRange(currentOrder) /\ c.place = PlaceIn(currentOrder, c.place.seq)
      /\ c.action \in ActionSet(c.place, actions)
  BY DEF Executing
<1>5. ~ hasCancelingOrder => EnRoute
  BY DEF RouteInv, Inactive, Suspended
<1>6. << >> \in Seq(EdgePlace) /\ ListsOK(actions) /\ OrderOK(currentOrder)
  BY TypeFacts
<1>7. CASE hasCancelingOrder
  <2>1. Invoke(NoCalls, statuses, scheduled \ {c}, << >>)
    BY <1>2, <1>7, Zenon DEF EndAction, statuses, Ending
  <2>2. scheduled' = scheduled \ {c} /\ traversing' = << >> /\ actionStates' = statuses
    BY <1>1, <1>6, <2>1, InvokeNothing
  <2> QED
    BY <1>1, <1>2, <1>3, <1>4, <1>7, <2>2 DEF statuses
<1>8. CASE ~ hasCancelingOrder /\ scheduled \ {c} # {}
  <2>1. PICK d \in scheduled \ {c} : TRUE
    BY <1>8
  <2>2. c.place \in Place /\ d \in [action : Action, place : Place]
    BY <1>1, TypeFacts
  <2>3. \A i, j \in DOMAIN ActionsOf(c.place, actions) :
          ActionsOf(c.place, actions)[i] = ActionsOf(c.place, actions)[j] => i = j
    BY <1>4, <1>6, UniqueInList
  <2>4. Together(ActionsOf(c.place, actions), c.action, d.action)
    BY <2>1 DEF Executing
  <2>5. statuses[d.action] # "ENDED"
    BY <1>2, <2>1 DEF Executing
  <2>6. k = NoCalls
    <3> HIDE DEF IInv, OrderInv, CancelInv, masterVars
    <3> QED
      BY <1>1, <1>6, <2>2, <2>3, <2>4, <2>5, ContinueAfterOther
  <2>7. Invoke(k, statuses, scheduled \ {c}, << >>)
    BY <1>2, <1>8 DEF EndAction, statuses, Ending
  <2> HIDE DEF k
  <2>8. Invoke(NoCalls, statuses, scheduled \ {c}, << >>)
    BY <2>6, <2>7
  <2> QED
    BY <1>1, <1>2, <1>3, <1>4, <1>5, <1>6, <1>8, <2>8, InvokeNothing DEF statuses
<1>9. CASE ~ hasCancelingOrder /\ scheduled \ {c} = {}
  <2>1. Invoke(k, statuses, {}, << >>)
    BY <1>2, <1>9 DEF EndAction, statuses, Ending
  <2>2. k \in Calls
    BY <1>1, <1>6, ContinueAfterType
  <2>3. /\ Executing(currentOrder, actions, actionStates, {c}, traversing)
        /\ Ahead(currentOrder, actions, actionStates, {c}, traversing, lastNode.seq)
    <3>1. scheduled = {c}
      BY <1>9
    <3> QED
      BY <1>5, <1>9, <3>1 DEF EnRoute
  <2>4. Proper(currentOrder, actions, statuses, k, lastNode.seq)
    BY <1>1, <1>6, <2>3, ContinueAfterProper, TypeFacts
  <2> HIDE DEF k
  <2>5. Issued(k, statuses)
    BY <2>1, <2>2, InvokeAlone DEF Issued
  <2>6. \A d \in scheduled' : statuses[d.action] # "ENDED"
    BY <2>4, <2>5 DEF Proper, Issued
  <2> QED
    BY <1>1, <1>2, <1>3, <1>4, <1>5, <1>9, <2>5, <2>6 DEF k, statuses
<1> QED
  BY <1>7, <1>8, <1>9

LEMMA EdgeTraversedEffect ==
  ASSUME IInv, NEW i \in DOMAIN traversing, EdgeTraversed(i)
  PROVE  /\ UNCHANGED <<currentOrder, actions, cancelContext>>
         /\ hasCancelingOrder => UNCHANGED <<scheduled, actionStates>>
         /\ ~ hasCancelingOrder =>
              /\ EnRoute /\ traversing # << >> /\ scheduled = {} /\ pausedNode' = None
              /\ lastNode.seq \in Nat
              /\ lastNode.seq + 2 \in BaseRange(currentOrder) /\ IsNode(lastNode.seq + 2)
              /\ lastNode'.seq = lastNode.seq + 2
              /\ Issued(ProcessNodeActions(PlaceIn(currentOrder, lastNode.seq + 2),
                                           currentOrder, actions, 0), actionStates)
<1> USE DEF IInv, OrderInv
<1>1. UNCHANGED <<currentOrder, actions, cancelContext>> /\ ~ paused
  BY DEF EdgeTraversed
<1>2. Len(traversing) = 1 /\ i = 1 /\ Remaining(i) = << >> /\ scheduled = {} /\ traversing # << >>
  <2>1. Len(traversing) = 1 /\ i = 1 /\ scheduled = {} /\ traversing # << >>
    BY TypeFacts DEF Executing
  <2> QED
    BY <2>1, TypeFacts DEF Remaining
<1>3. CASE hasCancelingOrder
  BY <1>1, <1>3 DEF EdgeTraversed
<1>4. CASE ~ hasCancelingOrder
  <2> DEFINE pos == lastNode.seq
             e == PlaceIn(currentOrder, pos + 1)
             st == [Now EXCEPT !.traversing = Remaining(i)]
  <2>1. EnRoute
    BY <1>2, <1>4 DEF RouteInv, Inactive, Suspended
  <2>2. /\ pos \in Nat /\ pos + 1 \in BaseRange(currentOrder) /\ IsNode(pos) /\ traversing[i] = e
    BY <1>2, <2>1, ListFacts, TypeFacts DEF EnRoute, Ahead
  <2>3. ~ IsNode(pos + 1) /\ IsNode(pos + 2)
    <3>1. ~ IsNode(pos + 1)
      BY <2>2, Parity
    <3>2. IsNode(pos + 1 + 1) /\ pos + 1 + 1 = pos + 2
      BY <2>2, <3>1, Parity
    <3> QED
      BY <3>1, <3>2
  <2>4. pos + 2 \in BaseRange(currentOrder)
    <3>1. pos + 1 # currentOrder.base
      BY <2>1, <2>3 DEF Structured, EnRoute
    <3> QED
      BY <2>2, <3>1, TypeFacts DEF BaseRange, OrderOK
  <2>5. EndNodeOf(e) = PlaceIn(currentOrder, pos + 2)
    <3>1. pos + 1 \in currentOrder.first .. currentOrder.last
      BY <2>2, ListFacts, TypeFacts
    <3>2. \A s \in currentOrder.first .. currentOrder.last :
            ~ IsNode(s) => currentOrder.at[s + 1] = currentOrder.at[s]
      BY DEF Structured
    <3>3. currentOrder.at[pos + 1 + 1] = currentOrder.at[pos + 1] /\ pos + 1 + 1 = pos + 2
      BY <2>2, <2>3, <3>1, <3>2
    <3> QED
      BY <3>3 DEF EndNodeOf, PlaceIn
  <2>6. ProcessNode(PlaceIn(currentOrder, pos + 2), {e}, st)
    BY <1>4, <2>2, <2>5 DEF EdgeTraversed
  <2>7. /\ st.order = currentOrder /\ st.lists = actions /\ st.statuses = actionStates
        /\ ~ st.paused /\ st.traversing = << >> /\ st.pausedNode = None
    BY <1>1, <1>2, <2>1 DEF Now, EnRoute
  <2>8. OrderOK(currentOrder) /\ ListsOK(actions)
    BY TypeFacts
  <2> HIDE DEF st, e, pos
  <2>9. /\ pausedNode' = st.pausedNode
        /\ lastNode' = PlaceIn(currentOrder, pos + 2) /\ lastNode'.seq = pos + 2 /\ lastNode' # None
        /\ Issued(ProcessNodeActions(PlaceIn(currentOrder, pos + 2), currentOrder, actions, 0), st.statuses)
    BY <1>2, <2>3, <2>4, <2>6, <2>7, <2>8, ProcessNodeEffect
  <2> QED
    BY <1>1, <1>2, <1>4, <2>1, <2>2, <2>3, <2>4, <2>7, <2>9 DEF pos
<1> QED
  BY <1>3, <1>4

LEMMA StopPauseEffect ==
  ASSUME IInv, PromptCancelation, StopPause
  PROVE  /\ UNCHANGED <<currentOrder, actions, cancelContext>> /\ ~ hasCancelingOrder
         /\ pausedNode = None =>
              UNCHANGED <<nodeStates, edgeStates, lastNode, pausedNode, scheduled, actionStates, traversing>>
         /\ pausedNode # None =>
              /\ Suspended /\ pausedNode' = None
              /\ currentOrder.first \in BaseRange(currentOrder) /\ IsNode(currentOrder.first)
              /\ lastNode'.seq = currentOrder.first
              /\ Issued(ProcessNodeActions(PlaceIn(currentOrder, currentOrder.first),
                                           currentOrder, actions, 0), actionStates)
<1> USE DEF IInv, OrderInv, CancelInv
<1>1. env.pauses /\ UNCHANGED <<currentOrder, actions, cancelContext>>
  BY DEF StopPause
<1>2. ~ hasCancelingOrder
  BY <1>1, DefersNotCancels DEF hasCancelingOrder
<1>3. CASE pausedNode = None
  BY <1>1, <1>2, <1>3 DEF StopPause
<1>4. CASE pausedNode # None
  <2> DEFINE pos == currentOrder.first
             st == [Now EXCEPT !.paused = FALSE, !.pausedNode = None]
  <2>1. Suspended
    BY <1>2, <1>4 DEF RouteInv, Inactive, EnRoute
  <2>2. pos \in BaseRange(currentOrder) /\ IsNode(pos)
    BY <2>1, TypeFacts DEF Suspended, Structured, OrderOK, BaseRange
  <2>3. ProcessNode(PlaceIn(currentOrder, pos), {}, st)
    BY <1>2, <1>4, <2>1 DEF StopPause, Suspended
  <2>4. /\ st.order = currentOrder /\ st.lists = actions /\ st.statuses = actionStates
        /\ ~ st.paused /\ st.traversing = << >> /\ st.pausedNode = None /\ scheduled = {}
    BY <2>1 DEF Now, Suspended
  <2>5. OrderOK(currentOrder) /\ ListsOK(actions)
    BY TypeFacts
  <2> HIDE DEF st, pos
  <2>6. /\ pausedNode' = st.pausedNode
        /\ lastNode' = PlaceIn(currentOrder, pos) /\ lastNode'.seq = pos /\ lastNode' # None
        /\ Issued(ProcessNodeActions(PlaceIn(currentOrder, pos), currentOrder, actions, 0), st.statuses)
    BY <2>2, <2>3, <2>4, <2>5, ProcessNodeEffect
  <2> QED
    BY <1>1, <1>2, <1>4, <2>1, <2>2, <2>4, <2>6 DEF pos
<1> QED
  BY <1>3, <1>4

LEMMA ReplaceOrderEffect ==
  ASSUME IInv, NoneActionsAlone, NEW o \in inbox, o \in Orders, ReplaceOrder(o)
  PROVE  /\ currentOrder' = Replacement(o)
         /\ UNCHANGED <<actions, paused, cancelContext>> /\ ~ hasCancelingOrder
         /\ Structured(Replacement(o), actions) /\ OrderOK(Replacement(o))
         /\ Msg[o].first \in BaseRange(Replacement(o)) /\ IsNode(Msg[o].first)
         /\ paused => scheduled' = {} /\ traversing' = << >> /\ pausedNode' # None
         /\ ~ paused =>
              /\ lastNode'.seq = Msg[o].first
              /\ Issued(ProcessNodeActions(PlaceIn(Replacement(o), Msg[o].first),
                                           Replacement(o), actions, 0), ReplacementStatuses(o))
<1> USE DEF IInv
<1> DEFINE ord == Replacement(o)
           pos == Msg[o].first
           new == ReplacementStatuses(o)
           st == [Now EXCEPT !.order = ord, !.statuses = new,
                             !.nodes = NodesIn(pos, Msg[o].last),
                             !.edges = EdgesIn(pos, Msg[o].last)]
<1>1. /\ ~ hasCancelingOrder /\ ~ hasActiveOrder
      /\ currentOrder' = ord
      /\ UNCHANGED <<actions, paused, cancelContext>>
  BY DEF ReplaceOrder, Replacement, OrderMode
<1>2. ProcessNode(PlaceIn(ord, pos), {}, st)
  BY DEF ReplaceOrder, Replacement, ReplacementStatuses
<1>3. Inactive
  BY <1>1, InactiveFacts
<1>4. Structured(ord, actions) /\ pos \in BaseRange(ord) /\ IsNode(pos)
  BY ReplacementFacts, TypeFacts DEF OrderInv, Received
<1>5. /\ OrderOK(ord) /\ PlaceIn(ord, pos) \in NodePlace /\ new \in [Action -> Status]
      /\ ListsOK(actions)
  BY ReplacementType, TypeFacts
<1>6. /\ st.order = ord /\ st.lists = actions /\ st.statuses = new
      /\ st.paused = paused /\ st.pausedNode = pausedNode /\ st.traversing = traversing
  BY DEF Now
<1> HIDE DEF ord, pos, new, st
<1>7. CASE paused
  <2>1. pausedNode' = PlaceIn(ord, pos) /\ Invoke(NoCalls, new, {}, << >>)
    BY <1>2, <1>3, <1>6, <1>7 DEF ProcessNode, Inactive
  <2>2. << >> \in Seq(EdgePlace)
    OBVIOUS
  <2>3. scheduled' = {} /\ traversing' = << >> /\ actionStates' = new
    BY <1>5, <2>1, <2>2, InvokeNothing
  <2>4. pausedNode' # None
    BY <1>5, <2>1, EnvironmentAssumption DEF NodePlace, Place
  <2> QED
    BY <1>1, <1>4, <1>5, <1>7, <2>3, <2>4 DEF ord, pos
<1>8. CASE ~ paused
  <2>1. ~ st.paused /\ st.traversing = << >> /\ scheduled = {}
    BY <1>3, <1>6, <1>8 DEF Inactive
  <2>2. /\ pausedNode' = st.pausedNode
        /\ lastNode' = PlaceIn(ord, pos) /\ lastNode'.seq = pos /\ lastNode' # None
        /\ Issued(ProcessNodeActions(PlaceIn(ord, pos), ord, actions, 0), st.statuses)
    BY <1>2, <1>4, <1>5, <1>6, <2>1, ProcessNodeEffect
  <2> QED
    BY <1>1, <1>4, <1>5, <1>6, <1>8, <2>2 DEF ord, pos, new
<1> QED
  BY <1>7, <1>8

LEMMA StitchOrderEffect ==
  ASSUME IInv, NoneActionsAlone, NEW o \in inbox, o \in Orders, StitchOrder(o)
  PROVE  /\ Stitching(o) /\ hasActiveOrder /\ ~ hasCancelingOrder
         /\ currentOrder' = Stitched(o) /\ actions' = StitchedLists(o)
         /\ UNCHANGED <<lastNode, pausedNode, cancelContext>>
         /\ OrderMode(o) = "stitch"
         /\ ~ IsBaseEndCompleted(BaseEnd, StitchedLists(o)) =>
              /\ UNCHANGED <<scheduled, traversing>>
              /\ actionStates' = StitchedStatuses(o)
         /\ IsBaseEndCompleted(BaseEnd, StitchedLists(o)) =>
              /\ EnRoute /\ lastNode.seq = currentOrder.base
              /\ scheduled = {} /\ traversing = << >>
              /\ Issued(ProcessEdge(BaseEnd, Stitched(o), StitchedLists(o)), StitchedStatuses(o))
<1> USE DEF IInv
<1> DEFINE b == currentOrder.base
           ord == Stitched(o)
           lists == StitchedLists(o)
           new == StitchedStatuses(o)
           k == IF IsBaseEndCompleted(BaseEnd, lists) THEN ProcessEdge(BaseEnd, ord, lists) ELSE NoCalls
<1>1. /\ ~ hasCancelingOrder /\ hasActiveOrder /\ IsOrderBaseStitching(o) /\ OrderMode(o) = "stitch"
      /\ currentOrder' = ord /\ actions' = lists
      /\ Invoke(k, new, scheduled, traversing)
      /\ UNCHANGED <<lastNode, pausedNode, cancelContext>>
  BY DEF StitchOrder, Stitched, StitchedLists, StitchedStatuses, BaseEnd, OrderMode
<1>2. Stitching(o)
  BY <1>1 DEF Stitching
<1>3. /\ OrderOK(ord) /\ ListsOK(lists) /\ new \in [Action -> Status]
      /\ BaseEnd.seq = b /\ BaseEnd \in NodePlace /\ traversing \in Seq(EdgePlace)
  <2>1. BaseEnd \in NodePlace /\ BaseEnd.seq = b
    BY <1>2, StitchedFacts, ListFacts, TypeFacts DEF BaseEnd, NodePlace
  <2> QED
    BY <1>2, <2>1, StitchedFacts, TypeFacts
<1>4. CASE ~ IsBaseEndCompleted(BaseEnd, lists)
  <2>1. k = NoCalls
    BY <1>4
  <2> HIDE DEF k, ord, lists, new
  <2>2. Invoke(NoCalls, new, scheduled, traversing)
    BY <1>1, <2>1
  <2>3. scheduled' = scheduled /\ traversing' = traversing /\ actionStates' = new
    BY <1>3, <2>2, InvokeNothing
  <2> QED
    BY <1>1, <1>2, <1>4, <2>3 DEF ord, lists, new
<1>5. CASE IsBaseEndCompleted(BaseEnd, lists)
  <2>1. EnRoute
    <3>1. ~ Suspended
      <4>1. b \in currentOrder.first .. currentOrder.last /\ IsNode(b)
        BY <1>2, StitchedFacts, TypeFacts DEF OrderOK
      <4>2. b \notin nodeStates
        BY <1>3, <1>5 DEF IsBaseEndCompleted
      <4> QED
        BY <4>1, <4>2 DEF Suspended, NodesIn
    <3>2. ~ Inactive
      BY <1>1 DEF Inactive
    <3> QED
      BY <1>1, <3>1, <3>2 DEF RouteInv
  <2>2. lastNode.seq = b /\ scheduled = {} /\ traversing = << >>
    BY <1>2, <1>5, <2>1, CompletedFacts
  <2>3. k = ProcessEdge(BaseEnd, ord, lists)
    BY <1>5
  <2>4. k \in Calls
    BY <1>3, <2>3, ProcessEdgeType
  <2> HIDE DEF k, ord, lists, new
  <2>5. Issued(k, new)
    BY <1>1, <2>2, <2>4, InvokeAlone DEF Issued
  <2> QED
    BY <1>1, <1>2, <1>5, <2>1, <2>2, <2>3, <2>5 DEF ord, lists, new
<1> QED
  BY <1>4, <1>5

-----------------------------------------------------------------------------
(* Blocking types are respected *)

(* Ended actions stay ended, and nothing is added to what is executed.     *)
LEMMA SettledKept ==
  ASSUME NEW lists, ListsOK(lists), NEW statuses, NEW new,
         \A a \in Action : statuses[a] = "ENDED" => new[a] = "ENDED",
         NEW sched \in SUBSET [action : Action, place : Place], Settled(lists, statuses, sched),
         NEW rest \in SUBSET sched
  PROVE  Settled(lists, new, rest)
<1> SUFFICES ASSUME NEW c \in rest PROVE EndedBefore(ActionsOf(c.place, lists), c.action, new)
  BY DEF Settled
<1>1. EndedBefore(ActionsOf(c.place, lists), c.action, statuses) /\ c.place \in Place
  BY DEF Settled
<1>2. ActionsOf(c.place, lists) \in Seq(Action)
  BY <1>1, ActionsType
<1> QED
  BY <1>1, <1>2 DEF EndedBefore

LEMMA IssuedSettled ==
  ASSUME NEW lists, ListsOK(lists), NEW statuses, NEW k, Issued(k, statuses),
         Settled(lists, statuses, k.execute),
         \A c \in k.execute : statuses[c.action] # "ENDED"
  PROVE  Settled(lists, actionStates', scheduled')
<1>1. k.execute \in SUBSET [action : Action, place : Place]
  BY DEF Issued, Calls
<1>2. \A a \in Action : statuses[a] = "ENDED" => Started(k, statuses)[a] = "ENDED"
  BY DEF Started
<1>3. scheduled' = k.execute /\ actionStates' = Started(k, statuses)
  BY DEF Issued
<1>4. k.execute \in SUBSET k.execute
  OBVIOUS
<1> QED
  BY <1>1, <1>2, <1>3, <1>4, SettledKept

SettledNow == Settled(actions, actionStates, scheduled)

LEMMA EndActionSettled ==
  ASSUME IInv, SettledNow, NEW c \in scheduled, EndAction(c)
  PROVE  SettledNow'
<1>1. /\ UNCHANGED <<currentOrder, actions>>
      /\ c \in [action : Action, place : Place]
      /\ Ending(c) \in [Action -> Status] /\ Ending(c)[c.action] = "ENDED"
      /\ \A a \in Action : a # c.action => Ending(c)[a] = actionStates[a]
      /\ c.place.seq \in BaseRange(currentOrder)
      /\ c.place = PlaceIn(currentOrder, c.place.seq)
      /\ c.action \in ActionSet(c.place, actions)
      /\ hasCancelingOrder \/ scheduled \ {c} # {} =>
           scheduled' = scheduled \ {c} /\ traversing' = << >> /\ actionStates' = Ending(c)
      /\ ~ hasCancelingOrder /\ scheduled \ {c} = {} =>
           /\ Issued(ContinueAfter(c, currentOrder, actions, Ending(c)), Ending(c))
           /\ \A d \in scheduled' : Ending(c)[d.action] # "ENDED"
  BY EndActionEffect
<1>2. /\ OrderOK(currentOrder) /\ ListsOK(actions) /\ Structured(currentOrder, actions)
      /\ scheduled \in SUBSET [action : Action, place : Place]
  BY TypeFacts DEF IInv, OrderInv
<1>3. \A a \in Action : actionStates[a] = "ENDED" => Ending(c)[a] = "ENDED"
  BY <1>1
<1>4. CASE hasCancelingOrder \/ scheduled \ {c} # {}
  <2>1. Settled(actions, Ending(c), scheduled \ {c})
    BY <1>2, <1>3, SettledKept DEF SettledNow
  <2> QED
    BY <1>1, <1>4, <2>1 DEF SettledNow
<1>5. CASE ~ hasCancelingOrder /\ scheduled \ {c} = {}
  <2> DEFINE k == ContinueAfter(c, currentOrder, actions, Ending(c))
  <2>1. Settled(actions, Ending(c), {c})
    <3>1. {c} \in SUBSET scheduled
      OBVIOUS
    <3> QED
      BY <1>2, <1>3, <3>1, SettledKept DEF SettledNow
  <2>2. EndedBefore(ActionsOf(c.place, actions), c.action, Ending(c))
    BY <2>1 DEF Settled
  <2>3. Settled(actions, Ending(c), k.execute)
    BY <1>1, <1>2, <2>2, ContinueAfterSettled
  <2>4. Issued(k, Ending(c)) /\ \A d \in k.execute : Ending(c)[d.action] # "ENDED"
    BY <1>1, <1>5 DEF Issued
  <2> HIDE DEF k
  <2>5. Settled(actions, actionStates', scheduled')
    BY <1>2, <2>3, <2>4, IssuedSettled
  <2> QED
    BY <1>1, <2>5 DEF SettledNow
<1> QED
  BY <1>4, <1>5

LEMMA EdgeTraversedSettled ==
  ASSUME IInv, SettledNow, NEW i \in DOMAIN traversing, EdgeTraversed(i), Fresh
  PROVE  SettledNow'
<1>1. /\ UNCHANGED <<currentOrder, actions, cancelContext>>
      /\ hasCancelingOrder => UNCHANGED <<scheduled, actionStates>>
      /\ ~ hasCancelingOrder =>
           /\ EnRoute /\ traversing # << >> /\ scheduled = {} /\ pausedNode' = None
           /\ lastNode.seq \in Nat
           /\ lastNode.seq + 2 \in BaseRange(currentOrder) /\ IsNode(lastNode.seq + 2)
           /\ lastNode'.seq = lastNode.seq + 2
           /\ Issued(ProcessNodeActions(PlaceIn(currentOrder, lastNode.seq + 2),
                                        currentOrder, actions, 0), actionStates)
  BY EdgeTraversedEffect
<1>2. OrderOK(currentOrder) /\ ListsOK(actions) /\ Structured(currentOrder, actions)
  BY TypeFacts DEF IInv, OrderInv
<1>3. CASE ~ hasCancelingOrder
  <2> DEFINE k == ProcessNodeActions(PlaceIn(currentOrder, lastNode.seq + 2), currentOrder, actions, 0)
  <2>1. Settled(actions, actionStates, k.execute)
    BY <1>1, <1>2, <1>3, ProcessNodeActionsSettled
  <2>2. \A d \in k.execute : actionStates[d.action] # "ENDED"
    BY <1>1, <1>3 DEF Issued, Fresh
  <2> HIDE DEF k
  <2>3. Settled(actions, actionStates', scheduled')
    BY <1>1, <1>2, <1>3, <2>1, <2>2, IssuedSettled DEF k
  <2> QED
    BY <1>1, <2>3 DEF SettledNow
<1> QED
  BY <1>1, <1>3 DEF SettledNow

LEMMA StopPauseSettled ==
  ASSUME IInv, PromptCancelation, SettledNow, StopPause, Fresh
  PROVE  SettledNow'
<1>1. /\ UNCHANGED <<currentOrder, actions, cancelContext>> /\ ~ hasCancelingOrder
      /\ pausedNode = None =>
           UNCHANGED <<nodeStates, edgeStates, lastNode, pausedNode, scheduled, actionStates, traversing>>
      /\ pausedNode # None =>
           /\ Suspended /\ pausedNode' = None
           /\ currentOrder.first \in BaseRange(currentOrder) /\ IsNode(currentOrder.first)
           /\ lastNode'.seq = currentOrder.first
           /\ Issued(ProcessNodeActions(PlaceIn(currentOrder, currentOrder.first),
                                        currentOrder, actions, 0), actionStates)
  BY StopPauseEffect
<1>2. OrderOK(currentOrder) /\ ListsOK(actions) /\ Structured(currentOrder, actions)
  BY TypeFacts DEF IInv, OrderInv
<1>3. CASE pausedNode # None
  <2> DEFINE k == ProcessNodeActions(PlaceIn(currentOrder, currentOrder.first), currentOrder, actions, 0)
  <2>1. Settled(actions, actionStates, k.execute)
    BY <1>1, <1>2, <1>3, ProcessNodeActionsSettled
  <2>2. \A d \in k.execute : actionStates[d.action] # "ENDED"
    BY <1>1, <1>3 DEF Issued, Fresh, Suspended
  <2> HIDE DEF k
  <2>3. Settled(actions, actionStates', scheduled')
    BY <1>1, <1>2, <1>3, <2>1, <2>2, IssuedSettled DEF k
  <2> QED
    BY <1>1, <2>3 DEF SettledNow
<1> QED
  BY <1>1, <1>3 DEF SettledNow

LEMMA ReplaceOrderSettled ==
  ASSUME IInv, NoneActionsAlone, NEW o \in inbox, o \in Orders, ReplaceOrder(o)
  PROVE  SettledNow'
<1> DEFINE ord == Replacement(o)
           k == ProcessNodeActions(PlaceIn(ord, Msg[o].first), ord, actions, 0)
<1>1. /\ currentOrder' = ord
      /\ UNCHANGED <<actions, paused, cancelContext>> /\ ~ hasCancelingOrder
      /\ Structured(ord, actions) /\ OrderOK(ord)
      /\ Msg[o].first \in BaseRange(ord) /\ IsNode(Msg[o].first)
      /\ paused => scheduled' = {} /\ traversing' = << >> /\ pausedNode' # None
      /\ ~ paused => lastNode'.seq = Msg[o].first /\ Issued(k, ReplacementStatuses(o))
  BY ReplaceOrderEffect
<1>2. ListsOK(actions)
  BY TypeFacts DEF IInv
<1>3. CASE paused
  BY <1>1, <1>3 DEF SettledNow, Settled
<1>4. CASE ~ paused
  <2>1. Settled(actions, ReplacementStatuses(o), k.execute)
    BY <1>1, <1>2, ProcessNodeActionsSettled
  <2>2. \A d \in k.execute : ReplacementStatuses(o)[d.action] # "ENDED"
    BY <1>1, <1>4 DEF Issued, Calls, ReplacementStatuses
  <2> HIDE DEF k
  <2>3. Settled(actions, actionStates', scheduled')
    BY <1>1, <1>2, <1>4, <2>1, <2>2, IssuedSettled
  <2> QED
    BY <1>1, <2>3 DEF SettledNow
<1> QED
  BY <1>3, <1>4

(* Stitching lengthens the lists behind what is executed.                  *)
LEMMA StitchedSettled ==
  ASSUME NEW o, Stitching(o), SettledNow
  PROVE  Settled(StitchedLists(o), StitchedStatuses(o), scheduled)
<1> DEFINE lists == StitchedLists(o)
           new == StitchedStatuses(o)
<1> SUFFICES ASSUME NEW c \in scheduled,
                    NEW i \in DOMAIN ActionsOf(c.place, lists), NEW j \in DOMAIN ActionsOf(c.place, lists),
                    ActionsOf(c.place, lists)[i] = c.action,
                    j < i, j \notin Parallel(ActionsOf(c.place, lists), i)
             PROVE  new[ActionsOf(c.place, lists)[j]] = "ENDED"
  BY DEF Settled, EndedBefore
<1> DEFINE s == c.place.seq
           A == List(currentOrder, actions, s)
           L == List(Stitched(o), lists, s)
<1>1. /\ s \in BaseRange(currentOrder) /\ s \in BaseRange(Stitched(o))
      /\ ActionsOf(c.place, lists) = L /\ ActionsOf(c.place, actions) = A
      /\ c.action \in ReleasedActions(currentOrder, actions)
  BY ExecutedFacts, StitchedKeeps
<1>2. /\ A \in Seq(Action) /\ L \in Seq(Action)
      /\ DOMAIN A \subseteq DOMAIN L /\ \A k \in DOMAIN A : L[k] = A[k]
  BY <1>1, StitchedKeeps, StitchedFacts, ListFacts, TypeFacts DEF FromCurrent, Stitching
<1>3. FromCurrent(o, s, i)
  <2>1. ~ FromMessage(o, s, i)
    <3> SUFFICES ASSUME FromMessage(o, s, i) PROVE FALSE
      OBVIOUS
    <3>1. L[i] \in MessageActions(o)
      BY MessageActionsFacts DEF FromMessage, Stitching
    <3> QED
      BY <1>1, <3>1, StitchedDisjoint
  <2> QED
    BY <1>1, <2>1, StitchedOrigin
<1>4. i \in DOMAIN A /\ A[i] = c.action
  BY <1>1, <1>3 DEF FromCurrent
<1>5. j \in DOMAIN A /\ L[j] = A[j]
  <2> HIDE DEF A, L
  <2> QED
    BY <1>1, <1>2, <1>4
<1>6. j \notin Parallel(A, i)
  <2> HIDE DEF A, L
  <2> QED
    BY <1>1, <1>2, <1>4, <1>5, ParallelKept
<1>7. actionStates[A[j]] = "ENDED"
  BY <1>1, <1>4, <1>5, <1>6 DEF SettledNow, Settled, EndedBefore
<1>8. A[j] \in ReleasedActions(currentOrder, actions)
  BY <1>1, <1>5, ReleasedFacts, TypeFacts DEF Stitching
<1> QED
  BY <1>1, <1>5, <1>7, <1>8, StitchedStatusFacts

LEMMA StitchOrderSettled ==
  ASSUME IInv, NoneActionsAlone, SettledNow, NEW o \in inbox, o \in Orders, StitchOrder(o),
         Fresh, Structured(Stitched(o), StitchedLists(o))
  PROVE  SettledNow'
<1> DEFINE ord == Stitched(o)
           lists == StitchedLists(o)
           new == StitchedStatuses(o)
           k == ProcessEdge(BaseEnd, ord, lists)
<1>1. /\ Stitching(o) /\ hasActiveOrder /\ ~ hasCancelingOrder
      /\ currentOrder' = ord /\ actions' = lists
      /\ UNCHANGED <<lastNode, pausedNode, cancelContext>>
      /\ OrderMode(o) = "stitch"
      /\ ~ IsBaseEndCompleted(BaseEnd, lists) =>
           UNCHANGED <<scheduled, traversing>> /\ actionStates' = new
      /\ IsBaseEndCompleted(BaseEnd, lists) =>
           /\ EnRoute /\ lastNode.seq = currentOrder.base
           /\ scheduled = {} /\ traversing = << >>
           /\ Issued(k, new)
  BY StitchOrderEffect
<1>2. OrderOK(ord) /\ ListsOK(lists) /\ BaseEnd.seq \in Nat
  BY <1>1, StitchedFacts DEF BaseEnd, PlaceIn
<1>3. CASE ~ IsBaseEndCompleted(BaseEnd, lists)
  BY <1>1, <1>3, StitchedSettled DEF SettledNow
<1>4. CASE IsBaseEndCompleted(BaseEnd, lists)
  <2>1. Settled(lists, new, k.execute)
    BY <1>2, ProcessEdgeSettled
  <2>2. \A d \in k.execute : new[d.action] # "ENDED"
    <3> SUFFICES ASSUME NEW d \in k.execute PROVE new[d.action] # "ENDED"
      OBVIOUS
    <3>1. actionStates[d.action] # "ENDED" /\ d.action \in Action
      BY <1>1, <1>4 DEF Issued, Fresh, Calls
    <3> QED
      BY <1>1, <3>1, StitchedStatusFacts
  <2> HIDE DEF k, lists, new
  <2>3. Settled(lists, actionStates', scheduled')
    BY <1>1, <1>2, <1>4, <2>1, <2>2, IssuedSettled
  <2> QED
    BY <1>1, <2>3 DEF SettledNow
<1> QED
  BY <1>3, <1>4

(* The other steps start nothing and end nothing that is executed.         *)
LEMMA OthersSettled ==
  ASSUME IInv, SettledNow,
         \/ \E c \in scheduled : StartAction(c)
         \/ \E c \in Cancels : CancelOrder(c)
         \/ \E o \in Orders : RejectOrder(o) \/ DiscardOrder(o)
         \/ DrivingToNextNode \/ Stopped \/ StartPause \/ PushPauseButton
         \/ UNCHANGED vars
  PROVE  SettledNow'
<1>1. /\ ListsOK(actions) /\ scheduled \in SUBSET [action : Action, place : Place]
      /\ actionStates \in [Action -> Status]
      /\ \A c \in scheduled : actionStates[c.action] \in {"WAITING", "ACTIVE"}
  BY TypeFacts DEF IInv, OrderInv, Executing
<1>2. ASSUME scheduled' = scheduled, actions' = actions,
             \A a \in Action : actionStates[a] = "ENDED" => actionStates'[a] = "ENDED"
      PROVE  SettledNow'
  <2>1. Settled(actions, actionStates', scheduled)
    BY <1>1, <1>2, SettledKept DEF SettledNow
  <2> QED
    BY <1>2, <2>1 DEF SettledNow
<1>3. CASE \E c \in scheduled : StartAction(c)
  <2>1. PICK c \in scheduled : StartAction(c)
    BY <1>3
  <2>2. /\ scheduled' = scheduled /\ actions' = actions
        /\ actionStates' = [actionStates EXCEPT ![c.action] = "ACTIVE"]
    BY <2>1 DEF StartAction, adapterVars
  <2>3. actionStates[c.action] # "ENDED"
    BY <1>1
  <2> QED
    BY <1>1, <1>2, <2>2, <2>3
<1>4. CASE \E c \in Cancels : CancelOrder(c)
  <2>1. /\ scheduled' = scheduled /\ actions' = actions
        /\ \/ actionStates' = actionStates
           \/ actionStates' = [a \in Action |-> IF actionStates[a] = "WAITING"
                                                THEN "ENDED" ELSE actionStates[a]]
    BY <1>4 DEF CancelOrder
  <2> QED
    BY <1>2, <2>1
<1>5. CASE \/ \E o \in Orders : RejectOrder(o) \/ DiscardOrder(o)
           \/ DrivingToNextNode \/ Stopped \/ StartPause \/ PushPauseButton
           \/ UNCHANGED vars
  <2>1. UNCHANGED <<scheduled, actions, actionStates>>
    BY <1>5 DEF RejectOrder, DiscardOrder, DrivingToNextNode, Stopped, StartPause, PushPauseButton,
                vars, controllerVars, adapterVars
  <2> QED
    BY <1>2, <2>1
<1> QED
  BY <1>3, <1>4, <1>5

LEMMA NextSettled ==
  ASSUME IInv, NoneActionsAlone, PromptCancelation, SettledNow, [Next]_vars
  PROVE  SettledNow'
<1>1. Fresh /\ IInv'
  BY NextFresh, NextInv
<1>2. CASE \E o \in Orders : ReceiveOrder(o)
  <2>1. PICK o \in Orders : ReceiveOrder(o)
    BY <1>2
  <2>2. o \in inbox
    BY <2>1 DEF ReceiveOrder
  <2>3. CASE RejectOrder(o) \/ DiscardOrder(o)
    BY <2>3, OthersSettled
  <2>4. CASE ReplaceOrder(o)
    BY <2>2, <2>4, ReplaceOrderSettled
  <2>5. CASE StitchOrder(o)
    <3>1. currentOrder' = Stitched(o) /\ actions' = StitchedLists(o)
      BY <2>2, <2>5, StitchOrderEffect
    <3>2. Structured(Stitched(o), StitchedLists(o))
      BY <1>1, <3>1 DEF IInv, OrderInv
    <3> QED
      BY <1>1, <2>2, <2>5, <3>2, StitchOrderSettled
  <2> QED
    BY <2>1, <2>3, <2>4, <2>5 DEF ReceiveOrder
<1>3. CASE \E c \in scheduled : EndAction(c)
  BY <1>3, EndActionSettled
<1>4. CASE \E i \in DOMAIN traversing : EdgeTraversed(i)
  BY <1>1, <1>4, EdgeTraversedSettled
<1>5. CASE StopPause
  BY <1>1, <1>5, StopPauseSettled
<1>6. CASE \/ \E c \in scheduled : StartAction(c)
           \/ \E c \in Cancels : CancelOrder(c)
           \/ DrivingToNextNode \/ Stopped \/ StartPause \/ PushPauseButton
           \/ UNCHANGED vars
  BY <1>6, OthersSettled
<1> QED
  BY <1>2, <1>3, <1>4, <1>5, <1>6 DEF Next

(* What is executed together respects blocking types.                      *)
LEMMA SettledBlocking ==
  ASSUME IInv, SettledNow
  PROVE  BlockingRespected
<1> SUFFICES ASSUME NEW c \in scheduled
             PROVE  LET acts == ActionsOf(c.place, actions)
                        i == CHOOSE j \in DOMAIN acts : acts[j] = c.action
                    IN /\ Hard(c.action) => scheduled = {c}
                       /\ \A j \in DOMAIN acts :
                            /\ j < i /\ (Hard(acts[j]) \/ Hard(c.action)) => actionStates[acts[j]] = "ENDED"
                            /\ (\E h \in NextHard(acts, i) : j >= h) \/ (j > i /\ Hard(c.action))
                                 => ~ \E d \in scheduled : d.action = acts[j]
  BY DEF BlockingRespected
<1>1. PICK acts : acts = ActionsOf(c.place, actions)
  OBVIOUS
<1>2. PICK i : i = CHOOSE j \in DOMAIN acts : acts[j] = c.action
  OBVIOUS
<1>3. /\ Executing(currentOrder, actions, actionStates, scheduled, traversing)
      /\ Structured(currentOrder, actions) /\ OrderOK(currentOrder) /\ ListsOK(actions)
      /\ scheduled \in SUBSET [action : Action, place : Place]
  BY TypeFacts DEF IInv, OrderInv
<1>4. /\ acts \in Seq(Action)
      /\ \A m, j \in DOMAIN acts : acts[m] = acts[j] => m = j
      /\ \E j \in DOMAIN acts : acts[j] = c.action
  <2>1. /\ c.place.seq \in BaseRange(currentOrder)
        /\ c.place = PlaceIn(currentOrder, c.place.seq)
        /\ c.action \in ActionSet(c.place, actions)
    BY <1>3 DEF Executing
  <2>2. acts = List(currentOrder, actions, c.place.seq)
    BY <1>1, <1>3, <2>1, UniqueInList
  <2> QED
    BY <1>1, <1>3, <2>1, <2>2, UniqueInList DEF ActionSet
<1>5. i \in DOMAIN acts /\ acts[i] = c.action
  BY <1>2, <1>4
<1>6. EndedBefore(acts, c.action, actionStates)
  BY <1>1 DEF SettledNow, Settled
<1>7. \A d \in scheduled : d # c => Together(acts, c.action, d.action)
  BY <1>1, <1>3 DEF Executing
<1>8. Hard(c.action) => scheduled = {c}
  BY <1>7 DEF Together, Soft, Hard
<1>9. ASSUME NEW j \in DOMAIN acts, j < i, Hard(acts[j]) \/ Hard(c.action)
      PROVE  actionStates[acts[j]] = "ENDED"
  <2>1. j \notin Parallel(acts, i)
    BY <1>4, <1>5, <1>9 DEF Parallel
  <2> QED
    BY <1>5, <1>6, <1>9, <2>1 DEF EndedBefore
<1>10. ASSUME NEW j \in DOMAIN acts, NEW d \in scheduled, d.action = acts[j],
              (\E h \in NextHard(acts, i) : j >= h) \/ (j > i /\ Hard(c.action))
       PROVE  FALSE
  <2>1. j > i
    BY <1>4, <1>5, <1>10 DEF NextHard
  <2>2. d # c
    BY <1>4, <1>5, <1>10, <2>1
  <2>3. j \in Parallel(acts, i) /\ Soft(c.action)
    BY <1>4, <1>5, <1>7, <1>10, <2>2 DEF Together
  <2>4. ~ Hard(c.action)
    BY <2>3 DEF Soft, Hard
  <2>5. PICK h \in NextHard(acts, i) : j >= h
    BY <1>10, <2>4
  <2>6. h \in i .. j /\ Hard(acts[h])
    BY <1>4, <1>5, <2>5 DEF NextHard
  <2> QED
    BY <1>4, <1>5, <2>1, <2>3, <2>6 DEF Parallel
<1> QED
  BY <1>1, <1>2, <1>8, <1>9, <1>10

(* Blocking types are respected: a HARD action runs by itself, after all   *)
(* actions before it and before all actions behind it (_processNodeActions,*)
(* _processEdgeActions, _processActions of agv-controller.ts).             *)
THEOREM BlockingRespectedHolds ==
  ASSUME NoneActionsAlone, PromptCancelation
  PROVE  Spec => []BlockingRespected
<1>1. Init => SettledNow
  BY DEF Init, SettledNow, Settled
<1>2. IInv /\ SettledNow /\ [Next]_vars => SettledNow'
  BY NextSettled
<1>3. IInv /\ SettledNow => BlockingRespected
  BY SettledBlocking
<1> QED
  BY Invariance, <1>1, <1>2, <1>3, PTL DEF Spec

-----------------------------------------------------------------------------
(* What lies behind the AGV has ended *)

(***************************************************************************)
(* The first node of a stitching order is the base end of the order it     *)
(* stitches, and its contents "must not be changed" (the comment on it in  *)
(* _processOrder): a message that can be stitched to the base of another   *)
(* one lists no action there.                                              *)
(***************************************************************************)
Stitches(q, o) ==
  /\ Msg[o].first = Msg[q].base
  /\ Msg[o].nodeId[Msg[o].first] = Msg[q].nodeId[Msg[q].base]
  /\ ~ (Msg[o].orderId = Msg[q].orderId /\ Msg[o].orderUpdateId <= Msg[q].orderUpdateId)

StitchesWithoutActions ==
  \A q, o \in Orders : Stitches(q, o) => Msg[o].actions[Msg[o].first] = << >>

(* The edge behind a released node is found by the nodeId of that node.    *)
Linked(ord) ==
  \A s \in BaseRange(ord) : IsNode(s) /\ s < ord.base =>
    Msg[ord.at[s + 1]].nodeId[s] = Msg[ord.at[s]].nodeId[s]

(* The identity and the base of the current order are those of a message.  *)
Origin ==
  currentOrder.orderId # None =>
    \E q \in Orders \ inbox :
      /\ currentOrder.orderId = Msg[q].orderId
      /\ currentOrder.orderUpdateId = Msg[q].orderUpdateId
      /\ currentOrder.base = Msg[q].base
      /\ NodeIdOf(PlaceIn(currentOrder, currentOrder.base)) = Msg[q].nodeId[Msg[q].base]

AllEnded(acts, statuses) == \A i \in DOMAIN acts : statuses[acts[i]] = "ENDED"

ExecutedWith(acts, a, statuses, sched) ==
  \A i, j \in DOMAIN acts :
    acts[i] = a /\ j \in Parallel(acts, i) =>
      statuses[acts[j]] = "ENDED" \/ \E d \in sched : d.action = acts[j]

(* An AGV that has traversed the node at pos has ended all actions up to   *)
(* what it executes or traverses, and goes on up to the end of the base.   *)
Behind(ord, lists, statuses, sched, trav, pos) ==
  /\ \A s \in BaseRange(ord) :
       \/ s < pos
       \/ s = pos /\ \A c \in sched : c.place.seq # pos
       \/ s = pos + 1 /\ trav # << >>
       => AllEnded(List(ord, lists, s), statuses)
  /\ \A c \in sched : ExecutedWith(ActionsOf(c.place, lists), c.action, statuses, sched)
  /\ sched = {} /\ trav = << >> => pos = ord.base

EndedBelow(ord, lists, statuses, n) ==
  \A s \in BaseRange(ord) : s < n => AllEnded(List(ord, lists, s), statuses)

LEMMA EndedBelowNext ==
  ASSUME NEW ord, OrderOK(ord), NEW lists, NEW statuses, NEW n \in Nat,
         EndedBelow(ord, lists, statuses, n), AllEnded(List(ord, lists, n), statuses)
  PROVE  EndedBelow(ord, lists, statuses, n + 1)
<1>1. BaseRange(ord) \subseteq Int
  BY DEF BaseRange, OrderOK
<1> SUFFICES ASSUME NEW s \in BaseRange(ord), s < n + 1
             PROVE  AllEnded(List(ord, lists, s), statuses)
  BY DEF EndedBelow
<1>2. s < n \/ s = n
  BY <1>1
<1> QED
  BY <1>2 DEF EndedBelow

LEMMA BehindKept ==
  ASSUME NEW ord, OrderOK(ord), NEW lists, ListsOK(lists), NEW statuses, NEW new,
         \A a \in Action : statuses[a] = "ENDED" => new[a] = "ENDED",
         NEW sched \in SUBSET [action : Action, place : Place], NEW trav, NEW pos,
         Behind(ord, lists, statuses, sched, trav, pos)
  PROVE  Behind(ord, lists, new, sched, trav, pos)
<1>1. \A s \in BaseRange(ord) :
        AllEnded(List(ord, lists, s), statuses) => AllEnded(List(ord, lists, s), new)
  BY ListFacts DEF AllEnded
<1>2. ASSUME NEW c \in sched
      PROVE  ExecutedWith(ActionsOf(c.place, lists), c.action, new, sched)
  <2>1. ActionsOf(c.place, lists) \in Seq(Action)
    BY ActionsType
  <2>2. ExecutedWith(ActionsOf(c.place, lists), c.action, statuses, sched)
    BY DEF Behind
  <2> QED
    BY <2>1, <2>2 DEF ExecutedWith
<1> QED
  BY <1>1, <1>2 DEF Behind

Onward(ord, lists, statuses, calls, pos) ==
  Behind(ord, lists, statuses, calls.execute, calls.traverse, pos)

LEMMA IssuedBehind ==
  ASSUME NEW ord, OrderOK(ord), NEW lists, ListsOK(lists), NEW statuses, NEW k, NEW pos,
         Issued(k, statuses), Onward(ord, lists, statuses, k, pos),
         \A c \in k.execute : statuses[c.action] # "ENDED"
  PROVE  Behind(ord, lists, actionStates', scheduled', traversing', pos)
<1>1. k.execute \in SUBSET [action : Action, place : Place]
  BY DEF Issued, Calls
<1>2. \A a \in Action : statuses[a] = "ENDED" => Started(k, statuses)[a] = "ENDED"
  BY DEF Started
<1>3. scheduled' = k.execute /\ traversing' = k.traverse /\ actionStates' = Started(k, statuses)
  BY DEF Issued
<1>4. Behind(ord, lists, Started(k, statuses), k.execute, k.traverse, pos)
  BY <1>1, <1>2, BehindKept DEF Onward
<1> QED
  BY <1>3, <1>4

(* What starts next of a list at or behind the node at pos.                *)
LEMMA ProcessActionsOnward ==
  ASSUME NEW ord, OrderOK(ord), NEW lists, ListsOK(lists), Structured(ord, lists),
         NEW statuses, NEW pos \in Nat, NEW t \in BaseRange(ord), t \in {pos, pos + 1},
         EndedBelow(ord, lists, statuses, t),
         NEW after \in Nat,
         \A j \in DOMAIN List(ord, lists, t) :
           j <= after => statuses[List(ord, lists, t)[j]] = "ENDED",
         NEW continuation,
         AllEnded(List(ord, lists, t), statuses) => Onward(ord, lists, statuses, continuation, pos)
  PROVE  Onward(ord, lists, statuses,
                ProcessActions(PlaceIn(ord, t), lists, after, continuation), pos)
<1> DEFINE p == PlaceIn(ord, t)
           k == ProcessActions(p, lists, after, continuation)
<1>0. PICK acts : acts = List(ord, lists, t)
  OBVIOUS
<1>1. /\ ActionsOf(p, lists) = acts /\ acts \in Seq(Action) /\ p.seq = t /\ t \in Nat
      /\ \A i, j \in DOMAIN acts : acts[i] = acts[j] => i = j
  BY <1>0, UniqueInList, ListFacts
<1>2. CASE NextToRun(acts, after) = {}
  <2>1. AllEnded(acts, statuses)
    BY <1>0, <1>1, <1>2, NothingToRun DEF AllEnded
  <2> QED
    BY <1>0, <1>1, <1>2, <2>1 DEF ProcessActions
<1>3. CASE NextToRun(acts, after) # {}
  <2>1. /\ k.execute = {[action |-> acts[j], place |-> p] : j \in NextToRun(acts, after)}
        /\ k.traverse = << >>
    BY <1>1, <1>3 DEF ProcessActions
  <2>2. k.execute # {} /\ \A c \in k.execute : c.place = p
    <3>1. PICK m \in NextToRun(acts, after) : TRUE
      BY <1>3
    <3>2. [action |-> acts[m], place |-> p] \in k.execute
      BY <2>1, <3>1
    <3>3. \A c \in k.execute : c.place = p
      BY <2>1
    <3> QED
      BY <3>2, <3>3
  <2>3. ASSUME NEW c \in k.execute
        PROVE  ExecutedWith(ActionsOf(c.place, lists), c.action, statuses, k.execute)
    <3>1. PICK m \in NextToRun(acts, after) : c = [action |-> acts[m], place |-> p]
      BY <2>1
    <3>2. m \in DOMAIN acts /\ c.action = acts[m] /\ ActionsOf(c.place, lists) = acts
      BY <1>1, <3>1, NextToRunType
    <3> SUFFICES ASSUME NEW i \in DOMAIN acts, NEW j \in DOMAIN acts,
                        acts[i] = acts[m], j \in Parallel(acts, i)
                 PROVE  statuses[acts[j]] = "ENDED" \/ \E d \in k.execute : d.action = acts[j]
      BY <3>2 DEF ExecutedWith
    <3>3. i = m
      BY <1>1, <3>2
    <3>4. CASE j <= after
      BY <1>0, <3>4
    <3>5. CASE j \in NextToRun(acts, after)
      <4>1. [action |-> acts[j], place |-> p] \in k.execute
        BY <2>1, <3>5
      <4> QED
        BY <4>1
    <3> QED
      BY <1>1, <3>1, <3>3, <3>4, <3>5, RunFacts
  <2>4. ASSUME NEW s \in BaseRange(ord),
               s < pos \/ (s = pos /\ \A c \in k.execute : c.place.seq # pos)
        PROVE  AllEnded(List(ord, lists, s), statuses)
    <3> HIDE DEF k, p
    <3>1. s \in Int /\ t \in Nat /\ p.seq = t
      BY <1>1, ListFacts
    <3>2. s = pos => t # pos
      <4> SUFFICES ASSUME s = pos, t = pos PROVE FALSE
        OBVIOUS
      <4>1. \A c \in k.execute : c.place.seq # pos
        BY <2>4
      <4> QED
        BY <2>2, <3>1, <4>1
    <3>3. s < t
      BY <2>4, <3>1, <3>2
    <3> QED
      BY <3>3 DEF EndedBelow
  <2> HIDE DEF k
  <2> QED
    BY <2>1, <2>2, <2>3, <2>4 DEF Onward, Behind, k
<1> QED
  BY <1>2, <1>3

LEMMA TraverseOnward ==
  ASSUME NEW ord, NEW lists, NEW statuses, NEW pos \in Nat, NEW e,
         OrderOK(ord), EndedBelow(ord, lists, statuses, pos + 2)
  PROVE  Onward(ord, lists, statuses, TraverseEdge(e), pos)
<1>1. TraverseEdge(e).execute = {} /\ TraverseEdge(e).traverse # << >>
  BY DEF TraverseEdge
<1>2. ASSUME NEW s \in BaseRange(ord), s < pos \/ s = pos \/ s = pos + 1
      PROVE  AllEnded(List(ord, lists, s), statuses)
  <2>1. s < pos + 2
    BY <1>2 DEF BaseRange, OrderOK
  <2> QED
    BY <2>1 DEF EndedBelow
<1> QED
  BY <1>1, <1>2 DEF Onward, Behind

(* The AGV goes on to the next edge if there is one in the base.           *)
LEMMA ProcessEdgeOnward ==
  ASSUME NEW ord, OrderOK(ord), NEW lists, ListsOK(lists), Structured(ord, lists), Linked(ord),
         NEW statuses, NEW pos \in BaseRange(ord), IsNode(pos),
         EndedBelow(ord, lists, statuses, pos + 1)
  PROVE  Onward(ord, lists, statuses, ProcessEdge(PlaceIn(ord, pos), ord, lists), pos)
<1> DEFINE n == PlaceIn(ord, pos)
<1>1. /\ n.seq = pos /\ pos \in Nat /\ NodeIdOf(n) = Msg[ord.at[pos]].nodeId[pos]
      /\ \A s \in BaseRange(ord) : s \in Nat
  BY ListFacts DEF NodeIdOf, PlaceIn
<1>2. /\ ord.first \in Nat /\ ord.base \in Int /\ ord.first <= pos /\ pos <= ord.base
      /\ BaseRange(ord) = ord.first .. ord.base
  BY <1>1 DEF OrderOK, BaseRange
<1>3. CASE pos < ord.base
  <2>1. pos + 1 \in ord.first .. ord.base /\ pos + 1 \in BaseRange(ord)
    BY <1>1, <1>2, <1>3
  <2>2. Msg[ord.at[pos + 1]].nodeId[n.seq] = NodeIdOf(n)
    BY <1>1, <1>3 DEF Linked
  <2> DEFINE e == PlaceIn(ord, pos + 1)
  <2>3. ProcessEdge(n, ord, lists) = ProcessActions(e, lists, 0, TraverseEdge(e))
    BY <1>1, <2>1, <2>2 DEF ProcessEdge, ProcessEdgeActions
  <2>4. AllEnded(List(ord, lists, pos + 1), statuses) => Onward(ord, lists, statuses, TraverseEdge(e), pos)
    <3> SUFFICES ASSUME AllEnded(List(ord, lists, pos + 1), statuses)
                 PROVE  Onward(ord, lists, statuses, TraverseEdge(e), pos)
      OBVIOUS
    <3>1. EndedBelow(ord, lists, statuses, pos + 1 + 1) /\ pos + 1 + 1 = pos + 2
      BY <1>1, EndedBelowNext
    <3> HIDE DEF e
    <3> QED
      BY <1>1, <3>1, TraverseOnward
  <2>5. \A j \in DOMAIN List(ord, lists, pos + 1) : j <= 0 => statuses[List(ord, lists, pos + 1)[j]] = "ENDED"
    BY <2>1, ListFacts
  <2> HIDE DEF e
  <2>6. Onward(ord, lists, statuses, ProcessActions(PlaceIn(ord, pos + 1), lists, 0, TraverseEdge(e)), pos)
    BY <1>1, <2>1, <2>4, <2>5, ProcessActionsOnward
  <2> QED
    BY <2>3, <2>6 DEF e
<1>4. CASE pos = ord.base
  <2>1. ProcessEdge(n, ord, lists) = NoCalls
    BY <1>1, <1>2, <1>4 DEF ProcessEdge
  <2>2. NoCalls.execute = {} /\ NoCalls.traverse = << >>
    BY DEF NoCalls
  <2>3. ASSUME NEW s \in BaseRange(ord), s < pos \/ s = pos
        PROVE  AllEnded(List(ord, lists, s), statuses)
    <3>1. s < pos + 1 /\ s \in Nat
      BY <1>1, <2>3
    <3> QED
      BY <3>1 DEF EndedBelow
  <2> QED
    BY <1>4, <2>1, <2>2, <2>3 DEF Onward, Behind
<1> QED
  BY <1>1, <1>2, <1>3, <1>4

LEMMA ProcessNodeActionsOnward ==
  ASSUME NEW ord, OrderOK(ord), NEW lists, ListsOK(lists), Structured(ord, lists), Linked(ord),
         NEW statuses, NEW pos \in BaseRange(ord), IsNode(pos),
         EndedBelow(ord, lists, statuses, pos)
  PROVE  Onward(ord, lists, statuses, ProcessNodeActions(PlaceIn(ord, pos), ord, lists, 0), pos)
<1>1. pos \in Nat /\ \A s \in BaseRange(ord) : s \in Nat
  BY ListFacts
<1>2. AllEnded(List(ord, lists, pos), statuses) =>
        Onward(ord, lists, statuses, ProcessEdge(PlaceIn(ord, pos), ord, lists), pos)
  <2> SUFFICES ASSUME AllEnded(List(ord, lists, pos), statuses)
               PROVE  Onward(ord, lists, statuses, ProcessEdge(PlaceIn(ord, pos), ord, lists), pos)
    OBVIOUS
  <2>1. EndedBelow(ord, lists, statuses, pos + 1)
    BY <1>1, EndedBelowNext
  <2> QED
    BY <2>1, ProcessEdgeOnward
<1>3. \A j \in DOMAIN List(ord, lists, pos) : j <= 0 => statuses[List(ord, lists, pos)[j]] = "ENDED"
  BY ListFacts
<1> QED
  BY <1>1, <1>2, <1>3, ProcessActionsOnward DEF ProcessNodeActions

(* What follows the end of the last action that is executed.               *)
LEMMA ContinueAfterOnward ==
  ASSUME NEW ord, OrderOK(ord), NEW lists, ListsOK(lists), Structured(ord, lists), Linked(ord),
         NEW c \in [action : Action, place : Place], NEW t \in BaseRange(ord),
         c.place = PlaceIn(ord, t), c.action \in ActionSet(c.place, lists),
         NEW pos \in BaseRange(ord), IsNode(pos), t \in {pos, pos + 1},
         NEW statuses \in [Action -> Status], statuses[c.action] = "ENDED",
         EndedBelow(ord, lists, statuses, t),
         EndedBefore(ActionsOf(c.place, lists), c.action, statuses),
         ExecutedWith(ActionsOf(c.place, lists), c.action, statuses, {c})
  PROVE  Onward(ord, lists, statuses, ContinueAfter(c, ord, lists, statuses), pos)
<1> DEFINE i == CHOOSE j \in DOMAIN ActionsOf(c.place, lists) : ActionsOf(c.place, lists)[j] = c.action
           ended == {a \in Action : statuses[a] = "ENDED"}
           Continuation == IF IsNode(c.place.seq) THEN ProcessEdge(c.place, ord, lists)
                           ELSE TraverseEdge(c.place)
           k == ContinueAfter(c, ord, lists, statuses)
<1>0. PICK acts : acts = List(ord, lists, t)
  OBVIOUS
<1>1. /\ ActionsOf(c.place, lists) = acts /\ acts \in Seq(Action)
      /\ \A m, j \in DOMAIN acts : acts[m] = acts[j] => m = j
      /\ c.place.seq = t /\ t \in Nat /\ pos \in Nat
  BY <1>0, UniqueInList, ListFacts
<1>2. i \in DOMAIN acts /\ acts[i] = c.action /\ i \in Nat
  <2>1. \E j \in DOMAIN acts : acts[j] = c.action
    BY <1>1 DEF ActionSet
  <2> QED
    BY <1>1, <2>1
<1>3. \A j \in DOMAIN acts : j < i /\ j \notin Parallel(acts, i) => statuses[acts[j]] = "ENDED"
  BY <1>1, <1>2 DEF EndedBefore
<1>4. \A j \in Parallel(acts, i) : statuses[acts[j]] = "ENDED" /\ acts[j] \in ended
  <2> SUFFICES ASSUME NEW j \in Parallel(acts, i) PROVE statuses[acts[j]] = "ENDED" /\ acts[j] \in ended
    OBVIOUS
  <2>1. j \in DOMAIN acts /\ acts[j] \in Action
    BY <1>1 DEF Parallel
  <2>2. statuses[acts[j]] = "ENDED" \/ \E d \in {c} : d.action = acts[j]
    BY <1>1, <1>2, <2>1 DEF ExecutedWith
  <2> QED
    BY <2>1, <2>2
<1>5. AllEnded(List(ord, lists, t), statuses) => Onward(ord, lists, statuses, Continuation, pos)
  <2> SUFFICES ASSUME AllEnded(List(ord, lists, t), statuses)
               PROVE  Onward(ord, lists, statuses, Continuation, pos)
    OBVIOUS
  <2>1. EndedBelow(ord, lists, statuses, t + 1)
    BY <1>1, EndedBelowNext
  <2>2. CASE t = pos
    <3>1. Continuation = ProcessEdge(PlaceIn(ord, pos), ord, lists)
      BY <1>1, <2>2
    <3>2. EndedBelow(ord, lists, statuses, pos + 1)
      BY <2>1, <2>2
    <3> HIDE DEF Continuation
    <3> QED
      BY <3>1, <3>2, ProcessEdgeOnward
  <2>3. CASE t = pos + 1
    <3>1. ~ IsNode(t)
      BY <1>1, <2>3, Parity
    <3>2. Continuation = TraverseEdge(c.place)
      BY <1>1, <3>1
    <3>3. EndedBelow(ord, lists, statuses, pos + 2)
      <4>1. t + 1 = pos + 2
        BY <1>1, <2>3
      <4> QED
        BY <2>1, <4>1
    <3> HIDE DEF Continuation
    <3> QED
      BY <1>1, <3>2, <3>3, TraverseOnward
  <2> QED
    BY <2>2, <2>3
<1> HIDE DEF i, Continuation
<1>6. CASE Hard(c.action)
  <2>1. Parallel(acts, i) = {}
    BY <1>1, <1>2, <1>6 DEF Parallel
  <2>2. \A j \in DOMAIN List(ord, lists, t) : j <= i => statuses[List(ord, lists, t)[j]] = "ENDED"
    <3>1. \A j \in DOMAIN acts : j <= i => j = i \/ j < i
      BY <1>1, <1>2
    <3> QED
      BY <1>0, <1>2, <1>3, <2>1, <3>1
  <2>3. Onward(ord, lists, statuses, ProcessActions(PlaceIn(ord, t), lists, i, Continuation), pos)
    BY <1>1, <1>2, <1>5, <2>2, ProcessActionsOnward
  <2> QED
    BY <1>6, <2>3 DEF ContinueAfter, i, Continuation
<1>7. CASE ~ Hard(c.action) /\ NextHard(acts, i) # {}
  <2>1. AreParallelActionsEnded(acts, i, FALSE, ended)
    BY <1>4 DEF AreParallelActionsEnded
  <2>2. /\ k.execute = {[action |-> acts[j], place |-> c.place] : j \in NextHard(acts, i)}
        /\ k.traverse = << >>
    BY <1>1, <1>7, <2>1 DEF ContinueAfter, i
  <2>3. k.execute # {} /\ \A d \in k.execute : d.place = c.place
    <3>1. PICK h \in NextHard(acts, i) : TRUE
      BY <1>7
    <3>2. [action |-> acts[h], place |-> c.place] \in k.execute
      BY <2>2, <3>1
    <3>3. \A d \in k.execute : d.place = c.place
      BY <2>2
    <3> QED
      BY <3>2, <3>3
  <2>4. ASSUME NEW d \in k.execute
        PROVE  ExecutedWith(ActionsOf(d.place, lists), d.action, statuses, k.execute)
    <3>1. PICK h \in NextHard(acts, i) : d = [action |-> acts[h], place |-> c.place]
      BY <2>2
    <3>2. h \in DOMAIN acts /\ d.action = acts[h] /\ ActionsOf(d.place, lists) = acts
      BY <1>1, <3>1 DEF NextHard
    <3>3. Parallel(acts, h) = {}
      BY <1>1, <1>2, <1>7, <3>1, <3>2, NextHardFacts
    <3> SUFFICES ASSUME NEW m \in DOMAIN acts, NEW j \in DOMAIN acts,
                        acts[m] = acts[h], j \in Parallel(acts, m)
                 PROVE  FALSE
      BY <3>2 DEF ExecutedWith
    <3> QED
      BY <1>1, <3>2, <3>3
  <2>5. ASSUME NEW s \in BaseRange(ord),
               s < pos \/ (s = pos /\ \A d \in k.execute : d.place.seq # pos)
        PROVE  AllEnded(List(ord, lists, s), statuses)
    <3> HIDE DEF k
    <3>1. s \in Int
      BY ListFacts
    <3>2. s = pos => t # pos
      BY <1>1, <2>3, <2>5
    <3>3. s < t
      BY <1>1, <2>5, <3>1, <3>2
    <3> QED
      BY <3>3 DEF EndedBelow
  <2> HIDE DEF k
  <2> QED
    BY <2>2, <2>3, <2>4, <2>5 DEF Onward, Behind, k
<1>8. CASE ~ Hard(c.action) /\ NextHard(acts, i) = {}
  <2>1. AreParallelActionsEnded(acts, i, TRUE, ended)
    BY <1>4 DEF AreParallelActionsEnded
  <2>2. k = Continuation
    BY <1>1, <1>8, <2>1 DEF ContinueAfter, i, Continuation
  <2>3. AllEnded(acts, statuses)
    <3> SUFFICES ASSUME NEW j \in DOMAIN acts PROVE statuses[acts[j]] = "ENDED"
      BY DEF AllEnded
    <3>1. j = i \/ j \in Parallel(acts, i) \/ (j < i /\ j \notin Parallel(acts, i))
      BY <1>1, <1>2, <1>8, LastSegmentFacts
    <3> QED
      BY <1>2, <1>3, <1>4, <3>1
  <2> QED
    BY <1>0, <1>5, <2>2, <2>3
<1> QED
  BY <1>6, <1>7, <1>8

-----------------------------------------------------------------------------
(* Processing of an order never gets lost *)

OnwardNow ==
  ~ hasCancelingOrder /\ hasActiveOrder /\ pausedNode = None =>
    Behind(currentOrder, actions, actionStates, scheduled, traversing, lastNode.seq)

CourseInv == Linked(currentOrder) /\ Origin /\ SettledNow /\ OnwardNow

(* An order on whose behalf something is executed is active.               *)
LEMMA ExecutingActive ==
  ASSUME IInv, ~ hasCancelingOrder, scheduled # {} \/ traversing # << >> \/ pausedNode # None
  PROVE  hasActiveOrder
BY InactiveFacts DEF Inactive

LEMMA OnwardFacts ==
  ASSUME IInv, OnwardNow, ~ hasCancelingOrder, hasActiveOrder, pausedNode = None
  PROVE  /\ EnRoute
         /\ lastNode.seq \in BaseRange(currentOrder) /\ IsNode(lastNode.seq) /\ lastNode.seq \in Nat
         /\ Behind(currentOrder, actions, actionStates, scheduled, traversing, lastNode.seq)
<1>1. EnRoute
  BY DEF IInv, RouteInv, Inactive, Suspended
<1>2. lastNode.seq \in BaseRange(currentOrder) /\ IsNode(lastNode.seq)
  BY <1>1 DEF EnRoute, Ahead
<1> QED
  BY <1>1, <1>2, ListFacts, TypeFacts DEF IInv, OnwardNow

LEMMA EndActionOnward ==
  ASSUME IInv, CourseInv, NEW c \in scheduled, EndAction(c)
  PROVE  OnwardNow'
<1>1. /\ UNCHANGED <<currentOrder, actions, nodeStates, edgeStates, lastNode,
                     pausedNode, cancelContext>>
      /\ c \in [action : Action, place : Place] /\ traversing = << >>
      /\ Ending(c) \in [Action -> Status] /\ Ending(c)[c.action] = "ENDED"
      /\ \A a \in Action : a # c.action => Ending(c)[a] = actionStates[a]
      /\ c.place.seq \in BaseRange(currentOrder)
      /\ c.place = PlaceIn(currentOrder, c.place.seq)
      /\ c.action \in ActionSet(c.place, actions)
      /\ ~ hasCancelingOrder => EnRoute
      /\ hasCancelingOrder \/ scheduled \ {c} # {} =>
           scheduled' = scheduled \ {c} /\ traversing' = << >> /\ actionStates' = Ending(c)
      /\ ~ hasCancelingOrder /\ scheduled \ {c} = {} =>
           /\ Issued(ContinueAfter(c, currentOrder, actions, Ending(c)), Ending(c))
           /\ \A d \in scheduled' : Ending(c)[d.action] # "ENDED"
  BY EndActionEffect
<1>2. /\ OrderOK(currentOrder) /\ ListsOK(actions) /\ Structured(currentOrder, actions)
      /\ scheduled \in SUBSET [action : Action, place : Place]
      /\ Linked(currentOrder) /\ SettledNow /\ OnwardNow
  BY TypeFacts DEF IInv, OrderInv, CourseInv
<1> SUFFICES ASSUME ~ hasCancelingOrder
             PROVE  Behind(currentOrder, actions, actionStates', scheduled', traversing', lastNode.seq)
  BY <1>1 DEF OnwardNow, hasCancelingOrder
<1> DEFINE pos == lastNode.seq
           new == Ending(c)
<1>3. /\ pos \in BaseRange(currentOrder) /\ IsNode(pos) /\ pos \in Nat
      /\ Behind(currentOrder, actions, actionStates, scheduled, traversing, pos)
      /\ c.place.seq \in {pos, pos + 1}
  <2>1. hasActiveOrder /\ pausedNode = None
    BY <1>1, ExecutingActive DEF EnRoute
  <2> QED
    BY <1>1, <1>2, <2>1, OnwardFacts DEF EnRoute, Ahead
<1>4. \A a \in Action : actionStates[a] = "ENDED" => new[a] = "ENDED"
  BY <1>1
<1> HIDE DEF new, pos
<1>5. Behind(currentOrder, actions, new, scheduled, << >>, pos)
  BY <1>1, <1>2, <1>3, <1>4, BehindKept
<1>6. CASE scheduled \ {c} # {}
  <2>1. PICK e \in scheduled \ {c} : TRUE
    BY <1>6
  <2>2. e.place = c.place
    BY <2>1 DEF IInv, OrderInv, Executing
  <2>3. ASSUME NEW d \in scheduled \ {c}
        PROVE  ExecutedWith(ActionsOf(d.place, actions), d.action, new, scheduled \ {c})
    <3>1. ExecutedWith(ActionsOf(d.place, actions), d.action, new, scheduled)
      BY <1>5 DEF Behind
    <3>2. new[c.action] = "ENDED"
      BY <1>1 DEF new
    <3> QED
      BY <3>1, <3>2 DEF ExecutedWith
  <2>4. (\A d \in scheduled \ {c} : d.place.seq # pos) => \A d \in scheduled : d.place.seq # pos
    BY <2>1, <2>2
  <2>5. Behind(currentOrder, actions, new, scheduled \ {c}, << >>, pos)
    BY <1>5, <1>6, <2>3, <2>4 DEF Behind
  <2> QED
    BY <1>1, <1>6, <2>5 DEF new, pos
<1>7. CASE scheduled \ {c} = {}
  <2> DEFINE k == ContinueAfter(c, currentOrder, actions, new)
  <2>1. scheduled = {c}
    BY <1>7
  <2>2. Settled(actions, new, scheduled)
    BY <1>2, <1>4, SettledKept DEF SettledNow
  <2>3. EndedBefore(ActionsOf(c.place, actions), c.action, new)
    BY <2>2 DEF Settled
  <2>4. ExecutedWith(ActionsOf(c.place, actions), c.action, new, {c})
    BY <1>5, <2>1 DEF Behind
  <2>5. EndedBelow(currentOrder, actions, new, c.place.seq)
    <3> SUFFICES ASSUME NEW s \in BaseRange(currentOrder), s < c.place.seq
                 PROVE  AllEnded(List(currentOrder, actions, s), new)
      BY DEF EndedBelow
    <3>1. s \in Int
      BY <1>2, ListFacts
    <3>2. pos \in Nat /\ c.place.seq \in {pos, pos + 1}
      BY <1>3
    <3>3. s < pos \/ (s = pos /\ c.place.seq # pos)
      BY <3>1, <3>2
    <3> QED
      BY <1>5, <2>1, <3>3 DEF Behind
  <2>6. Onward(currentOrder, actions, new, k, pos)
    BY <1>1, <1>2, <1>3, <2>3, <2>4, <2>5, ContinueAfterOnward DEF new
  <2>7. Issued(k, new) /\ \A d \in k.execute : new[d.action] # "ENDED"
    BY <1>1, <1>7 DEF Issued, new
  <2> HIDE DEF k
  <2>8. Behind(currentOrder, actions, actionStates', scheduled', traversing', pos)
    BY <1>2, <2>6, <2>7, IssuedBehind
  <2> QED
    BY <2>8 DEF pos
<1> QED
  BY <1>6, <1>7

LEMMA EdgeTraversedOnward ==
  ASSUME IInv, CourseInv, NEW i \in DOMAIN traversing, EdgeTraversed(i), Fresh
  PROVE  OnwardNow'
<1>1. /\ UNCHANGED <<currentOrder, actions, cancelContext>>
      /\ hasCancelingOrder => UNCHANGED <<scheduled, actionStates>>
      /\ ~ hasCancelingOrder =>
           /\ EnRoute /\ traversing # << >> /\ scheduled = {} /\ pausedNode' = None
           /\ lastNode.seq \in Nat
           /\ lastNode.seq + 2 \in BaseRange(currentOrder) /\ IsNode(lastNode.seq + 2)
           /\ lastNode'.seq = lastNode.seq + 2
           /\ Issued(ProcessNodeActions(PlaceIn(currentOrder, lastNode.seq + 2),
                                        currentOrder, actions, 0), actionStates)
  BY EdgeTraversedEffect
<1>2. /\ OrderOK(currentOrder) /\ ListsOK(actions) /\ Structured(currentOrder, actions)
      /\ Linked(currentOrder) /\ OnwardNow
  BY TypeFacts DEF IInv, OrderInv, CourseInv
<1> SUFFICES ASSUME ~ hasCancelingOrder
             PROVE  Behind(currentOrder, actions, actionStates', scheduled', traversing', lastNode'.seq)
  BY <1>1 DEF OnwardNow, hasCancelingOrder
<1> DEFINE pos == lastNode.seq + 2
           k == ProcessNodeActions(PlaceIn(currentOrder, pos), currentOrder, actions, 0)
<1>3. Behind(currentOrder, actions, actionStates, scheduled, traversing, lastNode.seq)
  BY <1>1, <1>2, ExecutingActive, OnwardFacts DEF EnRoute
<1>4. EndedBelow(currentOrder, actions, actionStates, pos)
  <2> SUFFICES ASSUME NEW s \in BaseRange(currentOrder), s < pos
               PROVE  AllEnded(List(currentOrder, actions, s), actionStates)
    BY DEF EndedBelow
  <2>1. s \in Int
    BY <1>2, ListFacts
  <2>2. s < lastNode.seq \/ s = lastNode.seq \/ s = lastNode.seq + 1
    BY <1>1, <2>1
  <2> QED
    BY <1>1, <1>3, <2>2 DEF Behind
<1>5. Onward(currentOrder, actions, actionStates, k, pos)
  BY <1>1, <1>2, <1>4, ProcessNodeActionsOnward
<1>6. Issued(k, actionStates) /\ \A d \in k.execute : actionStates[d.action] # "ENDED"
  BY <1>1 DEF Issued, Fresh
<1>7. lastNode'.seq = pos
  BY <1>1
<1> HIDE DEF k, pos
<1>8. Behind(currentOrder, actions, actionStates', scheduled', traversing', pos)
  BY <1>2, <1>5, <1>6, IssuedBehind
<1> QED
  BY <1>7, <1>8

LEMMA StopPauseOnward ==
  ASSUME IInv, PromptCancelation, CourseInv, StopPause, Fresh
  PROVE  OnwardNow'
<1>1. /\ UNCHANGED <<currentOrder, actions, cancelContext>> /\ ~ hasCancelingOrder
      /\ pausedNode = None =>
           UNCHANGED <<nodeStates, edgeStates, lastNode, pausedNode, scheduled, actionStates, traversing>>
      /\ pausedNode # None =>
           /\ Suspended /\ pausedNode' = None
           /\ currentOrder.first \in BaseRange(currentOrder) /\ IsNode(currentOrder.first)
           /\ lastNode'.seq = currentOrder.first
           /\ Issued(ProcessNodeActions(PlaceIn(currentOrder, currentOrder.first),
                                        currentOrder, actions, 0), actionStates)
  BY StopPauseEffect
<1>2. /\ OrderOK(currentOrder) /\ ListsOK(actions) /\ Structured(currentOrder, actions)
      /\ Linked(currentOrder) /\ OnwardNow
  BY TypeFacts DEF IInv, OrderInv, CourseInv
<1>3. CASE pausedNode # None
  <2> DEFINE pos == currentOrder.first
             k == ProcessNodeActions(PlaceIn(currentOrder, pos), currentOrder, actions, 0)
  <2>1. EndedBelow(currentOrder, actions, actionStates, pos)
    BY <1>2 DEF EndedBelow, BaseRange, OrderOK
  <2>2. Onward(currentOrder, actions, actionStates, k, pos)
    BY <1>1, <1>2, <1>3, <2>1, ProcessNodeActionsOnward
  <2>3. Issued(k, actionStates) /\ \A d \in k.execute : actionStates[d.action] # "ENDED"
    BY <1>1, <1>3 DEF Issued, Fresh, Suspended
  <2>4. lastNode'.seq = pos
    BY <1>1, <1>3
  <2> HIDE DEF k, pos
  <2>5. Behind(currentOrder, actions, actionStates', scheduled', traversing', pos)
    BY <1>2, <2>2, <2>3, IssuedBehind
  <2> QED
    BY <1>1, <2>4, <2>5 DEF OnwardNow
<1>4. CASE pausedNode = None
  BY <1>1, <1>2, <1>4 DEF OnwardNow, hasCancelingOrder, hasActiveOrder
<1> QED
  BY <1>3, <1>4

LEMMA ReplaceOrderOnward ==
  ASSUME IInv, NoneActionsAlone, NEW o \in inbox, o \in Orders, ReplaceOrder(o), inbox' = inbox \ {o}
  PROVE  Linked(currentOrder)' /\ Origin' /\ OnwardNow'
<1> DEFINE ord == Replacement(o)
           pos == Msg[o].first
           k == ProcessNodeActions(PlaceIn(ord, pos), ord, actions, 0)
<1>1. /\ currentOrder' = ord
      /\ UNCHANGED <<actions, paused, cancelContext>> /\ ~ hasCancelingOrder
      /\ Structured(ord, actions) /\ OrderOK(ord)
      /\ pos \in BaseRange(ord) /\ IsNode(pos)
      /\ paused => scheduled' = {} /\ traversing' = << >> /\ pausedNode' # None
      /\ ~ paused => lastNode'.seq = pos /\ Issued(k, ReplacementStatuses(o))
  BY ReplaceOrderEffect
<1>2. /\ ListsOK(actions)
      /\ {Msg[o].first, Msg[o].base, Msg[o].last} \subseteq Nat
      /\ Msg[o].first <= Msg[o].base /\ Msg[o].base <= Msg[o].last
  BY TypeFacts, MessageFacts DEF IInv
<1>3. /\ ord.first = Msg[o].first /\ ord.base = Msg[o].base
      /\ ord.orderId = Msg[o].orderId /\ ord.orderUpdateId = Msg[o].orderUpdateId
      /\ \A s \in Msg[o].first .. Msg[o].last : ord.at[s] = o
  BY DEF Replacement
<1>4. Linked(ord)
  <2> HIDE DEF ord
  <2> SUFFICES ASSUME NEW s \in BaseRange(ord), s < ord.base
               PROVE  ord.at[s + 1] = ord.at[s]
    BY DEF Linked
  <2>1. s \in Msg[o].first .. Msg[o].last /\ s + 1 \in Msg[o].first .. Msg[o].last
    BY <1>2, <1>3 DEF BaseRange
  <2> QED
    BY <1>3, <2>1
<1>5. Origin'
  <2> HIDE DEF ord
  <2>1. ord.at[Msg[o].base] = o
    BY <1>2, <1>3
  <2>2. NodeIdOf(PlaceIn(ord, ord.base)) = Msg[o].nodeId[Msg[o].base]
    BY <1>3, <2>1 DEF NodeIdOf, PlaceIn
  <2>3. o \in Orders \ inbox'
    OBVIOUS
  <2> QED
    BY <1>1, <1>3, <2>2, <2>3 DEF Origin
<1>6. CASE paused
  BY <1>1, <1>4, <1>5, <1>6 DEF OnwardNow
<1>7. CASE ~ paused
  <2>1. EndedBelow(ord, actions, ReplacementStatuses(o), pos)
    BY <1>2, <1>3 DEF EndedBelow, BaseRange
  <2>2. Onward(ord, actions, ReplacementStatuses(o), k, pos)
    BY <1>1, <1>2, <1>4, <2>1, ProcessNodeActionsOnward
  <2>3. Issued(k, ReplacementStatuses(o)) /\ \A d \in k.execute : ReplacementStatuses(o)[d.action] # "ENDED"
    BY <1>1, <1>7 DEF Issued, Calls, ReplacementStatuses
  <2> HIDE DEF k, pos, ord
  <2>4. Behind(ord, actions, actionStates', scheduled', traversing', pos)
    BY <1>1, <1>2, <2>2, <2>3, IssuedBehind
  <2> QED
    BY <1>1, <1>4, <1>5, <1>7, <2>4 DEF OnwardNow
<1> QED
  BY <1>6, <1>7

LEMMA OthersOnward ==
  ASSUME IInv, CourseInv,
         \/ \E c \in scheduled : StartAction(c)
         \/ \E c \in Cancels : CancelOrder(c)
         \/ \E o \in Orders : RejectOrder(o) \/ DiscardOrder(o)
         \/ DrivingToNextNode \/ Stopped \/ StartPause \/ PushPauseButton
         \/ UNCHANGED vars
  PROVE  OnwardNow'
<1>1. /\ ListsOK(actions) /\ OrderOK(currentOrder)
      /\ scheduled \in SUBSET [action : Action, place : Place]
      /\ actionStates \in [Action -> Status] /\ OnwardNow
      /\ \A c \in scheduled : actionStates[c.action] \in {"WAITING", "ACTIVE"}
      /\ stopTraverse > 0 => hasCancelingOrder /\ scheduled = {}
      /\ hasCancelingOrder => \A a \in Action : actionStates[a] # "WAITING"
      /\ \A a \in Action : actionStates[a] = "ACTIVE" => \E c \in scheduled : c.action = a
  BY TypeFacts DEF IInv, OrderInv, Executing, CourseInv, CancelInv
<1>2. CASE \E c \in scheduled : StartAction(c)
  <2>1. PICK c \in scheduled : StartAction(c)
    BY <1>2
  <2>2. /\ UNCHANGED <<currentOrder, actions, scheduled, traversing, lastNode, pausedNode, cancelContext>>
        /\ actionStates' = [actionStates EXCEPT ![c.action] = "ACTIVE"]
    BY <2>1 DEF StartAction, adapterVars
  <2>3. \A a \in Action : actionStates[a] = "ENDED" => actionStates'[a] = "ENDED"
    BY <1>1, <2>2
  <2>4. hasActiveOrder
    BY <1>1 DEF hasActiveOrder
  <2>5. ASSUME ~ hasCancelingOrder, pausedNode = None
        PROVE  Behind(currentOrder, actions, actionStates', scheduled, traversing, lastNode.seq)
    BY <1>1, <2>3, <2>4, <2>5, BehindKept DEF OnwardNow
  <2> QED
    BY <2>2, <2>5 DEF OnwardNow, hasCancelingOrder
<1>3. CASE \E c \in Cancels : CancelOrder(c)
  <2>1. PICK c \in Cancels : CancelOrder(c)
    BY <1>3
  <2>2. UNCHANGED <<currentOrder, actions, nodeStates, edgeStates, scheduled, traversing, lastNode, pausedNode>>
    BY <2>1 DEF CancelOrder
  <2>3. CASE ~ hasActiveOrder \/ hasCancelingOrder
    <3>1. UNCHANGED <<actionStates, cancelContext>>
      BY <2>1, <2>3 DEF CancelOrder
    <3> QED
      BY <1>1, <2>2, <3>1 DEF OnwardNow, hasCancelingOrder, hasActiveOrder
  <2>4. CASE ~ (~ hasActiveOrder \/ hasCancelingOrder)
    <3>1. cancelContext' = c
      BY <2>1, <2>4 DEF CancelOrder
    <3> QED
      BY <3>1, EnvironmentAssumption DEF OnwardNow, hasCancelingOrder
  <2> QED
    BY <2>3, <2>4
<1>4. CASE Stopped
  <2>1. /\ nodeStates' = {} /\ edgeStates' = {} /\ actionStates' = actionStates
        /\ stopTraverse > 0
    BY <1>4 DEF Stopped
  <2>2. \A a \in Action : actionStates[a] \notin {"WAITING", "ACTIVE"}
    BY <1>1, <2>1
  <2> QED
    BY <2>1, <2>2 DEF OnwardNow, hasActiveOrder
<1>5. CASE DrivingToNextNode
  BY <1>1, <1>5 DEF DrivingToNextNode, OnwardNow, hasCancelingOrder
<1>6. CASE \/ \E o \in Orders : RejectOrder(o) \/ DiscardOrder(o)
           \/ StartPause \/ PushPauseButton
           \/ UNCHANGED vars
  <2>1. UNCHANGED <<currentOrder, actions, nodeStates, edgeStates, actionStates, lastNode,
                    pausedNode, cancelContext, scheduled, traversing>>
    BY <1>6 DEF RejectOrder, DiscardOrder, StartPause, PushPauseButton,
                vars, controllerVars, adapterVars
  <2> QED
    BY <1>1, <2>1 DEF OnwardNow, hasCancelingOrder, hasActiveOrder
<1> QED
  BY <1>2, <1>3, <1>4, <1>5, <1>6

(* A stitching order adds no action to the node it stitches.               *)
LEMMA StitchesNothing ==
  ASSUME Origin, StitchesWithoutActions, NEW o \in Orders,
         IsOrderBaseStitching(o), OrderMode(o) = "stitch"
  PROVE  Msg[o].actions[Msg[o].first] = << >>
<1>1. /\ currentOrder.orderId # None /\ Msg[o].first = currentOrder.base
      /\ Msg[o].nodeId[Msg[o].first] = NodeIdOf(PlaceIn(currentOrder, currentOrder.base))
  BY DEF IsOrderBaseStitching
<1>2. ~ (Msg[o].orderId = currentOrder.orderId /\ Msg[o].orderUpdateId <= currentOrder.orderUpdateId)
  BY DEF OrderMode, SameOrder
<1>3. PICK q \in Orders :
        /\ currentOrder.orderId = Msg[q].orderId
        /\ currentOrder.orderUpdateId = Msg[q].orderUpdateId
        /\ currentOrder.base = Msg[q].base
        /\ NodeIdOf(PlaceIn(currentOrder, currentOrder.base)) = Msg[q].nodeId[Msg[q].base]
  BY <1>1 DEF Origin
<1>4. Stitches(q, o)
  BY <1>1, <1>2, <1>3 DEF Stitches
<1> QED
  BY <1>4 DEF StitchesWithoutActions

LEMMA StitchedOnwardLists ==
  ASSUME NEW o, Stitching(o), Msg[o].actions[Msg[o].first] = << >>,
         NEW s \in BaseRange(currentOrder)
  PROVE  List(Stitched(o), StitchedLists(o), s) = List(currentOrder, actions, s)
<1>1. s \in BaseRange(Stitched(o)) /\ s \in currentOrder.first .. currentOrder.base
  BY StitchedKeeps DEF BaseRange
<1>2. currentOrder.base = Msg[o].first /\ currentOrder.first \in Nat /\ currentOrder.base \in Nat
  BY StitchedFacts
<1>3. List(currentOrder, actions, s) \in Seq(Action)
  BY ListFacts, TypeFacts DEF Stitching
<1>4. \A q \in Seq(Action) : q \o << >> = q
  OBVIOUS
<1>5. CASE s < currentOrder.base
  BY <1>1, <1>5, StitchedListsFacts
<1>6. CASE s = currentOrder.base
  BY <1>1, <1>2, <1>3, <1>4, <1>6, StitchedListsFacts
<1> QED
  BY <1>1, <1>2, <1>5, <1>6

LEMMA StitchedLinked ==
  ASSUME NEW o, Stitching(o), Linked(currentOrder)
  PROVE  Linked(Stitched(o))
<1> DEFINE ord == Stitched(o)
           b == currentOrder.base
<1>1. /\ b = Msg[o].first
      /\ {currentOrder.first, b, Msg[o].base, Msg[o].last} \subseteq Nat
      /\ currentOrder.first <= b /\ b <= Msg[o].base /\ Msg[o].base <= Msg[o].last
      /\ ord.first = currentOrder.first /\ ord.base = Msg[o].base
      /\ \A s \in currentOrder.first .. b : ord.at[s] = currentOrder.at[s]
      /\ \A s \in (b + 1) .. Msg[o].last : ord.at[s] = o
  BY StitchedFacts
<1> HIDE DEF ord, b
<1> SUFFICES ASSUME NEW s \in BaseRange(ord), IsNode(s), s < ord.base
             PROVE  Msg[ord.at[s + 1]].nodeId[s] = Msg[ord.at[s]].nodeId[s]
  BY DEF Linked, ord
<1>2. s \in currentOrder.first .. Msg[o].base /\ s < Msg[o].base
  BY <1>1 DEF BaseRange
<1>3. CASE s < b
  <2>1. s \in currentOrder.first .. b /\ s + 1 \in currentOrder.first .. b
    BY <1>1, <1>2, <1>3
  <2>2. s \in BaseRange(currentOrder)
    BY <2>1 DEF BaseRange, b
  <2> QED
    BY <1>1, <1>3, <2>1, <2>2 DEF Linked, b
<1>4. CASE s = b
  <2>1. s \in currentOrder.first .. b /\ s + 1 \in (b + 1) .. Msg[o].last
    BY <1>1, <1>2, <1>4
  <2>2. Msg[o].nodeId[b] = Msg[currentOrder.at[b]].nodeId[b]
    BY <1>1 DEF Stitching, IsOrderBaseStitching, NodeIdOf, PlaceIn, b
  <2> QED
    BY <1>1, <1>4, <2>1, <2>2
<1>5. CASE s > b
  <2>1. s \in (b + 1) .. Msg[o].last /\ s + 1 \in (b + 1) .. Msg[o].last
    BY <1>1, <1>2, <1>5
  <2> QED
    BY <1>1, <2>1
<1> QED
  BY <1>1, <1>2, <1>3, <1>4, <1>5

LEMMA StitchedOriginates ==
  ASSUME NEW o, Stitching(o)
  PROVE  /\ Stitched(o).orderId = Msg[o].orderId
         /\ Stitched(o).orderUpdateId = Msg[o].orderUpdateId
         /\ Stitched(o).base = Msg[o].base
         /\ NodeIdOf(PlaceIn(Stitched(o), Stitched(o).base)) = Msg[o].nodeId[Msg[o].base]
<1> DEFINE ord == Stitched(o)
           b == currentOrder.base
<1>1. /\ b = Msg[o].first
      /\ {currentOrder.first, b, Msg[o].base, Msg[o].last} \subseteq Nat
      /\ currentOrder.first <= b /\ b <= Msg[o].base /\ Msg[o].base <= Msg[o].last
      /\ ord.base = Msg[o].base
      /\ \A s \in currentOrder.first .. b : ord.at[s] = currentOrder.at[s]
      /\ \A s \in (b + 1) .. Msg[o].last : ord.at[s] = o
  BY StitchedFacts
<1>2. ord.orderId = Msg[o].orderId /\ ord.orderUpdateId = Msg[o].orderUpdateId
  BY DEF Stitched
<1> HIDE DEF ord, b
<1>3. CASE Msg[o].base = b
  <2>1. ord.at[b] = currentOrder.at[b]
    BY <1>1
  <2>2. Msg[o].nodeId[b] = Msg[currentOrder.at[b]].nodeId[b]
    BY <1>1 DEF Stitching, IsOrderBaseStitching, NodeIdOf, PlaceIn, b
  <2> QED
    BY <1>1, <1>2, <1>3, <2>1, <2>2 DEF NodeIdOf, PlaceIn, ord
<1>4. CASE Msg[o].base > b
  <2>1. Msg[o].base \in (b + 1) .. Msg[o].last
    BY <1>1, <1>4
  <2>2. ord.at[Msg[o].base] = o
    BY <1>1, <2>1
  <2> QED
    BY <1>1, <1>2, <2>2 DEF NodeIdOf, PlaceIn, ord
<1> QED
  BY <1>1, <1>3, <1>4

(* What has ended or is executed keeps its place in the longer order.      *)
LEMMA StitchedBehind ==
  ASSUME NEW o, Stitching(o), Msg[o].actions[Msg[o].first] = << >>, EnRoute,
         Behind(currentOrder, actions, actionStates, scheduled, traversing, lastNode.seq)
  PROVE  /\ \A s \in BaseRange(Stitched(o)) :
              \/ s < lastNode.seq
              \/ s = lastNode.seq /\ \A c \in scheduled : c.place.seq # lastNode.seq
              \/ s = lastNode.seq + 1 /\ traversing # << >>
              => AllEnded(List(Stitched(o), StitchedLists(o), s), StitchedStatuses(o))
         /\ \A c \in scheduled : ExecutedWith(ActionsOf(c.place, StitchedLists(o)), c.action,
                                              StitchedStatuses(o), scheduled)
<1> DEFINE ord == Stitched(o)
           lists == StitchedLists(o)
           new == StitchedStatuses(o)
           pos == lastNode.seq
<1>1. /\ OrderOK(currentOrder) /\ ListsOK(actions)
      /\ pos \in BaseRange(currentOrder) /\ pos \in Nat
      /\ traversing # << >> => pos + 1 \in BaseRange(currentOrder)
  BY ListFacts, TypeFacts DEF Stitching, EnRoute, Ahead
<1>2. ASSUME NEW s \in BaseRange(currentOrder), AllEnded(List(currentOrder, actions, s), actionStates)
      PROVE  AllEnded(List(ord, lists, s), new)
  <2>1. List(ord, lists, s) = List(currentOrder, actions, s)
    BY StitchedOnwardLists
  <2>2. \A i \in DOMAIN List(currentOrder, actions, s) :
          new[List(currentOrder, actions, s)[i]] = actionStates[List(currentOrder, actions, s)[i]]
    BY <1>1, ReleasedFacts, StitchedStatusFacts
  <2> QED
    BY <1>2, <2>1, <2>2 DEF AllEnded
<1>3. ASSUME NEW s \in BaseRange(ord),
             s < pos \/ s = pos \/ (s = pos + 1 /\ traversing # << >>)
      PROVE  s \in BaseRange(currentOrder)
  <2>1. s \in Int /\ s >= currentOrder.first
    BY StitchedFacts DEF BaseRange
  <2>2. currentOrder.base \in Nat /\ currentOrder.first \in Nat
    BY StitchedFacts
  <2> QED
    BY <1>1, <1>3, <2>1, <2>2 DEF BaseRange
<1>4. ASSUME NEW c \in scheduled
      PROVE  ExecutedWith(ActionsOf(c.place, lists), c.action, new, scheduled)
  <2>1. /\ c.place.seq \in BaseRange(currentOrder)
        /\ ActionsOf(c.place, lists) = List(ord, lists, c.place.seq)
        /\ ActionsOf(c.place, actions) = List(currentOrder, actions, c.place.seq)
    BY ExecutedFacts
  <2>2. ActionsOf(c.place, lists) = ActionsOf(c.place, actions)
    BY <2>1, StitchedOnwardLists
  <2>3. \A j \in DOMAIN ActionsOf(c.place, actions) :
          new[ActionsOf(c.place, actions)[j]] = actionStates[ActionsOf(c.place, actions)[j]]
    BY <1>1, <2>1, ReleasedFacts, StitchedStatusFacts
  <2>4. ExecutedWith(ActionsOf(c.place, actions), c.action, actionStates, scheduled)
    BY DEF Behind
  <2> QED
    BY <2>2, <2>3, <2>4 DEF ExecutedWith
<1>5. ASSUME NEW s \in BaseRange(ord),
             \/ s < pos
             \/ s = pos /\ \A c \in scheduled : c.place.seq # pos
             \/ s = pos + 1 /\ traversing # << >>
      PROVE  AllEnded(List(ord, lists, s), new)
  <2>1. s \in BaseRange(currentOrder)
    BY <1>3, <1>5
  <2>2. AllEnded(List(currentOrder, actions, s), actionStates)
    BY <1>5, <2>1 DEF Behind
  <2> QED
    BY <1>2, <2>1, <2>2
<1> QED
  BY <1>4, <1>5

LEMMA StitchOrderOnward ==
  ASSUME IInv, NoneActionsAlone, StitchesWithoutActions, CourseInv,
         NEW o \in inbox, o \in Orders, StitchOrder(o), inbox' = inbox \ {o},
         Fresh, Structured(Stitched(o), StitchedLists(o))
  PROVE  Linked(currentOrder)' /\ Origin' /\ OnwardNow'
<1> DEFINE ord == Stitched(o)
           lists == StitchedLists(o)
           new == StitchedStatuses(o)
           k == ProcessEdge(BaseEnd, ord, lists)
           b == currentOrder.base
<1>1. /\ Stitching(o) /\ hasActiveOrder /\ ~ hasCancelingOrder
      /\ currentOrder' = ord /\ actions' = lists
      /\ UNCHANGED <<lastNode, pausedNode, cancelContext>>
      /\ OrderMode(o) = "stitch"
      /\ ~ IsBaseEndCompleted(BaseEnd, lists) =>
           UNCHANGED <<scheduled, traversing>> /\ actionStates' = new
      /\ IsBaseEndCompleted(BaseEnd, lists) =>
           /\ EnRoute /\ lastNode.seq = b
           /\ scheduled = {} /\ traversing = << >>
           /\ Issued(k, new)
  BY StitchOrderEffect
<1>2. /\ OrderOK(ord) /\ ListsOK(lists) /\ new \in [Action -> Status]
      /\ b \in Nat /\ b \in BaseRange(currentOrder) /\ b \in BaseRange(ord) /\ IsNode(b)
      /\ BaseEnd = PlaceIn(currentOrder, b) /\ BaseEnd = PlaceIn(ord, b) /\ BaseEnd.seq = b
  BY <1>1, StitchedFacts, StitchedKeeps DEF BaseEnd, PlaceIn
<1>3. Msg[o].actions[Msg[o].first] = << >>
  BY <1>1, StitchesNothing DEF CourseInv, Stitching
<1>4. Linked(ord)
  BY <1>1, StitchedLinked DEF CourseInv
<1>5. Origin'
  <2>1. o \in Orders \ inbox'
    OBVIOUS
  <2> QED
    BY <1>1, <2>1, StitchedOriginates DEF Origin
<1>6. ASSUME pausedNode = None
      PROVE  Behind(ord, lists, actionStates', scheduled', traversing', lastNode.seq)
  <2> DEFINE pos == lastNode.seq
  <2>1. /\ EnRoute /\ pos \in Nat /\ pos \in BaseRange(currentOrder)
        /\ Behind(currentOrder, actions, actionStates, scheduled, traversing, pos)
    BY <1>1, <1>6, OnwardFacts DEF CourseInv
  <2>2. /\ \A s \in BaseRange(ord) :
             \/ s < pos
             \/ s = pos /\ \A c \in scheduled : c.place.seq # pos
             \/ s = pos + 1 /\ traversing # << >>
             => AllEnded(List(ord, lists, s), new)
        /\ \A c \in scheduled : ExecutedWith(ActionsOf(c.place, lists), c.action, new, scheduled)
    BY <1>1, <1>3, <2>1, StitchedBehind
  <2>3. CASE ~ IsBaseEndCompleted(BaseEnd, lists)
    <3>1. ~ (scheduled = {} /\ traversing = << >>)
      <4> SUFFICES ASSUME scheduled = {}, traversing = << >> PROVE FALSE
        OBVIOUS
      <4>1. pos = b
        BY <2>1 DEF Behind
      <4>2. b \notin nodeStates
        BY <1>2, <2>1, <4>1 DEF EnRoute, NodesIn
      <4>3. AllEnded(List(currentOrder, actions, b), actionStates)
        BY <1>2, <2>1, <4>1 DEF Behind
      <4>4. ActionsOf(BaseEnd, lists) = List(currentOrder, actions, b)
        BY <1>1, <1>2, <1>3, StitchedOnwardLists, ListFacts
      <4> QED
        BY <1>2, <2>3, <4>2, <4>3, <4>4 DEF IsBaseEndCompleted, ActionSet, AllEnded
    <3> QED
      BY <1>1, <2>2, <2>3, <3>1 DEF Behind
  <2>4. CASE IsBaseEndCompleted(BaseEnd, lists)
    <3>1. pos = b /\ scheduled = {}
      BY <1>1, <2>4
    <3>2. EndedBelow(ord, lists, new, b + 1)
      <4> SUFFICES ASSUME NEW s \in BaseRange(ord), s < b + 1
                   PROVE  AllEnded(List(ord, lists, s), new)
        BY DEF EndedBelow
      <4>1. s \in Int
        BY <1>2, ListFacts
      <4>2. s < b \/ s = b
        BY <1>2, <4>1
      <4> QED
        BY <2>2, <3>1, <4>2
    <3>3. Onward(ord, lists, new, k, b)
      <4> HIDE DEF ord, lists, new, b
      <4>1. Onward(ord, lists, new, ProcessEdge(PlaceIn(ord, b), ord, lists), b)
        BY <1>2, <1>4, <3>2, ProcessEdgeOnward DEF ord, lists
      <4> QED
        BY <1>2, <4>1
    <3>4. \A d \in k.execute : new[d.action] # "ENDED"
      <4> SUFFICES ASSUME NEW d \in k.execute PROVE new[d.action] # "ENDED"
        OBVIOUS
      <4>1. actionStates[d.action] # "ENDED" /\ d.action \in Action
        BY <1>1, <2>4 DEF Issued, Fresh, Calls
      <4> QED
        BY <1>1, <4>1, StitchedStatusFacts
    <3>5. Issued(k, new)
      BY <1>1, <2>4
    <3> HIDE DEF k, ord, lists, new
    <3> QED
      BY <1>2, <3>1, <3>3, <3>4, <3>5, IssuedBehind
  <2> QED
    BY <2>3, <2>4
<1> HIDE DEF ord, lists, new, k
<1> QED
  BY <1>1, <1>4, <1>5, <1>6 DEF OnwardNow

LEMMA NextCourse ==
  ASSUME IInv, NoneActionsAlone, PromptCancelation, StitchesWithoutActions, CourseInv, [Next]_vars
  PROVE  CourseInv'
<1>1. Fresh /\ IInv' /\ SettledNow'
  BY NextFresh, NextInv, NextSettled DEF CourseInv
<1>2. ASSUME UNCHANGED currentOrder, inbox' \subseteq inbox, inbox \subseteq Orders
      PROVE  Linked(currentOrder)' /\ Origin'
  BY <1>2 DEF CourseInv, Linked, Origin
<1>3. inbox \subseteq Orders
  BY DEF IInv, TypeOK
<1>4. Linked(currentOrder)' /\ Origin' /\ OnwardNow'
  <2>1. CASE \E o \in Orders : ReceiveOrder(o)
    <3>1. PICK o \in Orders : ReceiveOrder(o)
      BY <2>1
    <3>2. o \in inbox /\ inbox' = inbox \ {o}
      BY <3>1 DEF ReceiveOrder
    <3>3. CASE RejectOrder(o) \/ DiscardOrder(o)
      <4>1. UNCHANGED currentOrder
        BY <3>3 DEF RejectOrder, DiscardOrder, controllerVars
      <4> QED
        BY <1>2, <1>3, <3>2, <3>3, <4>1, OthersOnward
    <3>4. CASE ReplaceOrder(o)
      BY <3>2, <3>4, ReplaceOrderOnward
    <3>5. CASE StitchOrder(o)
      <4>1. currentOrder' = Stitched(o) /\ actions' = StitchedLists(o)
        BY <3>2, <3>5, StitchOrderEffect
      <4>2. Structured(Stitched(o), StitchedLists(o))
        BY <1>1, <4>1 DEF IInv, OrderInv
      <4> QED
        BY <1>1, <3>2, <3>5, <4>2, StitchOrderOnward
    <3> QED
      BY <3>1, <3>3, <3>4, <3>5 DEF ReceiveOrder
  <2>2. CASE \E c \in scheduled : EndAction(c)
    <3>1. PICK c \in scheduled : EndAction(c)
      BY <2>2
    <3>2. UNCHANGED <<currentOrder, inbox>>
      BY <3>1 DEF EndAction, masterVars
    <3> QED
      BY <1>2, <1>3, <3>1, <3>2, EndActionOnward
  <2>3. CASE \E i \in DOMAIN traversing : EdgeTraversed(i)
    <3>1. PICK i \in DOMAIN traversing : EdgeTraversed(i)
      BY <2>3
    <3>2. UNCHANGED <<currentOrder, inbox>>
      BY <3>1 DEF EdgeTraversed, masterVars
    <3> QED
      BY <1>1, <1>2, <1>3, <3>1, <3>2, EdgeTraversedOnward
  <2>4. CASE StopPause
    <3>1. UNCHANGED <<currentOrder, inbox>>
      BY <2>4 DEF StopPause, masterVars
    <3> QED
      BY <1>1, <1>2, <1>3, <2>4, <3>1, StopPauseOnward
  <2>5. CASE \/ \E c \in scheduled : StartAction(c)
             \/ \E c \in Cancels : CancelOrder(c)
             \/ DrivingToNextNode \/ Stopped \/ StartPause \/ PushPauseButton
             \/ UNCHANGED vars
    <3>1. UNCHANGED <<currentOrder, inbox>>
      BY <2>5 DEF StartAction, CancelOrder, DrivingToNextNode, Stopped, StartPause, PushPauseButton,
                  vars, controllerVars, masterVars
    <3> QED
      BY <1>2, <1>3, <2>5, <3>1, OthersOnward
  <2> QED
    BY <2>1, <2>2, <2>3, <2>4, <2>5 DEF Next
<1> QED
  BY <1>1, <1>4 DEF CourseInv

LEMMA CourseContinues ==
  ASSUME IInv, CourseInv
  PROVE  NoLostContinuation
<1> SUFFICES ASSUME hasActiveOrder, ~ hasCancelingOrder, scheduled = {}, traversing = << >>,
                    pausedNode = None
             PROVE  /\ lastNode = PlaceIn(currentOrder, currentOrder.base)
                    /\ \A a \in Action : actionStates[a] # "WAITING"
  BY DEF NoLostContinuation
<1>1. /\ EnRoute
      /\ lastNode.seq \in BaseRange(currentOrder) /\ IsNode(lastNode.seq) /\ lastNode.seq \in Nat
      /\ Behind(currentOrder, actions, actionStates, scheduled, traversing, lastNode.seq)
  BY OnwardFacts DEF CourseInv
<1>2. lastNode.seq = currentOrder.base
  BY <1>1 DEF Behind
<1>3. lastNode = PlaceIn(currentOrder, currentOrder.base)
  BY <1>1, <1>2 DEF EnRoute
<1>4. ASSUME NEW a \in Action, actionStates[a] = "WAITING" PROVE FALSE
  <2>1. a \in ReleasedActions(currentOrder, actions)
    BY <1>4 DEF IInv, OrderInv, Reported
  <2>2. PICK s \in BaseRange(currentOrder) :
          \E i \in DOMAIN List(currentOrder, actions, s) : a = List(currentOrder, actions, s)[i]
    BY <2>1, ReleasedFacts, TypeFacts DEF IInv
  <2>3. s \in Nat /\ s <= currentOrder.base /\ currentOrder.base \in Nat
    BY <1>1, <1>2, TypeFacts DEF BaseRange, OrderOK, IInv
  <2>4. s < lastNode.seq \/ s = lastNode.seq
    BY <1>2, <2>3
  <2>5. AllEnded(List(currentOrder, actions, s), actionStates)
    BY <1>1, <2>4 DEF Behind
  <2> QED
    BY <1>4, <2>2, <2>5 DEF AllEnded
<1> QED
  BY <1>3, <1>4

(* Processing of an order never gets lost between two callbacks: with      *)
(* nothing to be answered by the adapter the AGV has done all of the base  *)
(* and waits for more (_updateActionStatus, _acceptOrder, _processEdge).   *)
THEOREM NoLostContinuationHolds ==
  ASSUME NoneActionsAlone, PromptCancelation, StitchesWithoutActions
  PROVE  Spec => []NoLostContinuation
<1>1. Init => CourseInv
  <2> SUFFICES ASSUME Init PROVE CourseInv
    OBVIOUS
  <2>1. /\ currentOrder = NoOrder /\ scheduled = {}
        /\ ~ hasActiveOrder
    BY DEF Init, hasActiveOrder
  <2>2. currentOrder.orderId = None /\ BaseRange(currentOrder) = {}
    BY <2>1 DEF NoOrder, BaseRange
  <2> QED
    BY <2>1, <2>2 DEF CourseInv, Linked, Origin, SettledNow, Settled, OnwardNow
<1>2. IInv /\ CourseInv /\ [Next]_vars => CourseInv'
  BY NextCourse
<1>3. IInv /\ CourseInv => NoLostContinuation
  BY CourseContinues
<1> QED
  BY Invariance, <1>1, <1>2, <1>3, PTL DEF Spec

-----------------------------------------------------------------------------
(***************************************************************************)
(* The controller implements OrderExecution: its initial states are        *)
(* initial states there, and each of its steps is a step there or changes  *)
(* nothing that OrderExecution tells of.                                   *)
(***************************************************************************)

ahead == nodeStates \cup edgeStates

WaitingIn(statuses) == {a \in Action : statuses[a] = "WAITING"}

ActionsIn(contexts) == {c.action : c \in contexts}

(***************************************************************************)
(* An order that is being canceled while the AGV drives still ends behind  *)
(* the edge that is traversed: it has its whole route, or only the end     *)
(* node of the edge.                                                       *)
(***************************************************************************)
CancelRoute ==
  hasCancelingOrder /\ traversing # << >> =>
    LET e == Head(traversing).seq IN
    /\ e \in Nat /\ ~ IsNode(e) /\ e + 1 <= currentOrder.last
    /\ ahead \in {e .. currentOrder.last, {e + 1}}

-----------------------------------------------------------------------------
(* Places *)

LEMMA RoutePlaces ==
  ASSUME NEW from \in Nat, NEW to \in Int
  PROVE  NodesIn(from, to) \cup EdgesIn(from, to) = from .. to
BY DEF NodesIn, EdgesIn

LEMMA FirstPlace ==
  ASSUME NEW S, NEW f \in S, S \subseteq Nat, \A s \in S : f <= s
  PROVE  Execution!Next1(S) = f
<1>1. \A s \in S : (\A t \in S : s <= t) => s = f
  OBVIOUS
<1>2. \A t \in S : f <= t
  OBVIOUS
<1>3. Execution!Next1(S) = CHOOSE s \in S : \A t \in S : s <= t
  BY DEF Execution!Next1
<1> QED
  BY <1>1, <1>2, <1>3

LEMMA ActiveFacts ==
  ASSUME IInv
  PROVE  Execution!Active <=> hasActiveOrder
<1>1. ASSUME NEW c \in scheduled
      PROVE  c.action \in Action /\ actionStates[c.action] \in {"WAITING", "ACTIVE"}
  BY TypeFacts DEF IInv, OrderInv, Executing
<1>2. \A a \in Action : actionStates[a] = "ACTIVE" => a \in Executed
  BY DEF IInv, OrderInv, Executing, Executed
<1> QED
  BY <1>1, <1>2 DEF Execution!Active, hasActiveOrder, Executed

(* The AGV drives on the next edge of its route, which is released.        *)
LEMMA DrivingFacts ==
  IInv /\ ~ hasCancelingOrder /\ traversing # << >> =>
    /\ Executed = {}
    /\ ahead = lastNode.seq + 1 .. currentOrder.last
    /\ lastNode.seq + 1 <= currentOrder.last
    /\ lastNode.seq \in Nat /\ ~ IsNode(lastNode.seq + 1)
    /\ traversing = <<PlaceIn(currentOrder, lastNode.seq + 1)>>
    /\ Execution!Released(ahead, currentOrder.base) # {}
    /\ Execution!Next1(ahead) = lastNode.seq + 1
    /\ Execution!Next1(ahead) % 2 = 1
<1> SUFFICES ASSUME IInv, ~ hasCancelingOrder, traversing # << >>
             PROVE  /\ Executed = {}
                    /\ ahead = lastNode.seq + 1 .. currentOrder.last
                    /\ lastNode.seq + 1 <= currentOrder.last
                    /\ lastNode.seq \in Nat /\ ~ IsNode(lastNode.seq + 1)
                    /\ traversing = <<PlaceIn(currentOrder, lastNode.seq + 1)>>
                    /\ Execution!Released(ahead, currentOrder.base) # {}
                    /\ Execution!Next1(ahead) = lastNode.seq + 1
                    /\ Execution!Next1(ahead) % 2 = 1
  OBVIOUS
<1> DEFINE e == lastNode.seq + 1
<1>1. EnRoute
  BY DEF IInv, RouteInv, Inactive, Suspended
<1>2. /\ lastNode.seq \in BaseRange(currentOrder) /\ IsNode(lastNode.seq)
      /\ e \in BaseRange(currentOrder) /\ traversing = <<PlaceIn(currentOrder, e)>>
  BY <1>1 DEF EnRoute, Ahead
<1>3. /\ lastNode.seq \in Nat /\ e \in Nat /\ e <= currentOrder.base
      /\ currentOrder.base <= currentOrder.last /\ currentOrder.base \in Int /\ currentOrder.last \in Int
  BY <1>2, TypeFacts DEF IInv, OrderOK, BaseRange
<1>4. ~ IsNode(e)
  BY <1>2, <1>3, Parity
<1>5. ahead = e .. currentOrder.last
  BY <1>1, <1>3, RoutePlaces DEF EnRoute, ahead
<1>6. Executed = {}
  BY DEF IInv, OrderInv, Executing, Executed
<1> HIDE DEF e
<1>7. Execution!Next1(ahead) = e
  <2>1. e \in ahead /\ ahead \subseteq Nat /\ \A s \in ahead : e <= s
    BY <1>3, <1>5
  <2> QED
    BY <2>1, FirstPlace
<1>8. e \in Execution!Released(ahead, currentOrder.base)
  BY <1>3, <1>5 DEF Execution!Released
<1>9. e % 2 = 1
  BY <1>3, <1>4 DEF IsNode
<1> QED
  BY <1>2, <1>3, <1>4, <1>5, <1>6, <1>7, <1>8, <1>9 DEF e

LEMMA DrivingOn ==
  IInv /\ ~ hasCancelingOrder /\ traversing # << >> =>
    /\ Executed = {}
    /\ Execution!Released(ahead, currentOrder.base) # {}
    /\ Execution!Next1(ahead) % 2 = 1
BY DrivingFacts

LEMMA DrivingNext ==
  ASSUME IInv', ~ hasCancelingOrder', traversing' # << >>
  PROVE  /\ Executed' = {}
         /\ Execution!Released(ahead', currentOrder.base') # {}
         /\ Execution!Next1(ahead') % 2 = 1
<1>1. (IInv /\ ~ hasCancelingOrder /\ traversing # << >> =>
        /\ Executed = {}
        /\ Execution!Released(ahead, currentOrder.base) # {}
        /\ Execution!Next1(ahead) % 2 = 1)'
  BY DrivingOn, PTL
<1> QED
  BY <1>1

-----------------------------------------------------------------------------
(* Work that goes on *)

(* What the calls of a handler start is executed afterwards, and nothing   *)
(* else that waited.                                                       *)
LEMMA StartedActions ==
  ASSUME NEW S, NEW statuses, NEW calls \in Calls,
         scheduled' = S \cup calls.execute,
         actionStates' = Started(calls, statuses),
         \A d \in calls.execute : statuses[d.action] = "WAITING" /\ d.action \notin ActionsIn(S)
  PROVE  /\ (WaitingIn(actionStates) \ Executed)' \subseteq WaitingIn(statuses) \ ActionsIn(S)
         /\ Executed' = ActionsIn(S) \cup
              ((WaitingIn(statuses) \ ActionsIn(S)) \ (WaitingIn(actionStates) \ Executed)')
<1>1. \A d \in calls.execute : d.action \in Action
  BY DEF Calls
<1>2. Executed' = ActionsIn(S) \cup ActionsIn(calls.execute)
  BY DEF Executed, ActionsIn
<1>3. ASSUME NEW a \in Action
      PROVE  /\ a \notin ActionsIn(calls.execute) => actionStates'[a] = statuses[a]
             /\ a \in ActionsIn(calls.execute) =>
                  /\ actionStates'[a] = "WAITING" \/ actionStates'[a] = "ACTIVE"
                  /\ statuses[a] = "WAITING" /\ a \notin ActionsIn(S)
  BY DEF Started, ActionsIn
<1>4. ActionsIn(calls.execute) \subseteq Action
  BY <1>1 DEF ActionsIn
<1>5. PICK started : started = ActionsIn(calls.execute)
  OBVIOUS
<1>6. PICK old : old = ActionsIn(S)
  OBVIOUS
<1>7. WaitingIn(actionStates)' = {a \in Action : actionStates'[a] = "WAITING"}
  BY DEF WaitingIn
<1>8. WaitingIn(statuses) = {a \in Action : statuses[a] = "WAITING"}
  BY DEF WaitingIn
<1> QED
  BY <1>2, <1>3, <1>4, <1>5, <1>6, <1>7, <1>8

LEMMA ContinueStep ==
  ASSUME IInv', ~ hasCancelingOrder', NEW S, NEW statuses, NEW calls \in Calls,
         scheduled' = S \cup calls.execute,
         actionStates' = Started(calls, statuses),
         \A d \in calls.execute : statuses[d.action] = "WAITING" /\ d.action \notin ActionsIn(S)
  PROVE  Execution!Continue(WaitingIn(statuses) \ ActionsIn(S), ActionsIn(S))
<1>1. /\ (WaitingIn(actionStates) \ Executed)' \subseteq WaitingIn(statuses) \ ActionsIn(S)
      /\ Executed' = ActionsIn(S) \cup
           ((WaitingIn(statuses) \ ActionsIn(S)) \ (WaitingIn(actionStates) \ Executed)')
  BY StartedActions
<1>2. (traversing # << >>)' => /\ Executed' = {}
                               /\ Execution!Released(ahead', currentOrder.base') # {}
                               /\ Execution!Next1(ahead') % 2 = 1
  BY DrivingNext
<1> QED
  BY <1>1, <1>2 DEF Execution!Continue, WaitingIn, ahead

(* The actions that a step on the same order begins to execute waited.     *)
LEMMA NewlyStarted ==
  ASSUME IInv, IInv', Fresh, currentOrder' = currentOrder, actions' = actions, scheduled = {},
         NEW c \in scheduled'
  PROVE  actionStates[c.action] = "WAITING"
<1>1. c \in [action : Action, place : Place]
  BY DEF IInv, TypeOK
<1>2. c.action \in ReleasedActions(currentOrder, actions)
  BY DEF IInv, OrderInv, Executing, ReleasedActions, BaseRange
<1>3. actionStates[c.action] # "ABSENT"
  BY <1>1, <1>2 DEF IInv, OrderInv, Reported
<1> QED
  BY <1>3 DEF Fresh

(* A node of the current order is processed.                               *)
LEMMA NodeContinues ==
  ASSUME IInv, IInv', Fresh, UNCHANGED <<currentOrder, actions>>, ~ hasCancelingOrder',
         scheduled = {}, NEW n \in NodePlace, NEW traversedEdge,
         NEW st, st.order = currentOrder, st.lists = actions, st.statuses = actionStates,
         ~ st.paused, st.traversing = << >>,
         ProcessNode(n, traversedEdge, st)
  PROVE  /\ Execution!Continue(WaitingIn(actionStates) \ Executed, {})
         /\ pausedNode' = st.pausedNode
         /\ nodeStates' = st.nodes \ {n.seq}
         /\ edgeStates' = st.edges \ {e.seq : e \in traversedEdge}
<1> DEFINE k == ProcessNodeActions(n, currentOrder, actions, 0)
<1>1. /\ pausedNode' = st.pausedNode
      /\ nodeStates' = st.nodes \ {n.seq}
      /\ edgeStates' = st.edges \ {e.seq : e \in traversedEdge}
      /\ Invoke(k, actionStates, {}, << >>)
  BY DEF ProcessNode
<1>2. k \in Calls
  BY ProcessNodeActionsType, TypeFacts DEF IInv
<1> HIDE DEF k
<1>3. scheduled' = k.execute /\ actionStates' = Started(k, actionStates)
  BY <1>1, <1>2, InvokeAlone
<1>4. \A d \in k.execute : actionStates[d.action] = "WAITING"
  BY <1>3, NewlyStarted
<1>5. ActionsIn({}) = {} /\ Executed = {} /\ scheduled' = {} \cup k.execute
  BY <1>3 DEF ActionsIn, Executed
<1>6. Execution!Continue(WaitingIn(actionStates) \ ActionsIn({}), ActionsIn({}))
  BY <1>2, <1>3, <1>4, <1>5, ContinueStep
<1> QED
  BY <1>1, <1>5, <1>6

-----------------------------------------------------------------------------
(* The steps *)

LEMMA SameExecution ==
  ASSUME UNCHANGED <<currentOrder, nodeStates, edgeStates, scheduled, traversing, pausedNode,
                     cancelContext>>,
         (WaitingIn(actionStates) \ Executed)' = WaitingIn(actionStates) \ Executed
  PROVE  UNCHANGED Execution!vars
BY DEF Execution!vars, WaitingIn, Executed, hasCancelingOrder

(* An action that is reported to have started was executed already.        *)
LEMMA StartActionStep ==
  ASSUME IInv, NEW c \in scheduled, StartAction(c)
  PROVE  UNCHANGED Execution!vars
<1>1. /\ actionStates' = [actionStates EXCEPT ![c.action] = "ACTIVE"]
      /\ UNCHANGED <<currentOrder, nodeStates, edgeStates, scheduled, traversing, pausedNode,
                     cancelContext>>
  BY DEF StartAction, adapterVars
<1>2. c.action \in Executed /\ Executed' = Executed
  BY <1>1 DEF Executed
<1>3. \A a \in Action : a # c.action => actionStates'[a] = actionStates[a]
  BY <1>1, TypeFacts DEF IInv
<1>4. (WaitingIn(actionStates) \ Executed)' = WaitingIn(actionStates) \ Executed
  BY <1>2, <1>3 DEF WaitingIn
<1> QED
  BY <1>1, <1>4, SameExecution

LEMMA QuietStep ==
  ASSUME UNCHANGED <<currentOrder, nodeStates, edgeStates, actionStates, scheduled, traversing,
                     pausedNode, cancelContext>>
  PROVE  UNCHANGED Execution!vars
BY SameExecution DEF WaitingIn, Executed

LEMMA EdgeTraversedAdvances ==
  ASSUME IInv, IInv', PromptCancelation, NEW i \in DOMAIN traversing, EdgeTraversed(i)
  PROVE  Execution!Advance
<1>1. UNCHANGED <<currentOrder, actions, paused, cancelContext>> /\ ~ paused
  BY DEF EdgeTraversed
<1>2. /\ i = 1 /\ scheduled = {} /\ traversing # << >>
      /\ Remaining(i) = << >> /\ traversing \in Seq(EdgePlace)
  <2>1. Len(traversing) = 1 /\ i = 1 /\ scheduled = {} /\ traversing # << >>
    BY TypeFacts DEF IInv, OrderInv, Executing
  <2> QED
    BY <2>1, TypeFacts DEF IInv, Remaining
<1>3. CASE hasCancelingOrder
  <2>1. /\ traversing' = << >>
        /\ UNCHANGED <<nodeStates, edgeStates, pausedNode, scheduled, actionStates>>
    BY <1>2, <1>3 DEF EdgeTraversed
  <2> QED
    BY <1>1, <1>2, <1>3, <2>1 DEF Execution!Advance, hasCancelingOrder, Executed
<1>4. CASE ~ hasCancelingOrder
  <2> DEFINE e == PlaceIn(currentOrder, lastNode.seq + 1)
             n == EndNodeOf(e)
             st == [Now EXCEPT !.traversing = Remaining(i)]
  <2>1. /\ traversing = <<e>> /\ lastNode.seq \in Nat /\ ~ IsNode(lastNode.seq + 1)
        /\ Execution!Next1(ahead) = lastNode.seq + 1
    BY <1>2, <1>4, DrivingFacts
  <2>2. traversing[i] = e /\ e \in EdgePlace
    BY <1>2, <2>1
  <2>3. n \in NodePlace /\ n.seq = e.seq + 1 /\ e.seq = lastNode.seq + 1
    BY <2>2, EdgePlaceFacts DEF EndNodeOf, PlaceIn
  <2>4. ProcessNode(n, {e}, st)
    BY <1>4, <2>2 DEF EdgeTraversed
  <2>5. /\ st.order = currentOrder /\ st.lists = actions /\ st.statuses = actionStates
        /\ ~ st.paused /\ st.traversing = << >> /\ st.pausedNode = pausedNode
        /\ st.nodes = nodeStates /\ st.edges = edgeStates
    BY <1>1, <1>2 DEF Now
  <2>6. Fresh /\ ~ hasCancelingOrder'
    BY <1>1, <1>4, EdgeTraversedInv DEF hasCancelingOrder
  <2> HIDE DEF st, n, e
  <2>7. /\ Execution!Continue(WaitingIn(actionStates) \ Executed, {})
        /\ pausedNode' = st.pausedNode
        /\ nodeStates' = st.nodes \ {n.seq}
        /\ edgeStates' = st.edges \ {x.seq : x \in {e}}
    BY <1>1, <1>2, <2>3, <2>4, <2>5, <2>6, NodeContinues
  <2>8. ahead' = ahead \ {lastNode.seq + 1, lastNode.seq + 1 + 1}
    <3>1. {x.seq : x \in {e}} = {lastNode.seq + 1}
      BY <2>3
    <3>2. /\ nodeStates' = nodeStates \ {lastNode.seq + 1 + 1}
          /\ edgeStates' = edgeStates \ {lastNode.seq + 1}
      BY <2>3, <2>5, <2>7, <3>1
    <3>3. lastNode.seq + 1 \notin nodeStates /\ lastNode.seq + 1 + 1 \notin edgeStates
      <4>1. IsNode(lastNode.seq + 1 + 1)
        BY <2>1, Parity
      <4> QED
        BY <2>1, <4>1 DEF IInv, TypeOK
    <3> QED
      BY <3>2, <3>3 DEF ahead
  <2>9. ahead' = ahead \ {Execution!Next1(ahead), Execution!Next1(ahead) + 1}
    BY <2>1, <2>8
  <2> QED
    BY <1>1, <1>2, <1>4, <2>5, <2>6, <2>7, <2>9 DEF Execution!Advance, ahead, WaitingIn, hasCancelingOrder
<1> QED
  BY <1>3, <1>4

LEMMA CancelOrderCancels ==
  ASSUME IInv, NEW c \in Cancels, CancelOrder(c)
  PROVE  Execution!Cancel \/ UNCHANGED Execution!vars
<1>1. UNCHANGED <<currentOrder, nodeStates, edgeStates, pausedNode, scheduled, traversing>>
  BY DEF CancelOrder
<1>2. CASE ~ hasActiveOrder \/ hasCancelingOrder
  <2>1. UNCHANGED <<cancelContext, actionStates>>
    BY <1>2 DEF CancelOrder
  <2> QED
    BY <1>1, <2>1, QuietStep
<1>3. CASE hasActiveOrder /\ ~ hasCancelingOrder
  <2>1. /\ cancelContext' = c
        /\ actionStates' = [a \in Action |-> IF actionStates[a] = "WAITING"
                                             THEN "ENDED" ELSE actionStates[a]]
    BY <1>3 DEF CancelOrder
  <2>2. hasCancelingOrder'
    BY <2>1, EnvironmentAssumption DEF hasCancelingOrder
  <2>3. {a \in Action : actionStates'[a] = "WAITING"} = {}
    BY <2>1
  <2>4. Execution!Active
    BY <1>3, ActiveFacts
  <2> QED
    BY <1>1, <1>3, <2>2, <2>3, <2>4 DEF Execution!Cancel, Executed
<1> QED
  BY <1>2, <1>3

LEMMA DrivingToNextNodeShortens ==
  ASSUME IInv, CancelRoute, DrivingToNextNode
  PROVE  Execution!ShortenToNextNode
<1> DEFINE e == Head(traversing).seq
<1>1. /\ traversing # << >> /\ hasCancelingOrder /\ scheduled = {}
      /\ nodeStates' = {s \in nodeStates : s = e + 1} /\ edgeStates' = {}
      /\ UNCHANGED <<currentOrder, actionStates, pausedNode, cancelContext, scheduled, traversing>>
  BY DEF DrivingToNextNode, IInv, CancelInv, adapterVars
<1>2. /\ e \in Nat /\ ~ IsNode(e) /\ e + 1 <= currentOrder.last
      /\ ahead = e .. currentOrder.last \/ ahead = {e + 1}
  BY <1>1 DEF CancelRoute
<1>3. currentOrder.last \in Int /\ edgeStates \subseteq Edges /\ nodeStates \subseteq Nodes
  BY DEF IInv, TypeOK, OrderOK, Nodes, Edges
<1> HIDE DEF e
<1>4. IsNode(e + 1) /\ e + 1 \in Nat
  BY <1>2, Parity
<1>5. e + 1 \in ahead /\ e + 1 \in nodeStates
  <2>1. e + 1 \in ahead
    BY <1>2, <1>3
  <2> QED
    BY <1>3, <1>4, <2>1 DEF ahead, Edges
<1>6. ahead' = {e + 1}
  BY <1>1, <1>5 DEF ahead
<1>7. ahead \cap {Execution!Next1(ahead) + 1, Execution!Next1(ahead)} \cap {s \in ahead : s % 2 = 0}
        = {e + 1}
  <2>1. (e + 1) % 2 = 0 /\ e % 2 # 0
    BY <1>2, <1>4 DEF IsNode
  <2>2. CASE ahead = e .. currentOrder.last
    <3>1. e \in ahead /\ ahead \subseteq Nat /\ \A s \in ahead : e <= s
      BY <1>2, <1>3, <2>2
    <3>2. Execution!Next1(ahead) = e
      BY <3>1, FirstPlace
    <3> QED
      BY <1>5, <2>1, <3>2
  <2>3. CASE ahead = {e + 1}
    <3>1. e + 1 \in ahead /\ ahead \subseteq Nat /\ \A s \in ahead : e + 1 <= s
      BY <1>4, <2>3
    <3>2. Execution!Next1(ahead) = e + 1
      BY <3>1, FirstPlace
    <3>3. e + 1 + 1 # e + 1
      BY <1>2
    <3> QED
      BY <1>5, <2>1, <2>3, <3>2, <3>3
  <2> QED
    BY <1>2, <2>2, <2>3
<1> QED
  BY <1>1, <1>6, <1>7 DEF Execution!ShortenToNextNode, ahead, Executed, hasCancelingOrder

LEMMA StoppedStops ==
  ASSUME IInv, Stopped
  PROVE  Execution!Stop
<1>1. /\ hasCancelingOrder /\ scheduled = {}
      /\ traversing' = << >> /\ nodeStates' = {} /\ edgeStates' = {} /\ cancelContext' = None
      /\ UNCHANGED <<currentOrder, actionStates, pausedNode, scheduled>>
  BY DEF Stopped, IInv, CancelInv
<1> QED
  BY <1>1 DEF Execution!Stop, Executed, hasCancelingOrder

(* The pause ends and the node that was suspended is processed.            *)
LEMMA StopPauseBegins ==
  ASSUME IInv, IInv', PromptCancelation, StopPause
  PROVE  Execution!Begin \/ UNCHANGED Execution!vars
<1>1. /\ env.pauses /\ UNCHANGED <<currentOrder, actions, cancelContext>>
  BY DEF StopPause
<1>2. ~ hasCancelingOrder /\ ~ hasCancelingOrder'
  BY <1>1, DefersNotCancels DEF hasCancelingOrder, IInv, CancelInv
<1>3. CASE pausedNode = None
  <2>1. UNCHANGED <<nodeStates, edgeStates, actionStates, scheduled, traversing, pausedNode>>
    BY <1>3 DEF StopPause
  <2> QED
    BY <1>1, <2>1, QuietStep
<1>4. CASE pausedNode # None
  <2> DEFINE pos == currentOrder.first
             n == PlaceIn(currentOrder, pos)
             st == [Now EXCEPT !.paused = FALSE, !.pausedNode = None]
  <2>1. Suspended
    BY <1>2, <1>4 DEF IInv, RouteInv, Inactive, EnRoute
  <2>2. /\ pos \in Nat /\ pos \in BaseRange(currentOrder) /\ IsNode(pos)
        /\ pos <= currentOrder.last /\ currentOrder.last \in Int
    BY <2>1, TypeFacts DEF IInv, OrderInv, Suspended, Structured, OrderOK, BaseRange
  <2>3. n \in NodePlace /\ n.seq = pos
    BY <2>2, ListFacts, TypeFacts DEF IInv, NodePlace
  <2>4. ProcessNode(n, {}, st)
    BY <1>2, <1>4, <2>1 DEF StopPause, Suspended
  <2>5. /\ st.order = currentOrder /\ st.lists = actions /\ st.statuses = actionStates
        /\ ~ st.paused /\ st.traversing = << >> /\ st.pausedNode = None
        /\ st.nodes = nodeStates /\ st.edges = edgeStates /\ scheduled = {}
    BY <2>1 DEF Now, Suspended
  <2>6. Fresh
    BY StopPauseInv
  <2>7. ahead = pos .. currentOrder.last
    BY <2>1, <2>2, RoutePlaces DEF ahead, Suspended
  <2> HIDE DEF st, n, pos
  <2>8. /\ Execution!Continue(WaitingIn(actionStates) \ Executed, {})
        /\ pausedNode' = st.pausedNode
        /\ nodeStates' = st.nodes \ {n.seq}
        /\ edgeStates' = st.edges \ {x.seq : x \in {}}
    BY <1>1, <1>2, <2>3, <2>4, <2>5, <2>6, NodeContinues
  <2>9. ahead # {} /\ Execution!Next1(ahead) = pos
    <3>1. pos \in ahead /\ ahead \subseteq Nat /\ \A s \in ahead : pos <= s
      BY <2>2, <2>7
    <3> QED
      BY <3>1, FirstPlace
  <2>10. ahead' = ahead \ {pos}
    <3>1. pos \notin edgeStates
      BY <2>2 DEF IInv, TypeOK
    <3>2. nodeStates' = nodeStates \ {pos} /\ edgeStates' = edgeStates
      BY <2>3, <2>5, <2>8
    <3> QED
      BY <3>1, <3>2 DEF ahead
  <2> QED
    BY <1>1, <1>2, <1>4, <2>5, <2>8, <2>9, <2>10
       DEF Execution!Begin, ahead, WaitingIn, hasCancelingOrder
<1> QED
  BY <1>3, <1>4

(* An action ends, and what follows it at its place is started.            *)
LEMMA EndActionEnds ==
  ASSUME IInv, IInv', PromptCancelation, NEW c \in scheduled, EndAction(c)
  PROVE  Execution!End
<1> DEFINE a == c.action
           rest == scheduled \ {c}
<1>1. /\ UNCHANGED <<currentOrder, nodeStates, edgeStates, pausedNode, cancelContext>>
      /\ Ended(c) \in [Action -> Status] /\ Ended(c)[a] = "ENDED" /\ a \in Action
      /\ \A x \in Action : x # a => Ended(c)[x] = actionStates[x]
  BY TypeFacts DEF IInv, EndAction, Ended, Status
<1>2. /\ traversing = << >>
      /\ Executing(currentOrder, actions, Ended(c), rest, << >>)
      /\ \A d \in rest : d.action # a
  BY EndingExecuting, TypeFacts DEF IInv, OrderInv, Ended
<1>3. a \in Executed /\ ActionsIn(rest) = Executed \ {a}
  BY <1>2 DEF ActionsIn, Executed
<1>4. WaitingIn(Ended(c)) \ ActionsIn(rest) = WaitingIn(actionStates) \ Executed
  BY <1>1, <1>3 DEF WaitingIn
<1>5. CASE hasCancelingOrder
  <2>1. Invoke(NoCalls, Ended(c), rest, traversing)
    BY <1>5 DEF EndAction, Ended
  <2>2. scheduled' = rest /\ traversing' = traversing /\ actionStates' = Ended(c)
    BY <1>1, <2>1, InvokeNothing, TypeFacts DEF IInv
  <2>3. Executed' = Executed \ {a}
    BY <1>3, <2>2 DEF Executed, ActionsIn
  <2>4. (WaitingIn(actionStates) \ Executed)' = WaitingIn(actionStates) \ Executed
    <3>1. WaitingIn(actionStates)' = WaitingIn(Ended(c))
      BY <2>2 DEF WaitingIn
    <3> QED
      BY <1>3, <1>4, <2>3, <3>1
  <2> QED
    BY <1>1, <1>3, <1>5, <2>2, <2>3, <2>4 DEF Execution!End, WaitingIn, hasCancelingOrder
<1>6. CASE ~ hasCancelingOrder
  <2>1. Invoke(Following(c), Ended(c), rest, traversing)
    BY <1>6 DEF EndAction, Ended, Following
  <2>2. Following(c) \in Calls
    BY <1>6, EndingCalls
  <2>3. scheduled' = rest \cup Following(c).execute /\ actionStates' = Started(Following(c), Ended(c))
    BY <2>1, InvokeEffect
  <2>4. ASSUME NEW d \in Following(c).execute
        PROVE  Ended(c)[d.action] = "WAITING" /\ d.action \notin ActionsIn(rest)
    <3>1. rest = {}
      <4>1. NoCalls.execute = {}
        BY DEF NoCalls
      <4> QED
        BY <1>6, <2>4, <4>1, EndingCalls
    <3>2. Proper(currentOrder, actions, Ended(c), Following(c), lastNode.seq)
      BY <1>6, <3>1, EndingCalls
    <3> QED
      BY <2>4, <3>1, <3>2 DEF Proper, ActionsIn
  <2>5. ~ hasCancelingOrder'
    BY <1>1, <1>6 DEF hasCancelingOrder
  <2> HIDE DEF rest
  <2>6. Execution!Continue(WaitingIn(Ended(c)) \ ActionsIn(rest), ActionsIn(rest))
    <3>1. PICK k : k = Following(c)
      OBVIOUS
    <3>2. PICK statuses : statuses = Ended(c)
      OBVIOUS
    <3>3. PICK S : S = rest
      OBVIOUS
    <3>4. /\ k \in Calls
          /\ scheduled' = S \cup k.execute /\ actionStates' = Started(k, statuses)
          /\ \A d \in k.execute : statuses[d.action] = "WAITING" /\ d.action \notin ActionsIn(S)
      BY <2>2, <2>3, <2>4, <3>1, <3>2, <3>3
    <3>5. Execution!Continue(WaitingIn(statuses) \ ActionsIn(S), ActionsIn(S))
      BY <2>5, <3>4, ContinueStep
    <3> QED
      BY <3>2, <3>3, <3>5 DEF Execution!Continue
  <2>7. Execution!Continue(WaitingIn(actionStates) \ Executed, Executed \ {a})
    BY <1>3, <1>4, <2>6 DEF Execution!Continue
  <2> QED
    BY <1>1, <1>3, <1>6, <2>7
       DEF Execution!End, Execution!Continue, WaitingIn, hasCancelingOrder
<1> QED
  BY <1>5, <1>6

(* What an order lists is executed when its first node is left behind, the *)
(* rest waits.                                                             *)
LEMMA FreshOrder ==
  ASSUME IInv', ~ hasCancelingOrder'
  PROVE  \E w \in {(WaitingIn(actionStates) \ Executed)' \cup Executed'} :
           w \subseteq Action /\ Execution!Continue(w, {})
<1> DEFINE waiting == WaitingIn(actionStates) \ Executed
<1>1. Executed' \subseteq Action
  <2>1. scheduled' \subseteq [action : Action, place : Place]
    BY DEF IInv, TypeOK
  <2> QED
    BY <2>1 DEF Executed
<1>2. waiting' \subseteq Action
  BY DEF WaitingIn
<1>3. Executed' \cap waiting' = {}
  OBVIOUS
<1>4. (traversing # << >>)' => /\ Executed' = {}
                               /\ Execution!Released(ahead', currentOrder.base') # {}
                               /\ Execution!Next1(ahead') % 2 = 1
  BY DrivingNext
<1>5. Execution!Continue(waiting' \cup Executed', {})
  BY <1>3, <1>4 DEF Execution!Continue, WaitingIn, ahead
<1> QED
  BY <1>1, <1>2, <1>5 DEF Execution!Continue

LEMMA ReplaceOrderAccepts ==
  ASSUME IInv, IInv', NEW o \in Orders, ReplaceOrder(o)
  PROVE  Execution!Accept
<1> DEFINE ord == Replacement(o)
           pos == Msg[o].first
           st == [Now EXCEPT !.order = ord, !.statuses = ReplacementStatuses(o),
                             !.nodes = NodesIn(pos, Msg[o].last),
                             !.edges = EdgesIn(pos, Msg[o].last)]
<1>1. /\ ~ hasCancelingOrder /\ ~ hasActiveOrder
      /\ currentOrder' = ord /\ cancelContext' = cancelContext
  BY DEF ReplaceOrder, Replacement, OrderMode
<1>2. ProcessNode(PlaceIn(ord, pos), {}, st)
  BY DEF ReplaceOrder, Replacement, ReplacementStatuses
<1>3. Inactive
  BY <1>1, InactiveFacts
<1>4. ~ Execution!Active /\ ~ hasCancelingOrder'
  BY <1>1, ActiveFacts DEF hasCancelingOrder
<1>5. /\ st.paused = paused /\ st.pausedNode = None /\ st.traversing = << >>
      /\ st.statuses = ReplacementStatuses(o)
      /\ st.nodes = NodesIn(pos, Msg[o].last) /\ st.edges = EdgesIn(pos, Msg[o].last)
  BY <1>3 DEF Now, Inactive
<1>6. /\ pos \in Nat /\ IsNode(pos) /\ currentOrder'.base = Msg[o].base /\ Msg[o].base \in Nat
      /\ pos <= Msg[o].base /\ pos <= Msg[o].last /\ Msg[o].last \in Int
  BY <1>1, MessageFacts DEF Replacement
<1>7. PlaceIn(ord, pos) \in NodePlace /\ ReplacementStatuses(o) \in [Action -> Status]
  BY ReplacementType
<1>8. ahead' \subseteq Nat
  BY DEF IInv, TypeOK, ahead
<1> HIDE DEF ord, pos, st
<1>9. CASE paused
  <2>1. /\ pausedNode' = PlaceIn(ord, pos)
        /\ nodeStates' = NodesIn(pos, Msg[o].last)
        /\ edgeStates' = EdgesIn(pos, Msg[o].last)
        /\ Invoke(NoCalls, ReplacementStatuses(o), {}, << >>)
    BY <1>2, <1>3, <1>5, <1>9 DEF ProcessNode, Inactive
  <2>2. scheduled' = {} /\ traversing' = << >> /\ actionStates' = ReplacementStatuses(o)
    <3>1. << >> \in Seq(EdgePlace)
      OBVIOUS
    <3> QED
      BY <1>7, <2>1, <3>1, InvokeNothing
  <2>3. ahead' = pos .. Msg[o].last
    BY <1>6, <2>1, RoutePlaces DEF ahead
  <2>4. pausedNode' # None
    BY <1>7, <2>1, EnvironmentAssumption DEF NodePlace, Place
  <2>5. Execution!Next1(ahead') = pos /\ ahead' # {}
    <3>1. pos \in ahead' /\ \A s \in ahead' : pos <= s
      BY <1>6, <2>3
    <3> QED
      BY <1>8, <3>1, FirstPlace
  <2>6. Execution!Next1(ahead') % 2 = 0 /\ Execution!Next1(ahead') <= currentOrder'.base
    BY <1>6, <2>5 DEF IsNode
  <2>7. Executed' = {} /\ (WaitingIn(actionStates) \ Executed)' \subseteq Action
    BY <2>2 DEF Executed, WaitingIn
  <2> QED
    BY <1>1, <1>3, <1>4, <1>6, <1>8, <2>2, <2>4, <2>5, <2>6, <2>7
       DEF Execution!Accept, Inactive, ahead, WaitingIn, hasCancelingOrder
<1>10. CASE ~ paused
  <2>1. pausedNode' = None
    BY <1>2, <1>5, <1>10 DEF ProcessNode
  <2>2. \E w \in {(WaitingIn(actionStates) \ Executed)' \cup Executed'} :
           w \subseteq Action /\ Execution!Continue(w, {})
    BY <1>4, FreshOrder
  <2> QED
    BY <1>1, <1>3, <1>4, <1>6, <1>8, <2>1, <2>2
       DEF Execution!Accept, Execution!Continue, Inactive, ahead, WaitingIn, hasCancelingOrder
<1> QED
  BY <1>9, <1>10

(* A stitched order extends the route, and an AGV that waits at the end of *)
(* the base goes on.                                                       *)
LEMMA StitchOrderExtends ==
  ASSUME IInv, IInv', NoneActionsAlone, NEW o \in Orders, o \in inbox, StitchOrder(o)
  PROVE  Execution!Extend
<1> DEFINE b == currentOrder.base
           k == StitchCalls(o)
           new == StitchedStatuses(o)
           w == (WaitingIn(actionStates) \ Executed)' \cup (Executed' \ Executed)
<1>1. /\ ~ hasCancelingOrder /\ hasActiveOrder /\ IsOrderBaseStitching(o)
      /\ currentOrder' = Stitched(o)
      /\ nodeStates' = {s \in nodeStates : s <= b} \cup NodesIn(b + 1, Msg[o].last)
      /\ edgeStates' = {s \in edgeStates : s <= b} \cup EdgesIn(b, Msg[o].last)
      /\ Invoke(k, new, scheduled, traversing)
      /\ UNCHANGED <<pausedNode, cancelContext>>
  BY StitchOrderFacts
<1>2. Stitching(o)
  BY <1>1 DEF Stitching, IInv
<1>3. /\ currentOrder'.base = Msg[o].base /\ Msg[o].base \in Nat /\ b <= Msg[o].base
      /\ b \in Nat /\ IsNode(b) /\ new \in [Action -> Status]
      /\ currentOrder.last \in Int /\ b <= currentOrder.last
  BY <1>1, <1>2, StitchedFacts, TypeFacts DEF OrderOK, IInv
<1>4. Execution!Active /\ ~ hasCancelingOrder'
  BY <1>1, ActiveFacts DEF hasCancelingOrder
<1>5. ahead' \subseteq Nat
  BY DEF IInv, TypeOK, ahead
<1>6. Execution!Released(ahead', b) = Execution!Released(ahead, b)
  <2>1. \A s \in NodesIn(b + 1, Msg[o].last) : ~ s <= b
    BY <1>3 DEF NodesIn
  <2>2. \A s \in EdgesIn(b, Msg[o].last) : ~ s <= b
    BY <1>3 DEF EdgesIn
  <2> HIDE DEF b
  <2> QED
    BY <1>1, <2>1, <2>2 DEF Execution!Released, ahead
<1>7. /\ scheduled' = scheduled \cup k.execute
      /\ actionStates' = Started(k, new)
  BY <1>1, InvokeEffect
<1>8. WaitingIn(actionStates) \ Executed \subseteq w
  <2> SUFFICES ASSUME NEW a \in Action, actionStates[a] = "WAITING", a \notin Executed,
                      a \notin Executed'
               PROVE  actionStates'[a] = "WAITING"
    BY DEF WaitingIn
  <2>1. new[a] = "WAITING"
    BY DEF StitchedStatuses
  <2>2. ~ \E c \in k.execute : c.action = a
    BY <1>7 DEF Executed
  <2> QED
    BY <1>7, <2>1, <2>2 DEF Started
<1>9. w \subseteq Action
  <2>1. scheduled' \subseteq [action : Action, place : Place]
    BY DEF IInv, TypeOK
  <2> QED
    BY <2>1 DEF Executed, WaitingIn
<1> HIDE DEF b, k, new
<1>10. CASE Executed = {} /\ traversing = << >> /\ pausedNode = None
            /\ Execution!Released(ahead, b) = {}
  <2>1. \E x \in {(WaitingIn(actionStates) \ Executed)' \cup Executed'} :
           x \subseteq Action /\ Execution!Continue(x, {})
    BY <1>4, FreshOrder
  <2>2. w = (WaitingIn(actionStates) \ Executed)' \cup Executed'
    BY <1>10
  <2>3. Execution!Continue(w, {})
    BY <2>1, <2>2 DEF Execution!Continue
  <2> QED
    BY <1>1, <1>3, <1>4, <1>5, <1>6, <1>8, <1>9, <1>10, <2>3
       DEF Execution!Extend, Execution!Continue, ahead, b, WaitingIn, hasCancelingOrder
<1>11. CASE ~ (Executed = {} /\ traversing = << >> /\ pausedNode = None
               /\ Execution!Released(ahead, b) = {})
  <2>1. ~ IsBaseEndCompleted(BaseEnd, StitchedLists(o))
    <3> SUFFICES ASSUME IsBaseEndCompleted(BaseEnd, StitchedLists(o)) PROVE FALSE
      OBVIOUS
    <3>1. ~ Suspended
      <4>1. b \notin nodeStates
        BY DEF IsBaseEndCompleted, BaseEnd, PlaceIn, b
      <4>2. currentOrder.first \in Nat /\ currentOrder.first <= b
        BY <1>2, StitchedFacts DEF b
      <4>3. b \in NodesIn(currentOrder.first, currentOrder.last)
        BY <1>3, <4>2 DEF NodesIn
      <4> QED
        BY <4>1, <4>3 DEF Suspended
    <3>2. EnRoute
      BY <1>1, <3>1 DEF IInv, RouteInv, Inactive
    <3>3. lastNode.seq = b /\ scheduled = {} /\ traversing = << >>
      BY <1>2, <3>2, CompletedFacts DEF b
    <3>4. ahead = b + 1 .. currentOrder.last
      BY <1>3, <3>2, <3>3, RoutePlaces DEF EnRoute, ahead
    <3>5. Execution!Released(ahead, b) = {}
      BY <1>3, <3>4 DEF Execution!Released
    <3> QED
      BY <1>11, <3>2, <3>3, <3>5 DEF EnRoute, Executed
  <2>2. Invoke(NoCalls, new, scheduled, traversing)
    BY <1>1, <2>1 DEF StitchCalls, k
  <2>3. scheduled' = scheduled /\ traversing' = traversing /\ actionStates' = new
    BY <1>3, <2>2, InvokeNothing, TypeFacts DEF IInv
  <2>4. Executed' = Executed /\ (WaitingIn(actionStates) \ Executed)' = w
    BY <2>3 DEF Executed
  <2> QED
    BY <1>1, <1>3, <1>4, <1>5, <1>6, <1>8, <1>9, <1>11, <2>3, <2>4
       DEF Execution!Extend, ahead, b, WaitingIn, hasCancelingOrder
<1> QED
  BY <1>10, <1>11

-----------------------------------------------------------------------------
(* The route of an order that is being canceled *)

LEMMA CancelRouteKept ==
  ASSUME CancelRoute, UNCHANGED <<currentOrder, nodeStates, edgeStates, traversing, cancelContext>>
  PROVE  CancelRoute'
BY DEF CancelRoute, ahead, hasCancelingOrder

LEMMA NextCancelRoute ==
  ASSUME IInv, IInv', CancelRoute, PromptCancelation, [Next]_vars
  PROVE  CancelRoute'
<1>1. CASE \E o \in Orders : ReceiveOrder(o)
  <2>1. PICK o \in Orders : ReceiveOrder(o)
    BY <1>1
  <2>2. CASE RejectOrder(o) \/ DiscardOrder(o)
    BY <2>2, CancelRouteKept DEF RejectOrder, DiscardOrder, controllerVars, adapterVars
  <2>3. CASE ReplaceOrder(o) \/ StitchOrder(o)
    <3>1. ~ hasCancelingOrder /\ cancelContext' = cancelContext
      BY <2>3, Zenon DEF ReplaceOrder, StitchOrder
    <3> QED
      BY <3>1 DEF CancelRoute, hasCancelingOrder
  <2> QED
    BY <2>1, <2>2, <2>3 DEF ReceiveOrder
<1>2. CASE \E c \in scheduled : StartAction(c)
  BY <1>2, CancelRouteKept DEF StartAction, adapterVars
<1>3. CASE \E c \in scheduled : EndAction(c)
  <2>1. PICK c \in scheduled : EndAction(c)
    BY <1>3
  <2>2. traversing = << >> /\ cancelContext' = cancelContext
        /\ Ended(c) \in [Action -> Status]
    BY <2>1, TypeFacts DEF EndAction, IInv, OrderInv, Executing, Ended, Status
  <2>3. ASSUME hasCancelingOrder PROVE traversing' = << >>
    <3>1. Invoke(NoCalls, Ended(c), scheduled \ {c}, traversing)
      BY <2>1, <2>3 DEF EndAction, Ended
    <3> QED
      BY <2>2, <3>1, InvokeNothing, TypeFacts DEF IInv
  <2> QED
    BY <2>2, <2>3 DEF CancelRoute, hasCancelingOrder
<1>4. CASE \E i \in DOMAIN traversing : EdgeTraversed(i)
  <2>1. PICK i \in DOMAIN traversing : EdgeTraversed(i)
    BY <1>4
  <2>2. hasCancelingOrder' => traversing' = << >>
    <3> SUFFICES ASSUME hasCancelingOrder' PROVE traversing' = << >>
      OBVIOUS
    <3>1. Execution!Advance /\ hasCancelingOrder
      BY <2>1, EdgeTraversedAdvances DEF EdgeTraversed, hasCancelingOrder
    <3> QED
      BY <3>1 DEF Execution!Advance, hasCancelingOrder
  <2> QED
    BY <2>2 DEF CancelRoute
<1>5. CASE \E c \in Cancels : CancelOrder(c)
  <2>1. PICK c \in Cancels : CancelOrder(c)
    BY <1>5
  <2>2. UNCHANGED <<currentOrder, nodeStates, edgeStates, traversing>>
    BY <2>1 DEF CancelOrder
  <2>3. CASE hasCancelingOrder
    BY <2>1, <2>2, <2>3, CancelRouteKept DEF CancelOrder
  <2>4. CASE ~ hasCancelingOrder
    <3>1. ASSUME traversing # << >>
          PROVE  LET e == Head(traversing).seq IN
                 /\ e \in Nat /\ ~ IsNode(e) /\ e + 1 <= currentOrder.last
                 /\ ahead = e .. currentOrder.last
      <4> DEFINE e == lastNode.seq + 1
      <4>1. /\ ahead = e .. currentOrder.last
            /\ e <= currentOrder.last /\ lastNode.seq \in Nat /\ ~ IsNode(e)
            /\ traversing = <<PlaceIn(currentOrder, e)>>
        BY <2>4, <3>1, DrivingFacts
      <4>2. Head(traversing).seq = e
        BY <4>1 DEF PlaceIn
      <4>3. currentOrder.last # e
        <5>1. currentOrder.orderId # None
          BY <2>4, <3>1 DEF IInv, RouteInv, Inactive, Suspended, EnRoute
        <5>2. IsNode(currentOrder.last)
          BY <5>1 DEF IInv, OrderInv, Structured
        <5> QED
          BY <4>1, <5>2
      <4>4. currentOrder.last \in Int
        BY TypeFacts DEF IInv, OrderOK
      <4> QED
        BY <4>1, <4>2, <4>3, <4>4
    <3> QED
      BY <2>2, <3>1 DEF CancelRoute, ahead
  <2> QED
    BY <2>3, <2>4
<1>6. CASE DrivingToNextNode
  <2>1. /\ hasCancelingOrder /\ traversing # << >>
        /\ nodeStates' = {s \in nodeStates : s = Head(traversing).seq + 1} /\ edgeStates' = {}
        /\ UNCHANGED <<currentOrder, traversing, cancelContext>>
    BY <1>6 DEF DrivingToNextNode, IInv, CancelInv, adapterVars
  <2> DEFINE e == Head(traversing).seq
  <2>2. /\ e \in Nat /\ ~ IsNode(e) /\ e + 1 <= currentOrder.last
        /\ ahead \in {e .. currentOrder.last, {e + 1}}
    BY <2>1 DEF CancelRoute
  <2> HIDE DEF e
  <2>3. e + 1 \in ahead /\ IsNode(e + 1)
    BY <2>2, Parity, TypeFacts DEF IInv, OrderOK
  <2>4. e + 1 \in nodeStates
    BY <2>3 DEF ahead, IInv, TypeOK
  <2>5. ahead' = {e + 1}
    BY <2>1, <2>4 DEF ahead, e
  <2> QED
    BY <2>1, <2>2, <2>5 DEF CancelRoute, e
<1>7. CASE Stopped
  BY <1>7 DEF Stopped, CancelRoute
<1>8. CASE StartPause \/ PushPauseButton
  BY <1>8, CancelRouteKept DEF StartPause, PushPauseButton, adapterVars
<1>9. CASE StopPause
  <2>1. cancelContext' = cancelContext
    BY <1>9 DEF StopPause
  <2>2. CASE hasCancelingOrder
    BY <1>9, <2>1, <2>2, CancelRouteKept DEF StopPause
  <2>3. CASE ~ hasCancelingOrder
    BY <2>1, <2>3 DEF CancelRoute, hasCancelingOrder
  <2> QED
    BY <2>2, <2>3
<1>10. CASE UNCHANGED vars
  BY <1>10, CancelRouteKept DEF vars, controllerVars, adapterVars
<1> QED
  BY <1>1, <1>2, <1>3, <1>4, <1>5, <1>6, <1>7, <1>8, <1>9, <1>10 DEF Next

-----------------------------------------------------------------------------
(* The refinement *)

LEMMA InitImplements == Init => Execution!Init
<1> SUFFICES ASSUME Init PROVE Execution!Init
  OBVIOUS
<1>1. currentOrder.base = -1 /\ Executed = {}
  BY DEF Init, NoOrder, Executed
<1>2. {a \in Action : actionStates[a] = "WAITING"} = {}
  BY DEF Init
<1> QED
  BY <1>1, <1>2 DEF Init, Execution!Init, hasCancelingOrder

LEMMA NextImplements ==
  ASSUME IInv, IInv', CancelRoute, NoneActionsAlone, PromptCancelation, [Next]_vars
  PROVE  [Execution!Next]_Execution!vars
<1>1. CASE \E o \in Orders : ReceiveOrder(o)
  <2>1. PICK o \in Orders : ReceiveOrder(o)
    BY <1>1
  <2>2. CASE RejectOrder(o) \/ DiscardOrder(o)
    BY <2>2, QuietStep DEF RejectOrder, DiscardOrder, controllerVars, adapterVars
  <2>3. CASE ReplaceOrder(o)
    BY <2>3, ReplaceOrderAccepts DEF Execution!Next
  <2>4. CASE StitchOrder(o)
    <3>1. Execution!Extend
      BY <2>1, <2>4, StitchOrderExtends DEF ReceiveOrder
    <3> QED
      BY <3>1 DEF Execution!Next
  <2> QED
    BY <2>1, <2>2, <2>3, <2>4 DEF ReceiveOrder
<1>2. CASE \E c \in scheduled : StartAction(c)
  BY <1>2, StartActionStep
<1>3. CASE \E c \in scheduled : EndAction(c)
  BY <1>3, EndActionEnds DEF Execution!Next
<1>4. CASE \E i \in DOMAIN traversing : EdgeTraversed(i)
  BY <1>4, EdgeTraversedAdvances DEF Execution!Next
<1>5. CASE \E c \in Cancels : CancelOrder(c)
  BY <1>5, CancelOrderCancels DEF Execution!Next
<1>6. CASE DrivingToNextNode
  BY <1>6, DrivingToNextNodeShortens DEF Execution!Next
<1>7. CASE Stopped
  BY <1>7, StoppedStops DEF Execution!Next
<1>8. CASE StartPause \/ PushPauseButton
  BY <1>8, QuietStep DEF StartPause, PushPauseButton, adapterVars
<1>9. CASE StopPause
  BY <1>9, StopPauseBegins DEF Execution!Next
<1>10. CASE UNCHANGED vars
  BY <1>10, QuietStep DEF vars, controllerVars, adapterVars
<1> QED
  BY <1>1, <1>2, <1>3, <1>4, <1>5, <1>6, <1>7, <1>8, <1>9, <1>10 DEF Next

(* Whatever messages and callbacks interleave, the controller does what    *)
(* OrderExecution promises: it works at one place at a time, in the order  *)
(* of the route and within its base, starts nothing twice and nothing      *)
(* after a cancelation, and goes on at the end of the base only when that  *)
(* base grows.                                                             *)
THEOREM ImplementsOrderExecutionHolds ==
  ASSUME NoneActionsAlone, PromptCancelation
  PROVE  Spec => ImplementsOrderExecution
<1>1. Init => IInv /\ CancelRoute
  BY InitInv DEF Init, CancelRoute, hasCancelingOrder
<1>2. IInv /\ CancelRoute /\ [Next]_vars => (IInv /\ CancelRoute)'
  BY NextInv, NextCancelRoute
<1>3. IInv /\ CancelRoute /\ [Next]_vars => [Execution!Next]_Execution!vars
  BY NextInv, NextImplements
<1> QED
  BY InitImplements, <1>1, <1>2, <1>3, PTL DEF Spec, ImplementsOrderExecution, Execution!Spec
=============================================================================
