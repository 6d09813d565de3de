--------------------------- MODULE InstantActions ---------------------------
(***************************************************************************)
(* Instant actions in the AGV controller (src/controller/agv-controller.ts)*)
(* : the queue _currentInstantActions, from the receipt of an instant      *)
(* actions message to the end of each of its actions.                      *)
(*                                                                         *)
(* The adapter may report the end of an action within executeAction, and   *)
(* the controller itself ends stateRequest at once, so that handlers nest: *)
(* the loop over the queue in _processInstantActionChunk is entered again, *)
(* and the queue spliced, while an outer loop is under way.  `loops` is    *)
(* the stack of these loops; nothing else happens until it is empty.       *)
(***************************************************************************)
EXTENDS ActionBlocking, Lists, SequencesExt

CONSTANTS
  ActionType,   \* ActionType[a]: "stateRequest", "cancelOrder" or "other"
  Messages,     \* the instant actions messages
  MessageOf,    \* MessageOf[m] is the list of actions in message m
  Inboxes,      \* the sets of messages a behaviour may receive
  Vetoable,     \* the actions the adapter may find not executable
  Synchronous,  \* the actions the adapter may end within its handler
  MaxOrders,    \* how many orders a behaviour may accept
  None          \* "undefined"

ASSUME MessagesAssumption ==
  /\ ActionType \in [Action -> {"stateRequest", "cancelOrder", "other"}]
  /\ MessageOf \in [Messages -> Seq(Action)]
  /\ Inboxes \subseteq SUBSET Messages
  /\ Vetoable \subseteq Action /\ Synchronous \subseteq Action
  /\ MaxOrders \in Nat /\ None \notin Action

(* actionIds are unique over all messages.                                 *)
ASSUME UniqueActions ==
  \A m, n \in Messages : \A i \in DOMAIN MessageOf[m], j \in DOMAIN MessageOf[n] :
    MessageOf[m][i] = MessageOf[n][j] => m = n /\ i = j

VARIABLES
  queue,          \* _currentInstantActions
  instantStates,  \* status of the instant actions in state.actionStates
  rejections,     \* actions with a rejection error in state.errors
  loops,          \* the loops of _processInstantActionChunk, innermost first
  cancelContext,  \* _cancelOrderContext
  scheduled,      \* adapter: instant actions not yet reported ended
  stopTraverse,   \* adapter: stopTraverse invocations not yet answered
  order,          \* the order (see AgvOrder): none active, idle or busy
  orders,         \* the number of orders accepted so far
  inbox           \* messages that may still arrive

queueVars == <<queue, instantStates, rejections, loops, cancelContext>>
orderVars == <<order, orders>>
vars == <<queueVars, scheduled, stopTraverse, orderVars, inbox>>

(* "idle": no action of the active order is scheduled and not yet ended.   *)
hasActiveOrder == order \in {"idle", "busy"}

hasCancelingOrder == cancelContext # None

(* The controller executes one handler at a time, to completion.           *)
HandlerDone == loops = << >>

-----------------------------------------------------------------------------
(* Fault (HardAlone): an initial HARD action is not skipped.               *)
ChunkWithInitialHard(q, after, skipInitialHard) ==
  IF NextToRun(q, after) = {} THEN << >>
  ELSE <<[next |-> after + 1, stop |-> CHOOSE j \in NextToRun(q, after) :
                                          \A k \in NextToRun(q, after) : k <= j]>>

(***************************************************************************)
(* _processInstantActionChunk: the loop over the indices after `after` to  *)
(* be executed, if any.  A single HARD action counts as a loop.            *)
(***************************************************************************)
Chunk(q, after, skipInitialHard) ==
  LET run == IF Segment(q, after) = {} /\ skipInitialHard THEN {} ELSE NextToRun(q, after)
  IN IF run = {} THEN << >>
     ELSE <<[next |-> after + 1, stop |-> CHOOSE j \in run : \A k \in run : k <= j]>>

IndexOf(a) == CHOOSE i \in DOMAIN queue : queue[i] = a

(* Fault (QueueNeverStalls): a HARD action that ends is left in the queue. *)
ActionEndedKeepsHard(a, outer) ==
  /\ instantStates' = [instantStates EXCEPT ![a] = "ENDED"]
  /\ queue' = IF Hard(a) THEN queue ELSE RemoveAt(queue, IndexOf(a))
  /\ loops' = outer

(***************************************************************************)
(* _updateActionStatus with FINISHED or FAILED for an instant action, in   *)
(* front of the loops that are under way.                                  *)
(***************************************************************************)
ActionEnded(a, outer) ==
  LET i == IndexOf(a)
      rest == RemoveAt(queue, i)
      ended == {b \in Action : instantStates[b] = "ENDED"} \cup {a}
  IN /\ instantStates' = [instantStates EXCEPT ![a] = "ENDED"]
     /\ queue' = rest
     /\ loops' =
          IF Hard(a) THEN Chunk(rest, 0, FALSE) \o outer
          ELSE IF AreParallelActionsEnded(queue, i, FALSE, ended)
          THEN SetToSeq({[next |-> h - 1, stop |-> h - 1] : h \in NextHard(queue, i)}) \o outer
          ELSE outer

(* context.stopped: the order is deleted and cancelOrder finishes.         *)
OrderStopped(a, outer) ==
  /\ order' = "none"
  /\ cancelContext' = None
  /\ ActionEnded(a, outer)

-----------------------------------------------------------------------------
(* Fault (OneCancelation): a cancelation that is under way does not count. *)
ExecutableWhileCanceling(a, vetoed) ==
  /\ a \notin vetoed
  /\ ActionType[a] = "cancelOrder" => hasActiveOrder

(* _checkInstantActionExecutable                                           *)
Executable(a, vetoed) ==
  /\ a \notin vetoed
  /\ ActionType[a] = "cancelOrder" => hasActiveOrder /\ ~ hasCancelingOrder

(* Fault (InstantActionsEnd): a pending HARD action always defers.         *)
ReceiveWithoutChunk(m) ==
  /\ HandlerDone
  /\ m \in inbox
  /\ inbox' = inbox \ {m}
  /\ queue' = queue \o MessageOf[m]
  /\ loops' = IF queue = << >> THEN Chunk(queue', 0, FALSE) ELSE << >>
  /\ UNCHANGED <<instantStates, rejections, cancelContext, scheduled, stopTraverse, orderVars>>

(* Fault (ProcessesPending): all of the queue is executed again.           *)
ReceiveFromStart(m) ==
  /\ HandlerDone
  /\ m \in inbox
  /\ inbox' = inbox \ {m}
  /\ queue' = queue \o MessageOf[m]
  /\ loops' = Chunk(queue', 0, queue # << >>)
  /\ UNCHANGED <<instantStates, rejections, cancelContext, scheduled, stopTraverse, orderVars>>

(***************************************************************************)
(* _processInstantActions: executable actions are queued, the others are   *)
(* rejected; the first of the new ones are executed unless a HARD action   *)
(* is pending.                                                             *)
(***************************************************************************)
ReceiveInstantActions(m) ==
  /\ HandlerDone
  /\ m \in inbox
  /\ inbox' = inbox \ {m}
  /\ \E vetoed \in SUBSET {a \in Vetoable : ActionType[a] = "other"} :
       LET accepted == Kept(MessageOf[m], {a \in Action : Executable(a, vetoed)}) IN
       /\ queue' = queue \o accepted
       /\ rejections' = rejections \cup (ToSet(MessageOf[m]) \ ToSet(accepted))
  /\ loops' = IF \E a \in ToSet(queue) : Hard(a) THEN << >>
              ELSE Chunk(queue', Len(queue), queue # << >>)
  /\ UNCHANGED <<instantStates, cancelContext, scheduled, stopTraverse, orderVars>>

(* What the innermost loop executes next, and the loops after that.        *)
NextIndex == Head(loops).next

LoopsAfter ==
  IF NextIndex = Head(loops).stop THEN Tail(loops)
  ELSE <<[Head(loops) EXCEPT !.next = @ + 1]>> \o Tail(loops)

(* _processInstantAction with a type that is handled by the adapter, or    *)
(* answered later by the controller (factsheetRequest).                    *)
ExecuteAtAdapter(a) ==
  /\ ActionType[a] = "other"
  /\ \/ /\ scheduled' = scheduled \cup {a}
        /\ instantStates' = [instantStates EXCEPT ![a] = "ACTIVE"]
        /\ loops' = LoopsAfter
        /\ UNCHANGED queue
     \/ /\ a \in Synchronous
        /\ ActionEnded(a, LoopsAfter)
        /\ UNCHANGED scheduled
  /\ UNCHANGED <<cancelContext, stopTraverse, order>>

ExecuteStateRequest(a) ==
  /\ ActionType[a] = "stateRequest"
  /\ ActionEnded(a, LoopsAfter)
  /\ UNCHANGED <<cancelContext, scheduled, stopTraverse, order>>

(* _cancelOrder: actions of the order are canceled first, if any; then the *)
(* AGV is stopped.                                                         *)
ExecuteCancelOrder(a) ==
  /\ ActionType[a] = "cancelOrder"
  /\ \/ /\ cancelContext' = a
        /\ instantStates' = [instantStates EXCEPT ![a] = "ACTIVE"]
        /\ loops' = LoopsAfter
        /\ stopTraverse' = IF order = "busy" THEN stopTraverse ELSE stopTraverse + 1
        /\ UNCHANGED <<queue, order>>
     \/ /\ order # "busy" /\ a \in Synchronous
        /\ OrderStopped(a, LoopsAfter)
        /\ UNCHANGED stopTraverse
  /\ UNCHANGED scheduled

(***************************************************************************)
(* One iteration of the innermost loop.  An index beyond the end of the    *)
(* queue yields undefined, and reading its actionId throws: all handlers   *)
(* under way are left.                                                     *)
(***************************************************************************)
ProcessNext ==
  /\ ~ HandlerDone
  /\ IF NextIndex \in DOMAIN queue
     THEN \/ ExecuteAtAdapter(queue[NextIndex])
          \/ ExecuteStateRequest(queue[NextIndex])
          \/ ExecuteCancelOrder(queue[NextIndex])
     ELSE /\ loops' = << >>
          /\ UNCHANGED <<queue, instantStates, cancelContext, scheduled, stopTraverse, order>>
  /\ UNCHANGED <<rejections, orders, inbox>>

(* The adapter reports FINISHED or FAILED, once for every action.          *)
EndInstantAction(a) ==
  /\ HandlerDone
  /\ a \in scheduled
  /\ scheduled' = scheduled \ {a}
  /\ ActionEnded(a, << >>)
  /\ UNCHANGED <<rejections, cancelContext, stopTraverse, orderVars, inbox>>

-----------------------------------------------------------------------------
(* The order, as far as cancelation depends on it.                         *)

AcceptOrder ==
  /\ HandlerDone
  /\ ~ hasActiveOrder /\ ~ hasCancelingOrder
  /\ orders < MaxOrders
  /\ orders' = orders + 1
  /\ order' = "busy"
  /\ UNCHANGED <<queueVars, scheduled, stopTraverse, inbox>>

(* The actions of the order that are scheduled have ended.                 *)
OrderActionsEnd ==
  /\ HandlerDone
  /\ order = "busy"
  /\ \/ /\ ~ hasCancelingOrder
        /\ order' \in {"idle", "none"}
        /\ UNCHANGED <<queueVars, stopTraverse>>
     \/ /\ hasCancelingOrder
        /\ order' = "idle"
        /\ stopTraverse' = stopTraverse + 1
        /\ UNCHANGED queueVars
     \/ /\ hasCancelingOrder /\ cancelContext \in Synchronous
        /\ OrderStopped(cancelContext, << >>)
        /\ UNCHANGED <<rejections, stopTraverse>>
  /\ UNCHANGED <<scheduled, orders, inbox>>

(* An edge has been traversed: the next actions start, or the order ends.  *)
OrderProceeds ==
  /\ HandlerDone
  /\ order = "idle" /\ ~ hasCancelingOrder
  /\ order' \in {"busy", "none"}
  /\ UNCHANGED <<queueVars, scheduled, stopTraverse, orders, inbox>>

(* A second answer finds no context any more, and throws.                  *)
Stopped ==
  /\ HandlerDone
  /\ stopTraverse > 0
  /\ stopTraverse' = stopTraverse - 1
  /\ IF hasCancelingOrder THEN OrderStopped(cancelContext, << >>)
     ELSE order' = "none" /\ UNCHANGED <<queue, instantStates, loops, cancelContext>>
  /\ UNCHANGED <<rejections, scheduled, orders, inbox>>

-----------------------------------------------------------------------------
Init ==
  /\ queue = << >> /\ loops = << >>
  /\ instantStates = [a \in Action |-> "ABSENT"]
  /\ rejections = {}
  /\ cancelContext = None
  /\ scheduled = {} /\ stopTraverse = 0
  /\ order = "none" /\ orders = 0
  /\ inbox \in Inboxes

Next ==
  \/ \E m \in Messages : ReceiveInstantActions(m)
  \/ ProcessNext
  \/ \E a \in scheduled : EndInstantAction(a)
  \/ AcceptOrder
  \/ OrderActionsEnd
  \/ OrderProceeds
  \/ Stopped

(* Handlers run to completion; the adapter ends every action it was given, *)
(* the actions of an order it was told to cancel, and stops the AGV.       *)
Fairness ==
  /\ WF_vars(ProcessNext)
  /\ WF_vars(\E a \in scheduled : EndInstantAction(a))
  /\ WF_vars(hasCancelingOrder /\ OrderActionsEnd)
  /\ WF_vars(Stopped)

Spec == Init /\ [][Next]_vars /\ Fairness
-----------------------------------------------------------------------------
(* Properties *)

(* Every variable stays within the values the code can give it.            *)
TypeOK ==
  /\ queue \in Seq(Action)
  /\ instantStates \in [Action -> {"ABSENT", "ACTIVE", "ENDED"}]
  /\ rejections \subseteq Action
  /\ loops \in Seq([next : Nat \ {0}, stop : Nat \ {0}])
  /\ cancelContext \in Action \cup {None}
  /\ scheduled \subseteq Action
  /\ stopTraverse \in Nat
  /\ order \in {"none", "idle", "busy"} /\ orders \in 0 .. MaxOrders
  /\ inbox \subseteq Messages

(***************************************************************************)
(* _processInstantActionChunk: the loops over the queue execute pending    *)
(* actions, each of them once, although actions that end at once are       *)
(* removed from the queue meanwhile.                                       *)
(***************************************************************************)
ProcessesPending ==
  ~ HandlerDone =>
    NextIndex \in DOMAIN queue /\ instantStates[queue[NextIndex]] = "ABSENT"

(***************************************************************************)
(* Blocking types of instant actions: a HARD action is executed when all   *)
(* actions before it have ended, and none behind it before it has ended.   *)
(***************************************************************************)
HardAlone ==
  \A i, j \in DOMAIN queue :
    i < j /\ (Hard(queue[i]) \/ Hard(queue[j])) => instantStates[queue[j]] = "ABSENT"

(***************************************************************************)
(* Between handlers the queue waits for nothing but the end of actions     *)
(* that are executed: its head, and all others before the next HARD one.   *)
(***************************************************************************)
QueueNeverStalls ==
  HandlerDone =>
    \A i \in NextToRun(queue, 0) : instantStates[queue[i]] = "ACTIVE"

(***************************************************************************)
(* One cancelation at a time: a cancelOrder that is executed is the one    *)
(* that finishes when the AGV has stopped, and stopTraverse is invoked for *)
(* it only, and not again before it is answered.  It may be executed long  *)
(* after it was checked: when its order has ended, or another has begun    *)
(* (_checkInstantActionExecutable, _cancelOrder).                          *)
(***************************************************************************)
OneCancelation ==
  /\ stopTraverse <= 1 /\ (stopTraverse = 1 => hasCancelingOrder)
  /\ \A a \in Action :
       ActionType[a] = "cancelOrder" /\ instantStates[a] = "ACTIVE" => cancelContext = a

(* Every instant action that was queued ends eventually.                   *)
InstantActionsEnd ==
  \A a \in Action : a \in ToSet(queue) ~> instantStates[a] = "ENDED"
=============================================================================
