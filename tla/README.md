# A TLA+ development of vda-5050-lib.js

The library implements VDA 5050, the interface between a master control and
automated guided vehicles (AGVs): `Client` and its subclasses speak MQTT, the
`AgvController` executes orders and instant actions by means of an `AgvAdapter`,
the `MasterController` assigns orders and turns the State messages of the AGVs
into events, and the `VirtualAgvAdapter` simulates an AGV. All paths below are
under `src/src/` of the repository unless said otherwise.

## Inventory

| Component | State | Operations | Hard behaviour | What makes it correct |
|---|---|---|---|---|
| `AgvController`, order execution (`controller/agv-controller.ts`) | current order, node, edge and action states, last node, paused, suspended node, context of a pending cancelOrder | receive an order (reject, discard, new, update, stitch); action status; edge traversed; cancelOrder, drivingToNextNode, stopped; pause and resume | handlers interleave with adapter callbacks; the continuation of a route is decided in five places; cancelation counts answers | route state and position agree; the route continues once and only once; blocking types; guarantees of the adapter interface; cancelation terminates |
| `AgvController`, instant actions | queue of pending instant actions | receive, execute a chunk, action status | adapter callbacks from within a loop over the queue; actions appended while others execute | HARD actions alone and in order, no action lost or executed twice |
| `AgvController`, state publication | publish counts, timers, current state | publish on change, on request, by timer; clean up | state is changed while a publish is awaited; counted errors are found by identity | what has ended is told before it is removed, and is removed; a State can always be published |
| `MasterController` (`controller/master-controller.ts`) | caches of assigned orders and instant actions, chain of stitched orders, reference of instant actions | assign, initiate, dispatch a State message | State messages lost, merged or late; failed publish; stitching before the last order is reported | each event once, in the documented order, and true |
| `VirtualAgvAdapter` (`adapter/virtual-agv-adapter.ts`) | traverse context, action state machines, vehicle state | handlers of the adapter interface, tick | the list of machines changes under the tick loop; pausing, charging, low battery | actions and edges end, nothing progresses while paused, drives only when it may |
| `Client` (`common/client.ts`) | MQTT client, life, header ids | start, stop, publish, subscribe, unsubscribe, dispatch | reconnects, answers that never come, operations made while connecting, stopping or offline | the broker delivers what has a handler; requests settle; the retained connection state is true |
| `SubscriptionManager` (`common/subscription-manager.ts`) | handlers by MQTT topic | add, remove, find | several subscriptions of one MQTT topic | subscribed at the broker iff there is a handler |
| `AgvClient`, `MasterControlClient` (`client/`) | connection states of AGVs | publish and subscribe by role, last will | connection messages of several sessions | tracked state follows the retained message |
| types and validators (`common/vda-5050-*`, `common/client-types.ts`) | none | validation | three versions, types written by hand, validators generated | what is declared is accepted, what is accepted can be read |
| `AgvIdMap`, MQTT utilities (`common/`) | a map | get, set, delete | none | unit tests suffice |

Components interact by MQTT messages (`MasterController` sends Order and
InstantActions, `AgvController` sends State, `AgvClient` sends Connection), by
direct calls from controller to adapter (`executeAction`, `cancelAction`,
`finishEdgeAction`, `traverseEdge`, `stopTraverse`) and by callbacks from adapter
to controller (`updateActionStatus`, `edgeTraversed`, `stopped`,
`drivingToNextNode`). JavaScript runs each handler to completion, so concurrency
is the interleaving of handlers; `await` splits a handler in two.

## Modules

* `ActionBlocking` - the blocking types NONE, SOFT and HARD as the controller
  applies them to the action list of a node or an edge: which actions are started
  together, which HARD action comes next, which actions ran in parallel. The code
  scans arrays with indices; the module states the sets of indices it finds.
* `AgvOrder` - order execution. One action per handler:

  | Action | Code |
  |---|---|
  | `ReceiveOrder` = `RejectOrder`, `DiscardOrder`, `ReplaceOrder`, `StitchOrder` | `_processOrder`, `_acceptOrder` |
  | `StartAction`, `EndAction` | `_updateActionStatus` with a non-terminal or terminal status |
  | `EdgeTraversed` | `_updateEdgeTraversed` |
  | `CancelOrder` | `_checkInstantActionExecutable`, `_cancelOrder` |
  | `DrivingToNextNode`, `Stopped` | callbacks of `_onOrderActionsCanceled` |
  | `StartPause`, `StopPause` | status FINISHED of the instant actions, with the new paused state |
  | `PushPauseButton` | `updatePausedState` |

  A handler of the code ends by calling adapter handlers, possibly through a chain
  of `_processNode`, `_processNodeActions`, `_processEdge`, `_processEdgeActions`
  and `_traverseEdge`. The operators of the same names compute that chain and
  return the calls it makes (`execute`, `traverse`); `Invoke` hands them to the
  adapter.
* `AgvOrder_proofs` - the theorems about `AgvOrder`, and that it implements
  `OrderExecution`.
* `OrderExecution` - what an AGV promises to do with orders, without messages,
  blocking types, pauses and callbacks: it follows one route, place after place and
  never beyond the base, executes the actions of a place and drives on when they
  have ended; the base may grow; after a cancelation nothing starts.
  `AgvOrderRefinement` maps the state of `AgvOrder` to it (the places ahead are the
  node and edge states, the actions executed are those passed to `executeAction`)
  and states that every behaviour of the controller is one of it.
* `InstantActions` - the queue of instant actions, from the receipt of a message
  to the end of each action. One action per handler, except that the loop of
  `_processInstantActionChunk` is unfolded:

  | Action | Code |
  |---|---|
  | `ReceiveInstantActions` | `_processInstantActions`, `_checkInstantActionExecutable` |
  | `ProcessNext` = `ExecuteAtAdapter`, `ExecuteStateRequest`, `ExecuteCancelOrder` | one iteration of the loop in `_processInstantActionChunk` |
  | `EndInstantAction` | `_updateActionStatus` with a terminal status, scope instant |
  | `AcceptOrder`, `OrderActionsEnd`, `OrderProceeds`, `Stopped` | what `AgvOrder` does, as far as `cancelOrder` depends on it |

  An action may end within the handler that executes it, and the end of a HARD
  action enters the loop again. `loops` is the stack of the loops under way, each
  with the index it is at and the last one it will visit, both fixed before the
  loop as in the code; `queue` is the array they index, which ends splice.
  Nothing else happens until the stack is empty (`HandlerDone`).
  `InstantActions_proofs` holds the theorems about it.
* `Lists` - an array that is filtered (`Array.filter`). The elements that are kept are
  a set, not an operator as in `SelectSeq`, because theorems cannot be applied to
  operators here. `Lists_proofs` says what is kept, and other facts on lists.
* `MasterOrders` - orders in the `MasterController`, composed with `AgvOrder`, which
  it extends: a step of the system is a step of the AGV or of master control.

  | Action | Code |
  |---|---|
  | `AssignOrder`, `PublishFails` | `assignOrder` up to its `await`, and its `catch` |
  | `InitiateCancelOrder` | `initiateInstantActions` with a cancelOrder action |
  | `DispatchState` = `RejectedOrders`, `DispatchOrderState`, instant actions | `_dispatchState` |
  | `DispatchOrderState` = `Stitch`, `UpdateActions`, `EdgeEvents`, `NodeEvents`, `IsOrderProcessed` | `_dispatchOrderState`, in this order |
  | `ReceiveAssigned`, `ReceiveCancelOrder`, `AdapterStep` | the handlers of `AgvOrder` |
  | `ReportAgvError` | `updateErrors`, or an action that failed |

  A cache (`OrderStateCache`) holds the combined order as a function from places
  to their actions, the last node and edge reported, and the last status of each
  action. There is no channel for State messages: the AGV publishes its state on
  every change and at intervals, so a State that arrives is its state at some
  later time, and `DispatchState` reads the state of the AGV whenever it is
  taken. Steps of the AGV between two of them are State messages lost.
  `MasterOrders_proofs` holds the theorems about it.
* `StatePublication` - instant actions as messages tell of them: master control
  initiates and publishes them, the AGV checks, starts, ends and reports them, and
  the States it publishes come back as events. How they are queued is in
  `InstantActions`.

  | Action | Code |
  |---|---|
  | `InitiateInstantActions`, `Published`, `PublishFails` | `initiateInstantActions` before its `await`, after it, and its `catch` |
  | `ReceiveInstantActions`, `CheckInstantAction`, `StartAction`, `EndAction` | `_processInstantActions`, `_checkInstantActionExecutable`, `_processInstantAction`, `_updateActionStatus` |
  | `PublishPeriodically`, `PublishCompletes`, and the publish in each of the above | `_publishCurrentState` before and after its `await`, `_cleanupInstantActionStates` |
  | `UpdateErrors`, `AcceptOrder`, `Reconnect` | `updateErrors` and `updatePartialState` (which clone the state), `_acceptOrder`, connection state change |
  | `DispatchState` = `UpdateValidationErrors`, `EventFor` | `_dispatchState` from line 538 on |

  `told` and `fate` are history variables: what a State has told, and what became
  of an action. `StatePublication_proofs` holds the theorems about it.
* `ClientConnection` - AGV and master control clients with their subscription
  managers, joined by an MQTT broker. Operations of the application (`Start`, `Stop`,
  `SubscribeTopic`, `UnsubscribeTopic`) and the steps that end them (`Connected`,
  `ConnectFailed`, `OfflinePublished`, `EndConnection`, `Disconnected`,
  `ReceiveAck`) are separate actions, as each `await` and callback of the code separates them. `Reconnected` is the connect listener with its resubscription. The broker and mqtt.js
  are external and modelled from how `client.ts` uses them: packets of a connection stay in
  order (`up`, `down`), a break loses those in flight and rejects requests that wait
  for an answer, the broker notices a break later or when the client connects
  again, and then publishes the last will. `Crash` ends a process at any point.
* `ClientConnection_proofs` - the theorems about `ClientConnection`.
* `VirtualAgv` - the virtual AGV: a tick visits the action state machines one by
  one (`TickMachine`), then the traversal (`AdvanceTraverse`), then the battery
  (`AdvanceBatteryCharge`). As the status a machine reports may make the controller
  call handlers, calls may come between these steps. `Linked` is what an action
  does to the vehicle when it has finished (load, pause, charge). The controller is
  there as far as it decides which calls come: the actions and edges of
  an order (`ReceiveOrder`, `ExecuteOrderAction`, `BeginEdge`, `CompleteOrder`), its
  cancelation (`CancelOrder`, `StopAgv`), instant actions.
* `VirtualAgv_proofs` - the theorems about `VirtualAgv`.
* `TopicObjects` - objects on topics as functions from paths to values, and rules
  that say of what kind the value at a path is and whether it must be there.
  `Validators11`, `Validators20`, `Validators21` are the generated validators of the
  three versions as sets of such rules, `Vda5050Types` the declarations of
  `vda-5050-types.ts`. They hold one definition per validated object and per
  interface, with the names of the types.
* `MessageFlow` - how objects pass from program to program: `publishTopic` adds the
  header and validates, `_dispatchMessage` drops what is invalid (master control) or
  lets it through (AGV), `_processOrder` and `_processInstantActions` validate by
  themselves, answer what is invalid with an error, and copy parts of
  orders into the state (`_acceptOrder`), which `_publishCurrentState` publishes.
  `AdapterUpdates` is `updatePartialState`. Each side has a version of its own.
  Other makes (`OtherPublishes`) send objects that are wrong at one path.
* `MessageFlow_proofs` - the theorems about `MessageFlow`.
* `MCAgvOrder`, `MCInstantActions`, `MCMasterOrders`, `MCStatePublication`,
  `MCClientConnection`, `MCVirtualAgv`, `MCMessageFlow` - instances for TLC, with
  one configuration per question.

### What is abstracted

* A node or edge object is the message that carried it and its sequenceId. Only
  stitching changes such an object (it appends actions), hence `actions`.
* INITIALIZING, RUNNING and PAUSED are ACTIVE, FINISHED and FAILED are ENDED: the
  controller never tells them apart for an order action.
* The checks that ask the adapter or the vehicle (route, deviation range, battery,
  emergency stop, operating mode, action executable) may fail for the orders in
  `Vetoable` at any time. Errors are kept only as far as stitching does: whether
  they refer to an action.
* A malformed order message is a rejected one, so `Msg` holds well-formed ones.
* actionIds are unique over the released parts of all messages, as VDA 5050
  demands (`OrdersAssumption`).
* The adapter is the environment. It answers each invocation in a step of its own,
  ends an action it was told to cancel or finish, does not report an edge as
  traversed while paused, and does not report it any more after `stopped`. It may
  report the first status of an action within `executeAction` or later
  (`env.defersStart`). Some actions end only when told to (`Action \ SelfEnding`).

* In `InstantActions` the order is `"none"`, `"idle"` (the AGV drives, or its
  node and edge actions have ended) or `"busy"` (actions are scheduled). The check
  of an adapter may fail for the actions in `Vetoable`; those in `Synchronous` may
  be ended by the adapter within its handler. A `factsheetRequest` ends after a
  publish and is an action that ends later.

* In `MasterOrders` master control follows a plan: orders in sequence, assigned as
  the doc of `assignOrder` demands (`MayAssign`): a new order has another orderId than the
  one before, an update a greater orderUpdateId, so that an order that was sent is assigned once more
  only as long as it is registered, or if its publication failed; cancelOrder
  actions one at a time, and the errors the AGV may report beside rejections. An order message is
  delivered or its publication fails. Two State messages are not lost: the last
  before and the first after an order arrives (`upToDate`); the code relies on them
  (comment at `controller/master-controller.ts:608`). If the AGV took
  two stitching orders without a State in between that arrives, the caches would not be merged;
  if it completed an order and took the next one, the first would never be reported.
  `onStateUpdate`, the changes counted by `onEdgeTraversing`, and the pause button
  (which may hold an order for ever) are left out.

* In `StatePublication` a State message is the states and errors of instant actions.
  Messages of quality of service 0 may be lost on the way to the AGV; a State
  that was written arrives, in order, but is dropped while offline. Only the messages not in `Alone` overlap on
  the way to the AGV.
* In `ClientConnection` a session is clean and a topic is a name; the object in a
  Connection message is its connection state. An AGV client never subscribes to
  `connection` nor a master control client to `order` (`Inbound`).
* In `VirtualAgv` an edge takes `Distance` ticks of driving and an action `Duration`
  ticks in each status; the charge is a level that one tick of driving lowers by one and one tick
  of charging raises by one.
* In the validators, texts, formats and descriptions are abstracted: a value has a
  JavaScript type and, where rules tell values of a type apart, an identity (a
  literal of an enumeration, or a number from either side of each bound). Of an
  array one element is shown, which stands for any; the order in which
  rules are tested, which decides the text of the error only, is left out.

## Runs

| Run | Shows |
|---|---|
| `AgvOrder` | the properties below hold, and `OrderExecution` is implemented, for orders that are accepted, stitched twice, repeated, vetoed, replaced and canceled twice; with pausing, with and without a pause button, for an order that is not canceled |
| `InstantActions` | the properties below hold for three messages with SOFT, NONE and HARD actions, some rejected, some ending at once; for a cancelation among other actions, sent twice, over two orders; and for one that HARD actions delay until its order has ended or the next one has begun |
| `MasterOrders` | the properties below hold for orders that are assigned twice, fail to be published, are stitched twice, vetoed, new, or canceled, whatever State messages are lost |
| `StatePublication` | an action that may be rejected and a message that is invalid, with a State published at any time, a broken connection, an update of errors by the adapter and an order accepted in between |
| `ClientConnection` | an AGV and a master control that start, twice in all, with a break or a crash at any point, and two subscriptions on a topic shared with the tracking of connections and on another one |
| `VirtualAgv` | two requests for a pause and its end, an order with a load to pick and an action on its edge, an order that charges the battery, cancelation, a battery that runs low |
| `MessageFlow` | two messages in a row of two peers in any pair of versions: full objects, least ones, and all those that lack one optional part or have another literal; objects of other makes with one wrong or missing value at any path |
| `ParallelActions` | violates `SingleLocus`: two NONE actions that end one after the other traverse the trailing edge twice |
| `SynchronousEnd` | violates `ProcessesPending`: the action behind a `stateRequest` in the same message is skipped and the loop leaves the queue |
| `UnrelatedError` | violates `RejectedNotExecuted`: any error without references passes for a rejection of the order assigned last |
| `CanceledGoesOn` | violates `EndedStaysEnded`: an action given to the virtual AGV but not started is failed by cancelOrder and finishes nevertheless |
| `InvalidOrder` | violates `InvalidAnswered`: an invalid order whose ids have wrong types is answered by no State, or blocks every later one |

The five violations are disagreements between the code and its own comments;
`PROJECT.json` quotes both. The passing runs exclude them, and the deviations
listed further below, by a choice of constants that the MC modules name:
`SerialMsg` has a NONE action, on a node as on an edge, parallel to no other action, and
no actions on the node where an order is stitched; `SoundScenarios` never combines cancelation with pausing
or with an adapter that defers the start of actions; an action of `SoundInboxes` that may
end within its handler is HARD or the last one of its message, and of two `cancelOrder`
actions none waits behind a HARD one (a single one does); `SoundPlans` has no
error without references, and the orders canceled have neither a horizon nor actions on
their last node; `Alone` and `Trusted` are explained with the bounds.

Properties of `AgvOrder`:

* `SingleLocus` - traverseEdge is not invoked again until edgeTraversed is called,
  whichever of the actions of a node or an edge ends last.
* `RouteMatchesPosition` - node and edge states are exactly the route ahead of the
  last node, whatever messages the route was assembled from.
* `NoLostContinuation` - an active order always waits for the adapter, for the end
  of a pause, or for a new base at the end of its base.
* `BlockingRespected` - HARD actions run by themselves and in the order of the list.
* `StopTraverseGuarantee`, `CancelNeverStalls`, `CancelCompletes` - cancelation
  stops the AGV once, after all actions have ended, always waits for an answer
  that is owed, and finishes.
* `NothingStartsAfterDeletion` - no action or edge of a canceled order starts.
* `ExecutedOnce` - no action is executed twice or after it was reported ended.
* `BaseCompletes` - the base of an active order is completed eventually.
* `ImplementsOrderExecution` - the refinement: `OrderExecution` with the substitution
  of `AgvOrderRefinement`.

Properties of `InstantActions`:

* `ProcessesPending` - a loop over the queue visits actions that are there and have
  not been executed, although the queue shrinks under it.
* `HardAlone` - a HARD action is executed when all actions before it have ended, and
  none behind it starts before it has ended, over the boundaries of messages.
* `QueueNeverStalls`, `InstantActionsEnd` - between handlers, every action that may
  run has been executed; every queued action ends.
* `OneCancelation` - stopTraverse is invoked for one cancelOrder at a time, and the one
  that is executed is the one that finishes, although it was checked on arrival.

Properties of `MasterOrders`:

* `SameRoute` - the cache of the order the AGV executes holds the route and the
  actions the AGV has, although each side stitches by itself, and no node is
  reported that the AGV has not reached.
* `EventsAdvance` - node and edge events never go back, also when a stitching order
  takes over from the order before it.
* `ReportedOnce`, `ProcessedTruly`, `RejectedNotExecuted` - `onOrderProcessed` is
  invoked once for an order, and what it says is true.
* `OrdersReported` - every order is reported eventually or taken over by another.

Properties of `StatePublication`:

* `ToldBeforeRemoved` - the end or rejection of an action stays in the state until a
  State has told it, although publishes are counted when they complete.
* `StateCleaned` - and is removed afterwards.
* `ReceivedReported`, `EventsTrue` - every action the AGV received is reported by an
  event, and what the event says is true.

Properties of `ClientConnection`:

* `SubscriptionsMatchHandlers` - once what a connected client sent has arrived,
  the broker forwards exactly the topics with a handler.
* `StoppedNotOnline`, `TrackingConverges` - the retained connection state of a
  stopped AGV is not ONLINE once the broker has given up its sessions; a
  started master control ends up with the retained states.
* `StopCompletes`, `RequestsSettle` - stop ends, and so does every promise of
  subscribe and unsubscribe.

Properties of `VirtualAgv`:

* `DrivesSafely` - the vehicle drives only on an edge, not paused, not charging, and
  at most one tick with a low battery.
* `NothingProgressesWhilePaused`, `ActionsEnd`, `EdgesTraversed` - pauses hold
  everything and are over when they end; actions and edges end, unless the vehicle is
  paused for ever, charging, low, or has failed.

Properties of `MessageFlow`:

* `DeclaredAccepted` - an object the types declare, published by the library,
  is not refused by its own validator.
* `StatePublishable` - the State of the AGV is valid, whatever orders it copied
  parts of, and whatever errors it holds.
* `ReadsDefined` - what the controllers read of a validated object without a test is there.
* `PeersUnderstand` - peers handle each other's messages iff their versions are equal.

Bounds: each order message is received once (`inbox`), each cancelOrder is sent
once, `MaxPauses` pauses. The five messages of `SerialMsg` cover every mode of
`_processOrder`; their action lists cover every branch of the blocking types (a
segment before a HARD action, a HARD action at the end, in front, and alone, an
edge with a segment followed by a HARD action, an action that only ends when it is
canceled). The messages of `SoundInboxes` arrive
in any order and at any length of the queue: with a segment in front of a HARD
action and behind it, two HARD actions in a row, and a SOFT action with a NONE one; a cancelOrder
waits for up to three HARD actions, while its order ends and another one begins.
The plan of `MCMasterOrders` with five orders stitches twice, with a veto
possible in between, and then replaces the order; the other one cancels two orders
in a row. Two orders (`MaxOrders`) suffice for one to follow a canceled one. Two cancelOrder actions suffice for one to meet a pending other; two
pauses for a node to be suspended twice. A system whose orders are all received
and executed may stop, so deadlock is not checked.

In `StatePublication`, `PublishCount` is 2, so that an action is counted, stays, and
is then removed; one break, one update of errors and one order come between any two
of these; at most `MaxStates` = 2 States are on the way, so that one that is old
meets one that is new. `Alone` holds the invalid message: it is not under way together
with another one. In `ClientConnection`, `MaxStarts` = 2 bounds all starts
together and `MaxBreaks` = 1 breaks and crashes together: either both clients
start or one of them starts twice, and a break meets every step of either. In `VirtualAgv`, an order has
two edges (`Legs`) of 3 ticks (`Distance`): with `Full` 5 and `Threshold` 2 the
first one is traversed and the battery runs low on the second one, unless it
has been charged in between; `Recovered` 3 keeps the error for a while of charging,
and `Duration` 2 is the least that a pause can interrupt.
In `MessageFlow`, `MaxMessages` is 2, so that an order or an update by the adapter
precedes the State it shows in, and `MaxVariants` 1 lets one of the objects deviate
from the full and the least one; `Trusted` excludes wrong ids of orders of other
makes, the subject of `InvalidOrder`. `OddValues` has a value of each type and
numbers beyond the bounds.

Fairness: handlers run to completion: weak fairness on `ProcessNext`. The adapter contract obliges the adapter to report the end of an
action, an edge as traversed, and the stop of the AGV: weak fairness on `EndAction`
over all scheduled actions, on `EdgeTraversed` and on `Stopped`. An operator ends
a pause: weak fairness on `StopPause` while paused. Nobody has to send an order, to
cancel or to pause. In `MasterOrders`, State messages are published at intervals:
weak fairness on `DispatchState` (`StateArrives`, the only step that sets
`upToDate`); order messages and cancelOrder actions that were sent arrive, a publication
that is going to fail fails. `EndAction` is enabled only for self-ending actions and those
that were told to end, so `BaseCompletes` excuses an order that waits for a lasting
action.
In `StatePublication`, the network and the timer go on: weak fairness on the
receipt of messages, the completion of publishes, the end of actions, publication
by the timer and reconnection. In `ClientConnection`, the
transport reconnects, and the broker and the clients handle what they received;
nobody has to start, subscribe or stop. In `VirtualAgv`, the
interval timer goes on ticking and a stop ordered by the controller is carried out.
`MessageFlow` has safety properties only and states no fairness.

The modules' `TypeOK` (`SystemTypeOK` in `MasterOrders`) holds in each of these
runs too; it is checked with `AgvOrder` only, for which it is a theorem, and may be
added to any configuration.

## Known deviations

Behaviour in which the code differs from its docs or from what a reader
expects, beside the findings of the five runs. Where a substitution of a constant
is named, the passing run with it shows the violation.

* An adapter that defers the first status of an action: cancelOrder fails actions
  it has already been given and stops the AGV while they are scheduled
  (`agv-controller.ts:1610`). `Scenarios <- DeferringScenarios` violates
  `StopTraverseGuarantee`; `CanceledGoesOn` shows the same with the virtual AGV.
* A node suspended by a pause survives cancelation and is processed by the
  stopPause after it (`agv-controller.ts:2425`). `Scenarios <- PausingScenarios`
  violates `NothingStartsAfterDeletion`.
* Actions on the first node of a stitching order never start if the base end has been
  completed before (`agv-controller.ts:1566`). `Orders <- StitchingOrders`,
  `Msg <- StitchingMsg` violate `NoLostContinuation`.
* cancelOrder behind a HARD action may meet no order, or another one than it was sent
  for, though a comment says that an active order has been asserted
  (`agv-controller.ts:1607`): the run `InstantActions` has behaviours of both kinds. Two of
  them behind a HARD action are executed together, as neither was pending when the
  other one was checked, and the first one never ends: `Inboxes <- DelayedInboxes`,
  `Synchronous = {}` violate `OneCancelation` and `InstantActionsEnd`.
* An order canceled during the actions of its last node is reported as
  processed before cancelOrder has ended, and not as canceled
  (`master-controller.ts:725`). `Plans <- LastNodePlans` violates `ReportedOnce`.
* A new order after the cancelation of one with a horizon is merged with the old one
  in the caches of master control (`master-controller.ts:617`). `Plans <- HorizonPlans`
  violates `SameRoute`.
* Two instant actions messages initiated while one is on the way share a
  reference (`master-controller.ts:420`), and several validation errors of one
  State are assigned to references in reverse (`:1050`). `Alone = {}` violates
  `EventsTrue`.
* Master control tells a new validation error by their number in consecutive States
  (`master-controller.ts:1046`). If the AGV removes the error of one message
  (`agv-controller.ts:1913`) and rejects another one before its next State, the number is
  the same: `onActionError` is never invoked for the second message, although its doc says
  "invoked whenever an error is reported for an instant action that is rejected"
  (`:236`), and its caches stay. It takes no break, no loss and no overlap of messages:
  `Msg <- MCInvalidMsg`, `Invalid = {"m1", "m2"}`, `Alone = {"m1", "m2"}`,
  `Vetoable = {}` violate `ReceivedReported`.
* The virtual AGV starts no edge with a low battery and reports no error if it
  runs low on arrival (`virtual-agv-adapter.ts:1183`, doc at `:383`): hence the
  exception `IsLow` in `EdgesTraversed`. An edge action without `ON_TERMINATE`, such
  as noop, throws in the tick when its edge ends (`:1523`): `failed`. stopPause by
  the controller resumes machines, stopTraverse while paused leaves them.
* After a reconnection the retained connection state of an AGV stays
  CONNECTIONBROKEN, as `onStarted` is not invoked again although its doc
  says "connected or reconnected" (`client.ts:650`): `TrackingConverges` says what
  is tracked, not that it is ONLINE. Unsubscribing the same id again throws
  within the promise, where the doc says that it is ignored (`client.ts:519`).
* Rejections counted for removal are found by the identity of the error object; those in the
  state when `updateErrors` or `updatePartialState` clones it stay for ever
  (`agv-controller.ts:1908`): `StateCleaned` speaks of counted ones.
* ControlPoint.weight is optional in the types and required by the validator of
  1.1, an order needs a node, and the list of instant actions has another name in
  1.1: `Required` and `Weighed` in `MessageFlow`. There is no validator for the
  factsheet in 1.1 and none for the short forms of versions that `client.ts:1306`
  admits.
* Comparing errors reads `errorReferences`, which is optional
  (`agv-controller.ts:1268`); an adapter that passes errors without it makes a later
  comparison throw. NaN becomes null in a published object.

## Proofs

| Module | Proved | Hypotheses |
|---|---|---|
| `AgvOrder_proofs` | `TypeOK` | none |
| | `SingleLocus`, `RouteMatchesPosition`, `StopTraverseGuarantee`, `CancelNeverStalls`, `NothingStartsAfterDeletion`, `ExecutedOnce` | `NoneActionsAlone`, `PromptCancelation` |
| | `BlockingRespected` | the same |
| | `NoLostContinuation` | the same and `StitchesWithoutActions` |
| | `ImplementsOrderExecution` | `NoneActionsAlone`, `PromptCancelation` |
| `InstantActions_proofs` | `TypeOK`, `ProcessesPending`, `HardAlone`, `QueueNeverStalls` | `EndsInOrder` |
| | `OneCancelation` | `EndsInOrder`, `CancelsApart` |
| `ClientConnection_proofs` | `SubscriptionsMatchHandlers`, `StoppedNotOnline` | none |
| `VirtualAgv_proofs` | `TypeOK`, `DrivesSafely`, `NothingProgressesWhilePaused` | none |
| `MasterOrders_proofs` | the steps of the AGV are those of `AgvOrder` (`SystemRunsAgv`) | none |
| | `RejectedNotExecuted` | `UniqueIdentities`, `ErrorsRefer` |
| | `SameRoute`, `EventsAdvance`, `ProcessedTruly` | the same, `NoneActionsAlone`, `PromptCancelation`, `CanceledWithoutHorizon` |
| | `ReportedOnce` | the same, `StitchesWithoutActions`, `CanceledWithoutEndActions`, `UniqueCancels` |
| `StatePublication_proofs` | `TypeOK`, `ToldBeforeRemoved` | none |
| | `EventsTrue` | `UniqueActions`, `InvalidAlone` |
| `MessageFlow_proofs` | `PeersUnderstand`, `ReadsDefined` | none |

Each theorem holds for every value of the constants that the `ASSUME` of its module
allows: all orders, messages, actions, topics, clients and bounds.

### Order execution

The hypotheses on the constants are the shape of what is sent and how the adapter
answers:

* `NoneActionsAlone` - a NONE action is parallel to no other action of its list (it has
  the list to itself or follows a HARD action), and no other order lists actions at its
  node, as stitching would join the lists;
* `PromptCancelation` - where orders may be canceled, the adapter starts actions
  at once and there is no pause;
* `StitchesWithoutActions` - a message that can be stitched to the base of another one
  lists no action at the stitching node.

The run `ParallelActions` and the substitutions `DeferringScenarios` and
`PausingScenarios` show that the first two are needed. The third one excludes the
continuation that the code loses by its own account (`agv-controller.ts:1566`), which
the messages `StitchingMsg` of `MCAgvOrder` lead to; it is used for `NoLostContinuation`
and, by way of the same invariant, for `ReportedOnce` of `MasterOrders`. All three are true of the instance of the run `AgvOrder`.

The properties are not inductive: that one edge is traversed says nothing about which
action may end next and continue the route. The inductive invariant is

    IInv == TypeOK /\ OrderInv /\ RouteInv /\ CancelInv

* `OrderInv`: the order is assembled from messages already received, its places
  carry the actions of these messages, actions of messages still in the inbox are
  ABSENT, and a scheduled action is a not yet ended action of the current order.
* `RouteInv`: the order is inactive, or suspended at its first node with every
  action WAITING, or en route: all of the route before the last node has ended,
  everything after the place where the adapter works is WAITING (`Ahead`), and the
  scheduled actions are one segment of that place.
* `CancelInv`: while canceling, nothing is WAITING, and either the AGV is being
  stopped and nothing is scheduled, or every scheduled action was told to end.

`InitInv` and `NextInv` (one lemma per action, one step per conjunct it can
disturb) give `Invariance`; the theorems follow from `IInv` and, for the two action
properties, from a lemma on what each step may schedule. TLC checked `IInv` on
the instances of the passing run before it was proved.

`BlockingRespected` adds `SettledNow` to it: all actions of the place before the
segment of a scheduled one have ended.
`NoLostContinuation` needs two parts more. `OnwardNow` is what it means not to be
lost: with nothing scheduled and nothing traversed, the place the AGV is at is done,
and either it is the end of the base or the node waits for the end of a pause.
`Linked` and `Origin` are about how the code finds the way onward: the edge
behind a node is looked up by the nodeId of that node, so the messages an order was
assembled from must agree on the nodes where they were stitched.

That `AgvOrder` implements `OrderExecution` is proved step by step: the initial state
maps to the initial state (`InitImplements`), and each action to one step of
`OrderExecution` or to a stutter (`NextImplements`): `EndAction` to
`End`, `EdgeTraversed` to `Advance`, `CancelOrder` to `Cancel`, and so on. One invariant more was needed,
which the safety properties do not show: `CancelRoute`, that an order canceled while the
AGV drives either has its whole route from the edge on or only the end node of
that edge, so that the callbacks of the cancelation shorten it to that node.

### Instant actions

* `EndsInOrder` - an action that the controller or the adapter ends within the
  handler that executes it is a HARD one, or the last one of a message when
  there are no HARD ones: nothing is left for the loop that it is removed from.
* `CancelsApart` - HARD actions may delay a `cancelOrder`, but where there are two, they
  are in messages of their own and there is no HARD action.

Both are true of the messages of the run `InstantActions`. The run `SynchronousEnd` shows
what happens without the first (the loop skips an action and reads beyond the
queue), the substitution `DelayedInboxes` without the second (two cancelations
are under way).

    IInv == TypeOK /\ Unique(queue) /\ Loops(queue, instantStates, loops)
            /\ Fresh /\ Owed /\ AtTheEnd /\ InOrder

* `Loops` describes the queue in the middle of a handler: the actions that may
  run first are executing up to the index of the innermost loop, those behind
  are not, and the loops below it have nothing left to visit. Between handlers it
  says that the queue does not stall.
* `Fresh`, `Owed`: actions of messages not yet received are not queued; the answers the
  adapter owes are of queued actions.
* `AtTheEnd`, `InOrder`: what will end at once is HARD or last in the queue, because
  all messages received belong to one inbox that `EndsInOrder` speaks of.

`CancelInv` carries the check of `cancelOrder` to its execution: as long as one is
pending (`Pending`), no cancelation is under way and there is no second one; once it
is executed, `cancelContext` is the action that finishes. Nothing is said of the
order, which may have ended or be another one by then.

### Connections

    Inv == Types /\ \A c : Orderly(c) /\ Subscribed(c) /\ \A a : Honest(a)

Both properties are about the state once messages have arrived; the invariant says it
while they are on their way. `Subscribed`: the last packet in flight that mentions a
topic, or else the session of the broker, agrees with the handlers (`InSync`), so
that it does not matter how subscriptions, unsubscriptions and the resubscription
of a connect interleave. `Honest`: the last connection state in flight, or else the one
retained, is not ONLINE once the client is stopping (`SaysGoodbye`), and
the broker retains ONLINE only as long as it holds a session whose end it will
announce. `Orderly`: nothing is in flight without a connection, and DISCONNECT is the
last packet.

### Virtual AGV

`VirtualAgv_proofs` proves for all actions, orders, distances, durations and
batteries that `VirtualAgvAssumption` allows, without further hypotheses:

* `DrivesSafelyHolds` - `Spec => []DrivesSafely`;
* `NothingProgressesWhilePausedHolds` - the action property of the same name;
* `TypeCorrect` - `Spec => []TypeOK`, with at most one machine for an action.

Its inductive invariant is

    IInv == FlagsInv /\ VehicleInv /\ ControllerInv /\ MachinesInv

* `VehicleInv` is `DrivesSafely` with types.
* `ControllerInv`: an edge under way belongs to an order that has a leg left for it
  or is canceled (`OnOrder`); without it an order could be completed, and the
  next one received, with an edge under way.
* `MachinesInv`: the machines have distinct actions; the action of an order with a
  machine has a status, so that it is not executed a second time; a paused
  machine knows the status to resume; and while the vehicle is paused every
  machine is told to pause, except for `startPause` and `stopPause` themselves. The
  last part carries `NothingProgressesWhilePaused`.

A tick replaces or removes a machine and may replace all others, which the lemmas
`ReplaceSound`, `RemoveSound`, `AppendSound` and `MapSound` on lists say in general.

### Orders in the master controller

* `UniqueIdentities` - different orders differ in orderId or orderUpdateId;
* `ErrorsRefer` - the AGV reports no error without references;
* `CanceledWithoutHorizon` - where a plan cancels orders, they have no horizon;
* `CanceledWithoutEndActions` - nor do they have actions on their last node;
* `UniqueCancels` - each cancelOrder action of a plan has an actionId of its own;
* `NoneActionsAlone`, `PromptCancelation` and `StitchesWithoutActions` of `AgvOrder`.

All are true of the run `MasterOrders`. The run `UnrelatedError` shows what happens
without the second, the substitutions `Plans <- HorizonPlans` and
`Plans <- LastNodePlans` without the third and the fourth. Actions are identified by
actionId throughout the library, so that it is the plan that has to keep
`UniqueCancels`. `SystemRunsAgv` says that `System` satisfies `Init /\ [][Next]_vars`
of `AgvOrder`: whatever master control sends, every step is a step of the AGV or
leaves its state alone, so that invariants of `AgvOrder` hold in the composition.
`RejectionInv`, the invariant behind `RejectedNotExecuted`, says of an order in
`state.errors`, and of one reported as rejected, that it is `Refused`: the AGV has
received it, so that it will not take it up later, and it is not the current order. An order
that was accepted is never rejected afterwards: it is not received again, and no other
order has its identity.

The other theorems rest on

    MasterIInv == MasterFacts /\ LineInv
    OnLine(f, rk, tip) == Core(registered, f, rk, tip) /\ Tip(f, tip) /\ CacheInv(f)

where `LineInv` says that there are `f`, `rk` and `tip` with `OnLine(f, rk, tip)`. `f`
tells where following the last caches ends (`LastActive`, a function that is
recursive over the caches; `rk` decreases along the chain and shows that the function is well defined),
and `tip` is the order that arrived last and has a cache.

* `Core`: the orders with a cache stand in a line - at most two that arrived, the tip
  and the one before it, then those on the order topic, each with the one sent before it
  as its last active one, and the one whose publication is going to fail. This is why
  merging with a single last cache is enough, and it needs that a State arrives
  before the next order (`upToDate`).
* `Tip`: the tip is the AGV's order, or was rejected and the one before it is; if there are
  two caches to merge, or one to remove, a State message is still to come.
* `CacheInv`: what the cache of the AGV's order will be when it is merged (`Merged`) has the
  places, actions and base of the AGV's order (`FitsTo`) and is not ahead of the AGV
  (`InPos`). None of the properties is inductive without it: a cache that
  has not been merged yet knows only the part of the route that its message carries.
* `ActiveOK`: an active order has a cache, and an order whose State has been dispatched
  has one only while it is active.
* `HorizonInv`, `EndsAsSent`, `HorizonAhead`: an order with a horizon is never
  canceled and keeps its last node ahead, so that it is active although its base is completed.

`AgvInv` is the invariant `IInv` of `AgvOrder` and what else is known of the AGV: the
merged cache follows the AGV's `currentOrder` through `_acceptOrder`, which the lemmas on
`Merged`, `FitsTo` and `Stitched` compare field by field. `ProcessedTruly` follows
from `Verdict`: what `_isOrderProcessed` reads from the cache is what the AGV has done.

`ReportedOnce` tells of reports and of cancelation, and needs what ties them to the
caches of master control on either side:

    ReportIInv == MasterIInv /\ CanceledFacts /\ Reports /\ CancelFacts

* `Reports`: an order that was reported has arrived and is marked `processed` as long
  as it has a cache, and one that the AGV has rejected and that has a cache was
  not reported yet. It implies that there is one report, because the mark is kept when a
  stitching order takes over, and a rejected order is never taken up.
* `Cancelation`: `_isOrderCanceling` holds in master control exactly for the order that was
  canceled, while it has a cache, although the two learn of it at different
  times: the status is looked up in the last State, the cache of the
  cancelOrder action is removed after it. A finished cancelation leaves no active order
  and is dispatched before another order arrives (`upToDate`).
* `Initiation`: one cancelOrder action is under way at most, and those still planned have
  not been sent. That only the first one is looked up (`master-controller.ts:888`)
  therefore makes no difference here.
* `CancelTruth`: what was reported as canceled was, and what was reported as completed
  was not.
* `CanceledFacts`: while it is being canceled an order has nodes ahead (`CancelsAhead`), so
  that it is not taken for completed before cancelOrder has ended. This
  is where actions on the last node do harm (`QuietEnds`, `EndsEmpty`), and where the
  invariant `CourseInv` of `NoLostContinuation` is needed: an order that is
  active and has no actions at its end has not reached it.

### State publication

* `UniqueActions` - an actionId is used once, and a message has actions;
* `InvalidAlone` - a message that is invalid is not under way together with another one.

The run `StatePublication` satisfies both; the substitution `Alone = {}` shows that
`EventsTrue` fails without the second. The inductive invariant is

    IInv == Types /\ Told /\ Journey /\ Checking /\ Truth /\ References /\ EventsTrue

* `Told`: while the AGV is online, every end and every rejection has been told by a
  State; a publish that is counted removes only what one has told. It suffices for
  `ToldBeforeRemoved`, without hypotheses.
* `Journey`, `Checking`: an action is with the message that carries it, being checked,
  or in the state, and has a cache exactly as long as master control waits for it.
* `Truth`: every State on its way is true - a status or an error in it is what became
  of the action at the time, and ends do not change afterwards - and, for an action
  that is accepted, a status comes before any lone error.
* `References`: an invalid message has the highest reference given so far; the number
  of validation errors along the States on their way (`Rises`) goes above that of the
  references given at most once, by one, and only for that message. This is what makes counting
  errors identify the message; it says that no other message is blamed, not that
  the right one is found in time, which a second invalid message refutes
  (see the known deviations).

The operators of the invariant take values (a fate, the statuses, a list of States)
rather than variables, so that a lemma relates them before and after a step.

### Messages

`MessageFlow_proofs` needs no hypotheses: objects, errors, updates of the adapter and
the number of messages are arbitrary, and so are the objects other makes send. Its
invariant is

    FlowInv == version \in [Peers -> Version] /\ Defined(state)
               /\ MessageOK(wire, version) /\ HandledOK /\ PeersUnderstand

* `MessageOK`: what a peer has put on the wire is valid in the version of that peer,
  and is still so as the receiver parses it, because no value is one that JSON lacks
  (`Defined`, kept by whatever the State is merged from).
* `HandledOK`: what was handled is valid in the version of the receiver.

`ReadsDefined` follows from `HandledOK` and `ReadsRequired`: in each of the three
validators a rule requires every path that the controllers read
without a test, as soon as the object holds the part it is in. For `PeersUnderstand` the
rules for headers and versions are enough. The other two properties are about every rule
of three validators and every declaration, tables of which TLC compares all
entries: `DeclaredAccepted` and `StatePublishable` have no constants that a theorem
could generalise them over.

### Only model-checked

Liveness under fairness and ENABLED are out of the prover's reach, so that all
temporal properties (`CancelCompletes`, `BaseCompletes`, `InstantActionsEnd`,
`OrdersReported`, `TrackingConverges`, `StopCompletes`, `RequestsSettle`, `ActionsEnd`,
`EdgesTraversed`, `ReceivedReported`, `StateCleaned`) stay with TLC, as do
`DeclaredAccepted` and `StatePublishable` of `MessageFlow`. Induction over data and RECURSIVE operators are out of reach as well; the modules avoid the latter, and what
they need of the former is `KeptFacts`, proved from the least counterexample
(`LeastNumber`).

## Plan

Every component with behaviour of its own is modelled, and every safety property the
runs check is proved but for the two that compare tables. What is left:

1. Reports of an adapter from within `cancelAction` (`agv-controller.ts:1629`).

## Not modelled

`AgvIdMap` and the MQTT topic utilities (containers and string checks); the
visualization timer and the visualization of the virtual AGV; navigation, positions
and speeds, `initPosition`, load handling devices and the estimates of execution
times of the virtual AGV; factsheets beyond their validation; extension topics;
validation of options, logging; the MQTT library and the broker beyond what
`ClientConnection` says of them; scripts, examples and tests.
