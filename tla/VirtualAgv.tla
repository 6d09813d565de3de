----------------------------- MODULE VirtualAgv -----------------------------
(***************************************************************************)
(* The virtual AGV of src/adapter/virtual-agv-adapter.ts: a tick advances  *)
(* the state machine of every action, then the traversal of an edge, then  *)
(* the battery.  Handlers of the adapter are called by the AGV controller, *)
(* between ticks when a message arrives and within a tick when a status or *)
(* a traversed edge is reported, so a tick is several steps here.          *)
(*                                                                         *)
(* Positions are abstracted to the ticks an edge takes, charge to a level. *)
(* The controller appears as far as it decides which handlers are called:  *)
(* the actions of an order, its edges one after the other, cancelation.    *)
(***************************************************************************)
EXTENDS Naturals, Sequences, FiniteSets, SequencesExt

CONSTANTS
    Instant,     \* instant actions, each sent once
    Orders,      \* orders, each sent once
    ActionType,  \* [type, scope, order, stopDriving] of every action
    Legs,        \* edges of an order
    Distance,    \* ticks of driving an edge takes
    Duration,    \* ticks an action is INITIALIZING or RUNNING
    Full,        \* battery level at 100 percent
    Threshold,   \* lowBatteryChargeThreshold
    Recovered,   \* level at which batteryLowError is removed
    Cancelable   \* orders that master control may cancel

Actions == DOMAIN ActionType
OrderActions(o) == {a \in Actions : ActionType[a].order = o}
NoOrder == "none"

ASSUME VirtualAgvAssumption ==
    /\ Instant = OrderActions(NoOrder) /\ NoOrder \notin Orders
    /\ Cancelable \subseteq Orders
    /\ Legs \in Nat /\ {Distance, Duration} \subseteq Nat \ {0}
    /\ {Full, Threshold, Recovered} \subseteq Nat
    /\ Threshold <= Recovered /\ Recovered <= Full

VARIABLES
    machines,   \* _actionStateMachines, in the order of execution
    vehicle,    \* _vehicleState
    toDrive,    \* ticks to the end of the edge of _traverseContext; 0: none
    lowError,   \* _batteryLowError is set
    tickPos,    \* machine the tick visits next; 0 between ticks
    failed,     \* a tick has thrown: the process has ended
    reported,   \* action status in the state of the controller
    errorShown, \* batteryLowError is in the state of the controller
    order,      \* [id, canceling, legs]: the active order of the controller
    received    \* orders received so far

adapterVars    == << machines, vehicle, toDrive, lowError, tickPos, failed >>
controllerVars == << reported, errorShown, order, received >>
vars           == << adapterVars, controllerVars >>

Ended  == {"FINISHED", "FAILED"}
Status == {"WAITING", "INITIALIZING", "RUNNING", "PAUSED"} \cup Ended
Fresh  == "FRESH"   \* a machine that has not been ticked, an action not sent

Type(a) == ActionType[a].type

Init ==
    /\ machines = <<>>
    /\ vehicle = [driving |-> FALSE, paused |-> FALSE, charging |-> FALSE,
                  loaded |-> FALSE, charge |-> Full]
    /\ toDrive = 0 /\ lowError = FALSE
    /\ tickPos = 0 /\ failed = FALSE
    /\ reported = [a \in Actions |-> Fresh]
    /\ errorShown = FALSE
    /\ order = [id |-> NoOrder, canceling |-> FALSE, legs |-> 0]
    /\ received = {}

-----------------------------------------------------------------------------
(***************************************************************************)
(* Action definitions.  Those without ON_CANCEL are instant actions.       *)
(***************************************************************************)
OnInit(t) ==
    CASE t \in {"pick", "drop"} -> "INITIALIZING"
      [] t \in {"noop", "startCharging", "stopCharging"} -> "RUNNING"
      [] OTHER -> "FINISHED"

NextStatus(s) == IF s = "INITIALIZING" THEN "RUNNING" ELSE "FINISHED"

\* actionExecutable, tested when the action is executed.
Executable(a) ==
    CASE Type(a) = "pick" -> ~vehicle.loaded
      [] Type(a) = "drop" -> vehicle.loaded
      [] Type(a) = "startPause" -> ~vehicle.paused
      [] Type(a) = "stopPause" -> vehicle.paused
      [] Type(a) = "startCharging" -> ~vehicle.charging /\ ~(a \in Instant /\ order.id # NoOrder)
      [] Type(a) = "stopCharging" -> vehicle.charging
      [] OTHER -> TRUE

\* Fault (DrivesSafely): pausing lets the vehicle roll on.
LinkedWithoutStop(t, v) ==
    CASE t = "pick" -> [v EXCEPT !.loaded = TRUE]
      [] t = "drop" -> [v EXCEPT !.loaded = FALSE]
      [] t = "startPause" -> [v EXCEPT !.paused = TRUE]
      [] t = "stopPause" -> [v EXCEPT !.paused = FALSE]
      [] t = "startCharging" -> [v EXCEPT !.charging = TRUE]
      [] t = "stopCharging" -> [v EXCEPT !.charging = FALSE]
      [] OTHER -> v

\* linkedState of FINISHED: what an action does to the vehicle when it ends.
Linked(t, v) ==
    CASE t = "pick" -> [v EXCEPT !.loaded = TRUE]
      [] t = "drop" -> [v EXCEPT !.loaded = FALSE]
      [] t = "startPause" -> [v EXCEPT !.paused = TRUE, !.driving = FALSE]
      [] t = "stopPause" -> [v EXCEPT !.paused = FALSE]
      [] t = "startCharging" -> [v EXCEPT !.charging = TRUE, !.driving = FALSE]
      [] t = "stopCharging" -> [v EXCEPT !.charging = FALSE]
      [] OTHER -> v

SetPause(ms, p) == [i \in DOMAIN ms |-> [ms[i] EXCEPT !.pause = p]]

\* _startPause and _stopPause reach the other machines if the mode changes.
Others(t, ms) ==
    CASE t = "startPause" /\ ~vehicle.paused -> SetPause(ms, TRUE)
      [] t = "stopPause" /\ vehicle.paused -> SetPause(ms, FALSE)
      [] OTHER -> ms

-----------------------------------------------------------------------------
(***************************************************************************)
(* The handlers of the adapter.                                            *)
(***************************************************************************)

Machine(a) ==
    [id |-> a, status |-> Fresh, onPause |-> Fresh, elapsed |-> 0,
     terminate |-> FALSE, cancel |-> FALSE,
     pause |-> Type(a) \notin {"startPause", "stopPause"} /\ vehicle.paused]

ExecuteAction(a) ==
    IF Executable(a)
    THEN /\ vehicle' = IF ActionType[a].stopDriving THEN [vehicle EXCEPT !.driving = FALSE]
                       ELSE vehicle
         /\ machines' = Append(machines, Machine(a))
         /\ reported' = [reported EXCEPT ![a] = IF a \in Instant THEN Fresh ELSE "WAITING"]
    ELSE /\ reported' = [reported EXCEPT ![a] = "FAILED"]
         /\ UNCHANGED << machines, vehicle >>

\* cancelAction for every machine in as that can be canceled, and
\* finishEdgeAction: the machine acts on its next tick.
CancelActions(as) ==
    machines' = [i \in DOMAIN machines |->
                   IF machines[i].id \in as THEN [machines[i] EXCEPT !.cancel = TRUE]
                   ELSE machines[i]]

FinishEdgeActions(ms, as) ==
    [i \in DOMAIN ms |-> IF ms[i].id \in as THEN [ms[i] EXCEPT !.terminate = TRUE] ELSE ms[i]]

TraverseEdge == toDrive' = Distance

\* _stopPause without a context leaves the machines paused.
StopTraverse ==
    /\ toDrive' = 0
    /\ vehicle' = [vehicle EXCEPT !.driving = FALSE, !.paused = FALSE]

-----------------------------------------------------------------------------
(***************************************************************************)
(* The tick.                                                               *)
(***************************************************************************)

TickBegins ==
    /\ tickPos = 0 /\ ~failed
    /\ tickPos' = 1
    /\ UNCHANGED << machines, vehicle, toDrive, lowError, failed, controllerVars >>

\* Fault (ActionsEnd): a machine that ends is not removed.
TransitionKeepsMachine(m, s) ==
    /\ reported' = [reported EXCEPT ![m.id] = s]
    /\ vehicle' = IF s = "FINISHED" THEN Linked(Type(m.id), vehicle) ELSE vehicle
    /\ machines' = Others(IF s = "FINISHED" THEN Type(m.id) ELSE "none",
                          [machines EXCEPT ![tickPos].status = s])
    /\ UNCHANGED failed

\* The machine enters status s.  One that has ended is removed from the list
\* the tick iterates over: the machine behind it moves to its place and is not
\* visited in this tick.
Transition(m, s) ==
    /\ reported' = [reported EXCEPT ![m.id] = s]
    /\ IF s \in Ended
       THEN /\ machines' = Others(IF s = "FINISHED" THEN Type(m.id) ELSE "none",
                                  RemoveAt(machines, tickPos))
            /\ vehicle' = IF s = "FINISHED" THEN Linked(Type(m.id), vehicle) ELSE vehicle
       ELSE /\ machines' = [machines EXCEPT ![tickPos] =
                              [m EXCEPT !.status = s, !.elapsed = IF s = "PAUSED" THEN @ ELSE 0]]
            /\ UNCHANGED vehicle
    /\ UNCHANGED failed

Pause(m) ==
    /\ reported' = [reported EXCEPT ![m.id] = "PAUSED"]
    /\ machines' = [machines EXCEPT ![tickPos] =
                      [m EXCEPT !.status = "PAUSED",
                                !.onPause = IF m.status = Fresh THEN OnInit(Type(m.id)) ELSE m.status]]
    /\ UNCHANGED << vehicle, failed >>

\* The status before the pause is entered again; its time goes on.
Resume(m) ==
    IF m.onPause \in Ended THEN Transition(m, m.onPause)
    ELSE /\ reported' = [reported EXCEPT ![m.id] = m.onPause]
         /\ machines' = [machines EXCEPT ![tickPos] =
                           [m EXCEPT !.status = m.onPause, !.onPause = Fresh]]
         /\ UNCHANGED << vehicle, failed >>

Elapse(m) ==
    IF m.elapsed + 1 >= Duration THEN Transition(m, NextStatus(m.status))
    ELSE /\ machines' = [machines EXCEPT ![tickPos].elapsed = @ + 1]
         /\ UNCHANGED << reported, vehicle, failed >>

\* No action defines ON_TERMINATE: the tick throws, which ends the process.
Terminate(m) ==
    /\ failed' = TRUE
    /\ UNCHANGED << reported, machines, vehicle >>

Advance(m) ==
    \/ m.pause /\ m.status # "PAUSED" /\ Pause(m)
    \/ ~m.pause /\ m.status = "PAUSED" /\ Resume(m)
    \/ /\ m.pause <=> m.status = "PAUSED"
       /\ \/ m.status = Fresh /\ Transition(m, OnInit(Type(m.id)))
          \/ m.status # Fresh /\ m.cancel /\ Transition(m, "FAILED")
          \/ m.status # Fresh /\ ~m.cancel /\ m.terminate /\ Terminate(m)
          \/ /\ m.status # Fresh /\ ~m.cancel /\ ~m.terminate
             /\ IF m.status = "PAUSED" THEN UNCHANGED << reported, machines, vehicle, failed >>
                ELSE Elapse(m)

TickMachine ==
    /\ tickPos \in DOMAIN machines /\ ~failed
    /\ Advance(machines[tickPos])
    /\ tickPos' = tickPos + 1
    /\ UNCHANGED << toDrive, lowError, errorShown, order, received >>

TickEnds ==
    /\ tickPos > Len(machines) /\ ~failed
    /\ tickPos' = 0

IsLow == vehicle.charge < Threshold
Drained == IF vehicle.charge = 0 THEN 0 ELSE vehicle.charge - 1

Charged == IF vehicle.charge = Full THEN Full ELSE vehicle.charge + 1

\* Fault (EdgesTraversed): the vehicle waits for the error to be removed.
StartDrivingWithoutError ==
    /\ ~vehicle.driving
    /\ vehicle' = [vehicle EXCEPT !.driving = ~errorShown]
    /\ UNCHANGED << machines, toDrive, lowError, errorShown, order >>

\* A tick that starts driving does not move the vehicle yet.
StartDriving ==
    /\ ~vehicle.driving
    /\ vehicle' = [vehicle EXCEPT !.driving = ~IsLow]
    /\ UNCHANGED << machines, toDrive, lowError, errorShown, order >>

\* Whether the battery is low is decided before the tick drains it.
Drive ==
    /\ vehicle.driving /\ toDrive > 1
    /\ vehicle' = [vehicle EXCEPT !.driving = ~IsLow, !.charge = Drained]
    /\ toDrive' = toDrive - 1
    /\ lowError' = (lowError \/ IsLow)
    /\ errorShown' = (errorShown \/ IsLow)
    /\ UNCHANGED << machines, order >>

\* edgeTraversed: the controller finishes the actions of the edge that run.
Arrive ==
    /\ vehicle.driving /\ toDrive = 1
    /\ vehicle' = [vehicle EXCEPT !.driving = FALSE, !.charge = Drained]
    /\ toDrive' = 0
    /\ IF order.canceling THEN UNCHANGED << machines, order >>
       ELSE /\ machines' = FinishEdgeActions(machines,
                 {a \in Actions : ActionType[a].scope = "edge" /\ reported[a] \notin Ended})
            /\ order' = [order EXCEPT !.legs = @ - 1]
    /\ UNCHANGED << lowError, errorShown >>

\* Fault (NothingProgressesWhilePaused): a pause does not reach the traversal.
TraverseIgnoresPause ==
    /\ TickEnds
    /\ toDrive > 0 /\ ~vehicle.charging
    /\ StartDriving \/ Drive \/ Arrive
    /\ UNCHANGED << failed, reported, received >>

AdvanceTraverse ==
    /\ TickEnds
    /\ toDrive > 0 /\ ~vehicle.paused /\ ~vehicle.charging
    /\ StartDriving \/ Drive \/ Arrive
    /\ UNCHANGED << failed, reported, received >>

\* The error is removed from the state only by a tick that reports the charge
\* (one in updateTicks).
AdvanceBatteryCharge ==
    /\ TickEnds
    /\ vehicle.charging /\ ~vehicle.paused
    /\ LET recovered == lowError /\ Charged >= Recovered
       IN /\ vehicle' = [vehicle EXCEPT !.charge = Charged, !.charging = Charged # Full]
          /\ lowError' = (lowError /\ ~recovered)
          /\ \E reports \in BOOLEAN : errorShown' = (errorShown /\ ~(recovered /\ reports))
    /\ UNCHANGED << machines, toDrive, failed, reported, order, received >>

Stand ==
    /\ TickEnds
    /\ vehicle.paused \/ (toDrive = 0 /\ ~vehicle.charging)
    /\ UNCHANGED << machines, vehicle, toDrive, lowError, failed, controllerVars >>

Tick == TickBegins \/ TickMachine \/ AdvanceTraverse \/ AdvanceBatteryCharge \/ Stand

-----------------------------------------------------------------------------
(***************************************************************************)
(* The controller, as far as it calls the adapter.  Messages arrive        *)
(* between ticks; what an ended action or a traversed edge entails is      *)
(* executed within the tick.                                               *)
(***************************************************************************)
ActiveActions == OrderActions(order.id) \ Instant
AllEnded == \A a \in ActiveActions : reported[a] \in Ended

\* Stopping the AGV follows the end of the last canceled action at once.
Stopping == order.canceling /\ AllEnded
Calls == ~failed /\ ~Stopping

ReceiveOrder(o) ==
    /\ Calls /\ tickPos = 0
    /\ order.id = NoOrder /\ o \notin received /\ ~vehicle.charging
    /\ order' = [id |-> o, canceling |-> FALSE, legs |-> Legs]
    /\ received' = received \cup {o}
    /\ UNCHANGED << adapterVars, reported, errorShown >>

\* A pause suspends nodes, but the actions of an edge go on being started.
ExecuteOrderAction(a) ==
    /\ Calls
    /\ a \in ActiveActions /\ reported[a] = Fresh
    /\ ~order.canceling /\ toDrive = 0
    /\ IF ActionType[a].scope = "edge" THEN order.legs > 0 ELSE ~vehicle.paused
    /\ ExecuteAction(a)
    /\ UNCHANGED << toDrive, lowError, tickPos, failed, errorShown, order, received >>

ExecuteInstantAction(a) ==
    /\ Calls
    /\ a \in Instant /\ reported[a] = Fresh /\ a \notin {m.id : m \in Range(machines)}
    /\ ExecuteAction(a)
    /\ UNCHANGED << toDrive, lowError, tickPos, failed, errorShown, order, received >>

\* The actions before the edge have ended; those of type NONE of the edge itself
\* may run.
BeginEdge ==
    /\ Calls
    /\ order.id # NoOrder /\ ~order.canceling /\ order.legs > 0 /\ toDrive = 0
    /\ \A a \in ActiveActions :
          \/ reported[a] \in {Fresh} \cup Ended
          \/ ActionType[a].scope = "edge" /\ ~ActionType[a].stopDriving
    /\ TraverseEdge
    /\ UNCHANGED << machines, vehicle, lowError, tickPos, failed, controllerVars >>

CompleteOrder ==
    /\ Calls
    /\ order.id # NoOrder /\ ~order.canceling /\ order.legs = 0 /\ AllEnded
    /\ order' = [order EXCEPT !.id = NoOrder]
    /\ UNCHANGED << adapterVars, reported, errorShown, received >>

\* Actions without a status have not been executed, says the controller; the
\* others are canceled by the adapter.
CancelOrder ==
    /\ Calls /\ tickPos = 0
    /\ order.id \in Cancelable /\ ~order.canceling
    /\ order' = [order EXCEPT !.canceling = TRUE]
    /\ reported' = [a \in Actions |->
                      IF a \in ActiveActions /\ reported[a] \in {Fresh, "WAITING"} THEN "FAILED"
                      ELSE reported[a]]
    /\ CancelActions({a \in ActiveActions : reported[a] \notin {Fresh, "WAITING"} \cup Ended})
    /\ UNCHANGED << vehicle, toDrive, lowError, tickPos, failed, errorShown, received >>

StopAgv ==
    /\ Stopping /\ ~failed
    /\ StopTraverse
    /\ order' = [id |-> NoOrder, canceling |-> FALSE, legs |-> 0]
    /\ UNCHANGED << machines, lowError, tickPos, failed, reported, errorShown, received >>

Next ==
    \/ ~Stopping /\ Tick
    \/ \E o \in Orders : ReceiveOrder(o)
    \/ \E a \in Actions : ExecuteOrderAction(a) \/ ExecuteInstantAction(a)
    \/ BeginEdge \/ CompleteOrder \/ CancelOrder \/ StopAgv

\* The interval timer goes on ticking; handlers run to completion.
Fairness == WF_vars(~Stopping /\ Tick) /\ WF_vars(StopAgv)

Spec == Init /\ [][Next]_vars /\ Fairness

-----------------------------------------------------------------------------
(***************************************************************************)
(* Properties.                                                             *)
(***************************************************************************)

(* What the adapter and the controller keep.                               *)
TypeOK ==
    /\ machines \in Seq([id : Actions, status : {Fresh} \cup (Status \ Ended), onPause : {Fresh} \cup Status,
                         elapsed : 0 .. Duration - 1, terminate : BOOLEAN, cancel : BOOLEAN,
                         pause : BOOLEAN])
    /\ IsInjective([i \in DOMAIN machines |-> machines[i].id])
    /\ vehicle \in [driving : BOOLEAN, paused : BOOLEAN, charging : BOOLEAN, loaded : BOOLEAN,
                    charge : 0 .. Full]
    /\ toDrive \in 0 .. Distance /\ tickPos \in Nat
    /\ {lowError, failed, errorShown} \subseteq BOOLEAN
    /\ reported \in [Actions -> {Fresh} \cup Status]
    /\ order \in [id : {NoOrder} \cup Orders, canceling : BOOLEAN, legs : 0 .. Legs]

(* The vehicle moves only on an edge it was told to traverse, stands while *)
(* paused or charging, and is stopped by a low battery one tick after its  *)
(* charge falls below the threshold, whatever ends or starts meanwhile     *)
(* (_advanceTraverse, _startPause, _startCharging, stopTraverse).          *)
DrivesSafely ==
    vehicle.driving => /\ toDrive > 0 /\ ~vehicle.paused /\ ~vehicle.charging
                       /\ vehicle.charge + 1 >= Threshold

(* While the AGV is paused no action makes progress and no edge is         *)
(* traversed: actions are reported as PAUSED or canceled, except for those *)
(* that end the pause (AGV adapter contract of startPause).                *)
Progress ==
    \/ toDrive' < toDrive /\ ~Stopping
    \/ \E a \in Actions : /\ reported'[a] # reported[a]
                         /\ reported'[a] \notin {"WAITING", "PAUSED", "FAILED"}
                         /\ Type(a) \notin {"startPause", "stopPause"}
NothingProgressesWhilePaused == [][vehicle.paused /\ vehicle'.paused => ~Progress]_vars

(* What has ended stays ended: master control is not told that an action  *)
(* goes on that it was told has failed or finished.                        *)
EndedStaysEnded ==
    [][\A a \in Actions : reported[a] \in Ended => reported'[a] = reported[a]]_vars

(* Actions end unless they are paused for ever, although a machine that    *)
(* ends takes the place of the next one in the list the tick iterates over.*)
ActionsEnd ==
    (<>[](\A i \in DOMAIN machines : ~machines[i].pause) /\ []~failed) => <>[](machines = <<>>)

(* An edge is traversed eventually: neither stopDriving actions nor pauses *)
(* leave the vehicle standing, unless it stays paused, charging or low.    *)
EdgesTraversed ==
    (toDrive > 0) ~> (toDrive = 0 \/ vehicle.paused \/ vehicle.charging \/ IsLow \/ failed)

=============================================================================
