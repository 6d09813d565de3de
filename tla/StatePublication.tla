-------------------------- MODULE StatePublication --------------------------
(***************************************************************************)
(* Instant actions between master control and the AGV as messages tell of  *)
(* them: initiateInstantActions of the MasterController, the State the     *)
(* AgvController publishes and cleans up, and the events master control    *)
(* dispatches from it.  How the AGV queues and executes the actions is in  *)
(* InstantActions.                                                         *)
(*                                                                         *)
(* A State message is the part of the state that tells of instant actions: *)
(* their states and their errors.  State messages are published with QoS 0 *)
(* and dropped while offline; one that was written arrives, in order.      *)
(***************************************************************************)
EXTENDS Naturals, FiniteSets, SequencesExt, Lists

CONSTANTS
    Msg,           \* instant actions messages, each the sequence of its actions
    Invalid,       \* messages the AGV finds invalid
    Vetoable,      \* actions that may not be executable
    Alone,         \* messages during which no other one is under way
    PublishCount,  \* finalInstantActionStateChangePublishCount
    MaxBreaks, MaxErrorUpdates, MaxOrders, MaxStates  \* bounds

Messages == DOMAIN Msg
Actions == UNION {Range(Msg[m]) : m \in Messages}

ASSUME StatePublicationAssumption ==
    /\ \A m \in Messages : Msg[m] \in Seq(Range(Msg[m]))
    /\ Invalid \cup Alone \subseteq Messages /\ Vetoable \subseteq Actions
    /\ Messages \cap Actions = {}
    /\ PublishCount \in Nat \ {0}
    /\ {MaxBreaks, MaxErrorUpdates, MaxOrders, MaxStates} \subseteq Nat

VARIABLES
    \* MasterController
    initiated, \* messages initiated so far
    awaiting,  \* messages whose publish is awaited
    caches,    \* _currentInstantActions: action -> [ref, last]
    ref,       \* _currentInstantActionsRef; 0: undefined
    refOf,     \* the reference computed for a message
    refErrors, \* references of _currentInstantActionsValidationErrors
    outcome,   \* final event dispatched for an action
    \* messages on their way
    toAgv, states,
    \* AgvController
    checking,  \* actions of the message being processed
    status,    \* actionStates, of instant actions
    counts,    \* _instantActionsEndedPublishCount
    errors,    \* errors, of instant actions
    inFlight,  \* publishes of State awaited
    online,    \* connection of the AGV
    fate,      \* what became of an action
    told,      \* actions whose end or rejection is in a published State
    bounds     \* [breaks, updates, orders] so far

masterVars == << initiated, awaiting, caches, ref, refOf, refErrors, outcome >>
stateVars  == << status, counts, errors >>
agvVars    == << checking, stateVars, inFlight, online, fate, told, bounds >>
vars       == << masterVars, toAgv, states, agvVars >>

Ended  == {"FINISHED", "FAILED"}
Absent == "ABSENT"
NoAction == [a \in {} |-> 0]

Init ==
    /\ initiated = {} /\ awaiting = {} /\ caches = NoAction
    /\ ref = 0 /\ refOf = [m \in Messages |-> 0] /\ refErrors = << >>
    /\ outcome = [a \in Actions |-> "none"]
    /\ toAgv = << >> /\ states = << >> /\ checking = << >>
    /\ status = [a \in Actions |-> Absent]
    /\ counts = NoAction /\ errors = << >>
    /\ inFlight = 0 /\ online = TRUE
    /\ fate = [a \in Actions |-> "none"]
    /\ told = {}
    /\ bounds = [breaks |-> 0, updates |-> 0, orders |-> 0]

Without(f, S) == [a \in DOMAIN f \ S |-> f[a]]

-----------------------------------------------------------------------------
(***************************************************************************)
(* Master control initiates instant actions.                               *)
(***************************************************************************)
UnderWay == {m \in initiated : \E a \in Range(Msg[m]) : a \in DOMAIN caches}

\* The reference is read before the publish and written after it.
InitiateInstantActions(m) ==
    /\ m \notin initiated
    /\ UnderWay # {} => (UnderWay \cup {m}) \cap Alone = {}
    /\ initiated' = initiated \cup {m}
    /\ awaiting' = awaiting \cup {m}
    /\ refOf' = [refOf EXCEPT ![m] = ref + 1]
    /\ caches' = [a \in DOMAIN caches \cup Range(Msg[m]) |->
                    IF a \in Range(Msg[m]) THEN [ref |-> ref + 1, last |-> Absent] ELSE caches[a]]
    /\ UNCHANGED << ref, refErrors, outcome, toAgv, states, agvVars >>

Published(m) ==
    /\ m \in awaiting
    /\ awaiting' = awaiting \ {m}
    /\ ref' = refOf[m]
    /\ toAgv' = Append(toAgv, m)
    /\ UNCHANGED << initiated, caches, refOf, refErrors, outcome, states, agvVars >>

PublishFails(m) ==
    /\ m \in awaiting
    /\ awaiting' = awaiting \ {m}
    /\ caches' = Without(caches, Range(Msg[m]))
    /\ UNCHANGED << initiated, ref, refOf, refErrors, outcome, toAgv, states, agvVars >>

-----------------------------------------------------------------------------
(***************************************************************************)
(* The AGV publishes its state.                                            *)
(***************************************************************************)
Subjects(es) == [i \in DOMAIN es |-> es[i].of]

\* Actions whose end or rejection a State message tells.
TellsOf(st, es) ==
    {a \in Actions : \/ st[a] \in Ended
                     \/ \E i \in DOMAIN es : es[i].of = a
                     \/ \E i \in DOMAIN es : es[i].of \in Messages /\ a \in Range(Msg[es[i].of])}

\* Fault (ToldBeforeRemoved): a publish that is dropped is counted.
PublishCountsDropped ==
    /\ inFlight' = inFlight + 1
    /\ IF online
       THEN /\ states' = Append(states, [status |-> status', errors |-> Subjects(errors')])
            /\ told' = told \cup TellsOf(status', errors')
       ELSE UNCHANGED << states, told >>

\* publish of the new state with dropIfOffline.
PublishCurrentState ==
    IF online
    THEN /\ states' = Append(states, [status |-> status', errors |-> Subjects(errors')])
         /\ inFlight' = inFlight + 1
         /\ told' = told \cup TellsOf(status', errors')
    ELSE UNCHANGED << states, inFlight, told >>

Handling == checking # << >>

ReceiveInstantActions ==
    /\ toAgv # << >> /\ online /\ ~Handling
    /\ toAgv' = Tail(toAgv)
    /\ LET m == Head(toAgv)
       IN IF m \in Invalid
          THEN /\ errors' = Append(errors, [of |-> m, counted |-> TRUE, count |-> 0])
               /\ fate' = [a \in Actions |-> IF a \in Range(Msg[m]) THEN "rejected" ELSE fate[a]]
               /\ UNCHANGED << checking, status, counts >>
               /\ PublishCurrentState
          ELSE /\ checking' = Msg[m]
               /\ UNCHANGED << stateVars, states, inFlight, told, fate >>
    /\ UNCHANGED << masterVars, online, bounds >>

LoseInstantActions ==
    /\ toAgv # << >> /\ ~online
    /\ toAgv' = Tail(toAgv)
    /\ UNCHANGED << masterVars, states, agvVars >>

RejectAction(a) ==
    /\ a \in Vetoable
    /\ errors' = Append(errors, [of |-> a, counted |-> TRUE, count |-> 0])
    /\ fate' = [fate EXCEPT ![a] = "rejected"]
    /\ UNCHANGED << status, counts >>
    /\ PublishCurrentState

AcceptAction(a) ==
    /\ fate' = [fate EXCEPT ![a] = "accepted"]
    /\ UNCHANGED << stateVars, states, inFlight, told >>

CheckInstantAction ==
    /\ Handling
    /\ checking' = Tail(checking)
    /\ RejectAction(Head(checking)) \/ AcceptAction(Head(checking))
    /\ UNCHANGED << masterVars, toAgv, online, bounds >>

\* _processInstantAction and the first status that is not final.
StartAction(a) ==
    /\ ~Handling /\ fate[a] = "accepted"
    /\ fate' = [fate EXCEPT ![a] = "executing"]
    /\ counts' = [b \in DOMAIN counts \cup {a} |-> IF b = a THEN 0 ELSE counts[b]]
    /\ status' = [status EXCEPT ![a] = "RUNNING"]
    /\ UNCHANGED errors
    /\ PublishCurrentState
    /\ UNCHANGED << masterVars, toAgv, checking, online, bounds >>

\* The error of an action that failed is not counted.
EndAction(a, s) ==
    /\ ~Handling /\ fate[a] = "executing"
    /\ fate' = [fate EXCEPT ![a] = "ended"]
    /\ status' = [status EXCEPT ![a] = s]
    /\ errors' = IF s = "FAILED" THEN Append(errors, [of |-> a, counted |-> FALSE, count |-> 0])
                 ELSE errors
    /\ UNCHANGED counts
    /\ PublishCurrentState
    /\ UNCHANGED << masterVars, toAgv, checking, online, bounds >>

\* Fault (StateCleaned): rejections are left in the state.
CleanupActionStatesOnly ==
    LET ended == {a \in DOMAIN counts : status[a] \in Ended}
        gone == {a \in ended : counts[a] + 1 >= PublishCount}
    IN /\ counts' = [a \in DOMAIN counts \ gone |-> counts[a] + (IF a \in ended THEN 1 ELSE 0)]
       /\ status' = [a \in Actions |-> IF a \in gone THEN Absent ELSE status[a]]
       /\ UNCHANGED errors

\* Counts go up for what the state holds now, not for what was published.
CleanupInstantActionStates ==
    LET counted == [i \in DOMAIN errors |->
                      [errors[i] EXCEPT !.count = IF errors[i].counted THEN @ + 1 ELSE @]]
        stays(e) == ~e.counted \/ e.count < PublishCount
        ended == {a \in DOMAIN counts : status[a] \in Ended}
        gone == {a \in ended : counts[a] + 1 >= PublishCount}
    IN /\ errors' = Kept(counted, {e \in Range(counted) : stays(e)})
       /\ counts' = [a \in DOMAIN counts \ gone |-> counts[a] + (IF a \in ended THEN 1 ELSE 0)]
       /\ status' = [a \in Actions |-> IF a \in gone THEN Absent ELSE status[a]]

PublishCompletes ==
    /\ ~Handling /\ inFlight > 0
    /\ inFlight' = inFlight - 1
    /\ CleanupInstantActionStates
    /\ UNCHANGED << masterVars, toAgv, states, checking, online, fate, told, bounds >>

\* The timer, a stateRequest, or any other change of the state.
PublishPeriodically ==
    /\ ~Handling /\ online /\ Len(states) + inFlight < MaxStates
    /\ UNCHANGED stateVars
    /\ PublishCurrentState
    /\ UNCHANGED << masterVars, toAgv, checking, online, fate, bounds >>

\* updateErrors and updatePartialState copy every error: copies are not counted.
UpdateErrors ==
    /\ ~Handling /\ bounds.updates < MaxErrorUpdates
    /\ bounds' = [bounds EXCEPT !.updates = @ + 1]
    /\ errors' = [i \in DOMAIN errors |-> [errors[i] EXCEPT !.counted = FALSE]]
    /\ UNCHANGED << masterVars, toAgv, states, checking, status, counts, inFlight, online, fate, told >>

\* An order keeps the errors that are counted and the states of instant actions; one
\* that is stitched also keeps the other errors that refer to an action.
AcceptOrder ==
    /\ ~Handling /\ online /\ bounds.orders < MaxOrders
    /\ bounds' = [bounds EXCEPT !.orders = @ + 1]
    /\ \E stitching \in BOOLEAN :
         errors' = Kept(errors, {e \in Range(errors) : e.counted \/ (stitching /\ e.of \in Actions)})
    /\ status' = [a \in Actions |-> IF a \in DOMAIN counts THEN status[a] ELSE Absent]
    /\ UNCHANGED counts
    /\ PublishCurrentState
    /\ UNCHANGED << masterVars, toAgv, checking, online, fate >>

\* A publish whose packet waits for the connection is not completed any more.
ConnectionBreaks ==
    /\ ~Handling /\ online /\ bounds.breaks < MaxBreaks
    /\ bounds' = [bounds EXCEPT !.breaks = @ + 1]
    /\ online' = FALSE
    /\ inFlight' = 0
    /\ UNCHANGED << masterVars, toAgv, states, checking, stateVars, fate, told >>

\* The callback for the connection state publishes the state.
Reconnect ==
    /\ ~online
    /\ online' = TRUE
    /\ states' = Append(states, [status |-> status, errors |-> Subjects(errors)])
    /\ inFlight' = inFlight + 1
    /\ told' = told \cup TellsOf(status, errors)
    /\ UNCHANGED << masterVars, toAgv, checking, stateVars, fate, bounds >>

-----------------------------------------------------------------------------
(***************************************************************************)
(* Master control dispatches a State message.                              *)
(***************************************************************************)

(* How many errors are of messages that are invalid.                       *)
ValidationErrors(es) == Cardinality({i \in DOMAIN es : es[i] \in Messages})

\* Fault (ReceivedReported): the first new error is of the message before the last.
UpdateEarlierErrors(es) ==
    LET found == ValidationErrors(es)
        known == Len(refErrors)
    IN CASE ref = 0 \/ found = known -> refErrors
         [] ref # 0 /\ found > known -> refErrors \o [i \in 1 .. found - known |-> ref - i]
         [] ref # 0 /\ found < known -> SubSeq(refErrors, known - found + 1, known)

\* Only the number of validation errors is compared with the one before: new
\* errors are those of the messages initiated last, counted down from the first.
UpdateValidationErrors(es) ==
    LET found == ValidationErrors(es)
        known == Len(refErrors)
    IN CASE ref = 0 \/ found = known -> refErrors
         [] ref # 0 /\ found > known -> refErrors \o [i \in 1 .. found - known |-> ref + 1 - i]
         [] ref # 0 /\ found < known -> SubSeq(refErrors, known - found + 1, known)

\* Fault (EventsTrue): errors are looked for before states.
ErrorsFirst(a, state) ==
    CASE Contains(state.errors, a) -> "rejected"
      [] ~Contains(state.errors, a) /\ state.status[a] # Absent -> state.status[a]
      [] OTHER -> IF Contains(refErrors', caches[a].ref) THEN "rejected" ELSE Absent

\* What an action's cache makes of the message: its status, or an error.
EventFor(a, state) ==
    CASE state.status[a] # Absent -> state.status[a]
      [] state.status[a] = Absent /\ Contains(state.errors, a) -> "rejected"
      [] OTHER -> IF Contains(refErrors', caches[a].ref) THEN "rejected" ELSE Absent

DispatchState ==
    /\ states # << >>
    /\ states' = Tail(states)
    /\ refErrors' = UpdateValidationErrors(Head(states).errors)
    /\ LET event == [a \in DOMAIN caches |-> EventFor(a, Head(states))]
           final == {a \in DOMAIN caches : event[a] \in Ended \cup {"rejected"}}
       IN /\ outcome' = [a \in Actions |-> IF a \in final THEN event[a] ELSE outcome[a]]
          /\ caches' = [a \in DOMAIN caches \ final |-> [caches[a] EXCEPT !.last = event[a]]]
    /\ UNCHANGED << initiated, awaiting, ref, refOf, toAgv, agvVars >>

Next ==
    \/ \E m \in Messages : InitiateInstantActions(m) \/ Published(m) \/ PublishFails(m)
    \/ ReceiveInstantActions \/ LoseInstantActions \/ CheckInstantAction
    \/ \E a \in Actions : StartAction(a) \/ \E s \in Ended : EndAction(a, s)
    \/ PublishCompletes \/ PublishPeriodically
    \/ UpdateErrors \/ AcceptOrder \/ ConnectionBreaks \/ Reconnect
    \/ DispatchState

\* Handlers run to completion, the adapter executes and ends actions, the state
\* is published at intervals, and the connection is established again.
Fairness ==
    /\ WF_vars(ReceiveInstantActions) /\ WF_vars(CheckInstantAction)
    /\ \A a \in Actions : WF_vars(StartAction(a)) /\ WF_vars(\E s \in Ended : EndAction(a, s))
    /\ WF_vars(PublishCompletes) /\ WF_vars(PublishPeriodically)
    /\ WF_vars(Reconnect) /\ WF_vars(DispatchState)

Spec == Init /\ [][Next]_vars /\ Fairness

-----------------------------------------------------------------------------
(***************************************************************************)
(* Properties.                                                             *)
(***************************************************************************)

(* What both sides keep; the counts of the AGV are below the limit.        *)
TypeOK ==
    /\ initiated \subseteq Messages /\ awaiting \subseteq initiated
    /\ caches \in [DOMAIN caches -> [ref : Nat, last : {Absent, "RUNNING"}]]
    /\ DOMAIN caches \subseteq Actions
    /\ status \in [Actions -> {Absent, "RUNNING"} \cup Ended]
    /\ counts \in [DOMAIN counts -> 0 .. PublishCount - 1]
    /\ DOMAIN counts = {a \in Actions : status[a] # Absent}
    /\ \A i \in DOMAIN errors : errors[i].counted => errors[i].count < PublishCount
    /\ inFlight \in Nat /\ online \in BOOLEAN

(* The end or the rejection of an action is not removed from the state     *)
(* before a State message has told it, although the publishes that are     *)
(* counted are those under way when it ended, messages are dropped while   *)
(* offline, and an order that is accepted drops errors                     *)
(* (_publishCurrentState, _cleanupInstantActionStates, _acceptOrder).      *)
ToldBeforeRemoved ==
    \A a \in Actions :
      fate[a] \in {"ended", "rejected"} => a \in told \cup TellsOf(status, errors)

(* The events of master control are true: an action that is reported as    *)
(* rejected was not executed, one that is reported as ended has ended, and *)
(* nothing is reported of an action whose publication failed               *)
(* (onActionError, onActionStateChanged).                                  *)
EventsTrue ==
    \A a \in Actions :
      /\ outcome[a] = "rejected" => fate[a] = "rejected"
      /\ outcome[a] \in Ended => fate[a] = "ended"

(* Every action the AGV received is reported as ended or rejected,         *)
(* whatever other actions, orders, error updates and broken connections    *)
(* come in between.                                                        *)
ReceivedReported ==
    \A a \in Actions : (fate[a] # "none") ~> (outcome[a] # "none")

(* The state is not cluttered with outdated action states and rejections:  *)
(* they are removed ("to ensure that a published State object is not       *)
(* cluttered with outdated instant action states", agv-controller.ts:701). *)
Outdated == (\E a \in Actions : status[a] \in Ended) \/ (\E i \in DOMAIN errors : errors[i].counted)
StateCleaned == []<>(~Outdated)
=============================================================================
