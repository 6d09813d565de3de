--------------------------- MODULE OrderExecution ---------------------------
(***************************************************************************)
(* What an AGV promises to do with orders, as its State messages tell: it  *)
(* follows one route at a time, place after place and never beyond the     *)
(* base, at each place executes the actions listed there and drives on     *)
(* when they have ended; the base of the route may grow; and after a       *)
(* cancelation nothing more is started until the order is gone.            *)
(*                                                                         *)
(* Nothing is said here about where messages come from, about blocking     *)
(* types, pauses, contexts and callbacks: AgvOrder shows how the controller*)
(* achieves it.  Places are sequenceIds, nodes the even and edges the odd  *)
(* ones.                                                                   *)
(***************************************************************************)
EXTENDS Integers

CONSTANT Action

VARIABLES
  ahead,      \* places of the route not yet left behind
  base,       \* the last place released
  waiting,    \* actions of the order that have not been started
  running,    \* actions that are executed
  driving,    \* the AGV is on an edge
  suspended,  \* the first node of the order is not yet processed
  canceling   \* the order is being canceled

vars == <<ahead, base, waiting, running, driving, suspended, canceling>>

Active == ahead # {} \/ waiting # {} \/ running # {}

Released(places, b) == {s \in places : s <= b}

Next1(places) == CHOOSE s \in places : \A t \in places : s <= t

Init ==
  /\ ahead = {} /\ base = -1
  /\ waiting = {} /\ running = {}
  /\ driving = FALSE /\ suspended = FALSE /\ canceling = FALSE

(* Work goes on with actions w to start and r executed: some of w are      *)
(* started, or the AGV drives on if no action is executed and the next     *)
(* place is a released edge.                                               *)
Continue(w, r) ==
  /\ waiting' \in SUBSET w
  /\ running' = r \cup (w \ waiting')
  /\ driving' \in BOOLEAN
  /\ driving' => /\ running' = {}
                 /\ Released(ahead', base') # {}
                 /\ Next1(ahead') % 2 = 1

(* A new order, or an update of the order that was completed: its first    *)
(* node is left behind at once, or processed later.                        *)
Accept ==
  /\ ~ Active /\ ~ canceling /\ ~ driving
  /\ ahead' \in SUBSET Nat /\ base' \in Nat
  /\ suspended' \in BOOLEAN
  /\ suspended' => ahead' # {} /\ Next1(ahead') % 2 = 0 /\ Next1(ahead') <= base'
  /\ IF suspended' THEN /\ waiting' \in SUBSET Action
                        /\ running' = {} /\ driving' = FALSE
     ELSE \E w \in {waiting' \cup running'} : w \subseteq Action /\ Continue(w, {})
  /\ UNCHANGED canceling

(* The first node of the order is processed.                               *)
Begin ==
  /\ suspended /\ suspended' = FALSE
  /\ ahead # {} /\ ahead' = ahead \ {Next1(ahead)}
  /\ IF canceling THEN UNCHANGED <<waiting, running, driving>> ELSE Continue(waiting, {})
  /\ UNCHANGED <<base, canceling>>

(* The route grows behind its base.  An AGV that waits there goes on.      *)
Extend ==
  /\ Active /\ ~ canceling
  /\ base' \in Nat /\ base' >= base
  /\ ahead' \in SUBSET Nat
  /\ Released(ahead', base) = Released(ahead, base)
  /\ \E w \in {waiting' \cup (running' \ running)} :
       /\ waiting \subseteq w /\ w \subseteq Action
       /\ IF running = {} /\ ~ driving /\ ~ suspended /\ Released(ahead, base) = {}
          THEN Continue(w, {})
          ELSE waiting' = w /\ UNCHANGED <<running, driving>>
  /\ UNCHANGED <<suspended, canceling>>

(* An action has ended.                                                    *)
End ==
  /\ \E a \in running :
       IF canceling THEN running' = running \ {a} /\ UNCHANGED <<waiting, driving>>
       ELSE Continue(waiting, running \ {a})
  /\ UNCHANGED <<ahead, base, suspended, canceling>>

(* The AGV has traversed the edge and reached its end node.                *)
Advance ==
  /\ driving
  /\ IF canceling THEN driving' = FALSE /\ UNCHANGED <<ahead, waiting, running>>
     ELSE /\ ahead' = ahead \ {Next1(ahead), Next1(ahead) + 1}
          /\ Continue(waiting, {})
  /\ UNCHANGED <<base, suspended, canceling>>

(* What has not been started will not be.                                  *)
Cancel ==
  /\ Active /\ ~ canceling /\ canceling' = TRUE
  /\ waiting' = {}
  /\ UNCHANGED <<ahead, base, running, driving, suspended>>

(* The AGV cannot stop on the edge: the route ends at the next node.       *)
ShortenToNextNode ==
  /\ canceling /\ driving /\ running = {}
  /\ ahead' = ahead \cap {Next1(ahead) + 1, Next1(ahead)} \cap {s \in ahead : s % 2 = 0}
  /\ UNCHANGED <<base, waiting, running, driving, suspended, canceling>>

Stop ==
  /\ canceling /\ canceling' = FALSE
  /\ running = {}
  /\ ahead' = {} /\ driving' = FALSE
  /\ UNCHANGED <<base, waiting, running, suspended>>

Next ==
  \/ Accept \/ Begin \/ Extend \/ End \/ Advance
  \/ Cancel \/ ShortenToNextNode \/ Stop

Spec == Init /\ [][Next]_vars
=============================================================================
