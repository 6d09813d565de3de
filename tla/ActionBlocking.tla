--------------------------- MODULE ActionBlocking ---------------------------
(***************************************************************************)
(* The blocking types of VDA 5050 actions, as the AGV controller applies   *)
(* them to the action list of a node, of an edge and of the instant        *)
(* actions (agv-controller.ts).                                            *)
(*                                                                         *)
(* HARD actions cut a list into segments.  The NONE and SOFT actions of a  *)
(* segment are started together; a HARD action runs after the segment      *)
(* before it and by itself.  Indices are 1-based; index 0 stands for       *)
(* "before the first action" (afterAction = undefined in the code).        *)
(***************************************************************************)
EXTENDS Naturals, Sequences

CONSTANTS
  Action,      \* the identities (actionId) of the actions
  Blocking     \* Blocking[a] is the blocking type of action a

BlockingType == {"NONE", "SOFT", "HARD"}

ASSUME BlockingAssumption == Blocking \in [Action -> BlockingType]

Hard(a) == Blocking[a] = "HARD"

Soft(a) == Blocking[a] = "SOFT"

(* Fault (BlockingRespected): a HARD action does not end the segment.      *)
SegmentToEnd(acts, after) == {j \in DOMAIN acts : j > after}

(***************************************************************************)
(* The indices of the NONE and SOFT actions that follow index `after` up   *)
(* to the next HARD action.                                                *)
(***************************************************************************)
Segment(acts, after) ==
  {j \in DOMAIN acts : j > after /\ \A k \in (after + 1) .. j : ~ Hard(acts[k])}

(* Fault (ExecutedOnce): the search starts at the action that has ended.   *)
NextHardFrom(acts, after) ==
  {j \in DOMAIN acts : /\ j >= after
                       /\ Hard(acts[j])
                       /\ \A k \in (after + 1) .. (j - 1) : ~ Hard(acts[k])}

(***************************************************************************)
(* The index of the next HARD action after index `after`: a set with at    *)
(* most one element.                                                       *)
(***************************************************************************)
NextHard(acts, after) ==
  {j \in DOMAIN acts : /\ j > after
                       /\ Hard(acts[j])
                       /\ \A k \in (after + 1) .. (j - 1) : ~ Hard(acts[k])}

(***************************************************************************)
(* What to start once everything up to `after` has ended: the next segment *)
(* in parallel, or a HARD action if it follows at once.  The empty set     *)
(* says that the list is exhausted.                                        *)
(***************************************************************************)
NextToRun(acts, after) ==
  IF Segment(acts, after) # {} THEN Segment(acts, after) ELSE NextHard(acts, after)

(***************************************************************************)
(* The NONE and SOFT actions that were started in parallel with the one at *)
(* index i, itself a NONE or SOFT action.                                  *)
(***************************************************************************)
Parallel(acts, i) ==
  {j \in DOMAIN acts \ {i} :
     \A k \in (IF j < i THEN j .. i ELSE i .. j) : ~ Hard(acts[k])}

AreParallelActionsEnded(acts, i, softOnly, ended) ==
  \A j \in Parallel(acts, i) :
     (softOnly => Soft(acts[j])) => acts[j] \in ended
=============================================================================
