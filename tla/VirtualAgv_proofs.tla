------------------------- MODULE VirtualAgv_proofs -------------------------
(***************************************************************************)
(* Theorems about the virtual AGV, for every set of actions and orders and *)
(* every distance, duration and capacity of the battery.                   *)
(***************************************************************************)
EXTENDS VirtualAgv, Lists_proofs

-----------------------------------------------------------------------------
(* Lists of machines *)

MachineType ==
  [id : Actions, status : {Fresh} \cup (Status \ Ended), onPause : {Fresh} \cup Status,
   elapsed : 0 .. Duration - 1, terminate : BOOLEAN, cancel : BOOLEAN, pause : BOOLEAN]

PauseTypes == {"startPause", "stopPause"}

(* A machine with reports r while the vehicle is paused or not: the action *)
(* of an order is known to the controller, the status to resume is kept    *)
(* while it is paused, and it is paused with the vehicle.                  *)
Sound(m, r, paused) ==
  /\ m \in MachineType
  /\ m.id \in Instant \/ r[m.id] # Fresh
  /\ m.onPause # "PAUSED" /\ (m.status = "PAUSED" => m.onPause # Fresh)
  /\ paused => m.pause \/ Type(m.id) \in PauseTypes

SoundList(ms, r, paused) ==
  /\ ms \in Seq(MachineType)
  /\ \A i, j \in 1 .. Len(ms) : ms[i].id = ms[j].id => i = j
  /\ \A i \in 1 .. Len(ms) : Sound(ms[i], r, paused)

(* A machine is replaced by one of the same action.                        *)
LEMMA ReplaceSound ==
  ASSUME NEW ms \in Seq(MachineType), NEW i \in 1 .. Len(ms), NEW m,
         NEW r, NEW paused, NEW s, NEW resumed,
         SoundList(ms, r, paused), m.id = ms[i].id, Sound(m, s, resumed),
         \A j \in 1 .. Len(ms) : j # i => Sound(ms[j], s, resumed)
  PROVE  SoundList([ms EXCEPT ![i] = m], s, resumed)
<1> DEFINE new == [ms EXCEPT ![i] = m]
<1>1. m \in MachineType
  BY DEF Sound
<1>2. /\ new \in Seq(MachineType) /\ Len(new) = Len(ms)
      /\ \A j \in 1 .. Len(ms) : new[j] = IF j = i THEN m ELSE ms[j]
  BY <1>1, ExceptSeq
<1> HIDE DEF new
<1>3. \A j \in 1 .. Len(new) : Sound(new[j], s, resumed)
  BY <1>2
<1>4. \A j \in 1 .. Len(new) : new[j].id = ms[j].id
  BY <1>2
<1>5. \A j, k \in 1 .. Len(new) : new[j].id = new[k].id => j = k
  BY <1>2, <1>4 DEF SoundList
<1> QED
  BY <1>2, <1>3, <1>5 DEF SoundList, new

(* All machines are replaced by others of the same actions.                *)
LEMMA MapSound ==
  ASSUME NEW ms \in Seq(MachineType), NEW r, NEW paused,
         NEW new, new = [i \in DOMAIN ms |-> new[i]], NEW s, NEW resumed,
         SoundList(ms, r, paused),
         \A i \in 1 .. Len(ms) : new[i].id = ms[i].id /\ Sound(new[i], s, resumed)
  PROVE  SoundList(new, s, resumed)
<1>1. Len(ms) \in Nat /\ DOMAIN ms = 1 .. Len(ms)
  BY ElementFacts
<1>2. new = [i \in 1 .. Len(ms) |-> new[i]] /\ DOMAIN new = 1 .. Len(ms)
  BY <1>1
<1>3. \A i \in 1 .. Len(ms) : new[i] \in MachineType
  BY DEF Sound
<1>4. new \in Seq(MachineType) /\ Len(new) = Len(ms)
  BY <1>1, <1>2, <1>3, FunctionIsSeq
<1> QED
  BY <1>4 DEF SoundList

(* A machine is removed.                                                   *)
LEMMA RemoveSound ==
  ASSUME NEW ms \in Seq(MachineType), NEW i \in 1 .. Len(ms), NEW r, NEW paused,
         NEW s, NEW resumed, SoundList(ms, r, paused),
         \A j \in 1 .. Len(ms) : j # i => Sound(ms[j], s, resumed)
  PROVE  SoundList(RemoveAt(ms, i), s, resumed)
<1> DEFINE new == RemoveAt(ms, i)
<1>0. Len(ms) \in Nat
  BY ElementFacts
<1>1. /\ new \in Seq(MachineType) /\ Len(new) = Len(ms) - 1
      /\ \A j \in 1 .. Len(ms) - 1 : new[j] = IF j < i THEN ms[j] ELSE ms[j + 1]
  BY RemoveAtFacts
<1> HIDE DEF new
<1>2. ASSUME NEW j \in 1 .. Len(new)
      PROVE  \E k \in 1 .. Len(ms) : /\ new[j] = ms[k] /\ k # i
                                     /\ j < i => k = j
                                     /\ ~ (j < i) => k = j + 1
  BY <1>0, <1>1
<1>3. \A j \in 1 .. Len(new) : Sound(new[j], s, resumed)
  BY <1>2
<1>4. ASSUME NEW j \in 1 .. Len(new), NEW k \in 1 .. Len(new), new[j].id = new[k].id
      PROVE  j = k
  <2>1. PICK p \in 1 .. Len(ms) : /\ new[j] = ms[p] /\ p # i
                                  /\ j < i => p = j
                                  /\ ~ (j < i) => p = j + 1
    BY <1>2
  <2>2. PICK q \in 1 .. Len(ms) : /\ new[k] = ms[q] /\ q # i
                                  /\ k < i => q = k
                                  /\ ~ (k < i) => q = k + 1
    BY <1>2
  <2>3. p = q
    BY <1>4, <2>1, <2>2 DEF SoundList
  <2> QED
    BY <1>0, <1>1, <2>1, <2>2, <2>3
<1> QED
  BY <1>1, <1>3, <1>4 DEF SoundList, new

(* A machine of an action that has none is appended.                       *)
LEMMA AppendSound ==
  ASSUME NEW ms \in Seq(MachineType), NEW m, NEW r, NEW paused, NEW s, NEW resumed,
         SoundList(ms, r, paused), Sound(m, s, resumed),
         \A i \in 1 .. Len(ms) : ms[i].id # m.id /\ Sound(ms[i], s, resumed)
  PROVE  SoundList(Append(ms, m), s, resumed)
<1> DEFINE new == Append(ms, m)
<1>0. Len(ms) \in Nat
  BY ElementFacts
<1>1. /\ new \in Seq(MachineType) /\ Len(new) = Len(ms) + 1
      /\ \A i \in 1 .. Len(ms) : new[i] = ms[i]
      /\ new[Len(ms) + 1] = m
  BY AppendProperties DEF Sound
<1> HIDE DEF new
<1>2. \A i \in 1 .. Len(new) : i \in 1 .. Len(ms) \/ i = Len(ms) + 1
  BY <1>0, <1>1
<1>3. \A i \in 1 .. Len(new) : Sound(new[i], s, resumed)
  BY <1>1, <1>2
<1>4. \A i, j \in 1 .. Len(new) : new[i].id = new[j].id => i = j
  BY <1>1, <1>2 DEF SoundList
<1> QED
  BY <1>1, <1>3, <1>4 DEF SoundList, new

-----------------------------------------------------------------------------
(* The inductive invariant *)

VehicleType ==
  [driving : BOOLEAN, paused : BOOLEAN, charging : BOOLEAN, loaded : BOOLEAN, charge : 0 .. Full]

OrderType == [id : {NoOrder} \cup Orders, canceling : BOOLEAN, legs : 0 .. Legs]

Safe(v, d) ==
  v.driving => d > 0 /\ ~ v.paused /\ ~ v.charging /\ v.charge + 1 >= Threshold

(* An edge belongs to an order, which has a leg for it unless it is        *)
(* canceled.                                                               *)
OnOrder(d, o) == d > 0 => o.id # NoOrder /\ (o.canceling \/ o.legs > 0)

VehicleInv ==
  /\ vehicle \in VehicleType /\ toDrive \in 0 .. Distance
  /\ Safe(vehicle, toDrive)

ControllerInv ==
  /\ reported \in [Actions -> {Fresh} \cup Status]
  /\ order \in OrderType /\ OnOrder(toDrive, order)

MachinesInv == SoundList(machines, reported, vehicle.paused)

FlagsInv ==
  /\ tickPos \in Nat
  /\ lowError \in BOOLEAN /\ failed \in BOOLEAN /\ errorShown \in BOOLEAN

IInv == FlagsInv /\ VehicleInv /\ ControllerInv /\ MachinesInv

LEMMA ConstantFacts ==
  /\ Legs \in Nat /\ Distance \in Nat /\ Distance > 0 /\ Duration \in Nat /\ Duration > 0
  /\ Full \in Nat /\ Threshold \in Nat /\ Recovered \in Nat
  /\ Instant = OrderActions(NoOrder) /\ NoOrder \notin Orders
BY VirtualAgvAssumption

LEMMA InitInv == Init => IInv
<1> SUFFICES ASSUME Init PROVE IInv
  OBVIOUS
<1> USE ConstantFacts
<1>1. FlagsInv
  BY DEF Init, FlagsInv
<1>2. VehicleInv
  BY DEF Init, VehicleInv, VehicleType, Safe
<1>3. ControllerInv
  BY DEF Init, ControllerInv, OrderType, OnOrder
<1>4. MachinesInv
  <2>1. machines = << >> /\ << >> \in Seq(MachineType) /\ Len(machines) = 0
    BY DEF Init
  <2> QED
    BY <2>1 DEF MachinesInv, SoundList
<1> QED
  BY <1>1, <1>2, <1>3, <1>4 DEF IInv

(* The parts of the invariant that a list of machines and a vehicle meet   *)
(* on which nothing has changed.                                           *)
LEMMA SameSound ==
  ASSUME NEW ms, NEW r, NEW paused, NEW s, SoundList(ms, r, paused),
         \A i \in 1 .. Len(ms) : r[ms[i].id] # Fresh => s[ms[i].id] # Fresh
  PROVE  SoundList(ms, s, paused)
BY DEF SoundList, Sound

LEMMA LinkedFacts ==
  ASSUME NEW t, NEW v \in VehicleType, NEW d, Safe(v, d)
  PROVE  Linked(t, v) \in VehicleType /\ Safe(Linked(t, v), d)
<1>1. CASE t \in {"pick", "drop"}
  BY <1>1 DEF Linked, Safe, VehicleType
<1>2. CASE t \in {"startPause", "startCharging"}
  BY <1>2 DEF Linked, Safe, VehicleType
<1>3. CASE t \in {"stopPause", "stopCharging"}
  BY <1>3 DEF Linked, Safe, VehicleType
<1>4. CASE t \notin {"pick", "drop", "startPause", "startCharging", "stopPause", "stopCharging"}
  BY <1>4 DEF Linked
<1> QED
  BY <1>1, <1>2, <1>3, <1>4

(* Machines are paused and resumed with the vehicle.                       *)
LEMMA OthersSound ==
  ASSUME NEW ms \in Seq(MachineType), NEW r, NEW t, vehicle \in VehicleType,
         SoundList(ms, r, vehicle.paused)
  PROVE  SoundList(Others(t, ms), r, Linked(t, vehicle).paused)
<1>0. Len(ms) \in Nat /\ DOMAIN ms = 1 .. Len(ms) /\ \A i \in 1 .. Len(ms) : ms[i] \in MachineType
  BY ElementFacts
<1>1. ASSUME NEW p \in BOOLEAN
      PROVE  SoundList(SetPause(ms, p), r, p)
  <2> DEFINE new == SetPause(ms, p)
  <2>1. new = [i \in DOMAIN ms |-> new[i]]
    BY DEF SetPause
  <2>2. ASSUME NEW i \in 1 .. Len(ms)
        PROVE  new[i].id = ms[i].id /\ Sound(new[i], r, p)
    <3>1. new[i] = [ms[i] EXCEPT !.pause = p]
      BY <1>0 DEF SetPause
    <3>2. ms[i] \in MachineType /\ Sound(ms[i], r, vehicle.paused)
      BY <1>0 DEF SoundList
    <3> QED
      BY <3>1, <3>2 DEF Sound, MachineType
  <2> HIDE DEF new
  <2>3. SoundList(new, r, p)
    BY <2>1, <2>2, MapSound
  <2> QED
    BY <2>3 DEF new
<1>2. CASE t = "startPause" /\ ~ vehicle.paused
  BY <1>1, <1>2 DEF Others, Linked, VehicleType
<1>3. CASE t = "stopPause" /\ vehicle.paused
  BY <1>1, <1>3 DEF Others, Linked, VehicleType
<1>4. CASE ~ (t = "startPause" /\ ~ vehicle.paused) /\ ~ (t = "stopPause" /\ vehicle.paused)
  <2>1. Others(t, ms) = ms
    BY <1>4 DEF Others
  <2>2. Linked(t, vehicle).paused = vehicle.paused
    BY <1>4 DEF Linked, VehicleType
  <2> QED
    BY <2>1, <2>2
<1> QED
  BY <1>2, <1>3, <1>4

-----------------------------------------------------------------------------
(* A machine is ticked *)

(* What a tick of a machine and the execution of an action preserve.       *)
Handled ==
  /\ MachinesInv'
  /\ vehicle' \in VehicleType /\ Safe(vehicle', toDrive)
  /\ reported' \in [Actions -> {Fresh} \cup Status]
  /\ failed' \in BOOLEAN

LEMMA MachineFacts ==
  ASSUME IInv, tickPos \in DOMAIN machines
  PROVE  /\ machines \in Seq(MachineType) /\ tickPos \in 1 .. Len(machines)
         /\ machines[tickPos] \in MachineType
         /\ Sound(machines[tickPos], reported, vehicle.paused)
BY ElementFacts DEF IInv, MachinesInv, SoundList

(* Other machines are as sound as before if the one that reports has been  *)
(* started.                                                                *)
LEMMA ReportSound ==
  ASSUME IInv, NEW a \in Actions, NEW s \in Status,
         reported' = [reported EXCEPT ![a] = s]
  PROVE  /\ reported' \in [Actions -> {Fresh} \cup Status]
         /\ reported'[a] # Fresh
         /\ \A j \in 1 .. Len(machines) : Sound(machines[j], reported', vehicle.paused)
<1>1. reported \in [Actions -> {Fresh} \cup Status]
  BY DEF IInv, ControllerInv
<1>2. s # Fresh
  BY DEF Status, Ended, Fresh
<1>3. \A b \in Actions : reported[b] # Fresh => reported'[b] # Fresh
  BY <1>1, <1>2
<1>4. \A j \in 1 .. Len(machines) : Sound(machines[j], reported, vehicle.paused)
  BY DEF IInv, MachinesInv, SoundList
<1>5. \A j \in 1 .. Len(machines) : Sound(machines[j], reported', vehicle.paused)
  BY <1>3, <1>4 DEF Sound, MachineType
<1> QED
  BY <1>1, <1>2, <1>5

(* The ticked machine is replaced and its action is reported.              *)
LEMMA ReplaceTicks ==
  ASSUME IInv, tickPos \in DOMAIN machines, NEW m, m = machines[tickPos],
         NEW n, n.id = m.id, Sound(n, reported', vehicle.paused),
         machines' = [machines EXCEPT ![tickPos] = n],
         vehicle' = vehicle, failed' = failed,
         reported' \in [Actions -> {Fresh} \cup Status],
         \A j \in 1 .. Len(machines) : Sound(machines[j], reported', vehicle.paused)
  PROVE  Handled
<1>1. machines \in Seq(MachineType) /\ tickPos \in 1 .. Len(machines)
  BY MachineFacts
<1>2. SoundList(machines, reported, vehicle.paused)
  BY DEF IInv, MachinesInv
<1>3. SoundList([machines EXCEPT ![tickPos] = n], reported', vehicle.paused)
  BY <1>1, <1>2, ReplaceSound
<1>4. vehicle \in VehicleType /\ Safe(vehicle, toDrive) /\ failed \in BOOLEAN
  BY DEF IInv, VehicleInv, FlagsInv
<1> QED
  BY <1>3, <1>4 DEF Handled, MachinesInv

LEMMA TransitionTicks ==
  ASSUME IInv, tickPos \in DOMAIN machines,
         NEW m, m = machines[tickPos],
         NEW s \in {"INITIALIZING", "RUNNING"} \cup Ended, Transition(m, s)
  PROVE  Handled
<1>1. /\ machines \in Seq(MachineType) /\ tickPos \in 1 .. Len(machines)
      /\ m \in MachineType /\ m.id \in Actions /\ Sound(m, reported, vehicle.paused)
  BY MachineFacts DEF MachineType
<1>2. s \in Status /\ s # "PAUSED"
  BY DEF Status, Ended
<1>3. reported' = [reported EXCEPT ![m.id] = s] /\ failed' = failed
  BY DEF Transition
<1>4. /\ reported' \in [Actions -> {Fresh} \cup Status] /\ reported'[m.id] # Fresh
      /\ \A j \in 1 .. Len(machines) : Sound(machines[j], reported', vehicle.paused)
  BY <1>1, <1>2, <1>3, ReportSound
<1>5. vehicle \in VehicleType /\ Safe(vehicle, toDrive) /\ failed \in BOOLEAN
  BY DEF IInv, VehicleInv, FlagsInv
<1>6. SoundList(machines, reported, vehicle.paused)
  BY DEF IInv, MachinesInv
<1>7. CASE s \in Ended
  <2> DEFINE rest == RemoveAt(machines, tickPos)
  <2>1. SoundList(rest, reported', vehicle.paused)
    BY <1>1, <1>4, <1>6, RemoveSound
  <2>2. rest \in Seq(MachineType)
    BY <2>1 DEF SoundList
  <2> HIDE DEF rest
  <2>3. CASE s = "FINISHED"
    <3>1. machines' = Others(Type(m.id), rest) /\ vehicle' = Linked(Type(m.id), vehicle)
      BY <1>7, <2>3 DEF Transition, rest
    <3>2. SoundList(machines', reported', vehicle'.paused)
      BY <1>5, <2>1, <2>2, <3>1, OthersSound
    <3>3. vehicle' \in VehicleType /\ Safe(vehicle', toDrive)
      BY <1>5, <3>1, LinkedFacts
    <3> QED
      BY <1>3, <1>4, <1>5, <3>2, <3>3 DEF Handled, MachinesInv
  <2>4. CASE s = "FAILED"
    <3>1. machines' = rest /\ vehicle' = vehicle
      BY <1>7, <2>4 DEF Transition, Others, rest
    <3> QED
      BY <1>3, <1>4, <1>5, <2>1, <3>1 DEF Handled, MachinesInv
  <2> QED
    BY <1>7, <2>3, <2>4 DEF Ended
<1>8. CASE s \notin Ended
  <2> DEFINE next == [m EXCEPT !.status = s, !.elapsed = IF s = "PAUSED" THEN @ ELSE 0]
  <2>1. machines' = [machines EXCEPT ![tickPos] = next] /\ vehicle' = vehicle
    BY <1>8 DEF Transition
  <2>2. next = [m EXCEPT !.status = s, !.elapsed = 0]
    BY <1>2
  <2> HIDE DEF next
  <2>3. s \in {Fresh} \cup (Status \ Ended) /\ 0 \in 0 .. Duration - 1
    BY <1>2, <1>8, ConstantFacts
  <2>4. /\ next \in MachineType
        /\ next.id = m.id /\ next.status = s /\ next.onPause = m.onPause /\ next.pause = m.pause
    BY <1>1, <2>2, <2>3 DEF MachineType
  <2>5. Sound(next, reported', vehicle.paused)
    BY <1>1, <1>2, <1>4, <2>4 DEF Sound
  <2> QED
    BY <1>3, <1>4, <2>1, <2>4, <2>5, ReplaceTicks
<1> QED
  BY <1>7, <1>8

LEMMA PauseTicks ==
  ASSUME IInv, tickPos \in DOMAIN machines, NEW m, m = machines[tickPos],
         m.status # "PAUSED", Pause(m)
  PROVE  Handled
<1>1. m \in MachineType /\ m.id \in Actions /\ Sound(m, reported, vehicle.paused)
  BY MachineFacts DEF MachineType
<1>2. "PAUSED" \in Status \ Ended
  BY DEF Status, Ended
<1>3. /\ reported' \in [Actions -> {Fresh} \cup Status] /\ reported'[m.id] # Fresh
      /\ \A j \in 1 .. Len(machines) : Sound(machines[j], reported', vehicle.paused)
  BY <1>1, <1>2, ReportSound DEF Pause
<1> DEFINE before == IF m.status = Fresh THEN OnInit(Type(m.id)) ELSE m.status
           next == [m EXCEPT !.status = "PAUSED", !.onPause = before]
<1>4. machines' = [machines EXCEPT ![tickPos] = next] /\ vehicle' = vehicle /\ failed' = failed
  BY DEF Pause
<1>5. before \in Status /\ before # "PAUSED" /\ before # Fresh
  <2>1. m.status \in {Fresh} \cup Status
    BY <1>1 DEF MachineType
  <2>2. /\ OnInit(Type(m.id)) \in {"INITIALIZING", "RUNNING", "FINISHED"}
        /\ {"INITIALIZING", "RUNNING", "FINISHED"} \subseteq Status
    BY DEF OnInit, Status, Ended
  <2> QED
    BY <2>1, <2>2 DEF Fresh, Status, Ended
<1> HIDE DEF before
<1>6. /\ next \in MachineType
      /\ next.id = m.id /\ next.status = "PAUSED" /\ next.onPause = before /\ next.pause = m.pause
  BY <1>1, <1>2, <1>5 DEF MachineType
<1> HIDE DEF next
<1>7. Sound(next, reported', vehicle.paused)
  BY <1>1, <1>3, <1>5, <1>6 DEF Sound
<1> QED
  BY <1>3, <1>4, <1>6, <1>7, ReplaceTicks

LEMMA ResumeTicks ==
  ASSUME IInv, tickPos \in DOMAIN machines, NEW m, m = machines[tickPos],
         m.status = "PAUSED", Resume(m)
  PROVE  Handled
<1>1. m \in MachineType /\ m.id \in Actions /\ Sound(m, reported, vehicle.paused)
  BY MachineFacts DEF MachineType
<1>2. m.onPause \in Status /\ m.onPause # "PAUSED" /\ m.onPause # Fresh
  BY <1>1 DEF MachineType, Sound
<1>3. CASE m.onPause \in Ended
  BY <1>3, TransitionTicks DEF Resume
<1>4. CASE m.onPause \notin Ended
  <2> DEFINE next == [m EXCEPT !.status = m.onPause, !.onPause = Fresh]
  <2>1. /\ reported' = [reported EXCEPT ![m.id] = m.onPause]
        /\ machines' = [machines EXCEPT ![tickPos] = next]
        /\ vehicle' = vehicle /\ failed' = failed
    BY <1>4 DEF Resume
  <2>2. /\ reported' \in [Actions -> {Fresh} \cup Status] /\ reported'[m.id] # Fresh
        /\ \A j \in 1 .. Len(machines) : Sound(machines[j], reported', vehicle.paused)
    BY <1>1, <1>2, <2>1, ReportSound
  <2>3. /\ next \in MachineType
        /\ next.id = m.id /\ next.status = m.onPause /\ next.onPause = Fresh /\ next.pause = m.pause
    BY <1>1, <1>2, <1>4 DEF MachineType
  <2> HIDE DEF next
  <2>4. Sound(next, reported', vehicle.paused)
    BY <1>1, <1>2, <2>2, <2>3 DEF Sound, Fresh
  <2> QED
    BY <2>1, <2>2, <2>3, <2>4, ReplaceTicks
<1> QED
  BY <1>3, <1>4

LEMMA ElapseTicks ==
  ASSUME IInv, tickPos \in DOMAIN machines, NEW m, m = machines[tickPos], Elapse(m)
  PROVE  Handled
<1>1. m \in MachineType /\ m.id \in Actions /\ Sound(m, reported, vehicle.paused)
  BY MachineFacts DEF MachineType
<1>2. CASE m.elapsed + 1 >= Duration
  <2>1. NextStatus(m.status) \in {"INITIALIZING", "RUNNING"} \cup Ended
    BY DEF NextStatus, Ended
  <2> QED
    BY <1>2, <2>1, TransitionTicks DEF Elapse
<1>3. CASE ~ (m.elapsed + 1 >= Duration)
  <2> DEFINE next == [m EXCEPT !.elapsed = @ + 1]
  <2>1. /\ machines' = [machines EXCEPT ![tickPos] = next]
        /\ reported' = reported /\ vehicle' = vehicle /\ failed' = failed
    BY <1>3 DEF Elapse
  <2>2. m.elapsed + 1 \in 0 .. Duration - 1
    BY <1>1, <1>3, ConstantFacts DEF MachineType
  <2>3. /\ next \in MachineType
        /\ next.id = m.id /\ next.status = m.status /\ next.onPause = m.onPause /\ next.pause = m.pause
    BY <1>1, <2>2 DEF MachineType
  <2> HIDE DEF next
  <2>4. Sound(next, reported, vehicle.paused)
    BY <1>1, <2>3 DEF Sound
  <2>5. /\ reported \in [Actions -> {Fresh} \cup Status]
        /\ \A j \in 1 .. Len(machines) : Sound(machines[j], reported, vehicle.paused)
    BY DEF IInv, ControllerInv, MachinesInv, SoundList
  <2> QED
    BY <2>1, <2>3, <2>4, <2>5, ReplaceTicks
<1> QED
  BY <1>2, <1>3

(* Nothing changes but, when the tick throws, failed.                      *)
LEMMA StandTicks ==
  ASSUME IInv, UNCHANGED << reported, machines, vehicle >>, failed' \in BOOLEAN
  PROVE  Handled
BY DEF IInv, MachinesInv, VehicleInv, ControllerInv, Handled

LEMMA AdvanceTicks ==
  ASSUME IInv, tickPos \in DOMAIN machines, NEW m, m = machines[tickPos], Advance(m)
  PROVE  Handled
<1>1. CASE m.pause /\ m.status # "PAUSED" /\ Pause(m)
  BY <1>1, PauseTicks
<1>2. CASE ~ m.pause /\ m.status = "PAUSED" /\ Resume(m)
  BY <1>2, ResumeTicks
<1>3. CASE Transition(m, OnInit(Type(m.id)))
  <2>1. OnInit(Type(m.id)) \in {"INITIALIZING", "RUNNING"} \cup Ended
    BY DEF OnInit, Ended
  <2> QED
    BY <1>3, <2>1, TransitionTicks
<1>4. CASE Transition(m, "FAILED")
  <2>1. "FAILED" \in {"INITIALIZING", "RUNNING"} \cup Ended
    BY DEF Ended
  <2> QED
    BY <1>4, <2>1, TransitionTicks
<1>5. CASE Terminate(m)
  BY <1>5, StandTicks DEF Terminate
<1>6. CASE UNCHANGED << reported, machines, vehicle, failed >>
  BY <1>6, StandTicks DEF IInv, FlagsInv
<1>7. CASE Elapse(m)
  BY <1>7, ElapseTicks
<1> QED
  BY <1>1, <1>2, <1>3, <1>4, <1>5, <1>6, <1>7 DEF Advance

-----------------------------------------------------------------------------
(* Every step preserves the invariant *)

LEMMA HandledInv ==
  ASSUME IInv, Handled, tickPos' \in Nat, UNCHANGED << toDrive, lowError, errorShown, order >>
  PROVE  IInv'
<1>1. FlagsInv'
  BY DEF IInv, FlagsInv, Handled
<1>2. VehicleInv'
  BY DEF IInv, VehicleInv, Handled, Safe
<1>3. ControllerInv'
  BY DEF IInv, ControllerInv, Handled, OnOrder
<1> QED
  BY <1>1, <1>2, <1>3 DEF IInv, Handled

LEMMA TickMachineInv ==
  ASSUME IInv, TickMachine
  PROVE  IInv'
<1>1. Handled
  BY AdvanceTicks DEF TickMachine
<1>2. tickPos' \in Nat
  BY DEF TickMachine, IInv, FlagsInv
<1> QED
  BY <1>1, <1>2, HandledInv DEF TickMachine

LEMMA ExecuteActionInv ==
  ASSUME IInv, NEW a \in Actions, reported[a] = Fresh,
         \A i \in 1 .. Len(machines) : machines[i].id # a,
         ExecuteAction(a), UNCHANGED << toDrive, lowError, tickPos, failed, errorShown, order >>
  PROVE  IInv'
<1>1. /\ vehicle \in VehicleType /\ Safe(vehicle, toDrive) /\ failed \in BOOLEAN /\ tickPos \in Nat
      /\ reported \in [Actions -> {Fresh} \cup Status]
      /\ machines \in Seq(MachineType) /\ SoundList(machines, reported, vehicle.paused)
  BY DEF IInv, VehicleInv, FlagsInv, ControllerInv, MachinesInv, SoundList
<1>2. CASE Executable(a)
  <2> DEFINE m == Machine(a)
             status == IF a \in Instant THEN Fresh ELSE "WAITING"
  <2>1. reported' = [reported EXCEPT ![a] = status] /\ machines' = Append(machines, m)
    BY <1>2 DEF ExecuteAction
  <2>2. /\ vehicle' \in VehicleType /\ Safe(vehicle', toDrive) /\ vehicle'.paused = vehicle.paused
        /\ vehicle.paused \in BOOLEAN
    BY <1>1, <1>2 DEF ExecuteAction, VehicleType, Safe
  <2>3. status \in {Fresh} \cup Status /\ (a \in Instant \/ status # Fresh)
    BY DEF Status, Fresh
  <2> HIDE DEF status
  <2>4. reported' \in [Actions -> {Fresh} \cup Status] /\ reported'[a] = status
    BY <1>1, <2>1, <2>3
  <2>5. /\ m.id = a /\ m.status = Fresh /\ m.onPause = Fresh
        /\ m.pause = (Type(a) \notin PauseTypes /\ vehicle.paused)
    BY DEF Machine, PauseTypes
  <2>6. m \in MachineType
    BY <2>2, ConstantFacts DEF Machine, MachineType
  <2> HIDE DEF m
  <2>7. Sound(m, reported', vehicle.paused)
    BY <2>2, <2>3, <2>4, <2>5, <2>6 DEF Sound, Fresh
  <2>8. ASSUME NEW i \in 1 .. Len(machines)
        PROVE  machines[i].id # m.id /\ Sound(machines[i], reported', vehicle.paused)
    <3>1. Sound(machines[i], reported, vehicle.paused) /\ machines[i].id \in Actions
      BY <1>1 DEF SoundList, Sound, MachineType
    <3>2. reported'[machines[i].id] = reported[machines[i].id]
      BY <1>1, <2>1, <3>1
    <3> QED
      BY <2>5, <3>1, <3>2 DEF Sound
  <2>9. SoundList(machines', reported', vehicle.paused)
    BY <1>1, <2>1, <2>7, <2>8, AppendSound
  <2>10. Handled
    BY <1>1, <2>2, <2>4, <2>9 DEF Handled, MachinesInv
  <2> QED
    BY <1>1, <2>10, HandledInv
<1>3. CASE ~ Executable(a)
  <2>1. reported' = [reported EXCEPT ![a] = "FAILED"] /\ machines' = machines /\ vehicle' = vehicle
    BY <1>3 DEF ExecuteAction
  <2>2. /\ reported' \in [Actions -> {Fresh} \cup Status]
        /\ \A j \in 1 .. Len(machines) : Sound(machines[j], reported', vehicle.paused)
    BY <2>1, ReportSound DEF Status, Ended
  <2>3. MachinesInv'
    BY <1>1, <2>1, <2>2 DEF MachinesInv, SoundList
  <2>4. Handled
    BY <1>1, <2>1, <2>2, <2>3 DEF Handled
  <2> QED
    BY <1>1, <2>4, HandledInv
<1> QED
  BY <1>2, <1>3

LEMMA ExecuteOrderActionInv ==
  ASSUME IInv, NEW a \in Actions, ExecuteOrderAction(a)
  PROVE  IInv'
<1>1. reported[a] = Fresh /\ a \notin Instant
  BY DEF ExecuteOrderAction, ActiveActions
<1>2. \A i \in 1 .. Len(machines) : machines[i].id # a
  BY <1>1 DEF IInv, MachinesInv, SoundList, Sound
<1> QED
  BY <1>1, <1>2, ExecuteActionInv DEF ExecuteOrderAction

LEMMA ExecuteInstantActionInv ==
  ASSUME IInv, NEW a \in Actions, ExecuteInstantAction(a)
  PROVE  IInv'
<1>1. DOMAIN machines = 1 .. Len(machines)
  BY ElementFacts DEF IInv, MachinesInv, SoundList
<1>2. \A i \in 1 .. Len(machines) : machines[i].id # a
  BY <1>1 DEF ExecuteInstantAction, Range
<1> QED
  BY <1>2, ExecuteActionInv DEF ExecuteInstantAction

(* The machines are told to terminate or to cancel.                        *)
LEMMA ToldSound ==
  ASSUME IInv, NEW as, NEW s \in [Actions -> {Fresh} \cup Status],
         \A a \in Actions : reported[a] # Fresh => s[a] # Fresh,
         NEW told, \/ told = FinishEdgeActions(machines, as)
                   \/ CancelActions(as) /\ told = machines'
  PROVE  SoundList(told, s, vehicle.paused)
<1>1. /\ machines \in Seq(MachineType) /\ SoundList(machines, reported, vehicle.paused)
      /\ DOMAIN machines = 1 .. Len(machines)
  BY ElementFacts DEF IInv, MachinesInv, SoundList
<1>2. /\ told = [i \in DOMAIN machines |-> told[i]]
      /\ \A i \in 1 .. Len(machines) : \/ told[i] = machines[i]
                                       \/ told[i] = [machines[i] EXCEPT !.terminate = TRUE]
                                       \/ told[i] = [machines[i] EXCEPT !.cancel = TRUE]
  BY <1>1 DEF FinishEdgeActions, CancelActions
<1>3. ASSUME NEW i \in 1 .. Len(machines)
      PROVE  told[i].id = machines[i].id /\ Sound(told[i], s, vehicle.paused)
  <2>1. PICK m \in MachineType : m = machines[i]
    BY <1>1 DEF SoundList, Sound
  <2>2. Sound(m, s, vehicle.paused)
    BY <1>1, <2>1 DEF SoundList, Sound, MachineType
  <2>3. CASE told[i] = m
    BY <2>1, <2>2, <2>3
  <2>4. CASE told[i] = [m EXCEPT !.terminate = TRUE]
    BY <2>1, <2>2, <2>4 DEF Sound, MachineType
  <2>5. CASE told[i] = [m EXCEPT !.cancel = TRUE]
    BY <2>1, <2>2, <2>5 DEF Sound, MachineType
  <2> QED
    BY <1>2, <2>1, <2>3, <2>4, <2>5
<1> QED
  BY <1>1, <1>2, <1>3, MapSound

(* What the steps of a tick that move or charge the vehicle start from.    *)
LEMMA StateFacts ==
  ASSUME IInv
  PROVE  /\ vehicle \in VehicleType /\ vehicle.charge \in 0 .. Full
         /\ vehicle.driving \in BOOLEAN /\ vehicle.paused \in BOOLEAN /\ vehicle.charging \in BOOLEAN
         /\ toDrive \in 0 .. Distance /\ Safe(vehicle, toDrive)
         /\ tickPos \in Nat
         /\ lowError \in BOOLEAN /\ failed \in BOOLEAN /\ errorShown \in BOOLEAN
         /\ reported \in [Actions -> {Fresh} \cup Status]
         /\ order \in OrderType /\ order.legs \in 0 .. Legs /\ order.canceling \in BOOLEAN
         /\ order.id \in {NoOrder} \cup Orders
         /\ OnOrder(toDrive, order)
         /\ SoundList(machines, reported, vehicle.paused)
BY DEF IInv, FlagsInv, VehicleInv, ControllerInv, MachinesInv, VehicleType, OrderType

LEMMA AdvanceTraverseInv ==
  ASSUME IInv, AdvanceTraverse
  PROVE  IInv'
<1> USE StateFacts, ConstantFacts
<1>1. /\ tickPos' = 0 /\ failed' = failed /\ reported' = reported
      /\ toDrive > 0 /\ ~ vehicle.paused /\ ~ vehicle.charging
  BY DEF AdvanceTraverse, TickEnds
<1>2. Drained \in 0 .. Full /\ (~ IsLow => Drained + 1 >= Threshold)
  BY DEF Drained, IsLow
<1>3. IsLow \in BOOLEAN
  BY DEF IsLow
<1> HIDE DEF Drained, IsLow
<1>4. CASE StartDriving
  <2>1. vehicle' = [vehicle EXCEPT !.driving = ~ IsLow]
        /\ UNCHANGED << machines, toDrive, lowError, errorShown, order >>
    BY <1>4 DEF StartDriving
  <2>2. /\ vehicle' \in VehicleType /\ vehicle'.driving = ~ IsLow /\ vehicle'.paused = vehicle.paused
        /\ vehicle'.charging = vehicle.charging /\ vehicle'.charge = vehicle.charge
    BY <1>3, <2>1 DEF VehicleType
  <2>3. Safe(vehicle', toDrive)
    BY <1>1, <2>2 DEF Safe, IsLow
  <2> QED
    BY <1>1, <2>1, <2>2, <2>3 DEF IInv, FlagsInv, VehicleInv, ControllerInv, MachinesInv
<1>5. CASE Drive
  <2>1. /\ vehicle' = [vehicle EXCEPT !.driving = ~ IsLow, !.charge = Drained]
        /\ toDrive > 1 /\ toDrive' = toDrive - 1
        /\ lowError' = (lowError \/ IsLow) /\ errorShown' = (errorShown \/ IsLow)
        /\ machines' = machines /\ order' = order
    BY <1>5 DEF Drive
  <2>2. /\ vehicle' \in VehicleType /\ vehicle'.driving = ~ IsLow /\ vehicle'.paused = vehicle.paused
        /\ vehicle'.charging = vehicle.charging /\ vehicle'.charge = Drained
    BY <1>2, <1>3, <2>1 DEF VehicleType
  <2>3. Safe(vehicle', toDrive')
    BY <1>1, <1>2, <2>1, <2>2 DEF Safe
  <2>4. OnOrder(toDrive', order')
    BY <1>1, <2>1 DEF OnOrder
  <2>5. lowError' \in BOOLEAN /\ errorShown' \in BOOLEAN /\ toDrive' \in 0 .. Distance
    BY <1>3, <2>1
  <2> QED
    BY <1>1, <2>1, <2>2, <2>3, <2>4, <2>5 DEF IInv, FlagsInv, VehicleInv, ControllerInv, MachinesInv
<1>6. CASE Arrive
  <2>1. /\ vehicle' = [vehicle EXCEPT !.driving = FALSE, !.charge = Drained] /\ toDrive' = 0
        /\ lowError' = lowError /\ errorShown' = errorShown
    BY <1>6 DEF Arrive
  <2>2. vehicle' \in VehicleType /\ ~ vehicle'.driving /\ vehicle'.paused = vehicle.paused
    BY <1>2, <2>1 DEF VehicleType
  <2>3. SoundList(machines', reported', vehicle'.paused)
    BY <1>1, <1>6, <2>2, ToldSound DEF Arrive
  <2>4. order' \in OrderType
    <3>1. CASE order.canceling
      BY <1>6, <3>1 DEF Arrive
    <3>2. CASE ~ order.canceling
      <4>1. order.legs > 0 /\ order.legs - 1 \in 0 .. Legs
        BY <1>1, <3>2 DEF OnOrder
      <4>2. order' = [order EXCEPT !.legs = @ - 1]
        BY <1>6, <3>2 DEF Arrive
      <4> QED
        BY <4>1, <4>2 DEF OrderType
    <3> QED
      BY <3>1, <3>2
  <2>5. Safe(vehicle', toDrive') /\ OnOrder(toDrive', order')
    BY <2>1, <2>2 DEF Safe, OnOrder
  <2> QED
    BY <1>1, <2>1, <2>2, <2>3, <2>4, <2>5 DEF IInv, FlagsInv, VehicleInv, ControllerInv, MachinesInv
<1> QED
  BY <1>4, <1>5, <1>6 DEF AdvanceTraverse

LEMMA AdvanceBatteryChargeInv ==
  ASSUME IInv, AdvanceBatteryCharge
  PROVE  IInv'
<1> USE StateFacts, ConstantFacts
<1>1. Charged \in 0 .. Full
  BY DEF Charged
<1>2. /\ tickPos' = 0 /\ vehicle.charging
      /\ vehicle' = [vehicle EXCEPT !.charge = Charged, !.charging = Charged # Full]
      /\ UNCHANGED << machines, toDrive, failed, reported, order >>
  BY DEF AdvanceBatteryCharge, TickEnds
<1>3. lowError' \in BOOLEAN /\ errorShown' \in BOOLEAN
  BY DEF AdvanceBatteryCharge
<1>4. vehicle' \in VehicleType /\ vehicle'.driving = vehicle.driving /\ vehicle'.paused = vehicle.paused
  BY <1>1, <1>2 DEF VehicleType
<1>5. Safe(vehicle', toDrive)
  BY <1>2, <1>4 DEF Safe
<1> QED
  BY <1>2, <1>3, <1>4, <1>5 DEF IInv, FlagsInv, VehicleInv, ControllerInv, MachinesInv

LEMMA TickInv ==
  ASSUME IInv, Tick
  PROVE  IInv'
<1>1. CASE TickBegins
  BY <1>1 DEF TickBegins, controllerVars, IInv, FlagsInv, VehicleInv, ControllerInv, MachinesInv
<1>2. CASE Stand
  BY <1>2 DEF Stand, TickEnds, controllerVars, IInv, FlagsInv, VehicleInv, ControllerInv, MachinesInv
<1> QED
  BY <1>1, <1>2, TickMachineInv, AdvanceTraverseInv, AdvanceBatteryChargeInv DEF Tick

-----------------------------------------------------------------------------

LEMMA ReceiveOrderInv ==
  ASSUME IInv, NEW o \in Orders, ReceiveOrder(o)
  PROVE  IInv'
<1> USE StateFacts, ConstantFacts
<1>1. /\ order.id = NoOrder /\ order' = [id |-> o, canceling |-> FALSE, legs |-> Legs]
      /\ UNCHANGED << adapterVars, reported, errorShown >>
  BY DEF ReceiveOrder
<1>2. toDrive = 0
  BY <1>1 DEF OnOrder
<1>3. order' \in OrderType /\ OnOrder(toDrive, order')
  BY <1>1, <1>2 DEF OrderType, OnOrder
<1> QED
  BY <1>1, <1>3 DEF adapterVars, IInv, FlagsInv, VehicleInv, ControllerInv, MachinesInv

LEMMA BeginEdgeInv ==
  ASSUME IInv, BeginEdge
  PROVE  IInv'
<1> USE StateFacts, ConstantFacts
<1>1. /\ order.id # NoOrder /\ order.legs > 0 /\ toDrive = 0 /\ toDrive' = Distance
      /\ UNCHANGED << machines, vehicle, lowError, tickPos, failed, controllerVars >>
  BY DEF BeginEdge, TraverseEdge
<1>2. Safe(vehicle, toDrive') /\ OnOrder(toDrive', order) /\ toDrive' \in 0 .. Distance
  BY <1>1 DEF Safe, OnOrder
<1> QED
  BY <1>1, <1>2 DEF controllerVars, IInv, FlagsInv, VehicleInv, ControllerInv, MachinesInv

LEMMA CompleteOrderInv ==
  ASSUME IInv, CompleteOrder
  PROVE  IInv'
<1> USE StateFacts, ConstantFacts
<1>1. /\ ~ order.canceling /\ order.legs = 0 /\ order' = [order EXCEPT !.id = NoOrder]
      /\ UNCHANGED << adapterVars, reported, errorShown >>
  BY DEF CompleteOrder
<1>2. toDrive = 0
  BY <1>1 DEF OnOrder
<1>3. order' \in OrderType /\ OnOrder(toDrive, order')
  BY <1>1, <1>2 DEF OrderType, OnOrder
<1> QED
  BY <1>1, <1>3 DEF adapterVars, IInv, FlagsInv, VehicleInv, ControllerInv, MachinesInv

LEMMA CancelOrderInv ==
  ASSUME IInv, CancelOrder
  PROVE  IInv'
<1> USE StateFacts, ConstantFacts
<1> DEFINE canceled == {a \in ActiveActions : reported[a] \notin {Fresh, "WAITING"} \cup Ended}
<1>1. /\ order' = [order EXCEPT !.canceling = TRUE]
      /\ reported' = [a \in Actions |->
                        IF a \in ActiveActions /\ reported[a] \in {Fresh, "WAITING"} THEN "FAILED"
                        ELSE reported[a]]
      /\ CancelActions(canceled)
      /\ UNCHANGED << vehicle, toDrive, lowError, tickPos, failed, errorShown >>
  BY DEF CancelOrder
<1>2. /\ reported' \in [Actions -> {Fresh} \cup Status]
      /\ \A a \in Actions : reported[a] # Fresh => reported'[a] # Fresh
  BY <1>1 DEF Status, Ended, Fresh
<1> HIDE DEF canceled
<1>3. SoundList(machines', reported', vehicle.paused)
  BY <1>1, <1>2, ToldSound
<1>4. order' \in OrderType /\ OnOrder(toDrive, order')
  BY <1>1 DEF OrderType, OnOrder
<1> QED
  BY <1>1, <1>2, <1>3, <1>4 DEF IInv, FlagsInv, VehicleInv, ControllerInv, MachinesInv

LEMMA StopAgvInv ==
  ASSUME IInv, StopAgv
  PROVE  IInv'
<1> USE StateFacts, ConstantFacts
<1>1. /\ toDrive' = 0 /\ vehicle' = [vehicle EXCEPT !.driving = FALSE, !.paused = FALSE]
      /\ order' = [id |-> NoOrder, canceling |-> FALSE, legs |-> 0]
      /\ UNCHANGED << machines, lowError, tickPos, failed, reported, errorShown >>
  BY DEF StopAgv, StopTraverse
<1>2. vehicle' \in VehicleType /\ ~ vehicle'.driving /\ ~ vehicle'.paused
  BY <1>1 DEF VehicleType
<1>3. SoundList(machines', reported', vehicle'.paused)
  BY <1>1, <1>2 DEF SoundList, Sound
<1>4. /\ order' \in OrderType /\ OnOrder(toDrive', order') /\ Safe(vehicle', toDrive')
      /\ toDrive' \in 0 .. Distance
  BY <1>1, <1>2 DEF OrderType, OnOrder, Safe
<1> QED
  BY <1>1, <1>2, <1>3, <1>4 DEF IInv, FlagsInv, VehicleInv, ControllerInv, MachinesInv

LEMMA NextInv == IInv /\ [Next]_vars => IInv'
<1> SUFFICES ASSUME IInv, [Next]_vars PROVE IInv'
  OBVIOUS
<1>1. CASE UNCHANGED vars
  BY <1>1 DEF vars, adapterVars, controllerVars, IInv, FlagsInv, VehicleInv, ControllerInv, MachinesInv
<1>2. CASE Next
  BY <1>2, TickInv, ReceiveOrderInv, ExecuteOrderActionInv, ExecuteInstantActionInv, BeginEdgeInv,
     CompleteOrderInv, CancelOrderInv, StopAgvInv DEF Next
<1> QED
  BY <1>1, <1>2

LEMMA Invariance == Spec => []IInv
BY InitInv, NextInv, PTL DEF Spec

-----------------------------------------------------------------------------
(* Theorems *)

LEMMA TypeFacts == IInv => TypeOK
<1> SUFFICES ASSUME IInv PROVE TypeOK
  OBVIOUS
<1> USE StateFacts
<1>1. machines \in Seq(MachineType)
  BY DEF SoundList
<1>2. IsInjective([i \in DOMAIN machines |-> machines[i].id])
  <2>1. DOMAIN machines = 1 .. Len(machines)
    BY <1>1, ElementFacts
  <2>2. \A i, j \in DOMAIN machines : machines[i].id = machines[j].id => i = j
    BY <2>1 DEF SoundList
  <2> QED
    BY <2>2 DEF IsInjective
<1>3. {lowError, failed, errorShown} \subseteq BOOLEAN
  OBVIOUS
<1> QED
  BY <1>1, <1>2, <1>3 DEF TypeOK, MachineType, VehicleType, OrderType

(* The adapter has at most one machine for an action, and the state it and *)
(* the controller keep has its types.                                      *)
THEOREM TypeCorrect == Spec => []TypeOK
BY Invariance, TypeFacts, PTL

(* The vehicle moves only on an edge and never while it is paused or       *)
(* charging, and a low battery stops it after one tick.                    *)
THEOREM DrivesSafelyHolds == Spec => []DrivesSafely
<1>1. IInv => DrivesSafely
  BY DEF IInv, VehicleInv, Safe, DrivesSafely
<1> QED
  BY <1>1, Invariance, PTL

(* Statuses change only to those allowed while the AGV is paused.          *)
Suspended ==
  \A a \in Actions : reported'[a] # reported[a] =>
    reported'[a] \in {"WAITING", "PAUSED", "FAILED"} \/ Type(a) \in PauseTypes

LEMMA TickMachineSuspends ==
  ASSUME IInv, vehicle.paused, TickMachine
  PROVE  Suspended
<1>1. PICK m \in MachineType : m = machines[tickPos]
  BY MachineFacts DEF TickMachine
<1>2. Advance(m) /\ m.id \in Actions /\ (m.pause \/ Type(m.id) \in PauseTypes)
  BY <1>1, MachineFacts DEF TickMachine, Sound, MachineType
<1>3. reported' = reported \/ \E s \in Status : reported' = [reported EXCEPT ![m.id] = s]
  <2> USE DEF Status, Ended
  <2>1. ASSUME NEW s \in Status, Transition(m, s)
        PROVE  \E r \in Status : reported' = [reported EXCEPT ![m.id] = r]
    BY <2>1 DEF Transition
  <2>2. OnInit(Type(m.id)) \in Status /\ NextStatus(m.status) \in Status
    BY DEF OnInit, NextStatus
  <2>3. CASE Pause(m)
    BY <2>3 DEF Pause
  <2>4. CASE m.status = "PAUSED" /\ Resume(m)
    <3>1. m.onPause \in Status
      BY <1>1, <2>4, MachineFacts DEF Sound, MachineType, TickMachine
    <3> QED
      BY <2>1, <2>4, <3>1 DEF Resume
  <2>5. CASE Elapse(m)
    BY <2>1, <2>2, <2>5 DEF Elapse
  <2> QED
    BY <1>2, <2>1, <2>2, <2>3, <2>4, <2>5 DEF Advance, Terminate
<1>4. CASE Type(m.id) \in PauseTypes
  BY <1>2, <1>3, <1>4, StateFacts DEF Suspended
<1>5. CASE m.pause
  <2>1. \/ reported' = reported
        \/ reported' = [reported EXCEPT ![m.id] = "PAUSED"]
        \/ reported' = [reported EXCEPT ![m.id] = "FAILED"]
    BY <1>2, <1>5 DEF Advance, Pause, Transition, Terminate, Fresh
  <2> QED
    BY <1>2, <2>1, StateFacts DEF Suspended
<1> QED
  BY <1>2, <1>4, <1>5

LEMMA ExecuteActionSuspends ==
  ASSUME IInv, NEW a \in Actions, reported[a] = Fresh, ExecuteAction(a)
  PROVE  Suspended
<1>1. \/ reported' = [reported EXCEPT ![a] = Fresh]
      \/ reported' = [reported EXCEPT ![a] = "WAITING"]
      \/ reported' = [reported EXCEPT ![a] = "FAILED"]
  BY DEF ExecuteAction
<1> QED
  BY <1>1, StateFacts DEF Suspended

LEMMA PausedSuspends ==
  ASSUME IInv, Next, vehicle.paused
  PROVE  Suspended /\ ~ (toDrive' < toDrive /\ ~ Stopping)
<1>1. CASE TickMachine
  BY <1>1, TickMachineSuspends, StateFacts DEF TickMachine
<1>2. CASE \E a \in Actions : ExecuteOrderAction(a) \/ ExecuteInstantAction(a)
  <2>1. PICK a \in Actions : reported[a] = Fresh /\ ExecuteAction(a) /\ toDrive' = toDrive
    BY <1>2 DEF ExecuteOrderAction, ExecuteInstantAction
  <2> QED
    BY <2>1, ExecuteActionSuspends, StateFacts
<1>3. CASE CancelOrder
  <2>1. \A a \in Actions : reported'[a] # reported[a] => reported'[a] = "FAILED"
    BY <1>3 DEF CancelOrder
  <2> QED
    BY <1>3, <2>1, StateFacts DEF CancelOrder, Suspended
<1>4. CASE StopAgv
  BY <1>4 DEF StopAgv, Suspended
<1>5. CASE BeginEdge
  <2>1. toDrive = 0 /\ toDrive' = Distance /\ reported' = reported
    BY <1>5 DEF BeginEdge, TraverseEdge, controllerVars
  <2> QED
    BY <2>1, ConstantFacts DEF Suspended
<1>6. CASE TickBegins \/ AdvanceBatteryCharge \/ Stand \/ CompleteOrder
           \/ \E o \in Orders : ReceiveOrder(o)
  <2>1. toDrive' = toDrive /\ reported' = reported
    BY <1>6 DEF TickBegins, AdvanceBatteryCharge, Stand, CompleteOrder, ReceiveOrder,
       adapterVars, controllerVars
  <2> QED
    BY <2>1, StateFacts DEF Suspended
<1>7. ~ AdvanceTraverse
  BY DEF AdvanceTraverse
<1> QED
  BY <1>1, <1>2, <1>3, <1>4, <1>5, <1>6, <1>7 DEF Next, Tick

(* While the AGV is paused no action but those that end the pause makes    *)
(* progress, and no edge is traversed: every machine is told to pause with *)
(* the vehicle, also one that is added later.                              *)
THEOREM NothingProgressesWhilePausedHolds == Spec => NothingProgressesWhilePaused
<1>1. ASSUME IInv, [Next]_vars
      PROVE  [vehicle.paused /\ vehicle'.paused => ~ Progress]_vars
  <2>1. CASE UNCHANGED vars
    BY <2>1
  <2>2. CASE Next /\ vehicle.paused
    BY <1>1, <2>2, PausedSuspends DEF Progress, Suspended, PauseTypes
  <2> QED
    BY <1>1, <2>1, <2>2
<1> QED
  BY <1>1, Invariance, PTL DEF Spec, NothingProgressesWhilePaused

=============================================================================
