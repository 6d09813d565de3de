------------------------ MODULE InstantActions_proofs ------------------------
(***************************************************************************)
(* Theorems about the queue of the instant actions, for all actions,       *)
(* messages and inboxes in which actions that end at once do so in order.  *)
(***************************************************************************)
EXTENDS InstantActions, Lists_proofs, FiniteSetTheorems

-----------------------------------------------------------------------------
(* Hypotheses *)

(* The actions whose end may be reported while they are being executed.    *)
EndsAtOnce(a) == ActionType[a] = "stateRequest" \/ a \in Synchronous

HardAtOnce(I) ==
  \A m \in I : \A i \in DOMAIN MessageOf[m] :
    EndsAtOnce(MessageOf[m][i]) => Hard(MessageOf[m][i])

LastAtOnce(I) ==
  \A m \in I : \A i \in DOMAIN MessageOf[m] :
    ~ Hard(MessageOf[m][i]) /\ (EndsAtOnce(MessageOf[m][i]) => i = Len(MessageOf[m]))

(* An action that ends at once is a HARD one, or the last one of a message *)
(* that is not deferred by HARD actions: no action is left for the loop    *)
(* that it is removed from.                                                *)
EndsInOrder == \A I \in Inboxes : HardAtOnce(I) \/ LastAtOnce(I)

(* HARD actions may delay a cancelOrder as long as they like, but no second*)
(* one is received before it is executed: if there are two, they come in   *)
(* messages of their own and there is no HARD action.                      *)
CancelsApart ==
  \A I \in Inboxes : \A m, n \in I : \A i \in DOMAIN MessageOf[m], j \in DOMAIN MessageOf[n] :
    ActionType[MessageOf[m][i]] = "cancelOrder" /\ ActionType[MessageOf[n][j]] = "cancelOrder" =>
      \/ MessageOf[m][i] = MessageOf[n][j]
      \/ /\ m # n
         /\ \A k \in I : \A l \in DOMAIN MessageOf[k] : ~ Hard(MessageOf[k][l])

-----------------------------------------------------------------------------
(* The inductive invariant *)

(* The actions of q at the indices to run first are executing up to index  *)
(* `upto`, and no others.                                                  *)
Runs(q, states, upto) ==
  \A i \in DOMAIN q :
    states[q[i]] = IF i \in NextToRun(q, 0) /\ i < upto THEN "ACTIVE" ELSE "ABSENT"

(* The loops over q: none, or a single one over the rest of what is to run *)
(* first.                                                                  *)
Loops(q, states, ls) ==
  \/ ls = << >> /\ Runs(q, states, Len(q) + 1)
  \/ \E x, y \in NextToRun(q, 0) :
       /\ ls = <<[next |-> x, stop |-> y]>>
       /\ x <= y /\ \A k \in NextToRun(q, 0) : k <= y
       /\ Runs(q, states, x)

Unique(q) == \A i, j \in DOMAIN q : q[i] = q[j] => i = j

Queued(a) == \E i \in DOMAIN queue : queue[i] = a

(* Actions of messages that may still arrive are not known.                *)
Fresh ==
  \A m \in inbox : \A i \in DOMAIN MessageOf[m] :
    instantStates[MessageOf[m][i]] = "ABSENT" /\ ~ Queued(MessageOf[m][i])

(* What the adapter still has to answer is executing.                      *)
Owed ==
  /\ \A a \in scheduled : /\ ActionType[a] = "other" /\ instantStates[a] = "ACTIVE"
                          /\ Queued(a)
  /\ hasCancelingOrder => /\ ActionType[cancelContext] = "cancelOrder"
                          /\ instantStates[cancelContext] = "ACTIVE"
                          /\ Queued(cancelContext)

(* The actions of the queue and of the messages in I that may arrive.      *)
Incoming(I) ==
  /\ inbox \subseteq I
  /\ \A j \in DOMAIN queue : \E m \in I : \E i \in DOMAIN MessageOf[m] :
       queue[j] = MessageOf[m][i]

(* An action of the queue that will end at once is the last one, if it is  *)
(* not a HARD one.                                                         *)
AtTheEnd ==
  \A i \in DOMAIN queue :
    instantStates[queue[i]] = "ABSENT" /\ EndsAtOnce(queue[i]) =>
      Hard(queue[i]) \/ i = Len(queue)

InOrder ==
  \E I \in Inboxes : Incoming(I) /\ (HardAtOnce(I) \/ LastAtOnce(I))

IInv ==
  /\ TypeOK /\ Unique(queue) /\ Loops(queue, instantStates, loops)
  /\ Fresh /\ Owed /\ AtTheEnd /\ InOrder

(* A cancelOrder that was found executable, and has not been executed yet. *)
Pending(a) ==
  ActionType[a] = "cancelOrder" /\ Queued(a) /\ instantStates[a] = "ABSENT"

(* The cancelation: a single cancelOrder is pending, or under way.         *)
CancelInv ==
  /\ \A a \in Action : Pending(a) =>
       /\ ~ hasCancelingOrder
       /\ \A b \in Action : Pending(b) => b = a
  /\ stopTraverse \in {0, 1}
  /\ stopTraverse = 1 => hasCancelingOrder /\ order # "busy"
  /\ \A a \in Action :
       ActionType[a] = "cancelOrder" /\ instantStates[a] = "ACTIVE" => cancelContext = a

-----------------------------------------------------------------------------
(* What is to run first *)

(* The actions to run first are a beginning of the list; a HARD one is     *)
(* alone among them.                                                       *)
LEMMA FrontFacts ==
  ASSUME NEW q \in Seq(Action)
  PROVE  /\ NextToRun(q, 0) \subseteq DOMAIN q
         /\ q # << >> => 1 \in NextToRun(q, 0)
         /\ \A k \in NextToRun(q, 0) : \A j \in 1 .. k : j \in NextToRun(q, 0)
         /\ \A k \in NextToRun(q, 0) : Hard(q[k]) => k = 1 /\ NextToRun(q, 0) = {1}
<1>1. DOMAIN q = 1 .. Len(q) /\ Len(q) \in Nat /\ (q # << >> => Len(q) > 0)
  OBVIOUS
<1>2. CASE Segment(q, 0) # {}
  <2>1. NextToRun(q, 0) = Segment(q, 0)
    BY <1>2 DEF NextToRun
  <2>2. \A k \in Segment(q, 0) : k \in DOMAIN q /\ \A j \in 1 .. k : ~ Hard(q[j])
    BY DEF Segment
  <2>3. ASSUME NEW k \in Segment(q, 0), NEW j \in 1 .. k
        PROVE  j \in Segment(q, 0)
    <3>1. k \in 1 .. Len(q) /\ j \in 1 .. Len(q) /\ j > 0 /\ 1 .. j \subseteq 1 .. k
      BY <1>1, <2>2
    <3> QED
      BY <1>1, <2>2, <3>1 DEF Segment
  <2>4. \A k \in Segment(q, 0) : k \in 1 .. k /\ 1 \in 1 .. k
    BY <1>1, <2>2
  <2>5. 1 \in Segment(q, 0)
    BY <1>2, <2>3, <2>4
  <2> QED
    BY <2>1, <2>2, <2>3, <2>4, <2>5
<1>3. CASE Segment(q, 0) = {}
  <2>1. NextToRun(q, 0) = NextHard(q, 0)
    BY <1>3 DEF NextToRun
  <2>2. ASSUME NEW k \in NextHard(q, 0)
        PROVE  k = 1 /\ k \in DOMAIN q
    <3>1. k \in DOMAIN q /\ \A j \in 1 .. k - 1 : ~ Hard(q[j])
      BY DEF NextHard
    <3>2. ASSUME k # 1
          PROVE  FALSE
      <4>1. 1 \in DOMAIN q /\ 1 \in 1 .. k - 1
        BY <1>1, <3>1, <3>2
      <4>2. ~ Hard(q[1])
        BY <3>1, <4>1
      <4>3. 1 \in Segment(q, 0)
        BY <4>1, <4>2 DEF Segment
      <4> QED
        BY <1>3, <4>3
    <3> QED
      BY <3>1, <3>2
  <2>3. ASSUME q # << >>
        PROVE  1 \in NextHard(q, 0)
    <3>1. 1 \in DOMAIN q
      BY <1>1, <2>3
    <3>2. Hard(q[1])
      <4>1. ASSUME ~ Hard(q[1])
            PROVE  1 \in Segment(q, 0)
        BY <3>1, <4>1 DEF Segment
      <4> QED
        BY <1>3, <4>1
    <3> QED
      BY <3>1, <3>2 DEF NextHard
  <2>4. \A k \in NextHard(q, 0) : \A j \in 1 .. k : j \in NextHard(q, 0)
    BY <2>2
  <2>5. \A k \in NextHard(q, 0) : k = 1 /\ NextHard(q, 0) = {1}
    BY <2>2
  <2> QED
    BY <2>1, <2>2, <2>3, <2>4, <2>5
<1> QED
  BY <1>2, <1>3

(* Behind a first action that is not HARD, the list runs up to a HARD one. *)
LEMMA SoftFront ==
  ASSUME NEW q \in Seq(Action), q # << >>, ~ Hard(q[1])
  PROVE  /\ NextToRun(q, 0) = Segment(q, 0)
         /\ \A k \in DOMAIN q : k \in NextToRun(q, 0) <=> \A j \in 1 .. k : ~ Hard(q[j])
<1>1. 1 \in DOMAIN q /\ DOMAIN q = 1 .. Len(q)
  OBVIOUS
<1>2. 1 \in Segment(q, 0)
  BY <1>1 DEF Segment
<1>3. NextToRun(q, 0) = Segment(q, 0)
  BY <1>2 DEF NextToRun
<1>4. \A k \in DOMAIN q : k \in Segment(q, 0) <=> \A j \in 1 .. k : ~ Hard(q[j])
  BY <1>1 DEF Segment
<1> QED
  BY <1>3, <1>4

LEMMA HardFront ==
  ASSUME NEW q \in Seq(Action), q # << >>, Hard(q[1])
  PROVE  NextToRun(q, 0) = {1}
BY FrontFacts

(* A set of indices has a greatest one.                                    *)
LEMMA LastIndex ==
  ASSUME NEW n \in Nat, NEW T \in SUBSET (1 .. n), T # {}
  PROVE  \E y \in T : \A k \in T : k <= y
<1> DEFINE D == {n - k : k \in T}
<1>1. D \in SUBSET Nat
  OBVIOUS
<1>2. D # {}
  <2>1. PICK k : k \in T
    OBVIOUS
  <2>2. n - k \in D
    BY <2>1
  <2> QED
    BY <2>2
<1>3. PICK d \in D : \A e \in D : d <= e
  <2> HIDE DEF D
  <2> QED
    BY <1>1, <1>2, LeastNumber
<1>4. PICK y \in T : d = n - y
  BY <1>3
<1>5. ASSUME NEW k \in T
      PROVE  k <= y
  <2>1. n - y <= n - k
    BY <1>3, <1>4
  <2>2. y \in 1 .. n /\ k \in 1 .. n
    BY <1>4
  <2> QED
    BY <2>1, <2>2
<1> QED
  BY <1>5

(* The loop over the greatest index y of what is to run after index n.     *)
LEMMA ChunkFacts ==
  ASSUME NEW q \in Seq(Action), NEW n \in Nat, NEW skip \in BOOLEAN,
         NEW run, run = IF Segment(q, n) = {} /\ skip THEN {} ELSE NextToRun(q, n)
  PROVE  /\ run = {} => Chunk(q, n, skip) = << >>
         /\ \A y \in run : (\A k \in run : k <= y) =>
              Chunk(q, n, skip) = <<[next |-> n + 1, stop |-> y]>>
<1>1. run \subseteq Nat
  BY DEF NextToRun, Segment, NextHard
<1>2. Chunk(q, n, skip) =
        IF run = {} THEN << >>
        ELSE <<[next |-> n + 1, stop |-> CHOOSE j \in run : \A k \in run : k <= j]>>
  BY DEF Chunk
<1>3. ASSUME NEW y \in run, \A k \in run : k <= y
      PROVE  (CHOOSE j \in run : \A k \in run : k <= j) = y
  <2>1. \A j \in run : (\A k \in run : k <= j) => j = y
    BY <1>1, <1>3
  <2> QED
    BY <1>3, <2>1
<1> QED
  BY <1>2, <1>3

LEMMA NothingStarted ==
  ASSUME NEW q \in Seq(Action), NEW states, \A i \in DOMAIN q : states[q[i]] = "ABSENT"
  PROVE  Loops(q, states, Chunk(q, 0, FALSE))
<1>1. PICK run : run = NextToRun(q, 0)
  OBVIOUS
<1>2. run = IF Segment(q, 0) = {} /\ FALSE THEN {} ELSE NextToRun(q, 0)
  BY <1>1
<1>3. /\ run = {} => Chunk(q, 0, FALSE) = << >>
      /\ \A y \in run : (\A k \in run : k <= y) =>
           Chunk(q, 0, FALSE) = <<[next |-> 0 + 1, stop |-> y]>>
  BY <1>2, ChunkFacts
<1>4. CASE q = << >>
  <2>1. DOMAIN q = {}
    BY <1>4
  <2>2. run = {}
    BY <1>1, <2>1, FrontFacts
  <2> QED
    BY <1>3, <2>1, <2>2 DEF Loops, Runs
<1>5. CASE q # << >>
  <2>1. Len(q) \in Nat /\ DOMAIN q = 1 .. Len(q)
    OBVIOUS
  <2>2. 1 \in run /\ run \in SUBSET (1 .. Len(q))
    BY <1>1, <1>5, <2>1, FrontFacts
  <2>3. PICK y \in run : \A k \in run : k <= y
    BY <2>1, <2>2, LastIndex
  <2>4. Chunk(q, 0, FALSE) = <<[next |-> 1, stop |-> y]>>
    <3>1. Chunk(q, 0, FALSE) = <<[next |-> 0 + 1, stop |-> y]>>
      BY <1>3, <2>3
    <3>2. 0 + 1 = 1
      OBVIOUS
    <3> QED
      BY <3>1, <3>2
  <2>5. 1 <= y /\ Runs(q, states, 1)
    <3>1. \A i \in DOMAIN q : ~ (i < 1)
      BY <2>1
    <3> QED
      BY <2>1, <2>2, <2>3, <3>1 DEF Runs
  <2> QED
    BY <1>1, <2>2, <2>3, <2>4, <2>5 DEF Loops
<1> QED
  BY <1>4, <1>5

(* A set with at most one element as a list.                               *)
LEMMA OneToSeq ==
  ASSUME NEW x
  PROVE  SetToSeq({x}) = <<x>> /\ SetToSeq({}) = << >>
<1>1. Cardinality({x}) = 1 /\ Cardinality({}) = 0
  BY FS_Singleton, FS_EmptySet
<1>2. <<x>> \in [1 .. 1 -> {x}] /\ IsInjective(<<x>>)
  BY DEF IsInjective
<1>3. \A f \in [1 .. 1 -> {x}] : f = <<x>>
  OBVIOUS
<1>4. << >> \in [1 .. 0 -> {}] /\ IsInjective(<< >>)
  BY DEF IsInjective
<1>5. \A f \in [1 .. 0 -> {}] : f = << >>
  OBVIOUS
<1>6. SetToSeq({x}) = <<x>>
  BY <1>1, <1>2, <1>3 DEF SetToSeq
<1>7. SetToSeq({}) = << >>
  BY <1>1, <1>4, <1>5 DEF SetToSeq
<1> QED
  BY <1>6, <1>7

(* The actions in parallel to a NONE or SOFT action that runs first.       *)
LEMMA FrontParallel ==
  ASSUME NEW q \in Seq(Action), NEW i \in NextToRun(q, 0), ~ Hard(q[i])
  PROVE  Parallel(q, i) = NextToRun(q, 0) \ {i} /\ q # << >> /\ ~ Hard(q[1])
<1>1. /\ i \in DOMAIN q /\ DOMAIN q = 1 .. Len(q) /\ Len(q) \in Nat /\ q # << >>
      /\ 1 \in NextToRun(q, 0)
  BY FrontFacts
<1>2. ~ Hard(q[1])
  <2>1. ASSUME Hard(q[1])
        PROVE  FALSE
    <3>1. NextToRun(q, 0) = {1}
      BY <1>1, <2>1, FrontFacts
    <3> QED
      BY <2>1, <3>1
  <2> QED
    BY <2>1
<1>3. \A k \in DOMAIN q : k \in NextToRun(q, 0) <=> \A j \in 1 .. k : ~ Hard(q[j])
  BY <1>1, <1>2, SoftFront
<1>4. \A j \in 1 .. i : ~ Hard(q[j])
  BY <1>1, <1>3
<1>5. ASSUME NEW j \in DOMAIN q, j # i
      PROVE  j \in Parallel(q, i) <=> j \in NextToRun(q, 0)
  <2>1. CASE j < i
    <3>1. j .. i \subseteq 1 .. i /\ 1 .. j \subseteq 1 .. i
      BY <1>1, <2>1
    <3>2. j \in NextToRun(q, 0)
      BY <1>3, <1>4, <3>1
    <3>3. j \in Parallel(q, i)
      BY <1>4, <2>1, <3>1, <1>5 DEF Parallel
    <3> QED
      BY <3>2, <3>3
  <2>2. CASE ~ (j < i)
    <3>1. i < j
      BY <1>1, <1>5, <2>2
    <3>2. j \in Parallel(q, i) <=> \A k \in i .. j : ~ Hard(q[k])
      BY <2>2, <1>5 DEF Parallel
    <3>3. \A k \in 1 .. j : k \in 1 .. i \/ k \in i .. j
      BY <1>1, <3>1
    <3>4. i .. j \subseteq 1 .. j
      BY <1>1
    <3> QED
      BY <1>3, <1>4, <3>2, <3>3, <3>4
  <2> QED
    BY <2>1, <2>2
<1>6. Parallel(q, i) \subseteq DOMAIN q \ {i} /\ NextToRun(q, 0) \subseteq DOMAIN q
  BY <1>1, FrontFacts DEF Parallel
<1> QED
  BY <1>1, <1>2, <1>5, <1>6

-----------------------------------------------------------------------------
(* An action that runs first has ended *)

(* rest is what remains of q without the action at index i.                *)
IsRest(q, i, rest) ==
  /\ rest \in Seq(Action) /\ Len(rest) = Len(q) - 1 /\ Unique(rest)
  /\ \A r \in DOMAIN rest : /\ rest[r] = q[IF r < i THEN r ELSE r + 1]
                            /\ (IF r < i THEN r ELSE r + 1) \in DOMAIN q \ {i}
                            /\ rest[r] # q[i]
  /\ \A j \in DOMAIN q \ {i} : \E r \in DOMAIN rest : rest[r] = q[j]

LEMMA RestFacts ==
  ASSUME NEW q \in Seq(Action), Unique(q), NEW i \in DOMAIN q
  PROVE  IsRest(q, i, RemoveAt(q, i))
<1>1. DOMAIN q = 1 .. Len(q) /\ Len(q) \in Nat /\ i \in 1 .. Len(q) /\ i \in Nat
  BY ElementFacts
<1>2. PICK rest : rest = RemoveAt(q, i)
  OBVIOUS
<1>3. /\ rest \in Seq(Action) /\ Len(rest) = Len(q) - 1
      /\ \A r \in 1 .. Len(q) - 1 : rest[r] = IF r < i THEN q[r] ELSE q[r + 1]
  BY <1>1, <1>2, RemoveAtFacts
<1>4. DOMAIN rest = 1 .. Len(q) - 1
  BY <1>3
<1>5. ASSUME NEW r \in DOMAIN rest
      PROVE  /\ rest[r] = q[IF r < i THEN r ELSE r + 1]
             /\ (IF r < i THEN r ELSE r + 1) \in DOMAIN q \ {i}
             /\ rest[r] # q[i]
  <2>1. (IF r < i THEN r ELSE r + 1) \in DOMAIN q \ {i}
    BY <1>1, <1>4
  <2>2. rest[r] = q[IF r < i THEN r ELSE r + 1]
    BY <1>3, <1>4
  <2> QED
    BY <2>1, <2>2 DEF Unique
<1>6. ASSUME NEW r \in DOMAIN rest, NEW k \in DOMAIN rest, rest[r] = rest[k]
      PROVE  r = k
  <2>1. (IF r < i THEN r ELSE r + 1) = (IF k < i THEN k ELSE k + 1)
    BY <1>5, <1>6 DEF Unique
  <2> QED
    BY <1>1, <1>4, <2>1
<1>7. ASSUME NEW j \in DOMAIN q \ {i}
      PROVE  \E r \in DOMAIN rest : rest[r] = q[j]
  <2>1. CASE j < i
    BY <1>1, <1>3, <1>4, <2>1
  <2>2. CASE ~ (j < i)
    <3>1. j - 1 \in DOMAIN rest /\ ~ (j - 1 < i) /\ (j - 1) + 1 = j
      BY <1>1, <1>4, <2>2
    <3> QED
      BY <1>5, <3>1
  <2> QED
    BY <2>1, <2>2
<1>8. Unique(rest)
  BY <1>6 DEF Unique
<1> QED
  BY <1>2, <1>3, <1>5, <1>7, <1>8 DEF IsRest

(* An action in parallel to others ends: the others run first.             *)
LEMMA RestFront ==
  ASSUME NEW q \in Seq(Action), Unique(q), NEW i \in NextToRun(q, 0), ~ Hard(q[i]),
         NextToRun(q, 0) # {i}
  PROVE  \A r \in DOMAIN RemoveAt(q, i) :
           r \in NextToRun(RemoveAt(q, i), 0)
             <=> (IF r < i THEN r ELSE r + 1) \in NextToRun(q, 0)
<1>1. /\ i \in DOMAIN q /\ DOMAIN q = 1 .. Len(q) /\ Len(q) \in Nat /\ q # << >>
      /\ ~ Hard(q[1]) /\ 1 \in NextToRun(q, 0)
  BY FrontFacts, FrontParallel
<1>2. \A k \in DOMAIN q : k \in NextToRun(q, 0) <=> \A j \in 1 .. k : ~ Hard(q[j])
  BY <1>1, SoftFront
<1>3. PICK rest \in Seq(Action) :
        /\ rest = RemoveAt(q, i) /\ Len(rest) = Len(q) - 1
        /\ \A r \in DOMAIN rest : /\ rest[r] = q[IF r < i THEN r ELSE r + 1]
                                  /\ (IF r < i THEN r ELSE r + 1) \in DOMAIN q \ {i}
  <2>1. IsRest(q, i, RemoveAt(q, i))
    BY <1>1, RestFacts
  <2> QED
    BY <2>1 DEF IsRest
<1>4. /\ Len(rest) = Len(q) - 1 /\ DOMAIN rest = 1 .. Len(q) - 1
      /\ \A r \in DOMAIN rest : /\ rest[r] = q[IF r < i THEN r ELSE r + 1]
                                /\ (IF r < i THEN r ELSE r + 1) \in DOMAIN q \ {i}
  <2>1. DOMAIN rest = 1 .. Len(rest)
    OBVIOUS
  <2> QED
    BY <1>3, <2>1
<1>5. PICK k \in NextToRun(q, 0) : k # i
  BY <1>1
<1>6. k \in 1 .. Len(q)
  BY <1>1, <1>5, FrontFacts
<1>7. 1 \in DOMAIN rest /\ rest # << >>
  BY <1>1, <1>4, <1>5, <1>6
<1>8. ~ Hard(rest[1])
  <2>1. CASE i = 1
    <3>1. 2 \in 1 .. k /\ ~ (1 < i)
      BY <1>5, <1>6, <2>1
    <3>2. ~ Hard(q[2])
      BY <1>1, <1>2, <1>5, <1>6, <3>1
    <3>3. rest[1] = q[2]
      BY <1>4, <1>7, <3>1
    <3> QED
      BY <3>2, <3>3
  <2>2. CASE i # 1
    <3>1. 1 < i
      BY <1>1, <2>2
    <3>2. rest[1] = q[1]
      BY <1>4, <1>7, <3>1
    <3> QED
      BY <1>1, <3>2
  <2> QED
    BY <2>1, <2>2
<1>9. \A r \in DOMAIN rest : r \in NextToRun(rest, 0) <=> \A j \in 1 .. r : ~ Hard(rest[j])
  BY <1>7, <1>8, SoftFront
<1>10. ASSUME NEW r \in DOMAIN rest
       PROVE  (\A j \in 1 .. r : ~ Hard(rest[j]))
                <=> \A j \in 1 .. (IF r < i THEN r ELSE r + 1) : ~ Hard(q[j])
  <2>1. \A j \in 1 .. r : j \in DOMAIN rest /\ j \in Nat
    BY <1>4
  <2>2. ASSUME \A j \in 1 .. r : ~ Hard(rest[j]),
               NEW j \in 1 .. (IF r < i THEN r ELSE r + 1)
        PROVE  ~ Hard(q[j])
    <3>1. CASE j < i
      <4>1. j \in 1 .. r
        BY <1>1, <1>4, <2>2, <3>1
      <4> QED
        BY <1>4, <2>1, <2>2, <3>1, <4>1
    <3>2. CASE j = i
      BY <3>2
    <3>3. CASE ~ (j < i) /\ j # i
      <4>1. j - 1 \in 1 .. r /\ ~ (j - 1 < i) /\ (j - 1) + 1 = j
        BY <1>1, <1>4, <2>2, <3>3
      <4>2. rest[j - 1] = q[j]
        BY <1>4, <2>1, <4>1
      <4> QED
        BY <2>2, <4>1, <4>2
    <3> QED
      BY <3>1, <3>2, <3>3
  <2>3. ASSUME \A j \in 1 .. (IF r < i THEN r ELSE r + 1) : ~ Hard(q[j]), NEW j \in 1 .. r
        PROVE  ~ Hard(rest[j])
    <3>1. (IF j < i THEN j ELSE j + 1) \in 1 .. (IF r < i THEN r ELSE r + 1)
      BY <1>1, <1>4
    <3> QED
      BY <1>4, <2>1, <2>3, <3>1
  <2> QED
    BY <2>2, <2>3
<1> QED
  BY <1>2, <1>3, <1>4, <1>9, <1>10

(* _updateActionStatus when no loop goes on: what it makes of the queue.   *)
LEMMA ActionEndedEffect ==
  ASSUME TypeOK, Unique(queue), NEW i \in DOMAIN queue, ActionEnded(queue[i], << >>)
  PROVE  /\ instantStates' = [instantStates EXCEPT ![queue[i]] = "ENDED"]
         /\ queue' = RemoveAt(queue, i)
         /\ Hard(queue[i]) => loops' = Chunk(queue', 0, FALSE)
         /\ ~ Hard(queue[i]) =>
              IF AreParallelActionsEnded(queue, i, FALSE,
                   {b \in Action : instantStates[b] = "ENDED"} \cup {queue[i]})
              THEN loops' = SetToSeq({[next |-> h - 1, stop |-> h - 1] : h \in NextHard(queue, i)})
              ELSE loops' = << >>
<1>1. queue \in Seq(Action)
  BY DEF TypeOK
<1>2. IndexOf(queue[i]) = i
  BY DEF IndexOf, Unique
<1>3. RemoveAt(queue, i) \in Seq(Action)
  BY <1>1, RestFacts DEF IsRest
<1>4. /\ Chunk(RemoveAt(queue, i), 0, FALSE) \o << >> = Chunk(RemoveAt(queue, i), 0, FALSE)
      /\ \A h : SetToSeq({[next |-> x - 1, stop |-> x - 1] : x \in {h}}) \o << >>
                  = SetToSeq({[next |-> x - 1, stop |-> x - 1] : x \in {h}})
      /\ SetToSeq({}) \o << >> = SetToSeq({})
  <2>1. \A x : <<x>> \o << >> = <<x>>
    OBVIOUS
  <2>2. << >> \o << >> = << >>
    OBVIOUS
  <2>3. ASSUME NEW h
        PROVE  SetToSeq({[next |-> x - 1, stop |-> x - 1] : x \in {h}}) \o << >>
                 = SetToSeq({[next |-> x - 1, stop |-> x - 1] : x \in {h}})
    <3>1. {[next |-> x - 1, stop |-> x - 1] : x \in {h}} = {[next |-> h - 1, stop |-> h - 1]}
      OBVIOUS
    <3> QED
      BY <2>1, <3>1, OneToSeq
  <2>4. SetToSeq({}) \o << >> = SetToSeq({})
    BY <2>2, OneToSeq
  <2>5. Chunk(RemoveAt(queue, i), 0, FALSE) \o << >> = Chunk(RemoveAt(queue, i), 0, FALSE)
    <3>1. \/ Chunk(RemoveAt(queue, i), 0, FALSE) = << >>
          \/ \E x : Chunk(RemoveAt(queue, i), 0, FALSE) = <<x>>
      BY DEF Chunk
    <3> QED
      BY <2>1, <2>2, <3>1
  <2> QED
    BY <2>3, <2>4, <2>5
<1>5. NextHard(queue, i) = {} \/ \E h : NextHard(queue, i) = {h}
  <2>1. i \in Nat
    BY <1>1, ElementFacts
  <2>2. ASSUME NEW h \in NextHard(queue, i), NEW k \in NextHard(queue, i), h < k
        PROVE  FALSE
    <3>1. h \in DOMAIN queue /\ k \in DOMAIN queue /\ h > i /\ Hard(queue[h])
          /\ \A l \in (i + 1) .. (k - 1) : ~ Hard(queue[l])
      BY DEF NextHard
    <3>2. h \in (i + 1) .. (k - 1)
      BY <1>1, <2>1, <2>2, <3>1
    <3> QED
      BY <3>1, <3>2
  <2>3. \A h, k \in NextHard(queue, i) : h \in Nat /\ k \in Nat
    BY <1>1 DEF NextHard
  <2>4. \A h, k \in NextHard(queue, i) : h = k
    BY <2>2, <2>3
  <2> QED
    BY <2>4
<1>6. SetToSeq({[next |-> h - 1, stop |-> h - 1] : h \in NextHard(queue, i)}) \o << >>
        = SetToSeq({[next |-> h - 1, stop |-> h - 1] : h \in NextHard(queue, i)})
  <2>1. CASE NextHard(queue, i) = {}
    <3>1. {[next |-> h - 1, stop |-> h - 1] : h \in NextHard(queue, i)} = {}
      BY <2>1
    <3> QED
      BY <1>4, <3>1
  <2>2. CASE NextHard(queue, i) # {}
    <3>1. PICK h : NextHard(queue, i) = {h}
      BY <1>5, <2>2
    <3> QED
      BY <1>4, <3>1
  <2> QED
    BY <2>1, <2>2
<1> QED
  BY <1>2, <1>4, <1>6 DEF ActionEnded

(* The queue is in order again when an action that ran first has ended.    *)
LEMMA EndedLoops ==
  ASSUME TypeOK, Unique(queue), NEW i \in NextToRun(queue, 0),
         \A j \in DOMAIN queue \ {i} :
           instantStates[queue[j]] = IF j \in NextToRun(queue, 0) THEN "ACTIVE" ELSE "ABSENT",
         ActionEnded(queue[i], << >>)
  PROVE  Loops(queue', instantStates', loops')
<1>1. /\ queue \in Seq(Action) /\ i \in DOMAIN queue /\ DOMAIN queue = 1 .. Len(queue)
      /\ Len(queue) \in Nat /\ queue[i] \in Action /\ i \in Nat
  <2>1. queue \in Seq(Action)
    BY DEF TypeOK
  <2> QED
    BY <2>1, FrontFacts, ElementFacts
<1>2. /\ instantStates' = [instantStates EXCEPT ![queue[i]] = "ENDED"]
      /\ queue' = RemoveAt(queue, i)
      /\ Hard(queue[i]) => loops' = Chunk(queue', 0, FALSE)
      /\ ~ Hard(queue[i]) =>
           IF AreParallelActionsEnded(queue, i, FALSE,
                {b \in Action : instantStates[b] = "ENDED"} \cup {queue[i]})
           THEN loops' = SetToSeq({[next |-> h - 1, stop |-> h - 1] : h \in NextHard(queue, i)})
           ELSE loops' = << >>
  BY <1>1, ActionEndedEffect
<1>3. PICK rest \in Seq(Action) :
        /\ rest = RemoveAt(queue, i) /\ Len(rest) = Len(queue) - 1
        /\ \A r \in DOMAIN rest : /\ rest[r] = queue[IF r < i THEN r ELSE r + 1]
                                  /\ (IF r < i THEN r ELSE r + 1) \in DOMAIN queue \ {i}
                                  /\ rest[r] # queue[i]
  <2>1. IsRest(queue, i, RemoveAt(queue, i))
    BY <1>1, RestFacts
  <2> QED
    BY <2>1 DEF IsRest
<1>4. queue' = rest /\ DOMAIN rest = 1 .. Len(queue) - 1
  <2>1. DOMAIN rest = 1 .. Len(rest)
    OBVIOUS
  <2> QED
    BY <1>2, <1>3, <2>1
<1>5. \A r \in DOMAIN rest :
        instantStates'[rest[r]] =
          IF (IF r < i THEN r ELSE r + 1) \in NextToRun(queue, 0) THEN "ACTIVE" ELSE "ABSENT"
  <2>1. instantStates \in [Action -> {"ABSENT", "ACTIVE", "ENDED"}]
    BY DEF TypeOK
  <2>2. ASSUME NEW r \in DOMAIN rest
        PROVE  instantStates'[rest[r]] = instantStates[rest[r]]
    <3>1. rest[r] \in Action /\ rest[r] # queue[i]
      BY <1>3
    <3> QED
      BY <1>2, <2>1, <3>1
  <2>3. ASSUME NEW r \in DOMAIN rest
        PROVE  instantStates[rest[r]] =
                 IF (IF r < i THEN r ELSE r + 1) \in NextToRun(queue, 0)
                 THEN "ACTIVE" ELSE "ABSENT"
    <3>1. PICK k : k = IF r < i THEN r ELSE r + 1
      OBVIOUS
    <3>2. k \in DOMAIN queue \ {i} /\ rest[r] = queue[k]
      BY <1>3, <3>1
    <3> QED
      BY <3>1, <3>2
  <2> QED
    BY <2>2, <2>3
<1>6. CASE Hard(queue[i])
  <2>1. i = 1 /\ NextToRun(queue, 0) = {1}
    BY <1>1, <1>6, FrontFacts
  <2>2. \A r \in DOMAIN rest : instantStates'[rest[r]] = "ABSENT"
    <3>1. \A r \in DOMAIN rest : (IF r < i THEN r ELSE r + 1) # 1
      BY <1>4, <2>1
    <3> QED
      BY <1>5, <2>1, <3>1
  <2>3. loops' = Chunk(rest, 0, FALSE)
    BY <1>2, <1>4, <1>6
  <2> QED
    BY <1>4, <2>2, <2>3, NothingStarted
<1>7. CASE ~ Hard(queue[i]) /\ NextToRun(queue, 0) = {i}
  <2>1. i = 1
    BY <1>1, <1>7, FrontFacts
  <2>2. \A r \in DOMAIN rest : instantStates'[rest[r]] = "ABSENT"
    <3>1. \A r \in DOMAIN rest : (IF r < i THEN r ELSE r + 1) # 1
      BY <1>4, <2>1
    <3> QED
      BY <1>5, <1>7, <2>1, <3>1
  <2>3. AreParallelActionsEnded(queue, i, FALSE,
          {b \in Action : instantStates[b] = "ENDED"} \cup {queue[i]})
    <3>1. Parallel(queue, i) = {}
      BY <1>1, <1>7, FrontParallel
    <3> QED
      BY <3>1 DEF AreParallelActionsEnded
  <2>4. loops' = SetToSeq({[next |-> h - 1, stop |-> h - 1] : h \in NextHard(queue, 1)})
    BY <1>2, <1>7, <2>1, <2>3
  <2>5. CASE Len(queue) = 1
    <3>1. NextHard(queue, 1) = {}
      BY <1>1, <2>5 DEF NextHard
    <3>2. {[next |-> h - 1, stop |-> h - 1] : h \in NextHard(queue, 1)} = {}
      BY <3>1
    <3>3. loops' = << >>
      BY <2>4, <3>2, OneToSeq
    <3>4. DOMAIN rest = {}
      BY <1>4, <2>5
    <3> QED
      BY <1>4, <3>3, <3>4 DEF Loops, Runs
  <2>6. CASE Len(queue) # 1
    <3>1. 2 \in DOMAIN queue /\ 1 \in DOMAIN rest /\ ~ (1 < i)
      BY <1>1, <1>4, <2>1, <2>6
    <3>2. rest[1] = queue[2] /\ rest # << >>
      BY <1>3, <3>1
    <3>3. Hard(queue[2])
      <4>1. ~ Hard(queue[1]) /\ queue # << >>
        BY <1>1, <1>7, <2>1
      <4>2. 2 \notin NextToRun(queue, 0)
        BY <1>7, <2>1
      <4>3. PICK j \in 1 .. 2 : Hard(queue[j])
        BY <1>1, <3>1, <4>1, <4>2, SoftFront
      <4>4. j = 1 \/ j = 2
        BY <4>3
      <4> QED
        BY <4>1, <4>3, <4>4
    <3>4. NextHard(queue, 1) = {2}
      <4>1. 2 \in NextHard(queue, 1)
        BY <3>1, <3>3 DEF NextHard
      <4>2. ASSUME NEW h \in NextHard(queue, 1)
            PROVE  h = 2
        <5>1. h \in DOMAIN queue /\ h > 1 /\ \A k \in (1 + 1) .. (h - 1) : ~ Hard(queue[k])
          BY DEF NextHard
        <5>2. ASSUME h # 2
              PROVE  2 \in (1 + 1) .. (h - 1)
          BY <1>1, <5>1, <5>2
        <5> QED
          BY <3>3, <5>1, <5>2
      <4> QED
        BY <4>1, <4>2
    <3>5. {[next |-> h - 1, stop |-> h - 1] : h \in NextHard(queue, 1)}
            = {[next |-> 1, stop |-> 1]}
      <4>1. {[next |-> h - 1, stop |-> h - 1] : h \in {2}} = {[next |-> 2 - 1, stop |-> 2 - 1]}
        OBVIOUS
      <4>2. 2 - 1 = 1
        OBVIOUS
      <4> QED
        BY <3>4, <4>1, <4>2
    <3>6. loops' = <<[next |-> 1, stop |-> 1]>>
      BY <2>4, <3>5, OneToSeq
    <3>7. NextToRun(rest, 0) = {1}
      BY <3>2, <3>3, HardFront
    <3>8. Runs(rest, instantStates', 1)
      <4>1. \A r \in DOMAIN rest : ~ (r < 1)
        BY <1>4
      <4> QED
        BY <2>2, <4>1 DEF Runs
    <3> QED
      BY <1>4, <3>6, <3>7, <3>8 DEF Loops
  <2> QED
    BY <2>5, <2>6
<1>8. CASE ~ Hard(queue[i]) /\ NextToRun(queue, 0) # {i}
  <2>1. Parallel(queue, i) = NextToRun(queue, 0) \ {i}
    BY <1>1, <1>8, FrontParallel
  <2>2. PICK j \in NextToRun(queue, 0) : j # i
    BY <1>8
  <2>3. j \in DOMAIN queue \ {i} /\ queue[j] # queue[i] /\ instantStates[queue[j]] = "ACTIVE"
    <3>1. j \in DOMAIN queue \ {i}
      BY <1>1, <2>2, FrontFacts
    <3> QED
      BY <1>1, <2>2, <3>1 DEF Unique
  <2>4. ~ AreParallelActionsEnded(queue, i, FALSE,
            {b \in Action : instantStates[b] = "ENDED"} \cup {queue[i]})
    BY <2>1, <2>2, <2>3 DEF AreParallelActionsEnded
  <2>5. loops' = << >>
    BY <1>2, <1>8, <2>4
  <2>6. \A r \in DOMAIN rest :
          r \in NextToRun(rest, 0) <=> (IF r < i THEN r ELSE r + 1) \in NextToRun(queue, 0)
    BY <1>1, <1>3, <1>8, RestFront
  <2>7. Runs(rest, instantStates', Len(rest) + 1)
    <3>1. \A r \in DOMAIN rest : r < Len(rest) + 1
      BY <1>1, <1>3, <1>4
    <3> QED
      BY <1>5, <2>6, <3>1 DEF Runs
  <2> QED
    BY <1>4, <2>5, <2>7 DEF Loops
<1> QED
  BY <1>6, <1>7, <1>8

-----------------------------------------------------------------------------
(* The parts of the invariant that depend on the queue *)

QueueInv ==
  /\ queue \in Seq(Action) /\ instantStates \in [Action -> {"ABSENT", "ACTIVE", "ENDED"}]
  /\ loops \in Seq([next : Nat \ {0}, stop : Nat \ {0}])
  /\ Unique(queue) /\ Loops(queue, instantStates, loops)
  /\ Fresh /\ Owed /\ AtTheEnd /\ InOrder

LEMMA LoopsTyped ==
  ASSUME NEW q \in Seq(Action), NEW states, NEW ls, Loops(q, states, ls)
  PROVE  ls \in Seq([next : Nat \ {0}, stop : Nat \ {0}])
<1>1. NextToRun(q, 0) \subseteq Nat \ {0}
  <2>1. DOMAIN q \subseteq Nat \ {0}
    OBVIOUS
  <2> QED
    BY <2>1, FrontFacts
<1>2. \A x, y \in Nat \ {0} :
        <<[next |-> x, stop |-> y]>> \in Seq([next : Nat \ {0}, stop : Nat \ {0}])
  OBVIOUS
<1>3. << >> \in Seq([next : Nat \ {0}, stop : Nat \ {0}])
  OBVIOUS
<1> QED
  BY <1>1, <1>2, <1>3 DEF Loops

(* The end of an action that ran first, or of one that ends at once, keeps *)
(* the queue in order.                                                     *)
LEMMA EndedKeeps ==
  ASSUME MessagesAssumption, TypeOK, QueueInv, NEW i \in NextToRun(queue, 0),
         \A j \in DOMAIN queue \ {i} :
           instantStates[queue[j]] = IF j \in NextToRun(queue, 0) THEN "ACTIVE" ELSE "ABSENT",
         ActionEnded(queue[i], << >>),
         inbox' = inbox, scheduled' \subseteq scheduled \ {queue[i]},
         cancelContext' = None \/ (cancelContext' = cancelContext /\ cancelContext # queue[i])
  PROVE  QueueInv'
<1>1. /\ queue \in Seq(Action) /\ Unique(queue) /\ i \in DOMAIN queue
      /\ DOMAIN queue = 1 .. Len(queue) /\ Len(queue) \in Nat /\ queue[i] \in Action
      /\ instantStates \in [Action -> {"ABSENT", "ACTIVE", "ENDED"}]
  <2>1. queue \in Seq(Action)
    BY DEF QueueInv
  <2> QED
    BY <2>1, FrontFacts, ElementFacts DEF QueueInv
<1>2. /\ instantStates' = [instantStates EXCEPT ![queue[i]] = "ENDED"]
      /\ queue' = RemoveAt(queue, i)
  BY <1>1, ActionEndedEffect
<1>3. IsRest(queue, i, queue')
  BY <1>1, <1>2, RestFacts
<1>4. queue' \in Seq(Action) /\ Unique(queue')
  BY <1>3 DEF IsRest
<1>5. \A r \in DOMAIN queue' : \E k \in DOMAIN queue \ {i} : queue'[r] = queue[k]
  BY <1>3 DEF IsRest
<1>6. \A k \in DOMAIN queue \ {i} : queue[k] # queue[i] /\ \E r \in DOMAIN queue' : queue'[r] = queue[k]
  BY <1>1, <1>3 DEF IsRest, Unique
<1>7. /\ instantStates' \in [Action -> {"ABSENT", "ACTIVE", "ENDED"}]
      /\ \A a \in Action : a # queue[i] => instantStates'[a] = instantStates[a]
  BY <1>1, <1>2
<1>8. Loops(queue', instantStates', loops')
  BY <1>1, EndedLoops
<1>9. loops' \in Seq([next : Nat \ {0}, stop : Nat \ {0}])
  <2>1. PICK q, states, ls : q = queue' /\ states = instantStates' /\ ls = loops'
    OBVIOUS
  <2>2. q \in Seq(Action) /\ Loops(q, states, ls)
    BY <1>4, <1>8, <2>1
  <2>3. ls \in Seq([next : Nat \ {0}, stop : Nat \ {0}])
    BY <2>2, LoopsTyped
  <2> QED
    BY <2>1, <2>3
<1>10. Fresh'
  <2>1. ASSUME NEW m \in inbox, NEW k \in DOMAIN MessageOf[m]
        PROVE  instantStates'[MessageOf[m][k]] = "ABSENT" /\ ~ Queued(MessageOf[m][k])'
    <3>1. MessageOf[m] \in Seq(Action)
      BY DEF TypeOK, MessagesAssumption
    <3>2. MessageOf[m][k] \in Action
      BY <3>1
    <3>3. instantStates[MessageOf[m][k]] = "ABSENT" /\ ~ Queued(MessageOf[m][k])
      BY DEF QueueInv, Fresh
    <3>4. MessageOf[m][k] # queue[i]
      BY <1>1, <3>3 DEF Queued
    <3> QED
      BY <1>5, <1>7, <3>2, <3>3, <3>4 DEF Queued
  <2> QED
    BY <2>1 DEF Fresh
<1>11. \A a \in Action : Queued(a) /\ a # queue[i] => Queued(a)' /\ instantStates'[a] = instantStates[a]
  BY <1>6, <1>7 DEF Queued
<1>12. Owed'
  <2>1. scheduled \subseteq Action /\ cancelContext \in Action \cup {None}
    BY DEF TypeOK
  <2>2. ASSUME NEW a \in scheduled'
        PROVE  /\ ActionType[a] = "other" /\ instantStates'[a] = "ACTIVE" /\ Queued(a)'
    BY <1>11, <2>1 DEF QueueInv, Owed
  <2>3. ASSUME hasCancelingOrder'
        PROVE  /\ ActionType[cancelContext'] = "cancelOrder"
               /\ instantStates'[cancelContext'] = "ACTIVE" /\ Queued(cancelContext)'
    <3>1. cancelContext' = cancelContext /\ cancelContext # queue[i] /\ hasCancelingOrder
          /\ cancelContext \in Action
      BY <2>1, <2>3 DEF hasCancelingOrder
    <3>2. PICK c : c = cancelContext
      OBVIOUS
    <3>3. Queued(c)' /\ instantStates'[c] = instantStates[c]
      BY <1>11, <3>1, <3>2 DEF QueueInv, Owed
    <3>4. instantStates[c] = "ACTIVE" /\ ActionType[c] = "cancelOrder"
      BY <3>1, <3>2 DEF QueueInv, Owed
    <3> QED
      BY <3>1, <3>2, <3>3, <3>4 DEF Queued
  <2> QED
    BY <2>2, <2>3 DEF Owed
<1>13. AtTheEnd'
  <2>1. ASSUME NEW r \in DOMAIN queue', instantStates'[queue'[r]] = "ABSENT",
               EndsAtOnce(queue'[r]), ~ Hard(queue'[r])
        PROVE  r = Len(queue')
    <3>1. PICK k : k = IF r < i THEN r ELSE r + 1
      OBVIOUS
    <3>2. k \in DOMAIN queue \ {i} /\ queue'[r] = queue[k] /\ Len(queue') = Len(queue) - 1
      BY <1>3, <3>1 DEF IsRest
    <3>3. queue[k] \in Action /\ queue[k] # queue[i]
      BY <1>1, <1>6, <3>2
    <3>4. instantStates[queue[k]] = "ABSENT"
      BY <1>7, <2>1, <3>2, <3>3
    <3>5. k = Len(queue)
      BY <2>1, <3>2, <3>4 DEF QueueInv, AtTheEnd
    <3>6. r \in Nat
      <4>1. DOMAIN queue' = 1 .. Len(queue')
        BY <1>4
      <4> QED
        BY <1>1, <3>2, <4>1
    <3> QED
      BY <1>1, <3>1, <3>2, <3>5, <3>6
  <2> QED
    BY <2>1 DEF AtTheEnd, EndsAtOnce
<1>14. InOrder'
  <2>1. PICK I \in Inboxes : Incoming(I) /\ (HardAtOnce(I) \/ LastAtOnce(I))
    BY DEF QueueInv, InOrder
  <2>2. Incoming(I)'
    BY <1>5, <2>1 DEF Incoming
  <2> QED
    BY <2>1, <2>2 DEF InOrder
<1> QED
  BY <1>4, <1>7, <1>8, <1>9, <1>10, <1>12, <1>13, <1>14 DEF QueueInv

(* The loop that is under way: the action it executes next is pending, and *)
(* one that will end at once is its last.                                  *)
LEMMA LoopFacts ==
  ASSUME QueueInv, ~ HandlerDone
  PROVE  \E x, y \in NextToRun(queue, 0) :
           /\ NextIndex = x /\ x \in DOMAIN queue /\ x <= y /\ y \in Nat
           /\ \A k \in NextToRun(queue, 0) : k <= y
           /\ LoopsAfter = IF x = y THEN << >> ELSE <<[next |-> x + 1, stop |-> y]>>
           /\ \A j \in DOMAIN queue :
                instantStates[queue[j]]
                  = IF j \in NextToRun(queue, 0) /\ j < x THEN "ACTIVE" ELSE "ABSENT"
           /\ EndsAtOnce(queue[x]) => x = y
<1>1. queue \in Seq(Action) /\ loops # << >>
  BY DEF QueueInv, HandlerDone
<1>2. PICK x, y \in NextToRun(queue, 0) :
         /\ loops = <<[next |-> x, stop |-> y]>>
         /\ x <= y /\ \A k \in NextToRun(queue, 0) : k <= y
         /\ Runs(queue, instantStates, x)
  BY <1>1 DEF QueueInv, Loops
<1>3. x \in DOMAIN queue /\ y \in DOMAIN queue /\ x \in Nat /\ y \in Nat
      /\ DOMAIN queue = 1 .. Len(queue) /\ Len(queue) \in Nat
  <2>1. DOMAIN queue = 1 .. Len(queue) /\ Len(queue) \in Nat
    BY <1>1
  <2> QED
    BY <1>1, <2>1, FrontFacts
<1>4. Head(loops) = [next |-> x, stop |-> y] /\ Tail(loops) = << >>
  BY <1>2
<1>5. NextIndex = x
  BY <1>4 DEF NextIndex
<1>6. LoopsAfter = IF x = y THEN << >> ELSE <<[next |-> x + 1, stop |-> y]>>
  <2>1. [Head(loops) EXCEPT !.next = @ + 1] = [next |-> x + 1, stop |-> y]
    BY <1>4
  <2>2. <<[next |-> x + 1, stop |-> y]>> \o << >> = <<[next |-> x + 1, stop |-> y]>>
    OBVIOUS
  <2>3. Head(loops).stop = y
    BY <1>4
  <2> QED
    BY <1>4, <1>5, <2>1, <2>2, <2>3 DEF LoopsAfter
<1>7. \A j \in DOMAIN queue :
        instantStates[queue[j]]
          = IF j \in NextToRun(queue, 0) /\ j < x THEN "ACTIVE" ELSE "ABSENT"
  BY <1>2 DEF Runs
<1>8. ASSUME EndsAtOnce(queue[x])
      PROVE  x = y
  <2>1. CASE Hard(queue[x])
    <3>1. NextToRun(queue, 0) = {1}
      BY <1>1, <2>1, FrontFacts
    <3> QED
      BY <3>1
  <2>2. CASE ~ Hard(queue[x])
    <3>1. instantStates[queue[x]] = "ABSENT"
      BY <1>3, <1>7
    <3>2. x = Len(queue)
      BY <1>3, <1>8, <2>2, <3>1 DEF QueueInv, AtTheEnd
    <3> QED
      BY <1>2, <1>3, <3>2
  <2> QED
    BY <2>1, <2>2
<1> QED
  BY <1>2, <1>3, <1>5, <1>6, <1>7, <1>8

(* Executing an action that does not end at once keeps the queue in order. *)
LEMMA StartedKeeps ==
  ASSUME MessagesAssumption, TypeOK, QueueInv, ~ HandlerDone,
         NEW a, a = queue[NextIndex],
         instantStates' = [instantStates EXCEPT ![a] = "ACTIVE"],
         loops' = LoopsAfter, queue' = queue, inbox' = inbox,
         \A b \in scheduled' : b \in scheduled \/ (b = a /\ ActionType[b] = "other"),
         \/ cancelContext' = cancelContext
         \/ cancelContext' = a /\ ActionType[a] = "cancelOrder"
  PROVE  QueueInv'
<1>1. PICK x, y \in NextToRun(queue, 0) :
           /\ NextIndex = x /\ x \in DOMAIN queue /\ x <= y /\ y \in Nat
           /\ \A k \in NextToRun(queue, 0) : k <= y
           /\ LoopsAfter = IF x = y THEN << >> ELSE <<[next |-> x + 1, stop |-> y]>>
           /\ \A j \in DOMAIN queue :
                instantStates[queue[j]]
                  = IF j \in NextToRun(queue, 0) /\ j < x THEN "ACTIVE" ELSE "ABSENT"
           /\ EndsAtOnce(queue[x]) => x = y
  BY LoopFacts
<1>2. /\ queue \in Seq(Action) /\ Unique(queue) /\ a \in Action /\ a = queue[x]
      /\ DOMAIN queue = 1 .. Len(queue) /\ Len(queue) \in Nat /\ x \in Nat
      /\ instantStates \in [Action -> {"ABSENT", "ACTIVE", "ENDED"}]
  <2>1. queue \in Seq(Action)
    BY DEF QueueInv
  <2> QED
    BY <1>1, <2>1, ElementFacts DEF QueueInv
<1>3. /\ instantStates' \in [Action -> {"ABSENT", "ACTIVE", "ENDED"}]
      /\ instantStates'[a] = "ACTIVE"
      /\ \A b \in Action : b # a => instantStates'[b] = instantStates[b]
  BY <1>2
<1>4. \A j \in DOMAIN queue : queue[j] \in Action /\ (j # x => queue[j] # a)
  BY <1>1, <1>2, ElementFacts DEF Unique
<1>5. \A j \in DOMAIN queue :
        instantStates'[queue[j]]
          = IF j \in NextToRun(queue, 0) /\ j <= x THEN "ACTIVE" ELSE "ABSENT"
  BY <1>1, <1>2, <1>3, <1>4
<1>6. Loops(queue, instantStates', loops')
  <2>1. CASE x = y
    <3>1. Runs(queue, instantStates', Len(queue) + 1)
      <4>1. \A j \in DOMAIN queue : j < Len(queue) + 1
        BY <1>2
      <4>2. \A j \in NextToRun(queue, 0) : j <= x
        BY <1>1, <2>1
      <4> QED
        BY <1>5, <4>1, <4>2 DEF Runs
    <3> QED
      BY <1>1, <2>1, <3>1 DEF Loops
  <2>2. CASE x # y
    <3>1. x + 1 <= y /\ x + 1 \in 1 .. y
      BY <1>1, <1>2, <2>2
    <3>2. x + 1 \in NextToRun(queue, 0)
      BY <1>2, <3>1, FrontFacts
    <3>3. Runs(queue, instantStates', x + 1)
      <4>1. \A j \in DOMAIN queue : j <= x <=> j < x + 1
        BY <1>2
      <4> QED
        BY <1>5, <4>1 DEF Runs
    <3>4. loops' = <<[next |-> x + 1, stop |-> y]>>
      BY <1>1, <2>2
    <3> QED
      BY <1>1, <3>1, <3>2, <3>3, <3>4 DEF Loops
  <2> QED
    BY <2>1, <2>2
<1>7. loops' \in Seq([next : Nat \ {0}, stop : Nat \ {0}])
  <2>1. PICK states, ls : states = instantStates' /\ ls = loops'
    OBVIOUS
  <2>2. Loops(queue, states, ls)
    BY <1>6, <2>1
  <2>3. ls \in Seq([next : Nat \ {0}, stop : Nat \ {0}])
    BY <1>2, <2>2, LoopsTyped
  <2> QED
    BY <2>1, <2>3
<1>8. Fresh'
  <2>1. ASSUME NEW m \in inbox, NEW k \in DOMAIN MessageOf[m]
        PROVE  instantStates'[MessageOf[m][k]] = "ABSENT" /\ ~ Queued(MessageOf[m][k])
    <3>1. MessageOf[m] \in Seq(Action)
      BY DEF TypeOK, MessagesAssumption
    <3>2. MessageOf[m][k] \in Action
      BY <3>1
    <3>3. instantStates[MessageOf[m][k]] = "ABSENT" /\ ~ Queued(MessageOf[m][k])
      BY DEF QueueInv, Fresh
    <3>4. MessageOf[m][k] # a
      BY <1>1, <1>2, <3>3 DEF Queued
    <3> QED
      BY <1>3, <3>2, <3>3, <3>4
  <2> QED
    BY <2>1 DEF Fresh, Queued
<1>9. Owed'
  <2>1. scheduled \subseteq Action /\ cancelContext \in Action \cup {None}
    BY DEF TypeOK
  <2>2. Queued(a)
    BY <1>1, <1>2 DEF Queued
  <2>3. \A b \in Action : instantStates[b] = "ACTIVE" => instantStates'[b] = "ACTIVE"
    BY <1>3
  <2>4. ASSUME NEW b \in scheduled'
        PROVE  ActionType[b] = "other" /\ instantStates'[b] = "ACTIVE" /\ Queued(b)
    <3>1. CASE b \in scheduled
      BY <2>1, <2>3, <3>1 DEF QueueInv, Owed
    <3>2. CASE b = a /\ ActionType[b] = "other"
      BY <1>3, <2>2, <3>2
    <3> QED
      BY <2>4, <3>1, <3>2
  <2>5. ASSUME hasCancelingOrder'
        PROVE  /\ ActionType[cancelContext'] = "cancelOrder"
               /\ instantStates'[cancelContext'] = "ACTIVE" /\ Queued(cancelContext')
    <3>1. CASE cancelContext' = cancelContext
      <4>1. hasCancelingOrder /\ cancelContext \in Action
        BY <2>1, <2>5, <3>1 DEF hasCancelingOrder
      <4> QED
        BY <2>3, <3>1, <4>1 DEF QueueInv, Owed
    <3>2. CASE cancelContext' = a /\ ActionType[a] = "cancelOrder"
      BY <1>3, <2>2, <3>2
    <3> QED
      BY <3>1, <3>2
  <2> QED
    BY <2>4, <2>5 DEF Owed, Queued
<1>10. AtTheEnd'
  <2>1. ASSUME NEW r \in DOMAIN queue, instantStates'[queue[r]] = "ABSENT",
               EndsAtOnce(queue[r]), ~ Hard(queue[r])
        PROVE  r = Len(queue)
    <3>1. instantStates[queue[r]] = "ABSENT"
      BY <1>3, <1>4, <2>1
    <3> QED
      BY <2>1, <3>1 DEF QueueInv, AtTheEnd
  <2> QED
    BY <2>1 DEF AtTheEnd, EndsAtOnce
<1>11. InOrder'
  BY DEF QueueInv, InOrder, Incoming
<1> QED
  BY <1>2, <1>3, <1>6, <1>7, <1>8, <1>9, <1>10, <1>11 DEF QueueInv

-----------------------------------------------------------------------------
(* The receipt of a message *)

(* t is the list q, followed by the list p.                                *)
IsJoined(q, p, t) ==
  /\ t \in Seq(Action) /\ Len(t) = Len(q) + Len(p)
  /\ \A i \in DOMAIN q : t[i] = q[i]
  /\ \A i \in DOMAIN p : t[Len(q) + i] = p[i]

LEMMA JoinedFacts ==
  ASSUME NEW q \in Seq(Action), NEW p \in Seq(Action)
  PROVE  IsJoined(q, p, q \o p)
BY ConcatProperties, ElementFacts DEF IsJoined

(* When all actions of the queue are executing as they should, and none of *)
(* the new ones, then the new ones are executed as far as they should.     *)
LEMMA ReceivedLoops ==
  ASSUME NEW q \in Seq(Action), NEW p \in Seq(Action), NEW t, IsJoined(q, p, t),
         NEW states, Runs(q, states, Len(q) + 1),
         \A j \in DOMAIN p : states[p[j]] = "ABSENT"
  PROVE  Loops(t, states, IF \E i \in DOMAIN q : Hard(q[i]) THEN << >>
                          ELSE Chunk(t, Len(q), q # << >>))
<1>1. /\ t \in Seq(Action) /\ Len(q) \in Nat /\ Len(p) \in Nat /\ Len(t) = Len(q) + Len(p)
      /\ DOMAIN q = 1 .. Len(q) /\ DOMAIN p = 1 .. Len(p) /\ DOMAIN t = 1 .. Len(t)
      /\ Len(t) \in Nat
  BY ElementFacts DEF IsJoined
<1>2. \A i \in DOMAIN q : i \in DOMAIN t /\ t[i] = q[i]
  BY <1>1 DEF IsJoined
<1>3. \A i \in DOMAIN t : i \notin DOMAIN q => states[t[i]] = "ABSENT"
  <2>1. ASSUME NEW i \in DOMAIN t, i \notin DOMAIN q
        PROVE  states[t[i]] = "ABSENT"
    <3>1. i - Len(q) \in DOMAIN p /\ Len(q) + (i - Len(q)) = i
      BY <1>1, <2>1
    <3>2. t[i] = p[i - Len(q)]
      BY <3>1 DEF IsJoined
    <3> QED
      BY <3>1, <3>2
  <2> QED
    BY <2>1
<1>4. \A i \in DOMAIN q :
        states[t[i]] = IF i \in NextToRun(q, 0) THEN "ACTIVE" ELSE "ABSENT"
  <2>1. \A i \in DOMAIN q : i < Len(q) + 1
    BY <1>1
  <2> QED
    BY <1>2, <2>1 DEF Runs
<1>5. CASE q = << >>
  <2>1. Len(q) = 0 /\ DOMAIN q = {} /\ (q # << >>) = FALSE
    BY <1>5
  <2>2. Loops(t, states, Chunk(t, 0, FALSE))
    BY <1>1, <1>3, <2>1, NothingStarted
  <2> QED
    BY <2>1, <2>2
<1>6. CASE q # << >> /\ \E i \in DOMAIN q : Hard(q[i])
  <2>1. 1 \in DOMAIN q /\ t # << >> /\ t[1] = q[1]
    BY <1>1, <1>2, <1>6
  <2>2. \A k \in DOMAIN t : k \in NextToRun(t, 0) <=> k \in NextToRun(q, 0)
    <3>1. CASE Hard(q[1])
      BY <1>1, <1>6, <2>1, <3>1, HardFront
    <3>2. CASE ~ Hard(q[1])
      <4>1. \A k \in DOMAIN q : k \in NextToRun(q, 0) <=> \A j \in 1 .. k : ~ Hard(q[j])
        BY <1>6, <3>2, SoftFront
      <4>2. \A k \in DOMAIN t : k \in NextToRun(t, 0) <=> \A j \in 1 .. k : ~ Hard(t[j])
        BY <1>1, <2>1, <3>2, SoftFront
      <4>3. ASSUME NEW k \in DOMAIN q
            PROVE  k \in NextToRun(t, 0) <=> k \in NextToRun(q, 0)
        <5>1. \A j \in 1 .. k : j \in DOMAIN q
          BY <1>1
        <5> QED
          BY <1>2, <4>1, <4>2, <5>1
      <4>4. ASSUME NEW k \in DOMAIN t, k \notin DOMAIN q
            PROVE  k \notin NextToRun(t, 0) /\ k \notin NextToRun(q, 0)
        <5>1. PICK i \in DOMAIN q : Hard(q[i])
          BY <1>6
        <5>2. i \in 1 .. k /\ Hard(t[i])
          BY <1>1, <1>2, <4>4, <5>1
        <5> QED
          BY <4>2, <4>4, <5>2, FrontFacts
      <4> QED
        BY <4>3, <4>4
    <3> QED
      BY <3>1, <3>2
  <2>3. NextToRun(q, 0) \subseteq DOMAIN q
    BY FrontFacts
  <2>4. \A i \in DOMAIN t : i < Len(t) + 1
    BY <1>1
  <2>5. Runs(t, states, Len(t) + 1)
    BY <1>3, <1>4, <2>2, <2>3, <2>4 DEF Runs
  <2> QED
    BY <1>6, <2>5 DEF Loops
<1>7. CASE q # << >> /\ ~ \E i \in DOMAIN q : Hard(q[i])
  <2>1. 1 \in DOMAIN q /\ t # << >> /\ t[1] = q[1] /\ ~ Hard(q[1])
    BY <1>1, <1>2, <1>7
  <2>2. \A k \in DOMAIN q : k \in NextToRun(q, 0)
    <3>1. \A k \in DOMAIN q : \A j \in 1 .. k : j \in DOMAIN q
      BY <1>1
    <3> QED
      BY <1>7, <2>1, <3>1, SoftFront
  <2>3. \A k \in DOMAIN t : k \in NextToRun(t, 0) <=> \A j \in 1 .. k : ~ Hard(t[j])
    BY <1>1, <2>1, SoftFront
  <2>4. ASSUME NEW k \in DOMAIN t
        PROVE  k \in NextToRun(t, 0) <=> k \in DOMAIN q \/ k \in Segment(t, Len(q))
    <3>1. CASE k \in DOMAIN q
      <4>1. \A j \in 1 .. k : j \in DOMAIN q
        BY <1>1, <3>1
      <4> QED
        BY <1>2, <1>7, <2>3, <3>1, <4>1
    <3>2. CASE k \notin DOMAIN q
      <4>1. k > Len(q) /\ k \in Nat
        BY <1>1, <3>2
      <4>2. \A j \in 1 .. k : j \in DOMAIN q \/ j \in (Len(q) + 1) .. k
        BY <1>1
      <4>3. \A j \in (Len(q) + 1) .. k : j \in 1 .. k
        BY <1>1, <4>1
      <4>4. \A j \in DOMAIN q : ~ Hard(t[j])
        BY <1>2, <1>7
      <4> QED
        BY <2>3, <3>2, <4>1, <4>2, <4>3, <4>4 DEF Segment
    <3> QED
      BY <3>1, <3>2
  <2>5. \A k \in Segment(t, Len(q)) : k \in DOMAIN t /\ k \notin DOMAIN q
    BY <1>1 DEF Segment
  <2>6. \A i \in DOMAIN t : states[t[i]] = IF i \in DOMAIN q THEN "ACTIVE" ELSE "ABSENT"
    BY <1>3, <1>4, <2>2
  <2>7. PICK run : run = IF Segment(t, Len(q)) = {} /\ TRUE THEN {}
                         ELSE NextToRun(t, Len(q))
    OBVIOUS
  <2>8. run = Segment(t, Len(q))
    BY <1>7, <2>7 DEF NextToRun
  <2>9. /\ run = {} => Chunk(t, Len(q), q # << >>) = << >>
        /\ \A y \in run : (\A k \in run : k <= y) =>
             Chunk(t, Len(q), q # << >>) = <<[next |-> Len(q) + 1, stop |-> y]>>
    <3>1. Chunk(t, Len(q), TRUE) =
            IF run = {} THEN << >>
            ELSE <<[next |-> Len(q) + 1, stop |-> CHOOSE j \in run : \A k \in run : k <= j]>>
      BY <2>7 DEF Chunk
    <3>2. (q # << >>) = TRUE
      BY <1>7
    <3>3. \A k \in run : k \in Nat
      BY <1>1, <2>5, <2>8
    <3>4. ASSUME NEW y \in run, \A k \in run : k <= y
          PROVE  (CHOOSE j \in run : \A k \in run : k <= j) = y
      <4>1. \A j \in run : (\A k \in run : k <= j) => j = y
        BY <3>3, <3>4
      <4> QED
        BY <3>4, <4>1
    <3> QED
      BY <3>1, <3>2, <3>4
  <2>10. CASE run = {}
    <3>1. \A i \in DOMAIN t : i < Len(t) + 1
      BY <1>1
    <3>2. Runs(t, states, Len(t) + 1)
      BY <2>4, <2>6, <2>8, <2>10, <3>1 DEF Runs
    <3> QED
      BY <1>7, <2>9, <2>10, <3>2 DEF Loops
  <2>11. CASE run # {}
    <3>1. run \in SUBSET (1 .. Len(t))
      BY <1>1, <2>5, <2>8
    <3>2. PICK y \in run : \A k \in run : k <= y
      BY <1>1, <2>11, <3>1, LastIndex
    <3>3. y \in DOMAIN t /\ y \notin DOMAIN q /\ y \in Nat /\ Len(q) + 1 <= y
      BY <1>1, <2>5, <2>8, <3>2
    <3>4. y \in NextToRun(t, 0) /\ Len(q) + 1 \in 1 .. y
      BY <1>1, <2>4, <2>8, <3>3
    <3>5. Len(q) + 1 \in NextToRun(t, 0)
      BY <1>1, <3>4, FrontFacts
    <3>6. \A k \in NextToRun(t, 0) : k <= y
      <4>1. ASSUME NEW k \in NextToRun(t, 0)
            PROVE  k <= y
        <5>1. k \in DOMAIN t
          BY <1>1, FrontFacts
        <5>2. k \in DOMAIN q \/ k \in run
          BY <2>4, <2>8, <5>1
        <5> QED
          BY <1>1, <3>2, <3>3, <5>2
      <4> QED
        BY <4>1
    <3>7. Runs(t, states, Len(q) + 1)
      <4>1. \A i \in DOMAIN t : i < Len(q) + 1 <=> i \in DOMAIN q
        BY <1>1
      <4> QED
        BY <2>4, <2>6, <4>1 DEF Runs
    <3>8. Chunk(t, Len(q), q # << >>) = <<[next |-> Len(q) + 1, stop |-> y]>>
      BY <2>9, <3>2
    <3> QED
      BY <1>7, <3>3, <3>4, <3>5, <3>6, <3>7, <3>8 DEF Loops
  <2> QED
    BY <2>10, <2>11
<1> QED
  BY <1>5, <1>6, <1>7

(* _processInstantActions keeps the queue in order.                        *)
LEMMA ReceivedKeeps ==
  ASSUME MessagesAssumption, UniqueActions, TypeOK, QueueInv, HandlerDone, NEW m \in inbox,
         NEW accepted \in Seq(Action), NEW S, NEW g,
         Selects(MessageOf[m], S, accepted, g, Len(MessageOf[m])),
         queue' = queue \o accepted, inbox' = inbox \ {m},
         loops' = IF \E i \in DOMAIN queue : Hard(queue[i]) THEN << >>
                  ELSE Chunk(queue', Len(queue), queue # << >>),
         instantStates' = instantStates, scheduled' = scheduled, cancelContext' = cancelContext
  PROVE  QueueInv'
<1>1. PICK p \in Seq(Action) : p = MessageOf[m] /\ m \in Messages
  BY DEF TypeOK, MessagesAssumption
<1>2. /\ Len(p) \in Nat /\ DOMAIN p = 1 .. Len(p) /\ Len(accepted) \in Nat
      /\ DOMAIN accepted = 1 .. Len(accepted)
      /\ queue \in Seq(Action) /\ Len(queue) \in Nat /\ DOMAIN queue = 1 .. Len(queue)
  <2>1. queue \in Seq(Action)
    BY DEF QueueInv
  <2> QED
    BY <2>1, ElementFacts
<1>3. \A k \in DOMAIN accepted : g[k] \in DOMAIN p /\ accepted[k] = p[g[k]]
  BY <1>1, <1>2 DEF Selects
<1>4. \A k, l \in DOMAIN accepted : k < l => g[k] < g[l]
  BY <1>2 DEF Selects
<1>5. \A i \in DOMAIN p : instantStates[p[i]] = "ABSENT" /\ ~ Queued(p[i])
  BY <1>1 DEF QueueInv, Fresh
<1>6. PICK t : t = queue'
  OBVIOUS
<1>7. IsJoined(queue, accepted, t)
  BY <1>2, <1>6, JoinedFacts
<1>8. /\ t \in Seq(Action) /\ Len(t) = Len(queue) + Len(accepted) /\ DOMAIN t = 1 .. Len(t)
      /\ \A i \in DOMAIN queue : i \in DOMAIN t /\ t[i] = queue[i]
  BY <1>2, <1>7, ElementFacts DEF IsJoined
<1>9. ASSUME NEW i \in DOMAIN t, i \notin DOMAIN queue
      PROVE  \E k \in DOMAIN accepted : i = Len(queue) + k /\ t[i] = accepted[k]
  <2>1. i - Len(queue) \in DOMAIN accepted /\ i = Len(queue) + (i - Len(queue))
    BY <1>2, <1>8, <1>9
  <2>2. t[i] = accepted[i - Len(queue)]
    BY <1>7, <2>1 DEF IsJoined
  <2> QED
    BY <2>1, <2>2
<1>10. \A i \in DOMAIN t : i \notin DOMAIN queue => ~ Queued(t[i]) /\ \E j \in DOMAIN p : t[i] = p[j]
  <2>1. ASSUME NEW i \in DOMAIN t, i \notin DOMAIN queue
        PROVE  ~ Queued(t[i]) /\ \E j \in DOMAIN p : t[i] = p[j]
    <3>1. PICK k \in DOMAIN accepted : i = Len(queue) + k /\ t[i] = accepted[k]
      BY <1>9, <2>1
    <3> QED
      BY <1>3, <1>5, <3>1
  <2> QED
    BY <2>1
<1>11. Unique(t)
  <2>1. ASSUME NEW i \in DOMAIN t, NEW j \in DOMAIN t, t[i] = t[j]
        PROVE  i = j
    <3>1. CASE i \in DOMAIN queue /\ j \in DOMAIN queue
      BY <1>8, <2>1, <3>1 DEF QueueInv, Unique
    <3>2. CASE i \notin DOMAIN queue /\ j \in DOMAIN queue
      BY <1>8, <1>10, <2>1, <3>2 DEF Queued
    <3>3. CASE i \in DOMAIN queue /\ j \notin DOMAIN queue
      BY <1>8, <1>10, <2>1, <3>3 DEF Queued
    <3>4. CASE i \notin DOMAIN queue /\ j \notin DOMAIN queue
      <4>1. PICK k \in DOMAIN accepted : i = Len(queue) + k /\ t[i] = accepted[k]
        BY <1>9, <3>4
      <4>2. PICK l \in DOMAIN accepted : j = Len(queue) + l /\ t[j] = accepted[l]
        BY <1>9, <3>4
      <4>3. p[g[k]] = p[g[l]] /\ g[k] \in DOMAIN p /\ g[l] \in DOMAIN p
        BY <1>3, <2>1, <4>1, <4>2
      <4>4. g[k] = g[l]
        BY <1>1, <4>3 DEF UniqueActions
      <4>5. g[k] \in Nat /\ k \in Nat /\ l \in Nat
        BY <1>2, <4>3
      <4>6. ~ (k < l) /\ ~ (l < k)
        BY <1>4, <4>4, <4>5
      <4> QED
        BY <4>1, <4>2, <4>5, <4>6
    <3> QED
      BY <3>1, <3>2, <3>3, <3>4
  <2> QED
    BY <2>1 DEF Unique
<1>12. Runs(queue, instantStates, Len(queue) + 1)
  BY DEF QueueInv, Loops, HandlerDone
<1>13. Loops(t, instantStates, loops')
  <2>1. \A j \in DOMAIN accepted : instantStates[accepted[j]] = "ABSENT"
    BY <1>3, <1>5
  <2> QED
    BY <1>2, <1>6, <1>7, <1>12, <2>1, ReceivedLoops
<1>14. loops' \in Seq([next : Nat \ {0}, stop : Nat \ {0}])
  <2>1. PICK ls : ls = loops'
    OBVIOUS
  <2>2. ls \in Seq([next : Nat \ {0}, stop : Nat \ {0}])
    BY <1>8, <1>13, <2>1, LoopsTyped
  <2> QED
    BY <2>1, <2>2
<1>15. Fresh'
  <2>1. ASSUME NEW n \in inbox, n # m, NEW k \in DOMAIN MessageOf[n]
        PROVE  instantStates[MessageOf[n][k]] = "ABSENT" /\ ~ \E i \in DOMAIN t : t[i] = MessageOf[n][k]
    <3>1. n \in Messages
      BY DEF TypeOK
    <3>2. instantStates[MessageOf[n][k]] = "ABSENT" /\ ~ Queued(MessageOf[n][k])
      BY DEF QueueInv, Fresh
    <3>3. ASSUME NEW i \in DOMAIN t, t[i] = MessageOf[n][k]
          PROVE  FALSE
      <4>1. CASE i \in DOMAIN queue
        BY <1>8, <3>2, <3>3, <4>1 DEF Queued
      <4>2. CASE i \notin DOMAIN queue
        <5>1. PICK j \in DOMAIN p : t[i] = p[j]
          BY <1>10, <4>2
        <5> QED
          BY <1>1, <2>1, <3>1, <3>3, <5>1 DEF UniqueActions
      <4> QED
        BY <4>1, <4>2
    <3> QED
      BY <3>2, <3>3
  <2> QED
    BY <1>6, <2>1 DEF Fresh, Queued
<1>16. Owed'
  <2>1. \A a : Queued(a) => Queued(a)'
    BY <1>6, <1>8 DEF Queued
  <2> QED
    BY <2>1 DEF QueueInv, Owed, hasCancelingOrder
<1>17. PICK I \in Inboxes : Incoming(I) /\ (HardAtOnce(I) \/ LastAtOnce(I))
  BY DEF QueueInv, InOrder
<1>18. \A i \in DOMAIN t : \E n \in I : \E j \in DOMAIN MessageOf[n] : t[i] = MessageOf[n][j]
  <2>1. m \in I
    BY <1>17 DEF Incoming
  <2> QED
    BY <1>1, <1>8, <1>10, <1>17, <2>1 DEF Incoming
<1>19. ASSUME NEW r \in DOMAIN t, instantStates[t[r]] = "ABSENT", EndsAtOnce(t[r]), ~ Hard(t[r])
       PROVE  r = Len(t)
  <2>1. LastAtOnce(I)
    BY <1>17, <1>18, <1>19 DEF HardAtOnce
  <2>2. \A i \in DOMAIN t : ~ Hard(t[i])
    BY <1>18, <2>1 DEF LastAtOnce
  <2>3. r \notin DOMAIN queue
    <3>1. ASSUME r \in DOMAIN queue
          PROVE  FALSE
      <4>1. \A i \in DOMAIN queue : ~ Hard(queue[i])
        BY <1>8, <2>2
      <4>2. queue # << >> /\ 1 \in DOMAIN queue
        BY <1>2, <3>1
      <4>3. \A j \in 1 .. r : j \in DOMAIN queue
        BY <1>2, <3>1
      <4>4. r \in NextToRun(queue, 0)
        BY <1>2, <3>1, <4>1, <4>2, <4>3, SoftFront
      <4>5. r < Len(queue) + 1
        BY <1>2, <3>1
      <4>6. instantStates[queue[r]] = "ACTIVE"
        BY <1>12, <3>1, <4>4, <4>5 DEF Runs
      <4> QED
        BY <1>8, <1>19, <3>1, <4>6
    <3> QED
      BY <3>1
  <2>4. PICK k \in DOMAIN accepted : r = Len(queue) + k /\ t[r] = accepted[k]
    BY <1>9, <2>3
  <2>5. g[k] \in DOMAIN p /\ t[r] = p[g[k]]
    BY <1>3, <2>4
  <2>6. g[k] = Len(p)
    <3>1. m \in I
      BY <1>17 DEF Incoming
    <3> QED
      BY <1>1, <1>19, <2>1, <2>5, <3>1 DEF LastAtOnce
  <2>7. k = Len(accepted)
    <3>1. ASSUME k # Len(accepted)
          PROVE  FALSE
      <4>1. Len(accepted) \in DOMAIN accepted /\ k < Len(accepted)
        BY <1>2, <3>1
      <4>2. g[k] < g[Len(accepted)] /\ g[Len(accepted)] \in DOMAIN p
        BY <1>3, <1>4, <4>1
      <4> QED
        BY <1>2, <2>6, <4>2
    <3> QED
      BY <3>1
  <2> QED
    BY <1>8, <2>4, <2>7
<1>20. AtTheEnd'
  BY <1>6, <1>19 DEF AtTheEnd, EndsAtOnce
<1>21. InOrder'
  BY <1>6, <1>17, <1>18 DEF InOrder, Incoming
<1> QED
  BY <1>6, <1>8, <1>11, <1>13, <1>14, <1>15, <1>16, <1>20, <1>21 DEF QueueInv

-----------------------------------------------------------------------------
(* The steps *)

LEMMA UnchangedKeeps ==
  ASSUME QueueInv,
         UNCHANGED <<queue, instantStates, loops, cancelContext, scheduled, inbox>>
  PROVE  QueueInv'
<1>1. Fresh' /\ Owed' /\ AtTheEnd' /\ InOrder'
  BY DEF QueueInv, Fresh, Owed, AtTheEnd, EndsAtOnce, InOrder, Incoming, Queued, hasCancelingOrder
<1> QED
  BY <1>1 DEF QueueInv

(* Between handlers, an action that is executing is one of those to run    *)
(* first, and all of these are executing.                                  *)
LEMMA IdleFacts ==
  ASSUME QueueInv, HandlerDone, NEW a, Queued(a), instantStates[a] = "ACTIVE"
  PROVE  \E i \in NextToRun(queue, 0) :
           /\ queue[i] = a
           /\ \A j \in DOMAIN queue \ {i} :
                instantStates[queue[j]] = IF j \in NextToRun(queue, 0) THEN "ACTIVE" ELSE "ABSENT"
<1>1. Runs(queue, instantStates, Len(queue) + 1)
  BY DEF QueueInv, Loops, HandlerDone
<1>2. \A j \in DOMAIN queue : j < Len(queue) + 1
  BY ElementFacts DEF QueueInv
<1>3. \A j \in DOMAIN queue :
        instantStates[queue[j]] = IF j \in NextToRun(queue, 0) THEN "ACTIVE" ELSE "ABSENT"
  BY <1>1, <1>2 DEF Runs
<1>4. PICK i \in DOMAIN queue : queue[i] = a
  BY DEF Queued
<1>5. i \in NextToRun(queue, 0)
  BY <1>3, <1>4
<1> QED
  BY <1>3, <1>4, <1>5

(* An answer of the adapter ends an action between handlers.               *)
LEMMA AnsweredKeeps ==
  ASSUME MessagesAssumption, TypeOK, QueueInv, HandlerDone,
         NEW a, Queued(a), instantStates[a] = "ACTIVE", ActionEnded(a, << >>),
         inbox' = inbox, scheduled' \subseteq scheduled \ {a},
         cancelContext' = None \/ (cancelContext' = cancelContext /\ cancelContext # a)
  PROVE  QueueInv'
<1>1. PICK i \in NextToRun(queue, 0) :
           /\ queue[i] = a
           /\ \A j \in DOMAIN queue \ {i} :
                instantStates[queue[j]] = IF j \in NextToRun(queue, 0) THEN "ACTIVE" ELSE "ABSENT"
  BY IdleFacts
<1>2. ActionEnded(queue[i], << >>) /\ scheduled' \subseteq scheduled \ {queue[i]}
      /\ (cancelContext' = None \/ (cancelContext' = cancelContext /\ cancelContext # queue[i]))
  BY <1>1
<1> QED
  BY <1>1, <1>2, EndedKeeps

(* An action ends while it is being executed: it is the last of its loop.  *)
LEMMA AtOnceKeeps ==
  ASSUME MessagesAssumption, TypeOK, QueueInv, ~ HandlerDone,
         EndsAtOnce(queue[NextIndex]), ActionEnded(queue[NextIndex], LoopsAfter),
         inbox' = inbox, scheduled' = scheduled,
         cancelContext' = None \/ cancelContext' = cancelContext
  PROVE  QueueInv'
<1>1. PICK x, y \in NextToRun(queue, 0) :
           /\ NextIndex = x /\ x \in DOMAIN queue /\ x <= y /\ y \in Nat
           /\ \A k \in NextToRun(queue, 0) : k <= y
           /\ LoopsAfter = IF x = y THEN << >> ELSE <<[next |-> x + 1, stop |-> y]>>
           /\ \A j \in DOMAIN queue :
                instantStates[queue[j]]
                  = IF j \in NextToRun(queue, 0) /\ j < x THEN "ACTIVE" ELSE "ABSENT"
           /\ EndsAtOnce(queue[x]) => x = y
  BY LoopFacts
<1>2. x = y /\ ActionEnded(queue[x], << >>)
  <2>1. x = y
    BY <1>1
  <2>2. LoopsAfter = << >>
    BY <1>1, <2>1
  <2> QED
    BY <1>1, <2>1, <2>2
<1>3. x \in Nat /\ \A j \in NextToRun(queue, 0) : j \in Nat
  <2>1. DOMAIN queue \subseteq Nat
    BY ElementFacts DEF QueueInv
  <2> QED
    BY <2>1, FrontFacts DEF QueueInv
<1>4. \A j \in DOMAIN queue \ {x} :
        instantStates[queue[j]] = IF j \in NextToRun(queue, 0) THEN "ACTIVE" ELSE "ABSENT"
  <2>1. \A j \in NextToRun(queue, 0) : j # x => j < x
    BY <1>1, <1>2, <1>3
  <2> QED
    BY <1>1, <2>1
<1>5. instantStates[queue[x]] = "ABSENT"
  BY <1>1, <1>3
<1>6. scheduled' \subseteq scheduled \ {queue[x]}
  BY <1>5 DEF QueueInv, Owed
<1>7. cancelContext' = None \/ (cancelContext' = cancelContext /\ cancelContext # queue[x])
  BY <1>5 DEF QueueInv, Owed, hasCancelingOrder
<1> QED
  BY <1>2, <1>4, <1>6, <1>7, EndedKeeps

LEMMA ReceiveKeeps ==
  ASSUME MessagesAssumption, UniqueActions, TypeOK, QueueInv,
         NEW m, ReceiveInstantActions(m)
  PROVE  QueueInv' /\ rejections' \subseteq Action
<1>1. m \in inbox /\ m \in Messages /\ MessageOf[m] \in Seq(Action)
  BY DEF ReceiveInstantActions, TypeOK, MessagesAssumption
<1>2. PICK vetoed :
        /\ queue' = queue \o Kept(MessageOf[m], {a \in Action : Executable(a, vetoed)})
        /\ rejections' = rejections \cup
             (ToSet(MessageOf[m]) \ ToSet(Kept(MessageOf[m], {a \in Action : Executable(a, vetoed)})))
  BY Zenon DEF ReceiveInstantActions
<1>3. PICK S : S = {a \in Action : Executable(a, vetoed)}
  OBVIOUS
<1>4. PICK g : /\ Kept(MessageOf[m], S) \in Seq(Action)
               /\ Selects(MessageOf[m], S, Kept(MessageOf[m], S), g, Len(MessageOf[m]))
  BY <1>1, KeptFacts
<1>5. PICK accepted \in Seq(Action) :
        accepted = Kept(MessageOf[m], S)
        /\ Selects(MessageOf[m], S, accepted, g, Len(MessageOf[m]))
  BY <1>4
<1>6. queue' = queue \o accepted
  BY <1>2, <1>3, <1>5
<1>7. (\E a \in ToSet(queue) : Hard(a)) <=> \E i \in DOMAIN queue : Hard(queue[i])
  BY DEF ToSet
<1>8. loops' = IF \E i \in DOMAIN queue : Hard(queue[i]) THEN << >>
               ELSE Chunk(queue', Len(queue), queue # << >>)
  BY <1>7 DEF ReceiveInstantActions
<1>9. /\ HandlerDone /\ inbox' = inbox \ {m} /\ instantStates' = instantStates
      /\ scheduled' = scheduled /\ cancelContext' = cancelContext
  BY DEF ReceiveInstantActions
<1>10. QueueInv'
  BY <1>1, <1>5, <1>6, <1>8, <1>9, ReceivedKeeps
<1>11. rejections' \subseteq Action
  BY <1>1, <1>2, ElementFacts DEF TypeOK, ToSet
<1> QED
  BY <1>10, <1>11

(* The types of the variables that QueueInv says nothing of.               *)
OtherTypes ==
  /\ rejections \subseteq Action /\ cancelContext \in Action \cup {None}
  /\ scheduled \subseteq Action /\ stopTraverse \in Nat
  /\ order \in {"none", "idle", "busy"} /\ orders \in 0 .. MaxOrders
  /\ inbox \subseteq Messages

LEMMA InvParts == IInv <=> QueueInv /\ OtherTypes
BY DEF IInv, QueueInv, OtherTypes, TypeOK

LEMMA ProcessKeeps ==
  ASSUME MessagesAssumption, TypeOK, QueueInv, ProcessNext
  PROVE  QueueInv' /\ OtherTypes'
<1>1. ~ HandlerDone /\ rejections' = rejections /\ orders' = orders /\ inbox' = inbox
  BY DEF ProcessNext
<1>2. PICK a : a = queue[NextIndex]
  OBVIOUS
<1>3. NextIndex \in DOMAIN queue /\ a \in Action
  BY <1>1, <1>2, LoopFacts, ElementFacts DEF QueueInv
<1>4. ExecuteAtAdapter(a) \/ ExecuteStateRequest(a) \/ ExecuteCancelOrder(a)
  BY <1>2, <1>3 DEF ProcessNext
<1>5. a # None
  BY <1>3 DEF MessagesAssumption
<1>6. CASE ExecuteAtAdapter(a)
  <2>1. cancelContext' = cancelContext /\ stopTraverse' = stopTraverse /\ order' = order
        /\ ActionType[a] = "other"
    BY <1>6 DEF ExecuteAtAdapter
  <2>2. CASE /\ scheduled' = scheduled \cup {a}
             /\ instantStates' = [instantStates EXCEPT ![a] = "ACTIVE"]
             /\ loops' = LoopsAfter /\ queue' = queue
    <3>1. QueueInv'
      BY <1>1, <1>2, <2>1, <2>2, StartedKeeps
    <3> QED
      BY <1>1, <1>3, <2>1, <2>2, <3>1 DEF TypeOK, OtherTypes
  <2>3. CASE a \in Synchronous /\ ActionEnded(a, LoopsAfter) /\ scheduled' = scheduled
    <3>1. EndsAtOnce(queue[NextIndex]) /\ ActionEnded(queue[NextIndex], LoopsAfter)
      BY <1>2, <2>3 DEF EndsAtOnce
    <3>2. QueueInv'
      BY <1>1, <2>1, <2>3, <3>1, AtOnceKeeps
    <3> QED
      BY <1>1, <2>1, <2>3, <3>2 DEF TypeOK, OtherTypes
  <2> QED
    BY <1>6, <2>2, <2>3 DEF ExecuteAtAdapter
<1>7. CASE ExecuteStateRequest(a)
  <2>1. cancelContext' = cancelContext /\ stopTraverse' = stopTraverse /\ order' = order
        /\ scheduled' = scheduled /\ ActionType[a] = "stateRequest" /\ ActionEnded(a, LoopsAfter)
    BY <1>7 DEF ExecuteStateRequest
  <2>2. EndsAtOnce(queue[NextIndex]) /\ ActionEnded(queue[NextIndex], LoopsAfter)
    BY <1>2, <2>1 DEF EndsAtOnce
  <2>3. QueueInv'
    BY <1>1, <2>1, <2>2, AtOnceKeeps
  <2> QED
    BY <1>1, <2>1, <2>3 DEF TypeOK, OtherTypes
<1>8. CASE ExecuteCancelOrder(a)
  <2>1. scheduled' = scheduled /\ ActionType[a] = "cancelOrder"
    BY <1>8 DEF ExecuteCancelOrder
  <2>2. CASE /\ cancelContext' = a
             /\ instantStates' = [instantStates EXCEPT ![a] = "ACTIVE"]
             /\ loops' = LoopsAfter
             /\ stopTraverse' = IF order = "busy" THEN stopTraverse ELSE stopTraverse + 1
             /\ queue' = queue /\ order' = order
    <3>1. QueueInv'
      BY <1>1, <1>2, <2>1, <2>2, StartedKeeps
    <3>2. stopTraverse' \in Nat
      BY <2>2 DEF TypeOK
    <3> QED
      BY <1>1, <1>3, <2>1, <2>2, <3>1, <3>2 DEF TypeOK, OtherTypes
  <2>3. CASE a \in Synchronous /\ OrderStopped(a, LoopsAfter) /\ stopTraverse' = stopTraverse
    <3>1. EndsAtOnce(queue[NextIndex]) /\ ActionEnded(queue[NextIndex], LoopsAfter)
          /\ cancelContext' = None /\ order' = "none"
      BY <1>2, <2>3 DEF EndsAtOnce, OrderStopped
    <3>2. QueueInv'
      BY <1>1, <2>1, <3>1, AtOnceKeeps
    <3> QED
      BY <1>1, <2>1, <2>3, <3>1, <3>2 DEF TypeOK, OtherTypes
  <2> QED
    BY <1>8, <2>2, <2>3 DEF ExecuteCancelOrder
<1> QED
  BY <1>4, <1>6, <1>7, <1>8

(* The order that is being canceled is stopped.                            *)
LEMMA StoppedKeeps ==
  ASSUME MessagesAssumption, TypeOK, QueueInv, HandlerDone, hasCancelingOrder,
         OrderStopped(cancelContext, << >>), inbox' = inbox, scheduled' = scheduled
  PROVE  QueueInv' /\ order' = "none" /\ cancelContext' = None
<1>1. PICK a : a = cancelContext
  OBVIOUS
<1>2. Queued(a) /\ instantStates[a] = "ACTIVE" /\ a \notin scheduled
  BY <1>1 DEF QueueInv, Owed
<1>3. ActionEnded(a, << >>) /\ cancelContext' = None /\ order' = "none"
  BY <1>1 DEF OrderStopped
<1>4. scheduled' \subseteq scheduled \ {a}
  BY <1>2
<1>5. QueueInv'
  BY <1>2, <1>3, <1>4, AnsweredKeeps
<1> QED
  BY <1>3, <1>5

(* The invariant is inductive.                                             *)
LEMMA NextIInv ==
  ASSUME MessagesAssumption, UniqueActions, IInv, [Next]_vars
  PROVE  IInv'
<1>1. QueueInv /\ TypeOK /\ OtherTypes
  BY InvParts DEF IInv
<1>2. SUFFICES QueueInv' /\ OtherTypes'
  BY InvParts, PTL
<1>3. ASSUME NEW m \in Messages, ReceiveInstantActions(m)
      PROVE  QueueInv' /\ OtherTypes'
  <2>1. QueueInv' /\ rejections' \subseteq Action
    BY <1>1, <1>3, ReceiveKeeps
  <2>2. cancelContext' = cancelContext /\ scheduled' = scheduled /\ stopTraverse' = stopTraverse
        /\ order' = order /\ orders' = orders /\ inbox' \subseteq inbox
    BY <1>3 DEF ReceiveInstantActions, orderVars
  <2> QED
    BY <1>1, <2>1, <2>2 DEF OtherTypes
<1>4. CASE ProcessNext
  BY <1>1, <1>4, ProcessKeeps
<1>5. ASSUME NEW a \in scheduled, EndInstantAction(a)
      PROVE  QueueInv' /\ OtherTypes'
  <2>1. /\ HandlerDone /\ scheduled' = scheduled \ {a} /\ ActionEnded(a, << >>)
        /\ rejections' = rejections /\ cancelContext' = cancelContext
        /\ stopTraverse' = stopTraverse /\ order' = order /\ orders' = orders /\ inbox' = inbox
    BY <1>5 DEF EndInstantAction, orderVars
  <2>2. /\ ActionType[a] = "other" /\ instantStates[a] = "ACTIVE" /\ Queued(a)
        /\ a \in Action
    BY <1>1 DEF QueueInv, Owed, OtherTypes
  <2>3. cancelContext' = None \/ (cancelContext' = cancelContext /\ cancelContext # a)
    BY <1>1, <2>1, <2>2 DEF QueueInv, Owed, hasCancelingOrder
  <2>4. QueueInv'
    BY <1>1, <2>1, <2>2, <2>3, AnsweredKeeps
  <2> QED
    BY <1>1, <2>1, <2>4 DEF OtherTypes
<1>6. CASE AcceptOrder
  <2>1. QueueInv'
    BY <1>1, <1>6, UnchangedKeeps DEF AcceptOrder, queueVars
  <2>2. orders' \in 0 .. MaxOrders
    BY <1>1, <1>6 DEF AcceptOrder, OtherTypes, MessagesAssumption
  <2> QED
    BY <1>1, <1>6, <2>1, <2>2 DEF AcceptOrder, queueVars, OtherTypes
<1>7. CASE OrderActionsEnd
  <2>1. HandlerDone /\ scheduled' = scheduled /\ orders' = orders /\ inbox' = inbox
    BY <1>7 DEF OrderActionsEnd
  <2>2. CASE order' \in {"idle", "none"} /\ UNCHANGED <<queueVars, stopTraverse>>
    BY <1>1, <2>1, <2>2, UnchangedKeeps DEF OtherTypes, queueVars
  <2>3. CASE order' = "idle" /\ stopTraverse' = stopTraverse + 1 /\ UNCHANGED queueVars
    <3>1. stopTraverse' \in Nat
      BY <1>1, <2>3 DEF OtherTypes
    <3>2. QueueInv'
      BY <1>1, <2>1, <2>3, UnchangedKeeps DEF queueVars
    <3> QED
      BY <1>1, <2>1, <2>3, <3>1, <3>2 DEF OtherTypes, queueVars
  <2>4. CASE /\ hasCancelingOrder /\ OrderStopped(cancelContext, << >>)
             /\ rejections' = rejections /\ stopTraverse' = stopTraverse
    <3>1. QueueInv' /\ order' = "none" /\ cancelContext' = None
      BY <1>1, <2>1, <2>4, StoppedKeeps
    <3> QED
      BY <1>1, <2>1, <2>4, <3>1 DEF OtherTypes
  <2> QED
    BY <1>7, <2>2, <2>3, <2>4 DEF OrderActionsEnd
<1>8. CASE OrderProceeds
  <2>1. QueueInv'
    BY <1>1, <1>8, UnchangedKeeps DEF OrderProceeds, queueVars
  <2> QED
    BY <1>1, <1>8, <2>1 DEF OrderProceeds, queueVars, OtherTypes
<1>9. CASE Stopped
  <2>1. /\ HandlerDone /\ rejections' = rejections /\ scheduled' = scheduled
        /\ orders' = orders /\ inbox' = inbox /\ stopTraverse' \in Nat
    BY <1>1, <1>9 DEF Stopped, OtherTypes
  <2>2. CASE hasCancelingOrder
    <3>1. OrderStopped(cancelContext, << >>)
      BY <1>9, <2>2 DEF Stopped
    <3>2. QueueInv' /\ order' = "none" /\ cancelContext' = None
      BY <1>1, <2>1, <2>2, <3>1, StoppedKeeps
    <3> QED
      BY <1>1, <2>1, <3>2 DEF OtherTypes
  <2>3. CASE ~ hasCancelingOrder
    <3>1. order' = "none" /\ UNCHANGED <<queue, instantStates, loops, cancelContext>>
      BY <1>9, <2>3 DEF Stopped
    <3>2. QueueInv'
      BY <1>1, <2>1, <3>1, UnchangedKeeps
    <3> QED
      BY <1>1, <2>1, <3>1, <3>2 DEF OtherTypes
  <2> QED
    BY <2>2, <2>3
<1>10. CASE UNCHANGED vars
  <2>1. QueueInv'
    BY <1>1, <1>10, UnchangedKeeps DEF vars, queueVars
  <2> QED
    BY <1>1, <1>10, <2>1 DEF vars, queueVars, orderVars, OtherTypes
<1> QED
  BY <1>3, <1>4, <1>5, <1>6, <1>7, <1>8, <1>9, <1>10 DEF Next

LEMMA InitIInv ==
  ASSUME MessagesAssumption, EndsInOrder, Init
  PROVE  IInv
<1>1. /\ queue = << >> /\ loops = << >> /\ instantStates = [a \in Action |-> "ABSENT"]
      /\ rejections = {} /\ cancelContext = None /\ scheduled = {} /\ stopTraverse = 0
      /\ order = "none" /\ orders = 0 /\ inbox \in Inboxes
  BY DEF Init
<1>2. queue \in Seq(Action) /\ DOMAIN queue = {} /\ loops \in Seq([next : Nat \ {0}, stop : Nat \ {0}])
  BY <1>1
<1>3. instantStates \in [Action -> {"ABSENT", "ACTIVE", "ENDED"}]
  BY <1>1
<1>4. inbox \subseteq Messages
  BY <1>1 DEF MessagesAssumption
<1>5. OtherTypes
  BY <1>1, <1>4 DEF OtherTypes, MessagesAssumption
<1>6. Loops(queue, instantStates, loops) /\ Unique(queue)
  BY <1>1, <1>2 DEF Loops, Runs, Unique
<1>7. Fresh
  <2>1. ASSUME NEW m \in inbox, NEW i \in DOMAIN MessageOf[m]
        PROVE  instantStates[MessageOf[m][i]] = "ABSENT" /\ ~ Queued(MessageOf[m][i])
    <3>1. MessageOf[m] \in Seq(Action)
      BY <1>4 DEF MessagesAssumption
    <3>2. MessageOf[m][i] \in Action
      BY <3>1
    <3> QED
      BY <1>1, <1>2, <3>2 DEF Queued
  <2> QED
    BY <2>1 DEF Fresh
<1>8. Owed /\ AtTheEnd
  BY <1>1, <1>2 DEF Owed, hasCancelingOrder, AtTheEnd
<1>9. InOrder
  BY <1>1, <1>2 DEF InOrder, Incoming, EndsInOrder
<1>10. QueueInv
  BY <1>2, <1>3, <1>6, <1>7, <1>8, <1>9 DEF QueueInv
<1> QED
  BY <1>5, <1>10, InvParts

THEOREM IInvHolds ==
  ASSUME EndsInOrder
  PROVE  Spec => []IInv
<1>1. Init => IInv
  BY InitIInv, MessagesAssumption
<1>2. IInv /\ [Next]_vars => IInv'
  BY NextIInv, MessagesAssumption, UniqueActions
<1> QED
  BY <1>1, <1>2, PTL DEF Spec

(***************************************************************************)
(* Whatever is vetoed, and whenever the adapter answers: every variable    *)
(* stays within the values the code can give it.                           *)
(***************************************************************************)
THEOREM TypeCorrect ==
  ASSUME EndsInOrder
  PROVE  Spec => []TypeOK
<1>1. IInv => TypeOK
  BY DEF IInv
<1> QED
  BY <1>1, IInvHolds, PTL

(***************************************************************************)
(* _processInstantActionChunk never reads beyond the end of the queue, nor *)
(* executes an action a second time, although the queue is spliced by the  *)
(* actions that end within the loop over it.                               *)
(***************************************************************************)
THEOREM ProcessesPendingHolds ==
  ASSUME EndsInOrder
  PROVE  Spec => []ProcessesPending
<1>1. ASSUME IInv
      PROVE  ProcessesPending
  <2>1. ASSUME ~ HandlerDone
        PROVE  NextIndex \in DOMAIN queue /\ instantStates[queue[NextIndex]] = "ABSENT"
    <3>1. QueueInv
      BY <1>1, InvParts
    <3>2. PICK x \in NextToRun(queue, 0) :
             /\ NextIndex = x /\ x \in DOMAIN queue
             /\ \A j \in DOMAIN queue :
                  instantStates[queue[j]]
                    = IF j \in NextToRun(queue, 0) /\ j < x THEN "ACTIVE" ELSE "ABSENT"
      BY <2>1, <3>1, LoopFacts
    <3>3. ~ (x < x)
      BY <3>1, <3>2, ElementFacts DEF QueueInv
    <3> QED
      BY <3>2, <3>3
  <2> QED
    BY <2>1 DEF ProcessesPending
<1> QED
  BY <1>1, IInvHolds, PTL

(***************************************************************************)
(* A HARD instant action is executed when all actions before it have ended,*)
(* and none behind it before it has ended.                                 *)
(***************************************************************************)
THEOREM HardAloneHolds ==
  ASSUME EndsInOrder
  PROVE  Spec => []HardAlone
<1>1. ASSUME IInv
      PROVE  HardAlone
  <2>1. queue \in Seq(Action) /\ DOMAIN queue = 1 .. Len(queue) /\ Len(queue) \in Nat
    BY <1>1, ElementFacts DEF IInv, TypeOK
  <2>2. ASSUME NEW i \in DOMAIN queue, NEW j \in DOMAIN queue, i < j,
               Hard(queue[i]) \/ Hard(queue[j])
        PROVE  instantStates[queue[j]] = "ABSENT"
    <3>1. j \notin NextToRun(queue, 0)
      <4>1. ASSUME j \in NextToRun(queue, 0)
            PROVE  FALSE
        <5>1. i \in 1 .. j
          BY <2>1, <2>2
        <5>2. i \in NextToRun(queue, 0)
          BY <2>1, <4>1, <5>1, FrontFacts
        <5>3. i = 1 /\ j = 1
          BY <2>1, <2>2, <4>1, <5>2, FrontFacts
        <5> QED
          BY <2>2, <5>3
      <4> QED
        BY <4>1
    <3>2. PICK n : Runs(queue, instantStates, n)
      BY <1>1 DEF IInv, Loops
    <3> QED
      BY <3>1, <3>2 DEF Runs
  <2> QED
    BY <2>2 DEF HardAlone
<1> QED
  BY <1>1, IInvHolds, PTL

(***************************************************************************)
(* The queue never stalls: between handlers all actions that may run are   *)
(* executing, so that it waits for the adapter only.                       *)
(***************************************************************************)
THEOREM QueueNeverStallsHolds ==
  ASSUME EndsInOrder
  PROVE  Spec => []QueueNeverStalls
<1>1. ASSUME IInv
      PROVE  QueueNeverStalls
  <2>1. queue \in Seq(Action) /\ DOMAIN queue = 1 .. Len(queue) /\ Len(queue) \in Nat
    BY <1>1, ElementFacts DEF IInv, TypeOK
  <2>2. ASSUME HandlerDone, NEW i \in NextToRun(queue, 0)
        PROVE  instantStates[queue[i]] = "ACTIVE"
    <3>1. Runs(queue, instantStates, Len(queue) + 1)
      BY <1>1, <2>2 DEF IInv, Loops, HandlerDone
    <3>2. i \in DOMAIN queue /\ i < Len(queue) + 1
      BY <2>1, FrontFacts
    <3> QED
      BY <3>1, <3>2 DEF Runs
  <2> QED
    BY <2>2 DEF QueueNeverStalls
<1> QED
  BY <1>1, IInvHolds, PTL

-----------------------------------------------------------------------------
(* The cancelation *)

(* A cancelOrder that is not delayed by HARD actions is pending within a   *)
(* handler only.                                                           *)
LEMMA PendingWithin ==
  ASSUME IInv, NEW a, Pending(a), NEW I, Incoming(I),
         \A n \in I : \A k \in DOMAIN MessageOf[n] : ~ Hard(MessageOf[n][k])
  PROVE  ~ HandlerDone
<1>2. PICK i \in DOMAIN queue : queue[i] = a
  BY DEF Pending, Queued
<1>3. \A j \in DOMAIN queue : ~ Hard(queue[j])
  BY DEF Incoming
<1>4. queue \in Seq(Action) /\ DOMAIN queue = 1 .. Len(queue) /\ Len(queue) \in Nat
  BY ElementFacts DEF IInv, TypeOK
<1>5. i \in NextToRun(queue, 0) /\ i < Len(queue) + 1
  <2>1. queue # << >> /\ ~ Hard(queue[1]) /\ \A j \in 1 .. i : j \in DOMAIN queue
    BY <1>2, <1>3, <1>4
  <2>2. i \in NextToRun(queue, 0)
    BY <1>2, <1>3, <1>4, <2>1, SoftFront
  <2> QED
    BY <1>4, <2>2
<1>6. ASSUME HandlerDone
      PROVE  FALSE
  <2>1. Runs(queue, instantStates, Len(queue) + 1)
    BY <1>6 DEF IInv, Loops, HandlerDone
  <2>2. instantStates[a] = "ACTIVE"
    BY <1>2, <1>5, <2>1 DEF Runs
  <2> QED
    BY <2>2 DEF Pending
<1> QED
  BY <1>6

(* The end of an action leaves the state of the others alone.              *)
LEMMA EndedOthers ==
  ASSUME IInv, NEW a, Queued(a), NEW outer, ActionEnded(a, outer)
  PROVE  /\ \A b : Queued(b)' => Queued(b)
         /\ a \in Action /\ instantStates'[a] = "ENDED"
         /\ \A b \in Action : b # a => instantStates'[b] = instantStates[b]
<1>1. queue \in Seq(Action) /\ Unique(queue)
      /\ instantStates \in [Action -> {"ABSENT", "ACTIVE", "ENDED"}]
  BY DEF IInv, TypeOK
<1>2. PICK i \in DOMAIN queue : queue[i] = a
  BY DEF Queued
<1>3. IndexOf(a) = i
  BY <1>1, <1>2 DEF IndexOf, Unique
<1>4. queue' = RemoveAt(queue, i) /\ instantStates' = [instantStates EXCEPT ![a] = "ENDED"]
  BY <1>3 DEF ActionEnded
<1>5. IsRest(queue, i, queue')
  BY <1>1, <1>2, <1>4, RestFacts
<1>6. a \in Action
  BY <1>1, <1>2, ElementFacts
<1>7. \A b : Queued(b)' => Queued(b)
  BY <1>5 DEF IsRest, Queued
<1> QED
  BY <1>1, <1>4, <1>6, <1>7

(* Steps that execute or end no cancelOrder and leave the order alone.     *)
LEMMA OthersKeepCancel ==
  ASSUME CancelInv,
         \A b \in Action : Pending(b)' => Pending(b),
         \A b \in Action : ActionType[b] = "cancelOrder" /\ instantStates'[b] = "ACTIVE"
                             => instantStates[b] = "ACTIVE",
         order' = order, stopTraverse' = stopTraverse, cancelContext' = cancelContext
  PROVE  CancelInv'
BY DEF CancelInv, hasActiveOrder, hasCancelingOrder

(* The order is stopped: cancelOrder has ended.                            *)
LEMMA StopEndsCancel ==
  ASSUME IInv, CancelInv, NEW a, Queued(a), NEW outer, OrderStopped(a, outer),
         stopTraverse' = 0,
         \A b \in Action : Pending(b) => b = a,
         \A b \in Action : ActionType[b] = "cancelOrder" /\ instantStates[b] = "ACTIVE" => b = a
  PROVE  CancelInv'
<1>1. ActionEnded(a, outer) /\ order' = "none" /\ cancelContext' = None
  BY DEF OrderStopped
<1>2. /\ \A b : Queued(b)' => Queued(b)
      /\ a \in Action /\ instantStates'[a] = "ENDED"
      /\ \A b \in Action : b # a => instantStates'[b] = instantStates[b]
  BY <1>1, EndedOthers
<1>3. \A b \in Action : ~ Pending(b)'
  BY <1>2 DEF Pending
<1>4. \A b \in Action : ~ (ActionType[b] = "cancelOrder" /\ instantStates'[b] = "ACTIVE")
  BY <1>2
<1>5. ~ hasCancelingOrder'
  BY <1>1 DEF hasCancelingOrder
<1> QED
  BY <1>3, <1>4, <1>5 DEF CancelInv

LEMMA ReceiveKeepsCancel ==
  ASSUME MessagesAssumption, UniqueActions, CancelsApart, IInv, CancelInv,
         NEW m, ReceiveInstantActions(m)
  PROVE  CancelInv'
<1>1. HandlerDone /\ m \in inbox /\ MessageOf[m] \in Seq(Action)
      /\ instantStates' = instantStates /\ cancelContext' = cancelContext
      /\ stopTraverse' = stopTraverse /\ order' = order
  BY DEF ReceiveInstantActions, orderVars, IInv, TypeOK, MessagesAssumption
<1>2. PICK vetoed :
        queue' = queue \o Kept(MessageOf[m], {a \in Action : Executable(a, vetoed)})
  BY Zenon DEF ReceiveInstantActions
<1>3. PICK S : S = {a \in Action : Executable(a, vetoed)}
  OBVIOUS
<1>4. PICK g : /\ Kept(MessageOf[m], S) \in Seq(Action)
               /\ Selects(MessageOf[m], S, Kept(MessageOf[m], S), g, Len(MessageOf[m]))
  BY <1>1, KeptFacts
<1>5. PICK accepted \in Seq(Action) :
        accepted = Kept(MessageOf[m], S)
        /\ Selects(MessageOf[m], S, accepted, g, Len(MessageOf[m]))
  BY <1>4
<1>6. queue \in Seq(Action)
  BY DEF IInv, TypeOK
<1>7. IsJoined(queue, accepted, queue')
  BY <1>2, <1>3, <1>5, <1>6, JoinedFacts
<1>8. PICK I \in Inboxes : Incoming(I)
  BY DEF IInv, InOrder
<1>9. ASSUME NEW b \in Action, Pending(b)', ~ Pending(b)
      PROVE  /\ Executable(b, vetoed) /\ ActionType[b] = "cancelOrder"
             /\ \E i \in DOMAIN MessageOf[m] : b = MessageOf[m][i]
  <2>1. ~ Queued(b) /\ ActionType[b] = "cancelOrder"
    BY <1>1, <1>9 DEF Pending
  <2>2. PICK i \in DOMAIN queue' : queue'[i] = b
    BY <1>9 DEF Pending, Queued
  <2>3. PICK t \in Seq(Action) : t = queue'
    BY <1>7 DEF IsJoined
  <2>4. /\ Len(t) = Len(queue) + Len(accepted) /\ DOMAIN t = 1 .. Len(t)
        /\ DOMAIN queue = 1 .. Len(queue) /\ DOMAIN accepted = 1 .. Len(accepted)
        /\ Len(queue) \in Nat /\ Len(accepted) \in Nat
    BY <1>6, <1>7, <2>3, ElementFacts DEF IsJoined
  <2>5. i \notin DOMAIN queue
    BY <1>7, <2>1, <2>2 DEF IsJoined, Queued
  <2>6. i - Len(queue) \in DOMAIN accepted /\ Len(queue) + (i - Len(queue)) = i
    BY <2>2, <2>3, <2>4, <2>5
  <2>7. accepted[i - Len(queue)] = b
    BY <1>7, <2>2, <2>6 DEF IsJoined
  <2>8. PICK k : k = g[i - Len(queue)]
    OBVIOUS
  <2>9. k \in 1 .. Len(MessageOf[m]) /\ b = MessageOf[m][k] /\ b \in S
    BY <1>5, <2>4, <2>6, <2>7, <2>8 DEF Selects
  <2> QED
    BY <1>1, <1>3, <2>1, <2>9
<1>10. ASSUME NEW a \in Action, Pending(a)', ~ Pending(a), NEW b \in Action, Pending(b)'
       PROVE  b = a
  <2>1. m \in I
    BY <1>1, <1>8 DEF Incoming
  <2>2. PICK i \in DOMAIN MessageOf[m] : a = MessageOf[m][i] /\ ActionType[a] = "cancelOrder"
    BY <1>9, <1>10
  <2>3. CASE Pending(b)
    <3>1. b # a /\ ActionType[b] = "cancelOrder"
      BY <1>10, <2>3 DEF Pending
    <3>2. PICK n \in I : \E j \in DOMAIN MessageOf[n] : b = MessageOf[n][j]
      BY <1>8, <2>3 DEF Pending, Queued, Incoming
    <3>3. PICK j \in DOMAIN MessageOf[n] : b = MessageOf[n][j]
      BY <3>2
    <3>4. \A k \in I : \A l \in DOMAIN MessageOf[k] : ~ Hard(MessageOf[k][l])
      BY <1>8, <2>1, <2>2, <3>1, <3>3 DEF CancelsApart
    <3> QED
      BY <1>1, <1>8, <2>3, <3>4, PendingWithin
  <2>4. CASE ~ Pending(b)
    <3>1. PICK j \in DOMAIN MessageOf[m] : b = MessageOf[m][j] /\ ActionType[b] = "cancelOrder"
      BY <1>9, <1>10, <2>4
    <3> QED
      BY <1>8, <2>1, <2>2, <3>1 DEF CancelsApart
  <2> QED
    BY <2>3, <2>4
<1>11. ASSUME NEW a \in Action, Pending(a)'
       PROVE  /\ ~ hasCancelingOrder
              /\ \A b \in Action : Pending(b)' => b = a
  <2>1. ~ hasCancelingOrder
    BY <1>9, <1>11 DEF Executable, CancelInv
  <2>2. ASSUME NEW b \in Action, Pending(b)'
        PROVE  b = a
    <3>1. CASE Pending(a) /\ Pending(b)
      BY <3>1 DEF CancelInv
    <3>2. CASE ~ Pending(a)
      BY <1>10, <1>11, <2>2, <3>2
    <3>3. CASE ~ Pending(b)
      BY <1>10, <1>11, <2>2, <3>3
    <3> QED
      BY <3>1, <3>2, <3>3
  <2> QED
    BY <2>1, <2>2
<1> QED
  BY <1>1, <1>11 DEF CancelInv, hasCancelingOrder

LEMMA ProcessKeepsCancel ==
  ASSUME MessagesAssumption, IInv, CancelInv, ProcessNext
  PROVE  CancelInv'
<1>1. ~ HandlerDone /\ TypeOK /\ QueueInv
  BY InvParts DEF ProcessNext, IInv
<1>2. PICK a : a = queue[NextIndex]
  OBVIOUS
<1>3. NextIndex \in DOMAIN queue /\ a \in Action /\ Queued(a) /\ instantStates[a] = "ABSENT"
  <2>1. PICK x \in NextToRun(queue, 0) :
           /\ NextIndex = x /\ x \in DOMAIN queue
           /\ \A j \in DOMAIN queue :
                instantStates[queue[j]]
                  = IF j \in NextToRun(queue, 0) /\ j < x THEN "ACTIVE" ELSE "ABSENT"
    BY <1>1, LoopFacts
  <2>2. x \in Nat /\ ~ (x < x) /\ queue[x] \in Action
    BY <1>1, <2>1, ElementFacts DEF QueueInv
  <2> QED
    BY <1>2, <2>1, <2>2 DEF Queued
<1>4. ExecuteAtAdapter(a) \/ ExecuteStateRequest(a) \/ ExecuteCancelOrder(a)
  BY <1>2, <1>3 DEF ProcessNext
<1>5. ASSUME ActionType[a] # "cancelOrder", order' = order, stopTraverse' = stopTraverse,
             cancelContext' = cancelContext,
             \/ instantStates' = [instantStates EXCEPT ![a] = "ACTIVE"] /\ queue' = queue
             \/ ActionEnded(a, LoopsAfter)
      PROVE  CancelInv'
  <2>1. /\ \A b : Queued(b)' => Queued(b)
        /\ \A b \in Action : b # a => instantStates'[b] = instantStates[b]
    <3>1. CASE instantStates' = [instantStates EXCEPT ![a] = "ACTIVE"] /\ queue' = queue
      BY <1>1, <3>1 DEF Queued, TypeOK
    <3>2. CASE ActionEnded(a, LoopsAfter)
      BY <1>3, <3>2, EndedOthers
    <3> QED
      BY <1>5, <3>1, <3>2
  <2>2. \A b \in Action : Pending(b)' => Pending(b)
    BY <1>5, <2>1 DEF Pending
  <2>3. \A b \in Action : ActionType[b] = "cancelOrder" /\ instantStates'[b] = "ACTIVE"
                             => instantStates[b] = "ACTIVE"
    BY <1>5, <2>1
  <2> QED
    BY <1>5, <2>2, <2>3, OthersKeepCancel
<1>6. CASE ExecuteAtAdapter(a)
  <2>1. /\ ActionType[a] # "cancelOrder" /\ order' = order /\ stopTraverse' = stopTraverse
        /\ cancelContext' = cancelContext
        /\ \/ instantStates' = [instantStates EXCEPT ![a] = "ACTIVE"] /\ queue' = queue
           \/ ActionEnded(a, LoopsAfter)
    BY <1>6 DEF ExecuteAtAdapter
  <2> QED
    BY <1>5, <2>1
<1>7. CASE ExecuteStateRequest(a)
  <2>1. /\ ActionType[a] # "cancelOrder" /\ order' = order /\ stopTraverse' = stopTraverse
        /\ cancelContext' = cancelContext /\ ActionEnded(a, LoopsAfter)
    BY <1>7 DEF ExecuteStateRequest
  <2> QED
    BY <1>5, <2>1
<1>8. CASE ExecuteCancelOrder(a)
  <2>1. Pending(a)
    BY <1>3, <1>8 DEF ExecuteCancelOrder, Pending
  <2>2. /\ ~ hasCancelingOrder /\ \A b \in Action : Pending(b) => b = a
        /\ stopTraverse = 0 /\ a # None
    BY <1>3, <2>1 DEF CancelInv, MessagesAssumption
  <2>3. \A b \in Action : ~ (ActionType[b] = "cancelOrder" /\ instantStates[b] = "ACTIVE")
    BY <2>2 DEF CancelInv, hasCancelingOrder, MessagesAssumption
  <2>4. CASE /\ cancelContext' = a
             /\ instantStates' = [instantStates EXCEPT ![a] = "ACTIVE"]
             /\ stopTraverse' = IF order = "busy" THEN stopTraverse ELSE stopTraverse + 1
             /\ queue' = queue /\ order' = order
    <3>1. /\ instantStates'[a] = "ACTIVE"
          /\ \A b \in Action : b # a => instantStates'[b] = instantStates[b]
      BY <1>1, <1>3, <2>4 DEF TypeOK
    <3>2. \A b \in Action : ~ Pending(b)'
      BY <2>2, <2>4, <3>1 DEF Pending, Queued
    <3>3. \A b \in Action : ActionType[b] = "cancelOrder" /\ instantStates'[b] = "ACTIVE"
                              => cancelContext' = b
      BY <2>3, <2>4, <3>1
    <3>4. stopTraverse' \in {0, 1} /\ (stopTraverse' = 1 => order' # "busy")
      BY <2>2, <2>4
    <3>5. hasCancelingOrder'
      BY <2>2, <2>4 DEF hasCancelingOrder
    <3> QED
      BY <3>2, <3>3, <3>4, <3>5 DEF CancelInv
  <2>5. CASE OrderStopped(a, LoopsAfter) /\ stopTraverse' = stopTraverse
    BY <1>3, <2>2, <2>3, <2>5, StopEndsCancel
  <2> QED
    BY <1>8, <2>4, <2>5 DEF ExecuteCancelOrder
<1> QED
  BY <1>4, <1>6, <1>7, <1>8

LEMMA NextCancelInv ==
  ASSUME MessagesAssumption, UniqueActions, CancelsApart, IInv, CancelInv, [Next]_vars
  PROVE  CancelInv'
<1>1. TypeOK /\ QueueInv
  BY InvParts DEF IInv
<1>3. ASSUME hasCancelingOrder
      PROVE  /\ cancelContext \in Action /\ Queued(cancelContext)
             /\ \A b \in Action : ~ Pending(b)
             /\ \A b \in Action : ActionType[b] = "cancelOrder" /\ instantStates[b] = "ACTIVE"
                                    => b = cancelContext
  BY <1>1, <1>3 DEF TypeOK, QueueInv, Owed, CancelInv, hasCancelingOrder
<1>4. ASSUME NEW m \in Messages, ReceiveInstantActions(m)
      PROVE  CancelInv'
  BY <1>4, ReceiveKeepsCancel
<1>5. CASE ProcessNext
  BY <1>5, ProcessKeepsCancel
<1>6. ASSUME NEW a \in scheduled, EndInstantAction(a)
      PROVE  CancelInv'
  <2>1. ActionEnded(a, << >>) /\ order' = order /\ stopTraverse' = stopTraverse
        /\ cancelContext' = cancelContext
    BY <1>6 DEF EndInstantAction, orderVars
  <2>2. ActionType[a] = "other" /\ Queued(a)
    BY <1>1 DEF QueueInv, Owed
  <2>3. /\ \A b : Queued(b)' => Queued(b)
        /\ \A b \in Action : b # a => instantStates'[b] = instantStates[b]
    BY <2>1, <2>2, EndedOthers
  <2>4. \A b \in Action : Pending(b)' => Pending(b)
    BY <2>2, <2>3 DEF Pending
  <2>5. \A b \in Action : ActionType[b] = "cancelOrder" /\ instantStates'[b] = "ACTIVE"
                             => instantStates[b] = "ACTIVE"
    BY <2>2, <2>3
  <2> QED
    BY <2>1, <2>4, <2>5, OthersKeepCancel
<1>7. ASSUME UNCHANGED <<queue, instantStates, cancelContext>>,
             stopTraverse' \in {0, 1}, stopTraverse' = 1 => hasCancelingOrder /\ order' # "busy"
      PROVE  CancelInv'
  <2>1. \A b \in Action : Pending(b)' => Pending(b)
    BY <1>7 DEF Pending, Queued
  <2> QED
    BY <1>7, <2>1 DEF CancelInv, hasCancelingOrder
<1>8. CASE AcceptOrder
  <2>1. ~ hasCancelingOrder /\ order' = "busy" /\ stopTraverse' = stopTraverse
        /\ UNCHANGED <<queue, instantStates, cancelContext>>
    BY <1>8 DEF AcceptOrder, queueVars
  <2>2. stopTraverse = 0
    BY <2>1 DEF CancelInv
  <2> QED
    BY <1>7, <2>1, <2>2
<1>9. CASE OrderActionsEnd
  <2>1. stopTraverse = 0
    BY <1>9 DEF OrderActionsEnd, CancelInv
  <2>2. CASE ~ hasCancelingOrder /\ UNCHANGED <<queueVars, stopTraverse>>
    BY <1>7, <2>1, <2>2 DEF queueVars
  <2>3. CASE hasCancelingOrder /\ order' = "idle" /\ stopTraverse' = stopTraverse + 1
             /\ UNCHANGED queueVars
    BY <1>7, <2>1, <2>3 DEF queueVars
  <2>4. CASE hasCancelingOrder /\ OrderStopped(cancelContext, << >>)
             /\ stopTraverse' = stopTraverse
    BY <1>3, <2>1, <2>4, StopEndsCancel
  <2> QED
    BY <1>9, <2>2, <2>3, <2>4 DEF OrderActionsEnd
<1>10. CASE OrderProceeds
  <2>1. ~ hasCancelingOrder /\ stopTraverse' = stopTraverse
        /\ UNCHANGED <<queue, instantStates, cancelContext>>
    BY <1>10 DEF OrderProceeds, queueVars
  <2>2. stopTraverse = 0
    BY <2>1 DEF CancelInv
  <2> QED
    BY <1>7, <2>1, <2>2
<1>11. CASE Stopped
  <2>1. hasCancelingOrder /\ stopTraverse' = 0 /\ OrderStopped(cancelContext, << >>)
    BY <1>11 DEF Stopped, CancelInv
  <2> QED
    BY <1>3, <2>1, StopEndsCancel
<1>12. CASE UNCHANGED vars
  BY <1>12 DEF vars, queueVars, orderVars, CancelInv, Pending, Queued, hasCancelingOrder, hasActiveOrder
<1> QED
  BY <1>4, <1>5, <1>6, <1>8, <1>9, <1>10, <1>11, <1>12 DEF Next

(***************************************************************************)
(* One cancelation at a time, even if HARD actions delay cancelOrder and   *)
(* its order ends, or another one begins, between the check on arrival     *)
(* (_checkInstantActionExecutable) and its use (_cancelOrder).             *)
(***************************************************************************)
THEOREM OneCancelationHolds ==
  ASSUME EndsInOrder, CancelsApart
  PROVE  Spec => []OneCancelation
<1>1. ASSUME Init
      PROVE  CancelInv
  <2>1. \A a \in Action : instantStates[a] = "ABSENT" /\ ~ Queued(a)
    <3>1. queue = << >> /\ instantStates = [a \in Action |-> "ABSENT"]
      BY <1>1 DEF Init
    <3>2. DOMAIN queue = {}
      BY <3>1
    <3> QED
      BY <3>1, <3>2 DEF Queued
  <2>2. stopTraverse = 0 /\ ~ hasCancelingOrder
    BY <1>1 DEF Init, hasCancelingOrder
  <2> QED
    BY <2>1, <2>2 DEF CancelInv, Pending
<1>2. IInv /\ CancelInv /\ [Next]_vars => CancelInv'
  BY NextCancelInv, MessagesAssumption, UniqueActions
<1>3. CancelInv => OneCancelation
  <2>1. \A n \in {0, 1} : n <= 1
    OBVIOUS
  <2> QED
    BY <2>1 DEF CancelInv, OneCancelation
<1>4. Spec => []IInv
  BY IInvHolds
<1> QED
  BY <1>1, <1>2, <1>3, <1>4, PTL DEF Spec
=============================================================================
