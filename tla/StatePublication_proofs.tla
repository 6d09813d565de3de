---------------------- MODULE StatePublication_proofs ----------------------
(***************************************************************************)
(* Theorems about instant actions as State messages tell of them.          *)
(***************************************************************************)
EXTENDS StatePublication, Lists_proofs, FiniteSetTheorems

-----------------------------------------------------------------------------
(* Hypotheses on what master control sends *)

(* An actionId is used once, and a message has actions.                    *)
UniqueActions ==
    /\ \A m \in Messages : /\ Msg[m] # << >>
                           /\ \A i, j \in DOMAIN Msg[m] : Msg[m][i] = Msg[m][j] => i = j
    /\ \A m, n \in Messages : m # n => Range(Msg[m]) \cap Range(Msg[n]) = {}

(* Messages that are invalid are not under way together with others: the   *)
(* reference of an error could not be told (_updateInstantActionsValidationError). *)
InvalidAlone == Invalid \subseteq Alone

-----------------------------------------------------------------------------
(* The inductive invariant *)

Subject == Messages \cup Actions
Status  == {Absent, "RUNNING"} \cup Ended
Fate    == {"none", "accepted", "rejected", "executing", "ended"}
Error   == [of : Subject, counted : BOOLEAN, count : Nat]
State   == [status : [Actions -> Status], errors : Seq(Subject)]
Cache   == [ref : Nat, last : {Absent, "RUNNING"}]

MasterTypes ==
    /\ initiated \subseteq Messages /\ awaiting \subseteq initiated
    /\ caches \in [DOMAIN caches -> Cache] /\ DOMAIN caches \subseteq Actions
    /\ ref \in Nat /\ refOf \in [Messages -> Nat] /\ refErrors \in Seq(Int)
    /\ outcome \in [Actions -> {"none", "rejected"} \cup Ended]

AgvTypes ==
    /\ checking \in Seq(Actions)
    /\ status \in [Actions -> Status]
    /\ counts \in [DOMAIN counts -> 0 .. PublishCount - 1]
    /\ DOMAIN counts = {a \in Actions : status[a] # Absent}
    /\ errors \in Seq(Error)
    /\ \A i \in DOMAIN errors : errors[i].counted => errors[i].count < PublishCount
    /\ inFlight \in Nat /\ online \in BOOLEAN
    /\ fate \in [Actions -> Fate] /\ told \subseteq Actions
    /\ bounds \in [breaks : Nat, updates : Nat, orders : Nat]

Types == /\ MasterTypes /\ AgvTypes
         /\ toAgv \in Seq(Messages) /\ states \in Seq(State)

(* While the AGV is online, what ended or was rejected has been told.      *)
Told ==
    /\ ~ online => inFlight = 0
    /\ \A a \in Actions : fate[a] \in {"ended", "rejected"} =>
         a \in told \/ (~ online /\ a \in TellsOf(status, errors))
    /\ \A a \in Actions : fate[a] = "executing" => status[a] = "RUNNING"
    /\ \A a \in Actions : fate[a] = "ended" => status[a] # "RUNNING"

(* Messages the AGV has not received, nor has their publication failed.    *)
Waiting == {m \in Messages : m \notin initiated \/ m \in awaiting \/ m \in Range(toAgv)}

(* Actions that cannot be executed because their message is invalid.       *)
InvalidActions == UNION {Range(Msg[m]) : m \in Invalid}

(* Messages on their way: nothing has become of their actions.             *)
Journey ==
    /\ \A i, j \in DOMAIN toAgv : toAgv[i] = toAgv[j] => i = j
    /\ \A i \in DOMAIN toAgv : toAgv[i] \in initiated \ awaiting
    /\ \A m \in Waiting : \A a \in Range(Msg[m]) : fate[a] = "none"
    /\ \A m \in awaiting : \A a \in Range(Msg[m]) :
         a \in DOMAIN caches /\ caches[a].ref = refOf[m]
    /\ \A a \in DOMAIN caches : \E m \in initiated : a \in Range(Msg[m])

(* What is being checked was received, is valid, and has no fate yet.      *)
Checking ==
    /\ \A i, j \in DOMAIN checking : checking[i] = checking[j] => i = j
    /\ \A i \in DOMAIN checking :
         /\ fate[checking[i]] = "none" /\ checking[i] \notin InvalidActions
         /\ \A m \in Waiting : checking[i] \notin Range(Msg[m])
    /\ \A a \in InvalidActions : fate[a] \in {"none", "rejected"}

(* The parts that follow are stated of values, so that lemmas relate them  *)
(* before and after a step: f is fate, W is Waiting, st and es the states  *)
(* of actions and the subjects of errors, C the actions under way, ss the  *)
(* State messages to come.                                                 *)

(* What st and es say is true.                                             *)
IsTrue(f, W, st, es) ==
    /\ \A a \in Actions : st[a] # Absent => f[a] \in {"executing", "ended"}
    /\ \A a \in Actions : st[a] \in Ended => f[a] = "ended"
    /\ \A i \in DOMAIN es : es[i] \in Actions =>
         f[es[i]] \in {"ended", "rejected"} /\ es[i] \notin InvalidActions
    /\ \A i \in DOMAIN es : es[i] \in Messages =>
         es[i] \in Invalid \ W /\ \A a \in Range(Msg[es[i]]) : f[a] = "rejected"

AllTrue(f, W, st, es, ss) ==
    /\ IsTrue(f, W, st, es)
    /\ \A k \in DOMAIN ss : IsTrue(f, W, ss[k].status, ss[k].errors)

(* Master control knows, or knows after n State messages, that a has ended.*)
Known(C, ss, a, n) == a \notin C \/ \E i \in 1 .. n : i \in DOMAIN ss /\ ss[i].status[a] \in Ended

(* The error of an action that failed remains alone only after its status  *)
(* was told.                                                               *)
StatusFirst(f, C, ss) ==
    \A k \in DOMAIN ss : \A a \in Actions :
      f[a] = "ended" /\ ss[k].status[a] = Absent
        /\ (\E i \in DOMAIN ss[k].errors : ss[k].errors[i] = a) => Known(C, ss, a, k - 1)

(* So is the end of an action, unless the AGV has been offline since.      *)
EndsKnown(f, C, on, st, ss) ==
    \A a \in Actions : f[a] = "ended" /\ (on \/ st[a] = Absent) => Known(C, ss, a, Len(ss))

Truth ==
    /\ AllTrue(fate, Waiting, status, Subjects(errors), states)
    /\ StatusFirst(fate, DOMAIN caches, states)
    /\ EndsKnown(fate, DOMAIN caches, online, status, states)

(* The validation errors master control knows, and those in the State      *)
(* messages to come.                                                       *)
Level(n, ss, k) == IF k = 0 THEN n ELSE ValidationErrors(ss[k].errors)

(* They rise at one message at most, by one, and only if b; the state has  *)
(* v of them.                                                              *)
Rises(n, ss, v, b) ==
    /\ v <= Level(n, ss, Len(ss))
    /\ \A k \in 1 .. Len(ss) :
         \/ Level(n, ss, k) <= Level(n, ss, k - 1)
         \/ b /\ Level(n, ss, k) = Level(n, ss, k - 1) + 1
    /\ \A k, l \in 1 .. Len(ss) :
         Level(n, ss, k) > Level(n, ss, k - 1) /\ Level(n, ss, l) > Level(n, ss, l - 1) => k = l

(* The actions of m are those under way.                                   *)
Only(m) == /\ DOMAIN caches = Range(Msg[m])
           /\ \A a \in DOMAIN caches : caches[a].ref = refOf[m]

(* m was initiated last, and the AGV found it invalid.                     *)
FoundInvalid(m) ==
    /\ Only(m) /\ m \notin Waiting /\ ref = refOf[m] /\ 0 < ref
    /\ \A a \in Range(Msg[m]) : fate[a] = "rejected"
Telling == \E m \in Invalid : FoundInvalid(m)

(* References that were given to errors are those of earlier messages; an  *)
(* invalid message on its way is the only one under way.                   *)
Issued ==
    /\ \A i \in DOMAIN refErrors :
         /\ 0 < refErrors[i] /\ refErrors[i] <= ref
         /\ \A a \in DOMAIN caches : refErrors[i] < caches[a].ref
    /\ \A m \in Invalid : m \in awaiting \/ m \in Range(toAgv) => Only(m) /\ 0 < refOf[m]
    /\ \A m \in Invalid : m \in Range(toAgv) => ref = refOf[m]

References ==
    /\ Issued
    /\ Rises(Len(refErrors), states, ValidationErrors(Subjects(errors)), Telling)

(* The inductive invariant.                                                *)
IInv == Types /\ Told /\ Journey /\ Checking /\ Truth /\ References /\ EventsTrue

-----------------------------------------------------------------------------
(* Messages, lists and counts *)

LEMMA MessageFacts ==
    ASSUME StatePublicationAssumption
    PROVE  /\ \A m \in Messages : Msg[m] \in Seq(Actions) /\ Range(Msg[m]) \in SUBSET Actions
           /\ \A a \in Actions : \E m \in Messages : a \in Range(Msg[m])
           /\ \A x \in Messages : x \notin Actions
           /\ \A a \in Actions, m \in Messages : a \in Range(Msg[m]) <=> \E i \in DOMAIN Msg[m] : Msg[m][i] = a
<1>1. \A m \in Messages : Range(Msg[m]) \in SUBSET Actions
    BY DEF Actions
<1>2. ASSUME NEW m \in Messages
      PROVE  Msg[m] \in Seq(Actions)
    <2>1. PICK R : R = Range(Msg[m])
        OBVIOUS
    <2>2. PICK A : A = Actions
        OBVIOUS
    <2>3. PICK s : s = Msg[m]
        OBVIOUS
    <2>4. s \in Seq(R) /\ R \subseteq A
        BY <1>1, <2>1, <2>2, <2>3 DEF StatePublicationAssumption
    <2>5. s \in Seq(A)
        BY <2>4
    <2> QED
        BY <2>2, <2>3, <2>5
<1>3. \A a \in Actions : \E m \in Messages : a \in Range(Msg[m])
    BY DEF Actions
<1>4. \A a \in Actions, m \in Messages :
        a \in Range(Msg[m]) <=> \E i \in DOMAIN Msg[m] : Msg[m][i] = a
    BY DEF Range
<1>5. \A x \in Messages : x \notin Actions
    BY DEF StatePublicationAssumption
<1> QED
    BY <1>1, <1>2, <1>3, <1>4, <1>5

(* What Subjects returns, and what it makes of an error that is added.     *)
LEMMA SubjectFacts ==
    ASSUME NEW es \in Seq(Error)
    PROVE  /\ Subjects(es) \in Seq(Subject) /\ Len(Subjects(es)) = Len(es)
           /\ DOMAIN Subjects(es) = DOMAIN es /\ DOMAIN es = 1 .. Len(es)
           /\ \A i \in DOMAIN es : Subjects(es)[i] = es[i].of /\ es[i].of \in Subject
<1>1. DOMAIN es = 1 .. Len(es) /\ Len(es) \in Nat /\ \A i \in DOMAIN es : es[i] \in Error
    OBVIOUS
<1>2. Subjects(es) = [i \in DOMAIN es |-> es[i].of]
    BY DEF Subjects
<1>3. \A i \in DOMAIN es : es[i].of \in Subject
    BY <1>1 DEF Error
<1>4. PICK s : s = Subjects(es)
    OBVIOUS
<1>5. /\ DOMAIN s = 1 .. Len(es) /\ s = [i \in 1 .. Len(es) |-> s[i]]
      /\ \A i \in 1 .. Len(es) : s[i] \in Subject /\ s[i] = es[i].of
    BY <1>1, <1>2, <1>3, <1>4
<1>6. s \in Seq(Subject) /\ Len(s) = Len(es)
    BY <1>1, <1>5, FunctionIsSeq
<1> QED
    BY <1>1, <1>3, <1>4, <1>5, <1>6

LEMMA AppendFacts ==
    ASSUME NEW S, NEW s \in Seq(S), NEW e \in S
    PROVE  /\ Append(s, e) \in Seq(S) /\ Len(Append(s, e)) = Len(s) + 1 /\ Len(s) \in Nat
           /\ DOMAIN s = 1 .. Len(s) /\ DOMAIN Append(s, e) = 1 .. Len(s) + 1
           /\ \A i \in 1 .. Len(s) : Append(s, e)[i] = s[i]
           /\ Append(s, e)[Len(s) + 1] = e
OBVIOUS

LEMMA TailFacts ==
    ASSUME NEW S, NEW s \in Seq(S), s # << >>
    PROVE  /\ Tail(s) \in Seq(S) /\ Len(s) \in Nat \ {0} /\ Len(Tail(s)) = Len(s) - 1
           /\ DOMAIN s = 1 .. Len(s) /\ DOMAIN Tail(s) = 1 .. Len(s) - 1
           /\ \A i \in 1 .. Len(s) - 1 : Tail(s)[i] = s[i + 1]
           /\ Head(s) = s[1] /\ s[1] \in S
OBVIOUS

(* The indices ValidationErrors counts.                                    *)
Invalids(es) == {i \in DOMAIN es : es[i] \in Messages}

LEMMA CountFacts ==
    ASSUME NEW es \in Seq(Subject)
    PROVE  /\ IsFiniteSet(Invalids(es)) /\ ValidationErrors(es) = Cardinality(Invalids(es))
           /\ ValidationErrors(es) \in Nat
<1>1. DOMAIN es = 1 .. Len(es) /\ Len(es) \in Nat
    OBVIOUS
<1>2. IsFiniteSet(1 .. Len(es))
    BY <1>1, FS_Interval
<1>3. Invalids(es) \in SUBSET (1 .. Len(es))
    BY <1>1 DEF Invalids
<1>4. IsFiniteSet(Invalids(es))
    BY <1>2, <1>3, FS_Subset
<1>5. Cardinality(Invalids(es)) \in Nat
    BY <1>4, FS_CardinalityType
<1> QED
    BY <1>4, <1>5 DEF ValidationErrors, Invalids

(* A list that has its elements from another one, in other places, has no  *)
(* more of them to count.                                                  *)
LEMMA CountWithin ==
    ASSUME NEW es \in Seq(Subject), NEW fs \in Seq(Subject), NEW g,
           \A i \in DOMAIN fs : g[i] \in DOMAIN es /\ es[g[i]] = fs[i],
           \A i, j \in DOMAIN fs : g[i] = g[j] => i = j
    PROVE  ValidationErrors(fs) <= ValidationErrors(es)
<1>1. IsFiniteSet(Invalids(es))
    BY CountFacts
<1> DEFINE h == [i \in Invalids(fs) |-> g[i]]
<1>2. \A i \in Invalids(fs) : i \in DOMAIN fs /\ g[i] \in Invalids(es)
    BY DEF Invalids
<1>3. h \in Injection(Invalids(fs), Invalids(es))
    BY <1>2 DEF Injection, IsInjective, Invalids
<1>4. Cardinality(Invalids(fs)) <= Cardinality(Invalids(es))
    <2> HIDE DEF h
    <2> QED
        BY <1>1, <1>3, FS_Injection
<1> QED
    BY <1>4, CountFacts

(* The error of a message counts, that of an action does not.              *)
LEMMA CountAppend ==
    ASSUME StatePublicationAssumption, NEW es \in Seq(Subject), NEW x \in Subject
    PROVE  ValidationErrors(Append(es, x)) =
             IF x \in Messages THEN ValidationErrors(es) + 1 ELSE ValidationErrors(es)
<1>1. PICK fs \in Seq(Subject) : fs = Append(es, x)
    BY AppendFacts
<1>2. /\ DOMAIN es = 1 .. Len(es) /\ Len(es) \in Nat /\ DOMAIN fs = 1 .. Len(es) + 1
      /\ \A i \in 1 .. Len(es) : fs[i] = es[i]
      /\ fs[Len(es) + 1] = x
    BY <1>1
<1>3. Invalids(fs) = IF x \in Messages THEN Invalids(es) \cup {Len(es) + 1} ELSE Invalids(es)
    <2>1. \A i \in DOMAIN fs : i \in DOMAIN es \/ i = Len(es) + 1
        BY <1>2
    <2>2. Len(es) + 1 \notin DOMAIN es /\ Len(es) + 1 \in DOMAIN fs
          /\ \A i \in DOMAIN es : i \in DOMAIN fs /\ fs[i] = es[i]
        BY <1>2
    <2>3. \A i : i \in Invalids(fs) <=>
                   i \in Invalids(es) \/ (i = Len(es) + 1 /\ x \in Messages)
        BY <1>2, <2>1, <2>2, Zenon DEF Invalids
    <2>4. CASE x \in Messages
        BY <2>3, <2>4
    <2>5. CASE x \notin Messages
        BY <2>3, <2>5
    <2> QED
        BY <2>4, <2>5
<1>4. Len(es) + 1 \notin Invalids(es)
    BY <1>2 DEF Invalids
<1>5. IsFiniteSet(Invalids(es))
    BY CountFacts
<1>6. Cardinality(Invalids(es) \cup {Len(es) + 1}) = Cardinality(Invalids(es)) + 1
    BY <1>4, <1>5, FS_AddElement
<1> QED
    BY <1>1, <1>3, <1>6, CountFacts

(* fs has its elements from es, in other places.                           *)
Within(fs, es) ==
    \E g : /\ \A i \in DOMAIN fs : g[i] \in DOMAIN es /\ es[g[i]] = fs[i]
           /\ \A i, j \in DOMAIN fs : g[i] = g[j] => i = j

LEMMA WithinItself ==
    ASSUME NEW es
    PROVE  Within(es, es)
<1> DEFINE g == [i \in DOMAIN es |-> i]
<1>1. /\ \A i \in DOMAIN es : g[i] \in DOMAIN es /\ es[g[i]] = es[i]
      /\ \A i, j \in DOMAIN es : g[i] = g[j] => i = j
    OBVIOUS
<1> HIDE DEF g
<1> QED
    BY <1>1 DEF Within

(* Errors that are filtered.                                               *)
LEMMA KeptErrors ==
    ASSUME NEW es \in Seq(Error), NEW S
    PROVE  /\ Kept(es, S) \in Seq(Error)
           /\ Within(Subjects(Kept(es, S)), Subjects(es))
           /\ \A i \in DOMAIN Kept(es, S) : \E j \in DOMAIN es : Kept(es, S)[i] = es[j] /\ es[j] \in S
<1>1. PICK g : Kept(es, S) \in Seq(Error) /\ Selects(es, S, Kept(es, S), g, Len(es))
    BY KeptFacts
<1>2. PICK fs : fs = Kept(es, S)
    OBVIOUS
<1>3. /\ fs \in Seq(Error) /\ DOMAIN fs = 1 .. Len(fs) /\ DOMAIN es = 1 .. Len(es)
      /\ Len(fs) \in Nat /\ Len(es) \in Nat
      /\ \A k \in 1 .. Len(fs) : g[k] \in 1 .. Len(es) /\ fs[k] = es[g[k]] /\ es[g[k]] \in S
      /\ \A k, l \in 1 .. Len(fs) : k < l => g[k] < g[l]
    <2>1. fs \in Seq(Error) /\ Selects(es, S, fs, g, Len(es))
        BY <1>1, <1>2, Zenon
    <2>2. /\ DOMAIN fs = 1 .. Len(fs) /\ DOMAIN es = 1 .. Len(es)
          /\ Len(fs) \in Nat /\ Len(es) \in Nat
        BY <2>1, ElementFacts
    <2> QED
        BY <2>1, <2>2, Zenon DEF Selects
<1>4. ASSUME NEW k \in 1 .. Len(fs), NEW l \in 1 .. Len(fs), g[k] = g[l]
      PROVE  k = l
    <2>1. k \in Nat /\ l \in Nat /\ g[k] \in Nat /\ g[l] \in Nat
        BY <1>3
    <2> QED
        BY <1>3, <1>4, <2>1
<1>5. PICK a, b : /\ a = Subjects(fs) /\ b = Subjects(es) /\ DOMAIN a = DOMAIN fs /\ DOMAIN b = DOMAIN es
                  /\ \A i \in DOMAIN fs : a[i] = fs[i].of
                  /\ \A i \in DOMAIN es : b[i] = es[i].of
    BY <1>3, SubjectFacts
<1>6. Within(a, b)
    <2>1. \A i \in DOMAIN a : g[i] \in DOMAIN b /\ b[g[i]] = a[i]
        BY <1>3, <1>5
    <2>2. \A i, j \in DOMAIN a : g[i] = g[j] => i = j
        BY <1>3, <1>4, <1>5
    <2> QED
        BY <2>1, <2>2, Zenon DEF Within
<1> QED
    BY <1>1, <1>2, <1>3, <1>5, <1>6

LEMMA AppendedError ==
    ASSUME AgvTypes, NEW e \in Error, e.counted => e.count < PublishCount,
           errors' = Append(errors, e)
    PROVE  /\ errors' \in Seq(Error)
           /\ \A i \in DOMAIN errors' : errors'[i].counted => errors'[i].count < PublishCount
           /\ Subjects(errors') = Append(Subjects(errors), e.of)
<1>1. errors \in Seq(Error)
    BY DEF AgvTypes
<1>2. /\ errors' \in Seq(Error) /\ Len(errors') = Len(errors) + 1 /\ Len(errors) \in Nat
      /\ DOMAIN errors = 1 .. Len(errors) /\ DOMAIN errors' = 1 .. Len(errors) + 1
      /\ \A i \in 1 .. Len(errors) : errors'[i] = errors[i]
      /\ errors'[Len(errors) + 1] = e
    BY <1>1, AppendFacts
<1>3. \A i \in 1 .. Len(errors) + 1 : i \in 1 .. Len(errors) \/ i = Len(errors) + 1
    BY <1>2
<1>4. \A i \in DOMAIN errors' : errors'[i].counted => errors'[i].count < PublishCount
    BY <1>2, <1>3 DEF AgvTypes
<1>5. PICK a \in Seq(Subject) :
        a = Subjects(errors) /\ Len(a) = Len(errors) /\ \A i \in DOMAIN errors : a[i] = errors[i].of
    BY <1>1, SubjectFacts
<1>6. PICK b \in Seq(Subject) :
        b = Subjects(errors') /\ Len(b) = Len(errors) + 1 /\ \A i \in DOMAIN errors' : b[i] = errors'[i].of
    BY <1>2, SubjectFacts
<1>7. e.of \in Subject
    BY DEF Error
<1>8. b = Append(a, e.of)
    <2>1. /\ Append(a, e.of) \in Seq(Subject) /\ Len(Append(a, e.of)) = Len(errors) + 1
          /\ \A i \in 1 .. Len(errors) : Append(a, e.of)[i] = a[i]
          /\ Append(a, e.of)[Len(errors) + 1] = e.of
        BY <1>5, <1>7, AppendFacts
    <2>2. PICK c \in Seq(Subject) : c = Append(a, e.of)
        BY <2>1
    <2>3. \A i \in 1 .. Len(errors) + 1 : b[i] = c[i]
        BY <1>2, <1>3, <1>5, <1>6, <2>1, <2>2
    <2>4. b = c
        BY <1>6, <2>1, <2>2, <2>3
    <2> QED
        BY <2>2, <2>4
<1> QED
    BY <1>2, <1>4, <1>5, <1>6, <1>8

(* What the removal of what was told leaves.                               *)
LEMMA CleanupTypes ==
    ASSUME StatePublicationAssumption, AgvTypes, CleanupInstantActionStates
    PROVE  /\ errors' \in Seq(Error)
           /\ \A i \in DOMAIN errors' : errors'[i].counted => errors'[i].count < PublishCount
           /\ Within(Subjects(errors'), Subjects(errors))
           /\ \A a \in Actions : status'[a] = status[a] \/ (status'[a] = Absent /\ status[a] \in Ended)
           /\ status' \in [Actions -> Status]
           /\ counts' \in [DOMAIN counts' -> 0 .. PublishCount - 1]
           /\ DOMAIN counts' = {a \in Actions : status'[a] # Absent}
<1> DEFINE counted == [i \in DOMAIN errors |->
                         [errors[i] EXCEPT !.count = IF errors[i].counted THEN @ + 1 ELSE @]]
           ended == {a \in DOMAIN counts : status[a] \in Ended}
           gone == {a \in ended : counts[a] + 1 >= PublishCount}
<1>1. PICK S : S = {e \in Range(counted) : ~ e.counted \/ e.count < PublishCount}
    OBVIOUS
<1>2. /\ errors' = Kept(counted, S)
      /\ counts' = [a \in DOMAIN counts \ gone |-> counts[a] + (IF a \in ended THEN 1 ELSE 0)]
      /\ status' = [a \in Actions |-> IF a \in gone THEN Absent ELSE status[a]]
    BY <1>1 DEF CleanupInstantActionStates
<1>3. PICK new : new = counted
    OBVIOUS
<1>4. errors \in Seq(Error) /\ DOMAIN errors = 1 .. Len(errors) /\ Len(errors) \in Nat
      /\ \A i \in DOMAIN errors : errors[i] \in Error
    BY ElementFacts DEF AgvTypes
<1>5. /\ DOMAIN new = 1 .. Len(errors) /\ new = [i \in 1 .. Len(errors) |-> new[i]]
      /\ \A i \in 1 .. Len(errors) : new[i] \in Error /\ new[i].of = errors[i].of
    <2>1. ASSUME NEW i \in DOMAIN errors
          PROVE  new[i] \in Error /\ new[i].of = errors[i].of
        <3>1. PICK e \in Error : e = errors[i]
            BY <1>4
        <3>2. new[i] = [e EXCEPT !.count = IF e.counted THEN @ + 1 ELSE @]
            BY <1>3, <3>1
        <3> QED
            BY <3>1, <3>2 DEF Error
    <2> QED
        BY <1>3, <1>4, <2>1
<1>6. new \in Seq(Error) /\ Len(new) = Len(errors)
    BY <1>4, <1>5, FunctionIsSeq
<1>7. Subjects(new) = Subjects(errors)
    BY <1>4, <1>5 DEF Subjects
<1>8. /\ errors' \in Seq(Error) /\ Within(Subjects(errors'), Subjects(new))
      /\ \A i \in DOMAIN errors' : \E j \in DOMAIN new : errors'[i] = new[j] /\ new[j] \in S
    <2>1. PICK K : K = Kept(new, S)
        OBVIOUS
    <2>2. /\ K \in Seq(Error) /\ Within(Subjects(K), Subjects(new))
          /\ \A i \in DOMAIN K : \E j \in DOMAIN new : K[i] = new[j] /\ new[j] \in S
        BY <1>6, <2>1, KeptErrors
    <2>3. errors' = K
        BY <1>2, <1>3, <2>1
    <2> QED
        BY <2>2, <2>3
<1>9. \A i \in DOMAIN errors' : errors'[i].counted => errors'[i].count < PublishCount
    BY <1>1, <1>8
<1>10. \A a \in Actions : status'[a] = status[a] \/ (status'[a] = Absent /\ status[a] \in Ended)
    BY <1>2
<1>11. status' \in [Actions -> Status]
    BY <1>2 DEF AgvTypes, Status
<1>12. DOMAIN counts' = {a \in Actions : status'[a] # Absent}
    <2>1. DOMAIN counts' = DOMAIN counts \ gone /\ DOMAIN counts = {a \in Actions : status[a] # Absent}
        BY <1>2 DEF AgvTypes
    <2> QED
        BY <1>2, <2>1
<1>13. counts' \in [DOMAIN counts' -> 0 .. PublishCount - 1]
    <2>1. PublishCount \in Nat \ {0}
        BY DEF StatePublicationAssumption
    <2>2. ASSUME NEW a \in DOMAIN counts \ gone
          PROVE  counts[a] + (IF a \in ended THEN 1 ELSE 0) \in 0 .. PublishCount - 1
        <3>1. counts[a] \in 0 .. PublishCount - 1
            BY DEF AgvTypes
        <3>2. a \in ended => ~ (counts[a] + 1 >= PublishCount)
            BY <2>2
        <3> HIDE DEF ended, gone
        <3>3. CASE a \in ended
            BY <2>1, <3>1, <3>2, <3>3
        <3>4. CASE a \notin ended
            BY <2>1, <3>1, <3>4
        <3> QED
            BY <3>3, <3>4
    <2> HIDE DEF ended, gone
    <2> QED
        BY <1>2, <2>2
<1> QED
    BY <1>7, <1>8, <1>9, <1>10, <1>11, <1>12, <1>13

-----------------------------------------------------------------------------
(* Types, and what has been told *)

View == [status |-> status, errors |-> Subjects(errors)]

LEMMA ViewType ==
    ASSUME AgvTypes
    PROVE  View \in State /\ View.status = status /\ View.errors = Subjects(errors)
BY SubjectFacts DEF View, State, AgvTypes

LEMMA ViewTypeNext ==
    AgvTypes' => View' \in State /\ View'.status = status' /\ View'.errors = Subjects(errors')
<1>1. AgvTypes' => errors' \in Seq(Error) /\ status' \in [Actions -> Status]
    BY DEF AgvTypes
<1>2. AgvTypes' => Subjects(errors') \in Seq(Subject)
    BY <1>1, SubjectFacts
<1> QED
    BY <1>1, <1>2 DEF View, State

(* The state is published, unless the AGV is offline.                      *)
LEMMA PublishFacts ==
    ASSUME states \in Seq(State), inFlight \in Nat, online \in BOOLEAN, told \subseteq Actions,
           View' \in State, PublishCurrentState
    PROVE  /\ states' \in Seq(State) /\ inFlight' \in Nat /\ told' \subseteq Actions
           /\ told' = IF online THEN told \cup TellsOf(status', errors') ELSE told
           /\ states' = IF online THEN Append(states, View') ELSE states
           /\ ~ online => inFlight' = inFlight
<1>1. TellsOf(status', errors') \subseteq Actions
    BY DEF TellsOf
<1>2. CASE online
    <2>1. states' = Append(states, View') /\ inFlight' = inFlight + 1
          /\ told' = told \cup TellsOf(status', errors')
        BY <1>2 DEF PublishCurrentState, View
    <2> QED
        BY <1>1, <1>2, <2>1, AppendFacts
<1>3. CASE ~ online
    BY <1>3 DEF PublishCurrentState
<1> QED
    BY <1>2, <1>3

(* What a State message with an error of x tells.                          *)
LEMMA TellsError ==
    ASSUME NEW es \in Seq(Error), NEW i \in DOMAIN es, NEW st
    PROVE  /\ es[i].of \in Actions => es[i].of \in TellsOf(st, es)
           /\ es[i].of \in Messages => \A a \in Actions : a \in Range(Msg[es[i].of]) => a \in TellsOf(st, es)
BY DEF TellsOf

LEMMA MasterStepTypes ==
    ASSUME StatePublicationAssumption, Types, Told, NEW m \in Messages,
           InitiateInstantActions(m) \/ Published(m) \/ PublishFails(m)
    PROVE  Types' /\ Told'
<1>1. UNCHANGED << agvVars, states >>
    BY DEF InitiateInstantActions, Published, PublishFails
<1>2. AgvTypes' /\ Told' /\ states' \in Seq(State)
    BY <1>1 DEF agvVars, stateVars, Types, AgvTypes, Told, TellsOf
<1>3. MasterTypes /\ Range(Msg[m]) \subseteq Actions /\ toAgv \in Seq(Messages)
    BY MessageFacts DEF Types
<1>4. CASE InitiateInstantActions(m)
    <2>1. /\ initiated' = initiated \cup {m} /\ awaiting' = awaiting \cup {m}
          /\ refOf' = [refOf EXCEPT ![m] = ref + 1] /\ UNCHANGED << ref, refErrors, outcome, toAgv >>
          /\ caches' = [a \in DOMAIN caches \cup Range(Msg[m]) |->
                          IF a \in Range(Msg[m]) THEN [ref |-> ref + 1, last |-> Absent] ELSE caches[a]]
        BY <1>4 DEF InitiateInstantActions
    <2>2. \A a \in DOMAIN caches' : caches'[a] \in Cache
        BY <1>3, <2>1 DEF MasterTypes, Cache
    <2>3. caches' \in [DOMAIN caches' -> Cache] /\ DOMAIN caches' \subseteq Actions
        BY <1>3, <2>1, <2>2 DEF MasterTypes
    <2>4. MasterTypes'
        BY <1>3, <2>1, <2>3 DEF MasterTypes
    <2> QED
        BY <1>2, <1>3, <2>1, <2>4 DEF Types
<1>5. CASE Published(m)
    <2>1. /\ awaiting' = awaiting \ {m} /\ ref' = refOf[m] /\ toAgv' = Append(toAgv, m)
          /\ UNCHANGED << initiated, caches, refOf, refErrors, outcome >>
        BY <1>5 DEF Published
    <2>2. MasterTypes'
        BY <1>3, <2>1 DEF MasterTypes
    <2>3. toAgv' \in Seq(Messages)
        BY <1>3, <2>1
    <2> QED
        BY <1>2, <2>2, <2>3 DEF Types
<1>6. CASE PublishFails(m)
    <2>1. /\ awaiting' = awaiting \ {m} /\ UNCHANGED << initiated, ref, refOf, refErrors, outcome, toAgv >>
          /\ caches' = [a \in DOMAIN caches \ Range(Msg[m]) |-> caches[a]]
        BY <1>6 DEF PublishFails, Without
    <2>2. caches' \in [DOMAIN caches' -> Cache] /\ DOMAIN caches' \subseteq Actions
        BY <1>3, <2>1 DEF MasterTypes
    <2>3. MasterTypes'
        BY <1>3, <2>1, <2>2 DEF MasterTypes
    <2> QED
        BY <1>2, <1>3, <2>1, <2>3 DEF Types
<1> QED
    BY <1>4, <1>5, <1>6

(* A step of the AGV that leaves well-formed values, and tells what ended  *)
(* or was rejected in it.                                                  *)
LEMMA AgvStepTypes ==
    ASSUME StatePublicationAssumption, Types, Told, UNCHANGED masterVars, AgvTypes',
           toAgv' \in Seq(Messages), states' \in Seq(State), ~ online' => inFlight' = 0,
           \A a \in Actions : fate'[a] \in {"ended", "rejected"} =>
             a \in told' \/ (~ online' /\ a \in TellsOf(status', errors')),
           \A a \in Actions : fate'[a] = "executing" => status'[a] = "RUNNING",
           \A a \in Actions : fate'[a] = "ended" => status'[a] # "RUNNING"
    PROVE  Types' /\ Told'
BY DEF masterVars, Types, MasterTypes, Told

LEMMA ReceiveTypes ==
    ASSUME StatePublicationAssumption, Types, Told, ReceiveInstantActions
    PROVE  Types' /\ Told'
<1>1. PICK m : m = Head(toAgv)
    OBVIOUS
<1>2. /\ toAgv # << >> /\ online /\ toAgv' = Tail(toAgv) /\ toAgv \in Seq(Messages)
      /\ UNCHANGED << masterVars, online, bounds >>
    BY DEF ReceiveInstantActions, Types
<1>3. m \in Messages /\ toAgv' \in Seq(Messages)
    BY <1>1, <1>2, TailFacts
<1>4. AgvTypes /\ states \in Seq(State)
    BY DEF Types
<1>5. CASE m \in Invalid
    <2>1. PICK e : e = [of |-> m, counted |-> TRUE, count |-> 0]
        OBVIOUS
    <2>2. /\ errors' = Append(errors, e)
          /\ fate' = [a \in Actions |-> IF a \in Range(Msg[m]) THEN "rejected" ELSE fate[a]]
          /\ UNCHANGED << checking, status, counts >> /\ PublishCurrentState
        BY <1>1, <1>5, <2>1 DEF ReceiveInstantActions
    <2>3. e \in Error /\ e.of = m /\ (e.counted => e.count < PublishCount)
        BY <1>3, <2>1 DEF Error, Subject, StatePublicationAssumption
    <2>4. /\ errors' \in Seq(Error)
          /\ \A i \in DOMAIN errors' : errors'[i].counted => errors'[i].count < PublishCount
        BY <1>4, <2>2, <2>3, AppendedError
    <2>5. View' \in State
        <3>1. Subjects(errors') \in Seq(Subject) /\ status' \in [Actions -> Status]
            BY <1>4, <2>2, <2>4, SubjectFacts DEF AgvTypes
        <3> QED
            BY <3>1 DEF View, State
    <2>6. /\ states' \in Seq(State) /\ inFlight' \in Nat /\ told' \subseteq Actions
          /\ told' = told \cup TellsOf(status', errors')
        BY <1>2, <1>4, <2>2, <2>5, PublishFacts DEF AgvTypes
    <2>7. fate' \in [Actions -> Fate]
        BY <1>4, <2>2 DEF AgvTypes, Fate
    <2>8. AgvTypes'
        BY <1>2, <1>4, <2>2, <2>4, <2>6, <2>7 DEF AgvTypes
    <2>9. ASSUME NEW a \in Actions, a \in Range(Msg[m])
          PROVE  a \in TellsOf(status', errors')
        <3>1. PICK j : j \in DOMAIN errors' /\ errors'[j] = e
            BY <1>4, <2>2, <2>3, AppendFacts DEF AgvTypes
        <3> QED
            BY <1>3, <2>3, <2>9, <3>1 DEF TellsOf
    <2>10. \A a \in Actions : fate'[a] \in {"ended", "rejected"} => a \in told'
        BY <1>2, <2>2, <2>6, <2>9 DEF Told
    <2>11. \A a \in Actions : /\ fate'[a] = "executing" => status'[a] = "RUNNING"
                              /\ fate'[a] = "ended" => status'[a] # "RUNNING"
        BY <2>2 DEF Told
    <2> QED
        BY <1>2, <1>3, <2>6, <2>8, <2>10, <2>11, AgvStepTypes
<1>6. CASE m \notin Invalid
    <2>1. checking' = Msg[m] /\ UNCHANGED << stateVars, states, inFlight, told, fate >>
        BY <1>1, <1>6 DEF ReceiveInstantActions
    <2>2. checking' \in Seq(Actions)
        BY <1>3, <2>1, MessageFacts
    <2>3. AgvTypes'
        BY <1>2, <1>4, <2>1, <2>2 DEF AgvTypes, stateVars
    <2>4. states' \in Seq(State) /\ online'
        BY <1>2, <1>4, <2>1
    <2>5. \A a \in Actions : fate'[a] \in {"ended", "rejected"} => a \in told'
        BY <1>2, <2>1 DEF Told
    <2>6. \A a \in Actions : /\ fate'[a] = "executing" => status'[a] = "RUNNING"
                             /\ fate'[a] = "ended" => status'[a] # "RUNNING"
        BY <2>1 DEF Told, stateVars
    <2> QED
        BY <1>2, <1>3, <2>3, <2>4, <2>5, <2>6, AgvStepTypes
<1> QED
    BY <1>5, <1>6

(* What is told of an action whose status and error remain.                *)
LEMMA TellsKept ==
    ASSUME NEW a \in Actions, a \in TellsOf(status, errors),
           status[a] \in Ended => status'[a] \in Ended,
           \A i \in DOMAIN errors : \E j \in DOMAIN errors' : errors'[j].of = errors[i].of
    PROVE  a \in TellsOf(status', errors')
BY DEF TellsOf

LEMMA ErrorsRemain ==
    ASSUME AgvTypes, NEW e \in Error, errors' = Append(errors, e)
    PROVE  /\ \A i \in DOMAIN errors : \E j \in DOMAIN errors' : errors'[j].of = errors[i].of
           /\ \E j \in DOMAIN errors' : errors'[j] = e
<1>1. /\ DOMAIN errors = 1 .. Len(errors) /\ DOMAIN errors' = 1 .. Len(errors) + 1 /\ Len(errors) \in Nat
      /\ \A i \in 1 .. Len(errors) : errors'[i] = errors[i]
      /\ errors'[Len(errors) + 1] = e
    BY AppendFacts DEF AgvTypes
<1>2. ASSUME NEW i \in DOMAIN errors
      PROVE  i \in DOMAIN errors' /\ errors'[i].of = errors[i].of
    BY <1>1
<1>3. Len(errors) + 1 \in DOMAIN errors'
    BY <1>1
<1> QED
    BY <1>1, <1>2, <1>3

(* A step of the AGV that publishes the state.                             *)
LEMMA PublishStepTypes ==
    ASSUME StatePublicationAssumption, Types, Told, UNCHANGED << masterVars, online >>,
           PublishCurrentState, toAgv' \in Seq(Messages), checking' \in Seq(Actions),
           status' \in [Actions -> Status], counts' \in [DOMAIN counts' -> 0 .. PublishCount - 1],
           DOMAIN counts' = {a \in Actions : status'[a] # Absent},
           errors' \in Seq(Error),
           \A i \in DOMAIN errors' : errors'[i].counted => errors'[i].count < PublishCount,
           fate' \in [Actions -> Fate], bounds' \in [breaks : Nat, updates : Nat, orders : Nat],
           \A a \in Actions : fate'[a] \in {"ended", "rejected"} =>
             \/ a \in TellsOf(status', errors')
             \/ fate[a] \in {"ended", "rejected"} /\ (online \/ a \notin TellsOf(status, errors)),
           \A a \in Actions : fate'[a] = "executing" => status'[a] = "RUNNING",
           \A a \in Actions : fate'[a] = "ended" => status'[a] # "RUNNING"
    PROVE  Types' /\ Told' /\ states' = IF online THEN Append(states, View') ELSE states
<1>1. AgvTypes /\ states \in Seq(State)
    BY DEF Types
<1>2. View' \in State
    BY SubjectFacts DEF View, State
<1>3. /\ states' \in Seq(State) /\ inFlight' \in Nat /\ told' \subseteq Actions
      /\ told' = (IF online THEN told \cup TellsOf(status', errors') ELSE told)
      /\ states' = (IF online THEN Append(states, View') ELSE states)
      /\ ~ online => inFlight' = inFlight
    BY <1>1, <1>2, PublishFacts DEF AgvTypes
<1>4. AgvTypes'
    BY <1>1, <1>3 DEF AgvTypes
<1>5. ASSUME NEW a \in Actions, fate'[a] \in {"ended", "rejected"}
      PROVE  a \in told' \/ (~ online' /\ a \in TellsOf(status', errors'))
    <2>1. fate[a] \in {"ended", "rejected"} => a \in told \/ (~ online /\ a \in TellsOf(status, errors))
        BY DEF Told
    <2> QED
        BY <1>3, <1>5, <2>1
<1>6. ~ online' => inFlight' = 0
    BY <1>3 DEF Told
<1> QED
    BY <1>3, <1>4, <1>5, <1>6, AgvStepTypes

LEMMA CheckTypes ==
    ASSUME StatePublicationAssumption, Types, Told, CheckInstantAction
    PROVE  Types' /\ Told'
<1>1. PICK a : a = Head(checking)
    OBVIOUS
<1>2. /\ checking # << >> /\ checking' = Tail(checking) /\ (RejectAction(a) \/ AcceptAction(a))
      /\ UNCHANGED << masterVars, toAgv, online, bounds >>
    BY <1>1 DEF CheckInstantAction, Handling
<1>3. AgvTypes /\ states \in Seq(State) /\ toAgv \in Seq(Messages) /\ checking \in Seq(Actions)
    BY DEF Types, AgvTypes
<1>4. a \in Actions /\ checking' \in Seq(Actions)
    BY <1>1, <1>2, <1>3, TailFacts
<1>5. CASE RejectAction(a)
    <2>1. PICK e : e = [of |-> a, counted |-> TRUE, count |-> 0]
        OBVIOUS
    <2>2. /\ errors' = Append(errors, e) /\ fate' = [fate EXCEPT ![a] = "rejected"]
          /\ UNCHANGED << status, counts >> /\ PublishCurrentState
        BY <1>5, <2>1 DEF RejectAction
    <2>3. e \in Error /\ e.of = a /\ (e.counted => e.count < PublishCount)
        BY <1>4, <2>1 DEF Error, Subject, StatePublicationAssumption
    <2>4. /\ errors' \in Seq(Error)
          /\ \A i \in DOMAIN errors' : errors'[i].counted => errors'[i].count < PublishCount
        BY <1>3, <2>2, <2>3, AppendedError
    <2>5. ASSUME NEW b \in Actions, fate'[b] \in {"ended", "rejected"}
          PROVE  \/ b \in TellsOf(status', errors')
                 \/ fate[b] \in {"ended", "rejected"} /\ (online \/ b \notin TellsOf(status, errors))
        <3>1. a \in TellsOf(status', errors')
            BY <1>3, <1>4, <2>2, <2>3, ErrorsRemain DEF TellsOf
        <3>2. b # a => fate[b] \in {"ended", "rejected"}
            BY <1>3, <2>2, <2>5 DEF AgvTypes
        <3>3. b \in TellsOf(status, errors) => b \in TellsOf(status', errors')
            BY <1>3, <2>2, <2>3, ErrorsRemain, TellsKept
        <3> QED
            BY <3>1, <3>2, <3>3
    <2>6. fate' \in [Actions -> Fate]
        BY <1>3, <1>4, <2>2 DEF AgvTypes, Fate
    <2>7. /\ \A b \in Actions : fate'[b] = "executing" => status'[b] = "RUNNING"
          /\ \A b \in Actions : fate'[b] = "ended" => status'[b] # "RUNNING"
        BY <1>3, <1>4, <2>2 DEF AgvTypes, Told
    <2>8. /\ status' \in [Actions -> Status] /\ counts' \in [DOMAIN counts' -> 0 .. PublishCount - 1]
          /\ DOMAIN counts' = {b \in Actions : status'[b] # Absent}
          /\ bounds' \in [breaks : Nat, updates : Nat, orders : Nat]
        BY <1>2, <1>3, <2>2 DEF AgvTypes
    <2> QED
        BY <1>2, <1>3, <1>4, <2>2, <2>4, <2>5, <2>6, <2>7, <2>8, PublishStepTypes
<1>6. CASE AcceptAction(a)
    <2>1. fate' = [fate EXCEPT ![a] = "accepted"] /\ UNCHANGED << stateVars, states, inFlight, told >>
        BY <1>6 DEF AcceptAction
    <2>2. AgvTypes'
        BY <1>2, <1>3, <1>4, <2>1 DEF AgvTypes, stateVars, Fate
    <2>3. \A b \in Actions : fate'[b] = IF b = a THEN "accepted" ELSE fate[b]
        BY <1>3, <2>1 DEF AgvTypes
    <2>4. TellsOf(status', errors') = TellsOf(status, errors)
        BY <2>1 DEF stateVars
    <2>5. /\ ~ online' => inFlight' = 0
          /\ \A b \in Actions : fate'[b] \in {"ended", "rejected"} =>
               b \in told' \/ (~ online' /\ b \in TellsOf(status', errors'))
          /\ \A b \in Actions : fate'[b] = "executing" => status'[b] = "RUNNING"
          /\ \A b \in Actions : fate'[b] = "ended" => status'[b] # "RUNNING"
        BY <1>2, <2>1, <2>3, <2>4 DEF Told, stateVars
    <2>6. toAgv' \in Seq(Messages) /\ states' \in Seq(State) /\ UNCHANGED masterVars
        BY <1>2, <1>3, <2>1
    <2> QED
        BY <2>2, <2>5, <2>6, AgvStepTypes
<1> QED
    BY <1>2, <1>5, <1>6

LEMMA StartTypes ==
    ASSUME StatePublicationAssumption, Types, Told, NEW a \in Actions, StartAction(a)
    PROVE  Types' /\ Told'
<1>1. /\ fate' = [fate EXCEPT ![a] = "executing"] /\ status' = [status EXCEPT ![a] = "RUNNING"]
      /\ counts' = [b \in DOMAIN counts \cup {a} |-> IF b = a THEN 0 ELSE counts[b]]
      /\ UNCHANGED errors /\ PublishCurrentState
      /\ UNCHANGED << masterVars, toAgv, checking, online, bounds >> /\ fate[a] = "accepted"
    BY DEF StartAction
<1>2. AgvTypes /\ states \in Seq(State) /\ toAgv \in Seq(Messages)
    BY DEF Types
<1>3. status' \in [Actions -> Status] /\ fate' \in [Actions -> Fate]
    BY <1>1, <1>2 DEF AgvTypes, Status, Fate
<1>4. /\ \A b \in Actions : status'[b] = IF b = a THEN "RUNNING" ELSE status[b]
      /\ \A b \in Actions : fate'[b] = IF b = a THEN "executing" ELSE fate[b]
    BY <1>1, <1>2 DEF AgvTypes
<1>5. DOMAIN counts' = {b \in Actions : status'[b] # Absent}
    BY <1>1, <1>2, <1>4 DEF AgvTypes, Absent
<1>6. counts' \in [DOMAIN counts' -> 0 .. PublishCount - 1]
    <2>1. 0 \in 0 .. PublishCount - 1
        BY DEF StatePublicationAssumption
    <2>2. \A b \in DOMAIN counts : counts[b] \in 0 .. PublishCount - 1
        BY <1>2 DEF AgvTypes
    <2> QED
        BY <1>1, <2>1, <2>2
<1>7. ASSUME NEW b \in Actions, fate'[b] \in {"ended", "rejected"}
      PROVE  \/ b \in TellsOf(status', errors')
             \/ fate[b] \in {"ended", "rejected"} /\ (online \/ b \notin TellsOf(status, errors))
    <2>1. b # a /\ fate[b] \in {"ended", "rejected"} /\ status'[b] = status[b]
        BY <1>4, <1>7
    <2>2. b \in TellsOf(status, errors) => b \in TellsOf(status', errors')
        BY <1>1, <2>1, TellsKept
    <2> QED
        BY <2>1, <2>2
<1>8. /\ \A b \in Actions : fate'[b] = "executing" => status'[b] = "RUNNING"
      /\ \A b \in Actions : fate'[b] = "ended" => status'[b] # "RUNNING"
    BY <1>4 DEF Told
<1>9. /\ errors' \in Seq(Error) /\ checking' \in Seq(Actions) /\ toAgv' \in Seq(Messages)
      /\ \A i \in DOMAIN errors' : errors'[i].counted => errors'[i].count < PublishCount
      /\ bounds' \in [breaks : Nat, updates : Nat, orders : Nat]
    BY <1>1, <1>2 DEF AgvTypes
<1> QED
    BY <1>1, <1>3, <1>5, <1>6, <1>7, <1>8, <1>9, PublishStepTypes

LEMMA EndTypes ==
    ASSUME StatePublicationAssumption, Types, Told, NEW a \in Actions, NEW s \in Ended, EndAction(a, s)
    PROVE  Types' /\ Told'
<1>1. PICK e : e = [of |-> a, counted |-> FALSE, count |-> 0]
    OBVIOUS
<1>2. /\ fate' = [fate EXCEPT ![a] = "ended"] /\ status' = [status EXCEPT ![a] = s]
      /\ errors' = IF s = "FAILED" THEN Append(errors, e) ELSE errors
      /\ UNCHANGED counts /\ PublishCurrentState /\ fate[a] = "executing"
      /\ UNCHANGED << masterVars, toAgv, checking, online, bounds >>
    BY <1>1 DEF EndAction
<1>3. AgvTypes /\ states \in Seq(State) /\ toAgv \in Seq(Messages) /\ status[a] = "RUNNING"
    BY <1>2 DEF Types, Told
<1>4. status' \in [Actions -> Status] /\ fate' \in [Actions -> Fate]
    BY <1>2, <1>3 DEF AgvTypes, Status, Fate
<1>5. /\ \A b \in Actions : status'[b] = IF b = a THEN s ELSE status[b]
      /\ \A b \in Actions : fate'[b] = IF b = a THEN "ended" ELSE fate[b]
    BY <1>2, <1>3 DEF AgvTypes
<1>6. DOMAIN counts' = {b \in Actions : status'[b] # Absent}
      /\ counts' \in [DOMAIN counts' -> 0 .. PublishCount - 1]
    BY <1>2, <1>3, <1>5 DEF AgvTypes, Absent, Ended
<1>7. e \in Error /\ e.of = a /\ ~ e.counted
    BY <1>1 DEF Error, Subject
<1>8. /\ errors' \in Seq(Error)
      /\ \A i \in DOMAIN errors' : errors'[i].counted => errors'[i].count < PublishCount
    <2>1. CASE s = "FAILED"
        BY <1>2, <1>3, <1>7, <2>1, AppendedError
    <2>2. CASE s # "FAILED"
        BY <1>2, <1>3, <2>2 DEF AgvTypes
    <2> QED
        BY <2>1, <2>2
<1>9. \A i \in DOMAIN errors : \E j \in DOMAIN errors' : errors'[j].of = errors[i].of
    <2>1. CASE s = "FAILED"
        BY <1>2, <1>3, <1>7, <2>1, ErrorsRemain
    <2>2. CASE s # "FAILED"
        BY <1>2, <2>2
    <2> QED
        BY <2>1, <2>2
<1>10. ASSUME NEW b \in Actions, fate'[b] \in {"ended", "rejected"}
       PROVE  \/ b \in TellsOf(status', errors')
              \/ fate[b] \in {"ended", "rejected"} /\ (online \/ b \notin TellsOf(status, errors))
    <2>1. a \in TellsOf(status', errors')
        BY <1>5 DEF TellsOf
    <2>2. b # a => fate[b] \in {"ended", "rejected"} /\ status'[b] = status[b]
        BY <1>5, <1>10
    <2>3. b # a /\ b \in TellsOf(status, errors) => b \in TellsOf(status', errors')
        BY <1>9, <2>2, TellsKept
    <2> QED
        BY <2>1, <2>2, <2>3
<1>11. /\ \A b \in Actions : fate'[b] = "executing" => status'[b] = "RUNNING"
       /\ \A b \in Actions : fate'[b] = "ended" => status'[b] # "RUNNING"
    BY <1>5 DEF Told, Ended
<1>12. /\ checking' \in Seq(Actions) /\ toAgv' \in Seq(Messages)
       /\ bounds' \in [breaks : Nat, updates : Nat, orders : Nat]
    BY <1>2, <1>3 DEF AgvTypes
<1> QED
    BY <1>2, <1>4, <1>6, <1>8, <1>10, <1>11, <1>12, PublishStepTypes

LEMMA CompleteTypes ==
    ASSUME StatePublicationAssumption, Types, Told, PublishCompletes
    PROVE  Types' /\ Told' /\ online
<1>1. /\ inFlight > 0 /\ inFlight' = inFlight - 1 /\ CleanupInstantActionStates
      /\ UNCHANGED << masterVars, toAgv, states, checking, online, fate, told, bounds >>
    BY DEF PublishCompletes
<1>2. AgvTypes /\ states \in Seq(State) /\ toAgv \in Seq(Messages) /\ inFlight \in Nat
    BY DEF Types, AgvTypes
<1>3. online
    BY <1>1, <1>2 DEF Told
<1>4. inFlight' \in Nat
    BY <1>1, <1>2
<1>5. /\ errors' \in Seq(Error)
      /\ \A i \in DOMAIN errors' : errors'[i].counted => errors'[i].count < PublishCount
      /\ \A a \in Actions : status'[a] = status[a] \/ (status'[a] = Absent /\ status[a] \in Ended)
      /\ status' \in [Actions -> Status]
      /\ counts' \in [DOMAIN counts' -> 0 .. PublishCount - 1]
      /\ DOMAIN counts' = {a \in Actions : status'[a] # Absent}
    BY <1>1, <1>2, CleanupTypes
<1>6. AgvTypes'
    BY <1>1, <1>2, <1>4, <1>5 DEF AgvTypes
<1>7. \A a \in Actions : fate'[a] \in {"ended", "rejected"} => a \in told'
    BY <1>1, <1>3 DEF Told
<1>8. /\ \A a \in Actions : fate'[a] = "executing" => status'[a] = "RUNNING"
      /\ \A a \in Actions : fate'[a] = "ended" => status'[a] # "RUNNING"
    BY <1>1, <1>5 DEF Told, Ended, Absent
<1> QED
    BY <1>1, <1>2, <1>3, <1>6, <1>7, <1>8, AgvStepTypes

LEMMA PeriodicTypes ==
    ASSUME StatePublicationAssumption, Types, Told, PublishPeriodically
    PROVE  Types' /\ Told'
<1>1. /\ online /\ UNCHANGED << status, counts, errors >> /\ PublishCurrentState
      /\ UNCHANGED << masterVars, toAgv, checking, online, fate, bounds >>
    BY DEF PublishPeriodically, stateVars
<1>2. AgvTypes /\ states \in Seq(State) /\ toAgv \in Seq(Messages)
    BY DEF Types
<1>3. /\ status' \in [Actions -> Status] /\ fate' \in [Actions -> Fate] /\ errors' \in Seq(Error)
      /\ \A i \in DOMAIN errors' : errors'[i].counted => errors'[i].count < PublishCount
      /\ DOMAIN counts' = {b \in Actions : status'[b] # Absent}
      /\ counts' \in [DOMAIN counts' -> 0 .. PublishCount - 1]
      /\ checking' \in Seq(Actions) /\ toAgv' \in Seq(Messages)
      /\ bounds' \in [breaks : Nat, updates : Nat, orders : Nat]
    BY <1>1, <1>2 DEF AgvTypes
<1>4. /\ \A b \in Actions : fate'[b] = "executing" => status'[b] = "RUNNING"
      /\ \A b \in Actions : fate'[b] = "ended" => status'[b] # "RUNNING"
      /\ \A b \in Actions : fate'[b] \in {"ended", "rejected"} => fate[b] \in {"ended", "rejected"}
    BY <1>1 DEF Told
<1> QED
    BY <1>1, <1>3, <1>4, PublishStepTypes

LEMMA UpdateTypes ==
    ASSUME StatePublicationAssumption, Types, Told, UpdateErrors
    PROVE  Types' /\ Told' /\ Subjects(errors') = Subjects(errors)
<1>1. /\ errors' = [i \in DOMAIN errors |-> [errors[i] EXCEPT !.counted = FALSE]]
      /\ bounds' = [bounds EXCEPT !.updates = @ + 1]
      /\ UNCHANGED << masterVars, toAgv, states, checking, status, counts, inFlight, online, fate, told >>
    BY DEF UpdateErrors
<1>2. AgvTypes /\ states \in Seq(State) /\ toAgv \in Seq(Messages)
    BY DEF Types
<1>3. DOMAIN errors = 1 .. Len(errors) /\ Len(errors) \in Nat
      /\ \A i \in DOMAIN errors : errors[i] \in Error
    BY <1>2, ElementFacts DEF AgvTypes
<1>4. ASSUME NEW i \in DOMAIN errors
      PROVE  errors'[i] \in Error /\ errors'[i].of = errors[i].of /\ errors'[i].counted = FALSE
    <2>1. PICK e \in Error : e = errors[i]
        BY <1>3
    <2>2. errors'[i] = [e EXCEPT !.counted = FALSE]
        BY <1>1, <2>1
    <2> QED
        BY <2>1, <2>2 DEF Error
<1>5. PICK new : new = errors'
    OBVIOUS
<1>6. DOMAIN new = 1 .. Len(errors) /\ new = [i \in 1 .. Len(errors) |-> new[i]]
      /\ \A i \in 1 .. Len(errors) : new[i] \in Error
    BY <1>1, <1>3, <1>4, <1>5
<1>7. errors' \in Seq(Error) /\ DOMAIN errors' = DOMAIN errors
    BY <1>3, <1>5, <1>6, FunctionIsSeq
<1>8. bounds' \in [breaks : Nat, updates : Nat, orders : Nat]
    <2>1. PICK b \in [breaks : Nat, updates : Nat, orders : Nat] : b = bounds
        BY <1>2 DEF AgvTypes
    <2> QED
        BY <1>1, <2>1
<1>9. AgvTypes'
    BY <1>1, <1>2, <1>4, <1>7, <1>8 DEF AgvTypes
<1>10. ASSUME NEW a \in Actions, fate'[a] \in {"ended", "rejected"}
       PROVE  a \in told' \/ (~ online' /\ a \in TellsOf(status', errors'))
    <2>1. a \in told \/ (~ online /\ a \in TellsOf(status, errors))
        BY <1>1, <1>10 DEF Told
    <2>2. a \in TellsOf(status, errors) => a \in TellsOf(status', errors')
        BY <1>1, <1>4, <1>7, TellsKept
    <2> QED
        BY <1>1, <2>1, <2>2
<1>11. /\ \A a \in Actions : fate'[a] = "executing" => status'[a] = "RUNNING"
       /\ \A a \in Actions : fate'[a] = "ended" => status'[a] # "RUNNING"
       /\ ~ online' => inFlight' = 0
    BY <1>1 DEF Told
<1>12. Subjects(errors') = Subjects(errors)
    BY <1>4, <1>7 DEF Subjects
<1> QED
    BY <1>1, <1>2, <1>9, <1>10, <1>11, <1>12, AgvStepTypes

LEMMA AcceptTypes ==
    ASSUME StatePublicationAssumption, Types, Told, AcceptOrder
    PROVE  Types' /\ Told' /\ status' = status /\ Within(Subjects(errors'), Subjects(errors))
<1>1. PICK S : errors' = Kept(errors, S)
    BY Zenon DEF AcceptOrder
<1>2. /\ online /\ errors' = Kept(errors, S) /\ UNCHANGED counts /\ PublishCurrentState
      /\ bounds' = [bounds EXCEPT !.orders = @ + 1]
      /\ status' = [a \in Actions |-> IF a \in DOMAIN counts THEN status[a] ELSE Absent]
      /\ UNCHANGED << masterVars, toAgv, checking, online, fate >>
    BY <1>1 DEF AcceptOrder
<1>3. AgvTypes /\ states \in Seq(State) /\ toAgv \in Seq(Messages) /\ errors \in Seq(Error)
    BY DEF Types, AgvTypes
<1>4. PICK K : K = Kept(errors, S)
    OBVIOUS
<1>5. /\ K \in Seq(Error) /\ Within(Subjects(K), Subjects(errors))
      /\ \A i \in DOMAIN K : \E j \in DOMAIN errors : K[i] = errors[j]
    BY <1>3, <1>4, KeptErrors
<1>6. /\ errors' = K /\ errors' \in Seq(Error) /\ Within(Subjects(errors'), Subjects(errors))
      /\ \A i \in DOMAIN errors' : errors'[i].counted => errors'[i].count < PublishCount
    BY <1>2, <1>3, <1>4, <1>5 DEF AgvTypes
<1>7. status' = status
    BY <1>2, <1>3 DEF AgvTypes
<1>8. bounds' \in [breaks : Nat, updates : Nat, orders : Nat]
    <2>1. PICK b \in [breaks : Nat, updates : Nat, orders : Nat] : b = bounds
        BY <1>3 DEF AgvTypes
    <2> QED
        BY <1>2, <2>1
<1>9. /\ status' \in [Actions -> Status] /\ fate' \in [Actions -> Fate]
      /\ DOMAIN counts' = {b \in Actions : status'[b] # Absent}
      /\ counts' \in [DOMAIN counts' -> 0 .. PublishCount - 1]
      /\ checking' \in Seq(Actions) /\ toAgv' \in Seq(Messages)
    BY <1>2, <1>3, <1>7 DEF AgvTypes
<1>10. /\ \A b \in Actions : fate'[b] = "executing" => status'[b] = "RUNNING"
       /\ \A b \in Actions : fate'[b] = "ended" => status'[b] # "RUNNING"
       /\ \A b \in Actions : fate'[b] \in {"ended", "rejected"} => fate[b] \in {"ended", "rejected"}
    BY <1>2, <1>7 DEF Told
<1>11. Types' /\ Told'
    BY <1>2, <1>6, <1>8, <1>9, <1>10, PublishStepTypes
<1> QED
    BY <1>6, <1>7, <1>11

LEMMA ConnectionTypes ==
    ASSUME StatePublicationAssumption, Types, Told,
           LoseInstantActions \/ ConnectionBreaks \/ Reconnect
    PROVE  Types' /\ Told'
<1>1. AgvTypes /\ states \in Seq(State) /\ toAgv \in Seq(Messages) /\ bounds \in [breaks : Nat, updates : Nat, orders : Nat]
    BY DEF Types, AgvTypes
<1>2. CASE LoseInstantActions
    <2>1. toAgv # << >> /\ toAgv' = Tail(toAgv) /\ UNCHANGED << masterVars, states, agvVars >>
        BY <1>2 DEF LoseInstantActions
    <2>2. toAgv' \in Seq(Messages)
        BY <1>1, <2>1, TailFacts
    <2>3. AgvTypes' /\ Told'
        BY <1>1, <2>1 DEF agvVars, stateVars, AgvTypes, Told, TellsOf
    <2> QED
        BY <1>1, <2>1, <2>2, <2>3 DEF masterVars, Types, MasterTypes
<1>3. CASE ConnectionBreaks
    <2>1. /\ online /\ online' = FALSE /\ inFlight' = 0 /\ bounds' = [bounds EXCEPT !.breaks = @ + 1]
          /\ UNCHANGED << masterVars, toAgv, states, checking, status, counts, errors, fate, told >>
        BY <1>3 DEF ConnectionBreaks, stateVars
    <2>2. bounds' \in [breaks : Nat, updates : Nat, orders : Nat]
        BY <1>1, <2>1
    <2>3. AgvTypes'
        BY <1>1, <2>1, <2>2 DEF AgvTypes
    <2>4. Told'
        BY <2>1 DEF Told
    <2> QED
        BY <1>1, <2>1, <2>3, <2>4 DEF masterVars, Types, MasterTypes
<1>4. CASE Reconnect
    <2>1. /\ ~ online /\ online' = TRUE /\ states' = Append(states, View)
          /\ inFlight' = inFlight + 1 /\ told' = told \cup TellsOf(status, errors)
          /\ UNCHANGED << masterVars, toAgv, checking, status, counts, errors, fate, bounds >>
        BY <1>4 DEF Reconnect, stateVars, View
    <2>2. states' \in Seq(State)
        BY <1>1, <2>1, ViewType
    <2>3. TellsOf(status, errors) \subseteq Actions
        BY DEF TellsOf
    <2>4. inFlight' \in Nat
        BY <1>1, <2>1 DEF AgvTypes
    <2>5. AgvTypes'
        BY <1>1, <2>1, <2>3, <2>4 DEF AgvTypes
    <2>6. Told'
        BY <2>1 DEF Told
    <2> QED
        BY <1>1, <2>1, <2>2, <2>5, <2>6 DEF masterVars, Types, MasterTypes
<1> QED
    BY <1>2, <1>3, <1>4

(* An action's event is a status or a rejection.                           *)
LEMMA EventType ==
    ASSUME NEW a, NEW state, state.status[a] \in Status
    PROVE  EventFor(a, state) \in Status \cup {"rejected"}
BY DEF EventFor, Status, Absent

LEMMA ConcatFacts ==
    ASSUME NEW S, NEW s \in Seq(S), NEW t \in Seq(S)
    PROVE  /\ Len(s \o t) = Len(s) + Len(t)
           /\ \A i \in DOMAIN s : (s \o t)[i] = s[i]
           /\ \A i \in DOMAIN t : (s \o t)[Len(s) + i] = t[i]
BY ConcatProperties, ElementFacts

(* What becomes of the references when a State message has the errors es.  *)
LEMMA UpdateFacts ==
    ASSUME refErrors \in Seq(Int), ref \in Nat, NEW es \in Seq(Subject)
    PROVE  /\ UpdateValidationErrors(es) \in Seq(Int)
           /\ ref = 0 \/ ValidationErrors(es) = Len(refErrors) => UpdateValidationErrors(es) = refErrors
           /\ ref # 0 /\ ValidationErrors(es) < Len(refErrors) =>
                /\ Len(UpdateValidationErrors(es)) = ValidationErrors(es)
                /\ \A i \in DOMAIN UpdateValidationErrors(es) : \E j \in DOMAIN refErrors :
                     UpdateValidationErrors(es)[i] = refErrors[j]
           /\ ref # 0 /\ ValidationErrors(es) = Len(refErrors) + 1 =>
                /\ Len(UpdateValidationErrors(es)) = Len(refErrors) + 1
                /\ \A i \in DOMAIN refErrors : UpdateValidationErrors(es)[i] = refErrors[i]
                /\ UpdateValidationErrors(es)[Len(refErrors) + 1] = ref
<1>1. PICK found \in Nat : found = ValidationErrors(es)
    BY CountFacts
<1>2. PICK known : known = Len(refErrors)
    OBVIOUS
<1>3. known \in Nat
    BY <1>2
<1>4. PICK new : new = UpdateValidationErrors(es)
    OBVIOUS
<1>5. new = CASE ref = 0 \/ found = known -> refErrors
              [] ref # 0 /\ found > known -> refErrors \o [i \in 1 .. found - known |-> ref + 1 - i]
              [] ref # 0 /\ found < known -> SubSeq(refErrors, known - found + 1, known)
    BY <1>1, <1>2, <1>4, Zenon DEF UpdateValidationErrors
<1>6. CASE ref = 0 \/ found = known
    <2>1. new = refErrors
        BY <1>3, <1>5, <1>6
    <2> QED
        BY <1>1, <1>2, <1>4, <1>6, <2>1
<1>7. CASE ref # 0 /\ found > known
    <2>1. new = refErrors \o [i \in 1 .. found - known |-> ref + 1 - i]
        BY <1>3, <1>5, <1>7
    <2>2. PICK more : more = [i \in 1 .. found - known |-> ref + 1 - i]
        OBVIOUS
    <2>3. /\ found - known \in Nat /\ DOMAIN more = 1 .. found - known
          /\ more = [i \in 1 .. found - known |-> more[i]]
          /\ \A i \in 1 .. found - known : more[i] \in Int /\ more[i] = ref + 1 - i
        BY <1>3, <1>7, <2>2
    <2>4. more \in Seq(Int) /\ Len(more) = found - known
        BY <2>3, FunctionIsSeq
    <2>5. new = refErrors \o more /\ new \in Seq(Int)
        <3>1. new = refErrors \o more
            BY <2>1, <2>2
        <3> QED
            BY <2>4, <3>1
    <2>6. ASSUME found = known + 1
          PROVE  /\ Len(new) = known + 1
                 /\ \A i \in DOMAIN refErrors : new[i] = refErrors[i]
                 /\ new[known + 1] = ref
        <3>1. Len(more) = 1 /\ more[1] = ref
            BY <1>3, <2>3, <2>4, <2>6
        <3>0. PICK r \in Seq(Int) : r = refErrors
            OBVIOUS
        <3>4. /\ Len(r \o more) = Len(r) + Len(more)
              /\ \A i \in DOMAIN r : (r \o more)[i] = r[i]
              /\ \A i \in DOMAIN more : (r \o more)[Len(r) + i] = more[i]
            <4>1. more \in Seq(Int) /\ r \in Seq(Int)
                BY <2>4, <3>0
            <4> QED
                BY <4>1, ConcatFacts
        <3>2. /\ Len(refErrors \o more) = Len(refErrors) + Len(more)
              /\ \A i \in DOMAIN refErrors : (refErrors \o more)[i] = refErrors[i]
              /\ \A i \in DOMAIN more : (refErrors \o more)[Len(refErrors) + i] = more[i]
            BY <3>0, <3>4, Zenon
        <3>3. DOMAIN refErrors = 1 .. Len(refErrors) /\ 1 \in DOMAIN more
            BY <2>3, <2>4, <3>1
        <3> QED
            BY <1>2, <2>5, <3>1, <3>2, <3>3
    <2> QED
        BY <1>1, <1>2, <1>4, <1>3, <1>7, <2>5, <2>6
<1>8. CASE ref # 0 /\ found < known
    <2>1. new = SubSeq(refErrors, known - found + 1, known)
        <3>1. ref # 0 /\ found # known /\ found < known /\ ~ (found > known)
            BY <1>3, <1>8
        <3> QED
            BY <1>5, <3>1
    <2>2. /\ new \in Seq(Int) /\ Len(new) = found /\ DOMAIN new = 1 .. found
          /\ \A i \in 1 .. found : new[i] = refErrors[i + (known - found)]
        BY <1>2, <1>3, <1>8, <2>1
    <2>3. ASSUME NEW i \in 1 .. found
          PROVE  \E j \in DOMAIN refErrors : new[i] = refErrors[j]
        <3>1. i + (known - found) \in DOMAIN refErrors
            BY <1>2, <1>3, <1>8
        <3> QED
            BY <2>2, <3>1
    <2> QED
        BY <1>1, <1>2, <1>3, <1>4, <1>8, <2>2, <2>3
<1> QED
    BY <1>3, <1>6, <1>7, <1>8

(* What master control does with a State message.                          *)
LEMMA DispatchTypes ==
    ASSUME StatePublicationAssumption, Types, Told, DispatchState
    PROVE  Types' /\ Told'
<1>1. PICK st : st = Head(states)
    OBVIOUS
<1>2. /\ states # << >> /\ states' = Tail(states) /\ UNCHANGED << initiated, awaiting, ref, refOf, toAgv, agvVars >>
      /\ refErrors' = UpdateValidationErrors(st.errors)
    BY <1>1 DEF DispatchState
<1>3. MasterTypes /\ AgvTypes /\ states \in Seq(State) /\ toAgv \in Seq(Messages)
    BY DEF Types
<1>4. st \in State /\ states' \in Seq(State)
    BY <1>1, <1>2, <1>3, TailFacts
<1>5. PICK event : event = [a \in DOMAIN caches |-> EventFor(a, st)]
    OBVIOUS
<1>6. PICK final : final = {a \in DOMAIN caches : event[a] \in Ended \cup {"rejected"}}
    OBVIOUS
<1>7. /\ outcome' = [a \in Actions |-> IF a \in final THEN event[a] ELSE outcome[a]]
      /\ caches' = [a \in DOMAIN caches \ final |-> [caches[a] EXCEPT !.last = event[a]]]
    BY <1>1, <1>5, <1>6 DEF DispatchState
<1>8. \A a \in DOMAIN caches : event[a] \in Status \cup {"rejected"}
    BY <1>3, <1>4, <1>5, EventType DEF MasterTypes, State
<1>9. outcome' \in [Actions -> {"none", "rejected"} \cup Ended]
    BY <1>3, <1>6, <1>7 DEF MasterTypes
<1>10. ASSUME NEW a \in DOMAIN caches'
       PROVE  caches'[a] \in Cache
    <2>1. a \in DOMAIN caches /\ event[a] \in {Absent, "RUNNING"}
        BY <1>6, <1>7, <1>8 DEF Status
    <2>2. PICK c \in Cache : c = caches[a]
        BY <1>3, <2>1 DEF MasterTypes
    <2>3. caches'[a] = [c EXCEPT !.last = event[a]]
        BY <1>7, <2>2
    <2> QED
        BY <2>1, <2>2, <2>3 DEF Cache
<1>11. caches' \in [DOMAIN caches' -> Cache] /\ DOMAIN caches' \subseteq Actions
    BY <1>3, <1>7, <1>10 DEF MasterTypes
<1>12. refErrors' \in Seq(Int)
    BY <1>2, <1>3, <1>4, UpdateFacts DEF MasterTypes, State
<1>13. MasterTypes'
    BY <1>2, <1>3, <1>9, <1>11, <1>12 DEF MasterTypes
<1>14. AgvTypes' /\ Told'
    BY <1>2, <1>3 DEF agvVars, stateVars, AgvTypes, Told, TellsOf
<1> QED
    BY <1>2, <1>3, <1>4, <1>13, <1>14 DEF Types

LEMMA InitTypes ==
    ASSUME StatePublicationAssumption, Init
    PROVE  Types /\ Told
<1>1. MasterTypes
    BY DEF Init, MasterTypes, NoAction
<1>2. AgvTypes
    <2>1. status \in [Actions -> Status] /\ fate \in [Actions -> Fate] /\ counts = NoAction
          /\ \A a \in Actions : status[a] = Absent
        BY DEF Init, Status, Fate
    <2>2. DOMAIN counts = {a \in Actions : status[a] # Absent}
          /\ counts \in [DOMAIN counts -> 0 .. PublishCount - 1]
        BY <2>1 DEF NoAction
    <2> QED
        BY <2>1, <2>2 DEF Init, AgvTypes
<1>3. Told
    BY DEF Init, Told
<1> QED
    BY <1>1, <1>2, <1>3 DEF Init, Types

LEMMA NextTypes ==
    ASSUME StatePublicationAssumption, Types, Told, [Next]_vars
    PROVE  Types' /\ Told'
<1>1. CASE \E m \in Messages : InitiateInstantActions(m) \/ Published(m) \/ PublishFails(m)
    BY <1>1, MasterStepTypes
<1>2. CASE ReceiveInstantActions
    BY <1>2, ReceiveTypes
<1>3. CASE LoseInstantActions \/ ConnectionBreaks \/ Reconnect
    BY <1>3, ConnectionTypes
<1>4. CASE CheckInstantAction
    BY <1>4, CheckTypes
<1>5. CASE \E a \in Actions : StartAction(a) \/ \E s \in Ended : EndAction(a, s)
    BY <1>5, StartTypes, EndTypes
<1>6. CASE PublishCompletes \/ PublishPeriodically
    BY <1>6, CompleteTypes, PeriodicTypes
<1>7. CASE UpdateErrors \/ AcceptOrder
    BY <1>7, UpdateTypes, AcceptTypes
<1>8. CASE DispatchState
    BY <1>8, DispatchTypes
<1>9. CASE UNCHANGED vars
    BY <1>9 DEF vars, masterVars, stateVars, agvVars, Types, MasterTypes, AgvTypes, Told, TellsOf
<1> QED
    BY <1>1, <1>2, <1>3, <1>4, <1>5, <1>6, <1>7, <1>8, <1>9 DEF Next

(* Types, and what was told, hold always: no hypothesis on what is sent.   *)
THEOREM TypesHold == Spec => [](Types /\ Told)
<1>1. Init => Types /\ Told
    BY InitTypes, StatePublicationAssumption
<1>2. Types /\ Told /\ [Next]_vars => (Types /\ Told)'
    BY NextTypes, StatePublicationAssumption
<1> QED
    BY <1>1, <1>2, PTL DEF Spec

(* Whatever is sent, lost, checked and answered: both sides keep values of *)
(* their types, and the counts of publications stay below their limit.     *)
THEOREM TypeCorrect == Spec => []TypeOK
<1>1. Types => TypeOK
    BY DEF Types, MasterTypes, AgvTypes, TypeOK, Cache, Status
<1> QED
    BY <1>1, TypesHold, PTL

(* No end and no rejection is removed from the state before a State        *)
(* message has told it, with any number of messages, broken connections,   *)
(* orders and updates of errors (_publishCurrentState,                     *)
(* _cleanupInstantActionStates, _acceptOrder).                             *)
THEOREM ToldBeforeRemovedHolds == Spec => []ToldBeforeRemoved
<1>1. Told => ToldBeforeRemoved
    BY DEF Told, ToldBeforeRemoved
<1> QED
    BY <1>1, TypesHold, PTL

-----------------------------------------------------------------------------
(* Statements that are true remain so *)

(* What has become of an action is final.                                  *)
Later(f, g) ==
    \A a \in Actions :
      /\ f[a] \in {"ended", "rejected"} => g[a] = f[a]
      /\ f[a] = "executing" => g[a] \in {"executing", "ended"}

LEMMA TrueLater ==
    ASSUME StatePublicationAssumption, NEW f, NEW g, Later(f, g), NEW W, NEW X, X \subseteq W,
           NEW st, NEW es, IsTrue(f, W, st, es)
    PROVE  IsTrue(g, X, st, es)
<1>1. \A m \in Messages : \A a \in Range(Msg[m]) : a \in Actions
    BY MessageFacts
<1>2. \A m \in Invalid : m \in Messages
    BY DEF StatePublicationAssumption
<1> QED
    BY <1>1, <1>2 DEF IsTrue, Later

(* Less is true, too.                                                      *)
LEMMA TrueWithin ==
    ASSUME NEW f, NEW W, NEW st, NEW es, IsTrue(f, W, st, es), NEW su, NEW fs,
           \A a \in Actions : su[a] = st[a] \/ su[a] = Absent, Within(fs, es)
    PROVE  IsTrue(f, W, su, fs)
<1>1. PICK g : \A i \in DOMAIN fs : g[i] \in DOMAIN es /\ es[g[i]] = fs[i]
    BY DEF Within
<1>2. \A a \in Actions : su[a] # Absent => su[a] = st[a]
    OBVIOUS
<1>3. \A a \in Actions : su[a] # Absent => f[a] \in {"executing", "ended"}
    BY <1>2 DEF IsTrue
<1>4. \A a \in Actions : su[a] \in Ended => f[a] = "ended"
    BY <1>2 DEF IsTrue, Ended, Absent
<1>5. ASSUME NEW i \in DOMAIN fs
      PROVE  /\ fs[i] \in Actions => f[fs[i]] \in {"ended", "rejected"} /\ fs[i] \notin InvalidActions
             /\ fs[i] \in Messages =>
                  fs[i] \in Invalid \ W /\ \A a \in Range(Msg[fs[i]]) : f[a] = "rejected"
    <2>1. PICK j \in DOMAIN es : es[j] = fs[i]
        BY <1>1
    <2> QED
        BY <2>1 DEF IsTrue
<1> QED
    BY <1>3, <1>4, <1>5 DEF IsTrue

LEMMA KnownLater ==
    ASSUME NEW C, NEW D, D \subseteq C, NEW ss \in Seq(State), NEW e \in State, NEW a, NEW n \in Nat,
           Known(C, ss, a, n)
    PROVE  Known(D, ss, a, n) /\ Known(D, Append(ss, e), a, n) /\ Known(D, Append(ss, e), a, n + 1)
<1>1. PICK us : us = Append(ss, e)
    OBVIOUS
<1>2. /\ DOMAIN ss = 1 .. Len(ss) /\ DOMAIN us = 1 .. Len(ss) + 1 /\ Len(ss) \in Nat
      /\ \A i \in 1 .. Len(ss) : us[i] = ss[i]
    BY <1>1, AppendFacts
<1>3. \A i \in DOMAIN ss : i \in DOMAIN us /\ us[i] = ss[i]
    BY <1>2
<1>4. 1 .. n \subseteq 1 .. n + 1
    OBVIOUS
<1>5. Known(D, ss, a, n) /\ Known(D, us, a, n) /\ Known(D, us, a, n + 1)
    BY <1>3, <1>4, Zenon DEF Known
<1> QED
    BY <1>1, <1>5

(* The next State message to come is e, or there is none.                  *)
Follows(ss, us, e) == us = ss \/ us = Append(ss, e)

(* What has become of actions changes from f to g, and their states from   *)
(* st to those of e, which may be published: an action that ends has its   *)
(* status, which is published unless the AGV is offline (before: on, after:*)
(* pn); then it is when the AGV is online again.                           *)
Reports(f, g, on, pn, st, e, ss, us) ==
    /\ Later(f, g) /\ Follows(ss, us, e)
    /\ \A a \in Actions : g[a] = "ended" /\ f[a] # "ended" =>
         e.status[a] \in Ended /\ (pn => us = Append(ss, e))
    /\ ~ on => /\ \A a \in Actions : f[a] = "ended" =>
                    e.status[a] = st[a] /\ st[a] \in Ended \cup {Absent}
               /\ pn => us = Append(ss, e)

(* Truth is kept in such steps.                                            *)
LEMMA TruthLater ==
    ASSUME StatePublicationAssumption, NEW f, NEW g, NEW W, NEW X, X \subseteq W,
           NEW C, NEW D, D \subseteq C, NEW on, NEW pn, NEW st, NEW es, NEW ss \in Seq(State),
           AllTrue(f, W, st, es, ss), StatusFirst(f, C, ss), EndsKnown(f, C, on, st, ss),
           NEW e \in State, NEW us, IsTrue(g, X, e.status, e.errors),
           Reports(f, g, on, pn, st, e, ss, us)
    PROVE  /\ AllTrue(g, X, e.status, e.errors, us)
           /\ StatusFirst(g, D, us)
           /\ EndsKnown(g, D, pn, e.status, us)
<1>0. /\ Later(f, g) /\ Follows(ss, us, e)
      /\ \A a \in Actions : g[a] = "ended" /\ f[a] # "ended" =>
           e.status[a] \in Ended /\ (pn => us = Append(ss, e))
      /\ ~ on => /\ \A a \in Actions : f[a] = "ended" =>
                      e.status[a] = st[a] /\ st[a] \in Ended \cup {Absent}
                 /\ pn => us = Append(ss, e)
    BY DEF Reports
<1>1. PICK vs : vs = Append(ss, e)
    OBVIOUS
<1>2. /\ DOMAIN ss = 1 .. Len(ss) /\ DOMAIN vs = 1 .. Len(ss) + 1 /\ Len(ss) \in Nat
      /\ Len(vs) = Len(ss) + 1
      /\ \A i \in 1 .. Len(ss) : vs[i] = ss[i]
      /\ vs[Len(ss) + 1] = e /\ vs \in Seq(State)
    BY <1>1, AppendFacts
<1>3. us = ss \/ us = vs
    BY <1>0, <1>1 DEF Follows
<1>4. ASSUME NEW k \in DOMAIN us
      PROVE  \/ k \in DOMAIN ss /\ us[k] = ss[k]
             \/ k = Len(ss) + 1 /\ us = vs /\ us[k] = e
    <2>1. CASE us = ss
        BY <2>1
    <2>2. CASE us = vs
        <3>1. k \in 1 .. Len(ss) \/ k = Len(ss) + 1
            BY <1>2, <2>2
        <3> QED
            BY <1>2, <2>2, <3>1
    <2> QED
        BY <1>3, <2>1, <2>2
<1>5. \A k \in DOMAIN ss : IsTrue(g, X, ss[k].status, ss[k].errors)
    BY <1>0, TrueLater DEF AllTrue
<1>6. AllTrue(g, X, e.status, e.errors, us)
    BY <1>4, <1>5, Zenon DEF AllTrue
<1>7. \A a : \A n \in Nat : Known(C, ss, a, n) =>
        Known(D, ss, a, n) /\ Known(D, vs, a, n) /\ Known(D, vs, a, n + 1)
    BY <1>1, KnownLater
<1>8. ASSUME NEW a \in Actions, f[a] = "ended", on \/ e.status[a] = Absent
      PROVE  Known(C, ss, a, Len(ss))
    <2>1. on \/ st[a] = Absent
        BY <1>0, <1>8
    <2> QED
        BY <1>8, <2>1 DEF EndsKnown
<1>9. ASSUME NEW k \in DOMAIN us, NEW a \in Actions, g[a] = "ended", us[k].status[a] = Absent,
             NEW i \in DOMAIN us[k].errors, us[k].errors[i] = a
      PROVE  Known(D, us, a, k - 1)
    <2>1. CASE k \in DOMAIN ss /\ us[k] = ss[k]
        <3>1. IsTrue(f, W, ss[k].status, ss[k].errors)
            BY <2>1 DEF AllTrue
        <3>2. f[a] \in {"ended", "rejected"}
            BY <1>9, <2>1, <3>1 DEF IsTrue
        <3>3. f[a] = "ended"
            BY <1>0, <1>9, <3>2 DEF Later
        <3>4. Known(C, ss, a, k - 1)
            BY <1>9, <2>1, <3>3 DEF StatusFirst
        <3>5. k - 1 \in Nat
            BY <1>2, <2>1
        <3> QED
            BY <1>3, <1>7, <3>4, <3>5
    <2>2. CASE k = Len(ss) + 1 /\ us = vs /\ us[k] = e
        <3>1. e.status[a] = Absent /\ e.status[a] \notin Ended
            BY <1>9, <2>2 DEF Absent, Ended
        <3>2. f[a] = "ended"
            BY <1>0, <1>9, <3>1
        <3>3. Known(C, ss, a, Len(ss))
            BY <1>8, <3>1, <3>2
        <3>4. k - 1 = Len(ss)
            BY <1>2, <2>2
        <3> QED
            BY <1>2, <1>7, <2>2, <3>3, <3>4
    <2> QED
        BY <1>4, <2>1, <2>2
<1>10. StatusFirst(g, D, us)
    BY <1>9 DEF StatusFirst
<1>11. ASSUME NEW a \in Actions, g[a] = "ended", pn \/ e.status[a] = Absent
       PROVE  Known(D, us, a, Len(us))
    <2>1. ASSUME us = vs, e.status[a] \in Ended
          PROVE  Known(D, us, a, Len(us))
        <3>1. Len(us) \in 1 .. Len(us) /\ Len(us) \in DOMAIN us /\ us[Len(us)] = e
            BY <1>2, <2>1
        <3> QED
            BY <2>1, <3>1 DEF Known
    <2>2. CASE f[a] # "ended"
        <3>1. e.status[a] \in Ended /\ pn
            BY <1>0, <1>11, <2>2 DEF Ended, Absent
        <3> QED
            BY <1>0, <1>1, <1>11, <2>1, <2>2, <3>1
    <2>3. CASE f[a] = "ended" /\ (on \/ e.status[a] = Absent)
        <3>1. Known(C, ss, a, Len(ss))
            BY <1>8, <2>3
        <3>2. Known(D, ss, a, Len(ss)) /\ Known(D, vs, a, Len(vs))
            BY <1>2, <1>7, <3>1
        <3> QED
            BY <1>3, <3>2
    <2>4. CASE f[a] = "ended" /\ ~ on /\ e.status[a] # Absent
        <3>1. e.status[a] \in Ended /\ pn /\ us = vs
            BY <1>0, <1>1, <1>11, <2>4
        <3> QED
            BY <2>1, <3>1
    <2> QED
        BY <2>2, <2>3, <2>4
<1>12. EndsKnown(g, D, pn, e.status, us)
    BY <1>11 DEF EndsKnown
<1> QED
    BY <1>6, <1>10, <1>12

(* So is it when the next State message is dispatched, which removes the   *)
(* actions that ended from those under way.                                *)
LEMMA TruthNext ==
    ASSUME NEW f, NEW W, NEW C, NEW D, D \subseteq C, NEW on, NEW st, NEW es,
           NEW ss \in Seq(State), ss # << >>,
           AllTrue(f, W, st, es, ss), StatusFirst(f, C, ss), EndsKnown(f, C, on, st, ss),
           \A a \in C : Head(ss).status[a] \in Ended => a \notin D
    PROVE  /\ AllTrue(f, W, st, es, Tail(ss))
           /\ StatusFirst(f, D, Tail(ss))
           /\ EndsKnown(f, D, on, st, Tail(ss))
<1>1. PICK us : us = Tail(ss)
    OBVIOUS
<1>2. /\ us \in Seq(State) /\ Len(ss) \in Nat \ {0} /\ Len(us) = Len(ss) - 1
      /\ DOMAIN ss = 1 .. Len(ss) /\ DOMAIN us = 1 .. Len(ss) - 1
      /\ \A i \in 1 .. Len(ss) - 1 : us[i] = ss[i + 1]
      /\ Head(ss) = ss[1]
    BY <1>1, TailFacts
<1>3. \A k \in DOMAIN us : k + 1 \in DOMAIN ss /\ us[k] = ss[k + 1] /\ k \in Nat /\ (k + 1) - 1 = k
    BY <1>2
<1>4. ASSUME NEW a, NEW n \in Nat, Known(C, ss, a, n + 1)
      PROVE  Known(D, us, a, n)
    <2>1. CASE a \notin C
        BY <2>1 DEF Known
    <2>2. CASE a \in C
        <3>1. PICK i \in 1 .. n + 1 : i \in DOMAIN ss /\ ss[i].status[a] \in Ended
            BY <1>4, <2>2 DEF Known
        <3>2. CASE i = 1
            <4>1. a \notin D
                BY <1>2, <2>2, <3>1, <3>2
            <4> QED
                BY <4>1 DEF Known
        <3>3. CASE i # 1
            <4>1. i - 1 \in 1 .. n /\ i - 1 \in DOMAIN us /\ us[i - 1] = ss[i]
                BY <1>2, <3>1, <3>3
            <4> QED
                BY <3>1, <4>1 DEF Known
        <3> QED
            BY <3>2, <3>3
    <2> QED
        BY <2>1, <2>2
<1>5. AllTrue(f, W, st, es, us)
    BY <1>3 DEF AllTrue
<1>6. ASSUME NEW k \in DOMAIN us, NEW a \in Actions, f[a] = "ended", us[k].status[a] = Absent,
             NEW i \in DOMAIN us[k].errors, us[k].errors[i] = a
      PROVE  Known(D, us, a, k - 1)
    <2>1. Known(C, ss, a, k)
        BY <1>3, <1>6 DEF StatusFirst
    <2>2. k - 1 \in Nat /\ (k - 1) + 1 = k
        BY <1>2
    <2> QED
        BY <1>4, <2>1, <2>2
<1>7. StatusFirst(f, D, us)
    BY <1>6 DEF StatusFirst
<1>8. ASSUME NEW a \in Actions, f[a] = "ended", on \/ st[a] = Absent
      PROVE  Known(D, us, a, Len(us))
    <2>1. Known(C, ss, a, Len(ss))
        BY <1>8 DEF EndsKnown
    <2>2. Len(us) \in Nat /\ Len(us) + 1 = Len(ss)
        BY <1>2
    <2> QED
        BY <1>4, <2>1, <2>2
<1>9. EndsKnown(f, D, on, st, us)
    BY <1>8 DEF EndsKnown
<1> QED
    BY <1>1, <1>5, <1>7, <1>9

(* Levels before and after a State message is added, or dispatched.        *)
LEMMA LevelFacts ==
    ASSUME NEW n \in Nat, NEW ss \in Seq(State)
    PROVE  /\ \A k \in 0 .. Len(ss) : Level(n, ss, k) \in Nat
           /\ \A e \in State :
                /\ \A k \in 0 .. Len(ss) : Level(n, Append(ss, e), k) = Level(n, ss, k)
                /\ Level(n, Append(ss, e), Len(ss) + 1) = ValidationErrors(e.errors)
           /\ ss # << >> =>
                \A k \in 0 .. Len(ss) - 1 : Level(Level(n, ss, 1), Tail(ss), k) = Level(n, ss, k + 1)
<1>1. /\ DOMAIN ss = 1 .. Len(ss) /\ Len(ss) \in Nat
      /\ \A k \in 1 .. Len(ss) : ss[k] \in State
    BY ElementFacts
<1>2. ASSUME NEW k \in 0 .. Len(ss)
      PROVE  Level(n, ss, k) \in Nat
    <2>1. CASE k = 0
        BY <2>1 DEF Level
    <2>2. CASE k # 0
        <3>1. ss[k] \in State
            BY <1>1, <2>2
        <3>2. ValidationErrors(ss[k].errors) \in Nat
            BY <3>1, CountFacts DEF State
        <3> QED
            BY <2>2, <3>2 DEF Level
    <2> QED
        BY <2>1, <2>2
<1>3. ASSUME NEW e \in State
      PROVE  /\ \A k \in 0 .. Len(ss) : Level(n, Append(ss, e), k) = Level(n, ss, k)
             /\ Level(n, Append(ss, e), Len(ss) + 1) = ValidationErrors(e.errors)
    <2>1. PICK us : us = Append(ss, e)
        OBVIOUS
    <2>2. \A k \in 1 .. Len(ss) : us[k] = ss[k]
        BY <2>1, AppendFacts
    <2>3. us[Len(ss) + 1] = e
        BY <2>1, AppendFacts
    <2>4. \A k \in 0 .. Len(ss) : k # 0 => us[k] = ss[k]
        BY <1>1, <2>2
    <2>5. \A k \in 0 .. Len(ss) : Level(n, us, k) = Level(n, ss, k)
        BY <2>4, Zenon DEF Level
    <2>6. Len(ss) + 1 # 0
        BY <1>1
    <2>7. Level(n, us, Len(ss) + 1) = ValidationErrors(e.errors)
        BY <2>3, <2>6, Zenon DEF Level
    <2> QED
        BY <2>1, <2>5, <2>7
<1>4. ASSUME ss # << >>, NEW k \in 0 .. Len(ss) - 1
      PROVE  Level(Level(n, ss, 1), Tail(ss), k) = Level(n, ss, k + 1)
    <2>1. PICK us : us = Tail(ss)
        OBVIOUS
    <2>2. /\ Len(ss) \in Nat \ {0}
          /\ \A i \in 1 .. Len(ss) - 1 : us[i] = ss[i + 1]
        BY <1>4, <2>1, TailFacts
    <2>3. CASE k = 0
        BY <2>3 DEF Level
    <2>4. CASE k # 0
        <3>1. us[k] = ss[k + 1] /\ k + 1 # 0
            BY <2>2, <2>4
        <3>3. Level(Level(n, ss, 1), us, k) = ValidationErrors(us[k].errors)
              /\ Level(n, ss, k + 1) = ValidationErrors(ss[k + 1].errors)
            BY <2>4, <3>1, Zenon DEF Level
        <3> QED
            BY <2>1, <3>1, <3>3
    <2> QED
        BY <2>1, <2>3, <2>4
<1> QED
    BY <1>2, <1>3, <1>4

(* Rises, of the levels L of N State messages.                             *)
Climbs(L, N, v, b) ==
    /\ v <= L[N]
    /\ \A k \in 1 .. N : L[k] <= L[k - 1] \/ (b /\ L[k] = L[k - 1] + 1)
    /\ \A k, l \in 1 .. N : L[k] > L[k - 1] /\ L[l] > L[l - 1] => k = l

LEMMA RisesClimbs ==
    ASSUME NEW n, NEW ss, NEW v, NEW b, Len(ss) \in Nat, NEW L,
           \A k \in 0 .. Len(ss) : L[k] = Level(n, ss, k)
    PROVE  Rises(n, ss, v, b) <=> Climbs(L, Len(ss), v, b)
<1>1. Len(ss) \in 0 .. Len(ss)
    OBVIOUS
<1>2. \A k \in 1 .. Len(ss) : k \in 0 .. Len(ss) /\ k - 1 \in 0 .. Len(ss)
    OBVIOUS
<1>3. L[Len(ss)] = Level(n, ss, Len(ss))
    BY <1>1
<1>4. \A k \in 1 .. Len(ss) : L[k] = Level(n, ss, k) /\ L[k - 1] = Level(n, ss, k - 1)
    BY <1>2
<1>5. (v <= Level(n, ss, Len(ss))) <=> v <= L[Len(ss)]
    BY <1>3
<1>6. (\A k \in 1 .. Len(ss) : \/ Level(n, ss, k) <= Level(n, ss, k - 1)
                               \/ b /\ Level(n, ss, k) = Level(n, ss, k - 1) + 1)
      <=> \A k \in 1 .. Len(ss) : L[k] <= L[k - 1] \/ (b /\ L[k] = L[k - 1] + 1)
    BY <1>4
<1>7. (\A k, l \in 1 .. Len(ss) :
         Level(n, ss, k) > Level(n, ss, k - 1) /\ Level(n, ss, l) > Level(n, ss, l - 1) => k = l)
      <=> \A k, l \in 1 .. Len(ss) : L[k] > L[k - 1] /\ L[l] > L[l - 1] => k = l
    BY <1>4
<1> QED
    BY <1>5, <1>6, <1>7 DEF Rises, Climbs

(* M are the levels L of N State messages, and w of one more.              *)
OneMore(L, M, N, w) == /\ \A k \in 0 .. N : L[k] \in Nat /\ M[k] = L[k]
                       /\ M[N + 1] = w

LEMMA ClimbsAppend ==
    ASSUME NEW N \in Nat, NEW L, NEW v \in Nat, NEW b, Climbs(L, N, v, b),
           NEW M, NEW w \in Nat, OneMore(L, M, N, w), NEW c, b => c,
           w <= v \/ (~ b /\ c /\ w = v + 1)
    PROVE  Climbs(M, N + 1, w, c)
<1>0. \A k \in 0 .. N : L[k] \in Nat /\ M[k] = L[k]
    BY DEF OneMore
<1>8. M[N + 1] = w
    BY DEF OneMore
<1>1. ASSUME NEW k \in 1 .. N + 1
      PROVE  k = N + 1 \/ (k \in 1 .. N /\ M[k] = L[k] /\ M[k - 1] = L[k - 1])
    BY <1>0
<1>2. M[N] = L[N] /\ L[N] \in Nat /\ v <= L[N]
    BY <1>0 DEF Climbs
<1>3. \A k \in 1 .. N : L[k] <= L[k - 1] \/ (b /\ L[k] = L[k - 1] + 1)
    BY DEF Climbs
<1>4. \A k \in 1 .. N : L[k] \in Nat /\ L[k - 1] \in Nat
    BY <1>0
<1>5. ASSUME NEW k \in 1 .. N + 1
      PROVE  M[k] <= M[k - 1] \/ (c /\ M[k] = M[k - 1] + 1)
    <2>1. CASE k = N + 1
        BY <1>2, <1>8, <2>1
    <2>2. CASE k # N + 1
        BY <1>1, <1>3, <2>2
    <2> QED
        BY <2>1, <2>2
<1>6. ASSUME NEW k \in 1 .. N + 1, NEW l \in 1 .. N + 1, M[k] > M[k - 1], M[l] > M[l - 1]
      PROVE  k = l
    <2>1. CASE w <= v
        <3>1. ~ (M[N + 1] > M[(N + 1) - 1])
            BY <1>2, <1>8, <2>1
        <3>2. k # N + 1 /\ l # N + 1
            BY <1>6, <3>1
        <3>3. k \in 1 .. N /\ l \in 1 .. N /\ L[k] > L[k - 1] /\ L[l] > L[l - 1]
            BY <1>1, <1>6, <3>2
        <3> QED
            BY <3>3 DEF Climbs
    <2>2. CASE ~ b
        <3>1. \A j \in 1 .. N : ~ (L[j] > L[j - 1])
            BY <1>3, <1>4, <2>2
        <3>2. k = N + 1
            BY <1>1, <1>6, <3>1
        <3>3. l = N + 1
            BY <1>1, <1>6, <3>1
        <3> QED
            BY <3>2, <3>3
    <2> QED
        BY <2>1, <2>2
<1>7. w <= M[N + 1]
    BY <1>8
<1> QED
    BY <1>5, <1>6, <1>7 DEF Climbs

(* The state and its errors change, and a State message may be added.      *)
MayRise(v, w, b, c, ss, us, e) ==
    /\ b => c
    /\ w <= v \/ (~ b /\ c /\ us = Append(ss, e) /\ w = v + 1)

LEMMA RisesLater ==
    ASSUME NEW n \in Nat, NEW ss \in Seq(State), NEW v \in Nat, NEW b, Rises(n, ss, v, b),
           NEW e \in State, NEW us, Follows(ss, us, e), NEW c,
           MayRise(v, ValidationErrors(e.errors), b, c, ss, us, e)
    PROVE  Rises(n, us, ValidationErrors(e.errors), c)
<1>0. /\ b => c
      /\ \/ ValidationErrors(e.errors) <= v
         \/ ~ b /\ c /\ us = Append(ss, e) /\ ValidationErrors(e.errors) = v + 1
    BY DEF MayRise
<1>1. PICK L : L = [k \in 0 .. Len(ss) |-> Level(n, ss, k)]
    OBVIOUS
<1>2. Len(ss) \in Nat /\ \A k \in 0 .. Len(ss) : L[k] \in Nat /\ L[k] = Level(n, ss, k)
    BY <1>1, LevelFacts
<1>3. PICK w \in Nat : w = ValidationErrors(e.errors)
    BY CountFacts DEF State
<1>4. Climbs(L, Len(ss), v, b)
    BY <1>2, RisesClimbs
<1>5. ASSUME us = ss, w <= v
      PROVE  Rises(n, us, w, c)
    <2>1. w <= L[Len(ss)]
        BY <1>2, <1>4, <1>5 DEF Climbs
    <2>2. Climbs(L, Len(ss), w, c)
        BY <1>0, <1>4, <2>1 DEF Climbs
    <2> QED
        BY <1>2, <1>5, <2>2, RisesClimbs
<1>6. ASSUME us = Append(ss, e)
      PROVE  Rises(n, us, w, c)
    <2>1. Len(us) = Len(ss) + 1
        BY <1>6, AppendFacts
    <2>2. PICK M : M = [k \in 0 .. Len(us) |-> Level(n, us, k)]
        OBVIOUS
    <2>3. \A k \in 0 .. Len(us) : M[k] = Level(n, us, k)
        BY <2>2
    <2>4. \A k \in 0 .. Len(ss) : Level(n, us, k) = Level(n, ss, k)
        BY <1>6, LevelFacts
    <2>5. Level(n, us, Len(ss) + 1) = w
        BY <1>3, <1>6, LevelFacts
    <2>6. \A k \in 0 .. Len(ss) : M[k] = L[k]
        BY <1>2, <2>1, <2>3, <2>4
    <2>7. M[Len(ss) + 1] = w
        BY <1>2, <2>1, <2>3, <2>5
    <2>8. Climbs(M, Len(ss) + 1, w, c)
        <3>1. (w <= v \/ (~ b /\ c /\ w = v + 1)) /\ (b => c)
            BY <1>0, <1>3
        <3>2. OneMore(L, M, Len(ss), w)
            BY <1>2, <2>6, <2>7 DEF OneMore
        <3> QED
            BY <1>2, <1>4, <3>1, <3>2, ClimbsAppend
    <2> QED
        BY <1>2, <2>1, <2>3, <2>8, RisesClimbs
<1>7. us = ss => w <= v
    <2>1. Append(ss, e) # ss
        BY <1>2, AppendFacts
    <2> QED
        BY <1>0, <1>3, <2>1
<1> QED
    BY <1>0, <1>3, <1>5, <1>6, <1>7 DEF Follows

(* The next State message is dispatched.  Where the levels rise is at it,  *)
(* or still to come.                                                       *)
LEMMA RisesNext ==
    ASSUME NEW n \in Nat, NEW ss \in Seq(State), ss # << >>, NEW v \in Nat, NEW b, Rises(n, ss, v, b),
           NEW c, b => c \/ Level(n, ss, 1) > n
    PROVE  Rises(Level(n, ss, 1), Tail(ss), v, c)
<1>1. PICK us : us = Tail(ss)
    OBVIOUS
<1>2. PICK L : L = [k \in 0 .. Len(ss) |-> Level(n, ss, k)]
    OBVIOUS
<1>3. /\ Len(ss) \in Nat \ {0} /\ Len(us) = Len(ss) - 1
      /\ \A k \in 0 .. Len(ss) : L[k] \in Nat /\ L[k] = Level(n, ss, k)
    BY <1>1, <1>2, LevelFacts, TailFacts
<1>4. Climbs(L, Len(ss), v, b) /\ L[0] = n /\ L[1] = Level(n, ss, 1)
    <2>1. Climbs(L, Len(ss), v, b)
        BY <1>3, RisesClimbs
    <2>2. L[0] = Level(n, ss, 0) /\ L[1] = Level(n, ss, 1)
        BY <1>3
    <2> QED
        BY <2>1, <2>2 DEF Level
<1>5. PICK M : M = [k \in 0 .. Len(us) |-> L[k + 1]]
    OBVIOUS
<1>6. PICK N \in Nat : N = Len(us) /\ Len(ss) = N + 1
    BY <1>3
<1>7. \A k \in 0 .. N : M[k] = L[k + 1] /\ k + 1 \in 0 .. Len(ss)
    BY <1>5, <1>6
<1>8. \A k \in 0 .. N : M[k] = Level(Level(n, ss, 1), us, k)
    <2>1. \A k \in 0 .. N : Level(Level(n, ss, 1), us, k) = Level(n, ss, k + 1)
        BY <1>1, <1>6, LevelFacts
    <2> QED
        BY <1>3, <1>7, <2>1
<1>9. Climbs(M, N, v, c)
    <2>1. v <= M[N]
        BY <1>4, <1>6, <1>7 DEF Climbs
    <2>2. \A k \in 1 .. N : M[k] = L[k + 1] /\ M[k - 1] = L[k] /\ k + 1 \in 1 .. Len(ss) /\ (k + 1) - 1 = k
        BY <1>6, <1>7
    <2>3. ASSUME NEW k \in 1 .. N
          PROVE  M[k] <= M[k - 1] \/ (c /\ M[k] = M[k - 1] + 1)
        <3>1. L[k + 1] <= L[k] \/ (b /\ L[k + 1] = L[k] + 1)
            BY <1>4, <2>2 DEF Climbs
        <3>2. CASE c
            BY <2>2, <3>1, <3>2
        <3>3. CASE ~ c
            <4>1. ASSUME b
                  PROVE  ~ (L[k + 1] > L[k])
                <5>1. L[1] > L[0] /\ 1 \in 1 .. Len(ss) /\ 1 - 1 = 0
                    BY <1>3, <1>4, <3>3, <4>1
                <5>2. L[k + 1] > L[(k + 1) - 1] => k + 1 = 1
                    BY <1>4, <2>2, <5>1 DEF Climbs
                <5> QED
                    BY <2>2, <5>2
            <4>2. L[k] \in Nat /\ L[k + 1] \in Nat
                BY <1>3, <1>6
            <4> QED
                BY <2>2, <3>1, <4>1, <4>2
        <3> QED
            BY <3>2, <3>3
    <2>4. ASSUME NEW k \in 1 .. N, NEW l \in 1 .. N, M[k] > M[k - 1], M[l] > M[l - 1]
          PROVE  k = l
        <3>1. L[k + 1] > L[(k + 1) - 1] /\ L[l + 1] > L[(l + 1) - 1]
            BY <2>2, <2>4
        <3>2. k + 1 = l + 1
            BY <1>4, <2>2, <3>1 DEF Climbs
        <3> QED
            BY <3>2
    <2> QED
        BY <2>1, <2>3, <2>4 DEF Climbs
<1>10. Rises(Level(n, ss, 1), us, v, c)
    BY <1>6, <1>8, <1>9, RisesClimbs
<1> QED
    BY <1>1, <1>10

-----------------------------------------------------------------------------
(* Steps of the AGV *)

(* What is no longer on its way does not wait any more.                    *)
LEMMA WaitingFacts ==
    ASSUME Types, Journey, UNCHANGED masterVars,
           toAgv' = toAgv \/ (toAgv # << >> /\ toAgv' = Tail(toAgv))
    PROVE  /\ Waiting' \subseteq Waiting /\ Range(toAgv') \subseteq Range(toAgv)
           /\ \A i, j \in DOMAIN toAgv' : toAgv'[i] = toAgv'[j] => i = j
           /\ toAgv' # toAgv => /\ Head(toAgv) \in Range(toAgv) /\ Head(toAgv) \in Messages
                                /\ Head(toAgv) \in initiated \ awaiting
                                /\ Head(toAgv) \notin Waiting'
<1>1. UNCHANGED << initiated, awaiting >>
    BY DEF masterVars
<1>2. CASE toAgv' = toAgv
    <2>1. Range(toAgv') = Range(toAgv)
        BY <1>2
    <2> QED
        BY <1>1, <1>2, <2>1 DEF Journey, Waiting
<1>3. CASE toAgv # << >> /\ toAgv' = Tail(toAgv)
    <2>1. PICK us : us = toAgv'
        OBVIOUS
    <2>2. /\ Len(toAgv) \in Nat \ {0}
          /\ DOMAIN toAgv = 1 .. Len(toAgv) /\ DOMAIN us = 1 .. Len(toAgv) - 1
          /\ \A i \in 1 .. Len(toAgv) - 1 : us[i] = toAgv[i + 1]
          /\ Head(toAgv) = toAgv[1] /\ toAgv[1] \in Messages
        BY <1>3, <2>1, TailFacts DEF Types
    <2>3. \A i \in DOMAIN us : i + 1 \in DOMAIN toAgv /\ us[i] = toAgv[i + 1] /\ i + 1 # 1 /\ i \in Nat
        BY <2>2
    <2>4. 1 \in DOMAIN toAgv
        BY <2>2
    <2>5. Range(us) \subseteq Range(toAgv)
        BY <2>3 DEF Range
    <2>6. ASSUME NEW i \in DOMAIN us, NEW j \in DOMAIN us, us[i] = us[j]
          PROVE  i = j
        <3>1. i + 1 = j + 1
            BY <2>3, <2>6 DEF Journey
        <3> QED
            BY <2>3, <3>1
    <2>7. Head(toAgv) \in initiated \ awaiting /\ Head(toAgv) \in Range(toAgv)
        BY <2>2, <2>4 DEF Journey, Range
    <2>8. Head(toAgv) \notin Range(us)
        <3>1. \A i \in DOMAIN us : us[i] # toAgv[1]
            BY <2>3, <2>4 DEF Journey
        <3> QED
            BY <2>2, <3>1 DEF Range
    <2>9. Waiting' = {m \in Messages : m \notin initiated \/ m \in awaiting \/ m \in Range(us)}
        BY <1>1, <2>1 DEF Waiting
    <2>10. Waiting' \subseteq Waiting /\ Head(toAgv) \notin Waiting'
        BY <2>5, <2>7, <2>8, <2>9 DEF Waiting
    <2> QED
        BY <2>1, <2>2, <2>5, <2>6, <2>7, <2>10
<1> QED
    BY <1>2, <1>3

LEMMA JourneyStep ==
    ASSUME StatePublicationAssumption, Types, Journey, UNCHANGED masterVars,
           toAgv' = toAgv \/ (toAgv # << >> /\ toAgv' = Tail(toAgv)),
           \A m \in Waiting' : \A a \in Range(Msg[m]) : fate'[a] = fate[a]
    PROVE  Journey'
<1>1. UNCHANGED << initiated, awaiting, caches, refOf >>
    BY DEF masterVars
<1>2. /\ Waiting' \subseteq Waiting /\ Range(toAgv') \subseteq Range(toAgv)
      /\ \A i, j \in DOMAIN toAgv' : toAgv'[i] = toAgv'[j] => i = j
    BY WaitingFacts
<1>3. \A i \in DOMAIN toAgv' : toAgv'[i] \in initiated \ awaiting
    <2>1. \A x \in Range(toAgv) : x \in initiated \ awaiting
        BY DEF Journey, Range
    <2>2. \A i \in DOMAIN toAgv' : toAgv'[i] \in Range(toAgv')
        BY DEF Range
    <2> QED
        BY <1>2, <2>1, <2>2
<1>4. \A m \in Waiting' : \A a \in Range(Msg[m]) : fate'[a] = "none"
    BY <1>2 DEF Journey
<1> QED
    BY <1>1, <1>2, <1>3, <1>4 DEF Journey

LEMMA TruthStep ==
    ASSUME StatePublicationAssumption, Types, Types', Told, Truth, UNCHANGED masterVars,
           Later(fate, fate'), Waiting' \subseteq Waiting,
           IsTrue(fate', Waiting', status', Subjects(errors')), Follows(states, states', View'),
           \A a \in Actions : fate'[a] = "ended" /\ fate[a] # "ended" =>
             status'[a] \in Ended /\ (online' => states' = Append(states, View')),
           ~ online => /\ \A a \in Actions : fate[a] = "ended" => status'[a] = status[a]
                       /\ online' => states' = Append(states, View')
    PROVE  Truth'
<1>1. PICK v \in State : v = View' /\ v.status = status' /\ v.errors = Subjects(errors')
    BY ViewTypeNext DEF Types
<1>2. DOMAIN caches' = DOMAIN caches
    BY DEF masterVars
<1>3. /\ AllTrue(fate, Waiting, status, Subjects(errors), states)
      /\ StatusFirst(fate, DOMAIN caches, states)
      /\ EndsKnown(fate, DOMAIN caches, online, status, states)
    BY DEF Truth
<1>4. \A a \in Actions : fate[a] = "ended" => status[a] \in Ended \cup {Absent}
    BY DEF Told, Types, AgvTypes, Status
<1>5. /\ AllTrue(fate', Waiting', v.status, v.errors, states')
      /\ StatusFirst(fate', DOMAIN caches, states')
      /\ EndsKnown(fate', DOMAIN caches, online', v.status, states')
    <2>1. PICK g, X, D, pn, us : /\ g = fate' /\ X = Waiting' /\ D = DOMAIN caches
                                 /\ pn = online' /\ us = states'
        OBVIOUS
    <2>2. states \in Seq(State) /\ IsTrue(g, X, v.status, v.errors)
          /\ X \subseteq Waiting /\ D \subseteq DOMAIN caches
        BY <1>1, <2>1 DEF Types
    <2>3. \A a \in Actions : g[a] = "ended" /\ fate[a] # "ended" =>
            v.status[a] \in Ended /\ (pn => us = Append(states, v))
        BY <1>1, <2>1
    <2>4. ~ online => /\ \A a \in Actions : fate[a] = "ended" =>
                           v.status[a] = status[a] /\ status[a] \in Ended \cup {Absent}
                      /\ pn => us = Append(states, v)
        BY <1>1, <1>4, <2>1
    <2>6. Reports(fate, g, online, pn, status, v, states, us)
        BY <1>1, <2>1, <2>3, <2>4 DEF Reports
    <2>5. /\ AllTrue(g, X, v.status, v.errors, us)
          /\ StatusFirst(g, D, us)
          /\ EndsKnown(g, D, pn, v.status, us)
        BY <1>3, <2>2, <2>6, TruthLater
    <2> QED
        BY <2>1, <2>5
<1> QED
    BY <1>1, <1>2, <1>5 DEF Truth

LEMMA ReferencesStep ==
    ASSUME StatePublicationAssumption, Types, Types', References, UNCHANGED masterVars,
           Later(fate, fate'), Waiting' \subseteq Waiting, Range(toAgv') \subseteq Range(toAgv),
           Follows(states, states', View'),
           \/ ValidationErrors(Subjects(errors')) <= ValidationErrors(Subjects(errors))
           \/ /\ ~ Telling /\ Telling' /\ states' = Append(states, View')
              /\ ValidationErrors(Subjects(errors')) = ValidationErrors(Subjects(errors)) + 1
    PROVE  References'
<1>1. UNCHANGED << initiated, awaiting, caches, ref, refOf, refErrors >>
    BY DEF masterVars
<1>2. \A m : Only(m)' <=> Only(m)
    BY <1>1 DEF Only
<1>3. Telling => Telling'
    <2>1. ASSUME NEW m \in Invalid, FoundInvalid(m)
          PROVE  FoundInvalid(m)'
        <3>1. \A a \in Range(Msg[m]) : a \in Actions
            BY MessageFacts DEF StatePublicationAssumption
        <3>2. \A a \in Range(Msg[m]) : fate'[a] = "rejected"
            BY <2>1, <3>1 DEF FoundInvalid, Later
        <3>3. m \notin Waiting' /\ Only(m)' /\ ref' = refOf'[m] /\ 0 < ref'
            BY <1>1, <1>2, <2>1 DEF FoundInvalid
        <3> QED
            BY <3>2, <3>3 DEF FoundInvalid
    <2> QED
        BY <2>1 DEF Telling
<1>4. PICK v \in State : v = View' /\ v.status = status' /\ v.errors = Subjects(errors')
    BY ViewTypeNext DEF Types
<1>5. PICK n \in Nat : n = Len(refErrors)
    BY ElementFacts DEF Types, MasterTypes
<1>6. PICK x \in Nat : x = ValidationErrors(Subjects(errors))
    BY CountFacts, SubjectFacts DEF Types, AgvTypes
<1>7. PICK c, us : c = Telling' /\ us = states'
    OBVIOUS
<1>8. Rises(n, us, ValidationErrors(v.errors), c)
    <2>1. Rises(n, states, x, Telling) /\ states \in Seq(State) /\ Follows(states, us, v)
        BY <1>4, <1>5, <1>6, <1>7 DEF References, Types
    <2>2. Telling => c
        BY <1>3, <1>7
    <2>3. MayRise(x, ValidationErrors(v.errors), Telling, c, states, us, v)
        BY <1>4, <1>6, <1>7, <2>2 DEF MayRise
    <2> QED
        BY <2>1, <2>3, RisesLater
<1>9. Rises(Len(refErrors'), states', ValidationErrors(Subjects(errors')), Telling')
    BY <1>1, <1>4, <1>5, <1>7, <1>8
<1> QED
    BY <1>1, <1>2, <1>9 DEF References, Issued

(* What every step of the AGV keeps.                                       *)
LEMMA AgvStep ==
    ASSUME StatePublicationAssumption, IInv, Types', Told', Checking', UNCHANGED masterVars,
           toAgv' = toAgv \/ (toAgv # << >> /\ toAgv' = Tail(toAgv)),
           Later(fate, fate'), \A m \in Waiting' : \A a \in Range(Msg[m]) : fate'[a] = fate[a],
           IsTrue(fate', Waiting', status', Subjects(errors')), Follows(states, states', View'),
           \A a \in Actions : fate'[a] = "ended" /\ fate[a] # "ended" =>
             status'[a] \in Ended /\ (online' => states' = Append(states, View')),
           ~ online => /\ \A a \in Actions : fate[a] = "ended" => status'[a] = status[a]
                       /\ online' => states' = Append(states, View'),
           \/ ValidationErrors(Subjects(errors')) <= ValidationErrors(Subjects(errors))
           \/ /\ ~ Telling /\ Telling' /\ states' = Append(states, View')
              /\ ValidationErrors(Subjects(errors')) = ValidationErrors(Subjects(errors)) + 1
    PROVE  IInv'
<1>1. Types /\ Told /\ Journey /\ Truth /\ References /\ EventsTrue
    BY DEF IInv
<1>2. Waiting' \subseteq Waiting /\ Range(toAgv') \subseteq Range(toAgv)
    BY <1>1, WaitingFacts
<1>3. Journey'
    BY <1>1, JourneyStep
<1>4. Truth'
    BY <1>1, <1>2, TruthStep
<1>5. References'
    BY <1>1, <1>2, ReferencesStep
<1>6. EventsTrue'
    <2>1. outcome' = outcome
        BY DEF masterVars
    <2> QED
        BY <1>1, <2>1 DEF EventsTrue, Later
<1> QED
    BY <1>3, <1>4, <1>5, <1>6 DEF IInv

LEMMA TrueAppend ==
    ASSUME NEW f, NEW W, NEW st, NEW es \in Seq(Subject), NEW x \in Subject, IsTrue(f, W, st, es),
           x \in Actions => f[x] \in {"ended", "rejected"} /\ x \notin InvalidActions,
           x \in Messages => x \in Invalid \ W /\ \A a \in Range(Msg[x]) : f[a] = "rejected"
    PROVE  IsTrue(f, W, st, Append(es, x))
<1>1. PICK fs : fs = Append(es, x)
    OBVIOUS
<1>2. /\ DOMAIN es = 1 .. Len(es) /\ DOMAIN fs = 1 .. Len(es) + 1 /\ Len(es) \in Nat
      /\ \A i \in 1 .. Len(es) : fs[i] = es[i]
      /\ fs[Len(es) + 1] = x
    BY <1>1, AppendFacts
<1>3. ASSUME NEW i \in DOMAIN fs
      PROVE  fs[i] = x \/ (i \in DOMAIN es /\ fs[i] = es[i])
    BY <1>2
<1>4. IsTrue(f, W, st, fs)
    <2>1. \A i \in DOMAIN fs : fs[i] \in Actions =>
            f[fs[i]] \in {"ended", "rejected"} /\ fs[i] \notin InvalidActions
        BY <1>3 DEF IsTrue
    <2>2. \A i \in DOMAIN fs : fs[i] \in Messages =>
            fs[i] \in Invalid \ W /\ \A a \in Range(Msg[fs[i]]) : f[a] = "rejected"
        BY <1>3, Zenon DEF IsTrue
    <2> QED
        BY <2>1, <2>2 DEF IsTrue
<1> QED
    BY <1>1, <1>4

LEMMA TrueStatus ==
    ASSUME NEW f, NEW W, NEW st, NEW es, IsTrue(f, W, st, es), NEW su,
           \A a \in Actions : \/ su[a] = st[a]
                              \/ su[a] = "RUNNING" /\ f[a] = "executing"
                              \/ f[a] = "ended"
    PROVE  IsTrue(f, W, su, es)
<1>1. \A a \in Actions : su[a] # Absent => f[a] \in {"executing", "ended"}
    BY DEF IsTrue
<1>2. \A a \in Actions : su[a] \in Ended => f[a] = "ended"
    BY DEF IsTrue, Ended
<1> QED
    BY <1>1, <1>2 DEF IsTrue

LEMMA WithinCounts ==
    ASSUME NEW es \in Seq(Subject), NEW fs \in Seq(Subject), Within(fs, es)
    PROVE  ValidationErrors(fs) <= ValidationErrors(es)
<1>1. PICK g : /\ \A i \in DOMAIN fs : g[i] \in DOMAIN es /\ es[g[i]] = fs[i]
               /\ \A i, j \in DOMAIN fs : g[i] = g[j] => i = j
    BY DEF Within
<1> QED
    BY <1>1, CountWithin

LEMMA WaitingSame ==
    ASSUME UNCHANGED << masterVars, toAgv >>
    PROVE  Waiting' = Waiting
BY DEF masterVars, Waiting

LEMMA PublishFollows ==
    ASSUME PublishCurrentState, UNCHANGED online
    PROVE  /\ Follows(states, states', View')
           /\ online => states' = Append(states, View')
           /\ ~ online => states' = states
BY DEF PublishCurrentState, Follows, View

LEMMA ErrorSubjects ==
    ASSUME Types, Types'
    PROVE  /\ Subjects(errors) \in Seq(Subject) /\ Subjects(errors') \in Seq(Subject)
           /\ ValidationErrors(Subjects(errors)) \in Nat
<1>1. errors \in Seq(Error) /\ errors' \in Seq(Error)
    BY DEF Types, AgvTypes
<1>2. Subjects(errors) \in Seq(Subject) /\ Subjects(errors') \in Seq(Subject)
    BY <1>1, SubjectFacts
<1> QED
    BY <1>2, CountFacts

(* Nothing becomes of an action; the state tells no more than before.      *)
LEMMA QuietStep ==
    ASSUME StatePublicationAssumption, IInv, Types', Told',
           UNCHANGED << masterVars, checking, fate >>,
           toAgv' = toAgv \/ (toAgv # << >> /\ toAgv' = Tail(toAgv)),
           \A a \in Actions : status'[a] = status[a] \/ status'[a] = Absent,
           Within(Subjects(errors'), Subjects(errors)), Follows(states, states', View'),
           ~ online => UNCHANGED status /\ (online' => states' = Append(states, View'))
    PROVE  IInv'
<1>1. Types /\ Journey /\ Checking /\ Truth /\ UNCHANGED masterVars /\ fate' = fate /\ checking' = checking
    BY DEF IInv
<1>2. Waiting' \subseteq Waiting
    BY <1>1, WaitingFacts
<1>3. Checking'
    BY <1>1, <1>2 DEF Checking
<1>4. Later(fate, fate')
    BY <1>1 DEF Later
<1>5. IsTrue(fate, Waiting, status, Subjects(errors))
    BY <1>1 DEF Truth, AllTrue
<1>6. IsTrue(fate', Waiting', status', Subjects(errors'))
    <2>1. IsTrue(fate, Waiting, status', Subjects(errors'))
        BY <1>5, TrueWithin
    <2> QED
        BY <1>2, <1>4, <2>1, TrueLater
<1>7. ValidationErrors(Subjects(errors')) <= ValidationErrors(Subjects(errors))
    BY <1>1, ErrorSubjects, WithinCounts
<1> QED
    BY <1>1, <1>3, <1>4, <1>6, <1>7, AgvStep

LEMMA QuietSteps ==
    ASSUME StatePublicationAssumption, IInv, Types', Told',
           \/ LoseInstantActions \/ PublishCompletes \/ PublishPeriodically
           \/ UpdateErrors \/ AcceptOrder \/ ConnectionBreaks \/ Reconnect
    PROVE  IInv'
<1>1. Types /\ Told
    BY DEF IInv
<1>2. Within(Subjects(errors), Subjects(errors))
    BY WithinItself
<1>3. CASE LoseInstantActions
    <2>1. /\ toAgv # << >> /\ toAgv' = Tail(toAgv)
          /\ UNCHANGED << masterVars, states, checking, status, errors, online, fate >>
          /\ ~ online
        BY <1>3 DEF LoseInstantActions, agvVars, stateVars
    <2> QED
        BY <1>2, <2>1, QuietStep DEF Follows
<1>4. CASE PublishCompletes
    <2>1. CleanupInstantActionStates /\ UNCHANGED << masterVars, toAgv, states, checking, online, fate >>
        BY <1>4 DEF PublishCompletes
    <2>2. /\ Within(Subjects(errors'), Subjects(errors))
          /\ \A a \in Actions : status'[a] = status[a] \/ status'[a] = Absent
        BY <1>1, <2>1, CleanupTypes DEF Types
    <2>3. online
        BY <1>1, <1>4, CompleteTypes
    <2> QED
        BY <2>1, <2>2, <2>3, QuietStep DEF Follows
<1>5. CASE PublishPeriodically
    <2>1. /\ online /\ PublishCurrentState
          /\ UNCHANGED << masterVars, toAgv, checking, status, errors, online, fate >>
        BY <1>5 DEF PublishPeriodically, stateVars
    <2> QED
        BY <1>2, <2>1, PublishFollows, QuietStep
<1>6. CASE UpdateErrors
    <2>1. UNCHANGED << masterVars, toAgv, states, checking, status, online, fate >>
        BY <1>6 DEF UpdateErrors
    <2>2. Within(Subjects(errors'), Subjects(errors))
        BY <1>1, <1>2, <1>6, UpdateTypes
    <2> QED
        BY <2>1, <2>2, QuietStep DEF Follows
<1>7. CASE AcceptOrder
    <2>1. /\ online /\ PublishCurrentState
          /\ UNCHANGED << masterVars, toAgv, checking, online, fate >>
        BY <1>7 DEF AcceptOrder
    <2>2. status' = status /\ Within(Subjects(errors'), Subjects(errors))
        BY <1>1, <1>7, AcceptTypes
    <2> QED
        BY <2>1, <2>2, PublishFollows, QuietStep
<1>8. CASE ConnectionBreaks
    <2>1. /\ online /\ UNCHANGED << masterVars, toAgv, states, checking, status, errors, fate >>
        BY <1>8 DEF ConnectionBreaks, stateVars
    <2> QED
        BY <1>2, <2>1, QuietStep DEF Follows
<1>9. CASE Reconnect
    <2>1. /\ states' = Append(states, View')
          /\ UNCHANGED << masterVars, toAgv, checking, status, errors, fate >>
        BY <1>9 DEF Reconnect, stateVars, View
    <2> QED
        BY <1>2, <2>1, QuietStep DEF Follows
<1> QED
    BY <1>3, <1>4, <1>5, <1>6, <1>7, <1>8, <1>9

LEMMA CheckStep ==
    ASSUME StatePublicationAssumption, IInv, Types', Told', CheckInstantAction
    PROVE  IInv'
<1>1. PICK a : a = Head(checking)
    OBVIOUS
<1>2. /\ checking # << >> /\ checking' = Tail(checking) /\ UNCHANGED << masterVars, toAgv, online >>
      /\ RejectAction(a) \/ AcceptAction(a)
    BY <1>1 DEF CheckInstantAction, Handling
<1>3. /\ Types /\ Journey /\ Checking /\ Truth
      /\ checking \in Seq(Actions) /\ fate \in [Actions -> Fate]
    BY DEF IInv, Types, AgvTypes
<1>4. PICK c : c = checking'
    OBVIOUS
<1>5. /\ Len(checking) \in Nat \ {0} /\ DOMAIN checking = 1 .. Len(checking)
      /\ DOMAIN c = 1 .. Len(checking) - 1
      /\ \A i \in 1 .. Len(checking) - 1 : c[i] = checking[i + 1]
      /\ a = checking[1] /\ a \in Actions
    BY <1>1, <1>2, <1>3, <1>4, TailFacts
<1>6. \A i \in DOMAIN c : i + 1 \in DOMAIN checking /\ i + 1 # 1 /\ c[i] = checking[i + 1] /\ i \in Nat
    BY <1>5
<1>7. 1 \in DOMAIN checking
    BY <1>5
<1>8. fate[a] = "none" /\ a \notin InvalidActions /\ \A m \in Waiting : a \notin Range(Msg[m])
    BY <1>3, <1>5, <1>7 DEF Checking
<1>9. PICK x \in {"accepted", "rejected"} : fate' = [fate EXCEPT ![a] = x]
    BY <1>2 DEF RejectAction, AcceptAction
<1>10. \A b \in Actions : fate'[b] = IF b = a THEN x ELSE fate[b]
    BY <1>3, <1>9
<1>11. Waiting' = Waiting
    BY <1>2, WaitingSame
<1>12. Later(fate, fate')
    BY <1>8, <1>10 DEF Later
<1>13. \A m \in Waiting' : \A b \in Range(Msg[m]) : fate'[b] = fate[b]
    <2>1. \A m \in Waiting : \A b \in Range(Msg[m]) : b \in Actions /\ b # a
        BY <1>8, MessageFacts DEF Waiting
    <2> QED
        BY <1>10, <1>11, <2>1
<1>14. Checking'
    <2>1. ASSUME NEW i \in DOMAIN c, NEW j \in DOMAIN c, c[i] = c[j]
          PROVE  i = j
        <3>1. i + 1 = j + 1
            BY <1>3, <1>6, <2>1 DEF Checking
        <3> QED
            BY <1>6, <3>1
    <2>2. ASSUME NEW i \in DOMAIN c
          PROVE  /\ fate'[c[i]] = "none" /\ c[i] \notin InvalidActions
                 /\ \A m \in Waiting' : c[i] \notin Range(Msg[m])
        <3>1. c[i] # a
            BY <1>3, <1>5, <1>6, <1>7 DEF Checking
        <3>2. c[i] \in Actions
            BY <1>3, <1>6
        <3>3. fate'[c[i]] = fate[c[i]]
            BY <1>10, <3>1, <3>2
        <3> QED
            BY <1>3, <1>6, <1>11, <3>3 DEF Checking
    <2>3. \A b \in InvalidActions : fate'[b] \in {"none", "rejected"}
        <3>1. \A b \in InvalidActions : b \in Actions /\ b # a
            BY <1>8, MessageFacts DEF InvalidActions, StatePublicationAssumption
        <3> QED
            BY <1>3, <1>10, <3>1 DEF Checking
    <2> QED
        BY <1>4, <2>1, <2>2, <2>3 DEF Checking
<1>15. IsTrue(fate', Waiting', status, Subjects(errors))
    <2>1. IsTrue(fate, Waiting, status, Subjects(errors))
        BY <1>3 DEF Truth, AllTrue
    <2> QED
        BY <1>11, <1>12, <2>1, TrueLater
<1>16. status' = status
    BY <1>2 DEF RejectAction, AcceptAction, stateVars
<1>17. \A b \in Actions : ~ (fate'[b] = "ended" /\ fate[b] # "ended")
    BY <1>10
<1>18. CASE RejectAction(a)
    <2>1. PICK e : e = [of |-> a, counted |-> TRUE, count |-> 0]
        OBVIOUS
    <2>2. errors' = Append(errors, e) /\ PublishCurrentState /\ fate' = [fate EXCEPT ![a] = "rejected"]
        BY <1>18, <2>1 DEF RejectAction
    <2>3. e \in Error /\ e.of = a /\ (e.counted => e.count < PublishCount)
        BY <1>5, <2>1 DEF Error, Subject, StatePublicationAssumption
    <2>4. Subjects(errors') = Append(Subjects(errors), a)
        BY <1>3, <2>2, <2>3, AppendedError DEF Types
    <2>5. fate'[a] = "rejected"
        BY <1>3, <1>5, <2>2
    <2>6. a \in Subject /\ a \notin Messages
        BY <1>5, MessageFacts DEF Subject
    <2>7. Subjects(errors) \in Seq(Subject) /\ ValidationErrors(Subjects(errors)) \in Nat
        BY <1>3, ErrorSubjects
    <2>8. IsTrue(fate', Waiting', status', Subjects(errors'))
        <3>1. PICK f, W, es : f = fate' /\ W = Waiting' /\ es = Subjects(errors)
            OBVIOUS
        <3>2. IsTrue(f, W, status, Append(es, a))
            BY <1>8, <1>15, <2>5, <2>6, <2>7, <3>1, TrueAppend
        <3> QED
            BY <1>16, <2>4, <3>1, <3>2
    <2>9. ValidationErrors(Subjects(errors')) <= ValidationErrors(Subjects(errors))
        <3>1. ValidationErrors(Subjects(errors')) = ValidationErrors(Subjects(errors))
            BY <2>4, <2>6, <2>7, CountAppend
        <3> QED
            BY <2>7, <3>1
    <2>10. /\ Follows(states, states', View')
           /\ ~ online => ~ online'
        BY <1>2, <2>2, PublishFollows
    <2> QED
        BY <1>2, <1>12, <1>13, <1>14, <1>16, <1>17, <2>8, <2>9, <2>10, AgvStep
<1>19. CASE AcceptAction(a)
    <2>1. UNCHANGED << status, errors, states >>
        BY <1>19 DEF AcceptAction, stateVars
    <2>2. ValidationErrors(Subjects(errors')) <= ValidationErrors(Subjects(errors))
        BY <1>3, <2>1, ErrorSubjects
    <2>3. IsTrue(fate', Waiting', status', Subjects(errors'))
        BY <1>15, <2>1
    <2> QED
        BY <1>2, <1>12, <1>13, <1>14, <1>17, <2>1, <2>2, <2>3, AgvStep DEF Follows
<1> QED
    BY <1>2, <1>18, <1>19

(* An action that is executed changes its fate to x.                       *)
LEMMA ExecutedFate ==
    ASSUME StatePublicationAssumption, IInv, NEW a \in Actions, fate[a] \in {"accepted", "executing"},
           NEW x \in {"executing", "ended"}, fate' = [fate EXCEPT ![a] = x],
           UNCHANGED << masterVars, toAgv, checking >>, ~ Handling
    PROVE  /\ \A b \in Actions : fate'[b] = IF b = a THEN x ELSE fate[b]
           /\ Later(fate, fate') /\ Waiting' = Waiting /\ a \notin InvalidActions
           /\ \A m \in Waiting' : \A b \in Range(Msg[m]) : fate'[b] = fate[b]
           /\ Checking'
           /\ IsTrue(fate', Waiting', status, Subjects(errors))
<1>1. Types /\ Journey /\ Checking /\ Truth /\ fate \in [Actions -> Fate] /\ checking = << >>
    BY DEF IInv, Types, AgvTypes, Handling
<1>2. \A b \in Actions : fate'[b] = IF b = a THEN x ELSE fate[b]
    BY <1>1
<1>3. Later(fate, fate')
    BY <1>2 DEF Later
<1>4. Waiting' = Waiting
    BY WaitingSame
<1>5. a \notin InvalidActions
    BY <1>1 DEF Checking
<1>6. \A m \in Waiting' : \A b \in Range(Msg[m]) : fate'[b] = fate[b]
    <2>1. \A m \in Waiting : \A b \in Range(Msg[m]) : b \in Actions /\ b # a
        BY <1>1, MessageFacts DEF Waiting, Journey
    <2> QED
        BY <1>2, <1>4, <2>1
<1>7. Checking'
    <2>1. \A b \in InvalidActions : b \in Actions /\ b # a
        BY <1>5, MessageFacts DEF InvalidActions, StatePublicationAssumption
    <2>2. \A b \in InvalidActions : fate'[b] \in {"none", "rejected"}
        BY <1>1, <1>2, <2>1 DEF Checking
    <2>3. checking' = << >> /\ DOMAIN checking' = {}
        BY <1>1
    <2> QED
        BY <2>2, <2>3 DEF Checking
<1>8. IsTrue(fate', Waiting', status, Subjects(errors))
    <2>1. IsTrue(fate, Waiting, status, Subjects(errors))
        BY <1>1 DEF Truth, AllTrue
    <2> QED
        BY <1>3, <1>4, <2>1, TrueLater
<1> QED
    BY <1>2, <1>3, <1>4, <1>5, <1>6, <1>7, <1>8

LEMMA StartStep ==
    ASSUME StatePublicationAssumption, IInv, Types', Told', NEW a \in Actions, StartAction(a)
    PROVE  IInv'
<1>1. /\ ~ Handling /\ fate[a] = "accepted" /\ fate' = [fate EXCEPT ![a] = "executing"]
      /\ status' = [status EXCEPT ![a] = "RUNNING"] /\ UNCHANGED errors /\ PublishCurrentState
      /\ UNCHANGED << masterVars, toAgv, checking, online >>
    BY DEF StartAction
<1>2. Types /\ Truth /\ status \in [Actions -> Status]
    BY DEF IInv, Types, AgvTypes
<1>3. /\ \A b \in Actions : fate'[b] = IF b = a THEN "executing" ELSE fate[b]
      /\ Later(fate, fate') /\ Waiting' = Waiting
      /\ \A m \in Waiting' : \A b \in Range(Msg[m]) : fate'[b] = fate[b]
      /\ Checking'
      /\ IsTrue(fate', Waiting', status, Subjects(errors))
    BY <1>1, ExecutedFate
<1>4. \A b \in Actions : status'[b] = IF b = a THEN "RUNNING" ELSE status[b]
    BY <1>1, <1>2
<1>5. IsTrue(fate', Waiting', status', Subjects(errors'))
    <2>1. PICK f, W, su : f = fate' /\ W = Waiting' /\ su = status'
        OBVIOUS
    <2>2. \A b \in Actions : su[b] = status[b] \/ (su[b] = "RUNNING" /\ f[b] = "executing")
        BY <1>3, <1>4, <2>1
    <2>3. IsTrue(f, W, su, Subjects(errors))
        BY <1>3, <2>1, <2>2, TrueStatus
    <2> QED
        BY <1>1, <2>1, <2>3
<1>6. ValidationErrors(Subjects(errors')) <= ValidationErrors(Subjects(errors))
    BY <1>1, <1>2, ErrorSubjects
<1>7. \A b \in Actions : /\ ~ (fate'[b] = "ended" /\ fate[b] # "ended")
                         /\ fate[b] = "ended" => status'[b] = status[b]
    BY <1>1, <1>3, <1>4
<1>8. Follows(states, states', View') /\ (~ online => ~ online')
    BY <1>1, PublishFollows
<1> QED
    BY <1>1, <1>3, <1>5, <1>6, <1>7, <1>8, AgvStep

LEMMA EndStep ==
    ASSUME StatePublicationAssumption, IInv, Types', Told', NEW a \in Actions, NEW s \in Ended,
           EndAction(a, s)
    PROVE  IInv'
<1>1. PICK e : e = [of |-> a, counted |-> FALSE, count |-> 0]
    OBVIOUS
<1>2. /\ ~ Handling /\ fate[a] = "executing" /\ fate' = [fate EXCEPT ![a] = "ended"]
      /\ status' = [status EXCEPT ![a] = s] /\ PublishCurrentState
      /\ errors' = IF s = "FAILED" THEN Append(errors, e) ELSE errors
      /\ UNCHANGED << masterVars, toAgv, checking, online >>
    BY <1>1 DEF EndAction
<1>3. Types /\ Truth /\ status \in [Actions -> Status]
    BY DEF IInv, Types, AgvTypes
<1>4. /\ \A b \in Actions : fate'[b] = IF b = a THEN "ended" ELSE fate[b]
      /\ Later(fate, fate') /\ Waiting' = Waiting /\ a \notin InvalidActions
      /\ \A m \in Waiting' : \A b \in Range(Msg[m]) : fate'[b] = fate[b]
      /\ Checking'
      /\ IsTrue(fate', Waiting', status, Subjects(errors))
    BY <1>2, ExecutedFate
<1>5. \A b \in Actions : status'[b] = IF b = a THEN s ELSE status[b]
    BY <1>2, <1>3
<1>6. e \in Error /\ e.of = a /\ ~ e.counted /\ a \in Subject /\ a \notin Messages
    BY <1>1, MessageFacts DEF Error, Subject
<1>7. /\ Subjects(errors) \in Seq(Subject) /\ ValidationErrors(Subjects(errors)) \in Nat
      /\ Subjects(errors') = IF s = "FAILED" THEN Append(Subjects(errors), a) ELSE Subjects(errors)
    <2>1. s = "FAILED" => Subjects(errors') = Append(Subjects(errors), a)
        BY <1>2, <1>3, <1>6, AppendedError DEF Types
    <2> QED
        BY <1>2, <1>3, <2>1, ErrorSubjects
<1>8. IsTrue(fate', Waiting', status', Subjects(errors'))
    <2>1. PICK f, W, su, es : f = fate' /\ W = Waiting' /\ su = status' /\ es = Subjects(errors)
        OBVIOUS
    <2>2. \A b \in Actions : su[b] = status[b] \/ f[b] = "ended"
        BY <1>4, <1>5, <2>1
    <2>3. IsTrue(f, W, su, es)
        BY <1>4, <2>1, <2>2, TrueStatus
    <2>4. f[a] = "ended" /\ es \in Seq(Subject)
        BY <1>4, <1>7, <2>1
    <2>5. IsTrue(f, W, su, Append(es, a))
        BY <1>4, <1>6, <2>3, <2>4, TrueAppend
    <2> QED
        BY <1>7, <2>1, <2>3, <2>5
<1>9. ValidationErrors(Subjects(errors')) <= ValidationErrors(Subjects(errors))
    <2>1. ValidationErrors(Subjects(errors')) = ValidationErrors(Subjects(errors))
        BY <1>6, <1>7, CountAppend
    <2> QED
        BY <1>7, <2>1
<1>10. /\ Follows(states, states', View') /\ (~ online => ~ online')
       /\ online => states' = Append(states, View')
    BY <1>2, PublishFollows
<1>11. \A b \in Actions : /\ fate'[b] = "ended" /\ fate[b] # "ended" =>
                               status'[b] \in Ended /\ (online' => states' = Append(states, View'))
                          /\ fate[b] = "ended" => status'[b] = status[b]
    BY <1>2, <1>4, <1>5, <1>10
<1> QED
    BY <1>2, <1>4, <1>8, <1>9, <1>10, <1>11, AgvStep

(* Messages have no actions in common.                                     *)
LEMMA OneMessage ==
    ASSUME UniqueActions, NEW m \in Messages, NEW n \in Messages, NEW a,
           a \in Range(Msg[m]), a \in Range(Msg[n])
    PROVE  m = n
BY DEF UniqueActions

(* A message has an action.                                                *)
LEMMA SomeAction ==
    ASSUME StatePublicationAssumption, UniqueActions, NEW m \in Messages
    PROVE  \E a \in Actions : a \in Range(Msg[m])
<1>1. Msg[m] \in Seq(Actions) /\ Msg[m] # << >>
    BY MessageFacts DEF UniqueActions
<1>2. 1 \in DOMAIN Msg[m] /\ Msg[m][1] \in Actions
    BY <1>1
<1> QED
    BY <1>2 DEF Range

(* A message under way together with n, which is alone, is n.              *)
LEMMA OnlyOne ==
    ASSUME StatePublicationAssumption, UniqueActions, NEW m \in Messages, NEW n \in Messages,
           Only(n), \A a \in Range(Msg[m]) : a \in DOMAIN caches
    PROVE  m = n
<1>1. PICK a \in Actions : a \in Range(Msg[m])
    BY SomeAction
<1>2. a \in Range(Msg[n])
    BY <1>1 DEF Only
<1> QED
    BY <1>1, <1>2, OneMessage

LEMMA ReceiveStep ==
    ASSUME StatePublicationAssumption, UniqueActions, IInv, Types', Told', ReceiveInstantActions
    PROVE  IInv'
<1>1. PICK m : m = Head(toAgv)
    OBVIOUS
<1>2. /\ toAgv # << >> /\ online /\ ~ Handling /\ toAgv' = Tail(toAgv) /\ UNCHANGED << masterVars, online >>
    BY DEF ReceiveInstantActions
<1>3. /\ Types /\ Journey /\ Checking /\ Truth /\ References
      /\ toAgv \in Seq(Messages) /\ fate \in [Actions -> Fate]
    BY DEF IInv, Types, AgvTypes
<1>4. /\ Waiting' \subseteq Waiting /\ m \in Range(toAgv) /\ m \in Messages
      /\ m \in initiated \ awaiting /\ m \notin Waiting' /\ m \in Waiting
    <2>1. toAgv' # toAgv
        BY <1>2, <1>3, TailFacts
    <2> QED
        BY <1>1, <1>2, <1>3, <2>1, WaitingFacts DEF Waiting
<1>5. \A a \in Range(Msg[m]) : a \in Actions /\ fate[a] = "none"
    BY <1>3, <1>4, MessageFacts DEF Journey
<1>6. \A n \in Waiting' : \A a \in Range(Msg[n]) : a \in Actions /\ a \notin Range(Msg[m])
    <2>1. ASSUME NEW n \in Waiting', NEW a \in Range(Msg[n])
          PROVE  a \in Actions /\ a \notin Range(Msg[m])
        <3>1. n \in Messages /\ n # m
            BY <1>4 DEF Waiting
        <3> QED
            BY <1>4, <3>1, MessageFacts, OneMessage
    <2> QED
        BY <2>1
<1>7. IsTrue(fate, Waiting, status, Subjects(errors))
    BY <1>3 DEF Truth, AllTrue
<1>8. checking = << >>
    BY <1>2 DEF Handling
<1>9. CASE m \in Invalid
    <2>1. PICK e : e = [of |-> m, counted |-> TRUE, count |-> 0]
        OBVIOUS
    <2>2. /\ errors' = Append(errors, e) /\ UNCHANGED << checking, status >> /\ PublishCurrentState
          /\ fate' = [a \in Actions |-> IF a \in Range(Msg[m]) THEN "rejected" ELSE fate[a]]
        BY <1>1, <1>9, <2>1 DEF ReceiveInstantActions
    <2>3. e \in Error /\ e.of = m /\ (e.counted => e.count < PublishCount)
        BY <1>4, <2>1 DEF Error, Subject, StatePublicationAssumption
    <2>4. \A a \in Actions : fate'[a] = IF a \in Range(Msg[m]) THEN "rejected" ELSE fate[a]
        BY <2>2
    <2>5. Later(fate, fate')
        BY <1>5, <2>4 DEF Later
    <2>6. \A n \in Waiting' : \A a \in Range(Msg[n]) : fate'[a] = fate[a]
        BY <1>6, <2>4
    <2>7. Checking'
        <3>1. checking' = << >> /\ DOMAIN checking' = {}
            BY <1>8, <2>2
        <3>2. \A a \in InvalidActions : a \in Actions
            BY MessageFacts DEF InvalidActions, StatePublicationAssumption
        <3>3. \A a \in InvalidActions : fate'[a] \in {"none", "rejected"}
            BY <1>3, <2>4, <3>2 DEF Checking
        <3> QED
            BY <3>1, <3>3 DEF Checking
    <2>8. /\ Subjects(errors) \in Seq(Subject) /\ ValidationErrors(Subjects(errors)) \in Nat
          /\ Subjects(errors') = Append(Subjects(errors), m)
          /\ m \in Subject /\ m \notin Actions
        BY <1>3, <1>4, <2>2, <2>3, AppendedError, ErrorSubjects, MessageFacts DEF Types, Subject
    <2>9. IsTrue(fate', Waiting', status', Subjects(errors'))
        <3>1. PICK f, W, es : f = fate' /\ W = Waiting' /\ es = Subjects(errors)
            OBVIOUS
        <3>2. IsTrue(f, W, status, es)
            BY <1>4, <1>7, <2>5, <3>1, TrueLater
        <3>3. m \in Invalid \ W /\ \A a \in Range(Msg[m]) : f[a] = "rejected"
            BY <1>4, <1>5, <1>9, <2>4, <3>1
        <3>4. IsTrue(f, W, status, Append(es, m))
            BY <2>8, <3>1, <3>2, <3>3, TrueAppend
        <3> QED
            BY <2>2, <2>8, <3>1, <3>4
    <2>10. ValidationErrors(Subjects(errors')) = ValidationErrors(Subjects(errors)) + 1
        BY <1>4, <2>8, CountAppend
    <2>11. Only(m) /\ 0 < refOf[m] /\ ref = refOf[m]
        BY <1>3, <1>4, <1>9 DEF References, Issued
    <2>12. ~ Telling
        <3>1. ASSUME NEW n \in Invalid, FoundInvalid(n)
              PROVE  FALSE
            <4>1. n \in Messages
                BY DEF StatePublicationAssumption
            <4>2. m = n
                BY <1>4, <2>11, <3>1, <4>1, OnlyOne DEF Only, FoundInvalid
            <4> QED
                BY <1>4, <3>1, <4>2 DEF FoundInvalid
        <3> QED
            BY <3>1 DEF Telling
    <2>13. Telling'
        <3>1. UNCHANGED << caches, ref, refOf >>
            BY <1>2 DEF masterVars
        <3>2. Only(m)'
            BY <2>11, <3>1 DEF Only
        <3>3. \A a \in Range(Msg[m]) : fate'[a] = "rejected"
            BY <1>5, <2>4
        <3>4. FoundInvalid(m)'
            BY <1>4, <2>11, <3>1, <3>2, <3>3 DEF FoundInvalid
        <3> QED
            BY <1>9, <3>4 DEF Telling
    <2>14. Follows(states, states', View') /\ states' = Append(states, View')
        BY <1>2, <2>2, PublishFollows
    <2>15. \A a \in Actions : ~ (fate'[a] = "ended" /\ fate[a] # "ended")
        BY <2>4
    <2> QED
        BY <1>2, <2>5, <2>6, <2>7, <2>9, <2>10, <2>12, <2>13, <2>14, <2>15, AgvStep
<1>10. CASE m \notin Invalid
    <2>1. checking' = Msg[m] /\ UNCHANGED << status, errors, states, fate >>
        BY <1>1, <1>10 DEF ReceiveInstantActions, stateVars
    <2>2. Later(fate, fate')
        BY <2>1 DEF Later
    <2>3. Checking'
        <3>1. \A i, j \in DOMAIN Msg[m] : Msg[m][i] = Msg[m][j] => i = j
            BY <1>4 DEF UniqueActions
        <3>2. ASSUME NEW i \in DOMAIN Msg[m]
              PROVE  /\ fate[Msg[m][i]] = "none" /\ Msg[m][i] \notin InvalidActions
                     /\ \A n \in Waiting' : Msg[m][i] \notin Range(Msg[n])
            <4>1. Msg[m][i] \in Range(Msg[m])
                BY DEF Range
            <4>2. \A n \in Invalid : n \in Messages /\ n # m
                BY <1>10 DEF StatePublicationAssumption
            <4>3. Msg[m][i] \notin InvalidActions
                BY <1>4, <4>1, <4>2, OneMessage DEF InvalidActions
            <4> QED
                BY <1>5, <1>6, <4>1, <4>3
        <3>3. \A a \in InvalidActions : fate[a] \in {"none", "rejected"}
            BY <1>3 DEF Checking
        <3> QED
            BY <2>1, <3>1, <3>2, <3>3 DEF Checking
    <2>4. IsTrue(fate', Waiting', status', Subjects(errors'))
        BY <1>4, <1>7, <2>1, <2>2, TrueLater
    <2>5. ValidationErrors(Subjects(errors')) <= ValidationErrors(Subjects(errors))
        BY <1>3, <2>1, ErrorSubjects
    <2> QED
        BY <1>2, <2>1, <2>2, <2>3, <2>4, <2>5, AgvStep DEF Follows
<1> QED
    BY <1>9, <1>10

-----------------------------------------------------------------------------
(* Steps of master control *)

(* Messages are initiated, published or given up, while no error is told.  *)
LEMMA MasterStep ==
    ASSUME StatePublicationAssumption, IInv, Types', Told', Journey', Issued',
           UNCHANGED << states, agvVars, refErrors, outcome >>, Waiting' \subseteq Waiting, ~ Telling,
           \A a \in Actions : fate[a] = "ended" /\ a \in DOMAIN caches' => a \in DOMAIN caches
    PROVE  IInv'
<1>1. /\ Types /\ Checking /\ Truth /\ References /\ EventsTrue
      /\ UNCHANGED << checking, status, errors, fate, online, states, refErrors, outcome >>
    BY DEF IInv, agvVars, stateVars
<1>2. Checking'
    BY <1>1 DEF Checking
<1>3. EventsTrue'
    BY <1>1 DEF EventsTrue
<1>4. Truth'
    <2>1. Later(fate, fate')
        BY <1>1 DEF Later
    <2>2. AllTrue(fate, Waiting', status, Subjects(errors), states)
        <3>1. PICK X : X = Waiting'
            OBVIOUS
        <3>2. \A st, es : IsTrue(fate, Waiting, st, es) => IsTrue(fate, X, st, es)
            BY <1>1, <2>1, <3>1, TrueLater
        <3> QED
            BY <1>1, <3>1, <3>2 DEF Truth, AllTrue
    <2>3. PICK D : D = DOMAIN caches'
        OBVIOUS
    <2>4. \A a \in Actions : \A n : fate[a] = "ended" /\ Known(DOMAIN caches, states, a, n) => Known(D, states, a, n)
        BY <2>3, Zenon DEF Known
    <2>5. StatusFirst(fate, D, states)
        BY <1>1, <2>4, Zenon DEF Truth, StatusFirst
    <2>6. EndsKnown(fate, D, online, status, states)
        BY <1>1, <2>4, Zenon DEF Truth, EndsKnown
    <2> QED
        BY <1>1, <2>2, <2>3, <2>5, <2>6 DEF Truth
<1>5. References'
    <2>1. Rises(Len(refErrors), states, ValidationErrors(Subjects(errors)), Telling)
        BY <1>1 DEF References
    <2>2. PICK c : c = Telling'
        OBVIOUS
    <2>3. Rises(Len(refErrors), states, ValidationErrors(Subjects(errors)), c)
        BY <2>1 DEF Rises
    <2> QED
        BY <1>1, <2>2, <2>3 DEF References
<1> QED
    BY <1>2, <1>3, <1>4, <1>5 DEF IInv

(* A message that is under way alone is not initiated or awaited.          *)
LEMMA InitiateAlone ==
    ASSUME StatePublicationAssumption, UniqueActions, InvalidAlone,
           NEW m \in Messages, InitiateInstantActions(m), NEW n \in Invalid, n \in initiated, Only(n)
    PROVE  FALSE
<1>1. n \in Messages /\ n \in Alone
    BY DEF StatePublicationAssumption, InvalidAlone
<1>2. PICK a \in Actions : a \in Range(Msg[n])
    BY <1>1, SomeAction
<1>3. n \in UnderWay
    BY <1>2 DEF UnderWay, Only
<1>4. UnderWay # {} => (UnderWay \cup {m}) \cap Alone = {}
    BY DEF InitiateInstantActions
<1> QED
    BY <1>1, <1>3, <1>4

LEMMA InitiateStep ==
    ASSUME StatePublicationAssumption, UniqueActions, InvalidAlone, IInv, Types', Told',
           NEW m \in Messages, InitiateInstantActions(m)
    PROVE  IInv'
<1>1. /\ m \notin initiated /\ initiated' = initiated \cup {m} /\ awaiting' = awaiting \cup {m}
      /\ refOf' = [refOf EXCEPT ![m] = ref + 1]
      /\ caches' = [a \in DOMAIN caches \cup Range(Msg[m]) |->
                      IF a \in Range(Msg[m]) THEN [ref |-> ref + 1, last |-> Absent] ELSE caches[a]]
      /\ UNCHANGED << ref, refErrors, outcome, toAgv, states, agvVars >>
      /\ UNCHANGED fate
    BY DEF InitiateInstantActions, agvVars
<1>2. Types /\ MasterTypes /\ Journey /\ References /\ Issued
    BY DEF IInv, Types, References
<1>3. \A n \in Messages : n \in Range(toAgv) \/ n \in awaiting => n \in initiated
    BY <1>2 DEF Journey, Range, MasterTypes
<1>4. Waiting' = Waiting /\ m \in Waiting
    BY <1>1 DEF Waiting
<1>5. \A n \in Invalid : n \in initiated => ~ Only(n)
    BY InitiateAlone
<1>6. ~ Telling
    BY <1>5 DEF Telling, FoundInvalid, Waiting, StatePublicationAssumption
<1>7. \A n \in Messages : refOf'[n] = IF n = m THEN ref + 1 ELSE refOf[n]
    BY <1>1, <1>2 DEF MasterTypes
<1>8. /\ DOMAIN caches' = DOMAIN caches \cup Range(Msg[m])
      /\ \A a \in DOMAIN caches' :
           caches'[a].ref = IF a \in Range(Msg[m]) THEN ref + 1 ELSE caches[a].ref
    BY <1>1
<1>9. Journey'
    <2>1. ASSUME NEW n \in awaiting', NEW a \in Range(Msg[n])
          PROVE  a \in DOMAIN caches' /\ caches'[a].ref = refOf'[n]
        <3>1. CASE n = m
            BY <1>7, <1>8, <2>1, <3>1
        <3>2. CASE n # m
            <4>1. n \in awaiting /\ n \in Messages
                BY <1>1, <1>2, <2>1, <3>2 DEF MasterTypes
            <4>2. a \in DOMAIN caches /\ caches[a].ref = refOf[n] /\ a \notin Range(Msg[m])
                BY <1>2, <2>1, <3>2, <4>1, OneMessage DEF Journey
            <4> QED
                BY <1>7, <1>8, <3>2, <4>1, <4>2
        <3> QED
            BY <3>1, <3>2
    <2>2. \A a \in DOMAIN caches' : \E n \in initiated' : a \in Range(Msg[n])
        BY <1>1, <1>2, <1>8 DEF Journey
    <2>3. \A i \in DOMAIN toAgv : toAgv[i] \in initiated' \ awaiting'
        BY <1>1, <1>2 DEF Journey
    <2> QED
        BY <1>1, <1>2, <1>4, <2>1, <2>2, <2>3 DEF Journey
<1>10. Issued'
    <2>1. ASSUME NEW i \in DOMAIN refErrors
          PROVE  /\ 0 < refErrors[i] /\ refErrors[i] <= ref
                 /\ \A a \in DOMAIN caches' : refErrors[i] < caches'[a].ref
        <3>1. 0 < refErrors[i] /\ refErrors[i] <= ref /\ \A a \in DOMAIN caches : refErrors[i] < caches[a].ref
            BY <1>2 DEF Issued
        <3>2. refErrors[i] \in Int /\ ref \in Nat
            BY <1>2, ElementFacts DEF MasterTypes
        <3>3. refErrors[i] < ref + 1
            BY <3>1, <3>2
        <3> QED
            BY <1>8, <3>1, <3>3
    <2>2. ASSUME NEW n \in Invalid, n \in awaiting' \/ n \in Range(toAgv)
          PROVE  n = m
        <3>1. n \in Messages
            BY DEF StatePublicationAssumption
        <3>2. n = m \/ (n \in initiated /\ Only(n))
            BY <1>1, <1>2, <1>3, <2>2, <3>1 DEF Issued
        <3> QED
            BY <1>5, <3>2
    <2>3. m \notin Range(toAgv)
        BY <1>1, <1>3
    <2>4. ASSUME m \in Invalid
          PROVE  Only(m)' /\ 0 < refOf'[m]
        <3>1. UnderWay = {}
            BY <2>4 DEF InitiateInstantActions, InvalidAlone
        <3>2. DOMAIN caches = {}
            <4>1. ASSUME NEW a \in DOMAIN caches
                  PROVE  FALSE
                BY <1>2, <3>1 DEF Journey, UnderWay
            <4> QED
                BY <4>1
        <3>3. DOMAIN caches' = Range(Msg[m]) /\ refOf'[m] = ref + 1
              /\ \A a \in DOMAIN caches' : caches'[a].ref = ref + 1
            BY <1>7, <1>8, <3>2
        <3>4. ref \in Nat
            BY <1>2 DEF MasterTypes
        <3> QED
            BY <3>3, <3>4 DEF Only
    <2> QED
        BY <1>1, <2>1, <2>2, <2>3, <2>4 DEF Issued
<1>11. \A a \in Actions : fate[a] = "ended" /\ a \in DOMAIN caches' => a \in DOMAIN caches
    BY <1>2, <1>4, <1>8 DEF Journey
<1> QED
    BY <1>1, <1>4, <1>6, <1>9, <1>10, <1>11, MasterStep

(* While a publication is awaited, no error is told.                       *)
LEMMA AwaitingFacts ==
    ASSUME StatePublicationAssumption, UniqueActions, IInv, NEW m \in awaiting
    PROVE  /\ m \in Messages /\ m \in initiated /\ m \in Waiting /\ m \notin Range(toAgv) /\ ~ Telling
           /\ \A n \in Invalid : Only(n) => n = m
<1>1. Types /\ Journey /\ m \in Messages /\ m \in initiated /\ m \in Waiting
    BY DEF IInv, Types, MasterTypes, Waiting
<1>2. \A n \in Invalid : Only(n) => n = m
    BY <1>1, OnlyOne DEF Journey, StatePublicationAssumption
<1>3. ~ Telling
    BY <1>1, <1>2 DEF Telling, FoundInvalid
<1>4. m \notin Range(toAgv)
    BY <1>1 DEF Journey, Range
<1> QED
    BY <1>1, <1>2, <1>3, <1>4

LEMMA PublishedStep ==
    ASSUME StatePublicationAssumption, UniqueActions, IInv, Types', Told', NEW m, Published(m)
    PROVE  IInv'
<1>1. /\ m \in awaiting /\ awaiting' = awaiting \ {m} /\ ref' = refOf[m] /\ toAgv' = Append(toAgv, m)
      /\ UNCHANGED << initiated, caches, refOf, refErrors, outcome, states, agvVars, fate >>
    BY DEF Published, agvVars
<1>2. Types /\ MasterTypes /\ toAgv \in Seq(Messages) /\ Journey /\ Issued
    BY DEF IInv, Types, References
<1>3. /\ m \in Messages /\ m \in initiated /\ m \in Waiting /\ m \notin Range(toAgv) /\ ~ Telling
      /\ \A n \in Invalid : Only(n) => n = m
    BY <1>1, AwaitingFacts
<1>4. PICK us : us = toAgv'
    OBVIOUS
<1>5. /\ DOMAIN toAgv = 1 .. Len(toAgv) /\ DOMAIN us = 1 .. Len(toAgv) + 1 /\ Len(toAgv) \in Nat
      /\ \A i \in 1 .. Len(toAgv) : us[i] = toAgv[i]
      /\ us[Len(toAgv) + 1] = m
    BY <1>1, <1>2, <1>3, <1>4, AppendFacts
<1>6. \A i \in DOMAIN us : i = Len(toAgv) + 1 \/ (i \in DOMAIN toAgv /\ us[i] = toAgv[i])
    BY <1>5
<1>7. \A x \in Range(us) : x = m \/ x \in Range(toAgv)
    BY <1>5, <1>6 DEF Range
<1>8. Waiting' \subseteq Waiting
    BY <1>1, <1>3, <1>4, <1>7 DEF Waiting
<1>9. Journey'
    <2>1. \A i \in DOMAIN toAgv : toAgv[i] # m
        BY <1>3 DEF Range
    <2>2. \A i, j \in DOMAIN us : us[i] = us[j] => i = j
        BY <1>2, <1>5, <1>6, <2>1 DEF Journey
    <2>3. \A i \in DOMAIN us : us[i] \in initiated \ (awaiting \ {m})
        BY <1>2, <1>3, <1>5, <1>6 DEF Journey
    <2> QED
        BY <1>1, <1>2, <1>4, <1>8, <2>2, <2>3 DEF Journey
<1>10. Issued'
    <2>1. PICK a \in Actions : a \in Range(Msg[m])
        BY <1>3, SomeAction
    <2>2. a \in DOMAIN caches /\ caches[a].ref = refOf[m]
        BY <1>1, <1>2, <2>1 DEF Journey
    <2>3. ASSUME NEW i \in DOMAIN refErrors
          PROVE  /\ 0 < refErrors[i] /\ refErrors[i] <= refOf[m]
                 /\ \A b \in DOMAIN caches : refErrors[i] < caches[b].ref
        <3>1. 0 < refErrors[i] /\ refErrors[i] <= ref /\ \A b \in DOMAIN caches : refErrors[i] < caches[b].ref
            BY <1>2 DEF Issued
        <3>2. refErrors[i] \in Int /\ refOf[m] \in Nat
            BY <1>2, <1>3, ElementFacts DEF MasterTypes
        <3> QED
            BY <2>2, <3>1, <3>2
    <2>4. ASSUME NEW n \in Invalid, n \in awaiting' \/ n \in Range(us)
          PROVE  n = m /\ Only(n) /\ 0 < refOf[n]
        <3>1. n \in awaiting \/ n \in Range(toAgv)
            BY <1>1, <1>7, <2>4
        <3> QED
            BY <1>2, <1>3, <3>1 DEF Issued
    <2>5. \A n : Only(n)' <=> Only(n)
        BY <1>1 DEF Only
    <2> QED
        BY <1>1, <1>4, <2>3, <2>4, <2>5 DEF Issued
<1>11. UNCHANGED << states, agvVars, refErrors, outcome >> /\ DOMAIN caches' = DOMAIN caches
    BY <1>1
<1> QED
    BY <1>3, <1>8, <1>9, <1>10, <1>11, MasterStep

LEMMA PublishFailsStep ==
    ASSUME StatePublicationAssumption, UniqueActions, IInv, Types', Told', NEW m, PublishFails(m)
    PROVE  IInv'
<1>1. /\ m \in awaiting /\ awaiting' = awaiting \ {m}
      /\ caches' = [a \in DOMAIN caches \ Range(Msg[m]) |-> caches[a]]
      /\ UNCHANGED << initiated, ref, refOf, refErrors, outcome, toAgv, states, agvVars, fate >>
    BY DEF PublishFails, Without, agvVars
<1>2. Types /\ MasterTypes /\ Journey /\ Issued
    BY DEF IInv, Types, References
<1>3. /\ m \in Messages /\ m \in initiated /\ m \in Waiting /\ m \notin Range(toAgv) /\ ~ Telling
      /\ \A n \in Invalid : Only(n) => n = m
    BY <1>1, AwaitingFacts
<1>4. Waiting' \subseteq Waiting
    BY <1>1 DEF Waiting
<1>5. /\ DOMAIN caches' = DOMAIN caches \ Range(Msg[m])
      /\ \A a \in DOMAIN caches' : caches'[a] = caches[a]
    BY <1>1
<1>6. Journey'
    <2>1. ASSUME NEW n \in awaiting', NEW a \in Range(Msg[n])
          PROVE  a \in DOMAIN caches' /\ caches'[a].ref = refOf'[n]
        <3>1. n \in awaiting /\ n \in Messages /\ n # m
            BY <1>1, <1>2, <2>1 DEF MasterTypes
        <3>2. a \in DOMAIN caches /\ caches[a].ref = refOf[n] /\ a \notin Range(Msg[m])
            BY <1>2, <1>3, <2>1, <3>1, OneMessage DEF Journey
        <3> QED
            BY <1>1, <1>5, <3>2
    <2>2. \A i \in DOMAIN toAgv : toAgv[i] \in initiated \ awaiting'
        BY <1>1, <1>2 DEF Journey
    <2> QED
        BY <1>1, <1>2, <1>4, <1>5, <2>1, <2>2 DEF Journey
<1>7. Issued'
    <2>1. ASSUME NEW n \in Invalid, n \in awaiting' \/ n \in Range(toAgv)
          PROVE  FALSE
        <3>1. n \in awaiting \/ n \in Range(toAgv)
            BY <1>1, <2>1
        <3>2. n = m
            BY <1>2, <1>3, <3>1 DEF Issued
        <3> QED
            BY <1>1, <1>3, <2>1, <3>2
    <2> QED
        BY <1>1, <1>2, <1>5, <2>1 DEF Issued
<1>8. UNCHANGED << states, agvVars, refErrors, outcome >>
    BY <1>1
<1> QED
    BY <1>3, <1>4, <1>5, <1>6, <1>7, <1>8, MasterStep

-----------------------------------------------------------------------------
(* A State message is dispatched *)

(* References change to those of es: they are references from before, and  *)
(* the last one for an error of the message under way.                     *)
LEMMA DispatchRefs ==
    ASSUME StatePublicationAssumption, Types, References, states # << >>,
           NEW es, es = Head(states).errors, NEW new, new = UpdateValidationErrors(es),
           NEW L, L = Level(Len(refErrors), states, 1)
    PROVE  /\ new \in Seq(Int) /\ Len(new) = L
           /\ L > Len(refErrors) => Telling /\ \E i \in DOMAIN new : new[i] = ref
           /\ \A i \in DOMAIN new : \/ \E j \in DOMAIN refErrors : new[i] = refErrors[j]
                                    \/ L > Len(refErrors) /\ new[i] = ref
<1>1. PICK n \in Nat : n = Len(refErrors) /\ DOMAIN refErrors = 1 .. n
    BY ElementFacts DEF Types, MasterTypes
<1>2. Head(states) = states[1] /\ states[1] \in State /\ 1 \in 1 .. Len(states)
    BY TailFacts DEF Types
<1>3. es \in Seq(Subject) /\ L = ValidationErrors(es) /\ L \in Nat
    <2>1. es \in Seq(Subject)
        BY <1>2 DEF State
    <2>2. L = ValidationErrors(es)
        BY <1>2 DEF Level
    <2> QED
        BY <2>1, <2>2, CountFacts
<1>4. L <= n \/ (Telling /\ L = n + 1)
    <2>1. \/ Level(Len(refErrors), states, 1) <= Level(Len(refErrors), states, 1 - 1)
          \/ Telling /\ Level(Len(refErrors), states, 1) = Level(Len(refErrors), states, 1 - 1) + 1
        BY <1>2 DEF References, Rises
    <2>2. Level(Len(refErrors), states, 1 - 1) = n
        BY <1>1 DEF Level
    <2> QED
        BY <2>1, <2>2
<1>5. refErrors \in Seq(Int) /\ ref \in Nat
    BY DEF Types, MasterTypes
<1>6. ref = 0 => L = n
    <2>1. ref = 0 => n = 0
        <3>1. ASSUME ref = 0, n # 0
              PROVE  FALSE
            <4>1. 1 \in DOMAIN refErrors
                BY <1>1, <3>1
            <4>2. 0 < refErrors[1] /\ refErrors[1] <= 0 /\ refErrors[1] \in Int
                BY <1>5, <3>1, <4>1, ElementFacts DEF References, Issued
            <4> QED
                BY <4>2
        <3> QED
            BY <3>1
    <2>2. Telling => ref # 0
        BY <1>5 DEF Telling, FoundInvalid
    <2> QED
        BY <1>1, <1>3, <1>4, <2>1, <2>2
<1>7. PICK known : known = refErrors
    OBVIOUS
<1>8. /\ new \in Seq(Int)
      /\ ref = 0 \/ L = n => new = known
      /\ ref # 0 /\ L < n =>
           /\ Len(new) = L
           /\ \A i \in DOMAIN new : \E j \in DOMAIN known : new[i] = known[j]
      /\ ref # 0 /\ L = n + 1 =>
           /\ Len(new) = n + 1
           /\ \A i \in DOMAIN known : new[i] = known[i]
           /\ new[n + 1] = ref
    BY <1>1, <1>3, <1>5, <1>7, UpdateFacts
<1>9. DOMAIN new = 1 .. Len(new) /\ Len(new) \in Nat
    BY <1>8, ElementFacts
<1>10. CASE L = n
    <2>1. new = known
        BY <1>8, <1>10
    <2> QED
        BY <1>1, <1>5, <1>7, <1>10, <2>1
<1>11. CASE L < n
    <2>1. ref # 0 /\ ~ (L > n)
        BY <1>1, <1>3, <1>6, <1>11
    <2> QED
        BY <1>1, <1>7, <1>8, <1>11, <2>1
<1>12. CASE L > n
    <2>1. ref # 0 /\ L = n + 1 /\ Telling
        BY <1>1, <1>3, <1>4, <1>6, <1>12
    <2>2. /\ Len(new) = n + 1 /\ new[n + 1] = ref
          /\ \A i \in DOMAIN known : new[i] = known[i]
        BY <1>8, <2>1
    <2>3. n + 1 \in DOMAIN new /\ \A i \in DOMAIN new : i = n + 1 \/ i \in DOMAIN known
        BY <1>1, <1>7, <1>9, <2>2
    <2> QED
        BY <1>1, <1>7, <1>8, <1>12, <2>1, <2>2, <2>3
<1> QED
    BY <1>1, <1>3, <1>10, <1>11, <1>12

(* What a State message st makes of the actions under way, when new are    *)
(* the references of errors and L the number of validation errors.         *)
Event(st, new, a) ==
    IF st.status[a] # Absent THEN st.status[a]
    ELSE IF \/ \E i \in DOMAIN st.errors : st.errors[i] = a
            \/ \E i \in DOMAIN new : new[i] = caches[a].ref THEN "rejected"
    ELSE Absent
Final(st, new) == {a \in DOMAIN caches : Event(st, new, a) \in Ended \cup {"rejected"}}

LEMMA DispatchFacts ==
    ASSUME StatePublicationAssumption, Types, References, DispatchState
    PROVE  \E st \in State, new \in Seq(Int) :
             /\ states # << >> /\ st = Head(states) /\ states' = Tail(states)
             /\ new = UpdateValidationErrors(st.errors) /\ refErrors' = new
             /\ outcome' = [a \in Actions |-> IF a \in Final(st, new) THEN Event(st, new, a) ELSE outcome[a]]
             /\ DOMAIN caches' = DOMAIN caches \ Final(st, new)
             /\ \A a \in DOMAIN caches' : caches'[a].ref = caches[a].ref
<1>1. states # << >> /\ states' = Tail(states) /\ refErrors' = UpdateValidationErrors(Head(states).errors)
    BY DEF DispatchState
<1>2. PICK st \in State : st = Head(states)
    BY <1>1, TailFacts DEF Types
<1>3. PICK new \in Seq(Int) : new = UpdateValidationErrors(st.errors)
    BY <1>1, <1>2, DispatchRefs
<1>4. refErrors' = new
    BY <1>1, <1>2, <1>3
<1>5. DOMAIN new = 1 .. Len(new) /\ DOMAIN st.errors = 1 .. Len(st.errors)
    BY ElementFacts DEF State
<1>6. ASSUME NEW a \in DOMAIN caches
      PROVE  EventFor(a, st) = Event(st, new, a)
    <2>1. Contains(st.errors, a) <=> \E i \in DOMAIN st.errors : st.errors[i] = a
        BY <1>5 DEF Contains
    <2>2. Contains(new, caches[a].ref) <=> \E i \in DOMAIN new : new[i] = caches[a].ref
        BY <1>5 DEF Contains
    <2>3. EventFor(a, st) =
            CASE st.status[a] # Absent -> st.status[a]
              [] st.status[a] = Absent /\ Contains(st.errors, a) -> "rejected"
              [] OTHER -> IF Contains(new, caches[a].ref) THEN "rejected" ELSE Absent
        BY <1>4 DEF EventFor
    <2>4. CASE st.status[a] # Absent
        BY <2>3, <2>4 DEF Event
    <2>5. CASE st.status[a] = Absent /\ Contains(st.errors, a)
        BY <2>1, <2>3, <2>5 DEF Event
    <2>6. CASE st.status[a] = Absent /\ ~ Contains(st.errors, a)
        BY <2>1, <2>2, <2>3, <2>6 DEF Event
    <2> QED
        BY <2>4, <2>5, <2>6
<1>7. PICK event : event = [a \in DOMAIN caches |-> EventFor(a, st)]
    OBVIOUS
<1>8. PICK final : final = {a \in DOMAIN caches : event[a] \in Ended \cup {"rejected"}}
    OBVIOUS
<1>9. /\ outcome' = [a \in Actions |-> IF a \in final THEN event[a] ELSE outcome[a]]
      /\ caches' = [a \in DOMAIN caches \ final |-> [caches[a] EXCEPT !.last = event[a]]]
    BY <1>2, <1>7, <1>8 DEF DispatchState
<1>10. \A a \in DOMAIN caches : event[a] = Event(st, new, a)
    BY <1>6, <1>7
<1>11. final = Final(st, new)
    BY <1>8, <1>10 DEF Final
<1>12. \A a \in final : a \in DOMAIN caches
    BY <1>8
<1>13. outcome' = [a \in Actions |-> IF a \in Final(st, new) THEN Event(st, new, a) ELSE outcome[a]]
    BY <1>9, <1>10, <1>11, <1>12
<1>14. ASSUME NEW a \in DOMAIN caches'
       PROVE  caches'[a].ref = caches[a].ref
    <2>1. PICK c \in Cache : c = caches[a]
        BY <1>9 DEF Types, MasterTypes
    <2>2. caches'[a] = [c EXCEPT !.last = event[a]]
        BY <1>9, <2>1
    <2> QED
        BY <2>1, <2>2 DEF Cache
<1>15. DOMAIN caches' = DOMAIN caches \ Final(st, new)
    BY <1>9, <1>11
<1> QED
    BY <1>1, <1>2, <1>3, <1>4, <1>13, <1>14, <1>15

(* What is dispatched from a State message st is true, and when it is the  *)
(* error of a message, nothing remains under way.                          *)
LEMMA FinalFacts ==
    ASSUME StatePublicationAssumption, UniqueActions, IInv, states # << >>,
           NEW st, st = Head(states), NEW new, new = UpdateValidationErrors(st.errors),
           NEW L, L = Level(Len(refErrors), states, 1)
    PROVE  /\ \A a \in DOMAIN caches : st.status[a] \in Ended => a \in Final(st, new)
           /\ \A a \in Final(st, new) : a \in Actions
           /\ \A a \in Final(st, new) : Event(st, new, a) \in Ended => fate[a] = "ended"
           /\ \A a \in Final(st, new) : Event(st, new, a) = "rejected" => fate[a] = "rejected"
           /\ \A m \in Waiting : \A a \in Range(Msg[m]) : a \notin Final(st, new)
           /\ L > Len(refErrors) => DOMAIN caches \subseteq Final(st, new)
           /\ Telling /\ ~ (L > Len(refErrors)) => Final(st, new) = {}
<1>1. /\ Types /\ Journey /\ Truth /\ References
      /\ DOMAIN caches \subseteq Actions /\ fate \in [Actions -> Fate]
    BY DEF IInv, Types, MasterTypes, AgvTypes
<1>2. st = states[1] /\ 1 \in DOMAIN states
    BY <1>1, TailFacts DEF Types
<1>3. IsTrue(fate, Waiting, st.status, st.errors)
    BY <1>1, <1>2 DEF Truth, AllTrue
<1>4. /\ L > Len(refErrors) => Telling /\ \E i \in DOMAIN new : new[i] = ref
      /\ \A i \in DOMAIN new : \/ \E j \in DOMAIN refErrors : new[i] = refErrors[j]
                               \/ L > Len(refErrors) /\ new[i] = ref
    BY <1>1, DispatchRefs
<1>5. ASSUME NEW a \in DOMAIN caches, NEW i \in DOMAIN new, new[i] = caches[a].ref
      PROVE  L > Len(refErrors)
    <2>1. ASSUME NEW j \in DOMAIN refErrors, new[i] = refErrors[j]
          PROVE  FALSE
        <3>1. refErrors[j] < caches[a].ref
            BY <1>1, <1>5 DEF References, Issued
        <3>2. refErrors[j] \in Int
            BY <1>1, ElementFacts DEF Types, MasterTypes
        <3> QED
            BY <1>5, <2>1, <3>1, <3>2
    <2> QED
        BY <1>4, <2>1
<1>6. ASSUME NEW m \in Invalid, FoundInvalid(m), NEW a \in DOMAIN caches
      PROVE  /\ a \in Range(Msg[m]) /\ caches[a].ref = ref /\ fate[a] = "rejected"
             /\ st.status[a] = Absent /\ a \in InvalidActions
    <2>1. a \in Range(Msg[m]) /\ caches[a].ref = ref /\ fate[a] = "rejected"
        BY <1>6 DEF FoundInvalid, Only
    <2>2. st.status[a] = Absent
        BY <1>1, <1>3, <2>1 DEF IsTrue
    <2> QED
        BY <2>1, <2>2 DEF InvalidActions
<1>7. ASSUME NEW a \in DOMAIN caches, st.status[a] \in Ended
      PROVE  a \in Final(st, new)
    BY <1>7 DEF Final, Event, Ended, Absent
<1>8. ASSUME NEW a \in Final(st, new), Event(st, new, a) \in Ended
      PROVE  fate[a] = "ended"
    <2>1. a \in DOMAIN caches /\ st.status[a] \in Ended
        BY <1>8 DEF Final, Event, Ended, Absent
    <2> QED
        BY <1>1, <1>3, <2>1 DEF IsTrue
<1>9. ASSUME NEW a \in Final(st, new), Event(st, new, a) = "rejected"
      PROVE  fate[a] = "rejected"
    <2>1. a \in DOMAIN caches /\ a \in Actions
        BY <1>1 DEF Final
    <2>2. st.status[a] = Absent
        <3>1. st.status[a] \in Status
            <4>1. st \in State
                BY <1>1, TailFacts DEF Types
            <4> QED
                BY <2>1, <4>1 DEF State
        <3> QED
            BY <1>9, <3>1 DEF Event, Status, Ended, Absent
    <2>3. CASE \E i \in DOMAIN st.errors : st.errors[i] = a
        <3>1. fate[a] \in {"ended", "rejected"}
            BY <1>3, <2>1, <2>3 DEF IsTrue
        <3>2. ASSUME fate[a] = "ended"
              PROVE  FALSE
            <4>1. Known(DOMAIN caches, states, a, 1 - 1)
                BY <1>1, <1>2, <2>1, <2>2, <2>3, <3>2 DEF Truth, StatusFirst
            <4>2. 1 .. (1 - 1) = {}
                OBVIOUS
            <4> QED
                BY <2>1, <4>1, <4>2 DEF Known
        <3> QED
            BY <3>1, <3>2
    <2>4. CASE \E i \in DOMAIN new : new[i] = caches[a].ref
        BY <1>4, <1>5, <1>6, <2>1, <2>4 DEF Telling
    <2> QED
        BY <1>9, <2>2, <2>3, <2>4 DEF Event, Absent
<1>10. ASSUME NEW m \in Waiting, NEW a \in Range(Msg[m]), a \in Final(st, new)
       PROVE  FALSE
    <2>1. m \in Messages /\ fate[a] = "none"
        BY <1>1, <1>10 DEF Journey, Waiting
    <2>2. fate[a] \in {"ended", "rejected"}
        BY <1>8, <1>9, <1>10 DEF Final
    <2> QED
        BY <2>1, <2>2
<1>11. ASSUME L > Len(refErrors), NEW a \in DOMAIN caches
       PROVE  a \in Final(st, new)
    <2>1. PICK m \in Invalid : FoundInvalid(m)
        BY <1>4, <1>11 DEF Telling
    <2>2. caches[a].ref = ref /\ st.status[a] = Absent
        BY <1>6, <2>1
    <2>3. \E i \in DOMAIN new : new[i] = caches[a].ref
        BY <1>4, <1>11, <2>2
    <2> QED
        BY <2>2, <2>3 DEF Final, Event
<1>12. ASSUME Telling, ~ (L > Len(refErrors)), NEW a \in Final(st, new)
       PROVE  FALSE
    <2>1. a \in DOMAIN caches /\ a \in Actions
        BY <1>1 DEF Final
    <2>2. st.status[a] = Absent /\ a \in InvalidActions
        BY <1>6, <1>12, <2>1 DEF Telling
    <2>3. ~ \E i \in DOMAIN st.errors : st.errors[i] = a
        BY <1>3, <2>1, <2>2 DEF IsTrue
    <2>4. ~ \E i \in DOMAIN new : new[i] = caches[a].ref
        BY <1>5, <1>12, <2>1
    <2> QED
        BY <2>2, <2>3, <2>4 DEF Final, Event, Ended, Absent
<1>13. \A a \in Final(st, new) : a \in Actions
    BY <1>1 DEF Final
<1> QED
    BY <1>7, <1>8, <1>9, <1>10, <1>11, <1>12, <1>13

LEMMA DispatchStep ==
    ASSUME StatePublicationAssumption, UniqueActions, IInv, Types', Told', DispatchState
    PROVE  IInv'
<1>1. /\ Types /\ Journey /\ Checking /\ Truth /\ References /\ Issued /\ EventsTrue
      /\ UNCHANGED << initiated, awaiting, ref, refOf, toAgv, checking, status, errors, fate, online >>
    BY DEF IInv, References, DispatchState, agvVars, stateVars
<1>2. PICK st \in State, new \in Seq(Int) :
        /\ states # << >> /\ st = Head(states) /\ states' = Tail(states)
        /\ new = UpdateValidationErrors(st.errors) /\ refErrors' = new
        /\ outcome' = [a \in Actions |-> IF a \in Final(st, new) THEN Event(st, new, a) ELSE outcome[a]]
        /\ DOMAIN caches' = DOMAIN caches \ Final(st, new)
        /\ \A a \in DOMAIN caches' : caches'[a].ref = caches[a].ref
    BY <1>1, DispatchFacts
<1>3. PICK L : L = Level(Len(refErrors), states, 1)
    OBVIOUS
<1>4. /\ \A a \in DOMAIN caches : st.status[a] \in Ended => a \in Final(st, new)
      /\ \A a \in Final(st, new) : a \in Actions
      /\ \A a \in Final(st, new) : Event(st, new, a) \in Ended => fate[a] = "ended"
      /\ \A a \in Final(st, new) : Event(st, new, a) = "rejected" => fate[a] = "rejected"
      /\ \A m \in Waiting : \A a \in Range(Msg[m]) : a \notin Final(st, new)
      /\ L > Len(refErrors) => DOMAIN caches \subseteq Final(st, new)
      /\ Telling /\ ~ (L > Len(refErrors)) => Final(st, new) = {}
    BY <1>2, <1>3, FinalFacts
<1>5. /\ Len(new) = L
      /\ L > Len(refErrors) => Telling
      /\ \A i \in DOMAIN new : \/ \E j \in DOMAIN refErrors : new[i] = refErrors[j]
                               \/ L > Len(refErrors) /\ new[i] = ref
    BY <1>1, <1>2, <1>3, DispatchRefs
<1>6. Waiting' = Waiting
    BY <1>1 DEF Waiting
<1>7. Journey'
    <2>1. ASSUME NEW m \in awaiting, NEW a \in Range(Msg[m])
          PROVE  a \in DOMAIN caches' /\ caches'[a].ref = refOf[m]
        <3>1. m \in Waiting
            BY <1>1 DEF Waiting, Types, MasterTypes
        <3>2. a \in DOMAIN caches /\ caches[a].ref = refOf[m]
            BY <1>1 DEF Journey
        <3> QED
            BY <1>2, <1>4, <3>1, <3>2
    <2>2. \A a \in DOMAIN caches' : \E m \in initiated : a \in Range(Msg[m])
        BY <1>1, <1>2 DEF Journey
    <2> QED
        BY <1>1, <1>6, <2>1, <2>2 DEF Journey
<1>8. Checking'
    BY <1>1, <1>6 DEF Checking
<1>9. Truth'
    <2>1. /\ AllTrue(fate, Waiting, status, Subjects(errors), states)
          /\ StatusFirst(fate, DOMAIN caches, states)
          /\ EndsKnown(fate, DOMAIN caches, online, status, states)
        BY <1>1 DEF Truth
    <2>2. PICK D, us : D = DOMAIN caches' /\ us = states'
        OBVIOUS
    <2>3. D \subseteq DOMAIN caches /\ \A a \in DOMAIN caches : Head(states).status[a] \in Ended => a \notin D
        BY <1>2, <1>4, <2>2
    <2>4. /\ AllTrue(fate, Waiting, status, Subjects(errors), Tail(states))
          /\ StatusFirst(fate, D, Tail(states))
          /\ EndsKnown(fate, D, online, status, Tail(states))
        BY <1>1, <1>2, <2>1, <2>3, TruthNext DEF Types
    <2> QED
        BY <1>1, <1>2, <1>6, <2>2, <2>4 DEF Truth
<1>10. ASSUME NEW m, Only(m), Final(st, new) = {}
       PROVE  Only(m)'
    BY <1>1, <1>2, <1>10 DEF Only
<1>11. Issued'
    <2>1. ASSUME NEW i \in DOMAIN new
          PROVE  /\ 0 < new[i] /\ new[i] <= ref
                 /\ \A a \in DOMAIN caches' : new[i] < caches'[a].ref
        <3>1. CASE \E j \in DOMAIN refErrors : new[i] = refErrors[j]
            BY <1>1, <1>2, <3>1 DEF Issued
        <3>2. CASE L > Len(refErrors) /\ new[i] = ref
            <4>1. 0 < ref /\ ref \in Nat
                BY <1>1, <1>5, <3>2 DEF Telling, FoundInvalid, Types, MasterTypes
            <4>2. DOMAIN caches' = {}
                BY <1>2, <1>4, <3>2
            <4> QED
                BY <3>2, <4>1, <4>2
        <3> QED
            BY <1>5, <3>1, <3>2
    <2>2. ASSUME NEW m \in Invalid, m \in awaiting \/ m \in Range(toAgv)
          PROVE  Only(m)' /\ 0 < refOf[m]
        <3>1. Only(m) /\ 0 < refOf[m]
            BY <1>1, <2>2 DEF Issued
        <3>2. m \in Waiting
            BY <2>2 DEF Waiting, StatePublicationAssumption
        <3>3. Final(st, new) = {}
            BY <1>4, <3>1, <3>2 DEF Only, Final
        <3> QED
            BY <1>10, <3>1, <3>3
    <2> QED
        BY <1>1, <1>2, <2>1, <2>2 DEF Issued
<1>12. References'
    <2>1. PICK n \in Nat : n = Len(refErrors)
        BY <1>1, ElementFacts DEF Types, MasterTypes
    <2>2. PICK v \in Nat : v = ValidationErrors(Subjects(errors))
        BY <1>1, ErrorSubjects
    <2>3. PICK c : c = Telling'
        OBVIOUS
    <2>4. Telling => Telling' \/ L > n
        <3>1. ASSUME NEW m \in Invalid, FoundInvalid(m), ~ (L > n)
              PROVE  FoundInvalid(m)'
            <4>1. Final(st, new) = {}
                BY <1>4, <2>1, <3>1 DEF Telling
            <4>2. Only(m)'
                BY <1>10, <3>1, <4>1 DEF FoundInvalid
            <4> QED
                BY <1>1, <1>6, <3>1, <4>2 DEF FoundInvalid
        <3> QED
            BY <3>1 DEF Telling
    <2>5. Rises(n, states, v, Telling) /\ states \in Seq(State)
        BY <1>1, <2>1, <2>2 DEF References, Types
    <2>6. Telling => c \/ Level(n, states, 1) > n
        BY <1>3, <2>1, <2>3, <2>4
    <2>7. Rises(Level(n, states, 1), Tail(states), v, c)
        BY <1>2, <2>5, <2>6, RisesNext
    <2> QED
        BY <1>1, <1>2, <1>3, <1>5, <1>11, <2>1, <2>2, <2>3, <2>7 DEF References
<1>13. EventsTrue'
    <2>1. \A a \in Actions : outcome'[a] = IF a \in Final(st, new) THEN Event(st, new, a) ELSE outcome[a]
        BY <1>2
    <2> QED
        BY <1>1, <1>4, <2>1 DEF EventsTrue
<1> QED
    BY <1>7, <1>8, <1>9, <1>12, <1>13 DEF IInv

LEMMA InitInv ==
    ASSUME StatePublicationAssumption, Init
    PROVE  IInv
<1>1. Types /\ Told
    BY InitTypes
<1>2. /\ DOMAIN toAgv = {} /\ DOMAIN checking = {} /\ DOMAIN errors = {} /\ DOMAIN states = {}
      /\ DOMAIN refErrors = {} /\ DOMAIN caches = {} /\ Len(states) = 0 /\ Len(refErrors) = 0
      /\ awaiting = {} /\ Range(toAgv) = {}
    BY DEF Init, NoAction, Range
<1>3. /\ \A a \in Actions : fate[a] = "none" /\ status[a] = Absent /\ outcome[a] = "none"
      /\ \A m \in Messages : \A a \in Range(Msg[m]) : fate[a] = "none"
      /\ \A a \in InvalidActions : fate[a] = "none"
    BY MessageFacts DEF Init, InvalidActions, StatePublicationAssumption
<1>4. Journey
    BY <1>2, <1>3 DEF Journey, Waiting
<1>5. Checking
    BY <1>2, <1>3 DEF Checking
<1>6. Subjects(errors) = << >> /\ DOMAIN Subjects(errors) = {}
    BY <1>2 DEF Subjects
<1>7. Truth
    BY <1>2, <1>3, <1>6 DEF Truth, AllTrue, IsTrue, StatusFirst, EndsKnown, Ended, Absent
<1>8. ValidationErrors(Subjects(errors)) <= 0
    <2>1. {i \in DOMAIN Subjects(errors) : Subjects(errors)[i] \in Messages} = {}
        BY <1>6
    <2>2. ValidationErrors(Subjects(errors)) = Cardinality({})
        BY <2>1, Zenon DEF ValidationErrors
    <2> QED
        BY <2>2, FS_EmptySet
<1>9. References
    BY <1>2, <1>8 DEF References, Issued, Rises, Level, StatePublicationAssumption
<1>10. EventsTrue
    BY <1>3 DEF EventsTrue, Ended
<1> QED
    BY <1>1, <1>4, <1>5, <1>7, <1>9, <1>10 DEF IInv

LEMMA NextInv ==
    ASSUME StatePublicationAssumption, UniqueActions, InvalidAlone, IInv, [Next]_vars
    PROVE  IInv'
<1>1. Types' /\ Told'
    BY NextTypes DEF IInv
<1>2. CASE \E m \in Messages : InitiateInstantActions(m) \/ Published(m) \/ PublishFails(m)
    BY <1>1, <1>2, InitiateStep, PublishedStep, PublishFailsStep
<1>3. CASE ReceiveInstantActions
    BY <1>1, <1>3, ReceiveStep
<1>4. CASE CheckInstantAction
    BY <1>1, <1>4, CheckStep
<1>5. CASE \E a \in Actions : StartAction(a) \/ \E s \in Ended : EndAction(a, s)
    BY <1>1, <1>5, StartStep, EndStep
<1>6. CASE \/ LoseInstantActions \/ PublishCompletes \/ PublishPeriodically
           \/ UpdateErrors \/ AcceptOrder \/ ConnectionBreaks \/ Reconnect
    BY <1>1, <1>6, QuietSteps
<1>7. CASE DispatchState
    BY <1>1, <1>7, DispatchStep
<1>8. CASE UNCHANGED vars
    <2>1. /\ UNCHANGED << masterVars, checking, status, errors, fate, online, states, toAgv >>
        BY <1>8 DEF vars, agvVars, stateVars
    <2>2. Within(Subjects(errors'), Subjects(errors))
        BY <2>1, WithinItself
    <2> QED
        BY <1>1, <2>1, <2>2, QuietStep DEF Follows
<1> QED
    BY <1>2, <1>3, <1>4, <1>5, <1>6, <1>7, <1>8 DEF Next

(* The events of master control are true: what it reports as rejected was  *)
(* never executed, what it reports as ended has ended, and nothing is      *)
(* reported of an action whose publication failed, if actionIds are used   *)
(* once and messages that are invalid are not under way together with      *)
(* others (_dispatchState, _updateInstantActionsValidationError).          *)
THEOREM EventsTrueHolds ==
    ASSUME UniqueActions, InvalidAlone
    PROVE  Spec => []EventsTrue
<1>1. Init => IInv
    BY InitInv, StatePublicationAssumption
<1>2. IInv /\ [Next]_vars => IInv'
    BY NextInv, StatePublicationAssumption
<1>3. IInv => EventsTrue
    BY DEF IInv
<1> QED
    BY <1>1, <1>2, <1>3, PTL DEF Spec
=============================================================================
