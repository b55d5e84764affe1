----------------------- MODULE AgentSchedule_proofs -----------------------
(***************************************************************************)
(* Theorems about AgentSchedule, for any number of schedules, heartbeats,  *)
(* requests and crashes.                                                   *)
(***************************************************************************)
EXTENDS AgentSchedule, FiniteSetTheorems, TLAPS

LEMMA SetNextType ==
  ASSUME TypeOK, NEW s \in Schedules, NEW v \in {"null", "future", "past"}, SetNext(s, v)
  PROVE  /\ nextRunAt' \in [Schedules -> {"null", "future", "past"}]
         /\ earlier' \in [Schedules -> SUBSET Schedules]
         /\ nextRunAt'[s] = v
         /\ \A r \in Schedules \ {s} : nextRunAt'[r] = nextRunAt[r]
<1>1. \A r \in Schedules : earlier[r] \ {s} \in SUBSET Schedules
  BY DEF TypeOK
<1> QED
  BY <1>1 DEF TypeOK, SetNext

LEMMA SetPastType ==
  ASSUME TypeOK, NEW s \in Schedules, SetPast(s)
  PROVE  /\ nextRunAt' \in [Schedules -> {"null", "future", "past"}]
         /\ earlier' \in [Schedules -> SUBSET Schedules]
         /\ nextRunAt'[s] = "past"
         /\ \A r \in Schedules \ {s} : nextRunAt'[r] = nextRunAt[r]
BY DEF TypeOK, SetPast

(* A request under way is not NoRequest: its operation tells. *)
LEMMA UnderWay ==
  ASSUME TypeOK, NEW o \in Operators, request[o].op \in Ops
  PROVE  request[o] \in Request
BY DEF TypeOK, NoRequest, Ops

LEMMA AnsweredType ==
  ASSUME TypeOK, NEW o \in Operators, Answered(o)
  PROVE  request' \in [Operators -> Request \cup {NoRequest}]
BY DEF TypeOK, Answered

LEMMA ReadType ==
  ASSUME TypeOK, NEW b \in Beats, NEW T, Read(b, T)
  PROVE  task' \in [Beats -> [Schedules -> {"idle", "read", "started"}]]
BY DEF TypeOK, Read

LEMMA TypeStep == ASSUME TypeOK, [Next]_vars PROVE TypeOK'
<1> USE DEF row, times, bounds
<1>1. ASSUME NEW S \in SUBSET Schedules, BecomePast(S) PROVE TypeOK'
  <2>1. Past \in SUBSET Schedules
    BY DEF Past
  <2>2. nextRunAt' \in [Schedules -> {"null", "future", "past"}]
    BY <1>1 DEF TypeOK, BecomePast
  <2>3. earlier' \in [Schedules -> SUBSET Schedules]
    BY <1>1, <2>1 DEF TypeOK, BecomePast
  <2> QED
    BY <1>1, <2>2, <2>3 DEF TypeOK, BecomePast
<1>2. ASSUME NEW b \in Beats, ProcessDueSchedules(b) \/ Crash(b) PROVE TypeOK'
  BY <1>2, ReadType, BoundsAssumption DEF TypeOK, ProcessDueSchedules, Crash
<1>3. ASSUME NEW b \in Beats, NEW s \in Schedules, MarkRunStarted(b, s) PROVE TypeOK'
  <2>1. task' \in [Beats -> [Schedules -> {"idle", "read", "started"}]]
    BY <1>3 DEF TypeOK, MarkRunStarted
  <2> QED
    BY <1>3, <2>1, SetNextType DEF TypeOK, MarkRunStarted
<1>4. ASSUME NEW b \in Beats, NEW s \in Schedules, DispatchAgentTask(b, s) PROVE TypeOK'
  <2>1. task' \in [Beats -> [Schedules -> {"idle", "read", "started"}]]
    BY <1>4 DEF TypeOK, DispatchAgentTask
  <2> QED
    BY <1>4, <2>1 DEF TypeOK, DispatchAgentTask
<1>5. ASSUME NEW o \in Operators, NEW op \in Ops, NEW s \in Schedules,
             FindAndVerifyAccess(o, op, s)
      PROVE  TypeOK'
  BY <1>5 DEF TypeOK, FindAndVerifyAccess, Request
<1>6. ASSUME NEW o \in Operators, ToggleEnabled(o) PROVE TypeOK'
  <2>1. request[o] \in Request
    BY <1>6, UnderWay DEF ToggleEnabled, Ops
  <2>2. request[o].schedule \in Schedules
    BY <2>1 DEF Request
  <2>3. \E v \in {"null", "future", "past"} : SetNext(request[o].schedule, v)
    BY <1>6 DEF ToggleEnabled
  <2> QED
    BY <1>6, <2>2, <2>3, SetNextType, AnsweredType DEF TypeOK, ToggleEnabled
<1>7. ASSUME NEW o \in Operators, TogglePaused(o) PROVE TypeOK'
  <2>1. request[o] \in Request
    BY <1>7, UnderWay DEF TogglePaused, Ops
  <2>2. request[o].schedule \in Schedules
    BY <2>1 DEF Request
  <2>3. \E v \in {"null", "future", "past"} : SetNext(request[o].schedule, v)
    BY <1>7 DEF TogglePaused
  <2> QED
    BY <1>7, <2>2, <2>3, SetNextType, AnsweredType DEF TypeOK, TogglePaused
<1>8. ASSUME NEW o \in Operators, UpdateSchedule(o) PROVE TypeOK'
  <2>1. request[o] \in Request
    BY <1>8, UnderWay DEF UpdateSchedule, Ops
  <2>2. request[o].schedule \in Schedules /\ request[o].nextRunAt \in {"null", "future", "past"}
    BY <2>1 DEF Request
  <2>3. \/ \E v \in {"null", "future", "past"} : SetNext(request[o].schedule, v)
        \/ SetPast(request[o].schedule)
    BY <1>8, <2>2 DEF UpdateSchedule
  <2> QED
    BY <1>8, <2>2, <2>3, SetNextType, SetPastType, AnsweredType DEF TypeOK, UpdateSchedule
<1>9. ASSUME NEW o \in Operators, ResetToDefault(o) PROVE TypeOK'
  <2>1. request[o] \in Request
    BY <1>9, UnderWay DEF ResetToDefault, Ops
  <2>2. request[o].schedule \in Schedules
    BY <2>1 DEF Request
  <2> QED
    BY <1>9, <2>2, SetNextType, AnsweredType DEF TypeOK, ResetToDefault
<1>10. ASSUME NEW enabled \in BOOLEAN, BulkToggle(enabled) PROVE TypeOK'
  BY <1>10, BoundsAssumption DEF TypeOK, BulkToggle
<1>11. CASE UNCHANGED vars
  BY <1>11 DEF vars, TypeOK
<1> QED
  BY <1>1, <1>2, <1>3, <1>4, <1>5, <1>6, <1>7, <1>8, <1>9, <1>10, <1>11
     DEF Next, DispatchSchedule, WriteRequest

(* Every variable keeps its type. *)
THEOREM TypeCorrect == Spec => []TypeOK
<1>1. Init => TypeOK
  BY DEF Init, TypeOK
<1> QED
  BY <1>1, TypeStep, PTL DEF Spec
----------------------------------------------------------------------------
(* A request that leaves a schedule without its next run had read flags that are not so. *)
LEMMA WriteStrands ==
  ASSUME TypeOK, NEW o \in Operators, WriteRequest(o), NEW s \in Schedules,
         ~Stranded(s), Stranded(s)'
  PROVE  Stale(request[o])
<1> DEFINE q == request[o]
<1>1. request[o] \in Request
  BY UnderWay DEF WriteRequest, ToggleEnabled, TogglePaused, UpdateSchedule, ResetToDefault, Ops
<1>2. /\ q.schedule \in Schedules /\ q.isEnabled \in BOOLEAN /\ q.isPaused \in BOOLEAN
      /\ q.nextRunAt \in {"null", "future", "past"} /\ q.op \in Ops
  BY <1>1 DEF Request
<1> HIDE DEF q
<1>t. isEnabled \in [Schedules -> BOOLEAN] /\ isPaused \in [Schedules -> BOOLEAN]
  BY DEF TypeOK
<1>3. CASE ToggleEnabled(o)
  <2>1. /\ isEnabled' = [isEnabled EXCEPT ![q.schedule] = (q.op = "enable")] /\ isPaused' = isPaused
        /\ SetNext(q.schedule, IF q.op = "enable" /\ ~q.isPaused THEN "future" ELSE "null")
    BY <1>3 DEF ToggleEnabled, q
  <2>2. /\ nextRunAt'[q.schedule] = IF q.op = "enable" /\ ~q.isPaused THEN "future" ELSE "null"
        /\ \A r \in Schedules \ {q.schedule} : nextRunAt'[r] = nextRunAt[r]
    BY <1>2, <2>1, SetNextType
  <2> QED
    BY <1>2, <1>t, <2>1, <2>2 DEF Stranded, Active, Stale, q
<1>4. CASE TogglePaused(o)
  <2>1. /\ isPaused' = [isPaused EXCEPT ![q.schedule] = (q.op = "pause")] /\ isEnabled' = isEnabled
        /\ SetNext(q.schedule, IF q.op = "resume" /\ q.isEnabled THEN "future" ELSE "null")
        /\ q.op \in {"pause", "resume"}
    BY <1>4 DEF TogglePaused, q
  <2>2. /\ nextRunAt'[q.schedule] = IF q.op = "resume" /\ q.isEnabled THEN "future" ELSE "null"
        /\ \A r \in Schedules \ {q.schedule} : nextRunAt'[r] = nextRunAt[r]
    BY <1>2, <2>1, SetNextType
  <2> QED
    BY <1>2, <1>t, <2>1, <2>2 DEF Stranded, Active, Stale, q
<1>5. CASE UpdateSchedule(o)
  <2>1. /\ isPaused' = isPaused /\ isEnabled' = isEnabled
        /\ IF q.isEnabled /\ ~q.isPaused THEN SetNext(q.schedule, "future")
           ELSE IF q.nextRunAt = "past" THEN SetPast(q.schedule)
           ELSE SetNext(q.schedule, q.nextRunAt)
    BY <1>5 DEF UpdateSchedule, q
  <2>2. /\ q.isEnabled /\ ~q.isPaused => nextRunAt'[q.schedule] # "null"
        /\ \A r \in Schedules \ {q.schedule} : nextRunAt'[r] = nextRunAt[r]
    BY <1>2, <2>1, SetNextType, SetPastType
  <2> QED
    BY <1>2, <1>t, <2>1, <2>2 DEF Stranded, Active, Stale, q
<1>6. CASE ResetToDefault(o)
  <2>1. /\ isEnabled' = [isEnabled EXCEPT ![q.schedule] = FALSE]
        /\ isPaused' = [isPaused EXCEPT ![q.schedule] = FALSE]
        /\ SetNext(q.schedule, "null")
    BY <1>6 DEF ResetToDefault, q
  <2>2. \A r \in Schedules \ {q.schedule} : nextRunAt'[r] = nextRunAt[r]
    BY <1>2, <2>1, SetNextType
  <2> QED
    BY <1>2, <1>t, <2>1, <2>2 DEF Stranded, Active
<1> QED
  BY <1>3, <1>4, <1>5, <1>6 DEF WriteRequest

LEMMA StrandStep ==
  ASSUME TypeOK, [Next]_vars, NEW s \in Schedules, ~Stranded(s), Stranded(s)'
  PROVE  BulkToggle(TRUE) \/ \E o \in Operators : WriteRequest(o) /\ Stale(request[o])
<1> USE DEF row, times, bounds
<1>1. ASSUME NEW S \in SUBSET Schedules, BecomePast(S) PROVE FALSE
  BY <1>1 DEF BecomePast, Stranded, Active
<1>2. ASSUME NEW b \in Beats, NEW r \in Schedules, MarkRunStarted(b, r) PROVE FALSE
  <2>1. /\ nextRunAt'[r] = "future" /\ UNCHANGED <<isEnabled, isPaused>>
        /\ \A x \in Schedules \ {r} : nextRunAt'[x] = nextRunAt[x]
    BY <1>2, SetNextType DEF MarkRunStarted
  <2> QED
    BY <2>1 DEF Stranded, Active
<1>3. ASSUME UNCHANGED row PROVE FALSE
  BY <1>3 DEF Stranded, Active
<1>4. ASSUME NEW b \in Beats, NEW r \in Schedules,
             ProcessDueSchedules(b) \/ Crash(b) \/ DispatchAgentTask(b, r)
      PROVE  FALSE
  BY <1>3, <1>4 DEF ProcessDueSchedules, Crash, DispatchAgentTask
<1>5. ASSUME NEW o \in Operators, NEW op, NEW r, FindAndVerifyAccess(o, op, r) PROVE FALSE
  BY <1>3, <1>5 DEF FindAndVerifyAccess
<1>6. ASSUME BulkToggle(FALSE) PROVE FALSE
  BY <1>6 DEF BulkToggle, Stranded, Active
<1>7. CASE UNCHANGED vars
  BY <1>3, <1>7 DEF vars
<1> QED
  BY <1>1, <1>2, <1>4, <1>5, <1>6, <1>7, WriteStrands DEF Next, DispatchSchedule

(* Heartbeats never leave a schedule that is on without its next run, and of the requests
   only those do that act on flags they read before another changed them, and the bulk one. *)
THEOREM StrandingIsStale == Spec => OnlyStaleWritesStrand
<1>1. TypeOK /\ [Next]_vars =>
        [\A s \in Schedules : ~Stranded(s) /\ Stranded(s)' =>
           \/ BulkToggle(TRUE)
           \/ \E o \in Operators : WriteRequest(o) /\ Stale(request[o])]_vars
  BY StrandStep
<1> QED
  BY <1>1, TypeCorrect, PTL DEF Spec, OnlyStaleWritesStrand
----------------------------------------------------------------------------
(* A schedule leaves the past. *)
LEMMA OrderWithout ==
  ASSUME TypeOK, InOrder, NEW s \in Schedules, NEW v \in {"null", "future"}, SetNext(s, v)
  PROVE  InOrder' /\ \A r \in Schedules : earlier'[r] \subseteq earlier[r]
<1>1. Past' = Past \ {s}
  BY DEF Past, SetNext, TypeOK
<1>2. earlier' = [r \in Schedules |-> IF r = s THEN {} ELSE earlier[r] \ {s}]
  BY DEF SetNext
<1>3. Past \subseteq Schedules
  BY DEF Past
<1> QED
  BY <1>1, <1>2, <1>3 DEF InOrder

(* Schedules that were not past come after all that were, equal among themselves. *)
LEMMA OrderWithLast ==
  ASSUME TypeOK, InOrder, NEW S \in SUBSET Schedules, BecomePast(S)
  PROVE  InOrder' /\ \A r \in Schedules \ S : earlier'[r] = earlier[r]
<1>1. Past' = Past \cup S /\ S \cap Past = {}
  BY DEF Past, BecomePast, TypeOK
<1>2. \A r \in Schedules : earlier'[r] = IF r \in S THEN Past ELSE earlier[r]
  BY DEF BecomePast, TypeOK
<1>3. Past \subseteq Schedules
  BY DEF Past
<1> QED
  BY <1>1, <1>2, <1>3 DEF InOrder

(* A schedule that was past and still is has no more schedules before it. *)
Overtaken(s) == s \in Past /\ s \in Past' /\ ~(earlier'[s] \subseteq earlier[s])

LEMMA OrderStep ==
  ASSUME TypeOK, InOrder, [Next]_vars
  PROVE  InOrder' /\ \A s \in Schedules : Overtaken(s) => \E o \in Operators : UpdateSchedule(o)
<1> USE DEF row, times, bounds
<1>s. ASSUME UNCHANGED times PROVE InOrder' /\ \A s \in Schedules : ~Overtaken(s)
  <2>1. Past' = Past /\ earlier' = earlier
    BY <1>s DEF Past
  <2> QED
    BY <2>1 DEF InOrder, Overtaken
<1>1. ASSUME NEW S \in SUBSET Schedules, BecomePast(S)
      PROVE  InOrder' /\ \A r \in Schedules : ~Overtaken(r)
  BY <1>1, OrderWithLast DEF Overtaken, BecomePast, Past
<1>n. ASSUME NEW s \in Schedules, NEW v \in {"null", "future"}, SetNext(s, v)
      PROVE  InOrder' /\ \A r \in Schedules : ~Overtaken(r)
  BY <1>n, OrderWithout DEF Overtaken
<1>2. ASSUME NEW b \in Beats, NEW s \in Schedules, MarkRunStarted(b, s)
      PROVE  InOrder' /\ \A r \in Schedules : ~Overtaken(r)
  BY <1>2, <1>n DEF MarkRunStarted
<1>3. ASSUME NEW o \in Operators, ToggleEnabled(o) \/ TogglePaused(o) \/ ResetToDefault(o)
      PROVE  InOrder' /\ \A r \in Schedules : ~Overtaken(r)
  <2>1. request[o].schedule \in Schedules
    BY <1>3, UnderWay DEF ToggleEnabled, TogglePaused, ResetToDefault, Ops, Request
  <2>2. \E v \in {"null", "future"} : SetNext(request[o].schedule, v)
    BY <1>3 DEF ToggleEnabled, TogglePaused, ResetToDefault
  <2> QED
    BY <1>n, <2>1, <2>2
<1>4. ASSUME NEW o \in Operators, UpdateSchedule(o) PROVE InOrder'
  <2>1. request[o] \in Request
    BY <1>4, UnderWay DEF UpdateSchedule, Ops
  <2>2. request[o].schedule \in Schedules /\ request[o].nextRunAt \in {"null", "future", "past"}
    BY <2>1 DEF Request
  <2>3. \/ \E v \in {"null", "future"} : SetNext(request[o].schedule, v)
        \/ SetPast(request[o].schedule)
    BY <1>4, <2>2 DEF UpdateSchedule
  <2> QED
    BY <1>n, <2>2, <2>3 DEF SetPast
<1>5. ASSUME NEW b \in Beats, NEW s \in Schedules,
             ProcessDueSchedules(b) \/ Crash(b) \/ DispatchAgentTask(b, s)
      PROVE  UNCHANGED times
  BY <1>5 DEF ProcessDueSchedules, Crash, DispatchAgentTask
<1>6. ASSUME NEW o \in Operators, NEW op, NEW s, FindAndVerifyAccess(o, op, s)
      PROVE  UNCHANGED times
  BY <1>6 DEF FindAndVerifyAccess
<1>7. ASSUME NEW enabled, BulkToggle(enabled) PROVE UNCHANGED times
  BY <1>7 DEF BulkToggle
<1>8. UNCHANGED vars => UNCHANGED times
  BY DEF vars
<1>9. ASSUME NEW b \in Beats, ProcessDueSchedules(b) \/ Crash(b) PROVE UNCHANGED times
  BY <1>9 DEF ProcessDueSchedules, Crash
<1> QED
  BY <1>s, <1>1, <1>2, <1>3, <1>4, <1>5, <1>6, <1>7, <1>8, <1>9
     DEF Next, DispatchSchedule, WriteRequest

LEMMA OrderInvariance == Spec => [](TypeOK /\ InOrder)
<1>1. Init => InOrder
  BY DEF Init, InOrder, Past
<1>2. TypeOK /\ InOrder /\ [Next]_vars => InOrder'
  BY OrderStep
<1> QED
  BY <1>1, <1>2, TypeCorrect, PTL DEF Spec

NoneOvertakes == [][\A s \in Schedules : Overtaken(s) => \E o \in Operators : UpdateSchedule(o)]_vars

(* Only an update, which writes back the next run it had read, puts a schedule before one that
   waits already: heartbeats, toggles and the clock do not. *)
THEOREM WaitingKeepsItsPlace == Spec => NoneOvertakes
<1>1. TypeOK /\ InOrder /\ [Next]_vars =>
        [\A s \in Schedules : Overtaken(s) => \E o \in Operators : UpdateSchedule(o)]_vars
  BY OrderStep
<1> QED
  BY <1>1, OrderInvariance, PTL DEF Spec, NoneOvertakes
----------------------------------------------------------------------------
(* Every set of naturals has a least one. *)
LEMMA Least == ASSUME NEW T \in SUBSET Nat, T # {} PROVE \E x \in T : \A y \in T : x <= y
<1> DEFINE R == {ss \in Nat \X Nat : ss[1] < ss[2]}
<1>1. OpToRel(<, Nat) = R
  BY DEF OpToRel
<1>2. IsWellFoundedOn(R, Nat)
  BY <1>1, NatLessThanWellFounded
<1>3. \A x, y \in Nat : <<y, x>> \in R <=> y < x
  OBVIOUS
<1> HIDE DEF R
<1>4. PICK x \in T : \A y \in T : ~(<<y, x>> \in R)
  BY <1>2, WFMin
<1>5. ASSUME NEW y \in T PROVE x <= y
  <2>1. x \in Nat /\ y \in Nat /\ ~(y < x)
    BY <1>3, <1>4
  <2> QED
    BY <2>1
<1> QED
  BY <1>5

(* In a finite set some member has no other of the set before it. *)
LEMMA OneIsFirst ==
  ASSUME TypeOK, InOrder, NEW S \in SUBSET Past, S # {}
  PROVE  \E s \in S : earlier[s] \cap S = {}
<1> DEFINE Before(s) == earlier[s] \cap S
           Sizes == {n \in Nat : \E s \in S : n = Cardinality(Before(s))}
<1>1. ASSUME NEW s \in S PROVE IsFiniteSet(Before(s)) /\ Cardinality(Before(s)) \in Nat
  <2>1. Before(s) \in SUBSET Schedules
    BY DEF Past
  <2> QED
    BY <2>1, SchedulesAssumption, FS_Subset, FS_CardinalityType
<1>2. PICK n \in Sizes : \A m \in Sizes : n <= m
  <2>1. Sizes # {}
    BY <1>1
  <2> HIDE DEF Before
  <2> QED
    BY <2>1, Least
<1>3. PICK s \in S : n = Cardinality(Before(s))
  OBVIOUS
<1>4. ASSUME NEW r \in Before(s) PROVE FALSE
  <2>1. r \in S /\ r \in earlier[s] /\ r \in Schedules /\ s \in Schedules
    BY <1>4 DEF Past
  <2>2. Before(r) \subseteq Before(s) /\ r \notin Before(r)
    BY <2>1 DEF InOrder
  <2>3. Before(r) # Before(s)
    BY <1>4, <2>2
  <2>4. /\ Cardinality(Before(r)) <= Cardinality(Before(s))
        /\ Cardinality(Before(r)) # Cardinality(Before(s))
    BY <1>1, <2>2, <2>3, FS_Subset
  <2>5. Cardinality(Before(r)) \in Sizes
    BY <1>1, <2>1
  <2> HIDE DEF Before, Sizes
  <2> QED
    BY <1>1, <1>2, <1>3, <2>1, <2>4, <2>5
<1> QED
  BY <1>3, <1>4

(* The first n of S in the order, as the query takes them. *)
Firsts(T, S, n) ==
  /\ T \subseteq S /\ Cardinality(T) = n
  /\ \A s \in T : earlier[s] \cap S \subseteq T

LEMMA OneMore ==
  ASSUME TypeOK, InOrder, NEW S \in SUBSET Past, NEW n \in Nat, n < Cardinality(S),
         NEW T, Firsts(T, S, n)
  PROVE  \E U : Firsts(U, S, n + 1)
<1>1. IsFiniteSet(S) /\ IsFiniteSet(T)
  <2>1. S \in SUBSET Schedules /\ T \in SUBSET Schedules
    BY DEF Past, Firsts
  <2> QED
    BY <2>1, SchedulesAssumption, FS_Subset
<1>2. S \ T # {}
  <2>1. S \ T = {} => S = T
    BY DEF Firsts
  <2> QED
    BY <2>1 DEF Firsts
<1>3. PICK s \in S \ T : earlier[s] \cap (S \ T) = {}
  BY <1>2, OneIsFirst
<1>4. Cardinality(T \cup {s}) = n + 1
  BY <1>1, <1>3, FS_AddElement DEF Firsts
<1>5. Firsts(T \cup {s}, S, n + 1)
  BY <1>3, <1>4 DEF Firsts
<1> QED
  BY <1>5

LEMMA EveryPrefix ==
  ASSUME TypeOK, InOrder, NEW S \in SUBSET Past, NEW n \in Nat, n <= Cardinality(S)
  PROVE  \E T : Firsts(T, S, n)
<1> DEFINE Gaps == {m \in Nat : m <= Cardinality(S) /\ ~\E T : Firsts(T, S, m)}
<1>1. Cardinality(S) \in Nat
  BY SchedulesAssumption, FS_Subset, FS_CardinalityType DEF Past
<1>2. ASSUME Gaps # {} PROVE FALSE
  <2>1. PICK m \in Gaps : \A k \in Gaps : m <= k
    BY <1>2, Least
  <2>2. m # 0
    BY FS_EmptySet DEF Firsts
  <2>3. m - 1 \in Nat /\ m - 1 < Cardinality(S) /\ ~(m <= m - 1)
    BY <1>1, <2>2
  <2>4. PICK T : Firsts(T, S, m - 1)
    BY <1>1, <2>1, <2>3
  <2>5. \E U : Firsts(U, S, (m - 1) + 1)
    BY <2>3, <2>4, OneMore
  <2> QED
    BY <2>1, <2>5
<1> QED
  BY <1>2

(* The query has a result, and two that it may have differ in equal schedules only. *)
QueryIsSettled ==
  /\ \E T \in SUBSET Due : FirstBatch(T, Due)
  /\ \A T, U \in SUBSET Due : FirstBatch(T, Due) /\ FirstBatch(U, Due) =>
       \A t \in T \ U, u \in U \ T : t \notin earlier[u] /\ u \notin earlier[t]

(* Whatever has become of the next runs, there is a batch for a heartbeat to take, all that
   are due if they are no more than that; and its choice is among schedules with one next run,
   where the batch ends: the query has no other order than that. *)
THEOREM QueryHasAResult == Spec => []QueryIsSettled
<1>1. ASSUME TypeOK, InOrder PROVE QueryIsSettled
  <2> DEFINE size == IF Cardinality(Due) <= Batch THEN Cardinality(Due) ELSE Batch
  <2>1. Due \in SUBSET Past /\ Due \in SUBSET Schedules
    BY DEF Due, Past
  <2>2. Cardinality(Due) \in Nat
    BY <2>1, SchedulesAssumption, FS_Subset, FS_CardinalityType
  <2>3. size \in Nat /\ size <= Cardinality(Due)
    BY <2>2, BatchAssumption
  <2>4. \A T : FirstBatch(T, Due) <=> Firsts(T, Due, size)
    BY DEF FirstBatch, Firsts
  <2> HIDE DEF size
  <2>5. \E T : Firsts(T, Due, size)
    BY <1>1, <2>1, <2>3, EveryPrefix
  <2>6. ASSUME NEW T \in SUBSET Due, NEW U \in SUBSET Due,
               FirstBatch(T, Due), FirstBatch(U, Due), NEW t \in T \ U, NEW u \in U \ T
        PROVE  t \notin earlier[u] /\ u \notin earlier[t]
    BY <2>6 DEF FirstBatch
  <2> QED
    BY <2>4, <2>5, <2>6 DEF QueryIsSettled, Firsts
<1> QED
  BY <1>1, OrderInvariance, PTL

(* The due schedules that are not after s. *)
NotAfter(s) == {r \in Due \ {s} : s \notin earlier[r]}

FirstAreServed ==
  [][\A b \in Beats : ProcessDueSchedules(b) =>
       \A s \in Due : Cardinality(NotAfter(s)) < Batch => task'[b][s] = "read"]_vars

(* A schedule that fewer than a batch of due ones are before or equal to is taken by the next
   heartbeat, whichever instance sends it.  With the place that a waiting schedule keeps, this
   is why none starves: those before it, and those equal to it, are run and come after it. *)
THEOREM LongestWaitingIsServed == Spec => FirstAreServed
<1>1. ASSUME TypeOK, NEW b \in Beats, ProcessDueSchedules(b),
             NEW s \in Due, Cardinality(NotAfter(s)) < Batch
      PROVE  task'[b][s] = "read"
  <2>1. PICK T \in SUBSET Due : FirstBatch(T, Due) /\ Read(b, T)
    BY <1>1 DEF ProcessDueSchedules
  <2>2. ASSUME s \notin T PROVE FALSE
    <3>1. Due \in SUBSET Schedules
      BY DEF Due, Past
    <3>2. IsFiniteSet(Due)
      BY <3>1, SchedulesAssumption, FS_Subset
    <3>3. T \subseteq NotAfter(s)
      BY <1>1, <2>1, <2>2 DEF FirstBatch, NotAfter
    <3>4. IsFiniteSet(NotAfter(s))
      BY <3>2, FS_Subset DEF NotAfter
    <3>5. Cardinality(T) <= Cardinality(NotAfter(s))
      BY <3>3, <3>4, FS_Subset
    <3>6. /\ Cardinality(T) \in Nat /\ Cardinality(NotAfter(s)) \in Nat
          /\ Cardinality(Due) \in Nat
      BY <2>1, <3>2, <3>4, FS_Subset, FS_CardinalityType
    <3>7. Cardinality(T) = Cardinality(Due)
      BY <1>1, <2>1, <3>5, <3>6, BatchAssumption DEF FirstBatch
    <3>8. T = Due
      BY <2>1, <3>2, <3>7, FS_Subset
    <3> QED
      BY <1>1, <2>2, <3>8
  <2>3. s \in Schedules
    BY DEF Due, Past
  <2>4. task'[b] = [r \in Schedules |-> IF r \in T THEN "read" ELSE "idle"]
    <3>1. task \in [Beats -> [Schedules -> {"idle", "read", "started"}]]
      BY <1>1 DEF TypeOK
    <3> QED
      BY <2>1, <3>1 DEF Read
  <2> QED
    BY <2>2, <2>3, <2>4
<1>2. TypeOK /\ [Next]_vars =>
        [\A b \in Beats : ProcessDueSchedules(b) =>
           \A s \in Due : Cardinality(NotAfter(s)) < Batch => task'[b][s] = "read"]_vars
  BY <1>1
<1> QED
  BY <1>2, TypeCorrect, PTL DEF Spec, FirstAreServed
===========================================================================
