--------------------------- MODULE AgentSchedule ---------------------------
(***************************************************************************)
(* The cron schedules of the AI agents: rows of AiAgentSchedule, the       *)
(* heartbeat that dispatches the due ones (AgentSchedulerService), and the *)
(* requests of operators (ScheduleService).                                *)
(*                                                                         *)
(* A heartbeat works on the rows it read, and several may be at work: one  *)
(* per instance, and the next of an instance before the last one is done.  *)
(* A request reads the row, computes the next run from what it read and    *)
(* writes it without looking again.                                        *)
(*                                                                         *)
(* Of nextRunAt the specification keeps whether it is null, in the future  *)
(* or past, and the order of those that are past.  Crons have the grain of *)
(* a minute, so several rows may have one next run: these become past      *)
(* together, and none of them is before another.  lastStatus and the       *)
(* streaks report on runs and decide nothing: they are left out.           *)
(***************************************************************************)
EXTENDS Naturals, FiniteSets

CONSTANTS
  Schedules,    \* rows of AiAgentSchedule, of one tenant
  Beats,        \* heartbeats at work at one time, over all instances
  Operators,    \* requests under way at one time
  Batch,        \* limit of findDueSchedules
  MaxRequests,  \* bound: requests of operators
  MaxCrashes    \* bound: instances that die

ASSUME SchedulesAssumption == IsFiniteSet(Schedules)
ASSUME BatchAssumption == Batch \in Nat \ {0}
ASSUME BoundsAssumption == MaxRequests \in Nat /\ MaxCrashes \in Nat

VARIABLES
  isEnabled, isPaused,  \* the flags of a row
  nextRunAt,            \* "null", "future" or "past"
  earlier,              \* the past ones whose nextRunAt is before that of this one
  task,                 \* what a heartbeat does with a schedule it read
  request,              \* what an operator's request read, NoRequest without one
  requests, crashes     \* counters of the bounds

times  == <<nextRunAt, earlier>>
row    == <<isEnabled, isPaused, times>>
bounds == <<requests, crashes>>
vars   == <<row, task, request, bounds>>

Ops == {"enable", "disable", "pause", "resume", "update", "reset"}
NoRequest == [op |-> "none"]
Request == [op : Ops, schedule : Schedules, isEnabled : BOOLEAN, isPaused : BOOLEAN,
            nextRunAt : {"null", "future", "past"}]

Active(s) == isEnabled[s] /\ ~isPaused[s]
Past == {s \in Schedules : nextRunAt[s] = "past"}
Due  == {s \in Past : Active(s)}

(* No code creates a row.  One starts disabled and unscheduled, as the defaults of the schema
   have it, or as a request has left it: enabled, with its next run. *)
Init ==
  /\ isEnabled \in [Schedules -> BOOLEAN]
  /\ isPaused = [s \in Schedules |-> FALSE]
  /\ nextRunAt = [s \in Schedules |-> IF isEnabled[s] THEN "future" ELSE "null"]
  /\ earlier = [s \in Schedules |-> {}]
  /\ task = [b \in Beats |-> [s \in Schedules |-> "idle"]]
  /\ request = [o \in Operators |-> NoRequest]
  /\ requests = 0 /\ crashes = 0

(* nextRunAt of s becomes null or a time in the future. *)
SetNext(s, v) ==
  /\ nextRunAt' = [nextRunAt EXCEPT ![s] = v]
  /\ earlier' = [r \in Schedules |-> IF r = s THEN {} ELSE earlier[r] \ {s}]

(* Times have a weak order: some past schedules are before others, the rest are equal. *)
InOrder ==
  \A s \in Schedules :
    /\ earlier[s] \subseteq Past \ {s}
    /\ s \notin Past => earlier[s] = {}
    /\ \A r \in earlier[s] : earlier[r] \subseteq earlier[s]
    /\ \A r \in earlier[s], k \in Past : r \in earlier[k] \/ k \in earlier[s]

(* nextRunAt of s becomes a time that is past, before, after or equal to any other. *)
SetPast(s) ==
  /\ nextRunAt' = [nextRunAt EXCEPT ![s] = "past"]
  /\ earlier' \in [Schedules -> SUBSET Schedules]
  /\ \A r \in Schedules \ {s} : earlier'[r] \ {s} = earlier[r] \ {s}
  /\ InOrder'

(* Time passes the next run that the schedules of S have in common. *)
BecomePast(S) ==
  /\ \A s \in S : nextRunAt[s] = "future"
  /\ nextRunAt' = [s \in Schedules |-> IF s \in S THEN "past" ELSE nextRunAt[s]]
  /\ earlier' = [s \in Schedules |-> IF s \in S THEN Past ELSE earlier[s]]
  /\ UNCHANGED <<isEnabled, isPaused, task, request, bounds>>
----------------------------------------------------------------------------
(* The heartbeat: one query, then dispatchSchedule for every row of its result at once. *)

Resting(b) == \A s \in Schedules : task[b][s] = "idle"

(* T may be the result of the query: the Batch first of S in the order of nextRunAt.  Nothing
   but nextRunAt orders them, so the batch may end anywhere among equal ones. *)
FirstBatch(T, S) ==
  /\ T \subseteq S
  /\ Cardinality(T) = IF Cardinality(S) <= Batch THEN Cardinality(S) ELSE Batch
  /\ \A s \in T : earlier[s] \cap S \subseteq T

Read(b, T) == task' = [task EXCEPT ![b] = [s \in Schedules |-> IF s \in T THEN "read" ELSE "idle"]]

(* Mutants: the query without its order; the query without the flag. *)
ProcessInAnyOrder(b) ==
  /\ Resting(b) /\ Due # {}
  /\ \E T \in SUBSET Due :
       Cardinality(T) = (IF Cardinality(Due) <= Batch THEN Cardinality(Due) ELSE Batch) /\ Read(b, T)
  /\ UNCHANGED <<row, request, bounds>>
ProcessDisabledToo(b) ==
  /\ Resting(b) /\ Past # {}
  /\ \E T \in SUBSET Past : FirstBatch(T, Past) /\ Read(b, T)
  /\ UNCHANGED <<row, request, bounds>>

ProcessDueSchedules(b) ==
  /\ Resting(b) /\ Due # {}
  /\ \E T \in SUBSET Due : FirstBatch(T, Due) /\ Read(b, T)
  /\ UNCHANGED <<row, request, bounds>>

(* The next run is computed and written whatever the row has become since it was read. *)
MarkRunStarted(b, s) ==
  /\ task[b][s] = "read"
  /\ task' = [task EXCEPT ![b][s] = "started"]
  /\ SetNext(s, "future")
  /\ UNCHANGED <<isEnabled, isPaused, request, bounds>>

(* Mutant: a refused dispatch is left as it is. *)
DispatchKeepingFailure(b, s) ==
  /\ task[b][s] = "started"
  /\ \E outcome \in {"idle", "failed"} : task' = [task EXCEPT ![b][s] = outcome]
  /\ UNCHANGED <<row, request, bounds>>

(* dispatchAgentTask enqueues a job, or refuses because the agent is off, out of quota or out
   of budget; markRunCompleted records which, and moves nothing else. *)
DispatchAgentTask(b, s) ==
  /\ task[b][s] = "started"
  /\ task' = [task EXCEPT ![b][s] = "idle"]
  /\ UNCHANGED <<row, request, bounds>>

DispatchSchedule(b, s) == MarkRunStarted(b, s) \/ DispatchAgentTask(b, s)

(* The process dies with its heartbeat. *)
Crash(b) ==
  /\ ~Resting(b) /\ crashes < MaxCrashes
  /\ crashes' = crashes + 1
  /\ Read(b, {})
  /\ UNCHANGED <<row, request, requests>>
----------------------------------------------------------------------------
(* The requests of operators. *)

(* findAndVerifyAccess, and the refusal to reset a schedule that is not a default one. *)
FindAndVerifyAccess(o, op, s) ==
  /\ request[o] = NoRequest /\ requests < MaxRequests
  /\ requests' = requests + 1
  /\ request' = [request EXCEPT ![o] =
       [op |-> op, schedule |-> s, isEnabled |-> isEnabled[s], isPaused |-> isPaused[s],
        nextRunAt |-> nextRunAt[s]]]
  /\ UNCHANGED <<row, task, crashes>>

Answered(o) == request' = [request EXCEPT ![o] = NoRequest]

(* Mutant: enabling without the next run. *)
ToggleEnabledFlagOnly(o) ==
  LET q == request[o] IN
  /\ q.op \in {"enable", "disable"}
  /\ isEnabled' = [isEnabled EXCEPT ![q.schedule] = (q.op = "enable")]
  /\ Answered(o)
  /\ UNCHANGED <<isPaused, times, task, bounds>>

ToggleEnabled(o) ==
  LET q == request[o] IN
  /\ q.op \in {"enable", "disable"}
  /\ isEnabled' = [isEnabled EXCEPT ![q.schedule] = (q.op = "enable")]
  /\ SetNext(q.schedule, IF q.op = "enable" /\ ~q.isPaused THEN "future" ELSE "null")
  /\ Answered(o)
  /\ UNCHANGED <<isPaused, task, bounds>>

TogglePaused(o) ==
  LET q == request[o] IN
  /\ q.op \in {"pause", "resume"}
  /\ isPaused' = [isPaused EXCEPT ![q.schedule] = (q.op = "pause")]
  /\ SetNext(q.schedule, IF q.op = "resume" /\ q.isEnabled THEN "future" ELSE "null")
  /\ Answered(o)
  /\ UNCHANGED <<isEnabled, task, bounds>>

(* An update computes a next run when the row it read was active, and otherwise writes back
   the one it read. *)
UpdateSchedule(o) ==
  LET q == request[o] IN
  /\ q.op = "update"
  /\ IF q.isEnabled /\ ~q.isPaused THEN SetNext(q.schedule, "future")
     ELSE IF q.nextRunAt = "past" THEN SetPast(q.schedule)
     ELSE SetNext(q.schedule, q.nextRunAt)
  /\ Answered(o)
  /\ UNCHANGED <<isEnabled, isPaused, task, bounds>>

ResetToDefault(o) ==
  LET q == request[o] IN
  /\ q.op = "reset"
  /\ isEnabled' = [isEnabled EXCEPT ![q.schedule] = FALSE]
  /\ isPaused' = [isPaused EXCEPT ![q.schedule] = FALSE]
  /\ SetNext(q.schedule, "null")
  /\ Answered(o)
  /\ UNCHANGED <<task, bounds>>

(* One updateMany over the tenant: the flag, and nothing of the next runs. *)
BulkToggle(enabled) ==
  /\ requests < MaxRequests
  /\ requests' = requests + 1
  /\ isEnabled' = [s \in Schedules |-> enabled]
  /\ UNCHANGED <<isPaused, times, task, request, crashes>>
----------------------------------------------------------------------------
WriteRequest(o) == ToggleEnabled(o) \/ TogglePaused(o) \/ UpdateSchedule(o) \/ ResetToDefault(o)

Next ==
  \/ \E S \in SUBSET Schedules \ {{}} : BecomePast(S)
  \/ \E b \in Beats : \/ ProcessDueSchedules(b) \/ Crash(b)
                      \/ \E s \in Schedules : DispatchSchedule(b, s)
  \/ \E o \in Operators : \/ WriteRequest(o)
                          \/ \E op \in Ops, s \in Schedules : FindAndVerifyAccess(o, op, s)
  \/ \E enabled \in BOOLEAN : BulkToggle(enabled)

Spec == Init /\ [][Next]_vars

(* The cron fires every 30 seconds in every instance and awaits end.  Nothing else is forced:
   neither requests, nor the write of one that has read its row, nor crashes, nor that time
   passes a next run. *)
Fairness ==
  \A b \in Beats :
    /\ WF_vars(ProcessDueSchedules(b))
    /\ WF_vars(\E s \in Schedules : DispatchSchedule(b, s))

FairSpec == Spec /\ Fairness
----------------------------------------------------------------------------
(* The type of every variable. *)
TypeOK ==
  /\ isEnabled \in [Schedules -> BOOLEAN] /\ isPaused \in [Schedules -> BOOLEAN]
  /\ nextRunAt \in [Schedules -> {"null", "future", "past"}]
  /\ earlier \in [Schedules -> SUBSET Schedules]
  /\ task \in [Beats -> [Schedules -> {"idle", "read", "started"}]]
  /\ request \in [Operators -> Request \cup {NoRequest}]
  /\ requests \in Nat /\ crashes \in Nat

(* An enabled, unpaused schedule has a next run: heartbeats never take it away, however they
   interleave with requests, and a request does so only when the flags it read have changed
   since.  Only a bulk toggle does it by itself: it enables and computes nothing. *)
Stranded(s) == Active(s) /\ nextRunAt[s] = "null"
Stale(q) == q.isEnabled # isEnabled[q.schedule] \/ q.isPaused # isPaused[q.schedule]

OnlyStaleWritesStrand ==
  [][\A s \in Schedules : ~Stranded(s) /\ Stranded(s)' =>
       \/ BulkToggle(TRUE)
       \/ \E o \in Operators : WriteRequest(o) /\ Stale(request[o])]_vars

(* A schedule that is due is dispatched, or an operator moves it, although a heartbeat takes
   no more than a batch, others keep becoming due and several may be due at one time: the order
   of the query lets none starve. *)
DueIsServed == \A s \in Schedules : s \in Due ~> s \notin Due

(* A schedule that stays disabled is started only by the heartbeats that had read it before. *)
DisabledStops ==
  \A s \in Schedules :
    <>[]~isEnabled[s] => <>[][\A b \in Beats : ~MarkRunStarted(b, s)]_vars
============================================================================
