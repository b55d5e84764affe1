------------------------------- MODULE Tasks -------------------------------
(***************************************************************************)
(* What jobs do for the rest of the system: the tasks of AI agents, asked  *)
(* for by a user or by the system, and the reports.  Each leaves a record, *)
(* an AiAgentSession or a Report, that says RUNNING or GENERATING until    *)
(* its handler has written how it ended.                                   *)
(*                                                                         *)
(* The record of a user's task and of a report is written before the job   *)
(* is enqueued and is shared by all the runs of the job.  A task of the    *)
(* system has a session of its own for every run.  Nothing ties the record *)
(* to the row of the job: the handler writes one, then the processor the   *)
(* other, and the instance may die, or a database call fail, in between.   *)
(*                                                                         *)
(* Of the processor only its contract is used (JobContract): handlers are  *)
(* started, one at a time for a job, at least once.                        *)
(***************************************************************************)
EXTENDS Naturals, FiniteSets

CONSTANTS
  Jobs,         \* jobs, one for each task
  MaxAttempts,  \* maxAttempts the producers give
  MaxRetries,   \* bound: operator retries
  MaxFaults     \* bound: crashes, failed database calls, runs of a job that needs none

ASSUME BoundsAssumption ==
  MaxAttempts \in Nat \ {0} /\ MaxRetries \in Nat /\ MaxFaults \in Nat

VARIABLES
  row, handler,     \* the job, of the contract
  kind,             \* "user", "system" or "report"
  record,           \* the records of a task, of user and report only the first
  edited,           \* history: a request set the report's status after its handler last did
  gone,             \* the agent or the report was deleted, with its records
  step,             \* what the handler that runs will do next
  starts, attempts, \* of the job: handlers started, attempts used up
  totals,           \* times the task was added to the totals of its agent
  mishaps,          \* history: what went wrong with the job
  retries, faults   \* counters of the bounds

job     == <<row, handler, attempts>>
records == <<record, edited>>
bounds  == <<retries, faults>>
vars    == <<job, kind, records, gone, step, starts, totals, mishaps, bounds>>

MaxStarts == MaxAttempts * (1 + MaxRetries) + MaxFaults
Records == 1 .. MaxStarts

Contract == INSTANCE JobContract WITH Runners <- Records

Shared(j) == kind[j] \in {"user", "report"}

(* Mutant: the runs of a task of the system share one session, too. *)
OwnShared(j) == 1

(* The record the handler that runs for j writes. *)
Own(j) == IF Shared(j) THEN 1 ELSE starts[j]

Init ==
  /\ Contract!JobInit
  /\ kind \in [Jobs -> {"user", "system", "report"}]
  /\ record = [j \in Jobs |-> [i \in Records |-> "none"]]
  /\ edited = [j \in Jobs |-> FALSE] /\ gone = [j \in Jobs |-> FALSE]
  /\ step = [j \in Jobs |-> "none"]
  /\ starts = [j \in Jobs |-> 0] /\ attempts = [j \in Jobs |-> 0]
  /\ totals = [j \in Jobs |-> 0]
  /\ mishaps = [j \in Jobs |-> {}]
  /\ retries = 0 /\ faults = 0

Fault(j, M) ==
  /\ faults < MaxFaults
  /\ faults' = faults + 1
  /\ mishaps' = [mishaps EXCEPT ![j] = @ \cup M]
  /\ UNCHANGED retries
NoFault == UNCHANGED <<mishaps, bounds>>
----------------------------------------------------------------------------
(* What the status of a session or a report can be. *)
Values == {"running", "completed", "failed"}

(* The producers: createReport and runAgent write the record, then enqueue the job; the
   orchestrator enqueues the job alone. *)
CreateRecord(j) ==
  /\ Shared(j) /\ record[j][1] = "none"
  /\ record' = [record EXCEPT ![j][1] = "running"]
  /\ UNCHANGED <<job, kind, edited, gone, step, starts, totals, mishaps, bounds>>

EnqueueTask(j) ==
  /\ Shared(j) => record[j][1] # "none"
  /\ Contract!Enqueue(j)
  /\ UNCHANGED <<attempts, kind, records, gone, step, starts, totals, mishaps, bounds>>

(* deleteAgent takes the sessions along, deleteReport the report; neither looks at the job. *)
Delete(j) ==
  /\ ~gone[j]
  /\ Shared(j) => record[j][1] # "none"
  /\ gone' = [gone EXCEPT ![j] = TRUE]
  /\ record' = [record EXCEPT ![j] = [i \in Records |-> IF @[i] = "none" THEN "none" ELSE "deleted"]]
  /\ UNCHANGED <<job, kind, edited, step, starts, totals, mishaps, bounds>>

(* updateReport: a request sets the status of a report, to any of the three. *)
UpdateReport(j) ==
  /\ kind[j] = "report"
  /\ record[j][1] \in Values
  /\ \E v \in Values \ {record[j][1]} : record' = [record EXCEPT ![j][1] = v]
  /\ edited' = [edited EXCEPT ![j] = TRUE]
  /\ UNCHANGED <<job, kind, gone, step, starts, totals, mishaps, bounds>>

CancelJob(j) ==
  /\ row[j] = "waiting"
  /\ Contract!Cancel({j})
  /\ UNCHANGED <<attempts, kind, records, gone, step, starts, totals, mishaps, bounds>>

RetryJob(j) ==
  /\ retries < MaxRetries
  /\ retries' = retries + 1
  /\ Contract!Retry(j)
  /\ attempts' = [attempts EXCEPT ![j] = 0]
  /\ UNCHANGED <<kind, records, gone, step, starts, totals, mishaps, faults>>
----------------------------------------------------------------------------
(* The processor starts a handler, on a row that waits or, after a poll that was overtaken, on
   any row. *)
Begin(j) ==
  /\ Contract!Start(j, starts[j] + 1)
  /\ starts' = [starts EXCEPT ![j] = @ + 1]
  /\ step' = [step EXCEPT ![j] = "begun"]
  /\ UNCHANGED <<attempts, kind, records, gone, totals>>

StartHandler(j) == row[j] = "waiting" /\ Begin(j) /\ NoFault
StartAgain(j) == row[j] # "waiting" /\ Begin(j) /\ Fault(j, {"rerun"})

(* One step of the handler of j, from one await to the next. *)
Steps(j, from, to) ==
  /\ handler[j] # {} /\ step[j] = from
  /\ step' = [step EXCEPT ![j] = to]
  /\ UNCHANGED <<job, kind, gone, starts>>

There(j) == record[j][Own(j)] \notin {"none", "deleted"}

(* Write the record, if it is there. *)
Write(j, v) ==
  IF There(j)
  THEN /\ record' = [record EXCEPT ![j][Own(j)] = v]
       /\ edited' = [edited EXCEPT ![j] = FALSE]
  ELSE UNCHANGED records

(* What precedes the try block.  The agent, the session or the report is not found, or a call
   fails: the handler throws.  A task of the system creates its session here, and runs without
   one if it has no agent or cannot. *)
Prepare(j) ==
  /\ UNCHANGED <<edited, totals>>
  /\ \/ /\ Steps(j, "begun", "threw")
        /\ Fault(j, {"call"}) \/ (Shared(j) /\ gone[j] /\ NoFault)
        /\ UNCHANGED record
     \/ /\ Shared(j) /\ ~gone[j]
        /\ Steps(j, "begun", "working")
        /\ NoFault /\ UNCHANGED record
     \/ /\ ~Shared(j)
        /\ Steps(j, "begun", "working")
        /\ \/ ~gone[j] /\ NoFault /\ record' = [record EXCEPT ![j][Own(j)] = "running"]
           \/ gone[j] /\ NoFault /\ UNCHANGED record
           \/ Fault(j, {"call"}) /\ UNCHANGED record

(* runAgentTask or generateContent. *)
Work(j) ==
  /\ \E outcome \in {"answered", "failing"} : Steps(j, "working", outcome)
  /\ NoFault /\ UNCHANGED <<records, totals>>

(* Mutant: the handler of a user's task swallows the failure of the write, as the other does. *)
SaveSwallowing(j) ==
  /\ Steps(j, "answered", "saved")
  /\ \/ NoFault /\ Write(j, "completed")
     \/ Fault(j, {"call"}) /\ UNCHANGED records
  /\ UNCHANGED totals

(* Mutant: the session and the totals are not written in one transaction. *)
SaveTwice(j) ==
  /\ Steps(j, "answered", "saved") \/ Steps(j, "answered", "failing")
  /\ Write(j, "completed")
  /\ totals' = [totals EXCEPT ![j] = IF There(j) /\ kind[j] # "report" THEN @ + 1 ELSE @]
  /\ NoFault

(* markSessionCompleted, which adds to the totals of the agent, or updateReportById, which does
   not mind that the report is gone.  The handler of the system's tasks swallows a failure. *)
SaveResult(j) ==
  \/ /\ Steps(j, "answered", "saved")
     /\ There(j) \/ kind[j] # "user"
     /\ Write(j, "completed")
     /\ totals' = [totals EXCEPT ![j] = IF There(j) /\ kind[j] # "report" THEN @ + 1 ELSE @]
     /\ NoFault
  \/ /\ Steps(j, "answered", IF kind[j] = "system" THEN "saved" ELSE "failing")
     /\ Fault(j, {"call"}) \/ (~There(j) /\ kind[j] = "user" /\ NoFault)
     /\ UNCHANGED <<records, totals>>

(* What follows: updateReportById reads the report back, and a failure of that is caught as one of
   the write; the result of a task of the system is written back to where it was asked from, which
   swallows its failures. *)
AfterSave(j) ==
  /\ \/ Steps(j, "saved", "returned") /\ NoFault
     \/ kind[j] = "report" /\ Steps(j, "saved", "failing") /\ Fault(j, {"call"})
  /\ UNCHANGED <<records, totals>>

(* Mutant: the failure is thrown on without a word to the record. *)
SaveNothing(j) == Steps(j, "failing", "threw") /\ NoFault /\ UNCHANGED <<records, totals>>

(* The catch block.  Here, too, the report is read back. *)
SaveFailure(j) ==
  /\ Steps(j, "failing", "threw")
  /\ \/ Write(j, "failed") /\ (NoFault \/ (kind[j] = "report" /\ Fault(j, {"call"})))
     \/ Fault(j, {"call"}) /\ UNCHANGED records
  /\ UNCHANGED totals
----------------------------------------------------------------------------
(* The outcome is written to the row. *)
Ended(j) ==
  /\ step' = [step EXCEPT ![j] = "none"]
  /\ UNCHANGED <<kind, records, gone, starts, totals>>

HandlerReturns(j) ==
  /\ step[j] = "returned"
  /\ Contract!Finish(j, "completed")
  /\ Ended(j) /\ NoFault
  /\ UNCHANGED attempts

(* Mutant: one attempt too many. *)
HandlerFailsAgain(j) ==
  /\ step[j] = "threw" /\ NoFault
  /\ attempts' = [attempts EXCEPT ![j] = @ + 1]
  /\ Contract!Finish(j, IF attempts[j] < MaxAttempts THEN "waiting" ELSE "failed")
  /\ Ended(j)

(* The handler threw, or markCompleted did after it returned: both are caught as one. *)
HandlerFails(j) ==
  /\ \/ step[j] = "threw" /\ NoFault
     \/ step[j] = "returned" /\ Fault(j, {"unsaved"})
  /\ attempts' = [attempts EXCEPT ![j] = @ + 1]
  /\ Contract!Finish(j, IF attempts[j] + 1 < MaxAttempts THEN "waiting" ELSE "failed")
  /\ Ended(j)

(* The instance dies, which it also does when the failure cannot be written to the row. *)
Crash(j) ==
  /\ handler[j] # {}
  /\ Contract!Lose({j})
  /\ Ended(j) /\ Fault(j, {"crash"})
  /\ UNCHANGED attempts

(* The row cannot be marked RUNNING: the attempt fails without its handler, which is written to
   any row if the poll was overtaken. *)
Refuse(j) ==
  /\ attempts' = [attempts EXCEPT ![j] = @ + 1]
  /\ Contract!Refuse(j, IF attempts[j] + 1 < MaxAttempts THEN "waiting" ELSE "failed")
  /\ Ended(j) /\ Fault(j, {"call"} \cup IF row[j] = "waiting" THEN {} ELSE {"rerun"})

(* Mutant: a stale row is given up, without a word to the record. *)
RecoverAsFailed(j) ==
  /\ row[j] = "running" /\ handler[j] = {}
  /\ Contract!Set({j}, "failed")
  /\ UNCHANGED <<handler, attempts, kind, records, gone, step, starts, totals, mishaps, bounds>>

(* recoverStaleJobs. *)
Recover(j) ==
  /\ row[j] = "running"
  /\ Contract!Recover({j})
  /\ UNCHANGED <<attempts, kind, records, gone, step, starts, totals, mishaps, bounds>>
----------------------------------------------------------------------------
HandlerStep(j) ==
  \/ Prepare(j) \/ Work(j) \/ SaveResult(j) \/ AfterSave(j) \/ SaveFailure(j)
  \/ HandlerReturns(j) \/ HandlerFails(j)

Next ==
  \E j \in Jobs :
    \/ CreateRecord(j) \/ EnqueueTask(j) \/ Delete(j) \/ UpdateReport(j)
    \/ CancelJob(j) \/ RetryJob(j) \/ StartHandler(j) \/ StartAgain(j) \/ HandlerStep(j)
    \/ Crash(j) \/ Refuse(j) \/ Recover(j)

Spec == Init /\ [][Next]_vars

(* What EveryJobSettles and RunningEnds of the processor amount to, and that a handler goes on. *)
Fairness ==
  \A j \in Jobs : WF_vars(StartHandler(j)) /\ WF_vars(Recover(j)) /\ WF_vars(HandlerStep(j))

FairSpec == Spec /\ Fairness
----------------------------------------------------------------------------
Status == Values \cup {"none", "deleted"}

TypeOK ==
  /\ row \in [Jobs -> Contract!Rows] /\ handler \in [Jobs -> SUBSET Records]
  /\ record \in [Jobs -> [Records -> Status]]
  /\ edited \in [Jobs -> BOOLEAN] /\ gone \in [Jobs -> BOOLEAN]
  /\ step \in [Jobs -> {"none", "begun", "working", "answered", "saved", "failing", "returned",
                        "threw"}]
  /\ starts \in [Jobs -> 0 .. MaxStarts] /\ attempts \in [Jobs -> Nat]
  /\ totals \in [Jobs -> Nat] /\ mishaps \in [Jobs -> SUBSET {"crash", "call", "unsaved", "rerun"}]

(* "Do not swallow errors and return success": when the job of a report or of a user's task is
   COMPLETED its record is, whatever runs before it crashed or failed, unless it was deleted or a
   request has set the status of the report since the handler wrote it. *)
CompletedJobHasResult ==
  \A j \in Jobs :
    Shared(j) /\ row[j] = "completed" /\ ~edited[j] => record[j][1] \in {"completed", "deleted"}

(* A record is left RUNNING, with no handler at work and no run to come, only by a job that was
   cancelled or whose instance or database failed, or by a request that set the status of the
   report after its handler had. *)
NoSilentOrphan ==
  \A j \in Jobs, i \in Records :
    record[j][i] = "running" =>
      \/ handler[j] # {} /\ i = Own(j)
      \/ Shared(j) /\ row[j] \in {"absent", "waiting", "cancelled"}
      \/ mishaps[j] \cap {"crash", "call"} # {} \/ edited[j]

(* A task is added to the totals of its agent once, however often it failed and was retried:
   twice only if after the session was written the instance died or the row could not be, or if
   a poll that was overtaken ran the job again. *)
CountedOnce ==
  \A j \in Jobs : totals[j] > 1 => mishaps[j] \cap {"crash", "unsaved", "rerun"} # {}

(* The session of a run of the system's tasks ends once: what it says is not overwritten. *)
SystemResultIsFinal ==
  [][\A j \in Jobs, i \in Records :
       ~Shared(j) /\ record[j][i] \in {"completed", "failed"} =>
         record'[j][i] \in {record[j][i], "deleted"}]_vars

(* The record of a job that was enqueued does not stay RUNNING: the job is run until it says
   how it ended, over crashes and recoveries, unless it is cancelled or a database call failed.
   (A request may set a report to RUNNING again, but not keep its handler from ending it once.) *)
RecordEnds ==
  \A j \in Jobs :
    Shared(j) /\ row[j] = "waiting" /\ record[j][1] = "running"
      ~> record[j][1] # "running" \/ row[j] = "cancelled" \/ "call" \in mishaps[j]
=============================================================================
