------------------------ MODULE JobContract_proofs ------------------------
(***************************************************************************)
(* What the contract of JobContract promises, and that the instances of    *)
(* JobProcessor keep it: every step of theirs is a step of the contract or *)
(* changes nothing of it.                                                  *)
(***************************************************************************)
EXTENDS JobProcessor_proofs

(* The refinement mapping. *)
Row     == [j \in Jobs |-> ClientRow(status[j])]
Handler == [j \in Jobs |-> {r \in Runs : phase[r] = "running" /\ JobOf(r) = j}]

LEMMA ClientRows ==
  /\ ClientRow("absent") = "absent"
  /\ ClientRow("PENDING") = "waiting" /\ ClientRow("RETRYING") = "waiting"
  /\ ClientRow("RUNNING") = "running"
  /\ ClientRow("COMPLETED") = "completed"
  /\ ClientRow("FAILED") = "failed" /\ ClientRow("CANCELLED") = "cancelled"
BY DEF ClientRow, Open
----------------------------------------------------------------------------
(* The contract by itself, whoever keeps it. *)
ItsOutcome ==
  \A j \in Jobs : Row'[j] # Row[j] =>
    /\ Handler[j] # {} => Handler'[j] = {}
    /\ Row'[j] = "completed" => Handler[j] # {}

LEMMA PromiseStep ==
  ASSUME Contract!OneHandler, Contract!JobNext
  PROVE  Contract!OneHandler' /\ ItsOutcome
<1> USE DEF Contract!OneHandler, Contract!Set, Contract!Unhandled, Row, Handler, ItsOutcome
<1>1. ASSUME NEW j \in Jobs, Contract!Enqueue(j) PROVE Contract!OneHandler' /\ ItsOutcome
  BY <1>1 DEF Contract!Enqueue
<1>2. ASSUME NEW j \in Jobs, Contract!Retry(j) PROVE Contract!OneHandler' /\ ItsOutcome
  BY <1>2 DEF Contract!Retry
<1>3. ASSUME NEW j \in Jobs, NEW r \in Runs, Contract!Start(j, r)
      PROVE  Contract!OneHandler' /\ ItsOutcome
  BY <1>3 DEF Contract!Start
<1>4. ASSUME NEW j \in Jobs, NEW outcome, Contract!Finish(j, outcome)
      PROVE  Contract!OneHandler' /\ ItsOutcome
  BY <1>4 DEF Contract!Finish
<1>5. ASSUME NEW j \in Jobs, NEW outcome \in Contract!Outcomes \ {"completed"},
             Contract!Refuse(j, outcome)
      PROVE  Contract!OneHandler' /\ ItsOutcome
  BY <1>5 DEF Contract!Refuse
<1>6. ASSUME NEW S \in SUBSET Jobs, Contract!Cancel(S) PROVE Contract!OneHandler' /\ ItsOutcome
  <2>1. \A j \in S : Handler[j] = {}
    BY <1>6 DEF Contract!Cancel
  <2>2. \A j \in Jobs : Handler'[j] = Handler[j] /\ (j \notin S => Row'[j] = Row[j])
    BY <1>6 DEF Contract!Cancel
  <2>3. \A j \in S : Row'[j] # "completed"
    BY <1>6 DEF Contract!Cancel
  <2>4. Contract!OneHandler'
    BY <2>1, <2>2
  <2>5. ItsOutcome
    BY <2>1, <2>2, <2>3
  <2> QED
    BY <2>4, <2>5
<1>7. ASSUME NEW S \in SUBSET Jobs, Contract!Lose(S) PROVE Contract!OneHandler' /\ ItsOutcome
  BY <1>7 DEF Contract!Lose
<1>8. ASSUME NEW S \in SUBSET Jobs, Contract!Recover(S) PROVE Contract!OneHandler' /\ ItsOutcome
  <2>1. \A j \in S : Handler[j] = {}
    BY <1>8 DEF Contract!Recover
  <2>2. \A j \in Jobs : Handler'[j] = Handler[j] /\ (j \notin S => Row'[j] = Row[j])
    BY <1>8 DEF Contract!Recover
  <2>3. \A j \in S : Row'[j] # "completed"
    BY <1>8 DEF Contract!Recover
  <2>4. Contract!OneHandler'
    BY <2>1, <2>2
  <2>5. ItsOutcome
    BY <2>1, <2>2, <2>3
  <2> QED
    BY <2>4, <2>5
<1> QED
  BY <1>1, <1>2, <1>3, <1>4, <1>5, <1>6, <1>7, <1>8 DEF Contract!JobNext

(* Who keeps the contract gives a job one handler at a time, whose outcome alone moves the row
   while it runs, and completes no job without a handler that returned. *)
THEOREM ContractPromises ==
  Contract!JobSpec => []Contract!OneHandler /\ Contract!OutcomeIsOfTheHandler
<1>1. Contract!JobInit => Contract!OneHandler
  BY DEF Contract!JobInit, Contract!OneHandler
<1>2. ASSUME Contract!OneHandler, UNCHANGED Contract!jobVars PROVE Contract!OneHandler'
  BY <1>2 DEF Contract!OneHandler, Contract!jobVars
<1>3. Contract!OneHandler /\ [Contract!JobNext]_(Contract!jobVars) => Contract!OneHandler'
  BY <1>2, PromiseStep
<1>4. Contract!OneHandler /\ [Contract!JobNext]_(Contract!jobVars)
        => [ItsOutcome]_(Contract!jobVars)
  BY PromiseStep
<1> QED
  BY <1>1, <1>3, <1>4, PTL
     DEF Contract!JobSpec, Contract!OutcomeIsOfTheHandler, ItsOutcome, Row, Handler
----------------------------------------------------------------------------
ContractStep == [Contract!JobNext]_(Contract!jobVars)

(* The steps of the contract, for the mapped variables. *)
LEMMA MapStutter == ASSUME Row' = Row, Handler' = Handler PROVE ContractStep
BY DEF ContractStep, Contract!jobVars, Row, Handler

LEMMA MapStart ==
  ASSUME NEW j \in Jobs, NEW r \in Runs, Row[j] # "absent", Handler[j] = {},
         Row' = [Row EXCEPT ![j] = "running"], Handler' = [Handler EXCEPT ![j] = {r}]
  PROVE  ContractStep
<1>1. Row' = [k \in Jobs |-> IF k \in {j} THEN "running" ELSE Row[k]]
  BY DEF Row
<1>2. Contract!Start(j, r)
  BY <1>1 DEF Contract!Start, Contract!Unhandled, Contract!Set, Row, Handler
<1> QED
  BY <1>2 DEF ContractStep, Contract!JobNext

LEMMA MapFinish ==
  ASSUME NEW j \in Jobs, NEW outcome \in {"completed", "waiting", "failed"},
         Row[j] = "running", Handler[j] # {},
         Row' = [Row EXCEPT ![j] = outcome], Handler' = [Handler EXCEPT ![j] = {}]
  PROVE  ContractStep
<1>1. Row' = [k \in Jobs |-> IF k \in {j} THEN outcome ELSE Row[k]]
  BY DEF Row
<1>2. Contract!Finish(j, outcome)
  BY <1>1 DEF Contract!Finish, Contract!Unhandled, Contract!Set, Row, Handler
<1> QED
  BY <1>2 DEF ContractStep, Contract!JobNext, Contract!Outcomes

LEMMA MapRefuse ==
  ASSUME NEW j \in Jobs, NEW outcome \in {"waiting", "failed"},
         Row[j] # "absent", Handler[j] = {},
         Row' = [Row EXCEPT ![j] = outcome], Handler' = Handler
  PROVE  ContractStep
<1>1. Row' = [k \in Jobs |-> IF k \in {j} THEN outcome ELSE Row[k]]
  BY DEF Row
<1>2. Contract!Refuse(j, outcome)
  BY <1>1 DEF Contract!Refuse, Contract!Unhandled, Contract!Set, Row, Handler
<1> QED
  BY <1>2 DEF ContractStep, Contract!JobNext, Contract!Outcomes

LEMMA MapClient ==
  ASSUME NEW j \in Jobs, Row[j] \in {"absent", "failed", "cancelled"},
         Row' = [Row EXCEPT ![j] = "waiting"], Handler' = Handler
  PROVE  ContractStep
<1>1. Row' = [k \in Jobs |-> IF k \in {j} THEN "waiting" ELSE Row[k]]
  BY DEF Row
<1>2. Contract!Enqueue(j) \/ Contract!Retry(j)
  BY <1>1 DEF Contract!Enqueue, Contract!Retry, Contract!Set, Row, Handler
<1> QED
  BY <1>2 DEF ContractStep, Contract!JobNext

LEMMA MapCancel ==
  ASSUME NEW S \in SUBSET Jobs, \A j \in S : Row[j] = "waiting",
         Row' = [j \in Jobs |-> IF j \in S THEN "cancelled" ELSE Row[j]], Handler' = Handler
  PROVE  ContractStep
<1>1. Contract!Cancel(S)
  BY DEF Contract!Cancel, Contract!Set, Row, Handler
<1> QED
  BY <1>1 DEF ContractStep, Contract!JobNext

LEMMA MapRecover ==
  ASSUME NEW S \in SUBSET Jobs, \A j \in S : Row[j] = "running" /\ Handler[j] = {},
         Row' = [j \in Jobs |-> IF j \in S THEN "waiting" ELSE Row[j]], Handler' = Handler
  PROVE  ContractStep
<1>1. Contract!Recover(S)
  BY DEF Contract!Recover, Contract!Unhandled, Contract!Set, Row, Handler
<1> QED
  BY <1>1 DEF ContractStep, Contract!JobNext

LEMMA MapLose ==
  ASSUME NEW S \in SUBSET Jobs, Row' = Row,
         Handler' = [j \in Jobs |-> IF j \in S THEN {} ELSE Handler[j]]
  PROVE  ContractStep
<1>1. Contract!Lose(S)
  BY DEF Contract!Lose, Row, Handler
<1> QED
  BY <1>1 DEF ContractStep, Contract!JobNext
----------------------------------------------------------------------------
(* How the mapped variables change with those of the processor. *)
LEMMA RowOfOne ==
  ASSUME NEW j \in Jobs, NEW st, status \in [Jobs -> Status], status' = [status EXCEPT ![j] = st]
  PROVE  Row' = [Row EXCEPT ![j] = ClientRow(st)]
BY DEF Row

LEMMA RowOfMany ==
  ASSUME NEW S, NEW st, status' = [j \in Jobs |-> IF j \in S THEN st ELSE status[j]]
  PROVE  Row' = [j \in Jobs |-> IF j \in S THEN ClientRow(st) ELSE Row[j]]
BY DEF Row

LEMMA SameHandlers ==
  ASSUME \A r \in Runs : phase'[r] = "running" <=> phase[r] = "running"
  PROVE  Handler' = Handler
BY DEF Handler

(* A run that starts, where no other holds the lock of its job. *)
LEMMA HandlerStarts ==
  ASSUME NEW r \in Runs, phase \in [Runs -> Phase], OneHolder, phase[r] = "claimed",
         phase' = [phase EXCEPT ![r] = "running"]
  PROVE  Handler[JobOf(r)] = {} /\ Handler' = [Handler EXCEPT ![JobOf(r)] = {r}]
<1>1. JobOf(r) \in Jobs
  BY RunType
<1>2. \A q \in Runs : JobOf(q) = JobOf(r) /\ phase[q] = "running" => FALSE
  BY DEF OneHolder, Held, Counted
<1>3. Handler[JobOf(r)] = {}
  BY <1>1, <1>2 DEF Handler
<1>4. \A q \in Runs : phase'[q] = "running" <=> (q = r \/ phase[q] = "running")
  OBVIOUS
<1>5. ASSUME NEW k \in Jobs PROVE Handler'[k] = IF k = JobOf(r) THEN {r} ELSE Handler[k]
  BY <1>2, <1>4, <1>5 DEF Handler
<1> QED
  BY <1>1, <1>3, <1>5 DEF Handler

(* A run that ends. *)
LEMMA HandlerEnds ==
  ASSUME NEW r \in Runs, phase \in [Runs -> Phase], OneHolder, phase[r] = "running",
         phase' = [phase EXCEPT ![r] = "done"]
  PROVE  Handler[JobOf(r)] # {} /\ Handler' = [Handler EXCEPT ![JobOf(r)] = {}]
<1>1. JobOf(r) \in Jobs
  BY RunType
<1>2. \A q \in Runs : JobOf(q) = JobOf(r) /\ phase[q] = "running" => q = r
  BY DEF OneHolder, Held, Counted
<1>3. Handler[JobOf(r)] # {}
  BY <1>1 DEF Handler
<1>4. \A q \in Runs : phase'[q] = "running" <=> (q # r /\ phase[q] = "running")
  OBVIOUS
<1>5. ASSUME NEW k \in Jobs PROVE Handler'[k] = IF k = JobOf(r) THEN {} ELSE Handler[k]
  BY <1>2, <1>4, <1>5 DEF Handler
<1> QED
  BY <1>1, <1>3, <1>5 DEF Handler

(* The runs of an instance that is gone. *)
LEMMA HandlersLost ==
  ASSUME NEW w \in Workers, OneHolder,
         phase' = [r \in Runs |-> IF r[1] = w THEN "idle" ELSE phase[r]]
  PROVE  \E S \in SUBSET Jobs : Handler' = [j \in Jobs |-> IF j \in S THEN {} ELSE Handler[j]]
<1> DEFINE S == {j \in Jobs : \E r \in Runs : r[1] = w /\ phase[r] = "running" /\ JobOf(r) = j}
<1>1. \A q \in Runs : phase'[q] = "running" <=> (q[1] # w /\ phase[q] = "running")
  OBVIOUS
<1>2. ASSUME NEW j \in S PROVE Handler'[j] = {}
  BY <1>1 DEF Handler, OneHolder, Held, Counted
<1>3. ASSUME NEW j \in Jobs \ S PROVE Handler'[j] = Handler[j]
  BY <1>1 DEF Handler
<1>4. Handler' = [j \in Jobs |-> IF j \in S THEN {} ELSE Handler[j]]
  BY <1>2, <1>3 DEF Handler
<1>5. S \in SUBSET Jobs
  OBVIOUS
<1> HIDE DEF S
<1> QED
  BY <1>4, <1>5
----------------------------------------------------------------------------
(* A poll works on rows that exist: they are never deleted. *)
Enqueued == \A r \in Runs : phase[r] # "idle" => status[JobOf(r)] # "absent"

LEMMA EnqueuedStep ==
  ASSUME TypeOK, Enqueued, [Next]_vars
  PROVE  Enqueued'
<1> USE DEF rows, proc, env
<1>t. status \in [Jobs -> Status] /\ phase \in [Runs -> Phase] /\ \A r \in Runs : JobOf(r) \in Jobs
  BY RunType DEF TypeOK
<1>1. ASSUME \A j \in Jobs : status[j] # "absent" => status'[j] # "absent",
             \A r \in Runs : phase'[r] # "idle" => phase[r] # "idle" \/ status[JobOf(r)] # "absent"
      PROVE  Enqueued'
  BY <1>1, <1>t DEF Enqueued
<1>2. CASE JobService
  <2>1. UNCHANGED phase
    BY <1>2 DEF JobService, Enqueue, CancelJob, RetryJob, CancelAllJobs
  <2>2. \A j \in Jobs : status[j] # "absent" => status'[j] # "absent"
    BY <1>2, <1>t DEF JobService, Enqueue, CancelJob, RetryJob, CancelAllJobs
  <2> QED
    BY <2>1, <2>2, <1>1
<1>3. ASSUME NEW w \in Workers, NEW s \in Slots, PollAndProcess(w, s) \/ FindBackgroundJobs(w, s)
      PROVE  Enqueued'
  <2>1. PICK T \in SUBSET Due : Fetch(w, s, T)
    BY <1>3 DEF PollAndProcess, FindBackgroundJobs, FirstOf
  <2>2. \A r \in Runs : r \in RunsOf(w, s, T) => status[JobOf(r)] \in Open
    BY DEF RunsOf, Due, JobOf
  <2>3. UNCHANGED status
    BY <1>3 DEF PollAndProcess, FindBackgroundJobs
  <2> QED
    BY <2>1, <2>2, <2>3, <1>1 DEF Fetch, Open
<1>4. ASSUME NEW w \in Workers, NEW s \in Slots, DispatchLockedJobs(w, s) PROVE Enqueued'
  <2>1. PICK T \in SUBSET In(w, s, {"locked"}) :
          phase' = [r \in Runs |->
                      IF r \in RunsOf(w, s, T) THEN "claimed"
                      ELSE IF r \in RunsOf(w, s, In(w, s, {"locked", "denied"})) THEN "idle"
                      ELSE phase[r]]
    BY <1>4 DEF DispatchLockedJobs
  <2>2. \A r \in Runs : r \in RunsOf(w, s, T) => phase[r] = "locked"
    BY DEF RunsOf, In
  <2>3. UNCHANGED status
    BY <1>4 DEF DispatchLockedJobs
  <2> QED
    BY <2>1, <2>2, <2>3, <1>1
<1>5. ASSUME NEW w \in Workers, NEW s \in Slots, PollError(w, s) PROVE Enqueued'
  BY <1>5, <1>1 DEF PollError
<1>6. ASSUME NEW r \in Runs, RunStep(r) PROVE Enqueued'
  <2>1. phase[r] # "idle" /\ \A q \in Runs \ {r} : phase'[q] = phase[q]
    BY <1>6, <1>t DEF RunStep, AcquireLock, LockRefused, MarkRunning, MarkCompleted, MarkFailed,
                      MarkUnrecoverableFailure, Finally, ReleaseLock
  <2>2. \A j \in Jobs : status[j] # "absent" => status'[j] # "absent"
    BY <1>6, <1>t DEF RunStep, AcquireLock, LockRefused, MarkRunning, MarkCompleted, MarkFailed,
                      MarkUnrecoverableFailure, Finally, ReleaseLock
  <2> QED
    BY <2>1, <2>2, <1>1
<1>7. ASSUME NEW w \in Workers, Forget(w) PROVE Enqueued'
  BY <1>7, <1>1 DEF Forget
<1>8. ASSUME NEW w \in Workers, RecoverStaleJobs(w) PROVE Enqueued'
  BY <1>8, <1>1 DEF RecoverStaleJobs
<1>9. ASSUME NEW w \in Workers, BeginShutdown(w) \/ LoseRedis(w) PROVE Enqueued'
  BY <1>9, <1>1 DEF BeginShutdown, LoseRedis
<1>10. CASE Tick
  BY <1>10, <1>1 DEF Tick
<1>11. CASE UNCHANGED vars
  BY <1>11, <1>1 DEF vars
<1>12. ASSUME NEW r \in Runs, AbandonRun(r) PROVE Enqueued'
  BY <1>12, <1>7, RunType DEF AbandonRun
<1>13. ASSUME NEW w \in Workers, Restart(w) PROVE Enqueued'
  BY <1>13, <1>7 DEF Restart
<1> QED
  BY <1>2, <1>3, <1>4, <1>5, <1>6, <1>8, <1>9, <1>10, <1>11, <1>12, <1>13 DEF Next, PollStep

(* Between its two queries a poll has not tried any lock yet. *)
Fetching == \A r \in Runs : need[<<r[1], r[2]>>] > 0 => phase[r] \in {"idle", "read"}

LEMMA FetchingStep ==
  ASSUME TypeOK, Fetching, [Next]_vars
  PROVE  Fetching'
<1> USE DEF rows, proc, env
<1>t. /\ phase \in [Runs -> Phase] /\ need \in [Polls -> Nat]
      /\ \A r \in Runs : <<r[1], r[2]>> \in Polls
  BY RunType DEF TypeOK
<1>1. ASSUME UNCHANGED need, \A r \in Runs : phase'[r] \in {"idle", phase[r]} PROVE Fetching'
  BY <1>1 DEF Fetching
<1>2. CASE JobService
  BY <1>2, <1>1 DEF JobService, Enqueue, CancelJob, RetryJob, CancelAllJobs
<1>3. ASSUME NEW w \in Workers, NEW s \in Slots, PollAndProcess(w, s) PROVE Fetching'
  <2>1. PICK T : Fetch(w, s, T)
    BY <1>3 DEF PollAndProcess
  <2>2. \A p \in Polls \ {<<w, s>>} : need'[p] = need[p]
    BY <1>3, <1>t DEF PollAndProcess
  <2>3. \A r \in Runs : <<r[1], r[2]>> = <<w, s>> => phase[r] = "idle"
    BY <1>3, <1>t, RunType DEF PollAndProcess, In, JobOf
  <2>4. ASSUME NEW r \in Runs, need'[<<r[1], r[2]>>] > 0 PROVE phase'[r] \in {"idle", "read"}
    <3>1. CASE <<r[1], r[2]>> = <<w, s>>
      BY <3>1, <2>1, <2>3 DEF Fetch
    <3>2. CASE <<r[1], r[2]>> # <<w, s>>
      <4>1. phase[r] \in {"idle", "read"}
        BY <3>2, <2>2, <2>4, <1>t DEF Fetching
      <4> QED
        BY <4>1, <2>1 DEF Fetch
    <3> QED
      BY <3>1, <3>2
  <2> QED
    BY <2>4 DEF Fetching
<1>4. ASSUME NEW w \in Workers, NEW s \in Slots, need' = [need EXCEPT ![<<w, s>>] = 0],
             \A r \in Runs : ~(r[1] = w /\ r[2] = s) => phase'[r] = phase[r]
      PROVE  Fetching'
  <2>1. ASSUME NEW r \in Runs, need'[<<r[1], r[2]>>] > 0 PROVE ~(r[1] = w /\ r[2] = s)
    BY <2>1, <1>4, <1>t
  <2>2. \A r \in Runs : ~(r[1] = w /\ r[2] = s) => need'[<<r[1], r[2]>>] = need[<<r[1], r[2]>>]
    BY <1>4, <1>t
  <2> QED
    BY <2>1, <2>2, <1>4 DEF Fetching
<1>5. ASSUME NEW w \in Workers, NEW s \in Slots, FindBackgroundJobs(w, s) \/ PollError(w, s)
      PROVE  Fetching'
  <2>1. need' = [need EXCEPT ![<<w, s>>] = 0]
    BY <1>5 DEF FindBackgroundJobs, PollError
  <2>2. \A r \in Runs : ~(r[1] = w /\ r[2] = s) => phase'[r] = phase[r]
    BY <1>5 DEF FindBackgroundJobs, PollError, Fetch, RunsOf
  <2> QED
    BY <2>1, <2>2, <1>4
<1>6. ASSUME NEW w \in Workers, NEW s \in Slots, DispatchLockedJobs(w, s) PROVE Fetching'
  <2>1. need[<<w, s>>] = 0 /\ need' = need
    BY <1>6 DEF DispatchLockedJobs
  <2>2. PICK T, U : phase' = [r \in Runs |-> IF r \in RunsOf(w, s, T) THEN "claimed"
                                            ELSE IF r \in RunsOf(w, s, U) THEN "idle"
                                            ELSE phase[r]]
    BY <1>6 DEF DispatchLockedJobs
  <2>3. \A r \in Runs : ~(r[1] = w /\ r[2] = s) => phase'[r] = phase[r]
    BY <2>2 DEF RunsOf
  <2> QED
    BY <2>1, <2>3 DEF Fetching
<1>7. ASSUME NEW r \in Runs, RunStep(r) PROVE Fetching'
  <2>1. need' = need
    BY <1>7 DEF RunStep, AcquireLock, LockRefused, MarkRunning, MarkCompleted, MarkFailed,
                MarkUnrecoverableFailure, Finally, ReleaseLock
  <2>2. \A q \in Runs \ {r} : phase'[q] = phase[q]
    BY <1>7, <1>t DEF RunStep, AcquireLock, LockRefused, MarkRunning, MarkCompleted, MarkFailed,
                      MarkUnrecoverableFailure, Finally, ReleaseLock
  <2>3. phase[r] \notin {"idle", "read"} \/ need[<<r[1], r[2]>>] = 0
    BY <1>7 DEF RunStep, AcquireLock, LockRefused, MarkRunning, MarkCompleted, MarkFailed,
                MarkUnrecoverableFailure, Finally, ReleaseLock
  <2> QED
    BY <2>1, <2>2, <2>3, <1>t DEF Fetching
<1>8. ASSUME NEW w \in Workers, Forget(w) PROVE Fetching'
  <2>1. \A r \in Runs : IF r[1] = w THEN phase'[r] = "idle"
                        ELSE phase'[r] = phase[r] /\ need'[<<r[1], r[2]>>] = need[<<r[1], r[2]>>]
    BY <1>8, <1>t DEF Forget
  <2> QED
    BY <2>1 DEF Fetching
<1>9. ASSUME NEW w \in Workers, RecoverStaleJobs(w) \/ BeginShutdown(w) \/ LoseRedis(w)
      PROVE  Fetching'
  BY <1>9, <1>1 DEF RecoverStaleJobs, BeginShutdown, LoseRedis
<1>10. CASE Tick \/ UNCHANGED vars
  BY <1>10, <1>1 DEF Tick, vars
<1>11. ASSUME NEW r \in Runs, AbandonRun(r) PROVE Fetching'
  BY <1>11, <1>8, RunType DEF AbandonRun
<1>12. ASSUME NEW w \in Workers, Restart(w) PROVE Fetching'
  BY <1>12, <1>8 DEF Restart
<1> QED
  BY <1>2, <1>3, <1>5, <1>6, <1>7, <1>9, <1>10, <1>11, <1>12 DEF Next, PollStep
----------------------------------------------------------------------------
(* Every step of the processor is a step of the contract, or none of it. *)
LEMMA StepKeepsContract ==
  ASSUME TypeOK, LockInvariant, Enqueued, Fetching, [Next]_vars
  PROVE  ContractStep
<1> USE DEF rows, proc, env
<1>t. /\ status \in [Jobs -> Status] /\ phase \in [Runs -> Phase]
      /\ \A r \in Runs : JobOf(r) \in Jobs
      /\ OneHolder
  BY RunType DEF TypeOK, LockInvariant
<1>1. ASSUME NEW j \in Jobs, Enqueue(j) \/ RetryJob(j) PROVE ContractStep
  <2>1. /\ status[j] \in {"absent", "FAILED", "CANCELLED"}
        /\ status' = [status EXCEPT ![j] = "PENDING"] /\ UNCHANGED phase
    BY <1>1 DEF Enqueue, RetryJob
  <2>2. Row[j] \in {"absent", "failed", "cancelled"}
    BY <2>1, ClientRows DEF Row
  <2>3. Row' = [Row EXCEPT ![j] = ClientRow("PENDING")]
    BY <2>1, <1>t, RowOfOne
  <2> QED
    BY <2>1, <2>2, <2>3, ClientRows, SameHandlers, MapClient
<1>2. ASSUME NEW S \in SUBSET Jobs, \A j \in S : status[j] \in Open,
             status' = [j \in Jobs |-> IF j \in S THEN "CANCELLED" ELSE status[j]], UNCHANGED phase
      PROVE  ContractStep
  <2>1. \A j \in S : Row[j] = "waiting"
    BY <1>2, ClientRows DEF Row, Open
  <2>2. Row' = [j \in Jobs |-> IF j \in S THEN "cancelled" ELSE Row[j]]
    BY <1>2, RowOfMany, ClientRows
  <2> QED
    BY <1>2, <2>1, <2>2, SameHandlers, MapCancel
<1>3. ASSUME NEW j \in Jobs, CancelJob(j) PROVE ContractStep
  <2>1. /\ status' = [k \in Jobs |-> IF k \in {j} THEN "CANCELLED" ELSE status[k]]
        /\ \A k \in {j} : status[k] \in Open
        /\ UNCHANGED phase
    BY <1>3, <1>t DEF CancelJob
  <2>2. {j} \in SUBSET Jobs
    OBVIOUS
  <2> QED
    BY <2>1, <2>2, <1>2
<1>4. CASE CancelAllJobs
  <2> DEFINE S == {j \in Jobs : status[j] \in Open}
  <2>1. status' = [j \in Jobs |-> IF j \in S THEN "CANCELLED" ELSE status[j]] /\ UNCHANGED phase
    BY <1>4 DEF CancelAllJobs
  <2>2. S \in SUBSET Jobs /\ \A j \in S : status[j] \in Open
    OBVIOUS
  <2> HIDE DEF S
  <2> QED
    BY <2>1, <2>2, <1>2
<1>5. ASSUME UNCHANGED status, \A r \in Runs : phase'[r] = "running" <=> phase[r] = "running"
      PROVE  ContractStep
  <2>1. Row' = Row
    BY <1>5 DEF Row
  <2> QED
    BY <1>5, <2>1, SameHandlers, MapStutter
<1>6. ASSUME NEW w \in Workers, NEW s \in Slots, PollAndProcess(w, s) \/ FindBackgroundJobs(w, s)
      PROVE  ContractStep
  <2>1. PICK T \in SUBSET Jobs : Fetch(w, s, T)
    BY <1>6 DEF PollAndProcess, FindBackgroundJobs, FirstOf, Due
  <2>2. UNCHANGED status
    BY <1>6 DEF PollAndProcess, FindBackgroundJobs
  <2>3. \A r \in Runs : r \in RunsOf(w, s, T) => phase[r] # "running"
    <3>1. \A r \in Runs : r[1] = w /\ r[2] = s => phase[r] \in {"idle", "read"}
      BY <1>6, <1>t, RunType DEF PollAndProcess, FindBackgroundJobs, In, JobOf, Fetching
    <3> QED
      BY <3>1 DEF RunsOf
  <2> QED
    BY <2>1, <2>2, <2>3, <1>5 DEF Fetch
<1>7. ASSUME NEW w \in Workers, NEW s \in Slots, PollError(w, s) PROVE ContractStep
  <2>1. \A r \in Runs : r \in RunsOf(w, s, Jobs) => phase[r] \in {"idle", "read"}
    BY <1>7 DEF PollError, Fetching, RunsOf
  <2> QED
    BY <2>1, <1>7, <1>5 DEF PollError
<1>8. ASSUME NEW w \in Workers, NEW s \in Slots, DispatchLockedJobs(w, s) PROVE ContractStep
  <2>1. PICK T \in SUBSET In(w, s, {"locked"}) :
          phase' = [r \in Runs |->
                      IF r \in RunsOf(w, s, T) THEN "claimed"
                      ELSE IF r \in RunsOf(w, s, In(w, s, {"locked", "denied"})) THEN "idle"
                      ELSE phase[r]]
    BY <1>8 DEF DispatchLockedJobs
  <2>2. \A r \in Runs : r \in RunsOf(w, s, T) => phase[r] # "running"
    BY DEF RunsOf, In
  <2>3. \A r \in Runs : r \in RunsOf(w, s, In(w, s, {"locked", "denied"})) => phase[r] # "running"
    BY DEF RunsOf, In
  <2>4. UNCHANGED status
    BY <1>8 DEF DispatchLockedJobs
  <2> QED
    BY <2>1, <2>2, <2>3, <2>4, <1>5
<1>9. ASSUME NEW r \in Runs, AcquireLock(r) \/ LockRefused(r) \/ Finally(r) \/ ReleaseLock(r)
      PROVE  ContractStep
  <2>1. UNCHANGED status
    BY <1>9 DEF AcquireLock, LockRefused, Finally, ReleaseLock
  <2>2. \A q \in Runs : phase'[q] = "running" <=> phase[q] = "running"
    BY <1>9, <1>t DEF AcquireLock, LockRefused, Finally, ReleaseLock
  <2> QED
    BY <2>1, <2>2, <1>5
<1>10. ASSUME NEW r \in Runs, MarkRunning(r) PROVE ContractStep
  <2>1. /\ phase[r] = "claimed" /\ phase' = [phase EXCEPT ![r] = "running"]
        /\ status' = [status EXCEPT ![JobOf(r)] = "RUNNING"]
    BY <1>10 DEF MarkRunning
  <2>2. Row[JobOf(r)] # "absent"
    BY <2>1, <1>t, ClientRows DEF Row, Enqueued, Status, Open, Terminal
  <2>3. Row' = [Row EXCEPT ![JobOf(r)] = ClientRow("RUNNING")]
    BY <2>1, <1>t, RowOfOne
  <2>4. Handler[JobOf(r)] = {} /\ Handler' = [Handler EXCEPT ![JobOf(r)] = {r}]
    BY <2>1, <1>t, HandlerStarts
  <2> QED
    BY <2>2, <2>3, <2>4, <1>t, ClientRows, MapStart
<1>11. ASSUME NEW r \in Runs, NEW st \in {"COMPLETED", "RETRYING", "FAILED"},
              phase[r] = "running", phase' = [phase EXCEPT ![r] = "done"],
              status' = [status EXCEPT ![JobOf(r)] = st]
       PROVE  ContractStep
  <2>1. Row[JobOf(r)] = "running"
    BY <1>11, <1>t, ClientRows DEF Row, LockInvariant, LiveRunIsYoung
  <2>2. ClientRow(st) \in {"completed", "waiting", "failed"}
    BY <1>11, ClientRows
  <2>3. Row' = [Row EXCEPT ![JobOf(r)] = ClientRow(st)]
    BY <1>11, <1>t, RowOfOne
  <2>4. Handler[JobOf(r)] # {} /\ Handler' = [Handler EXCEPT ![JobOf(r)] = {}]
    BY <1>11, <1>t, HandlerEnds
  <2> QED
    BY <2>1, <2>2, <2>3, <2>4, <1>t, MapFinish
<1>12. ASSUME NEW r \in Runs, NEW st \in {"RETRYING", "FAILED"},
              phase[r] = "claimed", phase' = [phase EXCEPT ![r] = "done"],
              status' = [status EXCEPT ![JobOf(r)] = st]
       PROVE  ContractStep
  <2>1. Row[JobOf(r)] # "absent"
    BY <1>12, <1>t, ClientRows DEF Row, Enqueued, Status, Open, Terminal
  <2>2. ClientRow(st) \in {"waiting", "failed"}
    BY <1>12, ClientRows
  <2>3. Row' = [Row EXCEPT ![JobOf(r)] = ClientRow(st)]
    BY <1>12, <1>t, RowOfOne
  <2>4. \A q \in Runs : phase'[q] = "running" <=> phase[q] = "running"
    BY <1>12, <1>t
  <2>5. Handler[JobOf(r)] = {}
    BY <1>12, <1>t DEF Handler, OneHolder, Held, Counted
  <2> QED
    BY <2>1, <2>2, <2>3, <2>4, <2>5, <1>t, SameHandlers, MapRefuse
<1>13. ASSUME NEW r \in Runs, MarkCompleted(r) PROVE ContractStep
  BY <1>13, <1>11 DEF MarkCompleted
<1>14. ASSUME NEW r \in Runs, MarkFailed(r) PROVE ContractStep
  <2>1. PICK st \in {"RETRYING", "FAILED"} : status' = [status EXCEPT ![JobOf(r)] = st]
    BY <1>14 DEF MarkFailed
  <2>2. phase[r] \in {"running", "claimed"} /\ phase' = [phase EXCEPT ![r] = "done"]
    BY <1>14 DEF MarkFailed
  <2> QED
    BY <2>1, <2>2, <1>11, <1>12
<1>15. ASSUME NEW r \in Runs, MarkUnrecoverableFailure(r) PROVE ContractStep
  BY <1>15, <1>12 DEF MarkUnrecoverableFailure
<1>16. ASSUME NEW w \in Workers, Forget(w) PROVE ContractStep
  <2>1. Row' = Row
    BY <1>16 DEF Forget, Row
  <2>2. \E S \in SUBSET Jobs : Handler' = [j \in Jobs |-> IF j \in S THEN {} ELSE Handler[j]]
    BY <1>16, <1>t, HandlersLost DEF Forget
  <2> QED
    BY <2>1, <2>2, MapLose
<1>17. ASSUME NEW w \in Workers, RecoverStaleJobs(w) PROVE ContractStep
  <2> DEFINE S == {j \in Jobs : status[j] = "RUNNING" /\ age[j] >= StaleWindow}
  <2>1. status' = [j \in Jobs |-> IF j \in S THEN "PENDING" ELSE status[j]] /\ UNCHANGED phase
    BY <1>17 DEF RecoverStaleJobs
  <2>2. \A j \in S : Row[j] = "running"
    BY ClientRows DEF Row
  <2>3. ASSUME NEW j \in S PROVE Handler[j] = {}
    <3> SUFFICES ASSUME NEW r \in Runs, phase[r] = "running", JobOf(r) = j PROVE FALSE
      BY DEF Handler
    <3>1. lock[j] > 0 /\ age[j] + lock[j] <= LockTtl
      BY DEF LockInvariant, HoldersHaveKey, LiveRunIsYoung, Held, Counted
    <3>2. lock[j] \in Nat /\ age[j] \in Nat /\ age[j] >= StaleWindow
      BY TimeAssumption DEF TypeOK
    <3> QED
      BY <3>1, <3>2, TimeAssumption
  <2>4. S \in SUBSET Jobs
    OBVIOUS
  <2> HIDE DEF S
  <2>5. Row' = [j \in Jobs |-> IF j \in S THEN "waiting" ELSE Row[j]]
    BY <2>1, RowOfMany, ClientRows
  <2> QED
    BY <2>1, <2>2, <2>3, <2>4, <2>5, SameHandlers, MapRecover
<1>18. ASSUME NEW w \in Workers, BeginShutdown(w) \/ LoseRedis(w) PROVE ContractStep
  BY <1>18, <1>5 DEF BeginShutdown, LoseRedis
<1>19. CASE Tick \/ UNCHANGED vars
  BY <1>19, <1>5 DEF Tick, vars
<1>20. ASSUME NEW r \in Runs, AbandonRun(r) PROVE ContractStep
  BY <1>20, <1>16, RunType DEF AbandonRun
<1>21. ASSUME NEW w \in Workers, Restart(w) PROVE ContractStep
  BY <1>21, <1>16 DEF Restart
<1> QED
  BY <1>1, <1>3, <1>4, <1>6, <1>7, <1>8, <1>9, <1>10, <1>13, <1>14, <1>15, <1>17, <1>18, <1>19,
     <1>20, <1>21
     DEF Next, JobService, PollStep, RunStep

(* While every holder is done within the time to live of its key, the instances of the
   processor together implement the contract: what is shown of a handler or a producer under
   the contract holds in the system. *)
THEOREM ContractKept ==
  ASSUME HandlersMeetTtl
  PROVE  Spec => KeepsContract
<1>1. Init => LockInvariant /\ Enqueued /\ Fetching
  BY RunType DEF Init, LockInvariant, HoldersHaveKey, OneHolder, LiveRunIsYoung, Held, Counted,
                 Enqueued, Fetching
<1>2. TypeOK /\ (LockInvariant /\ Enqueued /\ Fetching) /\ [Next]_vars
        => (LockInvariant /\ Enqueued /\ Fetching)'
  BY LockStep, EnqueuedStep, FetchingStep
<1>3. Init => Contract!JobInit
  BY ClientRows DEF Init, Contract!JobInit
<1>4. TypeOK /\ LockInvariant /\ Enqueued /\ Fetching /\ [Next]_vars
        => [Contract!JobNext]_(Contract!jobVars)
  BY StepKeepsContract DEF ContractStep
<1> QED
  BY <1>1, <1>2, <1>3, <1>4, TypeCorrect, PTL DEF Spec, KeepsContract, Contract!JobSpec
=============================================================================
