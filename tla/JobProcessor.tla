--------------------------- MODULE JobProcessor ---------------------------
(***************************************************************************)
(* The background job subsystem of the API: rows of the `jobs` table       *)
(* (JobService, JobRepository) and the poll loop of every API instance     *)
(* (JobProcessorService) that locks a row in Redis, runs its handler and   *)
(* writes the outcome back.                                                *)
(*                                                                         *)
(* One step of the specification is one statement of the code between two  *)
(* awaits: a database statement, a Redis command or the synchronous        *)
(* dispatch loop.  A poll therefore works on a SNAPSHOT of the rows, and   *)
(* any other instance may act between its read, its lock and its writes.   *)
(*                                                                         *)
(* Time is kept as ages and countdowns that saturate, so that it needs no  *)
(* bound: the ticks left on a Redis key, the ticks left until a row is     *)
(* due, and the ticks since a RUNNING row was started.                     *)
(***************************************************************************)
EXTENDS Integers, FiniteSets

CONSTANTS
  Workers,         \* API instances, each with its own JobProcessorService
  Slots,           \* overlapping polls of one instance, those still running jobs included
  Jobs,            \* job rows; numbers, in the order of createdAt
  Interactive,     \* jobs of the types findPendingJobs fetches first
  Orphans,         \* jobs of a type the processor has no handler for
  Hanging,         \* jobs whose handler never settles
  Concurrency,     \* JOB_PROCESSOR_CONCURRENCY
  MaxAttempts,     \* maxAttempts of a row
  LockTtl,         \* JOB_LOCK_TTL_SECONDS, in ticks
  StaleWindow,     \* STALE_RUNNING_WINDOW_MS, in ticks
  BaseDelay,       \* BASE_RETRY_DELAY_MS, in ticks
  MaxDelay,        \* MAX_RETRY_DELAY_MS, in ticks
  HandlersMeetTtl, \* TRUE: whoever takes a lock is done before its key expires
  PromptCalls,     \* TRUE: no time passes but while handlers run
  MaxFaults,       \* bound: crashes, shutdowns and failed database calls
  MaxDrops,        \* bound: Redis connections lost
  MaxRetries       \* bound: operator retries

ASSUME JobsAssumption ==
  /\ Jobs \subseteq Nat /\ IsFiniteSet(Jobs)
  /\ Interactive \subseteq Jobs /\ Orphans \subseteq Jobs /\ Hanging \subseteq Jobs
ASSUME ConcurrencyAssumption == Concurrency \in Nat \ {0}
ASSUME MaxAttemptsAssumption == MaxAttempts \in Nat \ {0}
ASSUME TimeAssumption ==
  /\ LockTtl \in Nat \ {0} /\ StaleWindow \in Nat /\ LockTtl <= StaleWindow
  /\ BaseDelay \in Nat /\ MaxDelay \in Nat
ASSUME BoundsAssumption ==
  /\ HandlersMeetTtl \in BOOLEAN /\ PromptCalls \in BOOLEAN
  /\ MaxFaults \in Nat /\ MaxDrops \in Nat /\ MaxRetries \in Nat

VARIABLES
  status,    \* Job.status, "absent" before the row exists
  attempts,  \* Job.attempts
  delay,     \* ticks until Job.scheduledAt; 0 when it is null or past
  age,       \* ticks since Job.startedAt of a RUNNING row, at most StaleWindow; else 0
  failures,  \* history: runs of a job that failed since its last retry, up to MaxAttempts
  outdated,  \* history: runs that read their row before an operator retried it
  misled,    \* history: jobs in which such a run has failed since their last retry
  lock,      \* ticks left on the Redis key job:lock:<id>; 0 when it does not exist
  phase,     \* what a poll is doing with a job it read
  snap,      \* Job.attempts in the poll's snapshot of the row; 0 without one
  need,      \* rows a poll still has to fetch with its second query
  active,    \* activeJobs of an instance
  closing,   \* shuttingDown of an instance
  linked,    \* redisConnected of an instance
  faults, drops, retries  \* counters of the bounds

rows == <<status, attempts, delay, age>>
proc == <<phase, snap, need, active>>
env  == <<closing, linked, faults, drops, retries>>
history == <<failures, outdated, misled>>
vars == <<rows, history, lock, proc, env>>

Open     == {"PENDING", "RETRYING"}
Terminal == {"COMPLETED", "FAILED", "CANCELLED"}
Status   == {"absent", "RUNNING"} \cup Open \cup Terminal

(***************************************************************************)
(* What a poll does with a job: "read", in the result of its queries, the  *)
(* SET NX not answered; "locked" and "denied", the answer; "claimed",      *)
(* counted in activeJobs, markRunning not done; "running", the handler     *)
(* runs; "done", the outcome is written; "releasing", no longer counted,   *)
(* the DEL of the key under way.                                           *)
(***************************************************************************)
Counted == {"claimed", "running", "done"}
Held    == Counted \cup {"locked", "releasing"}
Phase   == {"idle", "read", "denied"} \cup Held

Polls == Workers \X Slots
Runs  == Workers \X Slots \X Jobs
JobOf(r) == r[3]
RunsOf(w, s, T) == {<<w, s, j>> : j \in T}
In(w, s, P) == {j \in Jobs : phase[<<w, s, j>>] \in P}

Least(m, n) == IF m <= n THEN m ELSE n

(* T holds the n oldest jobs of S, or all of S. *)
FirstOf(T, S, n) ==
  /\ T \subseteq S
  /\ Cardinality(T) = Least(Cardinality(S), n)
  /\ \A j \in T, k \in S \ T : j < k

Due == {j \in Jobs : status[j] \in Open /\ delay[j] = 0}

(* min(base * 2^(n-1), cap) *)
RetryDelay(n) ==
  IF BaseDelay * 2^(n - 1) \in 0..MaxDelay THEN BaseDelay * 2^(n - 1) ELSE MaxDelay

Init ==
  /\ status   = [j \in Jobs |-> "absent"]
  /\ attempts = [j \in Jobs |-> 0]
  /\ delay    = [j \in Jobs |-> 0]
  /\ age      = [j \in Jobs |-> 0]
  /\ failures = [j \in Jobs |-> 0] /\ outdated = {} /\ misled = {}
  /\ lock     = [j \in Jobs |-> 0]
  /\ phase    = [r \in Runs |-> "idle"]
  /\ snap     = [r \in Runs |-> 0]
  /\ need     = [p \in Polls |-> 0]
  /\ active   = [w \in Workers |-> 0]
  /\ closing  = [w \in Workers |-> FALSE]
  /\ linked   = [w \in Workers |-> TRUE]
  /\ faults = 0 /\ drops = 0 /\ retries = 0

Fault == faults < MaxFaults /\ faults' = faults + 1
----------------------------------------------------------------------------
(* Operations of JobService on a row. *)

(* JobService.enqueue creates a PENDING row, possibly scheduled for later.  A producer that
   repeats an idempotency key is given the row there is and changes nothing. *)
Enqueue(j) ==
  /\ status[j] = "absent"
  /\ \A k \in Jobs : k < j => status[k] # "absent"
  /\ status' = [status EXCEPT ![j] = "PENDING"]
  /\ \E d \in {0, MaxDelay} : delay' = [delay EXCEPT ![j] = d]
  /\ UNCHANGED <<attempts, age, history, lock, proc, env>>

(* Mutant: cancelling takes a RUNNING row too. *)
CancelRunningJob(j) ==
  /\ status[j] \in Open \cup {"RUNNING"}
  /\ status' = [status EXCEPT ![j] = "CANCELLED"]
  /\ UNCHANGED <<attempts, delay, age, history, lock, proc, env>>

CancelJob(j) ==
  /\ status[j] \in Open
  /\ status' = [status EXCEPT ![j] = "CANCELLED"]
  /\ UNCHANGED <<attempts, delay, age, history, lock, proc, env>>

CancelAllJobs ==
  /\ \E j \in Jobs : status[j] \in Open
  /\ status' = [j \in Jobs |-> IF status[j] \in Open THEN "CANCELLED" ELSE status[j]]
  /\ UNCHANGED <<attempts, delay, age, history, lock, proc, env>>

(* What a retry means for the history: the failures of the job begin anew, and the polls that
   hold a snapshot of its row hold an old one. *)
NewRound(j) ==
  /\ failures' = [failures EXCEPT ![j] = 0]
  /\ outdated' = outdated \cup {r \in Runs : JobOf(r) = j /\ phase[r] \notin {"idle", "releasing"}}
  /\ misled'   = misled \ {j}

(* Mutant: a retry that keeps the attempts already used. *)
RetryJobKeepingAttempts(j) ==
  /\ status[j] \in {"FAILED", "CANCELLED"} /\ retries < MaxRetries
  /\ retries' = retries + 1
  /\ status'  = [status EXCEPT ![j] = "PENDING"]
  /\ delay'   = [delay EXCEPT ![j] = 0]
  /\ age'     = [age EXCEPT ![j] = 0]
  /\ NewRound(j)
  /\ UNCHANGED <<attempts, lock, proc, closing, linked, faults, drops>>

RetryJob(j) ==
  /\ status[j] \in {"FAILED", "CANCELLED"}
  /\ retries < MaxRetries
  /\ retries' = retries + 1
  /\ status'   = [status EXCEPT ![j] = "PENDING"]
  /\ attempts' = [attempts EXCEPT ![j] = 0]
  /\ delay'    = [delay EXCEPT ![j] = 0]
  /\ age'      = [age EXCEPT ![j] = 0]
  /\ NewRound(j)
  /\ UNCHANGED <<lock, proc, closing, linked, faults, drops>>
----------------------------------------------------------------------------
(* The poll of one instance: two queries, the locks, the dispatch. *)

(* Query rows of T enter the poll's result with the attempts they have now. *)
Fetch(w, s, T) ==
  /\ phase' = [r \in Runs |-> IF r \in RunsOf(w, s, T) THEN "read" ELSE phase[r]]
  /\ snap'  = [r \in Runs |-> IF r \in RunsOf(w, s, T) THEN attempts[JobOf(r)] ELSE snap[r]]

(* The snapshots of the runs in S are gone. *)
Drop(S) ==
  /\ snap' = [r \in Runs |-> IF r \in S THEN 0 ELSE snap[r]]
  /\ outdated' = outdated \ S
  /\ UNCHANGED <<failures, misled>>

(* The guards of pollAndProcess, the free slots, and the query for interactive jobs. *)
PollAndProcess(w, s) ==
  /\ ~closing[w] /\ linked[w] /\ active[w] < Concurrency
  /\ In(w, s, Phase \ {"idle"}) = {} /\ need[<<w, s>>] = 0
  /\ Due # {}
  /\ \E T \in SUBSET (Due \cap Interactive) :
       /\ FirstOf(T, Due \cap Interactive, Concurrency - active[w])
       /\ Fetch(w, s, T)
       /\ need' = [need EXCEPT ![<<w, s>>] = Concurrency - active[w] - Cardinality(T)]
  /\ UNCHANGED <<rows, history, lock, active, env>>

(* The query for the remaining slots, over every type. *)
FindBackgroundJobs(w, s) ==
  LET others == Due \ In(w, s, {"read"}) IN
  /\ need[<<w, s>>] > 0
  /\ \E T \in SUBSET others : FirstOf(T, others, need[<<w, s>>]) /\ Fetch(w, s, T)
  /\ need' = [need EXCEPT ![<<w, s>>] = 0]
  /\ UNCHANGED <<rows, history, lock, active, env>>

(* The second query is rejected: logPollError, and the poll ends. *)
PollError(w, s) ==
  /\ need[<<w, s>>] > 0 /\ Fault
  /\ phase' = [r \in Runs |-> IF r \in RunsOf(w, s, Jobs) THEN "idle" ELSE phase[r]]
  /\ Drop(RunsOf(w, s, Jobs))
  /\ need'  = [need EXCEPT ![<<w, s>>] = 0]
  /\ UNCHANGED <<rows, lock, active, closing, linked, drops, retries>>

(* Mutants: SET without NX; the stale window as the time to live; the row marked RUNNING as
   soon as it is locked. *)
AcquireLockWithoutNX(r) ==
  /\ phase[r] = "read" /\ need[<<r[1], r[2]>>] = 0 /\ linked[r[1]]
  /\ lock'  = [lock EXCEPT ![JobOf(r)] = LockTtl]
  /\ phase' = [phase EXCEPT ![r] = "locked"]
  /\ UNCHANGED <<rows, history, snap, need, active, env>>
AcquireLockForStaleWindow(r) ==
  /\ phase[r] = "read" /\ need[<<r[1], r[2]>>] = 0 /\ linked[r[1]] /\ lock[JobOf(r)] = 0
  /\ lock'  = [lock EXCEPT ![JobOf(r)] = StaleWindow]
  /\ phase' = [phase EXCEPT ![r] = "locked"]
  /\ UNCHANGED <<rows, history, snap, need, active, env>>
AcquireLockMarkingRow(r) ==
  /\ phase[r] = "read" /\ need[<<r[1], r[2]>>] = 0 /\ linked[r[1]] /\ lock[JobOf(r)] = 0
  /\ lock'   = [lock EXCEPT ![JobOf(r)] = LockTtl]
  /\ status' = [status EXCEPT ![JobOf(r)] = "RUNNING"]
  /\ phase'  = [phase EXCEPT ![r] = "locked"]
  /\ UNCHANGED <<attempts, delay, age, history, snap, need, active, env>>

AcquireLock(r) ==
  /\ phase[r] = "read" /\ need[<<r[1], r[2]>>] = 0
  /\ linked[r[1]] /\ lock[JobOf(r)] = 0
  /\ lock'  = [lock EXCEPT ![JobOf(r)] = LockTtl]
  /\ phase' = [phase EXCEPT ![r] = "locked"]
  /\ UNCHANGED <<rows, history, snap, need, active, env>>

(* SET NX finds the key, or the command fails. *)
LockRefused(r) ==
  /\ phase[r] = "read" /\ need[<<r[1], r[2]>>] = 0
  /\ lock[JobOf(r)] > 0 \/ ~linked[r[1]]
  /\ phase' = [phase EXCEPT ![r] = "denied"]
  /\ UNCHANGED <<rows, history, lock, snap, need, active, env>>

(* Mutant: every locked job is claimed, on the free slots computed before the awaits. *)
DispatchEveryLockedJob(w, s) ==
  /\ need[<<w, s>>] = 0
  /\ In(w, s, {"read"}) = {} /\ In(w, s, {"locked", "denied"}) # {}
  /\ LET T == IF closing[w] THEN {} ELSE In(w, s, {"locked"}) IN
       /\ phase' = [r \in Runs |-> IF r \in RunsOf(w, s, T) THEN "claimed"
                                   ELSE IF r[1] = w /\ r[2] = s /\ phase[r] \in {"locked", "denied"} THEN "idle"
                                   ELSE phase[r]]
       /\ active' = [active EXCEPT ![w] = @ + Cardinality(T)]
  /\ Drop({r \in Runs : phase'[r] = "idle"})
  /\ UNCHANGED <<rows, lock, need, env>>

(* All answers are in: claim what fits.  A lock taken for a job that no longer fits, or
   after the shutdown began, is dropped without releasing its key.  Which of the locked jobs
   come first is left open. *)
DispatchLockedJobs(w, s) ==
  /\ need[<<w, s>>] = 0
  /\ In(w, s, {"read"}) = {} /\ In(w, s, {"locked", "denied"}) # {}
  /\ \E T \in SUBSET In(w, s, {"locked"}) :
       /\ Cardinality(T) = IF closing[w] THEN 0
                           ELSE Least(Cardinality(In(w, s, {"locked"})), Concurrency - active[w])
       /\ phase' = [r \in Runs |->
                      IF r \in RunsOf(w, s, T) THEN "claimed"
                      ELSE IF r \in RunsOf(w, s, In(w, s, {"locked", "denied"})) THEN "idle"
                      ELSE phase[r]]
       /\ active' = [active EXCEPT ![w] = @ + Cardinality(T)]
  /\ Drop({r \in Runs : phase'[r] = "idle"})
  /\ UNCHANGED <<rows, lock, need, env>>
----------------------------------------------------------------------------
(* One run of a job: processJob and its finally block. *)

(* The update is unconditional: whatever the row has become since it was read. *)
MarkRunning(r) ==
  /\ phase[r] = "claimed" /\ JobOf(r) \notin Orphans
  /\ status' = [status EXCEPT ![JobOf(r)] = "RUNNING"]
  /\ delay'  = [delay EXCEPT ![JobOf(r)] = 0]
  /\ age'    = [age EXCEPT ![JobOf(r)] = 0]
  /\ phase'  = [phase EXCEPT ![r] = "running"]
  /\ UNCHANGED <<attempts, history, lock, snap, need, active, env>>

(* The handler returned and markCompleted wrote its result. *)
MarkCompleted(r) ==
  /\ phase[r] = "running" /\ JobOf(r) \notin Hanging
  /\ status' = [status EXCEPT ![JobOf(r)] = "COMPLETED"]
  /\ delay'  = [delay EXCEPT ![JobOf(r)] = 0]
  /\ age'    = [age EXCEPT ![JobOf(r)] = 0]
  /\ phase'  = [phase EXCEPT ![r] = "done"]
  /\ UNCHANGED <<attempts, history, lock, snap, need, active, env>>

(* Mutant: a failure that is not counted. *)
MarkFailedUncounted(r) ==
  /\ phase[r] = "running" /\ JobOf(r) \notin Hanging
  /\ status' = [status EXCEPT ![JobOf(r)] = IF snap[r] < MaxAttempts THEN "RETRYING" ELSE "FAILED"]
  /\ delay'  = [delay EXCEPT ![JobOf(r)] = RetryDelay(1)]
  /\ age'    = [age EXCEPT ![JobOf(r)] = 0]
  /\ phase'  = [phase EXCEPT ![r] = "done"]
  /\ UNCHANGED <<attempts, history, lock, snap, need, active, env>>

(* handleJobError: the handler threw or markCompleted was refused, which it does not tell apart,
   or markRunning was refused.  markFailed counts from the attempts of the snapshot, not from
   the row. *)
MarkFailed(r) ==
  LET j == JobOf(r)
      next == snap[r] + 1
      retrying == next < MaxAttempts
  IN
  /\ \/ phase[r] = "running" /\ j \notin Hanging /\ UNCHANGED faults
     \/ phase[r] = "claimed" /\ j \notin Orphans /\ Fault
  /\ failures' = [failures EXCEPT ![j] = Least(@ + 1, MaxAttempts)]
  /\ misled'   = IF r \in outdated THEN misled \cup {j} ELSE misled
  /\ status'   = [status EXCEPT ![j] = IF retrying THEN "RETRYING" ELSE "FAILED"]
  /\ attempts' = [attempts EXCEPT ![j] = next]
  /\ delay'    = [delay EXCEPT ![j] = IF retrying THEN RetryDelay(next) ELSE 0]
  /\ age'      = [age EXCEPT ![j] = 0]
  /\ phase'    = [phase EXCEPT ![r] = "done"]
  /\ UNCHANGED <<outdated, lock, snap, need, active, closing, linked, drops, retries>>

(* handleMissingHandler *)
MarkUnrecoverableFailure(r) ==
  /\ phase[r] = "claimed" /\ JobOf(r) \in Orphans
  /\ status'   = [status EXCEPT ![JobOf(r)] = "FAILED"]
  /\ attempts' = [attempts EXCEPT ![JobOf(r)] = snap[r] + 1]
  /\ delay'    = [delay EXCEPT ![JobOf(r)] = 0]
  /\ age'      = [age EXCEPT ![JobOf(r)] = 0]
  /\ phase'    = [phase EXCEPT ![r] = "done"]
  /\ UNCHANGED <<history, lock, snap, need, active, env>>

(* Mutant: the counter is forgotten. *)
FinallyWithoutCounter(r) ==
  /\ phase[r] = "done"
  /\ phase' = [phase EXCEPT ![r] = "releasing"]
  /\ Drop({r})
  /\ UNCHANGED <<rows, lock, need, active, env>>

(* The finally block, first the counter, then the key. *)
Finally(r) ==
  /\ phase[r] = "done"
  /\ phase'  = [phase EXCEPT ![r] = "releasing"]
  /\ Drop({r})
  /\ active' = [active EXCEPT ![r[1]] = @ - 1]
  /\ UNCHANGED <<rows, lock, need, env>>

(* DEL takes the key whoever owns it now; on a lost connection it fails. *)
ReleaseLock(r) ==
  /\ phase[r] = "releasing"
  /\ phase' = [phase EXCEPT ![r] = "idle"]
  /\ lock'  = IF linked[r[1]] THEN [lock EXCEPT ![JobOf(r)] = 0] ELSE lock
  /\ UNCHANGED <<rows, history, snap, need, active, env>>
----------------------------------------------------------------------------
(* Recovery, instances and time. *)

(* Mutants: recovery uses up an attempt; an instance recovers only what it runs itself; it
   recovers whatever is RUNNING. *)
RecoverSpendingAttempt(w) ==
  LET stale == {j \in Jobs : status[j] = "RUNNING" /\ age[j] >= StaleWindow} IN
  /\ ~closing[w] /\ stale # {}
  /\ status'   = [j \in Jobs |-> IF j \in stale THEN "PENDING" ELSE status[j]]
  /\ attempts' = [j \in Jobs |-> IF j \in stale THEN attempts[j] + 1 ELSE attempts[j]]
  /\ age'      = [j \in Jobs |-> IF j \in stale THEN 0 ELSE age[j]]
  /\ UNCHANGED <<delay, history, lock, proc, env>>
RecoverOwnJobs(w) ==
  LET stale == {j \in Jobs : status[j] = "RUNNING" /\ age[j] >= StaleWindow
                               /\ \E s \in Slots : j \in In(w, s, {"running"})} IN
  /\ ~closing[w] /\ stale # {}
  /\ status' = [j \in Jobs |-> IF j \in stale THEN "PENDING" ELSE status[j]]
  /\ age'    = [j \in Jobs |-> IF j \in stale THEN 0 ELSE age[j]]
  /\ UNCHANGED <<attempts, delay, history, lock, proc, env>>

RecoverRunningJobs(w) ==
  LET running == {j \in Jobs : status[j] = "RUNNING"} IN
  /\ ~closing[w] /\ running # {}
  /\ status' = [j \in Jobs |-> IF j \in running THEN "PENDING" ELSE status[j]]
  /\ age'    = [j \in Jobs |-> IF j \in running THEN 0 ELSE age[j]]
  /\ UNCHANGED <<attempts, delay, history, lock, proc, env>>

RecoverStaleJobs(w) ==
  LET stale == {j \in Jobs : status[j] = "RUNNING" /\ age[j] >= StaleWindow} IN
  /\ ~closing[w]
  /\ stale # {}
  /\ status' = [j \in Jobs |-> IF j \in stale THEN "PENDING" ELSE status[j]]
  /\ delay'  = [j \in Jobs |-> IF j \in stale THEN 0 ELSE delay[j]]
  /\ age'    = [j \in Jobs |-> IF j \in stale THEN 0 ELSE age[j]]
  /\ UNCHANGED <<attempts, history, lock, proc, env>>

(* Everything an instance keeps in memory is lost; rows and Redis keys are not. *)
Forget(w) ==
  /\ phase'   = [r \in Runs |-> IF r[1] = w THEN "idle" ELSE phase[r]]
  /\ Drop({r \in Runs : r[1] = w})
  /\ need'    = [p \in Polls |-> IF p[1] = w THEN 0 ELSE need[p]]
  /\ active'  = [active EXCEPT ![w] = 0]
  /\ closing' = [closing EXCEPT ![w] = FALSE]
  /\ linked'  = [linked EXCEPT ![w] = TRUE]
  /\ UNCHANGED <<rows, drops, retries>>

(* A crash, or the exit that ends a shutdown, and the start of a new process. *)
Restart(w) ==
  /\ IF closing[w] THEN UNCHANGED faults ELSE Fault
  /\ Forget(w)
  /\ UNCHANGED lock

(* markFailed (or markUnrecoverableFailure) itself is rejected by the database.  The
   finally block still sends its DEL, nobody handles the rejection of the dispatched
   promise, and Node ends the process. *)
AbandonRun(r) ==
  /\ phase[r] \in {"claimed", "running"}
  /\ Fault
  /\ Forget(r[1])
  /\ \/ linked[r[1]] /\ lock' = [lock EXCEPT ![JobOf(r)] = 0]
     \/ UNCHANGED lock

BeginShutdown(w) ==
  /\ ~closing[w]
  /\ Fault
  /\ closing' = [closing EXCEPT ![w] = TRUE]
  /\ UNCHANGED <<rows, history, lock, proc, linked, drops, retries>>

(* The connection closes, and with retryStrategy returning null ioredis never opens another.
   SET NX commands that were under way may have reached Redis: the poll sees them fail. *)
LoseRedis(w) ==
  /\ linked[w] /\ drops < MaxDrops
  /\ drops' = drops + 1
  /\ linked' = [linked EXCEPT ![w] = FALSE]
  /\ \E T \in SUBSET {j \in Jobs : lock[j] = 0 /\ \E s \in Slots : need[<<w, s>>] = 0 /\ j \in In(w, s, {"read"})} :
       lock' = [j \in Jobs |-> IF j \in T THEN LockTtl ELSE lock[j]]
  /\ UNCHANGED <<rows, history, proc, closing, faults, retries>>

Tick ==
  /\ HandlersMeetTtl => \A r \in Runs : phase[r] \in Held => lock[JobOf(r)] > 1
  /\ PromptCalls => (\A r \in Runs : phase[r] \in {"idle", "running"}) /\ (\A p \in Polls : need[p] = 0)
  /\ lock'  = [j \in Jobs |-> IF lock[j] > 0 THEN lock[j] - 1 ELSE 0]
  /\ delay' = [j \in Jobs |-> IF delay[j] > 0 THEN delay[j] - 1 ELSE 0]
  /\ age'   = [j \in Jobs |-> IF status[j] = "RUNNING" /\ age[j] < StaleWindow
                              THEN age[j] + 1 ELSE age[j]]
  /\ UNCHANGED <<status, attempts, history, proc, env>>
----------------------------------------------------------------------------
JobService == \/ \E j \in Jobs : Enqueue(j) \/ CancelJob(j) \/ RetryJob(j)
              \/ CancelAllJobs

RunStep(r) ==
  \/ AcquireLock(r) \/ LockRefused(r)
  \/ MarkRunning(r) \/ MarkCompleted(r) \/ MarkFailed(r) \/ MarkUnrecoverableFailure(r)
  \/ Finally(r) \/ ReleaseLock(r)

PollStep(w, s) == PollAndProcess(w, s) \/ FindBackgroundJobs(w, s) \/ DispatchLockedJobs(w, s)

Next ==
  \/ JobService
  \/ \E w \in Workers, s \in Slots : PollStep(w, s) \/ PollError(w, s)
  \/ \E r \in Runs : RunStep(r) \/ AbandonRun(r)
  \/ \E w \in Workers : RecoverStaleJobs(w) \/ Restart(w) \/ BeginShutdown(w) \/ LoseRedis(w)
  \/ Tick

Spec == Init /\ [][Next]_vars

(***************************************************************************)
(* What the scheduling of the code guarantees: the two intervals keep      *)
(* firing, every await ends, a handler ends one way or the other, clocks   *)
(* advance and a process that shuts down exits and is started again.       *)
(* Operators, crashes and lost connections are never forced.               *)
(***************************************************************************)
Fairness ==
  /\ \A w \in Workers, s \in Slots : WF_vars(PollStep(w, s))
  /\ \A r \in Runs : WF_vars(RunStep(r))
  /\ \A w \in Workers : WF_vars(RecoverStaleJobs(w)) /\ WF_vars(closing[w] /\ Restart(w))
  /\ WF_vars(Tick)

FairSpec == Spec /\ Fairness
----------------------------------------------------------------------------
(* The type of every variable. *)
TypeOK ==
  /\ status \in [Jobs -> Status]
  /\ attempts \in [Jobs -> Nat] /\ delay \in [Jobs -> Nat] /\ age \in [Jobs -> Nat]
  /\ failures \in [Jobs -> Nat] /\ outdated \subseteq Runs /\ misled \subseteq Jobs
  /\ lock \in [Jobs -> 0..LockTtl]
  /\ phase \in [Runs -> Phase] /\ snap \in [Runs -> Nat] /\ need \in [Polls -> Nat]
  /\ active \in [Workers -> Int]
  /\ closing \in [Workers -> BOOLEAN] /\ linked \in [Workers -> BOOLEAN]
  /\ faults \in Nat /\ drops \in Nat /\ retries \in Nat

(* The Redis lock gives a job at most one running handler, over all instances and all
   overlapping polls.  True when every holder is done within the lock's time to live. *)
OneRunnerPerJob ==
  \A r1, r2 \in Runs :
    phase[r1] = "running" /\ phase[r2] = "running" /\ JobOf(r1) = JobOf(r2) => r1 = r2

(* While a handler runs, nothing takes its row out of RUNNING: no operator, no recovery, no
   second run.  True when every holder is done within the lock's time to live, because that
   is shorter than the stale window. *)
LiveRunKeepsItsRow ==
  \A r \in Runs : phase[r] = "running" => status[JobOf(r)] = "RUNNING"

(* activeJobs counts the runs of the instance exactly and never exceeds the concurrency,
   although polls overlap and each one computed its free slots before its awaits. *)
CapacityRespected ==
  \A w \in Workers :
    /\ active[w] <= Concurrency
    /\ active[w] = Cardinality({r \in Runs : r[1] = w /\ phase[r] \in Counted})

(* A job with a handler is given up only when maxAttempts of its runs have failed since it was
   created or last retried: the handler threw, or a write of the row before or after it was
   refused.  A crash, a recovery and a snapshot made old by another run use up no attempt.  The
   one thing that cuts a round short is a run that read the row before the operator's retry:
   it counts on from the attempts the retry has cleared. *)
GivesUpOnlyAfterMaxAttempts ==
  \A j \in Jobs \ Orphans : status[j] = "FAILED" => failures[j] >= MaxAttempts \/ j \in misled

(* Without crashes, a row never records more attempts than it has, however polls and
   operator retries interleave. *)
AttemptsWithinBudget == \A j \in Jobs : attempts[j] <= MaxAttempts

(* Without crashes, a RUNNING row always has a handler running it: no interleaving of polls,
   cancellations and retries leaves it to the stale recovery. *)
RunningRowHasRunner ==
  \A j \in Jobs : status[j] = "RUNNING" => \E r \in Runs : phase[r] = "running" /\ JobOf(r) = j

(* Recovery never relies on manual intervention: a RUNNING row, whoever runs it, or nobody,
   leaves RUNNING. *)
RunningEnds == \A j \in Jobs : status[j] = "RUNNING" ~> status[j] # "RUNNING"

(* Every job waiting to run is eventually run to its end or cancelled: leaked locks expire,
   lost runs are recovered and attempts run out. *)
EveryJobSettles == \A j \in Jobs : status[j] \in Open ~> status[j] \in Terminal

(* No handler keeps a slot of its instance for good: the stale recovery is there so that a
   hung handler does not "consume a concurrency slot".  True when every handler settles. *)
SlotsComeBack == \A w \in Workers : active[w] = Concurrency ~> active[w] < Concurrency
----------------------------------------------------------------------------
(* What a client sees of a row: PENDING and RETRYING are one. *)
ClientRow(st) ==
  CASE st \in Open -> "waiting"
    [] st = "RUNNING" -> "running"
    [] st = "COMPLETED" -> "completed"
    [] st = "FAILED" -> "failed"
    [] st = "CANCELLED" -> "cancelled"
    [] OTHER -> "absent"

Contract == INSTANCE JobContract WITH
  Runners <- Runs,
  row     <- [j \in Jobs |-> ClientRow(status[j])],
  handler <- [j \in Jobs |-> {r \in Runs : phase[r] = "running" /\ JobOf(r) = j}]

(* The instances together keep the contract of the job subsystem: one handler for a job, and
   a row that only its own handler changes while it runs, through crashes, shutdowns, stale
   polls, recoveries and operators.  True when every holder is done within the lock's time to
   live. *)
KeepsContract == Contract!JobSpec
============================================================================
