----------------------- MODULE JobProcessor_proofs -----------------------
(***************************************************************************)
(* Theorems about JobProcessor, for any number of instances, overlapping   *)
(* polls and jobs.                                                         *)
(***************************************************************************)
EXTENDS JobProcessor, FiniteSetTheorems, TLAPS

LEMMA RunType ==
  ASSUME NEW r \in Runs
  PROVE  /\ r[1] \in Workers /\ r[2] \in Slots /\ JobOf(r) \in Jobs
         /\ <<r[1], r[2]>> \in Polls /\ r = <<r[1], r[2], JobOf(r)>>
BY DEF Runs, Polls, JobOf

LEMMA RetryDelayType == ASSUME NEW n \in Nat PROVE RetryDelay(n) \in Nat
BY TimeAssumption DEF RetryDelay

(* The number of jobs in a part of Jobs is a number. *)
LEMMA CountType == ASSUME NEW T \in SUBSET Jobs PROVE Cardinality(T) \in Nat
BY JobsAssumption, FS_Subset, FS_CardinalityType

(* A fetch never returns more rows than were asked for. *)
LEMMA FetchBound ==
  ASSUME NEW S \in SUBSET Jobs, NEW T, NEW n \in Nat, FirstOf(T, S, n)
  PROVE  T \in SUBSET Jobs /\ Cardinality(T) \in Nat /\ Cardinality(T) <= n
<1>1. T \in SUBSET Jobs /\ Cardinality(T) = Least(Cardinality(S), n)
  BY DEF FirstOf
<1>2. Cardinality(T) \in Nat /\ Cardinality(S) \in Nat
  BY <1>1, CountType
<1> QED
  BY <1>1, <1>2 DEF Least

(* What a process that ends leaves behind is well typed. *)
LEMMA ForgetType ==
  ASSUME TypeOK, NEW w \in Workers, Forget(w)
  PROVE  /\ status' \in [Jobs -> Status]
         /\ attempts' \in [Jobs -> Nat] /\ delay' \in [Jobs -> Nat] /\ age' \in [Jobs -> Nat]
         /\ failures' \in [Jobs -> Nat] /\ outdated' \subseteq Runs /\ misled' \subseteq Jobs
         /\ phase' \in [Runs -> Phase] /\ snap' \in [Runs -> Nat] /\ need' \in [Polls -> Nat]
         /\ active' \in [Workers -> Int]
         /\ closing' \in [Workers -> BOOLEAN] /\ linked' \in [Workers -> BOOLEAN]
         /\ drops' \in Nat /\ retries' \in Nat
<1>1. /\ phase' \in [Runs -> Phase] /\ snap' \in [Runs -> Nat] /\ need' \in [Polls -> Nat]
      /\ active' \in [Workers -> Int]
  BY DEF TypeOK, Forget, Drop, Phase
<1>2. closing' \in [Workers -> BOOLEAN] /\ linked' \in [Workers -> BOOLEAN]
  BY DEF TypeOK, Forget
<1> QED
  BY <1>1, <1>2 DEF TypeOK, Forget, Drop, rows
----------------------------------------------------------------------------
(* Every variable keeps its type. *)
THEOREM TypeCorrect == Spec => []TypeOK
<1> USE TimeAssumption
<1>1. Init => TypeOK
  BY DEF Init, TypeOK, Status, Phase, Open, Terminal
<1>2. TypeOK /\ [Next]_vars => TypeOK'
  <2> SUFFICES ASSUME TypeOK, [Next]_vars PROVE TypeOK'
    OBVIOUS
  <2> USE DEF TypeOK, rows, proc, env, history
  <2>1. ASSUME NEW j \in Jobs, Enqueue(j) PROVE TypeOK'
    BY <2>1 DEF Enqueue, Status, Open
  <2>2. ASSUME NEW j \in Jobs, CancelJob(j) PROVE TypeOK'
    BY <2>2 DEF CancelJob, Status, Terminal
  <2>3. CASE CancelAllJobs
    BY <2>3 DEF CancelAllJobs, Status, Terminal
  <2>4. ASSUME NEW j \in Jobs, RetryJob(j) PROVE TypeOK'
    BY <2>4 DEF RetryJob, NewRound, Status, Open
  <2>5. ASSUME NEW w \in Workers, NEW s \in Slots, PollAndProcess(w, s) PROVE TypeOK'
    <3>1. PICK T \in SUBSET (Due \cap Interactive) :
            /\ FirstOf(T, Due \cap Interactive, Concurrency - active[w])
            /\ Fetch(w, s, T)
            /\ need' = [need EXCEPT ![<<w, s>>] = Concurrency - active[w] - Cardinality(T)]
      BY <2>5 DEF PollAndProcess
    <3>2. Concurrency - active[w] \in Nat
      BY <2>5, ConcurrencyAssumption DEF PollAndProcess
    <3>3. Cardinality(T) \in Nat /\ Cardinality(T) <= Concurrency - active[w]
      BY <3>1, <3>2, FetchBound DEF Due
    <3>4. need' \in [Polls -> Nat]
      <4>1. Concurrency - active[w] - Cardinality(T) \in Nat
        BY <3>2, <3>3
      <4> QED
        BY <3>1, <4>1
    <3>5. phase' \in [Runs -> Phase] /\ snap' \in [Runs -> Nat]
      BY <3>1, RunType DEF Fetch, Phase
    <3> QED
      BY <2>5, <3>4, <3>5 DEF PollAndProcess
  <2>6. ASSUME NEW w \in Workers, NEW s \in Slots, FindBackgroundJobs(w, s) PROVE TypeOK'
    BY <2>6, RunType DEF FindBackgroundJobs, Fetch, Phase, Polls
  <2>7. ASSUME NEW w \in Workers, NEW s \in Slots, PollError(w, s) PROVE TypeOK'
    BY <2>7 DEF PollError, Drop, Fault, Phase, Polls
  <2>8. ASSUME NEW r \in Runs, AcquireLock(r) PROVE TypeOK'
    BY <2>8, RunType DEF AcquireLock, Phase, Held
  <2>9. ASSUME NEW r \in Runs, LockRefused(r) PROVE TypeOK'
    BY <2>9, RunType DEF LockRefused, Phase
  <2>10. ASSUME NEW w \in Workers, NEW s \in Slots, DispatchLockedJobs(w, s) PROVE TypeOK'
    <3>1. phase' \in [Runs -> Phase] /\ snap' \in [Runs -> Nat]
      BY <2>10 DEF DispatchLockedJobs, Drop, Phase, Held, Counted
    <3>2. active' \in [Workers -> Int]
      <4>1. PICK T \in SUBSET Jobs : active' = [active EXCEPT ![w] = @ + Cardinality(T)]
        BY <2>10 DEF DispatchLockedJobs, In
      <4> QED
        BY <4>1, CountType
    <3> QED
      BY <2>10, <3>1, <3>2 DEF DispatchLockedJobs, Drop
  <2>11. ASSUME NEW r \in Runs, MarkRunning(r) PROVE TypeOK'
    BY <2>11, RunType DEF MarkRunning, Status, Phase, Held, Counted
  <2>12. ASSUME NEW r \in Runs, MarkCompleted(r) PROVE TypeOK'
    BY <2>12, RunType DEF MarkCompleted, Status, Terminal, Phase, Held, Counted
  <2>13. ASSUME NEW r \in Runs, MarkFailed(r) PROVE TypeOK'
    <3>1. JobOf(r) \in Jobs
      BY RunType
    <3> snap[r] \in Nat /\ snap[r] + 1 \in Nat
      OBVIOUS
    <3> RetryDelay(snap[r] + 1) \in Nat
      BY <3>1, RetryDelayType
    <3>2. failures' \in [Jobs -> Nat]
      <4>1. Least(failures[JobOf(r)] + 1, MaxAttempts) \in Nat
        BY <3>1, MaxAttemptsAssumption DEF Least
      <4> QED
        BY <2>13, <3>1, <4>1 DEF MarkFailed
    <3>3. faults' \in Nat
      BY <2>13 DEF MarkFailed, Fault
    <3>4. status' \in [Jobs -> Status] /\ attempts' \in [Jobs -> Nat] /\ delay' \in [Jobs -> Nat]
      BY <2>13, <3>1 DEF MarkFailed, Status, Open, Terminal
    <3> QED
      BY <2>13, <3>2, <3>3, <3>4 DEF MarkFailed, Phase, Held, Counted
  <2>14. ASSUME NEW r \in Runs, MarkUnrecoverableFailure(r) PROVE TypeOK'
    <3>1. JobOf(r) \in Jobs
      BY RunType
    <3> snap[r] \in Nat /\ snap[r] + 1 \in Nat
      OBVIOUS
    <3> QED
      BY <2>14, <3>1 DEF MarkUnrecoverableFailure, Status, Terminal, Phase, Held, Counted
  <2>15. ASSUME NEW r \in Runs, Finally(r) PROVE TypeOK'
    <3>1. r[1] \in Workers
      BY RunType
    <3>2. active' \in [Workers -> Int]
      BY <2>15, <3>1 DEF Finally
    <3> QED
      BY <2>15, <3>2 DEF Finally, Drop, Phase, Held
  <2>16. ASSUME NEW r \in Runs, ReleaseLock(r) PROVE TypeOK'
    <3>1. lock' = [lock EXCEPT ![JobOf(r)] = 0] \/ lock' = lock
      BY <2>16 DEF ReleaseLock
    <3>2. lock' \in [Jobs -> 0..LockTtl]
      BY <3>1
    <3> QED
      BY <2>16, <3>2 DEF ReleaseLock, Phase
  <2>17. ASSUME NEW r \in Runs, AbandonRun(r) PROVE TypeOK'
    <3>1. Forget(r[1]) /\ Fault /\ lock' \in [Jobs -> 0..LockTtl]
      BY <2>17, RunType DEF AbandonRun
    <3>2. r[1] \in Workers
      BY RunType
    <3> QED
      BY <3>1, <3>2, ForgetType DEF Fault
  <2>18. ASSUME NEW w \in Workers, RecoverStaleJobs(w) PROVE TypeOK'
    BY <2>18 DEF RecoverStaleJobs, Status, Open
  <2>19. ASSUME NEW w \in Workers, Restart(w) PROVE TypeOK'
    BY <2>19, ForgetType DEF Restart, Fault
  <2>20. ASSUME NEW w \in Workers, BeginShutdown(w) PROVE TypeOK'
    BY <2>20 DEF BeginShutdown, Fault
  <2>21. ASSUME NEW w \in Workers, LoseRedis(w) PROVE TypeOK'
    BY <2>21 DEF LoseRedis
  <2>22. CASE Tick
    BY <2>22 DEF Tick
  <2>23. CASE UNCHANGED vars
    BY <2>23 DEF vars
  <2> QED
    BY <2>1, <2>2, <2>3, <2>4, <2>5, <2>6, <2>7, <2>8, <2>9, <2>10, <2>11, <2>12, <2>13, <2>14,
       <2>15, <2>16, <2>17, <2>18, <2>19, <2>20, <2>21, <2>22, <2>23
       DEF Next, JobService, PollStep, RunStep
<1> QED
  BY <1>1, <1>2, PTL DEF Spec
----------------------------------------------------------------------------
(***************************************************************************)
(* Mutual exclusion is not inductive: it says nothing of who may start.    *)
(* The invariant adds that every holder still has its key, that the        *)
(* holders of a job are one, and that the age of a live run and the time   *)
(* left on its key never exceed the time to live together: so the row of a *)
(* live run is always too young for the stale recovery.                    *)
(***************************************************************************)
HoldersHaveKey == \A r \in Runs : phase[r] \in Held => lock[JobOf(r)] > 0

OneHolder ==
  \A r1, r2 \in Runs :
    phase[r1] \in Held /\ phase[r2] \in Held /\ JobOf(r1) = JobOf(r2) => r1 = r2

LiveRunIsYoung ==
  \A r \in Runs : phase[r] = "running" =>
    status[JobOf(r)] = "RUNNING" /\ age[JobOf(r)] + lock[JobOf(r)] <= LockTtl

LockInvariant == HoldersHaveKey /\ OneHolder /\ LiveRunIsYoung

(***************************************************************************)
(* For the attempts: what the row, or a snapshot of it, says was used up   *)
(* is covered by runs that failed since the last retry.  A snapshot from   *)
(* before the retry is not, nor is a row such a run has written to.        *)
(***************************************************************************)
Covered(n, j) == n <= failures[j] \/ MaxAttempts <= failures[j]

HasSnapshot(r) == phase[r] \notin {"idle", "releasing"}

BudgetInvariant ==
  /\ \A j \in Jobs \ (Orphans \cup misled) :
       Covered(attempts[j], j) /\ (status[j] = "FAILED" => MaxAttempts <= failures[j])
  /\ \A r \in Runs : HasSnapshot(r) /\ r \notin outdated /\ JobOf(r) \notin Orphans \cup misled =>
       Covered(snap[r], JobOf(r))

(* A step that takes no key, starts no run and leaves RUNNING rows alone. *)
LEMMA QuietStep ==
  ASSUME LockInvariant, UNCHANGED lock,
         \A r \in Runs : /\ phase'[r] \in Held => phase[r] \in Held
                         /\ phase'[r] = "running" => phase[r] = "running",
         \A j \in Jobs : status[j] = "RUNNING" => status'[j] = "RUNNING" /\ age'[j] = age[j]
  PROVE  LockInvariant'
<1>1. HoldersHaveKey' /\ OneHolder'
  BY DEF LockInvariant, HoldersHaveKey, OneHolder
<1>2. LiveRunIsYoung'
  BY RunType DEF LockInvariant, LiveRunIsYoung
<1> QED
  BY <1>1, <1>2 DEF LockInvariant

(* A run that ends: its row may change, its key may go. *)
LEMMA EndingStep ==
  ASSUME TypeOK, LockInvariant, NEW q \in Runs, phase[q] \in Held,
         \A r \in Runs : /\ phase'[r] \in Held => phase[r] \in Held
                         /\ phase'[r] = "running" => phase[r] = "running",
         phase'[q] # "running",
         UNCHANGED lock \/ (phase'[q] \notin Held /\ lock' = [lock EXCEPT ![JobOf(q)] = 0]),
         \A j \in Jobs \ {JobOf(q)} : status'[j] = status[j] /\ age'[j] = age[j]
  PROVE  LockInvariant'
<1>1. lock \in [Jobs -> 0..LockTtl] /\ \A r \in Runs : JobOf(r) \in Jobs
  BY RunType DEF TypeOK
<1>2. ASSUME NEW r \in Runs, phase'[r] \in Held
      PROVE  r = q \/ (JobOf(r) # JobOf(q) /\ lock'[JobOf(r)] = lock[JobOf(r)])
  BY <1>1, <1>2 DEF LockInvariant, OneHolder
<1>3. HoldersHaveKey' /\ OneHolder'
  BY <1>1, <1>2 DEF LockInvariant, HoldersHaveKey, OneHolder
<1>4. LiveRunIsYoung'
  <2> SUFFICES ASSUME NEW r \in Runs, phase'[r] = "running"
               PROVE  status'[JobOf(r)] = "RUNNING" /\ age'[JobOf(r)] + lock'[JobOf(r)] <= LockTtl
    BY DEF LiveRunIsYoung
  <2>1. r # q /\ phase[r] = "running" /\ phase'[r] \in Held
    BY DEF Held, Counted
  <2>2. JobOf(r) # JobOf(q) /\ lock'[JobOf(r)] = lock[JobOf(r)]
    BY <1>2, <2>1
  <2> QED
    BY <1>1, <2>1, <2>2 DEF LockInvariant, LiveRunIsYoung
<1> QED
  BY <1>3, <1>4 DEF LockInvariant

(* The invariant is inductive when every holder is done before its key expires. *)
LEMMA LockStep ==
  ASSUME HandlersMeetTtl, TypeOK, LockInvariant, [Next]_vars
  PROVE  LockInvariant'
<1> USE DEF rows, proc, env
<1>t. /\ phase \in [Runs -> Phase] /\ lock \in [Jobs -> 0..LockTtl]
      /\ status \in [Jobs -> Status] /\ age \in [Jobs -> Nat]
  BY DEF TypeOK
<1>j. \A r \in Runs : JobOf(r) \in Jobs
  BY RunType
<1>1. ASSUME NEW j \in Jobs, Enqueue(j) \/ CancelJob(j) \/ RetryJob(j) PROVE LockInvariant'
  BY <1>1, <1>t, QuietStep DEF Enqueue, CancelJob, RetryJob, Open
<1>2. CASE CancelAllJobs
  BY <1>2, <1>t, QuietStep DEF CancelAllJobs, Open
<1>3. ASSUME NEW w \in Workers, NEW s \in Slots, PollAndProcess(w, s) \/ FindBackgroundJobs(w, s)
      PROVE  LockInvariant'
  <2>1. PICK T : Fetch(w, s, T)
    BY <1>3 DEF PollAndProcess, FindBackgroundJobs
  <2>2. UNCHANGED <<lock, status, age>>
    BY <1>3 DEF PollAndProcess, FindBackgroundJobs
  <2> QED
    BY <2>1, <2>2, <1>t, QuietStep DEF Fetch, Held, Counted
<1>4. ASSUME NEW w \in Workers, NEW s \in Slots, PollError(w, s) PROVE LockInvariant'
  BY <1>4, <1>t, QuietStep DEF PollError, Held, Counted
<1>5. ASSUME NEW w \in Workers, NEW s \in Slots, DispatchLockedJobs(w, s) PROVE LockInvariant'
  <2>1. UNCHANGED <<lock, status, age>>
    BY <1>5 DEF DispatchLockedJobs
  <2>2. PICK T \in SUBSET In(w, s, {"locked"}) :
          phase' = [r \in Runs |->
                      IF r \in RunsOf(w, s, T) THEN "claimed"
                      ELSE IF r \in RunsOf(w, s, In(w, s, {"locked", "denied"})) THEN "idle"
                      ELSE phase[r]]
    BY <1>5 DEF DispatchLockedJobs
  <2>3. \A r \in Runs : r \in RunsOf(w, s, T) => phase[r] = "locked"
    BY DEF RunsOf, In
  <2> QED
    BY <2>1, <2>2, <2>3, QuietStep DEF Held, Counted
<1>6. ASSUME NEW r \in Runs, AcquireLock(r) PROVE LockInvariant'
  <2>1. /\ lock[JobOf(r)] = 0 /\ phase[r] = "read" /\ UNCHANGED <<status, age>>
        /\ lock' = [lock EXCEPT ![JobOf(r)] = LockTtl]
        /\ phase' = [phase EXCEPT ![r] = "locked"]
    BY <1>6 DEF AcquireLock
  <2>2. ASSUME NEW q \in Runs, phase[q] \in Held PROVE JobOf(q) # JobOf(r)
    BY <2>1, <2>2 DEF LockInvariant, HoldersHaveKey
  <2>3. \A q \in Runs : phase'[q] \in Held => q = r \/ (phase[q] \in Held /\ phase'[q] = phase[q])
    BY <2>1, <1>t
  <2>h. HoldersHaveKey'
    BY <2>1, <2>2, <2>3, <1>t, <1>j, TimeAssumption DEF LockInvariant, HoldersHaveKey
  <2>o. OneHolder'
    BY <2>2, <2>3 DEF LockInvariant, OneHolder
  <2>4. HoldersHaveKey' /\ OneHolder'
    BY <2>h, <2>o
  <2>5. LiveRunIsYoung'
    BY <2>1, <2>2, <2>3, <1>t, RunType DEF LockInvariant, LiveRunIsYoung, Held, Counted
  <2> QED
    BY <2>4, <2>5 DEF LockInvariant
<1>7. ASSUME NEW r \in Runs, LockRefused(r) PROVE LockInvariant'
  BY <1>7, <1>t, QuietStep DEF LockRefused, Held, Counted
<1>8. ASSUME NEW r \in Runs, MarkRunning(r) PROVE LockInvariant'
  <2> DEFINE j == JobOf(r)
  <2>1. /\ phase[r] = "claimed" /\ UNCHANGED lock
        /\ status' = [status EXCEPT ![j] = "RUNNING"] /\ age' = [age EXCEPT ![j] = 0]
        /\ phase' = [phase EXCEPT ![r] = "running"]
    BY <1>8 DEF MarkRunning
  <2>2. HoldersHaveKey' /\ OneHolder'
    BY <2>1, <1>t DEF LockInvariant, HoldersHaveKey, OneHolder, Held, Counted
  <2>3. ASSUME NEW q \in Runs, phase'[q] = "running"
        PROVE  status'[JobOf(q)] = "RUNNING" /\ age'[JobOf(q)] + lock'[JobOf(q)] <= LockTtl
    <3>1. CASE JobOf(q) = j
      <4>1. j \in Jobs /\ lock[j] \in 0..LockTtl
        BY <1>t, <1>j
      <4>2. status'[j] = "RUNNING" /\ age'[j] = 0 /\ lock'[j] = lock[j]
        BY <2>1, <4>1, <1>t
      <4> QED
        BY <3>1, <4>1, <4>2, TimeAssumption
    <3>2. CASE JobOf(q) # j
      BY <3>2, <2>1, <2>3, <1>t, RunType DEF LockInvariant, LiveRunIsYoung
    <3> QED
      BY <3>1, <3>2
  <2> QED
    BY <2>2, <2>3 DEF LockInvariant, LiveRunIsYoung
<1>9. ASSUME NEW r \in Runs, MarkCompleted(r) \/ MarkFailed(r) \/ MarkUnrecoverableFailure(r)
      PROVE  LockInvariant'
  <2>1. /\ phase[r] \in {"claimed", "running"} /\ phase' = [phase EXCEPT ![r] = "done"]
        /\ UNCHANGED lock
    BY <1>9 DEF MarkCompleted, MarkFailed, MarkUnrecoverableFailure
  <2>2. \A j \in Jobs \ {JobOf(r)} : status'[j] = status[j] /\ age'[j] = age[j]
    BY <1>9, <1>t DEF MarkCompleted, MarkFailed, MarkUnrecoverableFailure
  <2> QED
    BY <2>1, <2>2, <1>t, EndingStep DEF Held, Counted
<1>10. ASSUME NEW r \in Runs, Finally(r) PROVE LockInvariant'
  BY <1>10, <1>t, QuietStep DEF Finally, Held, Counted
<1>11. ASSUME NEW r \in Runs, ReleaseLock(r) PROVE LockInvariant'
  <2>1. /\ phase[r] = "releasing" /\ phase' = [phase EXCEPT ![r] = "idle"]
        /\ lock' = [lock EXCEPT ![JobOf(r)] = 0] \/ UNCHANGED lock
        /\ UNCHANGED <<status, age>>
    BY <1>11 DEF ReleaseLock
  <2> QED
    BY <2>1, <1>t, EndingStep DEF Held, Counted
<1>12. ASSUME NEW r \in Runs, AbandonRun(r) PROVE LockInvariant'
  <2>1. /\ phase[r] \in {"claimed", "running"}
        /\ phase' = [q \in Runs |-> IF q[1] = r[1] THEN "idle" ELSE phase[q]]
        /\ lock' = [lock EXCEPT ![JobOf(r)] = 0] \/ UNCHANGED lock
        /\ UNCHANGED <<status, age>>
    BY <1>12 DEF AbandonRun, Forget
  <2> QED
    BY <2>1, <1>t, EndingStep DEF Held, Counted
<1>13. ASSUME NEW w \in Workers, RecoverStaleJobs(w) PROVE LockInvariant'
  <2>1. UNCHANGED <<lock, phase>>
    BY <1>13 DEF RecoverStaleJobs
  <2>2. \A r \in Runs : phase[r] = "running" =>
          status'[JobOf(r)] = status[JobOf(r)] /\ age'[JobOf(r)] = age[JobOf(r)]
    <3> SUFFICES ASSUME NEW r \in Runs, phase[r] = "running"
                 PROVE  status'[JobOf(r)] = status[JobOf(r)] /\ age'[JobOf(r)] = age[JobOf(r)]
      OBVIOUS
    <3>1. lock[JobOf(r)] > 0 /\ age[JobOf(r)] + lock[JobOf(r)] <= LockTtl /\ JobOf(r) \in Jobs
      BY RunType DEF LockInvariant, HoldersHaveKey, LiveRunIsYoung, Held, Counted
    <3>2. ~(age[JobOf(r)] >= StaleWindow)
      BY <3>1, <1>t, TimeAssumption
    <3> QED
      BY <3>1, <3>2, <1>13 DEF RecoverStaleJobs
  <2> QED
    BY <2>1, <2>2 DEF LockInvariant, HoldersHaveKey, OneHolder, LiveRunIsYoung
<1>14. ASSUME NEW w \in Workers, Restart(w) PROVE LockInvariant'
  BY <1>14, <1>t, QuietStep DEF Restart, Forget, Held, Counted
<1>15. ASSUME NEW w \in Workers, BeginShutdown(w) PROVE LockInvariant'
  BY <1>15, <1>t, QuietStep DEF BeginShutdown
<1>16. ASSUME NEW w \in Workers, LoseRedis(w) PROVE LockInvariant'
  <2>1. UNCHANGED <<phase, status, age>>
    BY <1>16 DEF LoseRedis
  <2>2. \A r \in Runs : phase[r] \in Held => lock'[JobOf(r)] = lock[JobOf(r)]
    <3>1. PICK T \in SUBSET {j \in Jobs : lock[j] = 0} :
            lock' = [j \in Jobs |-> IF j \in T THEN LockTtl ELSE lock[j]]
      BY <1>16 DEF LoseRedis
    <3> QED
      BY <3>1, <1>t, <1>j DEF LockInvariant, HoldersHaveKey
  <2> QED
    BY <2>1, <2>2 DEF LockInvariant, HoldersHaveKey, OneHolder, LiveRunIsYoung, Held, Counted
<1>17. CASE Tick
  <2>1. /\ \A r \in Runs : phase[r] \in Held => lock[JobOf(r)] > 1
        /\ lock' = [j \in Jobs |-> IF lock[j] > 0 THEN lock[j] - 1 ELSE 0]
        /\ age' = [j \in Jobs |-> IF status[j] = "RUNNING" /\ age[j] < StaleWindow
                                  THEN age[j] + 1 ELSE age[j]]
        /\ UNCHANGED <<status, phase>>
    BY <1>17 DEF Tick
  <2>2. \A r \in Runs : phase[r] \in Held =>
          lock'[JobOf(r)] = lock[JobOf(r)] - 1 /\ lock'[JobOf(r)] > 0
          /\ age'[JobOf(r)] <= age[JobOf(r)] + 1
    <3> SUFFICES ASSUME NEW r \in Runs, phase[r] \in Held
                 PROVE  lock'[JobOf(r)] = lock[JobOf(r)] - 1 /\ lock'[JobOf(r)] > 0
                        /\ age'[JobOf(r)] <= age[JobOf(r)] + 1
      OBVIOUS
    <3>1. JobOf(r) \in Jobs /\ lock[JobOf(r)] > 1 /\ lock[JobOf(r)] \in Int /\ age[JobOf(r)] \in Nat
      BY <2>1, <1>t, <1>j
    <3>2. lock'[JobOf(r)] = lock[JobOf(r)] - 1
      BY <2>1, <3>1
    <3>3. age'[JobOf(r)] \in {age[JobOf(r)], age[JobOf(r)] + 1}
      BY <2>1, <3>1
    <3> QED
      BY <3>1, <3>2, <3>3
  <2>3. HoldersHaveKey' /\ OneHolder'
    BY <2>1, <2>2 DEF LockInvariant, HoldersHaveKey, OneHolder
  <2>4. LiveRunIsYoung'
    <3> SUFFICES ASSUME NEW r \in Runs, phase[r] = "running"
                 PROVE  status[JobOf(r)] = "RUNNING" /\ age'[JobOf(r)] + lock'[JobOf(r)] <= LockTtl
      BY <2>1 DEF LiveRunIsYoung
    <3>1. /\ age[JobOf(r)] \in Nat /\ age'[JobOf(r)] \in Nat /\ lock[JobOf(r)] \in Nat
          /\ lock'[JobOf(r)] = lock[JobOf(r)] - 1 /\ age'[JobOf(r)] <= age[JobOf(r)] + 1
      <4>1. JobOf(r) \in Jobs /\ phase[r] \in Held
        BY <1>j DEF Held, Counted
      <4>2. age[JobOf(r)] \in Nat /\ lock[JobOf(r)] \in Nat
        BY <4>1, <1>t
      <4>3. age'[JobOf(r)] \in Nat
        BY <2>1, <4>1, <4>2
      <4> QED
        BY <2>2, <4>1, <4>2, <4>3
    <3>2. status[JobOf(r)] = "RUNNING" /\ age[JobOf(r)] + lock[JobOf(r)] <= LockTtl
      BY DEF LockInvariant, LiveRunIsYoung
    <3> QED
      BY <3>1, <3>2, TimeAssumption
  <2> QED
    BY <2>3, <2>4 DEF LockInvariant
<1>18. CASE UNCHANGED vars
  BY <1>18, QuietStep DEF vars
<1> QED
  BY <1>1, <1>2, <1>3, <1>4, <1>5, <1>6, <1>7, <1>8, <1>9, <1>10, <1>11, <1>12, <1>13, <1>14,
     <1>15, <1>16, <1>17, <1>18
     DEF Next, JobService, PollStep, RunStep

LEMMA LockInvariance ==
  ASSUME HandlersMeetTtl
  PROVE  Spec => []LockInvariant
<1>1. Init => LockInvariant
  BY RunType DEF Init, LockInvariant, HoldersHaveKey, OneHolder, LiveRunIsYoung, Held, Counted
<1>2. TypeOK /\ LockInvariant /\ [Next]_vars => LockInvariant'
  BY LockStep
<1> QED
  BY <1>1, <1>2, TypeCorrect, PTL DEF Spec

(* While every holder is done within the time to live of its key, a job has at most one
   running handler over all instances. *)
THEOREM MutualExclusion ==
  ASSUME HandlersMeetTtl
  PROVE  Spec => []OneRunnerPerJob
<1>1. LockInvariant => OneRunnerPerJob
  BY DEF LockInvariant, OneHolder, OneRunnerPerJob, Held, Counted
<1> QED
  BY <1>1, LockInvariance, PTL

(* Then nothing takes its row away from a handler either: not the stale recovery of another
   instance, and not an operator. *)
THEOREM RowsStayWithTheirRun ==
  ASSUME HandlersMeetTtl
  PROVE  Spec => []LiveRunKeepsItsRow
<1>1. LockInvariant => LiveRunKeepsItsRow
  BY DEF LockInvariant, LiveRunIsYoung, LiveRunKeepsItsRow
<1> QED
  BY <1>1, LockInvariance, PTL
----------------------------------------------------------------------------
(* What becomes of a snapshot, where nothing fails and nothing is retried: it is kept, dropped
   or taken from the row. *)
SnapshotsMove ==
  \A r \in Runs : HasSnapshot(r)' /\ r \notin outdated' =>
    \/ HasSnapshot(r) /\ r \notin outdated /\ snap'[r] = snap[r]
    \/ snap'[r] = attempts[JobOf(r)]

(* A step after which every row and every snapshot is covered, if it was before. *)
LEMMA CoveredStep ==
  ASSUME BudgetInvariant, SnapshotsMove, UNCHANGED <<failures, misled>>,
         \A j \in Jobs : /\ attempts'[j] = attempts[j]
                         /\ status'[j] = "FAILED" => status[j] = "FAILED"
  PROVE  BudgetInvariant'
<1>1. \A j \in Jobs : \A n : Covered(n, j) <=> Covered(n, j)'
  BY DEF Covered
<1>2. ASSUME NEW j \in Jobs \ (Orphans \cup misled)
      PROVE  Covered(attempts[j], j)' /\ (status'[j] = "FAILED" => MaxAttempts <= failures'[j])
  BY <1>1 DEF BudgetInvariant, Covered
<1>3. ASSUME NEW r \in Runs, HasSnapshot(r)', r \notin outdated', JobOf(r) \notin Orphans \cup misled
      PROVE  Covered(snap[r], JobOf(r))'
  <2>1. JobOf(r) \in Jobs
    BY RunType
  <2>2. CASE HasSnapshot(r) /\ r \notin outdated /\ snap'[r] = snap[r]
    BY <1>3, <2>2 DEF BudgetInvariant, Covered
  <2>3. CASE snap'[r] = attempts[JobOf(r)]
    BY <1>3, <2>1, <2>3 DEF BudgetInvariant, Covered
  <2> QED
    BY <1>3, <2>2, <2>3 DEF SnapshotsMove
<1> QED
  BY <1>2, <1>3 DEF BudgetInvariant

LEMMA BudgetStep ==
  ASSUME TypeOK, BudgetInvariant, [Next]_vars
  PROVE  BudgetInvariant'
<1> USE DEF rows, proc, env, history
<1>t. /\ status \in [Jobs -> Status] /\ attempts \in [Jobs -> Nat] /\ failures \in [Jobs -> Nat]
      /\ snap \in [Runs -> Nat] /\ phase \in [Runs -> Phase]
      /\ outdated \subseteq Runs /\ misled \subseteq Jobs
  BY DEF TypeOK
<1>j. \A r \in Runs : JobOf(r) \in Jobs
  BY RunType
<1>s. UNCHANGED <<phase, snap, outdated>> => SnapshotsMove
  BY DEF SnapshotsMove, HasSnapshot
<1>1. ASSUME NEW j \in Jobs, Enqueue(j) \/ CancelJob(j) PROVE BudgetInvariant'
  BY <1>1, <1>s, <1>t, CoveredStep DEF Enqueue, CancelJob
<1>2. CASE CancelAllJobs
  BY <1>2, <1>s, <1>t, CoveredStep DEF CancelAllJobs
<1>r. ASSUME NEW j \in Jobs, RetryJob(j) PROVE BudgetInvariant'
  <2>1. /\ attempts' = [attempts EXCEPT ![j] = 0] /\ status' = [status EXCEPT ![j] = "PENDING"]
        /\ failures' = [failures EXCEPT ![j] = 0] /\ misled' = misled \ {j}
        /\ outdated' = outdated \cup {r \in Runs : JobOf(r) = j /\ HasSnapshot(r)}
        /\ UNCHANGED <<phase, snap>>
    BY <1>r DEF RetryJob, NewRound, HasSnapshot
  <2>2. ASSUME NEW k \in Jobs \ (Orphans \cup misled')
        PROVE  Covered(attempts[k], k)' /\ (status'[k] = "FAILED" => MaxAttempts <= failures'[k])
    <3>1. CASE k = j
      BY <2>1, <3>1, <1>t DEF Covered
    <3>2. CASE k # j
      BY <2>1, <2>2, <3>2, <1>t DEF BudgetInvariant, Covered
    <3> QED
      BY <3>1, <3>2
  <2>3. ASSUME NEW r \in Runs, HasSnapshot(r)', r \notin outdated', JobOf(r) \notin Orphans \cup misled'
        PROVE  Covered(snap[r], JobOf(r))'
    <3>1. HasSnapshot(r) /\ r \notin outdated /\ JobOf(r) # j
      BY <2>1, <2>3 DEF HasSnapshot
    <3> QED
      BY <2>1, <2>3, <3>1, <1>t, <1>j DEF BudgetInvariant, Covered
  <2> QED
    BY <2>2, <2>3 DEF BudgetInvariant
<1>3. ASSUME NEW w \in Workers, NEW s \in Slots, PollAndProcess(w, s) \/ FindBackgroundJobs(w, s)
      PROVE  BudgetInvariant'
  <2>1. PICK T : Fetch(w, s, T)
    BY <1>3 DEF PollAndProcess, FindBackgroundJobs
  <2>2. UNCHANGED <<attempts, status, failures, outdated, misled>>
    BY <1>3 DEF PollAndProcess, FindBackgroundJobs
  <2>3. SnapshotsMove
    BY <2>1, <2>2, <1>t DEF Fetch, SnapshotsMove, HasSnapshot
  <2> QED
    BY <2>2, <2>3, CoveredStep
(* A step that drops snapshots. *)
<1>d. ASSUME NEW S, Drop(S), \A r \in S \cap Runs : ~HasSnapshot(r)',
             \A r \in Runs \ S : HasSnapshot(r)' => HasSnapshot(r)
      PROVE  SnapshotsMove /\ UNCHANGED <<failures, misled>>
  BY <1>d, <1>t DEF Drop, SnapshotsMove
<1>4. ASSUME NEW w \in Workers, NEW s \in Slots, PollError(w, s) PROVE BudgetInvariant'
  <2>1. /\ Drop(RunsOf(w, s, Jobs)) /\ UNCHANGED <<attempts, status>>
        /\ phase' = [r \in Runs |-> IF r \in RunsOf(w, s, Jobs) THEN "idle" ELSE phase[r]]
    BY <1>4 DEF PollError
  <2>2. SnapshotsMove /\ UNCHANGED <<failures, misled>>
    BY <2>1, <1>d DEF HasSnapshot
  <2> QED
    BY <2>1, <2>2, CoveredStep
<1>5. ASSUME NEW w \in Workers, NEW s \in Slots, DispatchLockedJobs(w, s) PROVE BudgetInvariant'
  <2>1. UNCHANGED <<attempts, status>> /\ Drop({r \in Runs : phase'[r] = "idle"})
    BY <1>5 DEF DispatchLockedJobs
  <2>2. \A r \in Runs : \/ phase'[r] = "claimed" /\ phase[r] = "locked"
                        \/ phase'[r] \in {"idle", phase[r]}
    BY <1>5 DEF DispatchLockedJobs, RunsOf, In
  <2>3. SnapshotsMove /\ UNCHANGED <<failures, misled>>
    BY <2>1, <2>2, <1>d DEF HasSnapshot
  <2> QED
    BY <2>1, <2>3, CoveredStep
<1>6. ASSUME NEW r \in Runs, \/ AcquireLock(r) \/ LockRefused(r) \/ MarkRunning(r)
                             \/ MarkCompleted(r) \/ ReleaseLock(r)
      PROVE  BudgetInvariant'
  <2>1. UNCHANGED <<attempts, failures, outdated, misled, snap>>
    BY <1>6 DEF AcquireLock, LockRefused, MarkRunning, MarkCompleted, ReleaseLock
  <2>2. \A j \in Jobs : status'[j] \in {status[j], "RUNNING", "COMPLETED"}
    BY <1>6, <1>t DEF AcquireLock, LockRefused, MarkRunning, MarkCompleted, ReleaseLock
  <2>3. \A q \in Runs : HasSnapshot(q)' => HasSnapshot(q)
    BY <1>6, <1>t DEF AcquireLock, LockRefused, MarkRunning, MarkCompleted, ReleaseLock, HasSnapshot
  <2>4. SnapshotsMove
    BY <2>1, <2>3 DEF SnapshotsMove
  <2> QED
    BY <2>1, <2>2, <2>4, CoveredStep
<1>f. ASSUME NEW r \in Runs, Finally(r) PROVE BudgetInvariant'
  <2>1. /\ Drop({r}) /\ UNCHANGED <<attempts, status>>
        /\ phase' = [phase EXCEPT ![r] = "releasing"]
    BY <1>f DEF Finally
  <2>2. SnapshotsMove /\ UNCHANGED <<failures, misled>>
    BY <2>1, <1>d, <1>t DEF HasSnapshot
  <2> QED
    BY <2>1, <2>2, CoveredStep
<1>7. ASSUME NEW r \in Runs, MarkFailed(r) PROVE BudgetInvariant'
  <2> DEFINE j == JobOf(r)
  <2> j \in Jobs /\ snap[r] \in Nat /\ failures[j] \in Nat /\ MaxAttempts \in Nat
    BY <1>t, <1>j, MaxAttemptsAssumption
  <2>1. /\ failures' = [failures EXCEPT ![j] = Least(@ + 1, MaxAttempts)]
        /\ misled' = IF r \in outdated THEN misled \cup {j} ELSE misled
        /\ status' = [status EXCEPT ![j] = IF snap[r] + 1 < MaxAttempts THEN "RETRYING" ELSE "FAILED"]
        /\ attempts' = [attempts EXCEPT ![j] = snap[r] + 1]
        /\ phase[r] \in {"running", "claimed"} /\ phase' = [phase EXCEPT ![r] = "done"]
        /\ UNCHANGED <<snap, outdated>>
    BY <1>7 DEF MarkFailed
  <2>2. \A n \in Nat, k \in Jobs : Covered(n, k) => Covered(n, k)'
    BY <2>1, <1>t, MaxAttemptsAssumption DEF Covered, Least
  <2>3. ASSUME NEW k \in Jobs \ (Orphans \cup misled')
        PROVE  Covered(attempts[k], k)' /\ (status'[k] = "FAILED" => MaxAttempts <= failures'[k])
    <3>1. CASE k = j
      <4>1. Covered(snap[r], j)
        BY <2>1, <2>3, <3>1 DEF BudgetInvariant, HasSnapshot
      <4>2. attempts'[j] = snap[r] + 1 /\ failures'[j] = Least(failures[j] + 1, MaxAttempts)
        BY <2>1, <1>t
      <4>3. status'[j] = "FAILED" => ~(snap[r] + 1 < MaxAttempts)
        BY <2>1, <1>t
      <4> QED
        BY <3>1, <4>1, <4>2, <4>3 DEF Covered, Least
    <3>2. CASE k # j
      BY <2>3, <3>2, <2>1, <1>t DEF BudgetInvariant, Covered
    <3> QED
      BY <3>1, <3>2
  <2>4. ASSUME NEW q \in Runs, HasSnapshot(q)', q \notin outdated', JobOf(q) \notin Orphans \cup misled'
        PROVE  Covered(snap[q], JobOf(q))'
    <3>1. HasSnapshot(q) /\ JobOf(q) \notin misled
      BY <2>1, <2>4, <1>t DEF HasSnapshot
    <3>2. Covered(snap[q], JobOf(q)) /\ JobOf(q) \in Jobs /\ snap[q] \in Nat
      BY <2>1, <2>4, <3>1, <1>t, <1>j DEF BudgetInvariant
    <3> QED
      BY <3>2, <2>1, <2>2 DEF Covered
  <2> QED
    BY <2>3, <2>4 DEF BudgetInvariant
<1>8. ASSUME NEW r \in Runs, MarkUnrecoverableFailure(r) PROVE BudgetInvariant'
  <2>1. /\ JobOf(r) \in Orphans /\ UNCHANGED <<failures, outdated, misled, snap>>
        /\ \A k \in Jobs \ {JobOf(r)} : status'[k] = status[k] /\ attempts'[k] = attempts[k]
        /\ \A q \in Runs : HasSnapshot(q)' => HasSnapshot(q)
    BY <1>8, <1>t DEF MarkUnrecoverableFailure, HasSnapshot
  <2> QED
    BY <2>1 DEF BudgetInvariant, Covered
<1>9. ASSUME NEW w \in Workers, Forget(w) PROVE BudgetInvariant'
  <2>1. /\ Drop({r \in Runs : r[1] = w}) /\ UNCHANGED <<attempts, status>>
        /\ phase' = [r \in Runs |-> IF r[1] = w THEN "idle" ELSE phase[r]]
    BY <1>9 DEF Forget
  <2>2. SnapshotsMove /\ UNCHANGED <<failures, misled>>
    BY <2>1, <1>d DEF HasSnapshot
  <2> QED
    BY <2>1, <2>2, CoveredStep
<1>10. ASSUME NEW w \in Workers, RecoverStaleJobs(w) PROVE BudgetInvariant'
  BY <1>10, <1>s, <1>t, CoveredStep DEF RecoverStaleJobs
<1>11. ASSUME NEW w \in Workers, BeginShutdown(w) \/ LoseRedis(w) PROVE BudgetInvariant'
  BY <1>11, <1>s, <1>t, CoveredStep DEF BeginShutdown, LoseRedis
<1>12. CASE Tick
  BY <1>12, <1>s, <1>t, CoveredStep DEF Tick
<1>13. CASE UNCHANGED vars
  BY <1>13, <1>s, <1>t, CoveredStep DEF vars
<1>14. \A r \in Runs : AbandonRun(r) => BudgetInvariant'
  BY <1>9, RunType DEF AbandonRun
<1>15. \A w \in Workers : Restart(w) => BudgetInvariant'
  BY <1>9 DEF Restart
<1> QED
  BY <1>1, <1>2, <1>3, <1>4, <1>5, <1>6, <1>7, <1>8, <1>10, <1>11, <1>12, <1>13, <1>14, <1>15, <1>f, <1>r
     DEF Next, JobService, PollStep, RunStep

(* A job that has a handler is given up only after maxAttempts of its runs failed in the round
   since its last retry, whatever crashes, recoveries and overrunning handlers come between;
   only a run that read the row before that retry can end the round early. *)
THEOREM AttemptsAreSpentByFailures == Spec => []GivesUpOnlyAfterMaxAttempts
<1>1. Init => BudgetInvariant
  <2>1. ASSUME Init, NEW j \in Jobs PROVE Covered(attempts[j], j) /\ status[j] # "FAILED"
    BY <2>1 DEF Init, Covered
  <2>2. ASSUME Init, NEW r \in Runs PROVE ~HasSnapshot(r)
    BY <2>2 DEF Init, HasSnapshot
  <2> QED
    BY <2>1, <2>2 DEF BudgetInvariant
<1>2. TypeOK /\ BudgetInvariant /\ [Next]_vars => BudgetInvariant'
  BY BudgetStep
<1>3. TypeOK /\ BudgetInvariant => GivesUpOnlyAfterMaxAttempts
  BY MaxAttemptsAssumption DEF TypeOK, BudgetInvariant, GivesUpOnlyAfterMaxAttempts
<1> QED
  BY <1>1, <1>2, <1>3, TypeCorrect, PTL DEF Spec
----------------------------------------------------------------------------
(* The runs an instance counts, and what its counter says of them. *)
CountedRuns(w) == {r \in Runs : r[1] = w /\ phase[r] \in Counted}

CapacityInvariant ==
  \A w \in Workers :
    /\ IsFiniteSet(CountedRuns(w))
    /\ active[w] = Cardinality(CountedRuns(w)) /\ active[w] <= Concurrency

(* One poll has a run for every job it read. *)
LEMMA RunsCount ==
  ASSUME NEW w \in Workers, NEW s \in Slots, NEW T \in SUBSET Jobs
  PROVE  IsFiniteSet(RunsOf(w, s, T)) /\ Cardinality(RunsOf(w, s, T)) = Cardinality(T)
<1> DEFINE f == [j \in T |-> <<w, s, j>>]
<1>1. f \in Bijection(T, RunsOf(w, s, T))
  BY DEF RunsOf, Bijection, Injection, Surjection, IsInjective
<1>2. ExistsBijection(T, RunsOf(w, s, T))
  BY <1>1 DEF ExistsBijection
<1> QED
  BY <1>2, JobsAssumption, FS_Subset, FS_Bijection

(* A step that counts the same runs. *)
LEMMA SameCount ==
  ASSUME CapacityInvariant, UNCHANGED active,
         \A r \in Runs : phase'[r] \in Counted <=> phase[r] \in Counted
  PROVE  CapacityInvariant'
<1>1. \A w \in Workers : CountedRuns(w)' = CountedRuns(w)
  BY DEF CountedRuns
<1> QED
  BY <1>1 DEF CapacityInvariant

LEMMA DispatchCount ==
  ASSUME TypeOK, CapacityInvariant, NEW w \in Workers, NEW s \in Slots, DispatchLockedJobs(w, s)
  PROVE  CapacityInvariant'
<1>t. phase \in [Runs -> Phase] /\ active \in [Workers -> Int]
  BY DEF TypeOK
<1>1. PICK T \in SUBSET In(w, s, {"locked"}) :
        /\ Cardinality(T) = IF closing[w] THEN 0
                            ELSE Least(Cardinality(In(w, s, {"locked"})), Concurrency - active[w])
        /\ phase' = [r \in Runs |->
                       IF r \in RunsOf(w, s, T) THEN "claimed"
                       ELSE IF r \in RunsOf(w, s, In(w, s, {"locked", "denied"})) THEN "idle"
                       ELSE phase[r]]
        /\ active' = [active EXCEPT ![w] = @ + Cardinality(T)]
  BY DEF DispatchLockedJobs
<1>2. /\ T \in SUBSET Jobs /\ RunsOf(w, s, T) \subseteq Runs
      /\ \A r \in RunsOf(w, s, T) : r[1] = w /\ phase[r] = "locked"
      /\ \A r \in RunsOf(w, s, In(w, s, {"locked", "denied"})) : phase[r] \in {"locked", "denied"}
  <2>1. T \in SUBSET Jobs /\ \A j \in T : phase[<<w, s, j>>] = "locked"
    BY DEF In
  <2>2. \A r \in RunsOf(w, s, T) : r \in Runs /\ r[1] = w /\ phase[r] = "locked"
    BY <2>1 DEF RunsOf, Runs
  <2>3. \A r \in RunsOf(w, s, In(w, s, {"locked", "denied"})) : phase[r] \in {"locked", "denied"}
    BY DEF RunsOf, In
  <2> QED
    BY <2>1, <2>2, <2>3
<1>3. /\ Cardinality(T) \in Nat
      /\ IsFiniteSet(RunsOf(w, s, T)) /\ Cardinality(RunsOf(w, s, T)) = Cardinality(T)
  BY <1>2, CountType, RunsCount
<1>4. CountedRuns(w)' = CountedRuns(w) \cup RunsOf(w, s, T)
  <2>1. \A r \in Runs : phase'[r] \in Counted <=> r \in RunsOf(w, s, T) \/ phase[r] \in Counted
    BY <1>1, <1>2 DEF Counted
  <2> QED
    BY <2>1, <1>2 DEF CountedRuns
<1>5. CountedRuns(w) \cap RunsOf(w, s, T) = {}
  BY <1>2 DEF CountedRuns, Counted
<1>6. /\ IsFiniteSet(CountedRuns(w)') /\ active[w] \in Nat
      /\ Cardinality(CountedRuns(w)') = active[w] + Cardinality(T)
  <2>1. IsFiniteSet(CountedRuns(w)) /\ active[w] = Cardinality(CountedRuns(w))
    BY DEF CapacityInvariant
  <2>2. active[w] \in Nat
    BY <2>1, FS_CardinalityType
  <2>3. Cardinality(CountedRuns(w) \cap RunsOf(w, s, T)) = 0
    BY <1>5, FS_EmptySet
  <2>4. /\ IsFiniteSet(CountedRuns(w) \cup RunsOf(w, s, T))
        /\ Cardinality(CountedRuns(w) \cup RunsOf(w, s, T)) = active[w] + Cardinality(T) - 0
    BY <2>1, <2>3, <1>3, FS_Union
  <2> QED
    BY <2>2, <2>4, <1>3, <1>4
<1>7. active[w] + Cardinality(T) <= Concurrency
  <2>1. Cardinality(In(w, s, {"locked"})) \in Nat
    BY CountType DEF In
  <2>2. active[w] <= Concurrency
    BY DEF CapacityInvariant
  <2> QED
    BY <2>1, <2>2, <1>1, <1>3, <1>t, ConcurrencyAssumption DEF Least
<1>8. ASSUME NEW v \in Workers \ {w}
      PROVE  CountedRuns(v)' = CountedRuns(v) /\ active'[v] = active[v]
  <2>1. \A r \in Runs : r[1] = v => r \notin RunsOf(w, s, Jobs)
    BY <1>8 DEF RunsOf
  <2>2. \A r \in Runs : r[1] = v => phase'[r] = phase[r]
    BY <2>1, <1>1, <1>2 DEF RunsOf, In
  <2> QED
    BY <2>2, <1>1, <1>t DEF CountedRuns
<1>9. active'[w] = active[w] + Cardinality(T)
  BY <1>1, <1>t
<1>10. ASSUME NEW v \in Workers
       PROVE  /\ IsFiniteSet(CountedRuns(v)')
              /\ active'[v] = Cardinality(CountedRuns(v)') /\ active'[v] <= Concurrency
  <2>1. CASE v = w
    BY <2>1, <1>6, <1>7, <1>9
  <2>2. CASE v # w
    BY <2>2, <1>8 DEF CapacityInvariant
  <2> QED
    BY <2>1, <2>2
<1>11. \A v \in Workers : Cardinality(CountedRuns(v))' = Cardinality(CountedRuns(v)')
  OBVIOUS
<1> QED
  BY <1>10 DEF CapacityInvariant

LEMMA FinallyCount ==
  ASSUME TypeOK, CapacityInvariant, NEW r \in Runs, Finally(r)
  PROVE  CapacityInvariant'
<1>t. phase \in [Runs -> Phase] /\ active \in [Workers -> Int] /\ r[1] \in Workers
  BY RunType DEF TypeOK
<1>1. /\ phase[r] = "done" /\ phase' = [phase EXCEPT ![r] = "releasing"]
      /\ active' = [active EXCEPT ![r[1]] = @ - 1]
  BY DEF Finally
<1>2. CountedRuns(r[1])' = CountedRuns(r[1]) \ {r} /\ r \in CountedRuns(r[1])
  BY <1>1, <1>t DEF CountedRuns, Counted
<1>3. /\ IsFiniteSet(CountedRuns(r[1])')
      /\ Cardinality(CountedRuns(r[1])') = active[r[1]] - 1
  BY <1>2, <1>t, FS_RemoveElement DEF CapacityInvariant
<1>4. active'[r[1]] = active[r[1]] - 1 /\ active[r[1]] - 1 <= Concurrency
  BY <1>1, <1>t, ConcurrencyAssumption DEF CapacityInvariant
<1>5. ASSUME NEW v \in Workers \ {r[1]}
      PROVE  CountedRuns(v)' = CountedRuns(v) /\ active'[v] = active[v]
  BY <1>1, <1>5, <1>t DEF CountedRuns
<1>6. ASSUME NEW v \in Workers
      PROVE  /\ IsFiniteSet(CountedRuns(v)')
             /\ active'[v] = Cardinality(CountedRuns(v)') /\ active'[v] <= Concurrency
  <2>1. CASE v = r[1]
    BY <2>1, <1>3, <1>4
  <2>2. CASE v # r[1]
    BY <2>2, <1>5 DEF CapacityInvariant
  <2> QED
    BY <2>1, <2>2
<1> QED
  BY <1>6 DEF CapacityInvariant

(* An instance that ends counts nothing. *)
LEMMA ForgetCount ==
  ASSUME TypeOK, CapacityInvariant, NEW w \in Workers, Forget(w)
  PROVE  CapacityInvariant'
<1>t. phase \in [Runs -> Phase] /\ active \in [Workers -> Int]
  BY DEF TypeOK
<1>1. /\ phase' = [r \in Runs |-> IF r[1] = w THEN "idle" ELSE phase[r]]
      /\ active' = [active EXCEPT ![w] = 0]
  BY DEF Forget
<1>2. CountedRuns(w)' = {} /\ active'[w] = 0
  BY <1>1, <1>t DEF CountedRuns, Counted
<1>3. ASSUME NEW v \in Workers \ {w}
      PROVE  CountedRuns(v)' = CountedRuns(v) /\ active'[v] = active[v]
  BY <1>1, <1>3, <1>t DEF CountedRuns
<1>4. ASSUME NEW v \in Workers
      PROVE  /\ IsFiniteSet(CountedRuns(v)')
             /\ active'[v] = Cardinality(CountedRuns(v)') /\ active'[v] <= Concurrency
  <2>1. CASE v = w
    BY <2>1, <1>2, FS_EmptySet, ConcurrencyAssumption
  <2>2. CASE v # w
    BY <2>2, <1>3 DEF CapacityInvariant
  <2> QED
    BY <2>1, <2>2
<1> QED
  BY <1>4 DEF CapacityInvariant

(* A poll between its two queries has locked nothing. *)
BetweenQueries ==
  \A p \in Polls, r \in Runs :
    need[p] > 0 /\ p = <<r[1], r[2]>> => phase[r] \in {"idle", "read"}

LEMMA QueriesStep ==
  ASSUME TypeOK, BetweenQueries, [Next]_vars
  PROVE  BetweenQueries'
<1> USE DEF rows, proc, env
<1>t. phase \in [Runs -> Phase] /\ need \in [Polls -> Nat]
  BY DEF TypeOK
<1>1. ASSUME UNCHANGED need, NEW q \in Runs,
             \/ phase[q] \notin {"idle", "read"}
             \/ need[<<q[1], q[2]>>] = 0
             \/ phase'[q] \in {"idle", "read"},
             \A r \in Runs \ {q} : phase'[r] = phase[r]
      PROVE  BetweenQueries'
  BY <1>1, <1>t, RunType DEF BetweenQueries
<1>2. ASSUME NEW w \in Workers, NEW s \in Slots, PollAndProcess(w, s) PROVE BetweenQueries'
  <2>1. PICK T \in SUBSET Jobs : Fetch(w, s, T)
    BY <1>2 DEF PollAndProcess, Due
  <2>2. \A p \in Polls \ {<<w, s>>} : need'[p] = need[p]
    BY <1>2, <1>t DEF PollAndProcess
  <2>3. \A r \in Runs : <<r[1], r[2]>> = <<w, s>> => phase[r] = "idle"
    <3>1. ASSUME NEW r \in Runs, <<r[1], r[2]>> = <<w, s>> PROVE phase[r] = "idle"
      <4>1. JobOf(r) \in Jobs /\ r = <<w, s, JobOf(r)>> /\ phase[r] \in Phase
        BY <3>1, <1>t, RunType
      <4>2. JobOf(r) \notin In(w, s, Phase \ {"idle"})
        BY <1>2 DEF PollAndProcess
      <4> QED
        BY <4>1, <4>2 DEF In
    <3> QED
      BY <3>1
  <2>4. \A r \in Runs : phase'[r] \in {"read", phase[r]}
    BY <2>1 DEF Fetch
  <2> QED
    BY <2>2, <2>3, <2>4 DEF BetweenQueries
<1>3. ASSUME NEW w \in Workers, NEW s \in Slots, FindBackgroundJobs(w, s) PROVE BetweenQueries'
  <2>1. PICK T \in SUBSET Jobs : Fetch(w, s, T)
    BY <1>3 DEF FindBackgroundJobs, Due
  <2>2. \A r \in Runs : phase'[r] \in {"read", phase[r]}
    BY <2>1 DEF Fetch
  <2>3. need' = [need EXCEPT ![<<w, s>>] = 0]
    BY <1>3 DEF FindBackgroundJobs
  <2>4. \A p \in Polls : need'[p] \in {0, need[p]}
    BY <2>3, <1>t
  <2> QED
    BY <2>2, <2>4, <1>t DEF BetweenQueries
<1>4. ASSUME NEW w \in Workers, NEW s \in Slots, PollError(w, s) PROVE BetweenQueries'
  <2>1. \A r \in Runs : phase'[r] \in {"idle", phase[r]}
    BY <1>4 DEF PollError
  <2>2. need' = [need EXCEPT ![<<w, s>>] = 0]
    BY <1>4 DEF PollError
  <2>3. \A p \in Polls : need'[p] \in {0, need[p]}
    BY <2>2, <1>t
  <2> QED
    BY <2>1, <2>3, <1>t DEF BetweenQueries
<1>5. ASSUME NEW w \in Workers, NEW s \in Slots, DispatchLockedJobs(w, s) PROVE BetweenQueries'
  <2>1. /\ need[<<w, s>>] = 0 /\ UNCHANGED need
        /\ \A r \in Runs : <<r[1], r[2]>> # <<w, s>> => phase'[r] = phase[r]
    BY <1>5, <1>t DEF DispatchLockedJobs, RunsOf
  <2> QED
    BY <2>1 DEF BetweenQueries
<1>6. ASSUME NEW r \in Runs, AcquireLock(r) \/ LockRefused(r) PROVE BetweenQueries'
  BY <1>1, <1>6, <1>t DEF AcquireLock, LockRefused
<1>7. ASSUME NEW r \in Runs, \/ MarkRunning(r) \/ MarkCompleted(r) \/ MarkFailed(r)
                             \/ MarkUnrecoverableFailure(r) \/ Finally(r) \/ ReleaseLock(r)
      PROVE  BetweenQueries'
  <2>1. /\ phase[r] \in {"claimed", "running", "done", "releasing"} /\ UNCHANGED need
        /\ \A q \in Runs \ {r} : phase'[q] = phase[q]
    BY <1>7, <1>t DEF MarkRunning, MarkCompleted, MarkFailed, MarkUnrecoverableFailure,
                      Finally, ReleaseLock
  <2> QED
    BY <1>1, <2>1
<1>8. ASSUME NEW w \in Workers, Forget(w) PROVE BetweenQueries'
  <2>1. /\ \A r \in Runs : phase'[r] \in {"idle", phase[r]}
        /\ \A p \in Polls : need'[p] \in {0, need[p]}
    BY <1>8 DEF Forget
  <2> QED
    BY <2>1 DEF BetweenQueries
<1>9. CASE UNCHANGED <<phase, need>>
  BY <1>9 DEF BetweenQueries
<1>10. ASSUME NEW j \in Jobs, Enqueue(j) \/ CancelJob(j) \/ RetryJob(j) PROVE BetweenQueries'
  BY <1>9, <1>10 DEF Enqueue, CancelJob, RetryJob
<1>11. ASSUME NEW w \in Workers, RecoverStaleJobs(w) \/ BeginShutdown(w) \/ LoseRedis(w)
       PROVE  BetweenQueries'
  BY <1>9, <1>11 DEF RecoverStaleJobs, BeginShutdown, LoseRedis
<1>12. CASE CancelAllJobs \/ Tick \/ UNCHANGED vars
  BY <1>9, <1>12 DEF CancelAllJobs, Tick, vars
<1>13. \A r \in Runs : AbandonRun(r) => BetweenQueries'
  BY <1>8, RunType DEF AbandonRun
<1>14. \A w \in Workers : Restart(w) => BetweenQueries'
  BY <1>8 DEF Restart
<1> QED
  BY <1>2, <1>3, <1>4, <1>5, <1>6, <1>7, <1>10, <1>11, <1>12, <1>13, <1>14
     DEF Next, JobService, PollStep, RunStep

LEMMA CapacityStep ==
  ASSUME TypeOK, BetweenQueries, CapacityInvariant, [Next]_vars
  PROVE  CapacityInvariant'
<1> USE DEF rows, proc, env
<1>t. phase \in [Runs -> Phase]
  BY DEF TypeOK
<1>1. CASE UNCHANGED <<phase, active>>
  BY <1>1, SameCount
<1>2. ASSUME NEW w \in Workers, NEW s \in Slots, NEW T \in SUBSET Jobs, Fetch(w, s, T),
             UNCHANGED active, \A r \in RunsOf(w, s, T) : phase[r] \notin Counted
      PROVE  CapacityInvariant'
  <2>1. \A r \in Runs : phase'[r] \in Counted <=> phase[r] \in Counted
    BY <1>2 DEF Fetch, Counted
  <2> QED
    BY <2>1, <1>2, SameCount
<1>3. ASSUME NEW w \in Workers, NEW s \in Slots, PollAndProcess(w, s) PROVE CapacityInvariant'
  <2>1. PICK T \in SUBSET Jobs : Fetch(w, s, T)
    BY <1>3 DEF PollAndProcess, Due
  <2>2. \A j \in Jobs : phase[<<w, s, j>>] \in {"idle"}
    <3>1. \A j \in Jobs : <<w, s, j>> \in Runs /\ j \notin In(w, s, Phase \ {"idle"})
      BY <1>3 DEF PollAndProcess, Runs
    <3> QED
      BY <3>1, <1>t DEF In
  <2>3. \A r \in RunsOf(w, s, T) : phase[r] \notin Counted
    BY <2>2 DEF RunsOf, Counted
  <2> QED
    BY <1>2, <1>3, <2>1, <2>3 DEF PollAndProcess
<1>4. ASSUME NEW w \in Workers, NEW s \in Slots, FindBackgroundJobs(w, s) PROVE CapacityInvariant'
  <2>1. PICK T \in SUBSET Jobs : Fetch(w, s, T)
    BY <1>4 DEF FindBackgroundJobs, Due
  <2>2. \A r \in RunsOf(w, s, T) : r \in Runs /\ <<w, s>> = <<r[1], r[2]>> /\ <<w, s>> \in Polls
    BY DEF RunsOf, Runs, Polls
  <2>3. \A r \in RunsOf(w, s, T) : phase[r] \notin Counted
    BY <1>4, <2>2 DEF FindBackgroundJobs, BetweenQueries, Counted
  <2> QED
    BY <1>2, <1>4, <2>1, <2>3 DEF FindBackgroundJobs
<1>5. ASSUME NEW w \in Workers, NEW s \in Slots, PollError(w, s) PROVE CapacityInvariant'
  <2>1. \A r \in RunsOf(w, s, Jobs) : phase[r] \notin Counted
    <3>1. \A r \in RunsOf(w, s, Jobs) : r \in Runs /\ <<w, s>> = <<r[1], r[2]>> /\ <<w, s>> \in Polls
      BY DEF RunsOf, Runs, Polls
    <3> QED
      BY <1>5, <3>1 DEF PollError, BetweenQueries, Counted
  <2>2. \A r \in Runs : phase'[r] \in Counted <=> phase[r] \in Counted
    BY <1>5, <2>1 DEF PollError, Counted
  <2> QED
    BY <1>5, <2>2, SameCount DEF PollError
<1>6. ASSUME NEW r \in Runs, NEW to, UNCHANGED active, phase' = [phase EXCEPT ![r] = to],
             phase[r] \in Counted <=> to \in Counted
      PROVE  CapacityInvariant'
  BY <1>6, <1>t, SameCount
<1>7. ASSUME NEW r \in Runs, AcquireLock(r) \/ LockRefused(r) \/ ReleaseLock(r)
      PROVE  CapacityInvariant'
  BY <1>6, <1>7 DEF AcquireLock, LockRefused, ReleaseLock, Counted
<1>8. ASSUME NEW r \in Runs, \/ MarkRunning(r) \/ MarkCompleted(r) \/ MarkFailed(r)
                             \/ MarkUnrecoverableFailure(r)
      PROVE  CapacityInvariant'
  BY <1>6, <1>8 DEF MarkRunning, MarkCompleted, MarkFailed, MarkUnrecoverableFailure, Counted
<1>9. ASSUME NEW j \in Jobs, Enqueue(j) \/ CancelJob(j) \/ RetryJob(j) PROVE CapacityInvariant'
  BY <1>1, <1>9 DEF Enqueue, CancelJob, RetryJob
<1>10. ASSUME NEW w \in Workers, RecoverStaleJobs(w) \/ BeginShutdown(w) \/ LoseRedis(w)
       PROVE  CapacityInvariant'
  BY <1>1, <1>10 DEF RecoverStaleJobs, BeginShutdown, LoseRedis
<1>11. CASE CancelAllJobs \/ Tick \/ UNCHANGED vars
  BY <1>1, <1>11 DEF CancelAllJobs, Tick, vars
<1>12. \A r \in Runs : AbandonRun(r) => CapacityInvariant'
  BY ForgetCount, RunType DEF AbandonRun
<1>13. \A w \in Workers : Restart(w) => CapacityInvariant'
  BY ForgetCount DEF Restart
<1> QED
  BY <1>3, <1>4, <1>5, <1>7, <1>8, <1>9, <1>10, <1>11, <1>12, <1>13, DispatchCount, FinallyCount
     DEF Next, JobService, PollStep, RunStep

(* An instance never runs more jobs than its concurrency, and its counter is right, whatever
   polls overlap: a claim is checked in the same turn of the event loop that makes it. *)
THEOREM CapacityIsKept == Spec => []CapacityRespected
<1>1. Init => BetweenQueries /\ CapacityInvariant
  <2> SUFFICES ASSUME Init PROVE BetweenQueries /\ CapacityInvariant
    OBVIOUS
  <2>1. \A w \in Workers : CountedRuns(w) = {} /\ active[w] = 0
    BY DEF Init, CountedRuns, Counted
  <2> QED
    <3>1. CapacityInvariant
      BY <2>1, FS_EmptySet, ConcurrencyAssumption DEF CapacityInvariant
    <3>2. BetweenQueries
      BY DEF Init, BetweenQueries
    <3> QED
      BY <3>1, <3>2
<1>2. TypeOK /\ BetweenQueries /\ CapacityInvariant /\ [Next]_vars
        => BetweenQueries' /\ CapacityInvariant'
  BY QueriesStep, CapacityStep
<1>3. CapacityInvariant => CapacityRespected
  BY DEF CapacityInvariant, CapacityRespected, CountedRuns
<1> QED
  BY <1>1, <1>2, <1>3, TypeCorrect, PTL DEF Spec
----------------------------------------------------------------------------
(***************************************************************************)
(* Without crashes and without a database that fails, MaxFaults = 0.       *)
(***************************************************************************)
RunnerInvariant == RunningRowHasRunner /\ \A w \in Workers : ~closing[w]

LEMMA NoFault == ASSUME MaxFaults = 0, TypeOK PROVE ~Fault
BY DEF TypeOK, Fault

LEMMA NoRestart ==
  ASSUME MaxFaults = 0, TypeOK, RunnerInvariant
  PROVE  /\ \A w \in Workers : ~Restart(w) /\ ~BeginShutdown(w)
         /\ \A r \in Runs : ~AbandonRun(r)
BY NoFault DEF RunnerInvariant, Restart, BeginShutdown, AbandonRun

(* A step that ends no run and marks no row RUNNING. *)
LEMMA RunnersKept ==
  ASSUME RunnerInvariant, UNCHANGED closing,
         \A r \in Runs : phase[r] = "running" => phase'[r] = "running",
         \A j \in Jobs : status'[j] = "RUNNING" => status[j] = "RUNNING"
  PROVE  RunnerInvariant'
BY DEF RunnerInvariant, RunningRowHasRunner

(* A run that starts, or one that ends and has written its row. *)
LEMMA RunnerChanges ==
  ASSUME TypeOK, RunnerInvariant, UNCHANGED closing, NEW r \in Runs, NEW p, NEW st,
         phase' = [phase EXCEPT ![r] = p], status' = [status EXCEPT ![JobOf(r)] = st],
         p = "running" \/ st # "RUNNING"
  PROVE  RunnerInvariant'
<1>t. phase \in [Runs -> Phase] /\ status \in [Jobs -> Status] /\ JobOf(r) \in Jobs
  BY RunType DEF TypeOK
<1>1. ASSUME NEW j \in Jobs, status'[j] = "RUNNING"
      PROVE  \E q \in Runs : phase'[q] = "running" /\ JobOf(q) = j
  <2>1. CASE j = JobOf(r)
    BY <1>1, <1>t, <2>1
  <2>2. CASE j # JobOf(r)
    <3>1. PICK q \in Runs : phase[q] = "running" /\ JobOf(q) = j
      BY <1>1, <1>t, <2>2 DEF RunnerInvariant, RunningRowHasRunner
    <3>2. phase'[q] = "running"
      BY <1>t, <2>2, <3>1
    <3> QED
      BY <3>1, <3>2
  <2> QED
    BY <2>1, <2>2
<1> QED
  BY <1>1 DEF RunnerInvariant, RunningRowHasRunner

LEMMA RunnerStep ==
  ASSUME MaxFaults = 0, TypeOK, BetweenQueries, RunnerInvariant, [Next]_vars
  PROVE  RunnerInvariant'
<1> USE DEF rows, proc, env
<1>t. phase \in [Runs -> Phase] /\ status \in [Jobs -> Status]
  BY DEF TypeOK
<1>1. ASSUME NEW j \in Jobs, Enqueue(j) \/ CancelJob(j) \/ RetryJob(j) PROVE RunnerInvariant'
  BY <1>1, <1>t, RunnersKept DEF Enqueue, CancelJob, RetryJob
<1>2. CASE CancelAllJobs
  BY <1>2, RunnersKept DEF CancelAllJobs
<1>3. ASSUME NEW w \in Workers, NEW s \in Slots, NEW T \in SUBSET Jobs, Fetch(w, s, T),
             UNCHANGED <<status, closing>>, \A r \in RunsOf(w, s, T) : phase[r] # "running"
      PROVE  RunnerInvariant'
  <2>1. \A r \in Runs : phase[r] = "running" => phase'[r] = "running"
    BY <1>3 DEF Fetch
  <2> QED
    BY <1>3, <2>1, RunnersKept
<1>4. ASSUME NEW w \in Workers, NEW s \in Slots, PollAndProcess(w, s) PROVE RunnerInvariant'
  <2>1. PICK T \in SUBSET Jobs : Fetch(w, s, T)
    BY <1>4 DEF PollAndProcess, Due
  <2>2. \A j \in Jobs : phase[<<w, s, j>>] # "running"
    BY <1>4 DEF PollAndProcess, In, Phase, Held, Counted
  <2>3. \A r \in RunsOf(w, s, T) : phase[r] # "running"
    BY <2>2 DEF RunsOf
  <2> QED
    BY <1>3, <1>4, <2>1, <2>3 DEF PollAndProcess
<1>5. ASSUME NEW w \in Workers, NEW s \in Slots, FindBackgroundJobs(w, s) PROVE RunnerInvariant'
  <2>1. PICK T \in SUBSET Jobs : Fetch(w, s, T)
    BY <1>5 DEF FindBackgroundJobs, Due
  <2>2. \A r \in RunsOf(w, s, T) : r \in Runs /\ <<w, s>> = <<r[1], r[2]>> /\ <<w, s>> \in Polls
    BY DEF RunsOf, Runs, Polls
  <2>3. \A r \in RunsOf(w, s, T) : phase[r] # "running"
    BY <1>5, <2>2 DEF FindBackgroundJobs, BetweenQueries
  <2> QED
    BY <1>3, <1>5, <2>1, <2>3 DEF FindBackgroundJobs
<1>6. ASSUME NEW w \in Workers, NEW s \in Slots, DispatchLockedJobs(w, s) PROVE RunnerInvariant'
  <2>1. PICK T \in SUBSET In(w, s, {"locked"}) :
          phase' = [r \in Runs |->
                      IF r \in RunsOf(w, s, T) THEN "claimed"
                      ELSE IF r \in RunsOf(w, s, In(w, s, {"locked", "denied"})) THEN "idle"
                      ELSE phase[r]]
    BY <1>6 DEF DispatchLockedJobs
  <2>2. \A r \in Runs : r \in RunsOf(w, s, T) => phase[r] = "locked"
    BY DEF RunsOf, In
  <2>3. \A r \in Runs :
          r \in RunsOf(w, s, In(w, s, {"locked", "denied"})) => phase[r] \in {"locked", "denied"}
    BY DEF RunsOf, In
  <2>4. \A r \in Runs : phase[r] = "running" => phase'[r] = "running"
    BY <2>1, <2>2, <2>3
  <2> QED
    BY <1>6, <2>4, RunnersKept DEF DispatchLockedJobs
<1>7. ASSUME NEW r \in Runs, AcquireLock(r) \/ LockRefused(r) \/ Finally(r) \/ ReleaseLock(r)
      PROVE  RunnerInvariant'
  <2>1. phase[r] # "running" /\ UNCHANGED <<status, closing>>
        /\ \A q \in Runs \ {r} : phase'[q] = phase[q]
    BY <1>7, <1>t DEF AcquireLock, LockRefused, Finally, ReleaseLock
  <2> QED
    BY <2>1, RunnersKept
<1>8. ASSUME NEW r \in Runs, MarkRunning(r) PROVE RunnerInvariant'
  BY <1>8, RunnerChanges DEF MarkRunning
<1>9. ASSUME NEW r \in Runs, MarkCompleted(r) \/ MarkFailed(r) \/ MarkUnrecoverableFailure(r)
      PROVE  RunnerInvariant'
  BY <1>9, RunnerChanges DEF MarkCompleted, MarkFailed, MarkUnrecoverableFailure
<1>10. ASSUME NEW w \in Workers, RecoverStaleJobs(w) \/ LoseRedis(w) PROVE RunnerInvariant'
  BY <1>10, RunnersKept DEF RecoverStaleJobs, LoseRedis
<1>11. CASE Tick \/ UNCHANGED vars
  BY <1>11, RunnersKept DEF Tick, vars
<1>12. ASSUME NEW w \in Workers, NEW s \in Slots PROVE ~PollError(w, s)
  BY NoFault DEF PollError
<1> QED
  BY <1>1, <1>2, <1>4, <1>5, <1>6, <1>7, <1>8, <1>9, <1>10, <1>11, <1>12, NoRestart
     DEF Next, JobService, PollStep, RunStep

(* Without crashes a RUNNING row is always being run. *)
THEOREM RunningRowsAreRun ==
  ASSUME MaxFaults = 0
  PROVE  Spec => []RunningRowHasRunner
<1>1. Init => BetweenQueries /\ RunnerInvariant
  BY DEF Init, BetweenQueries, RunnerInvariant, RunningRowHasRunner
<1>2. TypeOK /\ BetweenQueries /\ RunnerInvariant /\ [Next]_vars
        => BetweenQueries' /\ RunnerInvariant'
  BY QueriesStep, RunnerStep
<1>3. RunnerInvariant => RunningRowHasRunner
  BY DEF RunnerInvariant
<1> QED
  BY <1>1, <1>2, <1>3, TypeCorrect, PTL DEF Spec
----------------------------------------------------------------------------
(* What a row may have used up, and what a run will add one to.  A row that waits must have an
   attempt left: the stale recovery, which leaves a row's attempts as they are, is the reason
   why this needs the run of every row that is RUNNING. *)
AttemptsInvariant ==
  /\ \A j \in Jobs : /\ attempts[j] <= MaxAttempts
                     /\ status[j] \in Open \cup {"absent"} => attempts[j] < MaxAttempts
  /\ \A r \in Runs : snap[r] < MaxAttempts

LEMMA NothingStale ==
  ASSUME LockInvariant, RunnerInvariant, TypeOK, NEW w \in Workers
  PROVE  ~RecoverStaleJobs(w)
<1> SUFFICES ASSUME NEW j \in Jobs, status[j] = "RUNNING", age[j] >= StaleWindow PROVE FALSE
  BY DEF RecoverStaleJobs
<1>1. PICK r \in Runs : phase[r] = "running" /\ JobOf(r) = j
  BY DEF RunnerInvariant, RunningRowHasRunner
<1>2. lock[j] > 0 /\ age[j] + lock[j] <= LockTtl
  BY <1>1 DEF LockInvariant, HoldersHaveKey, LiveRunIsYoung, Held, Counted
<1> QED
  BY <1>2, TimeAssumption DEF TypeOK

LEMMA AttemptsStep ==
  ASSUME MaxFaults = 0, TypeOK, LockInvariant, RunnerInvariant, AttemptsInvariant, [Next]_vars
  PROVE  AttemptsInvariant'
<1> USE MaxAttemptsAssumption DEF rows, proc, env
<1>t. /\ status \in [Jobs -> Status] /\ attempts \in [Jobs -> Nat] /\ snap \in [Runs -> Nat]
      /\ \A r \in Runs : JobOf(r) \in Jobs
  BY RunType DEF TypeOK
<1>1. ASSUME \A j \in Jobs : /\ attempts'[j] \in {0, attempts[j]}
                             /\ status'[j] \in Open \cup {"absent"} =>
                                  attempts'[j] = 0 \/ status[j] \in Open \cup {"absent"},
             \A r \in Runs : snap'[r] \in {0, snap[r]}
      PROVE  AttemptsInvariant'
  BY <1>1, <1>t DEF AttemptsInvariant
<1>2. ASSUME NEW j \in Jobs, Enqueue(j) \/ CancelJob(j) \/ RetryJob(j) PROVE AttemptsInvariant'
  <2>1. UNCHANGED snap /\ \A k \in Jobs :
          /\ attempts'[k] \in {0, attempts[k]}
          /\ status'[k] \in Open \cup {"absent"} =>
               attempts'[k] = 0 \/ status[k] \in Open \cup {"absent"}
    BY <1>2, <1>t DEF Enqueue, CancelJob, RetryJob
  <2> QED
    BY <1>1, <2>1
<1>3. CASE CancelAllJobs
  BY <1>1, <1>3 DEF CancelAllJobs, Open
<1>4. ASSUME NEW w \in Workers, NEW s \in Slots, NEW T \in SUBSET Due, Fetch(w, s, T),
             UNCHANGED <<status, attempts>>
      PROVE  AttemptsInvariant'
  <2>1. \A r \in RunsOf(w, s, T) : JobOf(r) \in Due
    BY DEF RunsOf, JobOf
  <2>2. \A j \in Due : j \in Jobs /\ attempts[j] < MaxAttempts
    BY DEF Due, AttemptsInvariant
  <2>3. \A r \in Runs : snap'[r] = IF r \in RunsOf(w, s, T) THEN attempts[JobOf(r)] ELSE snap[r]
    BY <1>4 DEF Fetch
  <2> QED
    BY <1>4, <2>1, <2>2, <2>3 DEF AttemptsInvariant
<1>5. ASSUME NEW w \in Workers, NEW s \in Slots, PollAndProcess(w, s) \/ FindBackgroundJobs(w, s)
      PROVE  AttemptsInvariant'
  <2>1. PICK T \in SUBSET Due : Fetch(w, s, T)
    BY <1>5 DEF PollAndProcess, FindBackgroundJobs, FirstOf
  <2> QED
    BY <1>4, <1>5, <2>1 DEF PollAndProcess, FindBackgroundJobs
<1>6. ASSUME NEW w \in Workers, NEW s \in Slots, DispatchLockedJobs(w, s) PROVE AttemptsInvariant'
  <2>1. UNCHANGED <<status, attempts>>
        /\ snap' = [r \in Runs |-> IF phase'[r] = "idle" THEN 0 ELSE snap[r]]
    BY <1>6 DEF DispatchLockedJobs, Drop
  <2> QED
    BY <1>1, <2>1
<1>7. ASSUME NEW r \in Runs, \/ AcquireLock(r) \/ LockRefused(r) \/ MarkRunning(r)
                             \/ MarkCompleted(r) \/ Finally(r) \/ ReleaseLock(r)
      PROVE  AttemptsInvariant'
  <2>1. UNCHANGED attempts /\ \A q \in Runs : snap'[q] \in {0, snap[q]}
    BY <1>7, <1>t DEF AcquireLock, LockRefused, MarkRunning, MarkCompleted, Finally, ReleaseLock, Drop
  <2>2. \A j \in Jobs : status'[j] \in {status[j], "RUNNING", "COMPLETED"}
    BY <1>7, <1>t DEF AcquireLock, LockRefused, MarkRunning, MarkCompleted, Finally, ReleaseLock
  <2> QED
    BY <1>1, <2>1, <2>2 DEF Open
<1>8. ASSUME NEW r \in Runs, MarkFailed(r) \/ MarkUnrecoverableFailure(r) PROVE AttemptsInvariant'
  <2>1. snap[r] < MaxAttempts /\ snap[r] \in Nat /\ UNCHANGED snap
    BY <1>8, <1>t DEF AttemptsInvariant, MarkFailed, MarkUnrecoverableFailure
  <2>2. /\ attempts' = [attempts EXCEPT ![JobOf(r)] = snap[r] + 1]
        /\ status'[JobOf(r)] \in Open => snap[r] + 1 < MaxAttempts
        /\ status'[JobOf(r)] # "absent"
        /\ \A j \in Jobs \ {JobOf(r)} : status'[j] = status[j]
    BY <1>8, <1>t DEF MarkFailed, MarkUnrecoverableFailure, Open
  <2> QED
    BY <2>1, <2>2, <1>t DEF AttemptsInvariant
<1>9. CASE Tick \/ UNCHANGED vars
  BY <1>1, <1>9 DEF Tick, vars
<1>10. ASSUME NEW w \in Workers, LoseRedis(w) PROVE AttemptsInvariant'
  BY <1>1, <1>10 DEF LoseRedis
<1>11. ASSUME NEW w \in Workers, NEW s \in Slots PROVE ~PollError(w, s)
  BY NoFault DEF PollError
<1> QED
  BY <1>2, <1>3, <1>5, <1>6, <1>7, <1>8, <1>9, <1>10, <1>11, NoRestart, NothingStale
     DEF Next, JobService, PollStep, RunStep

(* Without crashes, and with handlers that end in time, no row records more attempts than it
   has. *)
THEOREM AttemptsAreBounded ==
  ASSUME MaxFaults = 0, HandlersMeetTtl
  PROVE  Spec => []AttemptsWithinBudget
<1>1. Init => BetweenQueries /\ RunnerInvariant /\ AttemptsInvariant
  BY MaxAttemptsAssumption
     DEF Init, BetweenQueries, RunnerInvariant, RunningRowHasRunner, AttemptsInvariant
<1>2. TypeOK /\ LockInvariant /\ BetweenQueries /\ RunnerInvariant /\ AttemptsInvariant
        /\ [Next]_vars
        => BetweenQueries' /\ RunnerInvariant' /\ AttemptsInvariant'
  BY QueriesStep, RunnerStep, AttemptsStep
<1>3. AttemptsInvariant => AttemptsWithinBudget
  BY DEF AttemptsInvariant, AttemptsWithinBudget
<1> QED
  BY <1>1, <1>2, <1>3, TypeCorrect, LockInvariance, PTL DEF Spec
============================================================================
