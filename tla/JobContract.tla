---------------------------- MODULE JobContract -----------------------------
(***************************************************************************)
(* What the job subsystem promises to the code around it: to those who     *)
(* enqueue a job and wait for its row to settle, and to the handlers.      *)
(*                                                                         *)
(* A job has one handler at a time.  While it runs nothing but its own     *)
(* outcome changes the row; with it lost, the row stays RUNNING until it   *)
(* is recovered.  The promise does not go further: a handler may be        *)
(* started on a row that is cancelled, failed or completed, since a poll   *)
(* acts on the row it once read, and so a job is run at least once.        *)
(***************************************************************************)
CONSTANTS
  Jobs,     \* job rows
  Runners   \* whoever runs handlers

VARIABLES
  row,      \* what a client can tell of Job.status
  handler   \* the handlers that run for a job, none or one

jobVars == <<row, handler>>

Rows == {"absent", "waiting", "running", "completed", "failed", "cancelled"}

Unhandled == {j \in Jobs : handler[j] = {}}

JobInit ==
  /\ row = [j \in Jobs |-> "absent"]
  /\ handler = [j \in Jobs |-> {}]

Set(S, value) == row' = [j \in Jobs |-> IF j \in S THEN value ELSE row[j]]

Enqueue(j) == row[j] = "absent" /\ Set({j}, "waiting") /\ UNCHANGED handler

Cancel(S) == (\A j \in S : row[j] = "waiting") /\ Set(S, "cancelled") /\ UNCHANGED handler

Retry(j) == row[j] \in {"failed", "cancelled"} /\ Set({j}, "waiting") /\ UNCHANGED handler

Start(j, r) ==
  /\ row[j] # "absent" /\ j \in Unhandled
  /\ Set({j}, "running")
  /\ handler' = [handler EXCEPT ![j] = {r}]

(* The handler returned, or it threw and the job is retried or given up. *)
Finish(j, outcome) ==
  /\ row[j] = "running" /\ j \notin Unhandled
  /\ Set({j}, outcome)
  /\ handler' = [handler EXCEPT ![j] = {}]

Outcomes == {"completed", "waiting", "failed"}

(* The run of a job ends before its handler started: there is none, or the row could not be
   marked. *)
Refuse(j, outcome) ==
  /\ row[j] # "absent" /\ j \in Unhandled
  /\ Set({j}, outcome)
  /\ UNCHANGED handler

(* The instance that ran the handlers of S is gone. *)
Lose(S) ==
  /\ handler' = [j \in Jobs |-> IF j \in S THEN {} ELSE handler[j]]
  /\ UNCHANGED row

Recover(S) ==
  /\ \A j \in S : row[j] = "running" /\ j \in Unhandled
  /\ Set(S, "waiting")
  /\ UNCHANGED handler

JobNext ==
  \/ \E j \in Jobs :
       \/ Enqueue(j) \/ Retry(j)
       \/ \E r \in Runners : Start(j, r)
       \/ \E outcome \in Outcomes : Finish(j, outcome)
       \/ \E outcome \in Outcomes \ {"completed"} : Refuse(j, outcome)
  \/ \E S \in SUBSET Jobs : Cancel(S) \/ Lose(S) \/ Recover(S)

JobSpec == JobInit /\ [][JobNext]_jobVars
----------------------------------------------------------------------------
(* A job has no handler, or one, and while one runs the row says so. *)
OneHandler ==
  \A j \in Jobs :
    handler[j] # {} => row[j] = "running" /\ \E r \in Runners : handler[j] = {r}

(* While a handler runs, only its own outcome changes the row; and a job becomes completed in
   no other way than by a handler that returned. *)
OutcomeIsOfTheHandler ==
  [][\A j \in Jobs : row'[j] # row[j] =>
       /\ handler[j] # {} => handler'[j] = {}
       /\ row'[j] = "completed" => handler[j] # {}]_jobVars
=============================================================================
