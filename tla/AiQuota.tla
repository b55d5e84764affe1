------------------------------ MODULE AiQuota ------------------------------
(***************************************************************************)
(* What an AI agent may spend: the token quota of its TenantAgentConfig,   *)
(* per period, and the monthly budget of the feature it serves, summed up  *)
(* from the usage ledger.  One tenant, one agent and its feature: the      *)
(* orchestrator agent and AGENT_TASK, which requests ask for directly      *)
(* (AiService.executeAiTask) and dispatched tasks pass the gate of         *)
(* (OrchestratorService.dispatchAgentTask) before they are queued.         *)
(*                                                                         *)
(* Every check reads a row and every charge is written after the provider  *)
(* has answered: requests that were let in together are charged together.  *)
(* A dispatched task is checked when it is dispatched; when it runs, it is *)
(* neither checked nor charged.                                            *)
(***************************************************************************)
EXTENDS Integers, FiniteSets

CONSTANTS
  Calls,      \* requests under way at one time
  Tasks,      \* dispatched tasks under way at one time
  Periods,    \* of the quota: hour, day, month
  Hour,       \* the period that is an hour
  Limits,     \* quotas an administrator may set, 0 for none
  Budgets,    \* budgets an administrator may set, NoBudget for none
  MaxTokens,  \* tokens of an answer at most
  MaxSpent,   \* bound: tokens the provider answers with
  MaxWrites,  \* bound: requests of administrators
  MaxFaults   \* bound: writes of a charge that fail

NoBudget == -1

ASSUME CallsAssumption == IsFiniteSet(Calls)
ASSUME PeriodsAssumption == Hour \in Periods
ASSUME LimitsAssumption == Limits \subseteq Nat /\ Budgets \subseteq Nat \cup {NoBudget}
ASSUME BoundsAssumption == {MaxTokens, MaxSpent, MaxWrites, MaxFaults} \subseteq Nat

VARIABLES
  agent,            \* TenantAgentConfig: enabled, the limit and the tokens used per period
  feature,          \* AiFeatureConfig: enabled, monthlyTokenBudget
  ledger,           \* tokens of the feature in the ledger of this month
  call,             \* what a request has passed
  answer,           \* the tokens of its answer
  task,             \* what a dispatched task has passed
  peak, peakBudget, \* history: the greatest limits there were, none if once there was none
  entered,          \* history: tokens ever entered in the ledger
  spent, taskSpent, \* history: tokens of all the provider's answers, of those to tasks
  thisHour,         \* history: tokens charged to the agent since the hour began
  writes, faults    \* counters of the bounds

requests == <<call, answer>>
peaks    == <<peak, peakBudget>>
config   == <<agent, feature, peaks>>
history  == <<entered, spent, taskSpent, thisHour>>
bounds   == <<writes, faults>>
vars     == <<config, ledger, requests, task, history, bounds>>

Init ==
  /\ \E limit \in [Periods -> Limits] :
       /\ agent = [enabled |-> TRUE, limit |-> limit, used |-> [p \in Periods |-> 0]]
       /\ peak = limit
  /\ \E budget \in Budgets :
       feature = [enabled |-> TRUE, budget |-> budget] /\ peakBudget = budget
  /\ ledger = 0
  /\ call = [c \in Calls |-> "idle"] /\ answer = [c \in Calls |-> 0]
  /\ task = [t \in Tasks |-> "idle"]
  /\ entered = 0 /\ spent = 0 /\ taskSpent = 0 /\ thisHour = 0
  /\ writes = 0 /\ faults = 0

Fault == faults < MaxFaults /\ faults' = faults + 1 /\ UNCHANGED writes
----------------------------------------------------------------------------
(* Mutant: a quota that is just used up still lets a request in. *)
OverQuotaLate(p) == agent.limit[p] > 0 /\ agent.used[p] > agent.limit[p]

(* checkAgentQuota and checkBudget. *)
OverQuota(p) == agent.limit[p] > 0 /\ agent.used[p] >= agent.limit[p]
WithinQuota == \A p \in Periods : ~OverQuota(p)

(* Mutant: the same of a budget. *)
WithinBudgetLate == feature.budget = NoBudget \/ ledger <= feature.budget

WithinBudget == feature.budget = NoBudget \/ ledger < feature.budget

(* A request goes from one await of executeAiTask to the next, and is refused anywhere. *)
Pass(c, from, to) ==
  /\ call[c] = from
  /\ call' = [call EXCEPT ![c] = to]
  /\ UNCHANGED <<config, task>>

ReadFeature(c) ==
  /\ feature.enabled
  /\ Pass(c, "idle", "featured")
  /\ UNCHANGED <<ledger, answer, history, bounds>>

ReadAgent(c) ==
  /\ IF agent.enabled /\ WithinQuota
     THEN Pass(c, "featured", "admitted")
     ELSE Pass(c, "featured", "idle")
  /\ UNCHANGED <<ledger, answer, history, bounds>>

CheckBudget(c) ==
  /\ IF WithinBudget THEN Pass(c, "admitted", "asking") ELSE Pass(c, "admitted", "idle")
  /\ UNCHANGED <<ledger, answer, history, bounds>>

(* The connector that was asked for is not there. *)
NoConnector(c) ==
  /\ Pass(c, "asking", "idle")
  /\ UNCHANGED <<ledger, answer, history, bounds>>

(* The provider answers, or the fallback does for no tokens. *)
Answer(c) ==
  /\ Pass(c, "asking", "answered")
  /\ \E n \in 0 .. MaxTokens :
       /\ spent + n <= MaxSpent
       /\ spent' = spent + n
       /\ answer' = [answer EXCEPT ![c] = n]
  /\ UNCHANGED <<ledger, entered, taskSpent, thisHour, bounds>>

Charge(n) ==
  /\ agent' = [agent EXCEPT !.used = [p \in Periods |-> @[p] + n]]
  /\ thisHour' = thisHour + n

(* Mutant: the agent is charged first, and the ledger not at all if that is where it ends. *)
ChargeOnly(c) ==
  /\ call[c] = "answered" /\ call' = [call EXCEPT ![c] = "idle"]
  /\ answer' = [answer EXCEPT ![c] = 0]
  /\ Charge(answer[c]) /\ Fault
  /\ UNCHANGED <<feature, peaks, ledger, task, entered, spent, taskSpent>>

(* recordUsage: if it fails, so does the request, and nothing is charged. *)
RecordUsage(c) ==
  \/ /\ Pass(c, "answered", "entered")
     /\ ledger' = ledger + answer[c]
     /\ entered' = entered + answer[c]
     /\ UNCHANGED <<answer, spent, taskSpent, thisHour, bounds>>
  \/ /\ Pass(c, "answered", "idle")
     /\ answer' = [answer EXCEPT ![c] = 0]
     /\ Fault
     /\ UNCHANGED <<ledger, history>>

(* incrementUsage, which swallows its failure. *)
IncrementUsage(c) ==
  /\ call[c] = "entered" /\ call' = [call EXCEPT ![c] = "idle"]
  /\ answer' = [answer EXCEPT ![c] = 0]
  /\ \/ Charge(answer[c]) /\ UNCHANGED bounds
     \/ Fault /\ UNCHANGED <<agent, thisHour>>
  /\ UNCHANGED <<feature, peaks, ledger, task, entered, spent, taskSpent>>
----------------------------------------------------------------------------
(* dispatchAgentTask reads the agent, then the budget, and enqueues the job. *)
Dispatch(t, from, to) ==
  /\ task[t] = from
  /\ task' = [task EXCEPT ![t] = to]
  /\ UNCHANGED <<config, ledger, requests, entered, thisHour, bounds>>

CheckDispatch(t) ==
  /\ agent.enabled /\ WithinQuota
  /\ Dispatch(t, "idle", "admitted")
  /\ UNCHANGED <<spent, taskSpent>>

EnqueueTask(t) ==
  /\ IF WithinBudget THEN Dispatch(t, "admitted", "queued") ELSE Dispatch(t, "admitted", "idle")
  /\ UNCHANGED <<spent, taskSpent>>

(* The job runs, once or again after a failure. *)
RunAgentTask(t) ==
  /\ Dispatch(t, "queued", "idle") \/ Dispatch(t, "queued", "queued")
  /\ \E n \in 1 .. MaxTokens :
       /\ spent + n <= MaxSpent
       /\ spent' = spent + n /\ taskSpent' = taskSpent + n
----------------------------------------------------------------------------
(* Requests of administrators, one statement each. *)
Write ==
  /\ writes < MaxWrites
  /\ writes' = writes + 1
  /\ UNCHANGED <<ledger, requests, task, history, faults>>

ToggleAgent ==
  /\ Write
  /\ agent' = [agent EXCEPT !.enabled = ~@]
  /\ UNCHANGED <<feature, peaks>>

UpdateAgentConfig ==
  /\ Write
  /\ \E p \in Periods, limit \in Limits :
       /\ agent' = [agent EXCEPT !.limit[p] = limit]
       /\ peak' = [peak EXCEPT ![p] = IF @ = 0 \/ limit = 0 THEN 0
                                      ELSE IF limit > @ THEN limit ELSE @]
  /\ UNCHANGED <<feature, peakBudget>>

(* Mutant: a reset gives one quota back. *)
ResetUsageOf(p) ==
  agent' = [agent EXCEPT !.used[p] = @ - agent.limit[p]]

ResetUsageTo(p) == agent' = [agent EXCEPT !.used[p] = 0]

ResetUsage == Write /\ (\E p \in Periods : ResetUsageTo(p)) /\ UNCHANGED <<feature, peaks>>

UpdateFeature ==
  /\ Write
  /\ \/ feature' = [feature EXCEPT !.enabled = ~@] /\ UNCHANGED peakBudget
     \/ \E budget \in Budgets :
          /\ feature' = [feature EXCEPT !.budget = budget]
          /\ peakBudget' = IF peakBudget = NoBudget \/ budget = NoBudget THEN NoBudget
                           ELSE IF budget > peakBudget THEN budget ELSE peakBudget
  /\ UNCHANGED <<agent, peak>>

(* Time passes.  No code turns the counters of the agent back with it: nothing looks at
   lastResetHour.  The month of the ledger is looked up by the date of its rows. *)
NewHour ==
  /\ thisHour > 0 /\ thisHour' = 0
  /\ UNCHANGED <<config, ledger, requests, task, entered, spent, taskSpent, bounds>>

NewMonth ==
  /\ ledger > 0 /\ ledger' = 0
  /\ thisHour' = 0
  /\ UNCHANGED <<config, requests, task, entered, spent, taskSpent, bounds>>
----------------------------------------------------------------------------
Next ==
  \/ \E c \in Calls :
       \/ ReadFeature(c) \/ ReadAgent(c) \/ CheckBudget(c) \/ NoConnector(c)
       \/ Answer(c) \/ RecordUsage(c) \/ IncrementUsage(c)
  \/ \E t \in Tasks : CheckDispatch(t) \/ EnqueueTask(t) \/ RunAgentTask(t)
  \/ ToggleAgent \/ UpdateAgentConfig \/ ResetUsage \/ UpdateFeature
  \/ NewHour \/ NewMonth

Spec == Init /\ [][Next]_vars
----------------------------------------------------------------------------
Steps == {"idle", "featured", "admitted", "asking", "answered", "entered"}

TypeOK ==
  /\ agent \in [enabled : BOOLEAN, limit : [Periods -> Nat], used : [Periods -> Nat]]
  /\ feature \in [enabled : BOOLEAN, budget : Nat \cup {NoBudget}]
  /\ peak \in [Periods -> Nat] /\ peakBudget \in Nat \cup {NoBudget}
  /\ ledger \in Nat
  /\ call \in [Calls -> Steps] /\ answer \in [Calls -> 0 .. MaxTokens]
  /\ task \in [Tasks -> {"idle", "admitted", "queued"}]
  /\ {entered, spent, taskSpent, thisHour, writes, faults} \subseteq Nat

(* The requests that passed the quota and are still to be charged, and those that passed the
   budget and are not in the ledger yet. *)
Uncharged == {c \in Calls : call[c] \in {"admitted", "asking", "answered", "entered"}}
Unentered == {c \in Calls : call[c] \in {"asking", "answered"}}

(* The check before the call and the charge after it let an agent go over its quota by the
   answers of the requests let in together, and by no more: what is used, with what those under
   way may yet use, stays below the quota and one answer for each request there can be. *)
OverrunIsInFlight ==
  \A p \in Periods :
    peak[p] > 0 =>
      agent.used[p] + MaxTokens * Cardinality(Uncharged) < peak[p] + MaxTokens * Cardinality(Calls)

(* The same of the monthly budget and the ledger it is summed up from. *)
BudgetOverrunIsInFlight ==
  peakBudget > 0 =>
    ledger + MaxTokens * Cardinality(Unentered) < peakBudget + MaxTokens * Cardinality(Calls)

(* Nothing is charged to an agent that is not in the ledger.  The ledger misses of what the
   provider answered what the dispatched tasks used, and what it failed to enter. *)
LedgerCovers ==
  /\ \A p \in Periods : agent.used[p] <= entered
  /\ faults = 0 /\ (\A c \in Calls : call[c] # "answered") => spent = entered + taskSpent

(* "hourly, daily, and monthly token limits": an agent refuses a request for its hourly quota
   only if that much was charged to it in this hour, however the quota was set or reset. *)
HourlyQuotaIsHourly ==
  [][\A c \in Calls :
       (call[c] = "featured" /\ call'[c] = "idle" /\ agent.enabled
          /\ (\A p \in Periods \ {Hour} : ~OverQuota(p)))
         => thisHour >= agent.limit[Hour]]_vars
=============================================================================
