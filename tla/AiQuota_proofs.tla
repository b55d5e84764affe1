-------------------------- MODULE AiQuota_proofs --------------------------
(***************************************************************************)
(* Theorems about AiQuota: by how much a quota and a budget are overrun,   *)
(* for any number of requests, tasks, periods, limits and tokens.          *)
(***************************************************************************)
EXTENDS AiQuota, FiniteSetTheorems, TLAPS

(* What the requests of S may yet use. *)
Reserved(S) == MaxTokens * Cardinality(S)

LEMMA ReservedBound ==
  ASSUME NEW T \in SUBSET Calls, NEW S \in SUBSET T
  PROVE  Reserved(S) \in Nat /\ Reserved(T) \in Nat /\ Reserved(S) <= Reserved(T)
<1>1. /\ Cardinality(S) \in Nat /\ Cardinality(T) \in Nat
      /\ Cardinality(S) <= Cardinality(T)
  BY CallsAssumption, FS_Subset, FS_CardinalityType
<1>2. PICK d \in Nat : Cardinality(T) = Cardinality(S) + d
  <2>1. Cardinality(T) - Cardinality(S) \in Nat
    BY <1>1
  <2> QED
    BY <2>1, <1>1
<1>3. Reserved(T) = Reserved(S) + MaxTokens * d
  BY <1>1, <1>2, BoundsAssumption DEF Reserved
<1>4. MaxTokens * d \in Nat /\ Reserved(S) \in Nat
  BY <1>1, <1>2, BoundsAssumption DEF Reserved
<1> QED
  BY <1>3, <1>4

(* A request that is settled gives up at least what its answer cost. *)
LEMMA ReservedLess ==
  ASSUME NEW S \in SUBSET Calls, NEW c \in S, NEW n \in 0 .. MaxTokens
  PROVE  n + Reserved(S \ {c}) <= Reserved(S)
<1>1. IsFiniteSet(S)
  BY CallsAssumption, FS_Subset
<1>2. Cardinality(S \ {c}) = Cardinality(S) - 1 /\ Cardinality(S) \in Nat
  BY <1>1, FS_RemoveElement, FS_CardinalityType
<1>3. Cardinality(S \ {c}) \in Nat
  BY <1>1, FS_RemoveElement, FS_CardinalityType
<1>4. PICK m \in Nat : Cardinality(S \ {c}) = m /\ Cardinality(S) = m + 1
  BY <1>2, <1>3
<1>5. MaxTokens * (m + 1) = MaxTokens * m + MaxTokens /\ MaxTokens * m \in Nat
  BY BoundsAssumption
<1> QED
  BY <1>4, <1>5, BoundsAssumption DEF Reserved
----------------------------------------------------------------------------
(* The peaks bound what the checks go by. *)
PeaksBound ==
  /\ \A p \in Periods : peak[p] > 0 => 0 < agent.limit[p] /\ agent.limit[p] <= peak[p]
  /\ peakBudget # NoBudget => feature.budget # NoBudget /\ feature.budget <= peakBudget

(* OverrunIsInFlight, and BudgetOverrunIsInFlight for a budget that may still be zero: then it
   has let no request pass. *)
WithinPeaks ==
  /\ \A p \in Periods :
       peak[p] > 0 => agent.used[p] + Reserved(Uncharged) < peak[p] + Reserved(Calls)
  /\ peakBudget # NoBudget =>
       \/ ledger = 0 /\ Unentered = {}
       \/ ledger + Reserved(Unentered) < peakBudget + Reserved(Calls)

QuotaInvariant == TypeOK /\ PeaksBound /\ WithinPeaks
----------------------------------------------------------------------------
LEMMA TypeInit == Init => TypeOK
<1> SUFFICES ASSUME Init PROVE TypeOK OBVIOUS
<1> USE BoundsAssumption, LimitsAssumption DEF NoBudget
<1>1. PICK limit \in [Periods -> Limits] :
        /\ agent = [enabled |-> TRUE, limit |-> limit, used |-> [p \in Periods |-> 0]]
        /\ peak = limit
  BY DEF Init
<1>2. limit \in [Periods -> Nat]
  OBVIOUS
<1>3. /\ agent \in [enabled : BOOLEAN, limit : [Periods -> Nat], used : [Periods -> Nat]]
      /\ peak \in [Periods -> Nat]
  BY <1>1, <1>2
<1>4. PICK budget \in Budgets :
        feature = [enabled |-> TRUE, budget |-> budget] /\ peakBudget = budget
  BY DEF Init
<1>5. /\ feature \in [enabled : BOOLEAN, budget : Nat \cup {NoBudget}]
      /\ peakBudget \in Nat \cup {NoBudget}
  BY <1>4
<1> QED
  BY <1>3, <1>5 DEF Init, TypeOK, Steps

LEMMA TypeStep == ASSUME TypeOK, [Next]_vars PROVE TypeOK'
<1> USE BoundsAssumption, LimitsAssumption DEF NoBudget
<1> USE DEF TypeOK, config, peaks, requests, history, bounds
<1>1. ASSUME NEW c \in Calls, NEW from \in Steps, NEW to \in Steps, Pass(c, from, to)
      PROVE  call' \in [Calls -> Steps] /\ UNCHANGED <<config, task>>
  BY <1>1 DEF Pass
<1>2. ASSUME NEW c \in Calls, ReadFeature(c) PROVE TypeOK'
  BY <1>1, <1>2 DEF ReadFeature, Steps
<1>3. ASSUME NEW c \in Calls, ReadAgent(c) PROVE TypeOK'
  BY <1>1, <1>3 DEF ReadAgent, Steps
<1>4. ASSUME NEW c \in Calls, CheckBudget(c) \/ NoConnector(c) PROVE TypeOK'
  BY <1>1, <1>4 DEF CheckBudget, NoConnector, Steps
<1>5. ASSUME NEW c \in Calls, Answer(c) PROVE TypeOK'
  BY <1>1, <1>5 DEF Answer, Steps
<1>6. ASSUME NEW c \in Calls, RecordUsage(c) PROVE TypeOK'
  BY <1>1, <1>6 DEF RecordUsage, Fault, Steps
<1>7. ASSUME NEW n \in Nat, Charge(n)
      PROVE  /\ agent' \in [enabled : BOOLEAN, limit : [Periods -> Nat], used : [Periods -> Nat]]
             /\ thisHour' \in Nat
  BY <1>7 DEF Charge
<1>8. ASSUME NEW c \in Calls, IncrementUsage(c) PROVE TypeOK'
  <2>1. call' \in [Calls -> Steps] /\ answer' \in [Calls -> 0 .. MaxTokens]
    BY <1>8 DEF IncrementUsage, Steps
  <2>2. answer[c] \in Nat
    BY <1>8
  <2>3. /\ agent' \in [enabled : BOOLEAN, limit : [Periods -> Nat], used : [Periods -> Nat]]
        /\ thisHour' \in Nat
    BY <1>7, <1>8, <2>2 DEF IncrementUsage
  <2> QED
    BY <1>8, <2>1, <2>3 DEF IncrementUsage, Fault
<1>9. ASSUME NEW t \in Tasks, CheckDispatch(t) \/ EnqueueTask(t) \/ RunAgentTask(t) PROVE TypeOK'
  BY <1>9 DEF CheckDispatch, EnqueueTask, RunAgentTask, Dispatch
<1>10. CASE ToggleAgent \/ ResetUsage
  <2>1. agent' \in [enabled : BOOLEAN, limit : [Periods -> Nat], used : [Periods -> Nat]]
    <3>1. CASE ToggleAgent
      BY <3>1 DEF ToggleAgent
    <3>2. CASE ResetUsage
      <4>1. PICK p \in Periods : agent' = [agent EXCEPT !.used[p] = 0]
        BY <3>2 DEF ResetUsage, ResetUsageTo
      <4>2. [agent.used EXCEPT ![p] = 0] \in [Periods -> Nat]
        OBVIOUS
      <4> QED
        BY <4>1, <4>2
    <3> QED
      BY <1>10, <3>1, <3>2
  <2> QED
    BY <1>10, <2>1 DEF ToggleAgent, ResetUsage, Write
<1>11. CASE UpdateAgentConfig
  BY <1>11 DEF UpdateAgentConfig, Write
<1>12. CASE UpdateFeature
  <2>1. /\ feature' \in [enabled : BOOLEAN, budget : Nat \cup {NoBudget}]
        /\ peakBudget' \in Nat \cup {NoBudget}
    <3>1. CASE feature' = [feature EXCEPT !.enabled = ~@] /\ UNCHANGED peakBudget
      BY <3>1
    <3>2. ASSUME NEW budget \in Budgets, feature' = [feature EXCEPT !.budget = budget],
                 peakBudget' \in {NoBudget, budget, peakBudget}
          PROVE  /\ feature' \in [enabled : BOOLEAN, budget : Nat \cup {NoBudget}]
                 /\ peakBudget' \in Nat \cup {NoBudget}
      <4>1. budget \in Nat \cup {NoBudget}
        OBVIOUS
      <4> QED
        BY <3>2, <4>1
    <3> QED
      BY <1>12, <3>1, <3>2 DEF UpdateFeature
  <2> QED
    BY <1>12, <2>1 DEF UpdateFeature, Write
<1>13. CASE NewHour \/ NewMonth
  BY <1>13 DEF NewHour, NewMonth
<1>14. CASE UNCHANGED vars
  BY <1>14 DEF vars
<1> QED
  BY <1>2, <1>3, <1>4, <1>5, <1>6, <1>8, <1>9, <1>10, <1>11, <1>12, <1>13, <1>14 DEF Next

(* Every variable keeps its type. *)
THEOREM TypeCorrect == Spec => []TypeOK
BY TypeInit, TypeStep, PTL DEF Spec
----------------------------------------------------------------------------
LEMMA PeaksInit == Init => PeaksBound /\ WithinPeaks
<1> SUFFICES ASSUME Init PROVE PeaksBound /\ WithinPeaks OBVIOUS
<1>1. TypeOK
  BY TypeInit
<1>2. Uncharged = {} /\ Unentered = {}
  BY DEF Init, Uncharged, Unentered
<1>3. Reserved({}) = 0 /\ Reserved(Calls) \in Nat
  BY ReservedBound, FS_EmptySet, BoundsAssumption DEF Reserved
<1>4. PeaksBound
  BY <1>1, LimitsAssumption DEF Init, PeaksBound, TypeOK, NoBudget
<1>5. \A p \in Periods : agent.used[p] = 0
  BY DEF Init
<1>6. WithinPeaks
  BY <1>1, <1>2, <1>3, <1>5 DEF WithinPeaks, TypeOK, Init
<1> QED
  BY <1>4, <1>6

(* Limits and budgets change with their peaks, or not at all. *)
LEMMA PeaksStep == ASSUME TypeOK, PeaksBound, [Next]_vars PROVE PeaksBound'
<1> USE LimitsAssumption DEF PeaksBound, TypeOK, NoBudget
<1>1. CASE UNCHANGED <<peaks, feature>> /\ agent'.limit = agent.limit
  BY <1>1 DEF peaks
<1>2. CASE UpdateAgentConfig
  <2>1. PICK p \in Periods, limit \in Limits :
          /\ agent' = [agent EXCEPT !.limit[p] = limit]
          /\ peak' = [peak EXCEPT ![p] = IF @ = 0 \/ limit = 0 THEN 0
                                         ELSE IF limit > @ THEN limit ELSE @]
    BY <1>2 DEF UpdateAgentConfig
  <2>2. limit \in Nat /\ agent'.limit = [agent.limit EXCEPT ![p] = limit]
    BY <2>1
  <2>3. UNCHANGED <<feature, peakBudget>>
    BY <1>2 DEF UpdateAgentConfig
  <2>4. ASSUME NEW q \in Periods, peak'[q] > 0
        PROVE  0 < agent'.limit[q] /\ agent'.limit[q] <= peak'[q]
    <3>1. CASE q = p
      BY <2>1, <2>2, <2>4, <3>1
    <3>2. CASE q # p
      BY <2>1, <2>2, <2>4, <3>2
    <3> QED
      BY <3>1, <3>2
  <2> QED
    BY <2>3, <2>4
<1>3. CASE UpdateFeature
  <2>1. agent' = agent /\ peak' = peak
    BY <1>3 DEF UpdateFeature
  <2>2. CASE feature' = [feature EXCEPT !.enabled = ~@] /\ UNCHANGED peakBudget
    BY <2>1, <2>2
  <2>3. ASSUME NEW budget \in Budgets,
               feature' = [feature EXCEPT !.budget = budget],
               peakBudget' = IF peakBudget = NoBudget \/ budget = NoBudget THEN NoBudget
                             ELSE IF budget > peakBudget THEN budget ELSE peakBudget
        PROVE  PeaksBound'
    <3>1. feature'.budget = budget /\ budget \in Nat \cup {NoBudget}
      BY <2>3
    <3> QED
      BY <2>1, <2>3, <3>1
  <2> QED
    BY <1>3, <2>2, <2>3 DEF UpdateFeature
<1>4. \/ UNCHANGED <<peaks, feature>> /\ agent'.limit = agent.limit
      \/ UpdateAgentConfig
      \/ UpdateFeature
  <2> USE DEF config, peaks, Pass
  <2>1. ASSUME NEW c \in Calls,
               ReadFeature(c) \/ ReadAgent(c) \/ CheckBudget(c) \/ NoConnector(c)
                 \/ Answer(c) \/ RecordUsage(c)
        PROVE  UNCHANGED config
    BY <2>1 DEF ReadFeature, ReadAgent, CheckBudget, NoConnector, Answer, RecordUsage
  <2>2. ASSUME NEW c \in Calls, IncrementUsage(c)
        PROVE  UNCHANGED <<peaks, feature>> /\ agent'.limit = agent.limit
    BY <2>2 DEF IncrementUsage, Charge
  <2>3. ASSUME NEW t \in Tasks, CheckDispatch(t) \/ EnqueueTask(t) \/ RunAgentTask(t)
        PROVE  UNCHANGED config
    BY <2>3 DEF CheckDispatch, EnqueueTask, RunAgentTask, Dispatch
  <2>4. CASE ToggleAgent \/ ResetUsage
    BY <2>4 DEF ToggleAgent, ResetUsage, ResetUsageTo
  <2>5. CASE NewHour \/ NewMonth \/ UNCHANGED vars
    BY <2>5 DEF NewHour, NewMonth, vars
  <2> QED
    BY <2>1, <2>2, <2>3, <2>4, <2>5 DEF Next
<1> QED
  BY <1>1, <1>2, <1>3, <1>4

(* Whatever uses nothing more and lets no request in. *)
LEMMA QuietStep ==
  ASSUME TypeOK, TypeOK', WithinPeaks,
         \A p \in Periods : agent'.used[p] <= agent.used[p], ledger' <= ledger,
         Uncharged' \subseteq Uncharged, Unentered' \subseteq Unentered,
         \A p \in Periods : peak'[p] > 0 => peak[p] > 0 /\ peak[p] <= peak'[p],
         peakBudget' # NoBudget => peakBudget # NoBudget /\ peakBudget <= peakBudget'
  PROVE  WithinPeaks'
<1>1. Uncharged \in SUBSET Calls /\ Unentered \in SUBSET Calls
  BY DEF Uncharged, Unentered
<1>2. /\ Reserved(Uncharged') \in Nat /\ Reserved(Uncharged) \in Nat
      /\ Reserved(Uncharged') <= Reserved(Uncharged)
  BY <1>1, ReservedBound
<1>3. /\ Reserved(Unentered') \in Nat /\ Reserved(Unentered) \in Nat
      /\ Reserved(Unentered') <= Reserved(Unentered)
  BY <1>1, ReservedBound
<1>4. Reserved(Calls) \in Nat /\ Reserved(Calls)' = Reserved(Calls)
  BY ReservedBound DEF Reserved
<1>5. Reserved(Uncharged)' = Reserved(Uncharged') /\ Reserved(Unentered)' = Reserved(Unentered')
  BY DEF Reserved
<1>6. ASSUME NEW p \in Periods, peak'[p] > 0
      PROVE  agent'.used[p] + Reserved(Uncharged') < peak'[p] + Reserved(Calls)
  BY <1>2, <1>4, <1>6 DEF WithinPeaks, TypeOK
<1>7. ASSUME peakBudget' # NoBudget
      PROVE  \/ ledger' = 0 /\ Unentered' = {}
             \/ ledger' + Reserved(Unentered') < peakBudget' + Reserved(Calls)
  BY <1>3, <1>4, <1>7 DEF WithinPeaks, TypeOK, NoBudget
<1> QED
  BY <1>4, <1>5, <1>6, <1>7 DEF WithinPeaks

(* A request that goes on enters or leaves the two sets with its step. *)
LEMMA Moves ==
  ASSUME TypeOK, NEW c \in Calls, NEW to, call' = [call EXCEPT ![c] = to]
  PROVE  /\ Uncharged' = IF to \in {"admitted", "asking", "answered", "entered"}
                         THEN Uncharged \cup {c} ELSE Uncharged \ {c}
         /\ Unentered' = IF to \in {"asking", "answered"}
                         THEN Unentered \cup {c} ELSE Unentered \ {c}
BY DEF TypeOK, Uncharged, Unentered

(* A request that passes the quota: what was used is below every limit, and the others that may
   yet be charged are at most all of them. *)
LEMMA AdmitStep ==
  ASSUME QuotaInvariant, TypeOK', NEW c \in Calls, ReadAgent(c), agent.enabled /\ WithinQuota
  PROVE  WithinPeaks'
<1>1. Pass(c, "featured", "admitted") /\ UNCHANGED ledger
  BY DEF ReadAgent
<1>2. UNCHANGED <<agent, peak, peakBudget>>
  BY <1>1 DEF Pass, config, peaks
<1>3. Unentered' = Unentered
  BY <1>1, Moves DEF QuotaInvariant, Pass, Unentered
<1>4. /\ Reserved(Uncharged') \in Nat /\ Reserved(Calls) \in Nat
      /\ Reserved(Uncharged') <= Reserved(Calls)
  BY ReservedBound DEF Uncharged
<1>5. ASSUME NEW p \in Periods, peak'[p] > 0
      PROVE  agent'.used[p] + Reserved(Uncharged') < peak'[p] + Reserved(Calls)
  <2>1. agent.limit[p] > 0 /\ agent.limit[p] <= peak[p]
    BY <1>2, <1>5 DEF QuotaInvariant, PeaksBound
  <2>2. ~(agent.used[p] >= agent.limit[p])
    BY <2>1 DEF WithinQuota, OverQuota
  <2> QED
    BY <1>2, <1>4, <2>1, <2>2 DEF QuotaInvariant, TypeOK
<1> QED
  BY <1>1, <1>2, <1>3, <1>5 DEF QuotaInvariant, WithinPeaks, Reserved

(* A request that passes the budget. *)
LEMMA AskStep ==
  ASSUME QuotaInvariant, TypeOK', NEW c \in Calls, CheckBudget(c), WithinBudget
  PROVE  WithinPeaks'
<1>1. Pass(c, "admitted", "asking") /\ UNCHANGED ledger
  BY DEF CheckBudget
<1>2. UNCHANGED <<agent, feature, peak, peakBudget>>
  BY <1>1 DEF Pass, config, peaks
<1>3. Uncharged' = Uncharged
  BY <1>1, Moves DEF QuotaInvariant, Pass, Uncharged
<1>4. /\ Reserved(Unentered') \in Nat /\ Reserved(Calls) \in Nat
      /\ Reserved(Unentered') <= Reserved(Calls)
  BY ReservedBound DEF Unentered
<1>5. ASSUME peakBudget' # NoBudget
      PROVE  ledger' + Reserved(Unentered') < peakBudget' + Reserved(Calls)
  <2>1. ledger < feature.budget /\ feature.budget <= peakBudget /\ feature.budget # NoBudget
    BY <1>2, <1>5 DEF WithinBudget, QuotaInvariant, PeaksBound
  <2> QED
    BY <1>1, <1>2, <1>4, <1>5, <2>1 DEF QuotaInvariant, TypeOK, NoBudget
<1> QED
  BY <1>2, <1>3, <1>5 DEF QuotaInvariant, WithinPeaks, Reserved

(* An answer enters the ledger, and its request no longer may. *)
LEMMA EnterStep ==
  ASSUME QuotaInvariant, TypeOK', NEW c \in Calls, RecordUsage(c),
         Pass(c, "answered", "entered"),
         ledger' = ledger + answer[c]
  PROVE  WithinPeaks'
<1>1. UNCHANGED <<agent, peak, peakBudget>>
  BY DEF Pass, config, peaks
<1>2. Uncharged' = Uncharged /\ Unentered' = Unentered \ {c} /\ c \in Unentered
  BY Moves DEF QuotaInvariant, Pass, Uncharged, Unentered
<1>3. answer[c] \in 0 .. MaxTokens
  BY DEF QuotaInvariant, TypeOK
<1>4. Unentered \in SUBSET Calls
  BY DEF Unentered
<1>5. answer[c] + Reserved(Unentered') <= Reserved(Unentered)
  BY <1>2, <1>3, <1>4, ReservedLess
<1>6. Reserved(Unentered') \in Nat /\ Reserved(Unentered) \in Nat /\ Reserved(Calls) \in Nat
  BY <1>2, <1>4, ReservedBound
<1>7. ASSUME peakBudget' # NoBudget
      PROVE  ledger' + Reserved(Unentered') < peakBudget' + Reserved(Calls)
  <2>1. ledger + Reserved(Unentered) < peakBudget + Reserved(Calls)
    BY <1>1, <1>2, <1>7 DEF QuotaInvariant, WithinPeaks
  <2> QED
    BY <1>1, <1>3, <1>5, <1>6, <1>7, <2>1, BoundsAssumption DEF QuotaInvariant, TypeOK, NoBudget
<1> QED
  BY <1>1, <1>2, <1>7 DEF QuotaInvariant, WithinPeaks, Reserved

(* The agent is charged, or the charge is lost. *)
LEMMA ChargeStep ==
  ASSUME QuotaInvariant, TypeOK', NEW c \in Calls, IncrementUsage(c)
  PROVE  WithinPeaks'
<1>1. UNCHANGED <<ledger, peak, peakBudget>> /\ call[c] = "entered"
      /\ call' = [call EXCEPT ![c] = "idle"]
  BY DEF IncrementUsage, peaks
<1>2. Unentered' = Unentered /\ Uncharged' = Uncharged \ {c} /\ c \in Uncharged
  <2>1. Unentered' = Unentered \ {c} /\ Uncharged' = Uncharged \ {c}
    BY <1>1 DEF QuotaInvariant, TypeOK, Uncharged, Unentered
  <2>2. c \notin Unentered /\ c \in Uncharged
    BY <1>1 DEF Uncharged, Unentered
  <2> QED
    BY <2>1, <2>2
<1>3. answer[c] \in 0 .. MaxTokens
  BY DEF QuotaInvariant, TypeOK
<1>4. Uncharged \in SUBSET Calls
  BY DEF Uncharged
<1>5. answer[c] + Reserved(Uncharged') <= Reserved(Uncharged)
  BY <1>2, <1>3, <1>4, ReservedLess
<1>6. Reserved(Uncharged') \in Nat /\ Reserved(Uncharged) \in Nat /\ Reserved(Calls) \in Nat
  BY <1>2, <1>4, ReservedBound
<1>7. \A p \in Periods : agent'.used[p] \in {agent.used[p], agent.used[p] + answer[c]}
  BY DEF IncrementUsage, Charge, QuotaInvariant, TypeOK
<1>8. ASSUME NEW p \in Periods, peak'[p] > 0
      PROVE  agent'.used[p] + Reserved(Uncharged') < peak'[p] + Reserved(Calls)
  <2>1. agent.used[p] + Reserved(Uncharged) < peak[p] + Reserved(Calls)
    BY <1>1, <1>8 DEF QuotaInvariant, WithinPeaks
  <2>2. agent.used[p] \in Nat /\ peak[p] \in Nat /\ answer[c] \in Nat
    BY <1>3, BoundsAssumption DEF QuotaInvariant, TypeOK
  <2> QED
    BY <1>1, <1>5, <1>6, <1>7, <2>1, <2>2
<1> QED
  BY <1>1, <1>2, <1>8 DEF QuotaInvariant, WithinPeaks, Reserved

LEMMA WithinStep == ASSUME QuotaInvariant, TypeOK', [Next]_vars PROVE WithinPeaks'
<1> USE DEF QuotaInvariant
<1> DEFINE Quiet ==
      /\ agent'.used = agent.used /\ ledger' = ledger
      /\ UNCHANGED <<peak, peakBudget>>
<1>1. \A p \in Periods : agent.used[p] \in Nat /\ peak[p] \in Nat
  BY DEF TypeOK
<1>2. ledger \in Nat /\ peakBudget \in Nat \cup {NoBudget}
  BY DEF TypeOK
<1>3. ASSUME Quiet, Uncharged' \subseteq Uncharged, Unentered' \subseteq Unentered
      PROVE  WithinPeaks'
  BY <1>1, <1>2, <1>3, QuietStep DEF NoBudget
<1>4. ASSUME NEW c \in Calls, NEW from, NEW to, Pass(c, from, to), ledger' = ledger,
             \/ from = to \/ to = "idle" \/ to = "featured"
             \/ from = "asking" /\ to = "answered"
      PROVE  WithinPeaks'
  <2>1. Quiet
    BY <1>4 DEF Pass, config, peaks
  <2>2. Uncharged' \subseteq Uncharged /\ Unentered' \subseteq Unentered
    BY <1>4, Moves DEF Pass, Uncharged, Unentered
  <2> QED
    BY <1>3, <2>1, <2>2
<1>5. ASSUME NEW c \in Calls, ReadFeature(c) \/ NoConnector(c) \/ Answer(c) PROVE WithinPeaks'
  BY <1>4, <1>5 DEF ReadFeature, NoConnector, Answer
<1>6. ASSUME NEW c \in Calls, ReadAgent(c) PROVE WithinPeaks'
  <2>1. CASE agent.enabled /\ WithinQuota
    BY <1>6, <2>1, AdmitStep
  <2>2. CASE ~(agent.enabled /\ WithinQuota)
    BY <1>4, <1>6, <2>2 DEF ReadAgent
  <2> QED
    BY <2>1, <2>2
<1>7. ASSUME NEW c \in Calls, CheckBudget(c) PROVE WithinPeaks'
  <2>1. CASE WithinBudget
    BY <1>7, <2>1, AskStep
  <2>2. CASE ~WithinBudget
    BY <1>4, <1>7, <2>2 DEF CheckBudget
  <2> QED
    BY <2>1, <2>2
<1>8. ASSUME NEW c \in Calls, RecordUsage(c) PROVE WithinPeaks'
  <2>1. CASE Pass(c, "answered", "entered") /\ ledger' = ledger + answer[c]
    BY <1>8, <2>1, EnterStep
  <2>2. CASE Pass(c, "answered", "idle") /\ ledger' = ledger
    BY <1>4, <2>2
  <2> QED
    BY <1>8, <2>1, <2>2 DEF RecordUsage
<1>9. ASSUME NEW t \in Tasks, CheckDispatch(t) \/ EnqueueTask(t) \/ RunAgentTask(t)
      PROVE  WithinPeaks'
  <2>1. UNCHANGED <<config, ledger, requests>>
    BY <1>9 DEF CheckDispatch, EnqueueTask, RunAgentTask, Dispatch
  <2> QED
    BY <1>3, <2>1 DEF config, peaks, requests, Uncharged, Unentered
<1>10. ASSUME UNCHANGED <<ledger, requests>>,
              \A p \in Periods : agent'.used[p] <= agent.used[p],
              \A p \in Periods : peak'[p] > 0 => peak[p] > 0 /\ peak[p] <= peak'[p],
              peakBudget' # NoBudget => peakBudget # NoBudget /\ peakBudget <= peakBudget'
       PROVE  WithinPeaks'
  <2>1. Uncharged' = Uncharged /\ Unentered' = Unentered /\ ledger' <= ledger
    BY <1>2, <1>10 DEF requests, Uncharged, Unentered
  <2> QED
    BY <1>10, <2>1, QuietStep
<1>11. CASE ToggleAgent
  BY <1>1, <1>2, <1>10, <1>11 DEF ToggleAgent, Write, peaks, NoBudget
<1>12. CASE ResetUsage
  <2>1. PICK p \in Periods : agent' = [agent EXCEPT !.used[p] = 0]
    BY <1>12 DEF ResetUsage, ResetUsageTo
  <2>2. agent'.used = [agent.used EXCEPT ![p] = 0]
    BY <2>1 DEF TypeOK
  <2>3. \A q \in Periods : agent'.used[q] <= agent.used[q]
    BY <1>1, <2>2 DEF TypeOK
  <2> QED
    BY <1>1, <1>2, <1>10, <1>12, <2>3 DEF ResetUsage, Write, peaks, NoBudget
<1>13. CASE UpdateAgentConfig
  <2>1. PICK p \in Periods, limit \in Limits :
          /\ agent' = [agent EXCEPT !.limit[p] = limit]
          /\ peak' = [peak EXCEPT ![p] = IF @ = 0 \/ limit = 0 THEN 0
                                         ELSE IF limit > @ THEN limit ELSE @]
    BY <1>13 DEF UpdateAgentConfig
  <2>2. agent'.used = agent.used /\ limit \in Nat
    BY <2>1, LimitsAssumption DEF TypeOK
  <2>3. ASSUME NEW q \in Periods, peak'[q] > 0 PROVE peak[q] > 0 /\ peak[q] <= peak'[q]
    <3>1. CASE q = p
      BY <1>1, <2>1, <2>2, <2>3, <3>1 DEF TypeOK
    <3>2. CASE q # p
      BY <1>1, <2>1, <2>3, <3>2 DEF TypeOK
    <3> QED
      BY <3>1, <3>2
  <2> QED
    BY <1>1, <1>2, <1>10, <1>13, <2>2, <2>3 DEF UpdateAgentConfig, Write, NoBudget
<1>14. CASE UpdateFeature
  <2>1. peakBudget' # NoBudget => peakBudget # NoBudget /\ peakBudget <= peakBudget'
    BY <1>2, <1>14, LimitsAssumption DEF UpdateFeature, NoBudget
  <2> QED
    BY <1>1, <1>10, <1>14, <2>1 DEF UpdateFeature, Write
<1>15. CASE NewMonth
  <2>1. /\ ledger' <= ledger /\ UNCHANGED <<config, requests>>
    BY <1>2, <1>15 DEF NewMonth
  <2> QED
    BY <1>1, <1>2, <2>1, QuietStep DEF config, peaks, requests, Uncharged, Unentered, NoBudget
<1>16. CASE NewHour \/ UNCHANGED vars
  BY <1>3, <1>16 DEF NewHour, vars, config, peaks, requests, Uncharged, Unentered
<1> QED
  BY <1>5, <1>6, <1>7, <1>8, <1>9, <1>11, <1>12, <1>13, <1>14, <1>15, <1>16, ChargeStep DEF Next
----------------------------------------------------------------------------
LEMMA Invariant == Spec => []QuotaInvariant
<1>1. Init => QuotaInvariant
  BY TypeInit, PeaksInit DEF QuotaInvariant
<1>2. QuotaInvariant /\ [Next]_vars => QuotaInvariant'
  BY TypeStep, PeaksStep, WithinStep DEF QuotaInvariant
<1> QED
  BY <1>1, <1>2, PTL DEF Spec

(* A quota is overrun by less than one answer of each request there can be, whatever was set
   or reset. *)
THEOREM QuotaOverrun == Spec => []OverrunIsInFlight
<1>1. QuotaInvariant => OverrunIsInFlight
  BY DEF QuotaInvariant, WithinPeaks, Reserved, OverrunIsInFlight
<1> QED
  BY <1>1, Invariant, PTL

(* So is a budget. *)
THEOREM BudgetOverrun == Spec => []BudgetOverrunIsInFlight
<1>1. ASSUME QuotaInvariant, peakBudget > 0
      PROVE  ledger + Reserved(Unentered) < peakBudget + Reserved(Calls)
  <2>1. peakBudget # NoBudget /\ peakBudget \in Nat
    BY <1>1 DEF QuotaInvariant, TypeOK, NoBudget
  <2>2. CASE ledger = 0 /\ Unentered = {}
    <3>1. Reserved(Unentered) = 0 /\ Reserved(Calls) \in Nat
      BY <2>2, ReservedBound, FS_EmptySet, BoundsAssumption DEF Reserved
    <3> QED
      BY <1>1, <2>1, <2>2, <3>1
  <2> QED
    BY <1>1, <2>1, <2>2 DEF QuotaInvariant, WithinPeaks
<1>2. QuotaInvariant => BudgetOverrunIsInFlight
  BY <1>1 DEF BudgetOverrunIsInFlight, Reserved
<1> QED
  BY <1>2, Invariant, PTL
----------------------------------------------------------------------------
(* The tokens of the answers a to the requests of S, counted one by one. *)
TokensOf(S, a) == {x \in S \X (1 .. MaxTokens) : x[2] <= a[x[1]]}
Total(S, a) == Cardinality(TokensOf(S, a))

Answers == [Calls -> 0 .. MaxTokens]

LEMMA TotalType ==
  ASSUME NEW S \in SUBSET Calls, NEW a
  PROVE  IsFiniteSet(TokensOf(S, a)) /\ Total(S, a) \in Nat
<1>1. IsFiniteSet(S) /\ IsFiniteSet(1 .. MaxTokens)
  BY CallsAssumption, BoundsAssumption, FS_Subset, FS_Interval
<1>2. IsFiniteSet(S \X (1 .. MaxTokens))
  BY <1>1, FS_Product
<1>3. TokensOf(S, a) \in SUBSET (S \X (1 .. MaxTokens))
  BY DEF TokensOf
<1>4. IsFiniteSet(TokensOf(S, a))
  BY <1>2, <1>3, FS_Subset
<1> QED
  BY <1>4, FS_CardinalityType DEF Total

LEMMA TotalOfNone == ASSUME NEW a PROVE Total({}, a) = 0
<1>1. TokensOf({}, a) = {}
  BY DEF TokensOf
<1> QED
  BY <1>1, FS_EmptySet DEF Total

LEMMA TotalSame ==
  ASSUME NEW S, NEW a, NEW b, \A c \in S : b[c] = a[c]
  PROVE  Total(S, b) = Total(S, a)
<1>1. TokensOf(S, b) = TokensOf(S, a)
  BY DEF TokensOf
<1> QED
  BY <1>1 DEF Total

(* One request adds its answer. *)
LEMMA TotalOfOneMore ==
  ASSUME NEW S \in SUBSET Calls, NEW c \in Calls, c \notin S, NEW a \in Answers
  PROVE  Total(S \cup {c}, a) = a[c] + Total(S, a)
<1> DEFINE Mine == {c} \X (1 .. a[c])
<1>1. a[c] \in 0 .. MaxTokens
  BY DEF Answers
<1>2. IsFiniteSet({c}) /\ Cardinality({c}) = 1
  BY FS_Singleton
<1>3. IsFiniteSet(1 .. a[c]) /\ Cardinality(1 .. a[c]) = a[c]
  <2>1. PICK m \in Nat : m = a[c]
    BY <1>1, BoundsAssumption
  <2>2. m \in Int /\ 1 \in Int
    OBVIOUS
  <2>3. IsFiniteSet(1 .. m) /\ Cardinality(1 .. m) = IF 1 > m THEN 0 ELSE m - 1 + 1
    BY <2>2, FS_Interval, Zenon
  <2> QED
    BY <2>1, <2>3
<1>4. IsFiniteSet(Mine) /\ Cardinality(Mine) = a[c]
  <2>1. IsFiniteSet(Mine) /\ Cardinality(Mine) = 1 * a[c]
    BY <1>2, <1>3, FS_Product
  <2> QED
    BY <1>1, <2>1, BoundsAssumption
<1>5. TokensOf(S \cup {c}, a) = Mine \cup TokensOf(S, a)
  <2>1. ASSUME NEW x \in TokensOf(S \cup {c}, a) PROVE x \in Mine \cup TokensOf(S, a)
    BY <2>1, <1>1, BoundsAssumption DEF TokensOf
  <2>2. ASSUME NEW x \in Mine PROVE x \in TokensOf(S \cup {c}, a)
    <3>1. x \in {c} \X (1 .. MaxTokens) /\ x[1] = c /\ x[2] <= a[c]
      BY <2>2, <1>1, BoundsAssumption
    <3> QED
      BY <3>1 DEF TokensOf
  <2>3. ASSUME NEW x \in TokensOf(S, a) PROVE x \in TokensOf(S \cup {c}, a)
    BY <2>3 DEF TokensOf
  <2> QED
    BY <2>1, <2>2, <2>3
<1>6. Mine \cap TokensOf(S, a) = {}
  BY DEF TokensOf
<1>7. IsFiniteSet(TokensOf(S, a)) /\ Total(S, a) \in Nat
  BY TotalType
<1>8. /\ IsFiniteSet(Mine \cup TokensOf(S, a))
      /\ Cardinality(Mine \cup TokensOf(S, a))
           = Cardinality(Mine) + Cardinality(TokensOf(S, a)) - Cardinality(Mine \cap TokensOf(S, a))
  <2> HIDE DEF Mine
  <2> QED
    BY <1>4, <1>7, FS_Union
<1> HIDE DEF Mine
<1>9. Cardinality(Mine \cap TokensOf(S, a)) = 0
  BY <1>6, FS_EmptySet
<1> QED
  <2>1. Total(S \cup {c}, a) = Cardinality(Mine \cup TokensOf(S, a))
    BY <1>5 DEF Total
  <2>2. Cardinality(Mine \cup TokensOf(S, a)) = a[c] + Total(S, a) - 0
    BY <1>4, <1>8, <1>9 DEF Total
  <2>3. a[c] + Total(S, a) - 0 = a[c] + Total(S, a)
    BY <1>1, <1>7, BoundsAssumption
  <2> QED
    BY <2>1, <2>2, <2>3
----------------------------------------------------------------------------
Answered == {c \in Calls : call[c] = "answered"}
Entered == {c \in Calls : call[c] = "entered"}

(* LedgerCovers, with the answers on their way: those that are not in the ledger yet, and those
   that are, but not charged yet. *)
Covered == \A p \in Periods : agent.used[p] + Total(Entered, answer) <= entered
Missed  == faults = 0 => spent = entered + taskSpent + Total(Answered, answer)

LedgerInvariant == TypeOK /\ Covered /\ Missed

(* Whatever has no part in answering, entering and charging. *)
LEMMA LedgerAside ==
  ASSUME LedgerInvariant, TypeOK', UNCHANGED <<answer, entered, faults>>,
         Answered' = Answered, Entered' = Entered,
         spent' - taskSpent' = spent - taskSpent,
         \A p \in Periods : agent'.used[p] <= agent.used[p]
  PROVE  Covered' /\ Missed'
<1>1. /\ Total(Answered, answer)' = Total(Answered, answer)
      /\ Total(Entered, answer)' = Total(Entered, answer)
  BY DEF Total, TokensOf
<1>2. Total(Answered, answer) \in Nat /\ Total(Entered, answer) \in Nat
  BY TotalType DEF Answered, Entered
<1>3. Covered'
  BY <1>1, <1>2 DEF LedgerInvariant, TypeOK, Covered
<1>4. Missed'
  BY <1>1, <1>2 DEF LedgerInvariant, TypeOK, Missed
<1> QED
  BY <1>3, <1>4

(* Where a step of a request takes it from and to. *)
LEMMA LedgerMoves ==
  ASSUME TypeOK, NEW c \in Calls, NEW to, call' = [call EXCEPT ![c] = to]
  PROVE  /\ Answered' = IF to = "answered" THEN (Answered \ {c}) \cup {c} ELSE Answered \ {c}
         /\ Entered' = IF to = "entered" THEN (Entered \ {c}) \cup {c} ELSE Entered \ {c}
BY DEF TypeOK, Answered, Entered

LEMMA LedgerAnswer ==
  ASSUME LedgerInvariant, TypeOK', NEW c \in Calls, Answer(c)
  PROVE  Covered' /\ Missed'
<1>1. PICK n \in 0 .. MaxTokens : spent' = spent + n /\ answer' = [answer EXCEPT ![c] = n]
  BY DEF Answer
<1>2. /\ call[c] = "asking" /\ call' = [call EXCEPT ![c] = "answered"]
      /\ UNCHANGED <<agent, entered, taskSpent, faults>>
  BY DEF Answer, Pass, config, bounds
<1>3. c \notin Answered /\ c \notin Entered /\ Answered' = Answered \cup {c} /\ Entered' = Entered
  BY <1>2, LedgerMoves DEF LedgerInvariant, Answered, Entered
<1>4. answer'[c] = n /\ (\A d \in Calls \ {c} : answer'[d] = answer[d]) /\ answer' \in Answers
  BY <1>1 DEF LedgerInvariant, TypeOK, Answers
<1>5. Answered \in SUBSET Calls /\ Entered \in SUBSET Calls
  BY DEF Answered, Entered
<1>6. Total(Answered \cup {c}, answer') = n + Total(Answered, answer')
  BY <1>3, <1>4, <1>5, TotalOfOneMore
<1>7. /\ Total(Answered, answer') = Total(Answered, answer)
      /\ Total(Entered, answer') = Total(Entered, answer)
  BY <1>3, <1>4, <1>5, TotalSame
<1>8. Total(Answered, answer) \in Nat /\ Total(Entered, answer) \in Nat
  BY <1>5, TotalType
<1>9. /\ Total(Answered, answer)' = Total(Answered', answer')
      /\ Total(Entered, answer)' = Total(Entered', answer')
  BY DEF Total, TokensOf
<1>10. Covered'
  BY <1>2, <1>3, <1>7, <1>9 DEF LedgerInvariant, Covered
<1>11. Missed'
  BY <1>1, <1>2, <1>3, <1>6, <1>7, <1>8, <1>9, BoundsAssumption DEF LedgerInvariant, TypeOK, Missed
<1> QED
  BY <1>10, <1>11

LEMMA LedgerRecord ==
  ASSUME LedgerInvariant, TypeOK', NEW c \in Calls, RecordUsage(c)
  PROVE  Covered' /\ Missed'
<1>1. call[c] = "answered" /\ UNCHANGED <<agent, spent, taskSpent>>
  BY DEF RecordUsage, Pass, config, history
<1>2. answer \in Answers /\ answer[c] \in 0 .. MaxTokens
  BY DEF LedgerInvariant, TypeOK, Answers
<1>3. Answered \in SUBSET Calls /\ Entered \in SUBSET Calls /\ c \in Answered /\ c \notin Entered
  BY <1>1 DEF Answered, Entered
<1>4. Total(Answered, answer) = answer[c] + Total(Answered \ {c}, answer)
  <2>1. (Answered \ {c}) \cup {c} = Answered
    BY <1>3
  <2> QED
    BY <1>2, <1>3, <2>1, TotalOfOneMore
<1>5. Total(Entered \cup {c}, answer) = answer[c] + Total(Entered, answer)
  BY <1>2, <1>3, TotalOfOneMore
<1>6. /\ Total(Answered, answer) \in Nat /\ Total(Answered \ {c}, answer) \in Nat
      /\ Total(Entered, answer) \in Nat
  BY <1>3, TotalType
<1>7. /\ Total(Answered, answer)' = Total(Answered', answer')
      /\ Total(Entered, answer)' = Total(Entered', answer')
  BY DEF Total, TokensOf
<1>8. CASE /\ call' = [call EXCEPT ![c] = "entered"]
           /\ entered' = entered + answer[c] /\ UNCHANGED <<answer, faults>>
  <2>1. Answered' = Answered \ {c} /\ Entered' = Entered \cup {c}
    BY <1>3, <1>8, LedgerMoves DEF LedgerInvariant
  <2>2. Covered'
    <3> SUFFICES ASSUME NEW p \in Periods
                 PROVE  agent'.used[p] + Total(Entered', answer') <= entered'
      BY <1>7 DEF Covered
    <3>1. agent.used[p] + Total(Entered, answer) <= entered /\ agent.used[p] \in Nat
      BY DEF LedgerInvariant, TypeOK, Covered
    <3> QED
      BY <1>1, <1>2, <1>5, <1>6, <1>8, <2>1, <3>1, BoundsAssumption DEF LedgerInvariant, TypeOK
  <2>3. Missed'
    BY <1>1, <1>2, <1>4, <1>6, <1>7, <1>8, <2>1, BoundsAssumption DEF LedgerInvariant, TypeOK, Missed
  <2> QED
    BY <2>2, <2>3
<1>9. CASE /\ call' = [call EXCEPT ![c] = "idle"]
           /\ answer' = [answer EXCEPT ![c] = 0]
           /\ faults' = faults + 1 /\ entered' = entered
  <2>1. Entered' = Entered
    <3>1. TypeOK
      BY DEF LedgerInvariant
    <3>2. Entered' = Entered \ {c}
      BY <1>9, <3>1 DEF TypeOK, Entered
    <3> QED
      BY <1>3, <3>2
  <2>2. Total(Entered, answer') = Total(Entered, answer)
    BY <1>2, <1>3, <1>9, TotalSame DEF Answers
  <2>3. Covered'
    BY <1>1, <1>7, <1>9, <2>1, <2>2 DEF LedgerInvariant, Covered
  <2>4. Missed'
    BY <1>9 DEF LedgerInvariant, TypeOK, Missed
  <2> QED
    BY <2>3, <2>4
<1> QED
  BY <1>8, <1>9 DEF RecordUsage, Pass, Fault, history, bounds

LEMMA LedgerCharge ==
  ASSUME LedgerInvariant, TypeOK', NEW c \in Calls, IncrementUsage(c)
  PROVE  Covered' /\ Missed'
<1>1. /\ call[c] = "entered" /\ call' = [call EXCEPT ![c] = "idle"]
      /\ answer' = [answer EXCEPT ![c] = 0]
      /\ UNCHANGED <<entered, spent, taskSpent>>
      /\ faults' = faults \/ faults' = faults + 1
  BY DEF IncrementUsage, Fault, bounds
<1>2. answer \in Answers /\ answer[c] \in 0 .. MaxTokens
  BY DEF LedgerInvariant, TypeOK, Answers
<1>3. Answered \in SUBSET Calls /\ Entered \in SUBSET Calls /\ c \notin Answered /\ c \in Entered
  BY <1>1 DEF Answered, Entered
<1>4. Answered' = Answered /\ Entered' = Entered \ {c}
  <2>1. TypeOK
    BY DEF LedgerInvariant
  <2>2. Answered' = Answered \ {c} /\ Entered' = Entered \ {c}
    BY <1>1, <2>1 DEF TypeOK, Answered, Entered
  <2> QED
    BY <1>3, <2>2
<1>5. Total(Entered, answer) = answer[c] + Total(Entered \ {c}, answer)
  <2>1. (Entered \ {c}) \cup {c} = Entered
    BY <1>3
  <2> QED
    BY <1>2, <1>3, <2>1, TotalOfOneMore
<1>6. /\ Total(Answered, answer') = Total(Answered, answer)
      /\ Total(Entered \ {c}, answer') = Total(Entered \ {c}, answer)
  BY <1>1, <1>2, <1>3, TotalSame DEF Answers
<1>7. /\ Total(Answered, answer) \in Nat /\ Total(Entered \ {c}, answer) \in Nat
      /\ Total(Entered, answer) \in Nat
  BY <1>3, TotalType
<1>8. /\ Total(Answered, answer)' = Total(Answered', answer')
      /\ Total(Entered, answer)' = Total(Entered', answer')
  BY DEF Total, TokensOf
<1>9. \A p \in Periods : agent'.used[p] \in {agent.used[p], agent.used[p] + answer[c]}
  BY DEF IncrementUsage, Charge, LedgerInvariant, TypeOK
<1>10. Covered'
  <2> SUFFICES ASSUME NEW p \in Periods
               PROVE  agent'.used[p] + Total(Entered', answer') <= entered'
    BY <1>8 DEF Covered
  <2>1. agent.used[p] + Total(Entered, answer) <= entered /\ agent.used[p] \in Nat
    BY DEF LedgerInvariant, TypeOK, Covered
  <2> QED
    BY <1>1, <1>2, <1>4, <1>5, <1>6, <1>7, <1>9, <2>1, BoundsAssumption DEF LedgerInvariant, TypeOK
<1>11. Missed'
  BY <1>1, <1>4, <1>6, <1>7, <1>8 DEF LedgerInvariant, TypeOK, Missed
<1> QED
  BY <1>10, <1>11

LEMMA LedgerStep ==
  ASSUME LedgerInvariant, TypeOK', [Next]_vars
  PROVE  Covered' /\ Missed'
<1> USE DEF LedgerInvariant
<1>0. (\A p \in Periods : agent.used[p] \in Nat) /\ {entered, spent, taskSpent, faults} \subseteq Nat
  BY DEF TypeOK
<1>1. ASSUME NEW c \in Calls, ReadFeature(c) \/ ReadAgent(c) \/ CheckBudget(c) \/ NoConnector(c)
      PROVE  Covered' /\ Missed'
  <2>1. UNCHANGED <<agent, answer, entered, spent, taskSpent, faults>>
    BY <1>1 DEF ReadFeature, ReadAgent, CheckBudget, NoConnector, Pass, config, history, bounds
  <2>2. PICK from, to \in {"idle", "featured", "admitted", "asking"} : Pass(c, from, to)
    BY <1>1 DEF ReadFeature, ReadAgent, CheckBudget, NoConnector
  <2>3. Answered' = Answered /\ Entered' = Entered
    BY <2>2, LedgerMoves DEF Pass, Answered, Entered
  <2> QED
    BY <1>0, <2>1, <2>3, LedgerAside
<1>2. ASSUME NEW t \in Tasks, CheckDispatch(t) \/ EnqueueTask(t) \/ RunAgentTask(t)
      PROVE  Covered' /\ Missed'
  <2>1. UNCHANGED <<agent, call, answer, entered, faults>>
    BY <1>2 DEF CheckDispatch, EnqueueTask, RunAgentTask, Dispatch, config, requests, bounds
  <2>2. \/ UNCHANGED <<spent, taskSpent>>
        \/ \E n \in 1 .. MaxTokens : spent' = spent + n /\ taskSpent' = taskSpent + n
    BY <1>2 DEF CheckDispatch, EnqueueTask, RunAgentTask
  <2>3. spent' - taskSpent' = spent - taskSpent
    BY <1>0, <2>2, BoundsAssumption
  <2>4. Answered' = Answered /\ Entered' = Entered
    BY <2>1 DEF Answered, Entered
  <2> QED
    BY <1>0, <2>1, <2>3, <2>4, LedgerAside
<1>3. CASE ToggleAgent \/ UpdateAgentConfig \/ ResetUsage \/ UpdateFeature
           \/ NewHour \/ NewMonth \/ UNCHANGED vars
  <2>1. UNCHANGED <<call, answer, entered, spent, taskSpent, faults>>
    BY <1>3 DEF ToggleAgent, UpdateAgentConfig, ResetUsage, UpdateFeature, NewHour, NewMonth,
       Write, vars, requests, history, bounds
  <2>2. Answered' = Answered /\ Entered' = Entered
    BY <2>1 DEF Answered, Entered
  <2>3. CASE ResetUsage
    <3>1. PICK p \in Periods : agent' = [agent EXCEPT !.used[p] = 0]
      BY <2>3 DEF ResetUsage, ResetUsageTo
    <3>2. agent'.used = [agent.used EXCEPT ![p] = 0]
      BY <3>1 DEF TypeOK
    <3>3. \A q \in Periods : agent'.used[q] <= agent.used[q]
      BY <1>0, <3>2 DEF TypeOK
    <3> QED
      BY <1>0, <2>1, <2>2, <3>3, LedgerAside
  <2>4. CASE ~ResetUsage
    <3>1. agent'.used = agent.used
      <4>1. CASE UpdateAgentConfig
        <5>1. PICK p \in Periods, limit \in Limits : agent' = [agent EXCEPT !.limit[p] = limit]
          BY <4>1 DEF UpdateAgentConfig
        <5> QED
          BY <5>1 DEF TypeOK
      <4>2. CASE ToggleAgent
        BY <4>2 DEF ToggleAgent, TypeOK
      <4>3. CASE UpdateFeature \/ NewHour \/ NewMonth \/ UNCHANGED vars
        BY <4>3 DEF UpdateFeature, NewHour, NewMonth, vars, config
      <4> QED
        BY <1>3, <2>4, <4>1, <4>2, <4>3
    <3> QED
      BY <1>0, <2>1, <2>2, <3>1, LedgerAside
  <2> QED
    BY <2>3, <2>4
<1> QED
  BY <1>1, <1>2, <1>3, LedgerAnswer, LedgerRecord, LedgerCharge DEF Next

(* Nothing is charged to the agent that is not in the ledger, and without a failed write the
   ledger lacks nothing but the tokens of dispatched tasks and those on their way. *)
THEOREM LedgerIsComplete == Spec => []LedgerCovers
<1>1. Init => Covered /\ Missed
  <2> SUFFICES ASSUME Init PROVE Covered /\ Missed
    OBVIOUS
  <2>1. Answered = {} /\ Entered = {}
    BY DEF Init, Answered, Entered
  <2>2. Total(Answered, answer) = 0 /\ Total(Entered, answer) = 0
    BY <2>1, TotalOfNone
  <2>3. \A p \in Periods : agent.used[p] = 0
    BY DEF Init
  <2> QED
    BY <2>2, <2>3 DEF Init, Covered, Missed
<1>2. LedgerInvariant /\ TypeOK' /\ [Next]_vars => LedgerInvariant'
  BY LedgerStep DEF LedgerInvariant
<1>3. QuotaInvariant => TypeOK
  BY DEF QuotaInvariant
<1>4. LedgerInvariant => LedgerCovers
  <2> SUFFICES ASSUME LedgerInvariant PROVE LedgerCovers
    OBVIOUS
  <2>1. Total(Entered, answer) \in Nat
    BY TotalType DEF Entered
  <2>2. \A p \in Periods : agent.used[p] <= entered
    BY <2>1 DEF LedgerInvariant, TypeOK, Covered
  <2>3. ASSUME faults = 0, \A c \in Calls : call[c] # "answered"
        PROVE  spent = entered + taskSpent
    <3>1. Answered = {}
      BY <2>3 DEF Answered
    <3>2. Total(Answered, answer) = 0
      BY <3>1, TotalOfNone
    <3> QED
      BY <2>3, <3>2 DEF LedgerInvariant, TypeOK, Missed
  <2> QED
    BY <2>2, <2>3 DEF LedgerCovers
<1>5. LedgerInvariant <=> TypeOK /\ Covered /\ Missed
  BY DEF LedgerInvariant
<1> QED
  BY <1>1, <1>2, <1>3, <1>4, <1>5, TypeInit, Invariant, PTL DEF Spec
=============================================================================
