--------------------------- MODULE Tasks_proofs ---------------------------
(***************************************************************************)
(* Theorems about Tasks, for any number of tasks, attempts, retries and    *)
(* faults.  Everything follows from one invariant, which is about each     *)
(* task on its own.                                                        *)
(***************************************************************************)
EXTENDS Tasks, TLAPS

Mishaps == {"crash", "call", "unsaved", "rerun"}
Phases == {"none", "begun", "working", "answered", "saved", "failing", "returned",
           "threw"}

(* The part of TypeOK that the first invariant needs: it does not bound the number of handlers
   started, which StartsInvariant does. *)
Types ==
  /\ row \in [Jobs -> Contract!Rows] /\ handler \in [Jobs -> SUBSET Nat]
  /\ kind \in [Jobs -> {"user", "system", "report"}]
  /\ record \in [Jobs -> [Records -> Status]]
  /\ edited \in [Jobs -> BOOLEAN] /\ gone \in [Jobs -> BOOLEAN]
  /\ step \in [Jobs -> Phases]
  /\ starts \in [Jobs -> Nat] /\ totals \in [Jobs -> Nat]
  /\ mishaps \in [Jobs -> SUBSET Mishaps]

(* A handler runs exactly while it has a step to take, its row is RUNNING, and a row that is
   RUNNING without one has lost it in a crash. *)
AtWork(j) ==
  /\ handler[j] # {} <=> step[j] # "none"
  /\ handler[j] # {} => row[j] = "running"
  /\ row[j] = "running" /\ handler[j] = {} => "crash" \in mishaps[j]

(* Which records there are: the first one of a shared task, as soon as there is a job, those of
   the handlers started of a task of the system, and none once they were deleted.  Only those of
   shared tasks are ever edited. *)
InPlace(j) ==
  /\ Shared(j) => \A i \in Records : i # 1 => record[j][i] = "none"
  /\ Shared(j) /\ row[j] # "absent" => record[j][1] # "none"
  /\ ~Shared(j) => \A i \in Records : i > starts[j] => record[j][i] = "none"
  /\ gone[j] => \A i \in Records : record[j][i] \in {"none", "deleted"}
  /\ gone[j] /\ Shared(j) => record[j][1] = "deleted"
  /\ edited[j] = TRUE => Shared(j)

(* What the steps of a handler tell of the record it writes. *)
Written(j) ==
  /\ Shared(j) /\ (step[j] \in {"saved", "returned"} \/ row[j] = "completed") =>
       record[j][1] \in {"completed", "deleted"} \/ edited[j] = TRUE
  /\ step[j] \in {"saved", "returned", "threw"} /\ Own(j) \in Records
       /\ record[j][Own(j)] = "running" =>
       "call" \in mishaps[j] \/ edited[j] = TRUE
  /\ ~Shared(j) /\ starts[j] \in Records
       /\ step[j] \in {"begun", "working", "answered", "failing"} =>
       record[j][starts[j]] \notin {"completed", "failed"}

(* NoSilentOrphan of one task. *)
NotOrphaned(j) ==
  \A i \in Records :
    record[j][i] = "running" =>
      \/ handler[j] # {} /\ i = Own(j)
      \/ Shared(j) /\ row[j] \in {"absent", "waiting", "cancelled"}
      \/ "crash" \in mishaps[j] \/ "call" \in mishaps[j] \/ edited[j] = TRUE

(* A report is not counted.  Without a mishap that runs a saved task again, it is counted when its
   handler is about to return, or has. *)
Counted(j) ==
  /\ kind[j] = "report" => totals[j] = 0
  /\ (\A m \in {"crash", "unsaved", "rerun"} : m \notin mishaps[j]) /\ totals[j] > 0 =>
       totals[j] = 1 /\ (step[j] \in {"saved", "returned"} \/ row[j] = "completed")

TaskOK(j) == AtWork(j) /\ InPlace(j) /\ Written(j) /\ NotOrphaned(j) /\ Counted(j)

TaskInvariant == Types /\ \A j \in Jobs : TaskOK(j)
----------------------------------------------------------------------------
LEMMA FirstRecord == 1 \in Records
<1>1. MaxAttempts * (1 + MaxRetries) >= 1
  <2> DEFINE m == 1 + MaxRetries
  <2>1. m \in Nat /\ m >= 1 BY BoundsAssumption
  <2>2. MaxAttempts * m = m + (MaxAttempts - 1) * m BY <2>1, BoundsAssumption
  <2>3. (MaxAttempts - 1) * m \in Nat BY <2>1, BoundsAssumption
  <2> QED BY <2>1, <2>2, <2>3
<1>2. MaxStarts \in Nat /\ MaxStarts >= 1 BY <1>1, BoundsAssumption DEF MaxStarts
<1> QED BY <1>2 DEF Records

(* A step of one task leaves the others as they are. *)
Same(k) ==
  /\ row'[k] = row[k] /\ handler'[k] = handler[k] /\ kind'[k] = kind[k]
  /\ record'[k] = record[k] /\ edited'[k] = edited[k] /\ gone'[k] = gone[k]
  /\ step'[k] = step[k]
  /\ starts'[k] = starts[k] /\ totals'[k] = totals[k] /\ mishaps'[k] = mishaps[k]

LEMMA Elsewhere == ASSUME NEW k \in Jobs, TaskOK(k), Same(k) PROVE TaskOK(k)'
BY DEF TaskOK, Same, AtWork, InPlace, Written, NotOrphaned, Counted, Shared, Own

LEMMA OneTask ==
  ASSUME TaskInvariant, NEW j \in Jobs, Types', \A k \in Jobs \ {j} : Same(k),
         AtWork(j)', InPlace(j)', Written(j)', NotOrphaned(j)', Counted(j)'
  PROVE  TaskInvariant'
<1>1. TaskOK(j)' BY DEF TaskOK
<1> QED BY <1>1, Elsewhere DEF TaskInvariant

(* What Write does to a record that may be there or not. *)
LEMMA Wrote ==
  ASSUME Types, NEW j \in Jobs, NEW v \in Status, Write(j, v)
  PROVE  /\ record' \in [Jobs -> [Records -> Status]] /\ edited' \in [Jobs -> BOOLEAN]
         /\ \A k \in Jobs \ {j} : record'[k] = record[k] /\ edited'[k] = edited[k]
         /\ \A i \in Records : i # Own(j) => record'[j][i] = record[j][i]
         /\ Own(j) \in Records =>
              record'[j][Own(j)] = IF record[j][Own(j)] \in {"none", "deleted"}
                                   THEN record[j][Own(j)] ELSE v
<1> USE DEF Types
<1>1. CASE ~There(j)
  BY <1>1 DEF Write, There, records
<1>2. CASE There(j)
  <2>1. record' = [record EXCEPT ![j][Own(j)] = v] /\ edited' = [edited EXCEPT ![j] = FALSE]
    BY <1>2 DEF Write
  <2>2. record'[j] = [record[j] EXCEPT ![Own(j)] = v]
    BY <2>1
  <2> QED
    BY <1>2, <2>1, <2>2 DEF There
<1> QED
  BY <1>1, <1>2

LEMMA StaysInPlace ==
  ASSUME Types, NEW j \in Jobs, InPlace(j), UNCHANGED <<row, kind, gone, starts>>,
         \/ UNCHANGED records
         \/ Write(j, "completed") \/ Write(j, "failed")
  PROVE  InPlace(j)'
<1>1. CASE UNCHANGED records
  BY <1>1 DEF InPlace, Shared, records
<1>2. ASSUME NEW v \in {"completed", "failed"}, Write(j, v) PROVE InPlace(j)'
  <2>1. CASE ~There(j)
    BY <1>1, <1>2, <2>1 DEF Write
  <2>2. CASE There(j)
    <3>1. record' = [record EXCEPT ![j][Own(j)] = v] /\ edited' = [edited EXCEPT ![j] = FALSE]
      BY <1>2, <2>2 DEF Write
    <3>2. \A i \in Records : record'[j][i] # record[j][i] =>
            i = Own(j) /\ record[j][i] \notin {"none", "deleted"} /\ record'[j][i] = v
      BY <2>2, <3>1 DEF Types, There
    <3>3. edited'[j] = TRUE => edited[j] = TRUE
      BY <3>1 DEF Types
    <3> QED
      BY <3>2, <3>3, FirstRecord DEF InPlace, Shared, Types
  <2> QED
    BY <2>1, <2>2
<1> QED
  BY <1>1, <1>2
----------------------------------------------------------------------------
LEMMA CreateRecordStep ==
  ASSUME TaskInvariant, NEW j \in Jobs, CreateRecord(j)
  PROVE  TaskInvariant'
<1> USE FirstRecord DEF TaskInvariant, TaskOK, Types, records, CreateRecord, job, bounds
<1>1. Types' BY DEF Status, Values, Phases, Mishaps, Own
<1>2. \A k \in Jobs \ {j} : Same(k) BY DEF Same, Own
<1>3. AtWork(j)' BY DEF AtWork, Phases
<1>4. InPlace(j)' BY DEF InPlace, AtWork, Shared, Own
<1>5. Written(j)' BY DEF Written, InPlace, AtWork, Shared, Own
<1>6. NotOrphaned(j)' BY DEF NotOrphaned, Written, InPlace, AtWork, Shared, Own
<1>7. Counted(j)' BY DEF Counted, AtWork
<1> QED BY <1>1, <1>2, <1>3, <1>4, <1>5, <1>6, <1>7, OneTask

LEMMA EnqueueTaskStep ==
  ASSUME TaskInvariant, NEW j \in Jobs, EnqueueTask(j)
  PROVE  TaskInvariant'
<1> USE FirstRecord DEF TaskInvariant, TaskOK, Types, records, EnqueueTask, bounds,
    Contract!Enqueue, Contract!Set, Contract!Rows
<1>1. Types' BY DEF Status, Values, Phases, Mishaps, Own
<1>2. \A k \in Jobs \ {j} : Same(k) BY DEF Same, Own
<1>3. AtWork(j)' BY DEF AtWork, Phases
<1>4. InPlace(j)' BY DEF InPlace, AtWork, Shared, Own
<1>5. Written(j)' BY DEF Written, InPlace, AtWork, Shared, Own
<1>6. NotOrphaned(j)' BY DEF NotOrphaned, Written, InPlace, AtWork, Shared, Own
<1>7. Counted(j)' BY DEF Counted, AtWork
<1> QED BY <1>1, <1>2, <1>3, <1>4, <1>5, <1>6, <1>7, OneTask

LEMMA DeleteStep == ASSUME TaskInvariant, NEW j \in Jobs, Delete(j) PROVE TaskInvariant'
<1> USE FirstRecord DEF TaskInvariant, TaskOK, Types, records, Delete, job, bounds
<1>1. Types' BY DEF Status, Values, Phases, Mishaps, Own
<1>2. \A k \in Jobs \ {j} : Same(k) BY DEF Same, Own
<1>3. AtWork(j)' BY DEF AtWork, Phases
<1>4. InPlace(j)' BY DEF InPlace, AtWork, Shared, Own
<1>5. Written(j)' BY DEF Written, InPlace, AtWork, Shared, Own
<1>6. NotOrphaned(j)' BY DEF NotOrphaned, Written, InPlace, AtWork, Shared, Own
<1>7. Counted(j)' BY DEF Counted, AtWork
<1> QED BY <1>1, <1>2, <1>3, <1>4, <1>5, <1>6, <1>7, OneTask

LEMMA UpdateReportStep ==
  ASSUME TaskInvariant, NEW j \in Jobs, UpdateReport(j)
  PROVE  TaskInvariant'
<1> USE FirstRecord DEF TaskInvariant, TaskOK, Types, records, UpdateReport, Values, job, bounds
<1>1. Types' BY DEF Status, Phases, Mishaps, Own
<1>2. \A k \in Jobs \ {j} : Same(k) BY DEF Same, Own
<1>3. AtWork(j)' BY DEF AtWork, Phases
<1>4. InPlace(j)' BY DEF InPlace, AtWork, Shared, Own
<1>5. Written(j)' BY DEF Written, InPlace, AtWork, Shared, Own
<1>6. NotOrphaned(j)' BY DEF NotOrphaned, Written, InPlace, AtWork, Shared, Own
<1>7. Counted(j)' BY DEF Counted, AtWork
<1> QED BY <1>1, <1>2, <1>3, <1>4, <1>5, <1>6, <1>7, OneTask

LEMMA CancelJobStep == ASSUME TaskInvariant, NEW j \in Jobs, CancelJob(j) PROVE TaskInvariant'
<1> USE FirstRecord DEF TaskInvariant, TaskOK, Types, records, CancelJob, bounds, Contract!Cancel,
    Contract!Set, Contract!Rows
<1>1. Types' BY DEF Status, Values, Phases, Mishaps, Own
<1>2. \A k \in Jobs \ {j} : Same(k) BY DEF Same, Own
<1>3. AtWork(j)' BY DEF AtWork, Phases
<1>4. InPlace(j)' BY DEF InPlace, AtWork, Shared, Own
<1>5. Written(j)' BY DEF Written, InPlace, AtWork, Shared, Own
<1>6. NotOrphaned(j)' BY DEF NotOrphaned, Written, InPlace, AtWork, Shared, Own
<1>7. Counted(j)' BY DEF Counted, AtWork
<1> QED BY <1>1, <1>2, <1>3, <1>4, <1>5, <1>6, <1>7, OneTask

LEMMA RetryJobStep == ASSUME TaskInvariant, NEW j \in Jobs, RetryJob(j) PROVE TaskInvariant'
<1> USE FirstRecord DEF TaskInvariant, TaskOK, Types, records, RetryJob, Contract!Retry,
    Contract!Set, Contract!Rows
<1>1. Types' BY DEF Status, Values, Phases, Mishaps, Own
<1>2. \A k \in Jobs \ {j} : Same(k) BY DEF Same, Own
<1>3. AtWork(j)' BY DEF AtWork, Phases
<1>4. InPlace(j)' BY DEF InPlace, AtWork, Shared, Own
<1>5. Written(j)' BY DEF Written, InPlace, AtWork, Shared, Own
<1>6. NotOrphaned(j)' BY DEF NotOrphaned, Written, InPlace, AtWork, Shared, Own
<1>7. Counted(j)' BY DEF Counted, AtWork
<1> QED BY <1>1, <1>2, <1>3, <1>4, <1>5, <1>6, <1>7, OneTask

LEMMA StartHandlerStep ==
  ASSUME TaskInvariant, NEW j \in Jobs, StartHandler(j)
  PROVE  TaskInvariant'
<1> USE FirstRecord DEF TaskInvariant, TaskOK, Types, records, StartHandler, Begin, NoFault, bounds,
    Contract!Start, Contract!Set, Contract!Rows, Contract!Unhandled
<1>1. Types' BY DEF Status, Values, Phases, Mishaps, Own
<1>2. \A k \in Jobs \ {j} : Same(k) BY DEF Same, Own
<1>3. AtWork(j)' BY DEF AtWork, Phases
<1>4. InPlace(j)'
  <2>1. /\ step'[j] = "begun" /\ starts'[j] = starts[j] + 1 /\ row[j] # "absent"
        /\ UNCHANGED <<kind, record, edited, gone>>
    OBVIOUS
  <2>2. InPlace(j) /\ starts[j] \in Nat OBVIOUS
  <2> HIDE DEF TaskInvariant, StartHandler, Begin, NoFault, bounds
  <2>3. \A i \in Records : i > starts[j] + 1 => i > starts[j] BY <2>2 DEF Records
  <2> QED BY <2>1, <2>2, <2>3 DEF InPlace, Shared
<1>5. Written(j)'
  <2>1. /\ step'[j] = "begun" /\ starts'[j] = starts[j] + 1 /\ row'[j] = "running"
        /\ UNCHANGED <<kind, record, edited>>
    OBVIOUS
  <2>2. InPlace(j) /\ starts[j] \in Nat OBVIOUS
  <2> HIDE DEF TaskInvariant, StartHandler, Begin, NoFault, bounds
  <2> QED BY <2>1, <2>2 DEF Written, InPlace, Shared
<1>6. NotOrphaned(j)' BY DEF NotOrphaned, Written, InPlace, AtWork, Shared, Own
<1>7. Counted(j)' BY DEF Counted, AtWork
<1> QED BY <1>1, <1>2, <1>3, <1>4, <1>5, <1>6, <1>7, OneTask

LEMMA StartAgainStep == ASSUME TaskInvariant, NEW j \in Jobs, StartAgain(j) PROVE TaskInvariant'
<1> USE FirstRecord DEF TaskInvariant, TaskOK, Types, records, StartAgain, Begin, Fault,
    Contract!Start, Contract!Set, Contract!Rows, Contract!Unhandled
<1>1. Types' BY DEF Status, Values, Phases, Mishaps, Own
<1>2. \A k \in Jobs \ {j} : Same(k) BY DEF Same, Own
<1>3. AtWork(j)' BY DEF AtWork, Phases
<1>4. InPlace(j)'
  <2>1. /\ step'[j] = "begun" /\ starts'[j] = starts[j] + 1 /\ row[j] # "absent"
        /\ UNCHANGED <<kind, record, edited, gone>>
    OBVIOUS
  <2>2. InPlace(j) /\ starts[j] \in Nat OBVIOUS
  <2> HIDE DEF TaskInvariant, StartAgain, Begin, Fault
  <2>3. \A i \in Records : i > starts[j] + 1 => i > starts[j] BY <2>2 DEF Records
  <2> QED BY <2>1, <2>2, <2>3 DEF InPlace, Shared
<1>5. Written(j)'
  <2>1. /\ step'[j] = "begun" /\ starts'[j] = starts[j] + 1 /\ row'[j] = "running"
        /\ UNCHANGED <<kind, record, edited>>
    OBVIOUS
  <2>2. InPlace(j) /\ starts[j] \in Nat OBVIOUS
  <2> HIDE DEF TaskInvariant, StartAgain, Begin, Fault
  <2> QED BY <2>1, <2>2 DEF Written, InPlace, Shared
<1>6. NotOrphaned(j)' BY DEF NotOrphaned, Written, InPlace, AtWork, Shared, Own
<1>7. Counted(j)' BY DEF Counted, AtWork
<1> QED BY <1>1, <1>2, <1>3, <1>4, <1>5, <1>6, <1>7, OneTask

LEMMA PrepareStep == ASSUME TaskInvariant, NEW j \in Jobs, Prepare(j) PROVE TaskInvariant'
<1> USE FirstRecord DEF TaskInvariant, TaskOK, Types, records, Prepare, Steps, Fault, NoFault,
    bounds, job
<1>1. Types'
  <2>1. mishaps' \in [Jobs -> SUBSET Mishaps] BY DEF Mishaps
  <2>2. record' \in [Jobs -> [Records -> Status]] BY DEF Status, Values
  <2>3. step' \in [Jobs -> Phases] BY DEF Phases
  <2> QED BY <2>1, <2>2, <2>3
<1>2. \A k \in Jobs \ {j} : Same(k) BY DEF Same, Own
<1>3. AtWork(j)' BY DEF AtWork, Phases
<1>4. InPlace(j)' BY DEF InPlace, AtWork, Shared, Own
<1>5. Written(j)' BY DEF Written, InPlace, AtWork, Shared, Own
<1>6. NotOrphaned(j)' BY DEF NotOrphaned, Written, InPlace, AtWork, Shared, Own
<1>7. Counted(j)' BY DEF Counted, AtWork
<1> QED BY <1>1, <1>2, <1>3, <1>4, <1>5, <1>6, <1>7, OneTask

LEMMA WorkStep == ASSUME TaskInvariant, NEW j \in Jobs, Work(j) PROVE TaskInvariant'
<1> USE FirstRecord DEF TaskInvariant, TaskOK, Types, records, Work, Steps, NoFault, bounds, job
<1>1. Types' BY DEF Status, Values, Phases, Mishaps, Own
<1>2. \A k \in Jobs \ {j} : Same(k) BY DEF Same, Own
<1>3. AtWork(j)' BY DEF AtWork, Phases
<1>4. InPlace(j)' BY DEF InPlace, AtWork, Shared, Own
<1>5. Written(j)' BY DEF Written, InPlace, AtWork, Shared, Own
<1>6. NotOrphaned(j)' BY DEF NotOrphaned, Written, InPlace, AtWork, Shared, Own
<1>7. Counted(j)' BY DEF Counted, AtWork
<1> QED BY <1>1, <1>2, <1>3, <1>4, <1>5, <1>6, <1>7, OneTask

LEMMA SaveResultStep == ASSUME TaskInvariant, NEW j \in Jobs, SaveResult(j) PROVE TaskInvariant'
<1> USE FirstRecord DEF TaskInvariant, TaskOK, Types, records, SaveResult, Steps, Write, There,
    Fault, NoFault, bounds, job
<1>1. Types'
  <2>1. mishaps' \in [Jobs -> SUBSET Mishaps] BY DEF Mishaps
  <2>2. record' \in [Jobs -> [Records -> Status]] /\ edited' \in [Jobs -> BOOLEAN]
    <3>1. CASE UNCHANGED records BY <3>1
    <3>2. CASE Write(j, "completed") BY <3>2, Wrote DEF Status, Values
    <3> QED BY <3>1, <3>2
  <2>3. step' \in [Jobs -> Phases] BY DEF Phases
  <2>4. totals' \in [Jobs -> Nat] OBVIOUS
  <2> QED BY <2>1, <2>2, <2>3, <2>4
<1>2. \A k \in Jobs \ {j} : Same(k) BY DEF Same, Own
<1>3. AtWork(j)' BY DEF AtWork, Phases
<1>4. InPlace(j)'
  <2>1. UNCHANGED <<row, kind, gone, starts>> /\ Types /\ InPlace(j) OBVIOUS
  <2>2. UNCHANGED records \/ Write(j, "completed") OBVIOUS
  <2> HIDE DEF TaskInvariant, Types, SaveResult, Write
  <2> QED BY <2>1, <2>2, StaysInPlace
<1>5. Written(j)'
  <2>1. step'[j] = "saved" \/ (step'[j] = "failing" /\ Shared(j)) BY DEF Shared
  <2> QED BY <2>1 DEF Written, InPlace, AtWork, Shared, Own
<1>6. NotOrphaned(j)' BY DEF NotOrphaned, Written, InPlace, AtWork, Shared, Own
<1>7. Counted(j)' BY DEF Counted, AtWork
<1> QED BY <1>1, <1>2, <1>3, <1>4, <1>5, <1>6, <1>7, OneTask

LEMMA AfterSaveStep == ASSUME TaskInvariant, NEW j \in Jobs, AfterSave(j) PROVE TaskInvariant'
<1> USE FirstRecord DEF TaskInvariant, TaskOK, Types, records, AfterSave, Steps, Fault, NoFault,
    bounds, job
<1>1. Types'
  <2>1. mishaps' \in [Jobs -> SUBSET Mishaps] BY DEF Mishaps
  <2>2. step' \in [Jobs -> Phases] BY DEF Phases
  <2> QED BY <2>1, <2>2
<1>2. \A k \in Jobs \ {j} : Same(k) BY DEF Same, Own
<1>3. AtWork(j)' BY DEF AtWork, Phases
<1>4. InPlace(j)' BY DEF InPlace, AtWork, Shared, Own
<1>5. Written(j)' BY DEF Written, InPlace, AtWork, Shared, Own
<1>6. NotOrphaned(j)' BY DEF NotOrphaned, Written, InPlace, AtWork, Shared, Own
<1>7. Counted(j)' BY DEF Counted, AtWork
<1> QED BY <1>1, <1>2, <1>3, <1>4, <1>5, <1>6, <1>7, OneTask

LEMMA SaveFailureStep ==
  ASSUME TaskInvariant, NEW j \in Jobs, SaveFailure(j)
  PROVE  TaskInvariant'
<1> USE FirstRecord DEF TaskInvariant, TaskOK, Types, records, SaveFailure, Steps, Write, Fault,
    NoFault, bounds, job
<1>1. Types'
  <2>1. mishaps' \in [Jobs -> SUBSET Mishaps] BY DEF Mishaps
  <2>2. record' \in [Jobs -> [Records -> Status]] /\ edited' \in [Jobs -> BOOLEAN]
    <3>1. CASE UNCHANGED records BY <3>1
    <3>2. CASE Write(j, "failed") BY <3>2, Wrote DEF Status, Values
    <3> QED BY <3>1, <3>2
  <2>3. step' \in [Jobs -> Phases] BY DEF Phases
  <2> QED BY <2>1, <2>2, <2>3
<1>2. \A k \in Jobs \ {j} : Same(k) BY DEF Same, Own
<1>3. AtWork(j)' BY DEF AtWork, Phases
<1>4. InPlace(j)'
  <2>1. UNCHANGED <<row, kind, gone, starts>> /\ Types /\ InPlace(j) OBVIOUS
  <2>2. UNCHANGED records \/ Write(j, "failed") OBVIOUS
  <2> HIDE DEF TaskInvariant, Types, SaveFailure, Write
  <2> QED BY <2>1, <2>2, StaysInPlace
<1>5. Written(j)'
  <2>1. step'[j] = "threw" /\ row'[j] # "completed" BY DEF AtWork
  <2>2. CASE UNCHANGED records /\ "call" \in mishaps'[j]
    BY <2>1, <2>2 DEF Written, Shared, Own
  <2>3. CASE Write(j, "failed")
    <3>1. Own(j)' = Own(j) BY DEF Own, Shared
    <3>2. Own(j) \in Records => record'[j][Own(j)] # "running"
      <4> HIDE DEF TaskInvariant, Types, SaveFailure, Write, There
      <4>1. Types /\ "failed" \in Status BY DEF TaskInvariant, Status, Values
      <4> QED BY <2>3, <4>1, Wrote
    <3> QED BY <2>1, <3>1, <3>2 DEF Written, Shared
  <2> QED BY <2>2, <2>3
<1>6. NotOrphaned(j)' BY DEF NotOrphaned, Written, InPlace, AtWork, Shared, Own
<1>7. Counted(j)' BY DEF Counted, AtWork
<1> QED BY <1>1, <1>2, <1>3, <1>4, <1>5, <1>6, <1>7, OneTask

LEMMA HandlerReturnsStep ==
  ASSUME TaskInvariant, NEW j \in Jobs, HandlerReturns(j)
  PROVE  TaskInvariant'
<1> USE FirstRecord DEF TaskInvariant, TaskOK, Types, records, HandlerReturns, Ended, NoFault,
    bounds, Contract!Finish, Contract!Set, Contract!Rows, Contract!Unhandled
<1>1. Types' BY DEF Status, Values, Phases, Mishaps, Own
<1>2. \A k \in Jobs \ {j} : Same(k) BY DEF Same, Own
<1>3. AtWork(j)' BY DEF AtWork, Phases
<1>4. InPlace(j)' BY DEF InPlace, AtWork, Shared, Own
<1>5. Written(j)' BY DEF Written, InPlace, AtWork, Shared, Own
<1>6. NotOrphaned(j)' BY DEF NotOrphaned, Written, InPlace, AtWork, Shared, Own
<1>7. Counted(j)' BY DEF Counted, AtWork
<1> QED BY <1>1, <1>2, <1>3, <1>4, <1>5, <1>6, <1>7, OneTask

LEMMA HandlerFailsStep ==
  ASSUME TaskInvariant, NEW j \in Jobs, HandlerFails(j)
  PROVE  TaskInvariant'
<1> USE FirstRecord DEF TaskInvariant, TaskOK, Types, records, HandlerFails, Ended, Fault, NoFault,
    bounds, Contract!Finish, Contract!Set, Contract!Rows, Contract!Unhandled
<1>1. Types'
  <2>1. mishaps' \in [Jobs -> SUBSET Mishaps] BY DEF Mishaps
  <2>2. row' \in [Jobs -> Contract!Rows] /\ handler' \in [Jobs -> SUBSET Nat] OBVIOUS
  <2>3. step' \in [Jobs -> Phases] BY DEF Phases
  <2> QED BY <2>1, <2>2, <2>3
<1>2. \A k \in Jobs \ {j} : Same(k) BY DEF Same, Own
<1>3. AtWork(j)' BY DEF AtWork, Phases
<1>4. InPlace(j)' BY DEF InPlace, AtWork, Shared, Own
<1>5. Written(j)' BY DEF Written, InPlace, AtWork, Shared, Own
<1>6. NotOrphaned(j)' BY DEF NotOrphaned, Written, InPlace, AtWork, Shared, Own
<1>7. Counted(j)' BY DEF Counted, AtWork
<1> QED BY <1>1, <1>2, <1>3, <1>4, <1>5, <1>6, <1>7, OneTask

LEMMA CrashStep == ASSUME TaskInvariant, NEW j \in Jobs, Crash(j) PROVE TaskInvariant'
<1> USE FirstRecord DEF TaskInvariant, TaskOK, Types, records, Crash, Ended, Fault, Contract!Lose,
    Contract!Set
<1>1. Types' BY DEF Status, Values, Phases, Mishaps, Own
<1>2. \A k \in Jobs \ {j} : Same(k) BY DEF Same, Own
<1>3. AtWork(j)' BY DEF AtWork, Phases
<1>4. InPlace(j)' BY DEF InPlace, AtWork, Shared, Own
<1>5. Written(j)' BY DEF Written, InPlace, AtWork, Shared, Own
<1>6. NotOrphaned(j)' BY DEF NotOrphaned, Written, InPlace, AtWork, Shared, Own
<1>7. Counted(j)' BY DEF Counted, AtWork
<1> QED BY <1>1, <1>2, <1>3, <1>4, <1>5, <1>6, <1>7, OneTask

LEMMA RefuseStep == ASSUME TaskInvariant, NEW j \in Jobs, Refuse(j) PROVE TaskInvariant'
<1> USE FirstRecord DEF TaskInvariant, TaskOK, Types, records, Refuse, Ended, Fault,
    Contract!Refuse, Contract!Set, Contract!Rows, Contract!Unhandled
<1>1. Types' BY DEF Status, Values, Phases, Mishaps, Own
<1>2. \A k \in Jobs \ {j} : Same(k) BY DEF Same, Own
<1>3. AtWork(j)' BY DEF AtWork, Phases
<1>4. InPlace(j)' BY DEF InPlace, AtWork, Shared, Own
<1>5. Written(j)' BY DEF Written, InPlace, AtWork, Shared, Own
<1>6. NotOrphaned(j)' BY DEF NotOrphaned, Written, InPlace, AtWork, Shared, Own
<1>7. Counted(j)' BY DEF Counted, AtWork
<1> QED BY <1>1, <1>2, <1>3, <1>4, <1>5, <1>6, <1>7, OneTask

LEMMA RecoverStep == ASSUME TaskInvariant, NEW j \in Jobs, Recover(j) PROVE TaskInvariant'
<1> USE FirstRecord DEF TaskInvariant, TaskOK, Types, records, Recover, bounds, Contract!Recover,
    Contract!Set, Contract!Rows, Contract!Unhandled
<1>1. Types' BY DEF Status, Values, Phases, Mishaps, Own
<1>2. \A k \in Jobs \ {j} : Same(k) BY DEF Same, Own
<1>3. AtWork(j)' BY DEF AtWork, Phases
<1>4. InPlace(j)' BY DEF InPlace, AtWork, Shared, Own
<1>5. Written(j)' BY DEF Written, InPlace, AtWork, Shared, Own
<1>6. NotOrphaned(j)' BY DEF NotOrphaned, Written, InPlace, AtWork, Shared, Own
<1>7. Counted(j)' BY DEF Counted, AtWork
<1> QED BY <1>1, <1>2, <1>3, <1>4, <1>5, <1>6, <1>7, OneTask
----------------------------------------------------------------------------
LEMMA InitiallyOK == Init => TaskInvariant
<1> SUFFICES ASSUME Init PROVE TaskInvariant OBVIOUS
<1> USE DEF Init, Contract!JobInit
<1>1. Types
  BY DEF Types, Contract!Rows, Status, Phases, Mishaps
<1>2. ASSUME NEW j \in Jobs PROVE TaskOK(j)
  BY FirstRecord DEF TaskOK, AtWork, InPlace, Written, NotOrphaned, Counted, Own
<1> QED
  BY <1>1, <1>2 DEF TaskInvariant

LEMMA StepOK == TaskInvariant /\ [Next]_vars => TaskInvariant'
<1> SUFFICES ASSUME TaskInvariant, [Next]_vars PROVE TaskInvariant' OBVIOUS
<1>1. CASE UNCHANGED vars
  <2>1. UNCHANGED <<row, handler, kind, record, edited, gone, step, starts, totals, mishaps>>
    BY <1>1 DEF vars, job, records
  <2>2. Types'
    BY <2>1 DEF TaskInvariant, Types
  <2>3. \A j \in Jobs : Same(j)
    BY <2>1 DEF Same
  <2> QED
    BY <2>2, <2>3, Elsewhere DEF TaskInvariant
<1>2. CASE Next
  <2>1. PICK j \in Jobs :
          \/ CreateRecord(j) \/ EnqueueTask(j) \/ Delete(j) \/ UpdateReport(j)
          \/ CancelJob(j) \/ RetryJob(j) \/ StartHandler(j) \/ StartAgain(j) \/ HandlerStep(j)
          \/ Crash(j) \/ Refuse(j) \/ Recover(j)
    BY <1>2 DEF Next
  <2>2. CASE HandlerStep(j)
    BY <2>2, PrepareStep, WorkStep, SaveResultStep, AfterSaveStep, SaveFailureStep,
       HandlerReturnsStep, HandlerFailsStep DEF HandlerStep
  <2> QED
    BY <2>1, <2>2, CreateRecordStep, EnqueueTaskStep, DeleteStep, UpdateReportStep, CancelJobStep,
       RetryJobStep, StartHandlerStep, StartAgainStep, CrashStep, RefuseStep, RecoverStep
<1> QED
  BY <1>1, <1>2

(* TaskInvariant holds in every state: which records a task has, who is at work on its job, and
   what the step of a handler tells of the record it writes. *)
THEOREM TasksInvariant == Spec => []TaskInvariant
BY InitiallyOK, StepOK, PTL DEF Spec
----------------------------------------------------------------------------
(* A shared task whose job is COMPLETED has its record completed, unless it was deleted or a request
   set the status of the report after its handler did. *)
THEOREM CompletedHasResult == Spec => []CompletedJobHasResult
<1>1. TaskInvariant => CompletedJobHasResult
  BY DEF TaskInvariant, TaskOK, Written, CompletedJobHasResult, Types
<1> QED
  BY <1>1, TasksInvariant, PTL

(* A record is left RUNNING only by a cancelled job, a crash, a failed call, or a request that set
   the status of the report after its handler did. *)
THEOREM OrphansHaveACause == Spec => []NoSilentOrphan
<1>1. TaskInvariant => NoSilentOrphan
  <2> SUFFICES ASSUME TaskInvariant, NEW j \in Jobs, NEW i \in Records,
                      record[j][i] = "running", mishaps[j] \cap {"crash", "call"} = {},
                      ~edited[j]
               PROVE  \/ handler[j] # {} /\ i = Own(j)
                      \/ Shared(j) /\ row[j] \in {"absent", "waiting", "cancelled"}
    BY DEF NoSilentOrphan
  <2>1. "crash" \notin mishaps[j] /\ "call" \notin mishaps[j] /\ edited[j] # TRUE
    OBVIOUS
  <2> QED
    BY <2>1 DEF TaskInvariant, TaskOK, NotOrphaned
<1> QED
  BY <1>1, TasksInvariant, PTL

(* A task is counted twice only after a mishap that runs a saved task again. *)
THEOREM TasksAreCountedOnce == Spec => []CountedOnce
<1>1. TaskInvariant => CountedOnce
  <2> SUFFICES ASSUME TaskInvariant, NEW j \in Jobs, totals[j] > 1,
                      mishaps[j] \cap {"crash", "unsaved", "rerun"} = {}
               PROVE  FALSE
    BY DEF CountedOnce
  <2>1. \A m \in {"crash", "unsaved", "rerun"} : m \notin mishaps[j]
    OBVIOUS
  <2>2. totals[j] \in Nat
    BY DEF TaskInvariant, Types
  <2> QED
    BY <2>1, <2>2 DEF TaskInvariant, TaskOK, Counted
<1> QED
  BY <1>1, TasksInvariant, PTL

(* The session of a run of a task of the system ends once. *)
THEOREM SystemSessionEndsOnce == Spec => SystemResultIsFinal
<1> DEFINE Final ==
      \A j \in Jobs, i \in Records :
        ~Shared(j) /\ record[j][i] \in {"completed", "failed"} =>
          record'[j][i] \in {record[j][i], "deleted"}
<1>1. ASSUME TaskInvariant, Next PROVE Final
  <2>1. PICK j \in Jobs :
          \/ CreateRecord(j) \/ EnqueueTask(j) \/ Delete(j) \/ UpdateReport(j)
          \/ CancelJob(j) \/ RetryJob(j) \/ StartHandler(j) \/ StartAgain(j) \/ HandlerStep(j)
          \/ Crash(j) \/ Refuse(j) \/ Recover(j)
    BY <1>1 DEF Next
  <2> USE <1>1 DEF TaskInvariant, Types
  <2>2. CASE record' = record
    BY <2>2
  <2>3. CASE CreateRecord(j)
    BY <2>3 DEF CreateRecord
  <2>4. CASE Delete(j) \/ UpdateReport(j)
    BY <2>4 DEF Delete, UpdateReport, Shared
  <2>5. ASSUME Prepare(j), record' # record PROVE Final
    <3>1. ~Shared(j) /\ step[j] = "begun" /\ record' = [record EXCEPT ![j][Own(j)] = "running"]
      BY <2>5 DEF Prepare, Steps
    <3>2. Own(j) \in Records => record[j][Own(j)] \notin {"completed", "failed"}
      BY <3>1 DEF TaskOK, Written, Own
    <3> QED
      BY <3>1, <3>2
  <2>6. ASSUME NEW v \in Status, Write(j, v), step[j] \in {"answered", "failing"} PROVE Final
    <3>1. ~Shared(j) => (Own(j) \in Records => record[j][Own(j)] \notin {"completed", "failed"})
      BY <2>6 DEF TaskOK, Written, Own
    <3> QED
      BY <2>6, <3>1, Wrote
  <2>7. CASE SaveResult(j)
    BY <2>2, <2>6, <2>7 DEF SaveResult, Steps, Status, Values, records
  <2>8. CASE SaveFailure(j)
    BY <2>2, <2>6, <2>8 DEF SaveFailure, Steps, Status, Values, records
  <2>9. \/ record' = record \/ CreateRecord(j) \/ Delete(j) \/ UpdateReport(j)
        \/ Prepare(j) \/ SaveResult(j) \/ SaveFailure(j)
    BY <2>1 DEF EnqueueTask, CancelJob, RetryJob, StartHandler, StartAgain, Begin, HandlerStep,
       Work, AfterSave, HandlerReturns, HandlerFails, Ended, Crash, Refuse, Recover, records
  <2> QED
    BY <2>2, <2>3, <2>4, <2>5, <2>7, <2>8, <2>9
<1>2. TaskInvariant /\ [Next]_vars => [Final]_vars
  BY <1>1
<1> QED
  BY <1>2, TasksInvariant, PTL DEF Spec, SystemResultIsFinal
----------------------------------------------------------------------------
(* How many handlers a job can see: at most MaxAttempts for its first round and for each retry of
   an operator, and one more for each fault. *)
Earned(r) == MaxAttempts * r

(* A handler that runs, or has returned, on a row with attempts left has not used its attempt up
   yet: the start it took is paid for by that attempt. *)
Paid(j) ==
  IF attempts[j] < MaxAttempts /\ (handler[j] # {} \/ row[j] = "completed") THEN 1 ELSE 0

(* A row without attempts left that is going to be run again is so by the fault that overtook
   its outcome: that fault pays for one start more. *)
Owed(j) ==
  IF attempts[j] >= MaxAttempts /\ handler[j] = {} /\ row[j] \in {"waiting", "running"}
  THEN 1 ELSE 0

Used(j) == IF attempts[j] <= MaxAttempts THEN attempts[j] ELSE MaxAttempts

StartsCovered(j) ==
  /\ row[j] = "absent" => attempts[j] = 0
  /\ starts[j] + Owed(j) <= Earned(retries) + Used(j) + faults + Paid(j)

StartsInvariant ==
  /\ row \in [Jobs -> Contract!Rows]
  /\ attempts \in [Jobs -> Nat] /\ starts \in [Jobs -> Nat]
  /\ retries \in 0 .. MaxRetries /\ faults \in 0 .. MaxFaults
  /\ handler \in [Jobs -> SUBSET Nat]
  /\ \A j \in Jobs : StartsCovered(j) /\ handler[j] \subseteq 1 .. starts[j]

LEMMA EarnedType ==
  ASSUME NEW r \in 0 .. MaxRetries
  PROVE  /\ Earned(r) \in Nat /\ Earned(r + 1) = Earned(r) + MaxAttempts
         /\ Earned(r) + MaxAttempts + MaxFaults <= MaxStarts
<1>1. PICK d \in Nat : MaxRetries = r + d
  <2>1. MaxRetries - r \in Nat /\ MaxRetries = r + (MaxRetries - r)
    BY BoundsAssumption
  <2> QED
    BY <2>1
<1>2. MaxAttempts * (r + 1) = MaxAttempts * r + MaxAttempts /\ MaxAttempts * r \in Nat
  BY BoundsAssumption
<1>3. MaxAttempts * (1 + (r + d)) = MaxAttempts * r + MaxAttempts * d + MaxAttempts
  BY <1>1, BoundsAssumption
<1>4. MaxAttempts * d \in Nat
  BY <1>1, BoundsAssumption
<1> QED
  BY <1>1, <1>2, <1>3, <1>4, BoundsAssumption DEF Earned, MaxStarts

(* A job that no step touches stays covered: retries and faults only grow. *)
LEMMA StillCovered ==
  ASSUME StartsInvariant, NEW j \in Jobs, row'[j] = row[j], handler'[j] = handler[j],
         attempts'[j] = attempts[j], starts'[j] = starts[j],
         \/ retries' = retries
         \/ retries' = retries + 1 /\ retries' \in 0 .. MaxRetries,
         faults' \in {faults, faults + 1}
  PROVE  StartsCovered(j)' /\ handler'[j] \subseteq 1 .. starts'[j]
<1>1. Earned(retries) \in Nat /\ Earned(retries') \in Nat /\ Earned(retries) <= Earned(retries')
  BY EarnedType, BoundsAssumption DEF StartsInvariant
<1> QED
  BY <1>1, BoundsAssumption DEF StartsInvariant, StartsCovered, Paid, Owed, Used

LEMMA OneJob ==
  ASSUME StartsInvariant, NEW j \in Jobs, row' \in [Jobs -> Contract!Rows],
         attempts' \in [Jobs -> Nat], starts' \in [Jobs -> Nat],
         retries' \in 0 .. MaxRetries, faults' \in 0 .. MaxFaults,
         handler' \in [Jobs -> SUBSET Nat],
         retries' \in {retries, retries + 1}, faults' \in {faults, faults + 1},
         \A k \in Jobs \ {j} : /\ row'[k] = row[k] /\ handler'[k] = handler[k]
                               /\ attempts'[k] = attempts[k] /\ starts'[k] = starts[k],
         StartsCovered(j)', handler'[j] \subseteq 1 .. starts'[j]
  PROVE  StartsInvariant'
<1>1. \A k \in Jobs \ {j} : StartsCovered(k)' /\ handler'[k] \subseteq 1 .. starts'[k]
  BY StillCovered
<1> QED
  BY <1>1 DEF StartsInvariant

LEMMA StartsStep == ASSUME StartsInvariant, [Next]_vars PROVE StartsInvariant'
<1> USE DEF StartsInvariant, Contract!Rows
<1> USE BoundsAssumption
<1> DEFINE e == Earned(retries)
<1>e. e \in Nat /\ Earned(retries + 1) = e + MaxAttempts
  BY EarnedType
<1> HIDE DEF e
<1>f. ASSUME NEW j \in Jobs, NEW M, Fault(j, M)
      PROVE  faults' = faults + 1 /\ faults' \in 0 .. MaxFaults /\ retries' = retries
  BY <1>f DEF Fault
<1>1. ASSUME NEW j \in Jobs, EnqueueTask(j) \/ CancelJob(j) \/ Recover(j) PROVE StartsInvariant'
  <2>1. /\ \/ row[j] = "absent" /\ row' = [row EXCEPT ![j] = "waiting"]
           \/ row[j] = "waiting" /\ row' = [row EXCEPT ![j] = "cancelled"]
           \/ row[j] = "running" /\ handler[j] = {} /\ row' = [row EXCEPT ![j] = "waiting"]
        /\ UNCHANGED <<handler, attempts, starts, retries, faults>>
    BY <1>1 DEF EnqueueTask, CancelJob, Recover, Contract!Enqueue, Contract!Cancel,
       Contract!Recover, Contract!Set, Contract!Unhandled, bounds
  <2>2. StartsCovered(j)'
    BY <2>1, <1>e DEF StartsCovered, Paid, Owed, Used, e
  <2> QED
    BY <2>1, <2>2, OneJob
<1>2. ASSUME NEW j \in Jobs, RetryJob(j) PROVE StartsInvariant'
  <2>1. /\ row[j] \in {"failed", "cancelled"} /\ row' = [row EXCEPT ![j] = "waiting"]
        /\ attempts' = [attempts EXCEPT ![j] = 0]
        /\ retries < MaxRetries /\ retries' = retries + 1
        /\ UNCHANGED <<handler, starts, faults>>
    BY <1>2 DEF RetryJob, Contract!Retry, Contract!Set
  <2>0. retries' \in 0 .. MaxRetries
    BY <2>1
  <2>2. StartsCovered(j)'
    BY <2>1, <1>e DEF StartsCovered, Paid, Owed, Used, e
  <2> QED
    BY <2>0, <2>1, <2>2, OneJob
<1>3. ASSUME NEW j \in Jobs, StartHandler(j) \/ StartAgain(j) PROVE StartsInvariant'
  <2>1. /\ row[j] # "absent" /\ handler[j] = {}
        /\ row' = [row EXCEPT ![j] = "running"]
        /\ handler' = [handler EXCEPT ![j] = {starts[j] + 1}]
        /\ starts' = [starts EXCEPT ![j] = @ + 1]
        /\ UNCHANGED <<attempts, retries>>
        /\ \/ row[j] = "waiting" /\ faults' = faults
           \/ faults' = faults + 1 /\ faults' \in 0 .. MaxFaults
    BY <1>3, <1>f DEF StartHandler, StartAgain, Begin, NoFault, bounds, Fault, Contract!Start,
       Contract!Set, Contract!Unhandled
  <2>2. StartsCovered(j)'
    BY <2>1, <1>e DEF StartsCovered, Paid, Owed, Used, e
  <2>3. starts' \in [Jobs -> Nat] /\ starts'[j] = starts[j] + 1 /\ starts[j] + 1 \in Nat
    BY <2>1
  <2>4. handler' \in [Jobs -> SUBSET Nat] /\ handler'[j] = {starts[j] + 1}
    BY <2>1, <2>3
  <2>5. handler'[j] \subseteq 1 .. starts'[j]
    BY <2>3, <2>4
  <2>6. row' \in [Jobs -> Contract!Rows] /\ attempts' \in [Jobs -> Nat]
    BY <2>1
  <2>7. /\ retries' \in 0 .. MaxRetries /\ retries' \in {retries, retries + 1}
        /\ faults' \in 0 .. MaxFaults /\ faults' \in {faults, faults + 1}
    BY <2>1
  <2>8. \A k \in Jobs \ {j} : /\ row'[k] = row[k] /\ handler'[k] = handler[k]
                              /\ attempts'[k] = attempts[k] /\ starts'[k] = starts[k]
    BY <2>1
  <2> HIDE DEF StartsInvariant
  <2> QED
    BY <2>2, <2>3, <2>4, <2>5, <2>6, <2>7, <2>8, OneJob
<1>4. ASSUME NEW j \in Jobs, HandlerReturns(j) PROVE StartsInvariant'
  <2>1. /\ handler[j] # {} /\ row' = [row EXCEPT ![j] = "completed"]
        /\ handler' = [handler EXCEPT ![j] = {}]
        /\ UNCHANGED <<attempts, starts, retries, faults>>
    BY <1>4 DEF HandlerReturns, Ended, NoFault, bounds, Contract!Finish, Contract!Set,
       Contract!Unhandled
  <2>2. StartsCovered(j)'
    BY <2>1, <1>e DEF StartsCovered, Paid, Owed, Used, e
  <2> QED
    BY <2>1, <2>2, OneJob
<1>5. ASSUME NEW j \in Jobs, HandlerFails(j) \/ Refuse(j) PROVE StartsInvariant'
  <2>1. /\ row[j] # "absent"
        /\ row' = [row EXCEPT ![j] = IF attempts[j] + 1 < MaxAttempts THEN "waiting" ELSE "failed"]
        /\ attempts' = [attempts EXCEPT ![j] = @ + 1]
        /\ handler' = [handler EXCEPT ![j] = {}]
        /\ UNCHANGED <<starts, retries>>
        /\ \/ handler[j] # {} /\ faults' = faults
           \/ faults' = faults + 1 /\ faults' \in 0 .. MaxFaults
    BY <1>5, <1>f DEF HandlerFails, Refuse, Ended, NoFault, bounds, Fault, Contract!Finish,
       Contract!Refuse, Contract!Set, Contract!Unhandled
  <2>2. StartsCovered(j)'
    BY <2>1, <1>e DEF StartsCovered, Paid, Owed, Used, e
  <2>3. row' \in [Jobs -> Contract!Rows] /\ attempts' \in [Jobs -> Nat]
    BY <2>1
  <2>4. /\ starts' \in [Jobs -> Nat] /\ handler' \in [Jobs -> SUBSET Nat]
        /\ handler'[j] \subseteq 1 .. starts'[j]
    BY <2>1
  <2>5. /\ retries' \in 0 .. MaxRetries /\ retries' \in {retries, retries + 1}
        /\ faults' \in 0 .. MaxFaults /\ faults' \in {faults, faults + 1}
    BY <2>1
  <2>6. \A k \in Jobs \ {j} : /\ row'[k] = row[k] /\ handler'[k] = handler[k]
                              /\ attempts'[k] = attempts[k] /\ starts'[k] = starts[k]
    BY <2>1
  <2> HIDE DEF StartsInvariant
  <2> QED
    BY <2>2, <2>3, <2>4, <2>5, <2>6, OneJob
<1>6. ASSUME NEW j \in Jobs, Crash(j) PROVE StartsInvariant'
  <2>1. /\ handler[j] # {}
        /\ handler' = [handler EXCEPT ![j] = {}]
        /\ faults' = faults + 1 /\ faults' \in 0 .. MaxFaults
        /\ UNCHANGED <<row, attempts, starts, retries>>
    BY <1>6, <1>f DEF Crash, Ended, Contract!Lose
  <2>2. StartsCovered(j)'
    BY <2>1, <1>e DEF StartsCovered, Paid, Owed, Used, e
  <2> QED
    BY <2>1, <2>2, OneJob
<1>7. ASSUME NEW j \in Jobs,
             Prepare(j) \/ Work(j) \/ SaveResult(j) \/ AfterSave(j) \/ SaveFailure(j)
      PROVE  StartsInvariant'
  <2>1. /\ UNCHANGED <<row, handler, attempts, starts, retries>>
        /\ \/ faults' = faults
           \/ faults' = faults + 1 /\ faults' \in 0 .. MaxFaults
    BY <1>7, <1>f DEF Prepare, Work, SaveResult, AfterSave, SaveFailure, Steps, NoFault, bounds,
       job, Fault
  <2> QED
    BY <2>1, StillCovered, OneJob
<1>8. ASSUME NEW j \in Jobs, CreateRecord(j) \/ Delete(j) \/ UpdateReport(j)
      PROVE  StartsInvariant'
  BY <1>8, StillCovered DEF CreateRecord, Delete, UpdateReport, job, bounds
<1>9. CASE UNCHANGED vars
  BY <1>9, StillCovered DEF vars, job, bounds
<1> QED
  BY <1>1, <1>2, <1>3, <1>4, <1>5, <1>6, <1>7, <1>8, <1>9 DEF Next, HandlerStep

LEMMA StartsInit == Init => StartsInvariant
<1>1. Earned(0) = 0
  BY BoundsAssumption DEF Earned
<1> QED
  BY <1>1, BoundsAssumption DEF Init, Contract!JobInit, Contract!Rows, StartsInvariant,
     StartsCovered, Paid, Owed, Used

LEMMA StartsBound == StartsInvariant => \A j \in Jobs : starts[j] \in 0 .. MaxStarts
<1> SUFFICES ASSUME StartsInvariant, NEW j \in Jobs PROVE starts[j] \in 0 .. MaxStarts
  OBVIOUS
<1>1. Earned(retries) \in Nat /\ Earned(retries) + MaxAttempts + MaxFaults <= MaxStarts
  BY EarnedType DEF StartsInvariant
<1>2. starts[j] <= Earned(retries) + MaxAttempts + faults
  BY <1>1, BoundsAssumption DEF StartsInvariant, StartsCovered, Paid, Owed, Used
<1> QED
  BY <1>1, <1>2, BoundsAssumption DEF StartsInvariant, MaxStarts

LEMMA StartsAreCovered == Spec => []StartsInvariant
BY StartsInit, StartsStep, PTL DEF Spec

(* Every variable keeps its type.  That the handlers started of a job are bounded by its attempts,
   the retries of operators and the faults is the part that does not come for free. *)
THEOREM TypeCorrect == Spec => []TypeOK
<1>1. TaskInvariant /\ StartsInvariant => TypeOK
  <2> SUFFICES ASSUME TaskInvariant, StartsInvariant PROVE TypeOK
    OBVIOUS
  <2>1. starts \in [Jobs -> 0 .. MaxStarts]
    BY StartsBound DEF StartsInvariant
  <2>2. ASSUME NEW j \in Jobs PROVE handler[j] \subseteq Records
    <3>1. starts[j] \in 0 .. MaxStarts /\ MaxStarts \in Nat /\ handler[j] \subseteq 1 .. starts[j]
      BY <2>1, BoundsAssumption DEF StartsInvariant, MaxStarts
    <3> QED
      BY <3>1 DEF Records
  <2>3. handler \in [Jobs -> SUBSET Records]
    BY <2>2 DEF StartsInvariant
  <2> QED
    BY <2>1, <2>3 DEF TypeOK, TaskInvariant, Types, StartsInvariant, Phases, Mishaps
<1> QED
  BY <1>1, TasksInvariant, StartsAreCovered, PTL

(* Tasks stays within the contract of the job subsystem: every step is one that JobContract allows
   to producers, handlers, crashes and recovery, or changes nothing of it. *)
THEOREM TasksUseTheContract == Spec => Contract!JobSpec
<1>1. Init => Contract!JobInit
  BY DEF Init
<1>2. ASSUME StartsInvariant, StartsInvariant', [Next]_vars PROVE [Contract!JobNext]_(Contract!jobVars)
  <2>0. (\A j \in Jobs : starts[j] \in 0 .. MaxStarts)'
    <3>1. (StartsInvariant => \A j \in Jobs : starts[j] \in 0 .. MaxStarts)'
      BY StartsBound, PTL
    <3> QED
      BY <1>2, <3>1
  <2>1. ASSUME NEW j \in Jobs, StartHandler(j) \/ StartAgain(j) PROVE Contract!JobNext
    <3>1. Contract!Start(j, starts[j] + 1) /\ starts' = [starts EXCEPT ![j] = @ + 1]
      BY <2>1 DEF StartHandler, StartAgain, Begin
    <3>2. starts'[j] = starts[j] + 1 /\ starts[j] \in Nat
      BY <1>2, <3>1 DEF StartsInvariant
    <3>3. starts'[j] \in 0 .. MaxStarts
      BY <2>0
    <3>4. starts[j] + 1 \in Records
      BY <3>2, <3>3 DEF Records
    <3> QED
      BY <3>1, <3>4 DEF Contract!JobNext
  <2>2. ASSUME NEW j \in Jobs, EnqueueTask(j) \/ RetryJob(j) PROVE Contract!JobNext
    BY <2>2 DEF EnqueueTask, RetryJob, Contract!JobNext
  <2>3. ASSUME NEW j \in Jobs, CancelJob(j) \/ Crash(j) \/ Recover(j) PROVE Contract!JobNext
    BY <2>3 DEF CancelJob, Crash, Recover, Contract!JobNext
  <2>4. ASSUME NEW j \in Jobs, HandlerReturns(j) \/ HandlerFails(j) \/ Refuse(j)
        PROVE  Contract!JobNext
    BY <2>4 DEF HandlerReturns, HandlerFails, Refuse, Contract!JobNext, Contract!Outcomes
  <2>5. ASSUME NEW j \in Jobs, \/ CreateRecord(j) \/ Delete(j) \/ UpdateReport(j) \/ Prepare(j)
                               \/ Work(j) \/ SaveResult(j) \/ AfterSave(j) \/ SaveFailure(j)
        PROVE  UNCHANGED Contract!jobVars
    BY <2>5 DEF CreateRecord, Delete, UpdateReport, Prepare, Work, SaveResult, AfterSave,
       SaveFailure, Steps, job, Contract!jobVars
  <2>6. CASE UNCHANGED vars
    BY <2>6 DEF vars, job, Contract!jobVars
  <2> QED
    BY <1>2, <2>1, <2>2, <2>3, <2>4, <2>5, <2>6 DEF Next, HandlerStep
<1> QED
  BY <1>1, <1>2, StartsAreCovered, PTL DEF Spec, Contract!JobSpec
=============================================================================
