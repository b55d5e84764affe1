---------------------------- MODULE CaseCycles -----------------------------
(***************************************************************************)
(* The case cycles of a tenant (CaseCyclesService): periods of work that   *)
(* must not overlap and of which one is active.                            *)
(*                                                                         *)
(* Nothing in the database enforces either rule.  A request reads, decides *)
(* on what it read and writes the row later, whatever the table has become *)
(* in between; an activation is a transaction of two updates under READ    *)
(* COMMITTED, which sees of another transaction what that has committed    *)
(* and waits for the rows that it holds.                                   *)
(*                                                                         *)
(* Instants are numbers: day d begins at 2 * d and "now", somewhere in the *)
(* day, is 2 * today + 1.  A missing end date is the instant Open, after   *)
(* all the others.  Names, descriptions and who closed a cycle are left    *)
(* out.                                                                    *)
(***************************************************************************)
EXTENDS Naturals, FiniteSets

CONSTANTS
  Cycles,     \* rows that are ever created
  Operators,  \* requests under way at one time
  LastDay     \* bound: the days are 0 .. LastDay

ASSUME DaysAssumption == LastDay \in Nat
ASSUME CyclesAssumption == IsFiniteSet(Cycles) /\ "none" \notin Cycles

VARIABLES
  cycle,    \* the row of a cycle, New before it and Gone after
  today,    \* the day of the clock
  request   \* what a request has read and what it will write

vars == <<cycle, today, request>>

StartOfDay == 2 * today
Now == 2 * today + 1
Open == 2 * LastDay + 2
Dates == {2 * d : d \in 0 .. LastDay}  \* what a client sends: midnights
Ends == Dates \cup {Open}

New  == [status |-> "new"]
Gone == [status |-> "gone"]
Row  == [status : {"active", "closed"}, start : 0 .. Open, end : 0 .. Open]

InTable(table, c) == table[c].status \in {"active", "closed"}
Active(table) == {c \in Cycles : table[c].status = "active"}

(* datesOverlap, for the range [start, end) and the one of a row. *)
Overlaps(start, end, r) == start < r.end /\ r.start < end

(* The range is refused by any of the other rows it overlaps. *)
NoOverlapWith(start, end, others) ==
  \A d \in others : InTable(cycle, d) => ~Overlaps(start, end, cycle[d])

(* A request.  stale and overlap are history and decide nothing: whether another request has
   written a row since this one read, and whether another activation was in its transaction
   at the same time. *)
Idle == [op |-> "none", phase |-> "idle", cycle |-> "none", sets |-> {}, active |-> FALSE,
         start |-> 0, end |-> 0, closing |-> {}, stale |-> FALSE, overlap |-> FALSE]

Init ==
  /\ cycle = [c \in Cycles |-> New]
  /\ today = 0
  /\ request = [o \in Operators |-> Idle]

Refuse(o) == request' = [request EXCEPT ![o] = Idle]
Finish(o) == request' = [p \in Operators |->
                           IF p = o \/ request[p] = Idle THEN Idle
                           ELSE [request[p] EXCEPT !.stale = TRUE]]
Begin(o, r) == request[o].phase = "idle" /\ request' = [request EXCEPT ![o] = r]

NextDay ==
  /\ today < LastDay
  /\ today' = today + 1
  /\ UNCHANGED <<cycle, request>>

(* A write of a row waits for an activation that holds it. *)
MayWrite(o, c) ==
  \A p \in Operators \ {o} : request[p].phase = "closed" => c \notin request[p].closing

(* updateMany and deleteMany of a row that is no longer there change nothing. *)
Put(c, r) == cycle' = IF InTable(cycle, c) THEN [cycle EXCEPT ![c] = r] ELSE cycle
----------------------------------------------------------------------------
(* createCycle and updateCycle: the dates that will be the row's are checked against all the
   others, then written.  An update merges the dates it was given with those it read. *)

BeginCreate(o, start, end) ==
  /\ start < end
  /\ Begin(o, [Idle EXCEPT !.op = "create", !.phase = "check", !.start = start, !.end = end])
  /\ UNCHANGED <<cycle, today>>

BeginUpdate(o, c, sets, start, end) ==
  LET newStart == IF "start" \in sets THEN start ELSE cycle[c].start
      newEnd   == IF "end" \in sets THEN end ELSE cycle[c].end
  IN  /\ newStart < newEnd
      /\ Begin(o, [Idle EXCEPT !.op = "update", !.phase = "check", !.cycle = c, !.sets = sets,
                               !.active = (cycle[c].status = "active"),
                               !.start = newStart, !.end = newEnd])
      /\ UNCHANGED <<cycle, today>>

TodayInRange(start, end) == start <= StartOfDay /\ StartOfDay <= end

(* The check passed: the data of the write is built, active now saying whether the row is to be
   closed because the new dates leave today out.  Of a creation the check is the first read. *)
Passed(o) ==
  request' = [request EXCEPT ![o].phase = "write", ![o].stale = @ /\ request[o].op = "update",
                ![o].active = @ /\ ~TodayInRange(request[o].start, request[o].end)]

(* Mutant: a row is checked against the active cycles only. *)
CheckActiveOnly(o) ==
  /\ request[o].phase = "check"
  /\ IF NoOverlapWith(request[o].start, request[o].end, Active(cycle) \ {request[o].cycle})
     THEN Passed(o) ELSE Refuse(o)
  /\ UNCHANGED <<cycle, today>>

CheckDateOverlap(o) ==
  /\ request[o].phase = "check"
  /\ IF NoOverlapWith(request[o].start, request[o].end, Cycles \ {request[o].cycle})
     THEN Passed(o) ELSE Refuse(o)
  /\ UNCHANGED <<cycle, today>>

CreateCycle(o, c) ==
  /\ request[o].op = "create" /\ request[o].phase = "write"
  /\ cycle[c] = New
  /\ cycle' = [cycle EXCEPT ![c] = [status |-> "closed", start |-> request[o].start,
                                   end |-> request[o].end]]
  /\ Finish(o)
  /\ UNCHANGED today

UpdateCycle(o) ==
  LET c == request[o].cycle
      r == cycle[c]
  IN  /\ request[o].op = "update" /\ request[o].phase = "write"
      /\ MayWrite(o, c)
      /\ Put(c, [status |-> IF request[o].active THEN "closed" ELSE r.status,
                 start |-> IF "start" \in request[o].sets THEN request[o].start ELSE r.start,
                 end |-> IF "end" \in request[o].sets THEN request[o].end ELSE r.end])
      /\ Finish(o)
      /\ UNCHANGED today
----------------------------------------------------------------------------
(* closeCycle: any end date may be given, now is the default. *)
BeginClose(o, c, end) ==
  /\ cycle[c].status = "active"
  /\ Begin(o, [Idle EXCEPT !.op = "close", !.phase = "write", !.cycle = c, !.end = end])
  /\ UNCHANGED <<cycle, today>>

CloseCycle(o) ==
  LET c == request[o].cycle
  IN  /\ request[o].op = "close"
      /\ MayWrite(o, c)
      /\ Put(c, [cycle[c] EXCEPT !.status = "closed", !.end = request[o].end])
      /\ Finish(o)
      /\ UNCHANGED today

(* Mutant: an active cycle is not spared. *)
BeginDeleteAny(o, c) ==
  /\ InTable(cycle, c)
  /\ Begin(o, [Idle EXCEPT !.op = "delete", !.phase = "write", !.cycle = c])
  /\ UNCHANGED <<cycle, today>>

BeginDelete(o, c) ==
  /\ cycle[c].status = "closed"
  /\ Begin(o, [Idle EXCEPT !.op = "delete", !.phase = "write", !.cycle = c])
  /\ UNCHANGED <<cycle, today>>

DeleteCycle(o) ==
  /\ request[o].op = "delete"
  /\ MayWrite(o, request[o].cycle)
  /\ Put(request[o].cycle, Gone)
  /\ Finish(o)
  /\ UNCHANGED today
----------------------------------------------------------------------------
(* activateCycle: the guards on the row that was read, then the transaction. *)

BeginActivate(o, c) ==
  /\ cycle[c].status = "closed"
  /\ cycle[c].start <= StartOfDay
  /\ StartOfDay <= cycle[c].end
  /\ Begin(o, [Idle EXCEPT !.op = "activate", !.phase = "read", !.cycle = c])
  /\ UNCHANGED <<cycle, today>>

InTransaction == {o \in Operators : request[o].phase \in {"see", "closed"}}

(* The first statement starts: its snapshot has the rows that are active and committed.
   (overlap records of a transaction that another was open at the same time.) *)
SeeActive(o) ==
  /\ request[o].phase = "read"
  /\ request' = [p \in Operators |->
                   IF p = o THEN [request[o] EXCEPT !.phase = "see",
                                    !.closing = Active(cycle) \ {request[o].cycle},
                                    !.overlap = (InTransaction # {})]
                   ELSE IF p \in InTransaction THEN [request[p] EXCEPT !.overlap = TRUE]
                   ELSE request[p]]
  /\ UNCHANGED <<cycle, today>>

(* It holds those of them that are active still, after waiting for other activations. *)
CloseOthers(o) ==
  /\ request[o].phase = "see"
  /\ \A c \in request[o].closing : MayWrite(o, c)
  /\ request' = [request EXCEPT ![o].phase = "closed", ![o].closing = @ \cap Active(cycle)]
  /\ UNCHANGED <<cycle, today>>

(* The second statement and the commit.  A cycle that was deleted meanwhile stays deleted and
   the others are closed all the same. *)
Activated(o, closing) ==
  /\ request[o].phase = "closed"
  /\ MayWrite(o, request[o].cycle)
  /\ cycle' = [c \in Cycles |->
                 IF ~InTable(cycle, c) THEN cycle[c]
                 ELSE IF c = request[o].cycle THEN [cycle[c] EXCEPT !.status = "active"]
                 ELSE IF c \in closing THEN [cycle[c] EXCEPT !.status = "closed"]
                 ELSE cycle[c]]
  /\ Finish(o)
  /\ UNCHANGED today

(* Mutants: the first statement is dropped; a row that was deleted is brought back. *)
ActivateAlone(o) == Activated(o, {})
ActivateGone(o) ==
  /\ request[o].phase = "closed"
  /\ cycle' = [cycle EXCEPT ![request[o].cycle].status = "active"]
  /\ Finish(o)
  /\ UNCHANGED today

ActivateCycle(o) == Activated(o, request[o].closing)
----------------------------------------------------------------------------
Next ==
  \/ NextDay
  \/ \E o \in Operators :
       \/ CheckDateOverlap(o) \/ UpdateCycle(o) \/ CloseCycle(o) \/ DeleteCycle(o)
       \/ SeeActive(o) \/ CloseOthers(o) \/ ActivateCycle(o)
       \/ \E start \in Dates, end \in Ends : BeginCreate(o, start, end)
       \/ \E c \in Cycles :
            \/ CreateCycle(o, c) \/ BeginDelete(o, c) \/ BeginActivate(o, c)
            \/ \E end \in Dates \cup {Now} : BeginClose(o, c, end)
            \/ /\ InTable(cycle, c)
               /\ \E sets \in (SUBSET {"start", "end"}) \ {{}}, start, end \in Dates :
                    BeginUpdate(o, c, sets, start, end)

Spec == Init /\ [][Next]_vars
----------------------------------------------------------------------------
Table == [Cycles -> Row \cup {New, Gone}]

Request == [op : {"none", "create", "update", "close", "delete", "activate"},
            phase : {"idle", "check", "write", "read", "see", "closed"},
            cycle : Cycles \cup {"none"}, sets : SUBSET {"start", "end"}, active : BOOLEAN,
            start : 0 .. Open, end : 0 .. Open, closing : SUBSET Cycles, stale : BOOLEAN,
            overlap : BOOLEAN]

TypeOK ==
  /\ cycle \in Table
  /\ today \in 0 .. LastDay
  /\ request \in [Operators -> Request]

Overlap(table, c, d) ==
  InTable(table, c) /\ InTable(table, d) /\ Overlaps(table[c].start, table[c].end, table[d])

Writes(o) == request[o] # Idle /\ request'[o] = Idle

(* Two cycles begin to overlap only through a request that another one overtook, a row having
   been written since it read, or through a closing, whose end date is not checked. *)
OverlapNeedsAStaleCheck ==
  [][\A c, d \in Cycles :
       c # d /\ Overlap(cycle', c, d) /\ ~Overlap(cycle, c, d) =>
         \E o \in Operators : Writes(o) /\ (request[o].op = "close" \/ request[o].stale)]_vars

(* A second cycle becomes active only through two activations whose transactions were open at
   the same time: neither saw what the other was about to activate.  No other mix of stale
   requests, deletions and updates leaves two active cycles. *)
SecondActiveNeedsAnOverlap ==
  [][Cardinality(Active(cycle)) <= 1 /\ Cardinality(Active(cycle')) > 1 =>
       \E o \in Operators : Writes(o) /\ request[o].overlap]_vars

(* The active cycle is deleted only by a request that another one overtook: the guard of a
   deletion is good for the table it read. *)
ActiveDeletedOnlyIfStale ==
  [][(\E c \in Active(cycle) : cycle'[c] = Gone) =>
       \E o \in Operators : Writes(o) /\ request[o].stale]_vars
=============================================================================
