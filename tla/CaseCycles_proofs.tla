------------------------ MODULE CaseCycles_proofs ------------------------
(***************************************************************************)
(* Theorems about CaseCycles, for any number of cycles, requests and days. *)
(***************************************************************************)
EXTENDS CaseCycles, FiniteSetTheorems, TLAPS

(* What a request may be, by its operation. *)
WellFormed(q) ==
  /\ q.phase = "idle" \/ q.op = "none" => q = Idle
  /\ q.op = "create" => q.cycle = "none" /\ q.phase \in {"check", "write"}
  /\ q.op = "update" => q.cycle \in Cycles /\ q.phase \in {"check", "write"}
  /\ q.op \in {"close", "delete"} => q.cycle \in Cycles /\ q.phase = "write"
  /\ q.op = "activate" => q.cycle \in Cycles /\ q.phase \in {"read", "see", "closed"}

(* What was read is still so, as long as no other request has written. *)
Fresh(q) ==
  /\ q.op = "delete" => cycle[q.cycle].status # "active"
  /\ q.op = "update" =>
       /\ InTable(cycle, q.cycle)
       /\ "start" \notin q.sets => cycle[q.cycle].start = q.start
       /\ "end" \notin q.sets => cycle[q.cycle].end = q.end
  /\ q.op \in {"create", "update"} /\ q.phase = "write" =>
       NoOverlapWith(q.start, q.end, Cycles \ {q.cycle})

(* A transaction that overlaps no other is the only one, and closes all that is active. *)
InTx(q) == q.phase \in {"see", "closed"}
Alone(o) ==
  InTx(request[o]) /\ ~request[o].overlap =>
    /\ \A p \in Operators \ {o} : ~InTx(request[p])
    /\ Active(cycle) \ {request[o].cycle} \subseteq request[o].closing

RequestOK(o) ==
  /\ WellFormed(request[o])
  /\ ~request[o].stale => Fresh(request[o])
  /\ Alone(o)

CycleInvariant == TypeOK /\ \A o \in Operators : RequestOK(o)
----------------------------------------------------------------------------
LEMMA Instants == /\ Open \in Nat /\ Dates \subseteq 0 .. Open /\ Ends \subseteq 0 .. Open
                  /\ (today \in 0 .. LastDay => Now \in 0 .. Open /\ StartOfDay \in 0 .. Open)
BY DaysAssumption DEF Open, Dates, Ends, Now, StartOfDay

LEMMA IdleType == Idle \in Request
BY Instants DEF Idle, Request

LEMMA RowType ==
  ASSUME TypeOK, NEW c \in Cycles, InTable(cycle, c)
  PROVE  cycle[c] \in Row
BY DEF TypeOK, Table, InTable, New, Gone

(* A step that writes nothing and changes one request only, which reads now. *)
LEMMA RequestStep ==
  ASSUME CycleInvariant, UNCHANGED cycle, today' \in 0 .. LastDay, NEW o \in Operators,
         NEW q \in Request, request' = [request EXCEPT ![o] = q],
         WellFormed(q), ~q.stale => Fresh(q), ~InTx(q)
  PROVE  CycleInvariant'
<1>t. request \in [Operators -> Request]
  BY DEF CycleInvariant, TypeOK
<1>1. TypeOK'
  BY <1>t DEF CycleInvariant, TypeOK
<1>2. ASSUME NEW p \in Operators PROVE RequestOK(p)'
  <2>1. CASE p = o
    BY <2>1, <1>t DEF RequestOK, WellFormed, Fresh, NoOverlapWith, Alone, InTx
  <2>2. CASE p # o
    <3>1. request'[p] = request[p] /\ RequestOK(p)
      BY <2>2, <1>t DEF CycleInvariant
    <3>2. Alone(p)'
      BY <3>1, <1>t DEF RequestOK, Alone, InTx
    <3> QED
      BY <3>1, <3>2 DEF RequestOK, WellFormed, Fresh, NoOverlapWith
  <2> QED
    BY <2>1, <2>2
<1> QED
  BY <1>1, <1>2 DEF CycleInvariant

LEMMA RefuseStep ==
  ASSUME CycleInvariant, UNCHANGED <<cycle, today>>, NEW o \in Operators, Refuse(o)
  PROVE  CycleInvariant'
<1>1. WellFormed(Idle) /\ Fresh(Idle) /\ ~InTx(Idle)
  BY DEF WellFormed, Fresh, InTx, Idle
<1> QED
  BY <1>1, IdleType, RequestStep DEF Refuse, CycleInvariant, TypeOK

(* What is left of a request after another has written. *)
LEMMA FinishType ==
  ASSUME TypeOK, NEW o \in Operators, Finish(o)
  PROVE  /\ request' \in [Operators -> Request] /\ request'[o] = Idle
         /\ \A p \in Operators :
              request'[p] = Idle \/ (/\ p # o /\ request[p] # Idle
                                     /\ request'[p] = [request[p] EXCEPT !.stale = TRUE])
<1>1. \A p \in Operators : request'[p] = IF p = o \/ request[p] = Idle THEN Idle
                                         ELSE [request[p] EXCEPT !.stale = TRUE]
  BY DEF Finish
<1>2. \A p \in Operators : request'[p] \in Request
  <2> TAKE p \in Operators
  <2>1. request[p] \in Request
    BY DEF TypeOK
  <2>2. [request[p] EXCEPT !.stale = TRUE] \in Request
    BY <2>1 DEF Request
  <2> QED
    BY <1>1, <2>2, IdleType
<1> QED
  BY <1>1, <1>2 DEF Finish

(* A write that makes nothing active, unless its own transaction does. *)
LEMMA WriteStep ==
  ASSUME CycleInvariant, cycle' \in Table, UNCHANGED today, NEW o \in Operators, Finish(o),
         InTx(request[o]) \/ Active(cycle') \subseteq Active(cycle)
  PROVE  CycleInvariant'
<1>t. request \in [Operators -> Request]
  BY DEF CycleInvariant, TypeOK
<1>1. TypeOK'
  BY FinishType DEF CycleInvariant, TypeOK
<1>2. ASSUME NEW p \in Operators PROVE RequestOK(p)'
  <2>1. CASE request'[p] = Idle
    BY <2>1 DEF RequestOK, WellFormed, Fresh, Alone, InTx, Idle
  <2>2. CASE p # o /\ request'[p] = [request[p] EXCEPT !.stale = TRUE] /\ request[p] # Idle
    <3>1. /\ request'[p].stale /\ request'[p].op = request[p].op
          /\ request'[p].phase = request[p].phase /\ request'[p].cycle = request[p].cycle
          /\ request'[p].closing = request[p].closing /\ request'[p].overlap = request[p].overlap
      BY <2>2, <1>t DEF Request
    <3>2. WellFormed(request[p]) /\ Alone(p)
      BY DEF CycleInvariant, RequestOK
    <3>3. WellFormed(request'[p])
      BY <2>2, <3>1, <3>2 DEF WellFormed, Idle
    <3>4. Alone(p)'
      <4>1. SUFFICES ASSUME InTx(request[p]), ~request[p].overlap
                     PROVE  /\ \A r \in Operators \ {p} : ~InTx(request'[r])
                            /\ Active(cycle') \ {request[p].cycle} \subseteq request[p].closing
        BY <3>1 DEF Alone, InTx
      <4>2. ASSUME NEW r \in Operators \ {p} PROVE ~InTx(request[r])
        BY <3>2, <4>1 DEF Alone
      <4>3. ASSUME NEW r \in Operators \ {p} PROVE ~InTx(request'[r])
        <5>1. CASE request'[r] = Idle
          BY <5>1 DEF InTx, Idle
        <5>2. CASE request'[r] = [request[r] EXCEPT !.stale = TRUE]
          BY <1>t, <4>2, <5>2 DEF InTx, Request
        <5> QED
          BY <5>1, <5>2, FinishType DEF CycleInvariant
      <4>4. Active(cycle') \subseteq Active(cycle)
        BY <2>2, <4>2
      <4> QED
        BY <3>2, <4>1, <4>3, <4>4 DEF Alone
    <3> QED
      BY <3>1, <3>3, <3>4 DEF RequestOK, WellFormed
  <2> QED
    BY <2>1, <2>2, FinishType DEF CycleInvariant
<1> QED
  BY <1>1, <1>2 DEF CycleInvariant
----------------------------------------------------------------------------
(* The requests that begin, and the check of the dates. *)

LEMMA BeginStep ==
  ASSUME CycleInvariant, UNCHANGED <<cycle, today>>, NEW o \in Operators,
         NEW q \in Request, Begin(o, q), WellFormed(q), Fresh(q), ~InTx(q)
  PROVE  CycleInvariant'
BY RequestStep DEF Begin, CycleInvariant, TypeOK

LEMMA BeginCreateStep ==
  ASSUME CycleInvariant, NEW o \in Operators, NEW start \in Dates, NEW end \in Ends,
         BeginCreate(o, start, end)
  PROVE  CycleInvariant'
<1> DEFINE q == [Idle EXCEPT !.op = "create", !.phase = "check", !.start = start, !.end = end]
<1>1. q \in Request
  BY IdleType, Instants DEF Request
<1>2. WellFormed(q) /\ Fresh(q) /\ ~InTx(q)
  BY DEF WellFormed, Fresh, InTx, Idle
<1>3. Begin(o, q) /\ UNCHANGED <<cycle, today>>
  BY DEF BeginCreate
<1> HIDE DEF q
<1> QED
  BY <1>1, <1>2, <1>3, BeginStep

LEMMA BeginUpdateStep ==
  ASSUME CycleInvariant, NEW o \in Operators, NEW c \in Cycles, InTable(cycle, c),
         NEW sets \in SUBSET {"start", "end"}, NEW start \in Dates, NEW end \in Dates,
         BeginUpdate(o, c, sets, start, end)
  PROVE  CycleInvariant'
<1> DEFINE newStart == IF "start" \in sets THEN start ELSE cycle[c].start
           newEnd == IF "end" \in sets THEN end ELSE cycle[c].end
           q == [Idle EXCEPT !.op = "update", !.phase = "check", !.cycle = c, !.sets = sets,
                             !.active = (cycle[c].status = "active"),
                             !.start = newStart, !.end = newEnd]
<1>1. newStart \in 0 .. Open /\ newEnd \in 0 .. Open
  BY RowType, Instants DEF CycleInvariant, Row
<1>2. q \in Request
  BY <1>1, IdleType DEF Request
<1>3. q.op = "update" /\ q.phase = "check" /\ q.cycle = c /\ q.sets = sets
      /\ q.start = newStart /\ q.end = newEnd
  BY DEF Idle
<1>4. WellFormed(q) /\ Fresh(q) /\ ~InTx(q)
  BY <1>3 DEF WellFormed, Fresh, InTx
<1>5. Begin(o, q) /\ UNCHANGED <<cycle, today>>
  BY DEF BeginUpdate
<1> HIDE DEF q
<1> QED
  BY <1>2, <1>4, <1>5, BeginStep

LEMMA BeginWriteStep ==
  ASSUME CycleInvariant, NEW o \in Operators, NEW c \in Cycles, NEW q \in Request, Begin(o, q),
         q.phase = "write", q.cycle = c, q.op \in {"close", "delete"},
         cycle[c].status # "active" \/ q.op = "close",
         UNCHANGED <<cycle, today>>
  PROVE  CycleInvariant'
<1>1. WellFormed(q) /\ Fresh(q) /\ ~InTx(q)
  BY DEF WellFormed, Fresh, InTx
<1> QED
  BY <1>1, BeginStep

LEMMA BeginCloseStep ==
  ASSUME CycleInvariant, NEW o \in Operators, NEW c \in Cycles, NEW end \in Dates \cup {Now},
         BeginClose(o, c, end)
  PROVE  CycleInvariant'
<1> DEFINE q == [Idle EXCEPT !.op = "close", !.phase = "write", !.cycle = c, !.end = end]
<1>1. end \in 0 .. Open
  BY Instants DEF CycleInvariant, TypeOK
<1>2. q \in Request
  BY <1>1, IdleType DEF Request
<1>3. q.op = "close" /\ q.phase = "write" /\ q.cycle = c
  BY DEF Idle
<1>4. Begin(o, q) /\ UNCHANGED <<cycle, today>>
  BY DEF BeginClose
<1> HIDE DEF q
<1> QED
  BY <1>2, <1>3, <1>4, BeginWriteStep

LEMMA BeginDeleteStep ==
  ASSUME CycleInvariant, NEW o \in Operators, NEW c \in Cycles, BeginDelete(o, c)
  PROVE  CycleInvariant'
<1> DEFINE q == [Idle EXCEPT !.op = "delete", !.phase = "write", !.cycle = c]
<1>1. q \in Request
  BY IdleType DEF Request
<1>2. q.op = "delete" /\ q.phase = "write" /\ q.cycle = c
  BY DEF Idle
<1>3. Begin(o, q) /\ UNCHANGED <<cycle, today>> /\ cycle[c].status # "active"
  BY DEF BeginDelete
<1> HIDE DEF q
<1> QED
  BY <1>1, <1>2, <1>3, BeginWriteStep

LEMMA BeginActivateStep ==
  ASSUME CycleInvariant, NEW o \in Operators, NEW c \in Cycles, BeginActivate(o, c)
  PROVE  CycleInvariant'
<1> DEFINE q == [Idle EXCEPT !.op = "activate", !.phase = "read", !.cycle = c]
<1>1. q \in Request
  BY IdleType DEF Request
<1>2. WellFormed(q) /\ Fresh(q) /\ ~InTx(q)
  BY DEF WellFormed, Fresh, InTx, Idle
<1>3. Begin(o, q) /\ UNCHANGED <<cycle, today>>
  BY DEF BeginActivate
<1> HIDE DEF q
<1> QED
  BY <1>1, <1>2, <1>3, BeginStep

LEMMA CheckStep ==
  ASSUME CycleInvariant, NEW o \in Operators, CheckDateOverlap(o)
  PROVE  CycleInvariant'
<1>1. CASE Refuse(o)
  BY <1>1, RefuseStep DEF CheckDateOverlap
<1>2. CASE /\ NoOverlapWith(request[o].start, request[o].end, Cycles \ {request[o].cycle})
           /\ Passed(o)
  <2> DEFINE q == [request[o] EXCEPT !.phase = "write", !.stale = @ /\ request[o].op = "update",
                     !.active = @ /\ ~TodayInRange(request[o].start, request[o].end)]
  <2>t. request \in [Operators -> Request] /\ request[o] \in Request
    BY DEF CycleInvariant, TypeOK
  <2>1. request' = [request EXCEPT ![o] = q]
    BY <1>2, <2>t DEF Passed
  <2>2. q \in Request
    BY <2>t DEF Request
  <2>3. /\ q.op = request[o].op /\ q.phase = "write" /\ q.cycle = request[o].cycle
        /\ q.sets = request[o].sets /\ q.start = request[o].start /\ q.end = request[o].end
        /\ q.stale = (request[o].stale /\ request[o].op = "update")
    BY <2>t DEF Request
  <2>4. request[o].op \in {"create", "update"} /\ RequestOK(o)
    BY <2>t DEF CheckDateOverlap, CycleInvariant, RequestOK, WellFormed, Request, Idle
  <2>5. WellFormed(q) /\ ~InTx(q)
    BY <2>3, <2>4 DEF RequestOK, WellFormed, InTx
  <2>6. ~q.stale => Fresh(q)
    BY <1>2, <2>3, <2>4 DEF RequestOK, Fresh
  <2> HIDE DEF q
  <2>7. UNCHANGED cycle /\ today' \in 0 .. LastDay
    BY DEF CheckDateOverlap, CycleInvariant, TypeOK
  <2> QED
    BY <2>1, <2>2, <2>5, <2>6, <2>7, RequestStep
<1> QED
  BY <1>1, <1>2 DEF CheckDateOverlap
----------------------------------------------------------------------------
(* The transaction of an activation, before it commits. *)

LEMMA ActivatesInTx ==
  ASSUME NEW q \in Request, WellFormed(q), q.phase = "read" \/ InTx(q)
  PROVE  q.op = "activate" /\ q.cycle \in Cycles
<1>1. q.op \in {"none", "create", "update", "close", "delete", "activate"}
  BY DEF Request
<1>2. q.op # "none"
  BY DEF WellFormed, InTx, Idle
<1> QED
  BY <1>1, <1>2 DEF WellFormed, InTx

LEMMA SeeActiveStep ==
  ASSUME CycleInvariant, NEW o \in Operators, SeeActive(o)
  PROVE  CycleInvariant'
<1>t. request \in [Operators -> Request] /\ Active(cycle) \subseteq Cycles
  BY DEF CycleInvariant, TypeOK, Active
<1> DEFINE q == [request[o] EXCEPT !.phase = "see", !.closing = Active(cycle) \ {request[o].cycle},
                                   !.overlap = (InTransaction # {})]
           r(p) == [request[p] EXCEPT !.overlap = TRUE]
<1>1. /\ request[o].phase = "read" /\ UNCHANGED <<cycle, today>>
      /\ request' = [p \in Operators |-> IF p = o THEN q
                                         ELSE IF p \in InTransaction THEN r(p) ELSE request[p]]
  BY DEF SeeActive
<1>2. /\ request' \in [Operators -> Request]
      /\ request'[o] = q
      /\ \A p \in Operators \ {o} : request'[p] = IF p \in InTransaction THEN r(p) ELSE request[p]
  <2>1. q \in Request
    BY <1>t DEF Request
  <2>2. \A p \in Operators : r(p) \in Request
    BY <1>t DEF Request
  <2> HIDE DEF q, r
  <2> QED
    BY <1>1, <1>t, <2>1, <2>2
<1>3. /\ q.op = request[o].op /\ q.phase = "see" /\ q.cycle = request[o].cycle
      /\ q.closing = Active(cycle) \ {request[o].cycle} /\ q.overlap = (InTransaction # {})
  BY <1>t DEF Request
<1>4. \A p \in Operators :
        /\ r(p).op = request[p].op /\ r(p).phase = request[p].phase
        /\ r(p).cycle = request[p].cycle /\ r(p).overlap
  BY <1>t DEF Request
<1>5. \A p \in InTransaction : p \in Operators /\ InTx(request[p]) /\ request[p].op = "activate"
  <2> SUFFICES ASSUME NEW p \in InTransaction
               PROVE  p \in Operators /\ InTx(request[p]) /\ request[p].op = "activate"
    OBVIOUS
  <2>1. p \in Operators /\ InTx(request[p])
    BY DEF InTransaction, InTx
  <2> QED
    BY <1>t, <2>1, ActivatesInTx DEF CycleInvariant, RequestOK
<1>6. request[o].op = "activate" /\ request[o].cycle \in Cycles
  BY <1>1, <1>t, ActivatesInTx DEF CycleInvariant, RequestOK
<1>7. ASSUME NEW p \in Operators PROVE RequestOK(p)'
  <2>1. CASE p = o
    <3>1. WellFormed(q) /\ Fresh(q)
      BY <1>3, <1>6 DEF WellFormed, Fresh
    <3>2. ASSUME ~q.overlap PROVE \A s \in Operators \ {o} : ~InTx(request'[s])
      BY <1>2, <1>3, <3>2 DEF InTransaction, InTx
    <3> QED
      BY <1>1, <1>2, <1>3, <2>1, <3>1, <3>2
         DEF RequestOK, WellFormed, Fresh, NoOverlapWith, Alone, InTx
  <2>2. CASE p # o /\ p \in InTransaction
    <3>1. WellFormed(r(p)) /\ Fresh(r(p))
      BY <1>4, <1>5, <2>2 DEF WellFormed, Fresh, CycleInvariant, RequestOK, InTx
    <3> QED
      BY <1>1, <1>2, <1>4, <2>2, <3>1 DEF RequestOK, WellFormed, Fresh, NoOverlapWith, Alone, InTx
  <2>3. CASE p # o /\ p \notin InTransaction
    <3>1. request'[p] = request[p] /\ RequestOK(p) /\ ~InTx(request[p])
      BY <1>2, <2>3 DEF CycleInvariant, InTransaction, InTx
    <3> QED
      BY <1>1, <3>1 DEF RequestOK, WellFormed, Fresh, NoOverlapWith, Alone, InTx
  <2> QED
    BY <2>1, <2>2, <2>3
<1>8. TypeOK'
  BY <1>1, <1>2 DEF CycleInvariant, TypeOK
<1> QED
  BY <1>7, <1>8 DEF CycleInvariant

LEMMA CloseOthersStep ==
  ASSUME CycleInvariant, NEW o \in Operators, CloseOthers(o)
  PROVE  CycleInvariant'
<1>t. request \in [Operators -> Request]
  BY DEF CycleInvariant, TypeOK
<1> DEFINE q == [request[o] EXCEPT !.phase = "closed", !.closing = @ \cap Active(cycle)]
<1>1. /\ request[o].phase = "see" /\ UNCHANGED <<cycle, today>>
      /\ request' = [request EXCEPT ![o] = q]
  BY <1>t DEF CloseOthers
<1>2. q \in Request
  BY <1>t DEF Request
<1>3. /\ q.op = request[o].op /\ q.phase = "closed" /\ q.cycle = request[o].cycle
      /\ q.closing = request[o].closing \cap Active(cycle) /\ q.overlap = request[o].overlap
  BY <1>t DEF Request
<1>4. request[o].op = "activate" /\ request[o].cycle \in Cycles
  BY <1>1, <1>t, ActivatesInTx DEF CycleInvariant, RequestOK, InTx
<1>5. \A p \in Operators : InTx(request'[p]) <=> InTx(request[p])
  BY <1>1, <1>3, <1>t DEF InTx
<1>6. ASSUME NEW p \in Operators PROVE RequestOK(p)'
  <2>1. RequestOK(p)
    BY DEF CycleInvariant
  <2>2. CASE p = o
    <3>1. WellFormed(q) /\ Fresh(q)
      BY <1>3, <1>4 DEF WellFormed, Fresh
    <3>2. request'[o] = q
      BY <1>1, <1>t
    <3>3. Alone(o)'
      BY <1>1, <1>3, <1>5, <2>1, <2>2, <3>2 DEF RequestOK, Alone, InTx
    <3> QED
      BY <1>1, <2>2, <3>1, <3>2, <3>3 DEF RequestOK, WellFormed, Fresh, NoOverlapWith
  <2>3. CASE p # o
    <3>1. request'[p] = request[p]
      BY <1>1, <1>t, <2>3
    <3>2. Alone(p)'
      BY <1>1, <1>5, <2>1, <3>1 DEF RequestOK, Alone
    <3> QED
      BY <1>1, <2>1, <3>1, <3>2 DEF RequestOK, WellFormed, Fresh, NoOverlapWith
  <2> QED
    BY <2>2, <2>3
<1>7. TypeOK'
  BY <1>1, <1>2, <1>t DEF CycleInvariant, TypeOK
<1> QED
  BY <1>6, <1>7 DEF CycleInvariant
----------------------------------------------------------------------------
(* What each write does to the table. *)

LEMMA Tables ==
  ASSUME CycleInvariant
  PROVE  /\ cycle \in Table /\ request \in [Operators -> Request]
         /\ \A c \in Cycles : InTable(cycle, c) => cycle[c] \in Row
         /\ \A c \in Cycles : InTable(cycle, c) <=> cycle[c] \in Row
BY RowType DEF CycleInvariant, TypeOK, InTable, Row

LEMMA CreateEffect ==
  ASSUME CycleInvariant, NEW o \in Operators, NEW c \in Cycles, CreateCycle(o, c)
  PROVE  /\ cycle' \in Table /\ ~InTable(cycle, c) /\ Active(cycle') = Active(cycle)
         /\ \A d \in Cycles \ {c} : cycle'[d] = cycle[d]
         /\ cycle'[c].start = request[o].start /\ cycle'[c].end = request[o].end
<1> DEFINE r == [status |-> "closed", start |-> request[o].start, end |-> request[o].end]
<1>1. cycle[c] = New /\ cycle' = [cycle EXCEPT ![c] = r]
  BY DEF CreateCycle
<1>2. r \in Row
  BY Tables DEF Request, Row
<1>3. cycle'[c] = r /\ \A d \in Cycles \ {c} : cycle'[d] = cycle[d]
  BY <1>1, Tables DEF Table
<1>4. Active(cycle') = Active(cycle)
  BY <1>1, <1>3 DEF Active, New
<1> QED
  BY <1>1, <1>2, <1>3, <1>4, Tables DEF Table, InTable, New

LEMMA UpdateEffect ==
  ASSUME CycleInvariant, NEW o \in Operators, UpdateCycle(o)
  PROVE  LET c == request[o].cycle IN
         \/ cycle' = cycle
         \/ /\ c \in Cycles /\ InTable(cycle, c) /\ cycle' \in Table
            /\ \A d \in Cycles \ {c} : cycle'[d] = cycle[d]
            /\ cycle'[c] \in Row /\ cycle'[c].status \in {"closed", cycle[c].status}
            /\ cycle'[c].start = IF "start" \in request[o].sets THEN request[o].start ELSE cycle[c].start
            /\ cycle'[c].end = IF "end" \in request[o].sets THEN request[o].end ELSE cycle[c].end
<1> DEFINE c == request[o].cycle
           r == [status |-> IF request[o].active THEN "closed" ELSE cycle[c].status,
                 start |-> IF "start" \in request[o].sets THEN request[o].start ELSE cycle[c].start,
                 end |-> IF "end" \in request[o].sets THEN request[o].end ELSE cycle[c].end]
<1>1. request[o].op = "update" /\ Put(c, r) /\ c \in Cycles
  BY DEF UpdateCycle, CycleInvariant, RequestOK, WellFormed
<1>2. CASE InTable(cycle, c)
  <2>1. r \in Row
    BY <1>1, <1>2, Tables DEF Request, Row
  <2>2. cycle' = [cycle EXCEPT ![c] = r]
    BY <1>1, <1>2 DEF Put
  <2>3. cycle' \in Table /\ cycle'[c] = r /\ \A d \in Cycles \ {c} : cycle'[d] = cycle[d]
    BY <1>1, <2>1, <2>2, Tables DEF Table
  <2> QED
    BY <1>1, <1>2, <2>1, <2>3
<1>3. CASE ~InTable(cycle, c)
  BY <1>1, <1>3 DEF Put
<1> QED
  BY <1>2, <1>3

LEMMA CloseEffect ==
  ASSUME CycleInvariant, NEW o \in Operators, CloseCycle(o)
  PROVE  /\ cycle' \in Table /\ Active(cycle') \subseteq Active(cycle)
         /\ \A c \in Active(cycle) : cycle'[c] # Gone
<1> DEFINE c == request[o].cycle
           r == [cycle[c] EXCEPT !.status = "closed", !.end = request[o].end]
<1>1. request[o].op = "close" /\ Put(c, r) /\ c \in Cycles
  BY DEF CloseCycle, CycleInvariant, RequestOK, WellFormed
<1>2. CASE InTable(cycle, c)
  <2>1. r \in Row /\ r.status = "closed"
    BY <1>1, <1>2, Tables DEF Request, Row
  <2>2. cycle' = [cycle EXCEPT ![c] = r]
    BY <1>1, <1>2 DEF Put
  <2>3. cycle' \in Table /\ cycle'[c] = r /\ \A d \in Cycles \ {c} : cycle'[d] = cycle[d]
    BY <1>1, <2>1, <2>2, Tables DEF Table
  <2> QED
    <3>1. cycle'[c].status = "closed"
      BY <2>1, <2>3
    <3>2. Active(cycle') \subseteq Active(cycle)
      BY <2>3, <3>1 DEF Active
    <3>3. ASSUME NEW d \in Active(cycle) PROVE cycle'[d] # Gone
      <4>1. cycle'[d].status \in {"active", "closed"}
        BY <2>3, <3>1 DEF Active
      <4> QED
        BY <4>1 DEF Gone
    <3> QED
      BY <2>3, <3>2, <3>3
<1>3. CASE ~InTable(cycle, c)
  BY <1>1, <1>3, Tables DEF Put, Active, Gone
<1> QED
  BY <1>2, <1>3

LEMMA DeleteEffect ==
  ASSUME CycleInvariant, NEW o \in Operators, DeleteCycle(o)
  PROVE  /\ cycle' \in Table /\ Active(cycle') \subseteq Active(cycle)
         /\ \A c \in Cycles : cycle'[c] = cycle[c] \/ ~InTable(cycle', c)
         /\ \A c \in Cycles \ {request[o].cycle} : cycle'[c] = cycle[c]
         /\ request[o].op = "delete" /\ request[o].cycle \in Cycles
<1> DEFINE c == request[o].cycle
<1>1. request[o].op = "delete" /\ Put(c, Gone) /\ c \in Cycles
  BY DEF DeleteCycle, CycleInvariant, RequestOK, WellFormed
<1>2. CASE InTable(cycle, c)
  <2>1. cycle' = [cycle EXCEPT ![c] = Gone]
    BY <1>1, <1>2 DEF Put
  <2>2. cycle' \in Table /\ cycle'[c] = Gone /\ \A d \in Cycles \ {c} : cycle'[d] = cycle[d]
    BY <1>1, <2>1, Tables DEF Table
  <2> QED
    BY <1>1, <2>2 DEF Active, Gone, InTable
<1>3. CASE ~InTable(cycle, c)
  BY <1>1, <1>3, Tables DEF Put, Active
<1> QED
  BY <1>2, <1>3

LEMMA ActivateEffect ==
  ASSUME CycleInvariant, NEW o \in Operators, ActivateCycle(o)
  PROVE  /\ cycle' \in Table /\ InTx(request[o])
         /\ \A c \in Cycles : \/ cycle'[c] = cycle[c]
                              \/ /\ InTable(cycle, c) /\ cycle'[c] \in Row
                                 /\ cycle'[c].start = cycle[c].start /\ cycle'[c].end = cycle[c].end
         /\ \A c \in Active(cycle') : c = request[o].cycle \/ (c \in Active(cycle) \ request[o].closing)
<1>1. /\ request[o].phase = "closed"
      /\ cycle' = [c \in Cycles |->
                     IF ~InTable(cycle, c) THEN cycle[c]
                     ELSE IF c = request[o].cycle THEN [cycle[c] EXCEPT !.status = "active"]
                     ELSE IF c \in request[o].closing THEN [cycle[c] EXCEPT !.status = "closed"]
                     ELSE cycle[c]]
  BY DEF ActivateCycle, Activated
<1>2. ASSUME NEW c \in Cycles
      PROVE  \/ cycle'[c] = cycle[c]
             \/ /\ InTable(cycle, c) /\ cycle'[c] \in Row
                /\ cycle'[c].start = cycle[c].start /\ cycle'[c].end = cycle[c].end
  <2>1. CASE ~InTable(cycle, c)
    BY <1>1, <2>1
  <2>2. CASE InTable(cycle, c)
    <3>1. cycle[c] \in Row
      BY <2>2, Tables
    <3>2. \A st \in {"active", "closed"} :
            /\ [cycle[c] EXCEPT !.status = st] \in Row
            /\ [cycle[c] EXCEPT !.status = st].start = cycle[c].start
            /\ [cycle[c] EXCEPT !.status = st].end = cycle[c].end
      BY <3>1 DEF Row
    <3> QED
      BY <1>1, <2>2, <3>1, <3>2
  <2> QED
    BY <2>1, <2>2
<1>3. \A c \in Cycles : cycle'[c] \in Row \cup {New, Gone}
  BY <1>2, Tables DEF Table
<1>4. cycle' \in Table
  BY <1>1, <1>3 DEF Table
<1>5. ASSUME NEW c \in Active(cycle'), c # request[o].cycle
      PROVE  c \in Active(cycle) \ request[o].closing
  <2>1. c \in Cycles /\ cycle'[c].status = "active"
    BY <1>5 DEF Active
  <2>2. CASE InTable(cycle, c) /\ c \in request[o].closing
    <3>1. cycle'[c] = [cycle[c] EXCEPT !.status = "closed"]
      BY <1>1, <1>5, <2>1, <2>2
    <3>2. cycle'[c].status = "closed"
      BY <2>1, <2>2, <3>1, Tables DEF Row
    <3> QED
      BY <2>1, <3>2
  <2>3. CASE ~(InTable(cycle, c) /\ c \in request[o].closing)
    <3>1. cycle'[c] = cycle[c]
      BY <1>1, <1>5, <2>1, <2>3
    <3> QED
      BY <2>1, <2>3, <3>1 DEF Active, InTable
  <2> QED
    BY <2>2, <2>3
<1> QED
  BY <1>1, <1>2, <1>4, <1>5 DEF InTx
----------------------------------------------------------------------------
LEMMA UpdateActive ==
  ASSUME CycleInvariant, NEW o \in Operators, UpdateCycle(o)
  PROVE  cycle' \in Table /\ Active(cycle') \subseteq Active(cycle)
<1>1. CASE cycle' = cycle
  BY <1>1, Tables
<1>2. CASE cycle' # cycle
  BY <1>2, UpdateEffect DEF Active
<1> QED
  BY <1>1, <1>2

LEMMA CycleStep == ASSUME CycleInvariant, [Next]_vars PROVE CycleInvariant'
<1>1. CASE NextDay
  <2>1. TypeOK' /\ UNCHANGED <<cycle, request>>
    BY <1>1, DaysAssumption DEF NextDay, CycleInvariant, TypeOK
  <2> QED
    BY <2>1 DEF CycleInvariant, RequestOK, WellFormed, Fresh, NoOverlapWith, Alone
<1>2. CASE UNCHANGED vars
  BY <1>2 DEF vars, CycleInvariant, TypeOK, RequestOK, WellFormed, Fresh, NoOverlapWith, Alone
<1>3. ASSUME NEW o \in Operators, NEW c \in Cycles, CreateCycle(o, c) PROVE CycleInvariant'
  BY <1>3, CreateEffect, WriteStep DEF CreateCycle
<1>4. ASSUME NEW o \in Operators, UpdateCycle(o) PROVE CycleInvariant'
  BY <1>4, UpdateActive, WriteStep DEF UpdateCycle
<1>5. ASSUME NEW o \in Operators, CloseCycle(o) PROVE CycleInvariant'
  BY <1>5, CloseEffect, WriteStep DEF CloseCycle
<1>6. ASSUME NEW o \in Operators, DeleteCycle(o) PROVE CycleInvariant'
  BY <1>6, DeleteEffect, WriteStep DEF DeleteCycle
<1>7. ASSUME NEW o \in Operators, ActivateCycle(o) PROVE CycleInvariant'
  BY <1>7, ActivateEffect, WriteStep DEF ActivateCycle, Activated
<1> QED
  BY <1>1, <1>2, <1>3, <1>4, <1>5, <1>6, <1>7, CheckStep, SeeActiveStep, CloseOthersStep,
     BeginCreateStep, BeginDeleteStep, BeginActivateStep, BeginCloseStep, BeginUpdateStep
     DEF Next

LEMMA Invariance == Spec => []CycleInvariant
<1>1. Init => CycleInvariant
  <2> SUFFICES ASSUME Init PROVE CycleInvariant
    OBVIOUS
  <2>1. TypeOK
    BY IdleType, DaysAssumption DEF Init, TypeOK, Table
  <2>2. \A o \in Operators : RequestOK(o)
    BY DEF Init, RequestOK, WellFormed, Fresh, Alone, InTx, Idle
  <2> QED
    BY <2>1, <2>2 DEF CycleInvariant
<1> QED
  BY <1>1, CycleStep, PTL DEF Spec

(* Every variable keeps its type. *)
THEOREM TypeCorrect == Spec => []TypeOK
<1>1. CycleInvariant => TypeOK
  BY DEF CycleInvariant
<1> QED
  BY <1>1, Invariance, PTL
----------------------------------------------------------------------------
(* A step leaves the table alone, or it is a write. *)
LEMMA WritesOnly ==
  ASSUME [Next]_vars
  PROVE  \/ cycle' = cycle
         \/ \E o \in Operators : \/ \E c \in Cycles : CreateCycle(o, c)
                                 \/ UpdateCycle(o) \/ CloseCycle(o) \/ DeleteCycle(o)
                                 \/ ActivateCycle(o)
<1>1. CASE NextDay \/ UNCHANGED vars
  BY <1>1 DEF NextDay, vars
<1>2. ASSUME NEW o \in Operators, CheckDateOverlap(o) \/ SeeActive(o) \/ CloseOthers(o)
      PROVE  cycle' = cycle
  BY <1>2 DEF CheckDateOverlap, SeeActive, CloseOthers
<1>3. ASSUME NEW o \in Operators, NEW start, NEW end, BeginCreate(o, start, end)
      PROVE  cycle' = cycle
  BY <1>3 DEF BeginCreate
<1>4. ASSUME NEW o \in Operators, NEW c \in Cycles, NEW end,
             BeginDelete(o, c) \/ BeginActivate(o, c) \/ BeginClose(o, c, end)
      PROVE  cycle' = cycle
  BY <1>4 DEF BeginDelete, BeginActivate, BeginClose
<1>5. ASSUME NEW o \in Operators, NEW c \in Cycles, NEW sets, NEW start, NEW end,
             BeginUpdate(o, c, sets, start, end)
      PROVE  cycle' = cycle
  BY <1>5 DEF BeginUpdate
<1> QED
  BY <1>1, <1>2, <1>3, <1>4, <1>5 DEF Next

LEMMA WriteEnds ==
  ASSUME CycleInvariant, NEW o \in Operators, Finish(o), request[o].op # "none"
  PROVE  Writes(o)
BY FinishType DEF CycleInvariant, Writes, Idle

LEMMA DatesStep ==
  ASSUME CycleInvariant, [Next]_vars, NEW c \in Cycles, NEW d \in Cycles, c # d,
         Overlap(cycle', c, d), ~Overlap(cycle, c, d)
  PROVE  \E o \in Operators : Writes(o) /\ (request[o].op = "close" \/ request[o].stale)
<1>s. \A table \in {cycle, cycle'} : Overlap(table, c, d) <=> Overlap(table, d, c)
  BY DEF Overlap, Overlaps
<1>1. ASSUME NEW o \in Operators, NEW x \in Cycles, CreateCycle(o, x)
      PROVE  Writes(o) /\ request[o].stale
  <2>1. /\ Writes(o) /\ request[o].cycle = "none"
        /\ request[o].op = "create" /\ request[o].phase = "write"
    BY <1>1, WriteEnds DEF CreateCycle, CycleInvariant, RequestOK, WellFormed
  <2>2. /\ \A e \in Cycles \ {x} : cycle'[e] = cycle[e]
        /\ cycle'[x].start = request[o].start /\ cycle'[x].end = request[o].end
    BY <1>1, CreateEffect
  <2>3. SUFFICES ASSUME ~request[o].stale PROVE FALSE
    BY <2>1
  <2>4. \A e \in Cycles : InTable(cycle, e) => ~Overlaps(request[o].start, request[o].end, cycle[e])
    BY <2>1, <2>3, CyclesAssumption DEF CycleInvariant, RequestOK, Fresh, NoOverlapWith
  <2>5. \A e \in Cycles \ {x} : ~Overlap(cycle', x, e)
    BY <2>2, <2>4 DEF Overlap, Overlaps, InTable
  <2> QED
    BY <1>s, <2>2, <2>5 DEF Overlap, InTable
<1>2. ASSUME NEW o \in Operators, UpdateCycle(o) PROVE Writes(o) /\ request[o].stale
  <2> DEFINE x == request[o].cycle
  <2>1. Writes(o) /\ request[o].op = "update" /\ request[o].phase = "write"
    BY <1>2, WriteEnds DEF UpdateCycle
  <2>2. /\ x \in Cycles /\ InTable(cycle, x)
        /\ \A e \in Cycles \ {x} : cycle'[e] = cycle[e]
        /\ cycle'[x].start = IF "start" \in request[o].sets THEN request[o].start ELSE cycle[x].start
        /\ cycle'[x].end = IF "end" \in request[o].sets THEN request[o].end ELSE cycle[x].end
    BY <1>2, UpdateEffect
  <2>3. SUFFICES ASSUME ~request[o].stale PROVE FALSE
    BY <2>1
  <2>4. Fresh(request[o])
    BY <2>3 DEF CycleInvariant, RequestOK
  <2>5. cycle'[x].start = request[o].start /\ cycle'[x].end = request[o].end
    BY <2>1, <2>2, <2>4 DEF Fresh
  <2>6. \A e \in Cycles \ {x} :
          InTable(cycle, e) => ~Overlaps(request[o].start, request[o].end, cycle[e])
    BY <2>1, <2>4 DEF Fresh, NoOverlapWith
  <2>7. \A e \in Cycles \ {x} : ~Overlap(cycle', x, e)
    BY <2>2, <2>5, <2>6 DEF Overlap, Overlaps, InTable
  <2> QED
    BY <1>s, <2>2, <2>7 DEF Overlap, InTable
<1>3. ASSUME NEW o \in Operators, CloseCycle(o) PROVE Writes(o) /\ request[o].op = "close"
  BY <1>3, WriteEnds DEF CloseCycle
<1>4. ASSUME NEW o \in Operators, DeleteCycle(o) PROVE FALSE
  BY <1>4, DeleteEffect DEF Overlap, InTable
<1>5. ASSUME NEW o \in Operators, ActivateCycle(o) PROVE FALSE
  <2>1. \A e \in Cycles :
          InTable(cycle', e) => /\ InTable(cycle, e) /\ cycle'[e].start = cycle[e].start
                                /\ cycle'[e].end = cycle[e].end
    BY <1>5, ActivateEffect DEF InTable
  <2> QED
    BY <2>1 DEF Overlap, Overlaps
<1> QED
  BY <1>1, <1>2, <1>3, <1>4, <1>5, WritesOnly

(* Two cycles begin to overlap only through a stale check, or a closing. *)
THEOREM OverlapsAreStale == Spec => OverlapNeedsAStaleCheck
<1>1. CycleInvariant /\ [Next]_vars =>
        [\A c, d \in Cycles :
           c # d /\ Overlap(cycle', c, d) /\ ~Overlap(cycle, c, d) =>
             \E o \in Operators : Writes(o) /\ (request[o].op = "close" \/ request[o].stale)]_vars
  BY DatesStep
<1> QED
  BY <1>1, Invariance, PTL DEF Spec, OverlapNeedsAStaleCheck

LEMMA ActiveStep ==
  ASSUME CycleInvariant, [Next]_vars,
         Cardinality(Active(cycle)) <= 1, Cardinality(Active(cycle')) > 1
  PROVE  \E o \in Operators : Writes(o) /\ request[o].overlap
<1>1. ASSUME Active(cycle') \subseteq Active(cycle) PROVE FALSE
  <2>1. IsFiniteSet(Active(cycle))
    BY CyclesAssumption, FS_Subset DEF Active
  <2>2. /\ Cardinality(Active(cycle)) \in Nat /\ Cardinality(Active(cycle')) \in Nat
        /\ Cardinality(Active(cycle')) <= Cardinality(Active(cycle))
    BY <1>1, <2>1, FS_Subset, FS_CardinalityType
  <2> QED
    BY <2>2
<1>2. ASSUME NEW o \in Operators, ActivateCycle(o), ~request[o].overlap PROVE FALSE
  <2>1. Active(cycle) \ {request[o].cycle} \subseteq request[o].closing
    BY <1>2, ActivateEffect DEF CycleInvariant, RequestOK, Alone
  <2>2. Active(cycle') \subseteq {request[o].cycle}
    BY <1>2, <2>1, ActivateEffect
  <2>3. IsFiniteSet({request[o].cycle}) /\ Cardinality({request[o].cycle}) = 1
    BY FS_Singleton
  <2>4. Cardinality(Active(cycle')) \in Nat /\ Cardinality(Active(cycle')) <= 1
    BY <2>2, <2>3, FS_Subset, FS_CardinalityType
  <2> QED
    BY <2>4
<1>3. ASSUME NEW o \in Operators, ActivateCycle(o) PROVE Writes(o) /\ request[o].overlap
  <2>1. request[o].op = "activate"
    BY <1>3, Tables, ActivateEffect, ActivatesInTx DEF CycleInvariant, RequestOK
  <2>2. Finish(o)
    BY <1>3 DEF ActivateCycle, Activated
  <2>3. request[o].overlap \in BOOLEAN
    BY Tables DEF Request
  <2> QED
    BY <1>2, <1>3, <2>1, <2>2, <2>3, WriteEnds
<1> QED
  BY <1>1, <1>3, WritesOnly, Tables, CreateEffect, UpdateActive, CloseEffect, DeleteEffect

(* A second cycle becomes active only through two activations that were open at once. *)
THEOREM SecondActiveIsARace == Spec => SecondActiveNeedsAnOverlap
<1>1. CycleInvariant /\ [Next]_vars =>
        [Cardinality(Active(cycle)) <= 1 /\ Cardinality(Active(cycle')) > 1 =>
           \E o \in Operators : Writes(o) /\ request[o].overlap]_vars
  BY ActiveStep
<1> QED
  BY <1>1, Invariance, PTL DEF Spec, SecondActiveNeedsAnOverlap

LEMMA DeletionStep ==
  ASSUME CycleInvariant, [Next]_vars, NEW c \in Active(cycle), cycle'[c] = Gone
  PROVE  \E o \in Operators : Writes(o) /\ request[o].stale
<1>1. c \in Cycles /\ cycle[c].status = "active" /\ InTable(cycle, c) /\ cycle[c] # Gone
  BY DEF Active, InTable, Gone
<1>2. Gone \notin Row
  BY DEF Gone, Row
<1>3. ASSUME NEW o \in Operators, NEW x \in Cycles, CreateCycle(o, x) PROVE FALSE
  BY <1>1, <1>3, CreateEffect
<1>4. ASSUME NEW o \in Operators, UpdateCycle(o) PROVE FALSE
  BY <1>1, <1>2, <1>4, UpdateEffect
<1>5. ASSUME NEW o \in Operators, CloseCycle(o) PROVE FALSE
  BY <1>5, CloseEffect
<1>6. ASSUME NEW o \in Operators, ActivateCycle(o) PROVE FALSE
  BY <1>1, <1>2, <1>6, ActivateEffect
<1>7. ASSUME NEW o \in Operators, DeleteCycle(o) PROVE Writes(o) /\ request[o].stale
  <2>1. request[o].op = "delete" /\ request[o].cycle = c
    BY <1>1, <1>7, DeleteEffect
  <2>2. Writes(o)
    BY <1>7, <2>1, WriteEnds DEF DeleteCycle
  <2>3. request[o].stale
    BY <1>1, <2>1 DEF CycleInvariant, RequestOK, Fresh
  <2> QED
    BY <2>2, <2>3
<1> QED
  BY <1>1, <1>3, <1>4, <1>5, <1>6, <1>7, WritesOnly

(* Only a stale request deletes the active cycle. *)
THEOREM ActiveIsDeletedStale == Spec => ActiveDeletedOnlyIfStale
<1>1. CycleInvariant /\ [Next]_vars =>
        [(\E c \in Active(cycle) : cycle'[c] = Gone) =>
           \E o \in Operators : Writes(o) /\ request[o].stale]_vars
  BY DeletionStep
<1> QED
  BY <1>1, Invariance, PTL DEF Spec, ActiveDeletedOnlyIfStale
==========================================================================
