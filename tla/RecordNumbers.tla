--------------------------- MODULE RecordNumbers ---------------------------
(***************************************************************************)
(* The numbers of cases, incidents, detection rules and attack paths, such *)
(* as SOC-2026-001 and INC-2026-0001, within one year.                     *)
(*                                                                         *)
(* A create takes the advisory lock of its table, reads the number that is *)
(* the last in the order of TEXT, adds one to it and inserts.  A promotion *)
(* of an AI finding (AiHandoffService) does the same for a case or an      *)
(* incident, without the lock and with a padding of its own.  The column   *)
(* is unique: an insert of a number that exists is refused.                *)
(*                                                                         *)
(* The order of texts is that of the numbers only while all of a table are *)
(* of one length.  They no longer are from the first number that is longer *)
(* than its padding, or the first promotion that pads to another length.   *)
(***************************************************************************)
EXTENDS Integers, FiniteSets

CONSTANTS
  Tables,       \* tables with a numbered column
  Pad,          \* digits that the creates of a table pad to
  Promotable,   \* tables that findings are promoted to
  PromotePad,   \* digits that promotions pad to
  Erasable,     \* tables whose rows are deleted for good
  Issued,       \* rows of a table at the start
  Producers,    \* transactions under way at one time
  Findings,     \* AI findings, proposed at the start
  Base,         \* radix of the numbers
  MaxNew        \* bound: numbers beyond those issued at the start

(* So many numbers, 0 among them, have at most that many digits. *)
Capacity(digits) == Base^digits

ASSUME TablesAssumption ==
  /\ Pad \in [Tables -> Nat \ {0}] /\ PromotePad \in Nat \ {0}
  /\ Promotable \subseteq Tables /\ Erasable \subseteq Tables
ASSUME IssuedAssumption == Issued \in [Tables -> Nat]
ASSUME BaseAssumption == Base \in Nat /\ Base > 1
ASSUME BoundAssumption == MaxNew \in Nat

VARIABLES
  rows,    \* numbers of the rows of a table
  loose,   \* history: those of them that were promoted
  uneven,  \* history: tables that have had rows of two lengths at one time
  holder,  \* transaction that holds the advisory lock of a table, or Nobody
  tx,      \* what a transaction does, and to which table
  status,  \* status of a finding, "proposed" or "applied"
  linked   \* records created from a finding that are linked to it

vars == <<rows, loose, uneven, holder, tx, status, linked>>

Nobody == "nobody"
NoFinding == "none"
NoNumber == [value |-> 0, width |-> 0]
ASSUME NamesAssumption == Nobody \notin Producers /\ NoFinding \notin Findings

(***************************************************************************)
(* The text of a number: its value, and its length when it is padded with  *)
(* zeroes to at least that many digits.  Two texts are compared digit by   *)
(* digit from the left, and a text comes after its own beginning.          *)
(***************************************************************************)
Digits(n) == 1 + Cardinality({w \in 1 .. (n \div Base) : Capacity(w) <= n})

Text(n, pad) == [value |-> n, width |-> IF n < Capacity(pad) THEN pad ELSE Digits(n)]

Head(x, k) == IF x.width = k THEN x.value ELSE x.value \div Capacity(x.width - k)

After(x, y) ==
  LET k == IF x.width <= y.width THEN x.width ELSE y.width IN
  \/ Head(x, k) > Head(y, k)
  \/ Head(x, k) = Head(y, k) /\ x.width > y.width

Latest(t) == {x \in rows[t] : \A y \in rows[t] \ {x} : After(x, y)}

Even(R) == \A x, y \in R : x.width = y.width

(* Mutant: the number of rows instead of the latest one. *)
NextByCount(t, pad) == Text(Cardinality(rows[t]) + 1, pad)

(* buildNextSequenceNumber of the latest text, if there is one. *)
NextNumber(t, pad) ==
  Text(1 + (IF Latest(t) = {} THEN 0 ELSE (CHOOSE x \in Latest(t) : TRUE).value), pad)

Idle == [step |-> "idle"]
Task == [step : {"locked", "draft", "checked", "created", "linked"}, table : Tables,
         number : [value : Nat, width : Nat], finding : Findings \cup {NoFinding}]

Init ==
  /\ rows = [t \in Tables |-> {Text(n, Pad[t]) : n \in 1..Issued[t]}]
  /\ loose = [t \in Tables |-> {}]
  /\ uneven = {t \in Tables : ~Even(rows[t])}
  /\ holder = [t \in Tables |-> Nobody]
  /\ tx = [p \in Producers |-> Idle]
  /\ status = [f \in Findings |-> "proposed"]
  /\ linked = [f \in Findings |-> 0]

Begun(p, step, t, f) ==
  tx' = [tx EXCEPT ![p] = [step |-> step, table |-> t, number |-> NoNumber, finding |-> f]]

(* The end of a transaction gives its lock back. *)
Release(p) == holder' = [t \in Tables |-> IF holder[t] = p THEN Nobody ELSE holder[t]]
----------------------------------------------------------------------------
(* Mutant: the lock is not waited for. *)
BeginWithoutLock(p, t) ==
  /\ tx[p] = Idle
  /\ Begun(p, "locked", t, NoFinding)
  /\ UNCHANGED <<rows, loose, uneven, holder, status, linked>>

(* createCaseTransaction, createIncidentWithTimeline, createRule and createWithNumber: the lock. *)
AcquireAdvisoryLock(p, t) ==
  /\ tx[p] = Idle /\ holder[t] = Nobody
  /\ holder' = [holder EXCEPT ![t] = p]
  /\ Begun(p, "locked", t, NoFinding)
  /\ UNCHANGED <<rows, loose, uneven, status, linked>>

(* The check of promote: the finding is still proposed. *)
CheckProposed(p, t, f) ==
  /\ tx[p] = Idle /\ t \in Promotable /\ status[f] = "proposed"
  /\ Begun(p, "checked", t, f)
  /\ UNCHANGED <<rows, loose, uneven, holder, status, linked>>

(* findFirst of the latest number, and the number after it. *)
DraftNumber(p) ==
  LET t == tx[p].table
      next == NextNumber(t, IF tx[p].step = "locked" THEN Pad[t] ELSE PromotePad)
  IN
  /\ tx[p].step \in {"locked", "checked"}
  /\ next.value <= Issued[t] + MaxNew
  /\ tx' = [tx EXCEPT ![p].step = "draft", ![p].number = next]
  /\ UNCHANGED <<rows, loose, uneven, holder, status, linked>>

(* The unique index lets the number of p in. *)
Insert(p) ==
  LET t == tx[p].table
      n == tx[p].number
  IN
  /\ tx[p].step = "draft" /\ n \notin rows[t]
  /\ rows' = [rows EXCEPT ![t] = @ \cup {n}]
  /\ uneven' = uneven \cup {u \in {t} : ~Even(rows[t] \cup {n})}

(* The insert of a create, and its commit. *)
InsertCreated(p) ==
  /\ Insert(p) /\ tx[p].finding = NoFinding
  /\ tx' = [tx EXCEPT ![p] = Idle]
  /\ Release(p)
  /\ UNCHANGED <<loose, status, linked>>

(* The insert of a promotion, and its commit. *)
InsertPromoted(p) ==
  /\ Insert(p) /\ tx[p].finding # NoFinding
  /\ loose' = [loose EXCEPT ![tx[p].table] = @ \cup {tx[p].number}]
  /\ tx' = [tx EXCEPT ![p].step = "created"]
  /\ UNCHANGED <<holder, status, linked>>

(* The unique index refuses the number, or something else ends the request, between any two
   of its steps. *)
Fail(p) ==
  /\ tx[p] # Idle
  /\ tx' = [tx EXCEPT ![p] = Idle]
  /\ Release(p)
  /\ UNCHANGED <<rows, loose, uneven, status, linked>>

LinkFinding(p) ==
  /\ tx[p].step = "created"
  /\ linked' = [linked EXCEPT ![tx[p].finding] = @ + 1]
  /\ tx' = [tx EXCEPT ![p].step = "linked"]
  /\ UNCHANGED <<rows, loose, uneven, holder, status>>

(* Mutants: the finding is applied before it is linked; it gets a status that does not exist. *)
ApplyAsPromoted(p) ==
  /\ tx[p].step = "linked"
  /\ status' = [status EXCEPT ![tx[p].finding] = "promoted"]
  /\ tx' = [tx EXCEPT ![p] = Idle]
  /\ UNCHANGED <<rows, loose, uneven, holder, linked>>
ApplyUnlinkedFinding(p) ==
  /\ tx[p].step \in {"created", "linked"}
  /\ status' = [status EXCEPT ![tx[p].finding] = "applied"]
  /\ tx' = [tx EXCEPT ![p] = Idle]
  /\ UNCHANGED <<rows, loose, uneven, holder, linked>>

ApplyFinding(p) ==
  /\ tx[p].step = "linked"
  /\ status' = [status EXCEPT ![tx[p].finding] = "applied"]
  /\ tx' = [tx EXCEPT ![p] = Idle]
  /\ UNCHANGED <<rows, loose, uneven, holder, linked>>

(* A row is deleted for good: the number of the last one will be issued again. *)
Delete(t, x) ==
  /\ t \in Erasable /\ x \in rows[t]
  /\ rows' = [rows EXCEPT ![t] = @ \ {x}]
  /\ loose' = [loose EXCEPT ![t] = @ \ {x}]
  /\ UNCHANGED <<uneven, holder, tx, status, linked>>
----------------------------------------------------------------------------
Next ==
  \/ \E p \in Producers, t \in Tables :
       AcquireAdvisoryLock(p, t) \/ \E f \in Findings : CheckProposed(p, t, f)
  \/ \E p \in Producers :
       \/ DraftNumber(p) \/ InsertCreated(p) \/ InsertPromoted(p) \/ Fail(p)
       \/ LinkFinding(p) \/ ApplyFinding(p)
  \/ \E t \in Tables : \E x \in rows[t] : Delete(t, x)

Spec == Init /\ [][Next]_vars
----------------------------------------------------------------------------
(* The type of every variable. *)
TypeOK ==
  /\ rows \in [Tables -> SUBSET [value : Nat, width : Nat]]
  /\ \A t \in Tables : loose[t] \subseteq rows[t]
  /\ uneven \subseteq Tables
  /\ holder \in [Tables -> Producers \cup {Nobody}]
  /\ tx \in [Producers -> Task \cup {Idle}]
  /\ status \in [Findings -> {"proposed", "applied"}]
  /\ linked \in [Findings -> Nat]

(* The number a create is about to insert is in the table, and was not put there by a promotion,
   which does not take the lock. *)
Taken(p) ==
  /\ tx[p] # Idle /\ tx[p].step = "draft" /\ tx[p].finding = NoFinding
  /\ tx[p].number \in rows[tx[p].table] \ loose[tx[p].table]

(* The number "is generated under a PostgreSQL advisory lock inside a transaction to avoid
   duplicate sequential numbers": what a create is about to insert is refused only when a
   promotion has inserted it in between. *)
DraftIsFree == \A p \in Producers : ~Taken(p)

(* ... which is so while the numbers of a table are of one length: only where they have not been
   can a create be refused for another reason. *)
RefusedOnlyIfUneven == \A p \in Producers : Taken(p) => tx[p].table \in uneven

(* Numbers are issued in order, whoever inserts them and whatever is deleted meanwhile: a new
   row comes after every other one, up to the first of another length.  Not so where rows are
   both promoted and deleted. *)
NumbersRise ==
  [][\A t \in Tables \ ((Promotable \cap Erasable) \cup uneven') :
       \A x \in rows'[t] \ rows[t], y \in rows[t] : y.value < x.value]_vars

(* Whichever step of a promotion fails, a finding that is applied has its record linked. *)
AppliedIsLinked == \A f \in Findings : status[f] = "applied" => linked[f] > 0
============================================================================
