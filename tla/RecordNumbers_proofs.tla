----------------------- MODULE RecordNumbers_proofs -----------------------
(***************************************************************************)
(* Theorems about RecordNumbers, for any number of tables, transactions    *)
(* and findings, and for any paddings: what is said of a table that has    *)
(* had numbers of two lengths is only that it has.                         *)
(***************************************************************************)
EXTENDS RecordNumbers, FiniteSetTheorems, WellFoundedInduction, TLAPS

Fields == {"step", "table", "number", "finding"}

(* What a transaction that is not idle has set out to do. *)
Promotes(x) ==
  /\ DOMAIN x = Fields
  /\ x.step \in {"locked", "draft", "checked", "created", "linked"}
  /\ x.finding \in Findings \cup {NoFinding}
  /\ x.step \in {"checked", "created", "linked"} => x.finding \in Findings

LinkInvariant ==
  /\ tx = [p \in Producers |-> tx[p]]
  /\ \A p \in Producers : tx[p] = Idle \/ Promotes(tx[p])
  /\ status = [f \in Findings |-> status[f]]
  /\ linked \in [Findings -> Nat]
  /\ \A p \in Producers : tx[p].step = "linked" => linked[tx[p].finding] > 0
  /\ \A f \in Findings : status[f] = "applied" => linked[f] > 0

(* A transaction that moves on without linking or applying anything. *)
LEMMA MovesOn ==
  ASSUME LinkInvariant, UNCHANGED <<status, linked>>, NEW p \in Producers, NEW x,
         tx' = [tx EXCEPT ![p] = x], x = Idle \/ Promotes(x), x.step # "linked"
  PROVE  LinkInvariant'
<1>1. tx'[p] = x /\ \A q \in Producers \ {p} : tx'[q] = tx[q]
  BY DEF LinkInvariant
<1>2. tx' = [q \in Producers |-> tx'[q]]
  BY DEF LinkInvariant
<1>3. \A q \in Producers : tx'[q] = Idle \/ Promotes(tx'[q])
  BY <1>1 DEF LinkInvariant
<1>4. \A q \in Producers : tx'[q].step = "linked" => linked[tx'[q].finding] > 0
  BY <1>1 DEF LinkInvariant
<1> QED
  BY <1>2, <1>3, <1>4 DEF LinkInvariant, Promotes

LEMMA NextStep ==
  ASSUME NEW x, Promotes(x), NEW st
  PROVE  LET y == [x EXCEPT !.step = st] IN
         DOMAIN y = Fields /\ y.step = st /\ y.finding = x.finding
BY DEF Promotes, Fields

LEMMA LinkStep == ASSUME LinkInvariant, [Next]_vars PROVE LinkInvariant'
<1>i. Idle.step = "idle"
  BY DEF Idle
<1>p. \A p \in Producers : tx[p].step # "idle" => Promotes(tx[p])
  BY <1>i DEF LinkInvariant
<1>1. ASSUME NEW p \in Producers, NEW t, AcquireAdvisoryLock(p, t) PROVE LinkInvariant'
  <2> DEFINE x == [step |-> "locked", table |-> t, number |-> NoNumber, finding |-> NoFinding]
  <2>1. tx' = [tx EXCEPT ![p] = x] /\ UNCHANGED <<status, linked>>
    BY <1>1 DEF AcquireAdvisoryLock, Begun
  <2>2. Promotes(x) /\ x.step = "locked"
    BY DEF Promotes, Fields
  <2> HIDE DEF x
  <2> QED
    BY <2>1, <2>2, MovesOn
<1>2. ASSUME NEW p \in Producers, NEW t, NEW f \in Findings, CheckProposed(p, t, f)
      PROVE  LinkInvariant'
  <2> DEFINE x == [step |-> "checked", table |-> t, number |-> NoNumber, finding |-> f]
  <2>1. tx' = [tx EXCEPT ![p] = x] /\ UNCHANGED <<status, linked>>
    BY <1>2 DEF CheckProposed, Begun
  <2>2. Promotes(x) /\ x.step = "checked"
    BY DEF Promotes, Fields
  <2> HIDE DEF x
  <2> QED
    BY <2>1, <2>2, MovesOn
<1>3. ASSUME NEW p \in Producers, DraftNumber(p) PROVE LinkInvariant'
  <2>1. PICK n : tx' = [tx EXCEPT ![p].step = "draft", ![p].number = n]
    BY <1>3 DEF DraftNumber
  <2> DEFINE x == [tx[p] EXCEPT !.step = "draft", !.number = n]
  <2>2. tx' = [tx EXCEPT ![p] = x] /\ UNCHANGED <<status, linked>>
    BY <1>3, <2>1 DEF DraftNumber, LinkInvariant
  <2>3. Promotes(tx[p])
    BY <1>3, <1>p DEF DraftNumber
  <2>4. Promotes(x) /\ x.step = "draft"
    BY <2>3 DEF Promotes, Fields
  <2> HIDE DEF x
  <2> QED
    BY <2>2, <2>4, MovesOn
<1>4. ASSUME NEW p \in Producers, InsertCreated(p) \/ Fail(p) PROVE LinkInvariant'
  BY <1>4, <1>i, MovesOn DEF InsertCreated, Fail
<1>5. ASSUME NEW p \in Producers, InsertPromoted(p) PROVE LinkInvariant'
  <2> DEFINE x == [tx[p] EXCEPT !.step = "created"]
  <2>1. tx' = [tx EXCEPT ![p] = x] /\ UNCHANGED <<status, linked>>
    BY <1>5 DEF InsertPromoted, LinkInvariant
  <2>2. Promotes(tx[p]) /\ tx[p].finding # NoFinding
    BY <1>5, <1>p DEF InsertPromoted, Insert
  <2>3. Promotes(x) /\ x.step = "created"
    BY <2>2, NextStep DEF Promotes
  <2> HIDE DEF x
  <2> QED
    BY <2>1, <2>3, MovesOn
<1>6. ASSUME NEW p \in Producers, LinkFinding(p) PROVE LinkInvariant'
  <2> DEFINE f == tx[p].finding
             x == [tx[p] EXCEPT !.step = "linked"]
  <2>1. /\ tx' = [tx EXCEPT ![p] = x] /\ status' = status
        /\ linked' = [linked EXCEPT ![f] = @ + 1]
    BY <1>6 DEF LinkFinding, LinkInvariant
  <2>2. Promotes(tx[p]) /\ f \in Findings
    BY <1>6, <1>p DEF LinkFinding, Promotes
  <2>3. Promotes(x) /\ x.finding = f
    BY <2>2, NextStep DEF Promotes
  <2>4. /\ linked' \in [Findings -> Nat] /\ linked'[f] > 0
        /\ \A g \in Findings : linked[g] > 0 => linked'[g] > 0
    BY <2>1, <2>2 DEF LinkInvariant
  <2> HIDE DEF x, f
  <2>5. tx'[p] = x /\ \A q \in Producers \ {p} : tx'[q] = tx[q]
    BY <2>1 DEF LinkInvariant
  <2>6. tx' = [q \in Producers |-> tx'[q]]
    BY <2>1 DEF LinkInvariant
  <2>7. \A q \in Producers : tx'[q] = Idle \/ Promotes(tx'[q])
    BY <2>3, <2>5 DEF LinkInvariant
  <2>8. ASSUME NEW q \in Producers, tx'[q].step = "linked" PROVE linked'[tx'[q].finding] > 0
    <3>1. CASE q = p
      BY <2>3, <2>4, <2>5, <3>1
    <3>2. CASE q # p
      <4>1. tx[q].step = "linked" /\ tx[q].finding \in Findings /\ tx'[q] = tx[q]
        BY <1>p, <2>5, <2>8, <3>2 DEF Promotes
      <4> QED
        BY <2>4, <4>1 DEF LinkInvariant
    <3> QED
      BY <3>1, <3>2
  <2> QED
    BY <2>1, <2>4, <2>6, <2>7, <2>8 DEF LinkInvariant, Promotes
<1>7. ASSUME NEW p \in Producers, ApplyFinding(p) PROVE LinkInvariant'
  <2>1. /\ tx' = [tx EXCEPT ![p] = Idle] /\ linked' = linked
        /\ status' = [status EXCEPT ![tx[p].finding] = "applied"]
        /\ linked[tx[p].finding] > 0
    BY <1>7 DEF ApplyFinding, LinkInvariant
  <2>2. tx'[p] = Idle /\ \A q \in Producers \ {p} : tx'[q] = tx[q]
    BY <2>1 DEF LinkInvariant
  <2>3. tx' = [q \in Producers |-> tx'[q]]
    BY <2>1 DEF LinkInvariant
  <2>4. status' = [f \in Findings |-> status'[f]]
    BY <2>1 DEF LinkInvariant
  <2>5. \A f \in Findings : status'[f] = "applied" => linked[f] > 0
    BY <2>1 DEF LinkInvariant
  <2> QED
    BY <1>i, <2>1, <2>2, <2>3, <2>4, <2>5 DEF LinkInvariant, Promotes
<1>8. CASE UNCHANGED <<tx, status, linked>>
  BY <1>8 DEF LinkInvariant, Promotes
<1>9. ASSUME NEW t, NEW x, Delete(t, x) PROVE LinkInvariant'
  BY <1>8, <1>9 DEF Delete
<1>10. CASE UNCHANGED vars
  BY <1>8, <1>10 DEF vars
<1> QED
  BY <1>1, <1>2, <1>3, <1>4, <1>5, <1>6, <1>7, <1>9, <1>10 DEF Next

(* A finding that is applied has its record linked, whichever step of a promotion fails. *)
THEOREM PromotionsInOrder == Spec => []AppliedIsLinked
<1>1. Init => LinkInvariant
  BY DEF Init, LinkInvariant, Idle
<1>2. LinkInvariant => AppliedIsLinked
  BY DEF LinkInvariant, AppliedIsLinked
<1> QED
  BY <1>1, <1>2, LinkStep, PTL DEF Spec
----------------------------------------------------------------------------
(* The numbers of a table, of any length. *)
Number(t) == [value : 1 .. Issued[t] + MaxNew, width : Nat]

LEMMA Least == ASSUME NEW T \in SUBSET Nat, T # {} PROVE \E x \in T : \A y \in T : x <= y
<1> DEFINE R == {ss \in Nat \X Nat : ss[1] < ss[2]}
<1>1. OpToRel(<, Nat) = R
  BY DEF OpToRel
<1>2. IsWellFoundedOn(R, Nat)
  BY <1>1, NatLessThanWellFounded
<1>3. \A x, y \in Nat : <<y, x>> \in R <=> y < x
  OBVIOUS
<1> HIDE DEF R
<1>4. PICK x \in T : \A y \in T : ~(<<y, x>> \in R)
  BY <1>2, WFMin
<1>5. ASSUME NEW y \in T PROVE x <= y
  <2>1. x \in Nat /\ y \in Nat /\ ~(y < x)
    BY <1>3, <1>4
  <2> QED
    BY <2>1
<1> QED
  BY <1>5

LEMMA TextType ==
  ASSUME NEW n \in Nat, NEW pad \in Nat
  PROVE  Text(n, pad).value = n /\ Text(n, pad) \in [value : {n}, width : Nat]
<1> DEFINE I == 1 .. (n \div Base)
           W == {w \in I : Capacity(w) <= n}
<1>1. n \div Base \in Int
  BY BaseAssumption
<1>2. IsFiniteSet(I)
  BY <1>1, FS_Interval
<1>3. Cardinality(W) \in Nat
  BY <1>2, FS_Subset, FS_CardinalityType
<1>4. Digits(n) = 1 + Cardinality(W)
  BY DEF Digits
<1>5. Digits(n) \in Nat
  BY <1>3, <1>4
<1> QED
  BY <1>5 DEF Text

(* The order of texts of one length is the order of the numbers. *)
LEMMA LaterIsGreater ==
  ASSUME NEW t \in Tables, NEW x \in Number(t), NEW y \in Number(t), x.width = y.width
  PROVE  After(x, y) <=> x.value > y.value
<1>1. x.width \in Nat /\ y.width \in Nat
  BY DEF Number
<1>2. Head(x, x.width) = x.value /\ Head(y, x.width) = y.value
  BY <1>1 DEF Head
<1> QED
  BY <1>1, <1>2 DEF After

LEMMA LatestIsGreatest ==
  ASSUME NEW t \in Tables, rows[t] \subseteq Number(t), Even(rows[t]), rows[t] # {}
  PROVE  \E x \in rows[t] : Latest(t) = {x} /\ \A y \in rows[t] \ {x} : y.value < x.value
<1> DEFINE top == Issued[t] + MaxNew
           T == {n \in Nat : \E x \in rows[t] : n = top - x.value}
<1>1. top \in Nat
  BY IssuedAssumption, BoundAssumption
<1>2. \A x \in rows[t] : x.value \in 1 .. top /\ top - x.value \in T
  BY <1>1 DEF Number
<1>3. T # {} /\ T \in SUBSET Nat
  BY <1>2
<1>4. PICK n \in T : \A m \in T : n <= m
  <2> HIDE DEF T
  <2> QED
    BY <1>3, Least
<1>5. PICK x \in rows[t] : n = top - x.value
  BY <1>4
<1>6. ASSUME NEW y \in rows[t] \ {x} PROVE y.value < x.value
  <2>1. y.value <= x.value
    BY <1>1, <1>2, <1>4, <1>5
  <2>2. y.value # x.value
    <3>1. x = [value |-> x.value, width |-> x.width] /\ y = [value |-> y.value, width |-> y.width]
      BY DEF Number
    <3>2. x.width = y.width
      BY DEF Even
    <3> QED
      BY <3>1, <3>2
  <2> QED
    BY <1>1, <1>2, <2>1, <2>2
<1>7. \A z, y \in rows[t] : After(z, y) <=> z.value > y.value
  BY LaterIsGreater DEF Even
<1>8. x \in Latest(t)
  BY <1>2, <1>6, <1>7 DEF Latest
<1>9. ASSUME NEW z \in Latest(t) PROVE z = x
  BY <1>1, <1>2, <1>6, <1>7 DEF Latest
<1> QED
  BY <1>6, <1>8, <1>9

(* What the next number is: while they are of one length, one more than the greatest. *)
LEMMA NextIs ==
  ASSUME NEW t \in Tables, rows[t] \subseteq Number(t), NEW pad \in Nat,
         NEW n, n = NextNumber(t, pad), n.value <= Issued[t] + MaxNew
  PROVE  /\ n \in Number(t)
         /\ Even(rows[t]) => /\ \A y \in rows[t] : y.value < n.value
                             /\ n.value = 1 \/ \E y \in rows[t] : n.value = y.value + 1
<1> DEFINE last == IF Latest(t) = {} THEN 0 ELSE (CHOOSE x \in Latest(t) : TRUE).value
<1>1. \A y \in rows[t] : y.value \in Nat
  BY IssuedAssumption, BoundAssumption DEF Number
<1>2. last \in Nat
  <2>1. CASE Latest(t) = {}
    BY <2>1
  <2>2. CASE Latest(t) # {}
    <3>1. (CHOOSE x \in Latest(t) : TRUE) \in rows[t]
      BY <2>2 DEF Latest
    <3> QED
      BY <1>1, <2>2, <3>1
  <2> QED
    BY <2>1, <2>2
<1>3. ASSUME Even(rows[t])
      PROVE  /\ \A y \in rows[t] : y.value <= last
             /\ last = 0 \/ \E y \in rows[t] : y.value = last
  <2>1. CASE rows[t] = {}
    BY <2>1 DEF Latest
  <2>2. CASE rows[t] # {}
    <3>1. PICK x \in rows[t] : Latest(t) = {x} /\ \A y \in rows[t] \ {x} : y.value < x.value
      BY <1>3, <2>2, LatestIsGreatest
    <3>2. last = x.value
      BY <3>1
    <3> QED
      BY <1>1, <3>1, <3>2
  <2> QED
    BY <2>1, <2>2
<1>4. n = Text(1 + last, pad)
  BY DEF NextNumber
<1> HIDE DEF last
<1>5. n.value = 1 + last /\ n \in [value : {1 + last}, width : Nat]
  BY <1>2, <1>4, TextType
<1>6. n \in Number(t)
  BY <1>2, <1>5, IssuedAssumption, BoundAssumption DEF Number
<1> QED
  BY <1>1, <1>2, <1>3, <1>5, <1>6
----------------------------------------------------------------------------
Texts == [value : Nat, width : Nat]

(* A transaction under way: a create is given its table with the lock, a promotion its finding
   and a table findings are promoted to, and each a number of the table. *)
Shape(x) ==
  /\ x \in Task
  /\ x.step = "locked" => x.finding = NoFinding
  /\ x.step \in {"checked", "created", "linked"} => x.finding # NoFinding
  /\ x.finding # NoFinding => x.table \in Promotable
  /\ x.step = "draft" => x.number \in Number(x.table)

RowTypes ==
  /\ rows \in [Tables -> SUBSET Texts] /\ loose \in [Tables -> SUBSET Texts]
  /\ \A t \in Tables : rows[t] \subseteq Number(t) /\ loose[t] \subseteq rows[t]
  /\ \A t \in Tables \ Promotable : loose[t] = {}
  /\ uneven \subseteq Tables /\ \A t \in Tables \ uneven : Even(rows[t])

TxTypes ==
  /\ tx \in [Producers -> Task \cup {Idle}]
  /\ \A p \in Producers : tx[p] = Idle \/ Shape(tx[p])

OtherTypes ==
  /\ holder \in [Tables -> Producers \cup {Nobody}]
  /\ status \in [Findings -> {"proposed", "applied"}]
  /\ linked \in [Findings -> Nat]

NumberTypes == RowTypes /\ TxTypes /\ OtherTypes

LEMMA NumberInTexts == ASSUME NEW t \in Tables PROVE Number(t) \subseteq Texts
BY IssuedAssumption, BoundAssumption DEF Number, Texts

LEMMA TxMoves ==
  ASSUME TxTypes, NEW p \in Producers, NEW x, x = Idle \/ Shape(x), tx' = [tx EXCEPT ![p] = x]
  PROVE  /\ TxTypes'
         /\ tx'[p] = x /\ \A q \in Producers \ {p} : tx'[q] = tx[q]
<1>1. x \in Task \cup {Idle}
  BY DEF Shape
<1>2. /\ tx' \in [Producers -> Task \cup {Idle}]
      /\ tx'[p] = x /\ \A q \in Producers \ {p} : tx'[q] = tx[q]
  BY <1>1 DEF TxTypes
<1> QED
  BY <1>2 DEF TxTypes, Shape, Number

(* A transaction that is not idle is one of the shapes. *)
LEMMA Busy ==
  ASSUME TxTypes, NEW p \in Producers, tx[p].step # "idle" \/ tx[p] # Idle
  PROVE  tx[p] # Idle /\ Shape(tx[p])
BY DEF TxTypes, Idle

(* What the steps of a transaction make of it. *)
LEMMA BeginsCreate ==
  ASSUME TxTypes, NEW p \in Producers, NEW t \in Tables, AcquireAdvisoryLock(p, t)
  PROVE  \E x : /\ tx' = [tx EXCEPT ![p] = x] /\ Shape(x)
                /\ x.step = "locked" /\ x.table = t /\ x.finding = NoFinding
<1> DEFINE x == [step |-> "locked", table |-> t, number |-> NoNumber, finding |-> NoFinding]
<1>1. tx' = [tx EXCEPT ![p] = x]
  BY DEF AcquireAdvisoryLock, Begun
<1>2. Shape(x) /\ x.step = "locked" /\ x.table = t /\ x.finding = NoFinding
  BY DEF Shape, Task, NoNumber
<1> QED
  BY <1>1, <1>2

LEMMA BeginsPromotion ==
  ASSUME TxTypes, NEW p \in Producers, NEW t \in Tables, NEW f \in Findings, CheckProposed(p, t, f)
  PROVE  \E x : /\ tx' = [tx EXCEPT ![p] = x] /\ Shape(x)
                /\ x.step = "checked" /\ x.table = t /\ x.finding # NoFinding
<1> DEFINE x == [step |-> "checked", table |-> t, number |-> NoNumber, finding |-> f]
<1>1. tx' = [tx EXCEPT ![p] = x] /\ t \in Promotable
  BY DEF CheckProposed, Begun
<1>2. f # NoFinding
  BY NamesAssumption
<1>3. Shape(x) /\ x.step = "checked" /\ x.table = t /\ x.finding # NoFinding
  BY <1>1, <1>2 DEF Shape, Task, NoNumber
<1> QED
  BY <1>1, <1>3

LEMMA Drafts ==
  ASSUME RowTypes, TxTypes, NEW p \in Producers, DraftNumber(p)
  PROVE  LET t == tx[p].table IN
         \E x : /\ tx' = [tx EXCEPT ![p] = x] /\ Shape(x)
                /\ x.step = "draft" /\ x.table = t /\ x.finding = tx[p].finding
                /\ t \notin uneven =>
                     /\ \A y \in rows[t] : y.value < x.number.value
                     /\ x.number.value = 1 \/ \E y \in rows[t] : x.number.value = y.value + 1
<1> DEFINE t == tx[p].table
           pad == IF tx[p].step = "locked" THEN Pad[t] ELSE PromotePad
           n == NextNumber(t, pad)
           x == [tx[p] EXCEPT !.step = "draft", !.number = n]
<1>1. /\ tx[p].step \in {"locked", "checked"} /\ n.value <= Issued[t] + MaxNew
      /\ tx' = [tx EXCEPT ![p].step = "draft", ![p].number = n]
  BY DEF DraftNumber
<1>2. Shape(tx[p])
  BY <1>1, Busy
<1>3. t \in Tables /\ tx[p] \in Task /\ rows[t] \subseteq Number(t)
  BY <1>2 DEF Shape, Task, RowTypes
<1>4. pad \in Nat
  BY <1>3, TablesAssumption
<1>n. n = NextNumber(t, pad)
  OBVIOUS
<1> HIDE DEF n, pad
<1>5. /\ n \in Number(t)
      /\ t \notin uneven => /\ \A y \in rows[t] : y.value < n.value
                            /\ n.value = 1 \/ \E y \in rows[t] : n.value = y.value + 1
  <2>1. t \notin uneven => Even(rows[t])
    BY <1>3 DEF RowTypes
  <2> QED
    BY <1>1, <1>3, <1>4, <1>n, <2>1, NextIs
<1>6. /\ x.step = "draft" /\ x.table = t /\ x.number = n /\ x.finding = tx[p].finding
      /\ x \in Task
  BY <1>3, <1>5, NumberInTexts DEF Task, Texts
<1>7. tx' = [tx EXCEPT ![p] = x]
  BY <1>1 DEF TxTypes
<1>8. Shape(x)
  <2> HIDE DEF x
  <2> QED
    BY <1>2, <1>5, <1>6 DEF Shape
<1> HIDE DEF x
<1>9. t \notin uneven =>
        /\ \A y \in rows[t] : y.value < x.number.value
        /\ x.number.value = 1 \/ \E y \in rows[t] : x.number.value = y.value + 1
  BY <1>5, <1>6
<1> HIDE DEF t
<1> QED
  BY <1>6, <1>7, <1>8, <1>9 DEF t

LEMMA PromotionGoesOn ==
  ASSUME TxTypes, NEW p \in Producers, InsertPromoted(p) \/ LinkFinding(p)
  PROVE  \E x : /\ tx' = [tx EXCEPT ![p] = x] /\ Shape(x) /\ tx[p].finding # NoFinding
                /\ x.step \in {"created", "linked"} /\ x.finding # NoFinding
<1>1. PICK st \in {"created", "linked"} : tx' = [tx EXCEPT ![p].step = st]
  BY DEF InsertPromoted, LinkFinding
<1>2. Shape(tx[p]) /\ tx[p].finding # NoFinding
  <2>1. tx[p].step \in {"draft", "created"}
    BY DEF InsertPromoted, Insert, LinkFinding
  <2>2. Shape(tx[p])
    BY <2>1, Busy
  <2> QED
    BY <2>2 DEF InsertPromoted, LinkFinding, Shape
<1> DEFINE x == [tx[p] EXCEPT !.step = st]
<1>3. tx' = [tx EXCEPT ![p] = x]
  BY <1>1 DEF TxTypes
<1>4. x.step = st /\ x.finding = tx[p].finding /\ x.table = tx[p].table /\ x \in Task
  BY <1>2 DEF Shape, Task
<1> HIDE DEF x
<1>5. Shape(x)
  BY <1>2, <1>4 DEF Shape
<1> QED
  BY <1>2, <1>3, <1>4, <1>5

(* The insert of a create or of a promotion. *)
LEMMA Inserts ==
  ASSUME RowTypes, TxTypes, NEW p \in Producers, InsertCreated(p) \/ InsertPromoted(p)
  PROVE  LET t == tx[p].table
             n == tx[p].number
         IN  /\ tx[p] # Idle /\ Shape(tx[p]) /\ tx[p].step = "draft"
             /\ t \in Tables /\ n \in Number(t) /\ n \notin rows[t]
             /\ rows' = [rows EXCEPT ![t] = @ \cup {n}]
             /\ rows'[t] = rows[t] \cup {n} /\ \A u \in Tables \ {t} : rows'[u] = rows[u]
             /\ uneven \subseteq uneven' /\ uneven' \subseteq uneven \cup {t}
             /\ t \notin uneven' => Even(rows[t] \cup {n})
<1>1. /\ tx[p].step = "draft" /\ tx[p].number \notin rows[tx[p].table]
      /\ rows' = [rows EXCEPT ![tx[p].table] = @ \cup {tx[p].number}]
  BY DEF InsertCreated, InsertPromoted, Insert
<1>u. /\ uneven \subseteq uneven' /\ uneven' \subseteq uneven \cup {tx[p].table}
      /\ tx[p].table \notin uneven' => Even(rows[tx[p].table] \cup {tx[p].number})
  <2> DEFINE even == Even(rows[tx[p].table] \cup {tx[p].number})
  <2>1. uneven' = uneven \cup {u \in {tx[p].table} : ~even}
    BY DEF InsertCreated, InsertPromoted, Insert
  <2> HIDE DEF even
  <2>2. \A u : u \in uneven' <=> u \in uneven \/ (u = tx[p].table /\ ~even)
    BY <2>1
  <2>3. tx[p].table \notin uneven' => even
    BY <2>2
  <2> QED
    BY <2>2, <2>3 DEF even
<1>2. tx[p] # Idle /\ Shape(tx[p])
  BY <1>1, Busy
<1>3. tx[p].table \in Tables /\ tx[p].number \in Number(tx[p].table)
  BY <1>1, <1>2 DEF Shape, Task
<1> QED
  BY <1>1, <1>2, <1>3, <1>u DEF RowTypes

LEMMA RowTypesStep == ASSUME NumberTypes, [Next]_vars PROVE RowTypes'
<1> USE DEF NumberTypes
<1>0. CASE UNCHANGED <<rows, loose, uneven>>
  BY <1>0 DEF RowTypes, Number, Even
<1>1. ASSUME NEW p \in Producers, InsertCreated(p) PROVE RowTypes'
  <2> DEFINE t == tx[p].table
             n == tx[p].number
  <2>1. /\ t \in Tables /\ n \in Number(t)
        /\ rows' = [rows EXCEPT ![t] = @ \cup {n}] /\ loose' = loose
        /\ uneven \subseteq uneven' /\ uneven' \subseteq uneven \cup {t}
        /\ t \notin uneven' => Even(rows[t] \cup {n})
    BY <1>1, Inserts DEF InsertCreated
  <2>2. Number(t) \subseteq Texts
    BY <2>1, NumberInTexts
  <2> HIDE DEF t, n
  <2> QED
    BY <2>1, <2>2 DEF RowTypes, Number, Even
<1>2. ASSUME NEW p \in Producers, InsertPromoted(p) PROVE RowTypes'
  <2> DEFINE t == tx[p].table
             n == tx[p].number
  <2>1. /\ t \in Tables /\ n \in Number(t) /\ Shape(tx[p])
        /\ rows' = [rows EXCEPT ![t] = @ \cup {n}]
        /\ loose' = [loose EXCEPT ![t] = @ \cup {n}]
        /\ uneven \subseteq uneven' /\ uneven' \subseteq uneven \cup {t}
        /\ t \notin uneven' => Even(rows[t] \cup {n})
    BY <1>2, Inserts DEF InsertPromoted
  <2>2. t \in Promotable /\ Number(t) \subseteq Texts
    BY <1>2, <2>1, NumberInTexts DEF InsertPromoted, Shape
  <2> HIDE DEF t, n
  <2> QED
    BY <2>1, <2>2 DEF RowTypes, Number, Even
<1>3. ASSUME NEW t \in Tables, NEW x \in rows[t], Delete(t, x) PROVE RowTypes'
  BY <1>3 DEF Delete, RowTypes, Number, Even
<1>4. CASE UNCHANGED vars
  BY <1>0, <1>4 DEF vars
<1> QED
  BY <1>0, <1>1, <1>2, <1>3, <1>4 DEF Next, AcquireAdvisoryLock, CheckProposed, DraftNumber, Fail,
     LinkFinding, ApplyFinding

LEMMA TxTypesStep ==
  ASSUME NumberTypes, [Next]_vars
  PROVE  TxTypes'
<1> USE DEF NumberTypes
<1>1. ASSUME NEW p \in Producers, NEW t \in Tables, AcquireAdvisoryLock(p, t) PROVE TxTypes'
  BY <1>1, BeginsCreate, TxMoves
<1>2. ASSUME NEW p \in Producers, NEW t \in Tables, NEW f \in Findings, CheckProposed(p, t, f)
      PROVE  TxTypes'
  BY <1>2, BeginsPromotion, TxMoves
<1>3. ASSUME NEW p \in Producers, DraftNumber(p) PROVE TxTypes'
  <2>1. PICK x : tx' = [tx EXCEPT ![p] = x] /\ Shape(x)
    BY <1>3, Drafts
  <2> QED
    BY <2>1, TxMoves
<1>4. ASSUME NEW p \in Producers, InsertPromoted(p) \/ LinkFinding(p) PROVE TxTypes'
  BY <1>4, PromotionGoesOn, TxMoves
<1>5. ASSUME NEW p \in Producers, InsertCreated(p) \/ Fail(p) \/ ApplyFinding(p) PROVE TxTypes'
  BY <1>5, TxMoves DEF InsertCreated, Fail, ApplyFinding
<1>6. CASE UNCHANGED tx
  BY <1>6 DEF TxTypes, Shape, Number
<1> QED
  BY <1>1, <1>2, <1>3, <1>4, <1>5, <1>6 DEF Next, Delete, vars

LEMMA OtherTypesStep == ASSUME NumberTypes, [Next]_vars PROVE OtherTypes'
<1> USE DEF NumberTypes, OtherTypes
<1>1. holder' \in [Tables -> Producers \cup {Nobody}]
  BY DEF Next, AcquireAdvisoryLock, CheckProposed, DraftNumber, InsertCreated, InsertPromoted, Fail,
     LinkFinding, ApplyFinding, Delete, Release, vars
<1>2. status' \in [Findings -> {"proposed", "applied"}]
  <2>1. ASSUME NEW p \in Producers, ApplyFinding(p)
        PROVE  status' \in [Findings -> {"proposed", "applied"}]
    BY <2>1 DEF ApplyFinding
  <2>2. (\E p \in Producers : ApplyFinding(p)) \/ status' = status
    BY DEF Next, AcquireAdvisoryLock, CheckProposed, DraftNumber, InsertCreated, InsertPromoted,
       Fail, LinkFinding, Delete, vars
  <2> QED
    BY <2>1, <2>2
<1>3. linked' \in [Findings -> Nat]
  <2>1. ASSUME NEW p \in Producers, LinkFinding(p) PROVE linked' \in [Findings -> Nat]
    <3> DEFINE f == tx[p].finding
    <3>1. linked' = [g \in Findings |-> IF g = f THEN linked[f] + 1 ELSE linked[g]]
      BY <2>1 DEF LinkFinding
    <3>2. \A g \in Findings : linked'[g] \in Nat
      BY <3>1
    <3> QED
      BY <3>1, <3>2
  <2>2. (\E p \in Producers : LinkFinding(p)) \/ linked' = linked
    BY DEF Next, AcquireAdvisoryLock, CheckProposed, DraftNumber, InsertCreated, InsertPromoted,
       Fail, ApplyFinding, Delete, vars
  <2> QED
    BY <2>1, <2>2
<1> QED
  BY <1>1, <1>2, <1>3

LEMMA NumberTypesInit == ASSUME Init PROVE NumberTypes
<1>1. RowTypes
  <2>1. ASSUME NEW t \in Tables, NEW n \in 1 .. Issued[t]
        PROVE  Text(n, Pad[t]) \in Number(t)
    <3>1. Text(n, Pad[t]) \in [value : {n}, width : Nat]
      BY <2>1, TextType, TablesAssumption, IssuedAssumption
    <3> QED
      BY <3>1, IssuedAssumption, BoundAssumption DEF Number
  <2>2. \A t \in Tables : rows[t] = {Text(n, Pad[t]) : n \in 1 .. Issued[t]} /\ loose[t] = {}
    BY DEF Init
  <2>3. \A t \in Tables : rows[t] \subseteq Number(t)
    BY <2>1, <2>2
  <2>4. \A t \in Tables : rows[t] \in SUBSET Texts
    BY <2>3, NumberInTexts
  <2>5. rows \in [Tables -> SUBSET Texts] /\ loose \in [Tables -> SUBSET Texts]
    BY <2>4 DEF Init
  <2> QED
    BY <2>2, <2>3, <2>5 DEF RowTypes, Init
<1>2. TxTypes
  BY DEF Init, TxTypes
<1>3. OtherTypes
  BY DEF Init, OtherTypes
<1> QED
  BY <1>1, <1>2, <1>3 DEF NumberTypes

LEMMA NumberTypesStep ==
  ASSUME NumberTypes, [Next]_vars
  PROVE  NumberTypes'
BY RowTypesStep, TxTypesStep, OtherTypesStep DEF NumberTypes

LEMMA NumberTypesAlways == Spec => []NumberTypes
<1>1. Init => NumberTypes
  BY NumberTypesInit
<1>2. NumberTypes /\ [Next]_vars => NumberTypes'
  BY NumberTypesStep
<1> QED
  BY <1>1, <1>2, PTL DEF Spec

(* Every variable keeps its type. *)
THEOREM TypeCorrect == Spec => []TypeOK
<1>1. NumberTypes => TypeOK
  BY DEF NumberTypes, RowTypes, TxTypes, OtherTypes, TypeOK, Texts
<1> QED
  BY <1>1, NumberTypesAlways, PTL
----------------------------------------------------------------------------
Creates(p) == tx[p] # Idle /\ tx[p].finding = NoFinding
Drafting(p) == tx[p] # Idle /\ tx[p].step = "draft"

(* Who creates holds the lock of the table. *)
Locked == \A p \in Producers : Creates(p) => holder[tx[p].table] = p

(* While the numbers are of one length, what a create is about to insert comes after all rows but
   those promoted meanwhile. *)
CreatesAhead ==
  \A p \in Producers :
    Drafting(p) /\ Creates(p) /\ tx[p].table \notin uneven =>
      \A y \in rows[tx[p].table] \ loose[tx[p].table] : y.value < tx[p].number.value

(* ... and where nothing is deleted, every draft follows a row that is there, and is either taken
   by now, or comes after all rows, or is of another length than one of them. *)
InLine(R, n) ==
  /\ n \in R \/ (\A y \in R : y.value < n.value) \/ (\E y \in R : y.width # n.width)
  /\ n.value = 1 \/ \E y \in R : n.value = y.value + 1
DraftsInLine ==
  \A p \in Producers :
    Drafting(p) /\ tx[p].table \notin Erasable \cup uneven =>
      InLine(rows[tx[p].table], tx[p].number)

NumberInvariant == NumberTypes /\ Locked /\ CreatesAhead /\ DraftsInLine

LEMMA TableOf ==
  ASSUME NumberTypes, NEW p \in Producers, tx[p] # Idle
  PROVE  Shape(tx[p]) /\ tx[p].table \in Tables
BY DEF NumberTypes, TxTypes, Shape, Task

(* A transaction that ends gives back its own locks only. *)
LEMMA Ends ==
  ASSUME NumberInvariant, NEW p \in Producers, tx' = [tx EXCEPT ![p] = Idle], Release(p)
  PROVE  Locked'
<1>1. tx'[p] = Idle /\ \A q \in Producers \ {p} : tx'[q] = tx[q]
  BY TxMoves DEF NumberInvariant, NumberTypes
<1>2. ASSUME NEW q \in Producers, tx'[q] # Idle, tx'[q].finding = NoFinding
      PROVE  holder'[tx'[q].table] = q
  <2>1. q # p /\ tx'[q] = tx[q]
    BY <1>1, <1>2
  <2>2. tx[q].table \in Tables /\ holder[tx[q].table] = q
    BY <1>2, <2>1, TableOf DEF NumberInvariant, Locked, Creates
  <2> QED
    BY <2>1, <2>2 DEF Release
<1> QED
  BY <1>2 DEF Locked, Creates

LEMMA LockedStep ==
  ASSUME NumberInvariant, [Next]_vars
  PROVE  Locked'
<1> USE DEF NumberInvariant
<1>t. NumberTypes /\ RowTypes /\ TxTypes /\ OtherTypes
  BY DEF NumberTypes
<1>0. ASSUME NEW p \in Producers, NEW x, tx' = [tx EXCEPT ![p] = x], x = Idle \/ Shape(x),
             holder' = holder,
             x # Idle /\ x.finding = NoFinding => Creates(p) /\ x.table = tx[p].table
      PROVE  Locked'
  <2>1. tx'[p] = x /\ \A q \in Producers \ {p} : tx'[q] = tx[q]
    BY <1>t, <1>0, TxMoves
  <2>2. ASSUME NEW q \in Producers, tx'[q] # Idle, tx'[q].finding = NoFinding
        PROVE  holder'[tx'[q].table] = q
    BY <1>0, <2>1, <2>2 DEF Locked, Creates
  <2> QED
    BY <2>2 DEF Locked, Creates
<1>1. ASSUME NEW p \in Producers, NEW t \in Tables, AcquireAdvisoryLock(p, t) PROVE Locked'
  <2>1. PICK x : tx' = [tx EXCEPT ![p] = x] /\ Shape(x) /\ x.table = t
    BY <1>t, <1>1, BeginsCreate
  <2>2. tx'[p] = x /\ \A q \in Producers \ {p} : tx'[q] = tx[q]
    BY <1>t, <2>1, TxMoves
  <2>3. holder[t] = Nobody /\ holder'[t] = p /\ \A u \in Tables \ {t} : holder'[u] = holder[u]
    BY <1>t, <1>1 DEF AcquireAdvisoryLock, OtherTypes
  <2>4. ASSUME NEW q \in Producers, tx'[q] # Idle, tx'[q].finding = NoFinding
        PROVE  holder'[tx'[q].table] = q
    <3>1. CASE q = p
      BY <2>1, <2>2, <2>3, <3>1
    <3>2. CASE q # p
      <4>1. tx'[q] = tx[q]
        BY <2>2, <3>2
      <4>2. tx[q].table \in Tables /\ holder[tx[q].table] = q
        BY <1>t, <2>4, <4>1, TableOf DEF Locked, Creates
      <4>3. tx[q].table # t
        BY <2>3, <4>2, NamesAssumption
      <4> QED
        BY <2>3, <4>1, <4>2, <4>3
    <3> QED
      BY <3>1, <3>2
  <2> QED
    BY <2>4 DEF Locked, Creates
<1>2. ASSUME NEW p \in Producers, NEW t \in Tables, NEW f \in Findings, CheckProposed(p, t, f)
      PROVE  Locked'
  BY <1>0, <1>2, <1>t, BeginsPromotion DEF CheckProposed
<1>3. ASSUME NEW p \in Producers, DraftNumber(p) PROVE Locked'
  <2>1. PICK x : /\ tx' = [tx EXCEPT ![p] = x] /\ Shape(x)
                 /\ x.table = tx[p].table /\ x.finding = tx[p].finding
    BY <1>3, <1>t, Drafts
  <2>2. tx[p] # Idle
    BY <1>3, <1>t, Busy DEF DraftNumber
  <2> QED
    BY <1>0, <1>3, <2>1, <2>2 DEF DraftNumber, Creates
<1>4. ASSUME NEW p \in Producers, InsertPromoted(p) \/ LinkFinding(p) PROVE Locked'
  <2>1. PICK x : tx' = [tx EXCEPT ![p] = x] /\ Shape(x) /\ x.finding # NoFinding
    BY <1>4, <1>t, PromotionGoesOn
  <2> QED
    BY <1>0, <1>4, <2>1 DEF InsertPromoted, LinkFinding
<1>5. ASSUME NEW p \in Producers, InsertCreated(p) \/ Fail(p) PROVE Locked'
  BY <1>5, Ends DEF InsertCreated, Fail
<1>6. ASSUME NEW p \in Producers, ApplyFinding(p) PROVE Locked'
  BY <1>0, <1>6 DEF ApplyFinding
<1>7. CASE UNCHANGED <<tx, holder>>
  BY <1>7 DEF Locked, Creates
<1> QED
  BY <1>1, <1>2, <1>3, <1>4, <1>5, <1>6, <1>7 DEF Next, Delete, vars

(* Of two drafts in line one is inserted: the other was the same number, or was taken before, or is
   of another length. *)
LEMMA Joins ==
  ASSUME NEW t \in Tables, NEW R \in SUBSET Number(t), NEW n \in Number(t), NEW m \in Number(t),
         InLine(R, n), InLine(R, m), n \notin R, Even(R \cup {n})
  PROVE  InLine(R \cup {n}, m)
<1>1. \A y \in R : y.value \in Nat /\ 1 <= y.value
  BY IssuedAssumption, BoundAssumption DEF Number
<1>2. n.value \in Nat /\ 1 <= n.value /\ m.value \in Nat /\ 1 <= m.value
  BY IssuedAssumption, BoundAssumption DEF Number
<1>3. \A y \in R : y.value < n.value
  BY DEF InLine, Even
<1>4. ASSUME m \notin R, \A y \in R \cup {n} : y.width = m.width PROVE m = n
  <2>1. \A y \in R : y.value < m.value
    BY <1>4 DEF InLine
  <2>2. n.value <= m.value
    BY <1>1, <1>2, <2>1 DEF InLine
  <2>3. m.value <= n.value
    BY <1>1, <1>2, <1>3 DEF InLine
  <2>4. n = [value |-> n.value, width |-> n.width] /\ m = [value |-> m.value, width |-> m.width]
    BY DEF Number
  <2>5. n.width = m.width
    BY <1>4
  <2> QED
    BY <1>2, <2>2, <2>3, <2>4, <2>5
<1>5. m \in R \cup {n} \/ \E y \in R \cup {n} : y.width # m.width
  BY <1>4
<1> QED
  BY <1>5 DEF InLine

(* The row a transaction inserts comes after every other one, where rows are not both promoted
   and deleted, and it leaves all of them of one length. *)
LEMMA InsertRises ==
  ASSUME NumberInvariant, NEW p \in Producers, InsertCreated(p) \/ InsertPromoted(p),
         tx[p].table \notin (Promotable \cap Erasable) \cup uneven'
  PROVE  \A y \in rows[tx[p].table] : y.value < tx[p].number.value
<1> USE DEF NumberInvariant, NumberTypes
<1> DEFINE t == tx[p].table
           n == tx[p].number
<1>1. Drafting(p) /\ Shape(tx[p]) /\ t \in Tables /\ n \notin rows[t]
  BY Inserts DEF Drafting
<1>2. t \notin uneven /\ Even(rows[t] \cup {n})
  BY Inserts
<1>3. CASE t \notin Erasable
  <2>1. InLine(rows[t], n)
    BY <1>1, <1>2, <1>3 DEF DraftsInLine
  <2>2. \A y \in rows[t] : y.width = n.width
    BY <1>2 DEF Even
  <2> QED
    BY <1>1, <2>1, <2>2 DEF InLine
<1>4. CASE t \in Erasable
  <2>1. t \notin Promotable /\ tx[p].finding = NoFinding /\ loose[t] = {}
    BY <1>1, <1>4 DEF Shape, RowTypes
  <2> QED
    BY <1>1, <1>2, <2>1 DEF CreatesAhead, Drafting, Creates
<1> QED
  BY <1>3, <1>4

LEMMA OrderStep ==
  ASSUME NumberInvariant, [Next]_vars
  PROVE  CreatesAhead' /\ DraftsInLine'
<1> USE DEF NumberInvariant
<1>t. NumberTypes /\ RowTypes /\ TxTypes /\ OtherTypes
  BY DEF NumberTypes
<1>0. ASSUME NEW p \in Producers, NEW x, tx' = [tx EXCEPT ![p] = x], x = Idle \/ Shape(x),
             UNCHANGED <<rows, loose, uneven>>, x.step # "draft"
      PROVE  CreatesAhead' /\ DraftsInLine'
  <2>1. tx'[p] = x /\ \A q \in Producers \ {p} : tx'[q] = tx[q]
    BY <1>t, <1>0, TxMoves
  <2> QED
    BY <1>0, <2>1 DEF CreatesAhead, DraftsInLine, Drafting, Creates
<1>i. Idle.step # "draft"
  BY DEF Idle
<1>1. ASSUME NEW p \in Producers, NEW t \in Tables, AcquireAdvisoryLock(p, t)
      PROVE  CreatesAhead' /\ DraftsInLine'
  <2>1. PICK x : tx' = [tx EXCEPT ![p] = x] /\ Shape(x) /\ x.step = "locked"
    BY <1>t, <1>1, BeginsCreate
  <2> QED
    BY <1>0, <1>1, <2>1 DEF AcquireAdvisoryLock
<1>2. ASSUME NEW p \in Producers, NEW t \in Tables, NEW f \in Findings, CheckProposed(p, t, f)
      PROVE  CreatesAhead' /\ DraftsInLine'
  <2>1. PICK x : tx' = [tx EXCEPT ![p] = x] /\ Shape(x) /\ x.step = "checked"
    BY <1>t, <1>2, BeginsPromotion
  <2> QED
    BY <1>0, <1>2, <2>1 DEF CheckProposed
<1>3. ASSUME NEW p \in Producers, DraftNumber(p) PROVE CreatesAhead' /\ DraftsInLine'
  <2> DEFINE t == tx[p].table
  <2>1. PICK x : /\ tx' = [tx EXCEPT ![p] = x] /\ Shape(x)
                 /\ x.step = "draft" /\ x.table = t
                 /\ t \notin uneven =>
                      /\ \A y \in rows[t] : y.value < x.number.value
                      /\ x.number.value = 1 \/ \E y \in rows[t] : x.number.value = y.value + 1
    BY <1>3, <1>t, Drafts
  <2>2. tx'[p] = x /\ \A q \in Producers \ {p} : tx'[q] = tx[q]
    BY <1>t, <2>1, TxMoves
  <2>3. UNCHANGED <<rows, loose, uneven>>
    BY <1>3 DEF DraftNumber
  <2>4. t \notin uneven => InLine(rows[t], x.number)
    BY <2>1 DEF InLine
  <2>5. CreatesAhead'
    <3> SUFFICES ASSUME NEW q \in Producers, Drafting(q)', Creates(q)', tx'[q].table \notin uneven',
                        NEW y \in rows'[tx'[q].table] \ loose'[tx'[q].table]
                 PROVE  y.value < tx'[q].number.value
      BY DEF CreatesAhead
    <3>1. CASE q = p
      BY <2>1, <2>2, <2>3, <3>1
    <3>2. CASE q # p
      BY <2>2, <2>3, <3>2 DEF CreatesAhead, Drafting, Creates
    <3> QED
      BY <3>1, <3>2
  <2>6. DraftsInLine'
    <3> SUFFICES ASSUME NEW q \in Producers, Drafting(q)', tx'[q].table \notin Erasable \cup uneven'
                 PROVE  InLine(rows'[tx'[q].table], tx'[q].number)
      BY DEF DraftsInLine, InLine
    <3>1. CASE q = p
      BY <2>1, <2>2, <2>3, <2>4, <3>1
    <3>2. CASE q # p
      BY <2>2, <2>3, <3>2 DEF DraftsInLine, Drafting
    <3> QED
      BY <3>1, <3>2
  <2> QED
    BY <2>5, <2>6
<1>4. ASSUME NEW p \in Producers, InsertCreated(p) \/ InsertPromoted(p)
      PROVE  CreatesAhead' /\ DraftsInLine'
  <2> DEFINE t == tx[p].table
             n == tx[p].number
  <2>1. /\ tx[p] # Idle /\ Shape(tx[p]) /\ tx[p].step = "draft"
        /\ t \in Tables /\ n \in Number(t) /\ n \notin rows[t]
        /\ rows'[t] = rows[t] \cup {n} /\ \A u \in Tables \ {t} : rows'[u] = rows[u]
        /\ uneven \subseteq uneven' /\ (t \notin uneven' => Even(rows[t] \cup {n}))
    BY <1>4, <1>t, Inserts
  <2>2. /\ \A q \in Producers \ {p} : tx'[q] = tx[q]
        /\ tx'[p] # Idle => tx'[p].step # "draft"
    <3>1. CASE InsertCreated(p)
      BY <1>t, <3>1, TxMoves DEF InsertCreated
    <3>2. CASE InsertPromoted(p)
      <4>1. PICK x : /\ tx' = [tx EXCEPT ![p] = x] /\ Shape(x)
                     /\ x.step \in {"created", "linked"}
        BY <1>t, <3>2, PromotionGoesOn
      <4> QED
        BY <1>t, <4>1, TxMoves
    <3> QED
      BY <1>4, <3>1, <3>2
  <2>3. \A u \in Tables : loose[u] \subseteq loose'[u]
    BY <1>4, <1>t DEF InsertCreated, InsertPromoted, RowTypes
  <2>4. CreatesAhead'
    <3> SUFFICES ASSUME NEW q \in Producers, Drafting(q)', Creates(q)', tx'[q].table \notin uneven',
                        NEW y \in rows'[tx'[q].table] \ loose'[tx'[q].table]
                 PROVE  y.value < tx'[q].number.value
      BY DEF CreatesAhead
    <3>1. q # p /\ tx'[q] = tx[q] /\ Drafting(q) /\ Creates(q)
      BY <2>2 DEF Drafting, Creates
    <3>2. tx[q].table \in Tables
      BY <1>t, <3>1, TableOf DEF Drafting
    <3>3. CASE y \in rows[tx[q].table]
      BY <2>1, <2>3, <3>1, <3>2, <3>3 DEF CreatesAhead
    <3>4. CASE y \notin rows[tx[q].table]
      <4>1. tx[q].table = t /\ y = n
        BY <2>1, <3>1, <3>2, <3>4
      <4>2. CASE InsertCreated(p)
        <5>1. Creates(p)
          BY <2>1, <4>2 DEF InsertCreated, Creates
        <5> QED
          BY <3>1, <4>1, <5>1 DEF Locked
      <4>3. CASE InsertPromoted(p)
        <5>1. n \in loose'[t]
          BY <1>t, <2>1, <4>3 DEF InsertPromoted, RowTypes
        <5> QED
          BY <3>1, <4>1, <5>1
      <4> QED
        BY <1>4, <4>2, <4>3
    <3> QED
      BY <3>3, <3>4
  <2>5. DraftsInLine'
    <3> SUFFICES ASSUME NEW q \in Producers, Drafting(q)', tx'[q].table \notin Erasable \cup uneven'
                 PROVE  InLine(rows'[tx'[q].table], tx'[q].number)
      BY DEF DraftsInLine, InLine
    <3>1. tx'[q] = tx[q] /\ Drafting(q)
      BY <2>2 DEF Drafting
    <3>2. tx[q].table \in Tables /\ tx[q].number \in Number(tx[q].table)
      BY <1>t, <3>1, TableOf DEF Drafting, Shape
    <3>3. InLine(rows[tx[q].table], tx[q].number)
      BY <2>1, <3>1 DEF DraftsInLine
    <3>4. CASE tx[q].table = t
      <4>1. InLine(rows[t], n)
        BY <2>1, <3>1, <3>4 DEF DraftsInLine, Drafting
      <4>2. rows[t] \in SUBSET Number(t)
        BY <1>t, <2>1 DEF RowTypes
      <4> QED
        BY <2>1, <3>1, <3>2, <3>3, <3>4, <4>1, <4>2, Joins
    <3>5. CASE tx[q].table # t
      BY <2>1, <3>1, <3>2, <3>3, <3>5
    <3> QED
      BY <3>4, <3>5
  <2> QED
    BY <2>4, <2>5
<1>5. ASSUME NEW p \in Producers, Fail(p) \/ ApplyFinding(p) PROVE CreatesAhead' /\ DraftsInLine'
  BY <1>0, <1>5, <1>i DEF Fail, ApplyFinding
<1>6. ASSUME NEW p \in Producers, LinkFinding(p) PROVE CreatesAhead' /\ DraftsInLine'
  <2>1. PICK x : /\ tx' = [tx EXCEPT ![p] = x] /\ Shape(x) /\ x.step \in {"created", "linked"}
    BY <1>t, <1>6, PromotionGoesOn
  <2> QED
    BY <1>0, <1>6, <2>1 DEF LinkFinding
<1>7. ASSUME NEW t \in Tables, NEW z \in rows[t], Delete(t, z) PROVE CreatesAhead' /\ DraftsInLine'
  <2>1. /\ t \in Erasable /\ tx' = tx /\ uneven' = uneven
        /\ rows'[t] = rows[t] \ {z} /\ \A u \in Tables \ {t} : rows'[u] = rows[u]
        /\ loose'[t] = loose[t] \ {z} /\ \A u \in Tables \ {t} : loose'[u] = loose[u]
    BY <1>t, <1>7 DEF Delete, RowTypes
  <2>2. \A u \in Tables : rows'[u] \ loose'[u] \subseteq rows[u] \ loose[u]
    BY <2>1
  <2>3. \A q \in Producers : tx[q] # Idle => tx[q].table \in Tables
    BY <1>t, TableOf
  <2>4. CreatesAhead'
    BY <2>1, <2>2, <2>3 DEF CreatesAhead, Drafting, Creates
  <2>5. DraftsInLine'
    BY <2>1, <2>3 DEF DraftsInLine, Drafting, InLine
  <2> QED
    BY <2>4, <2>5
<1>8. CASE UNCHANGED vars
  BY <1>8 DEF vars, CreatesAhead, DraftsInLine, Drafting, Creates, InLine
<1> QED
  BY <1>1, <1>2, <1>3, <1>4, <1>5, <1>6, <1>7, <1>8 DEF Next

LEMMA NumberInvariantAlways == Spec => []NumberInvariant
<1>1. ASSUME Init PROVE NumberInvariant
  <2>1. \A p \in Producers : tx[p] = Idle
    BY <1>1 DEF Init
  <2> QED
    BY <1>1, <2>1, NumberTypesInit DEF NumberInvariant, Locked, CreatesAhead, DraftsInLine, Creates,
       Drafting
<1>2. ASSUME NumberInvariant, [Next]_vars PROVE NumberInvariant'
  <2>1. NumberTypes'
    BY <1>2, NumberTypesStep DEF NumberInvariant
  <2>2. Locked'
    BY <1>2, LockedStep
  <2>3. CreatesAhead' /\ DraftsInLine'
    BY <1>2, OrderStep
  <2> QED
    BY <2>1, <2>2, <2>3 DEF NumberInvariant
<1> QED
  BY <1>1, <1>2, PTL DEF Spec

(* What a create is about to insert is refused only for a promotion that came in between, or where
   the table has had numbers of two lengths. *)
THEOREM LockKeepsDraftsFree == Spec => []RefusedOnlyIfUneven
<1>1. ASSUME NumberInvariant PROVE RefusedOnlyIfUneven
  <2> SUFFICES ASSUME NEW p \in Producers, Taken(p), tx[p].table \notin uneven
               PROVE  FALSE
    BY DEF RefusedOnlyIfUneven
  <2> USE DEF Taken
  <2>1. tx[p].number.value < tx[p].number.value
    BY <1>1 DEF NumberInvariant, CreatesAhead, Drafting, Creates
  <2>2. tx[p].number.value \in Nat
    BY <1>1, TableOf, IssuedAssumption, BoundAssumption DEF NumberInvariant, Shape, Number
  <2> QED
    BY <2>1, <2>2
<1> QED
  BY <1>1, NumberInvariantAlways, PTL

(* Numbers are issued in order, by creates and by promotions alike, where rows are not both
   promoted and deleted, up to the first number of another length. *)
THEOREM NumbersInOrder == Spec => NumbersRise
<1> DEFINE Rises ==
      \A t \in Tables \ ((Promotable \cap Erasable) \cup uneven') :
        \A x \in rows'[t] \ rows[t], y \in rows[t] : y.value < x.value
<1>1. ASSUME NumberInvariant, Next PROVE Rises
  <2>t. RowTypes /\ TxTypes
    BY <1>1 DEF NumberInvariant, NumberTypes
  <2>1. ASSUME NEW p \in Producers, InsertCreated(p) \/ InsertPromoted(p) PROVE Rises
    <3>1. /\ tx[p].table \in Tables /\ rows'[tx[p].table] = rows[tx[p].table] \cup {tx[p].number}
          /\ \A u \in Tables \ {tx[p].table} : rows'[u] = rows[u]
      BY <2>t, <2>1, Inserts
    <3> QED
      BY <1>1, <2>1, <3>1, InsertRises
  <2>2. ASSUME NEW t \in Tables, NEW x \in rows[t], Delete(t, x) PROVE Rises
    BY <2>t, <2>2 DEF Delete, RowTypes
  <2>3. CASE rows' = rows
    BY <2>3
  <2> QED
    BY <1>1, <2>1, <2>2, <2>3 DEF Next, AcquireAdvisoryLock, CheckProposed, DraftNumber, Fail,
       LinkFinding, ApplyFinding
<1>2. NumberInvariant /\ [Next]_vars => [Rises]_vars
  BY <1>1
<1> QED
  BY <1>2, NumberInvariantAlways, PTL DEF Spec, NumbersRise
===========================================================================
