----------------------------- MODULE LocksProofs -----------------------------
(***************************************************************************)
(* Proofs about DeliveryLocks, for any fleet, any number of connections    *)
(* and any bounds: every transaction of delivery-service is one atomic     *)
(* step of Delivery, so what is proved of Delivery holds of its            *)
(* transactions; and only two pairs of handlers can deadlock.              *)
(***************************************************************************)
EXTENDS DeliveryLocks, DeliveryProofs

-----------------------------------------------------------------------------
(***************************************************************************)
(* What the transactions hold and know                                     *)
(***************************************************************************)
Rows ==
    ({"order.created", "order.cancelled"} \X Orders) \cup ({"report"} \X Nat)
        \cup ({"courier"} \X Couriers) \cup ({"delivery"} \X Orders)

DeliveryRowType == [status : {"none"} \cup Underway \cup Terminal,
                    courier : Couriers \cup {NoCourier}, delay : Nat]
ReportType == [courier : Couriers \cup {NoCourier}, delivery : Orders \cup {NoDelivery},
               seq : Nat, phase : Phases]
TxType == [op : {"none", "assign", "cancel", "locate", "delay", "complete"},
           order : Orders \cup {NoDelivery}, report : ReportType,
           candidates : Seq(Couriers), saw : DeliveryRowType]

TxTypeOK ==
    /\ pc \in [Processes -> {"idle", "candidate", "delivery", "courier", "commit"}]
    /\ tx \in [Processes -> TxType]
    /\ held \in [Processes -> SUBSET Rows]

(* assign: whatever it has locked besides its event are couriers; the one it *)
(* will write is among them and still available.                            *)
Assigning(step, t, rows) ==
    /\ t.op = "assign"
    /\ t.order \in Orders
    /\ FirstTime(EventRow(t))
    /\ t.candidates \in Seq(geo)
    /\ EventRow(t) \in rows
    /\ \A row \in rows : row = EventRow(t) \/ \E c \in Couriers : row = CourierRow(c)
    /\ \/ step = "candidate"
       \/ /\ step = "commit"
          /\ t.candidates # << >>
          /\ CourierRow(Head(t.candidates)) \in rows
          /\ couriers[Head(t.candidates)] = "available"

(* A row that was read under its lock is still what was read. *)
Read(t) == t.order \in Orders /\ t.saw = deliveries[t.order]

Cancelling(step, t, rows) ==
    /\ t.op = "cancel"
    /\ t.order \in Orders
    /\ FirstTime(EventRow(t))
    /\ \/ /\ step = "delivery"
          /\ t.saw.status = "none"
          /\ rows = {EventRow(t)}
       \/ /\ step = "courier"
          /\ t.saw.status \in Underway /\ Read(t)
          /\ rows = {EventRow(t), DeliveryRow(t.order)}
       \/ /\ step = "commit"
          /\ t.saw.status = "none" /\ t.order \in missed
          /\ rows = {EventRow(t)}
       \/ /\ step = "commit"
          /\ t.saw.status \in Terminal /\ Read(t)
          /\ rows = {EventRow(t), DeliveryRow(t.order)}
       \/ /\ step = "commit"
          /\ t.saw.status \in Underway /\ Read(t)
          /\ rows = {EventRow(t), DeliveryRow(t.order), CourierRow(t.saw.courier)}

Locating(step, t, rows) ==
    LET e == t.report IN
    /\ t.op = "locate"
    /\ e \in reports /\ t.order = e.delivery
    /\ Unseen(e)
    /\ \/ /\ step = "courier"
          /\ rows = {EventRow(t)}
       \/ /\ step = "delivery"
          /\ t.order # NoDelivery
          /\ lastSeq[e.courier] < e.seq
          /\ rows = {EventRow(t), CourierRow(e.courier)}
       \/ /\ step = "commit"
          /\ t.order = NoDelivery
          /\ lastSeq[e.courier] < e.seq
          /\ rows = {EventRow(t), CourierRow(e.courier)}
       \/ /\ step = "commit"
          /\ t.order # NoDelivery /\ Read(t)
          /\ lastSeq[e.courier] < e.seq
          /\ rows = {EventRow(t), CourierRow(e.courier), DeliveryRow(t.order)}

Delaying(step, t, rows) ==
    /\ t.op = "delay"
    /\ step = "commit"
    /\ t.saw.status \in Underway /\ Read(t)
    /\ delays[t.order] < MaxDelays
    /\ rows = {DeliveryRow(t.order)}

Completing(step, t, rows) ==
    /\ t.op = "complete"
    /\ t.saw.status \in Underway /\ Read(t)
    /\ \/ step = "courier" /\ rows = {DeliveryRow(t.order)}
       \/ step = "commit" /\ rows = {DeliveryRow(t.order), CourierRow(t.saw.courier)}

Idling(step, t, rows) == step = "idle" /\ t = NoTx /\ rows = {}

Shape(step, t, rows) ==
    \/ Idling(step, t, rows)
    \/ Assigning(step, t, rows) \/ Cancelling(step, t, rows) \/ Locating(step, t, rows)
    \/ Delaying(step, t, rows) \/ Completing(step, t, rows)

Shapes == \A p \in Processes : Shape(pc[p], tx[p], held[p])

(* A row lock has one holder. *)
Exclusive == \A p, q \in Processes : p # q => held[p] \cap held[q] = {}

(* A cancellation that found no delivery is about to commit. *)
MissedByCancel ==
    \A o \in missed : \E p \in Processes :
        tx[p].op = "cancel" /\ tx[p].order = o /\ pc[p] = "commit" /\ tx[p].saw.status = "none"

TxInv == TxTypeOK /\ Shapes /\ Exclusive /\ MissedByCancel

(* A delivery exists only once its order event is marked, and a report names *)
(* a delivery that exists.                                                  *)
Records ==
    /\ \A o \in Orders : deliveries[o].status # "none" => <<"order.created", o>> \in inbox
    /\ \A e \in reports : e.delivery # NoDelivery => deliveries[e.delivery].status # "none"

-----------------------------------------------------------------------------
(* What a transaction may rely on *)

(* What a step that writes only rows it has locked leaves as it was.  (An     *)
(* assignment inserts a delivery, which is no row of anybody's yet.)        *)
Frame(rows) ==
    /\ \A o \in Orders :
          deliveries[o].status # "none" /\ DeliveryRow(o) \notin rows =>
              deliveries'[o] = deliveries[o] /\ delays'[o] = delays[o]
    /\ \A c \in Couriers :
          CourierRow(c) \notin rows => couriers'[c] = couriers[c] /\ lastSeq'[c] = lastSeq[c]
    /\ \A e \in published : e \notin rows /\ e \notin inbox => e \notin inbox'
    /\ \A n \in Nat : <<"report", n>> \notin rows /\ n \notin seen => n \notin seen'
    /\ \A o \in missed : <<"order.cancelled", o>> \notin rows => o \in missed'
    /\ geo \subseteq geo' /\ reports \subseteq reports' /\ published \subseteq published'

(* What a transaction holds locked stays as it knows it while another one     *)
(* writes rows of its own.                                                  *)
LEMMA LockedStays ==
    ASSUME TypeOK, Records, NEW step, NEW t \in TxType, NEW rows, NEW mine,
           Frame(mine), rows \cap mine = {}, Shape(step, t, rows)
    PROVE  Shape(step, t, rows)'
<1>1. CASE Idling(step, t, rows)
  BY <1>1 DEF Shape, Idling
<1>2. CASE Assigning(step, t, rows)
  <2>1. /\ t.op = "assign" /\ t.order \in Orders /\ EventRow(t) = <<"order.created", t.order>>
        /\ EventRow(t) \in rows /\ EventRow(t) \notin mine
        /\ \A row \in rows : row = EventRow(t) \/ \E c \in Couriers : row = CourierRow(c)
    BY <1>2 DEF Assigning, EventRow
  <2>2. FirstTime(EventRow(t))'
    BY <1>2, <2>1 DEF Assigning, FirstTime, Frame, EventRow
  <2>3. t.candidates \in Seq(geo)'
    <3>1. t.candidates \in Seq(geo) /\ geo \subseteq geo'
      BY <1>2 DEF Assigning, Frame
    <3> QED
      BY <3>1, SeqMonotonic
  <2>4. CASE step = "candidate"
    BY <2>1, <2>2, <2>3, <2>4 DEF Shape, Assigning, EventRow
  <2>5. CASE step = "commit" /\ t.candidates # << >>
             /\ CourierRow(Head(t.candidates)) \in rows /\ couriers[Head(t.candidates)] = "available"
    <3>1. Head(t.candidates) \in Couriers
      <4>1. t.candidates \in Seq(Couriers)
        BY DEF TxType
      <4> QED
        BY <2>5, <4>1, HeadTailProperties
    <3>2. couriers'[Head(t.candidates)] = "available"
      BY <2>5, <3>1 DEF Frame
    <3> QED
      BY <2>1, <2>2, <2>3, <2>5, <3>2 DEF Shape, Assigning, EventRow
  <2> QED
    BY <1>2, <2>4, <2>5 DEF Assigning
<1> DEFINE o == t.order
<1>3. ASSUME Read(t), t.saw.status # "none", DeliveryRow(o) \in rows
      PROVE  Read(t)' /\ delays'[o] = delays[o]
  BY <1>3 DEF Read, Frame
<1>4. CASE Cancelling(step, t, rows)
  <2>1. /\ t.op = "cancel" /\ t.order \in Orders /\ EventRow(t) = <<"order.cancelled", t.order>>
        /\ EventRow(t) \in rows /\ EventRow(t) \notin mine /\ EventRow(t)' = EventRow(t)
    BY <1>4 DEF Cancelling, EventRow
  <2>2. FirstTime(EventRow(t))'
    BY <1>4, <2>1 DEF Cancelling, FirstTime, Frame
  <2>3. t.saw.status \in Underway \cup Terminal /\ DeliveryRow(o) \in rows /\ Read(t) => Read(t)'
    BY <1>3 DEF Underway, Terminal
  <2>4. o \in missed => o \in missed'
    BY <2>1 DEF Frame
  <2> QED
    BY <1>4, <2>1, <2>2, <2>3, <2>4 DEF Cancelling, Shape
<1>5. CASE Locating(step, t, rows)
  <2> DEFINE e == t.report
  <2>1. /\ t.op = "locate" /\ e \in reports /\ e \in reports' /\ t.order = e.delivery
        /\ EventRow(t) = <<"report", e.seq>> /\ EventRow(t)' = EventRow(t)
        /\ EventRow(t) \in rows /\ EventRow(t) \notin mine
        /\ e.courier \in Couriers /\ e.seq \in Nat
    BY <1>5 DEF Locating, EventRow, Frame, TypeOK
  <2>2. Unseen(e)'
    BY <1>5, <2>1 DEF Locating, Unseen, Frame
  <2>3. CourierRow(e.courier) \in rows => lastSeq'[e.courier] = lastSeq[e.courier]
    BY <2>1 DEF Frame
  <2>4. t.order # NoDelivery /\ DeliveryRow(o) \in rows /\ Read(t) => Read(t)'
    BY <1>3, <2>1 DEF Records, Read
  <2> QED
    BY <1>5, <2>1, <2>2, <2>3, <2>4 DEF Locating, Shape
<1>6. CASE Delaying(step, t, rows)
  <2>1. Read(t)' /\ delays'[o] = delays[o]
    BY <1>3, <1>6 DEF Delaying, Underway
  <2> QED
    BY <1>6, <2>1 DEF Delaying, Shape
<1>7. CASE Completing(step, t, rows)
  <2>1. Read(t)'
    BY <1>3, <1>7 DEF Completing, Underway
  <2> QED
    BY <1>7, <2>1 DEF Completing, Shape
<1> QED
  BY <1>1, <1>2, <1>4, <1>5, <1>6, <1>7 DEF Shape
-----------------------------------------------------------------------------
(* Locking, reading and ending keep the transactions as described *)

(* A connection is described by what it does, knows and holds. *)
LEMMA ShapeOfConnection ==
    ASSUME NEW q, NEW step, NEW t, NEW rows, Shape(step, t, rows)',
           pc'[q] = step, tx'[q] = t, held'[q] = rows
    PROVE  Shape(pc[q], tx[q], held[q])'
BY DEF Shape, Idling, Assigning, Cancelling, Locating, Delaying, Completing, Read,
       FirstTime, Unseen, EventRow

Steps == {"idle", "candidate", "delivery", "courier", "commit"}

(* A cancellation that found no delivery is p's, or was not p's and goes on. *)
MissedGoesOn(p, step, t) ==
    \A o \in missed' :
        \/ o \in missed /\ ~(tx[p].op = "cancel" /\ tx[p].order = o /\ pc[p] = "commit")
        \/ t.op = "cancel" /\ t.order = o /\ step = "commit" /\ t.saw.status = "none"

(* One transaction moves on, writing at most rows of its own, and is again    *)
(* as described.                                                            *)
LEMMA MoveOn ==
    ASSUME TypeOK, Records, TxInv, NEW p \in Processes,
           NEW step \in Steps, NEW t \in TxType, NEW rows \in SUBSET Rows,
           pc' = [pc EXCEPT ![p] = step],
           tx' = [tx EXCEPT ![p] = t],
           held' = [held EXCEPT ![p] = rows],
           Frame(held[p]),
           Shape(step, t, rows)',
           \A q \in Others(p) : rows \cap held[q] = {},
           MissedGoesOn(p, step, t)
    PROVE  TxInv'
<1>1. TxTypeOK'
  BY DEF TxInv, TxTypeOK, Steps
<1>2. \A q \in Others(p) : pc'[q] = pc[q] /\ tx'[q] = tx[q] /\ held'[q] = held[q]
  BY DEF TxInv, TxTypeOK, Others
<1>3. pc'[p] = step /\ tx'[p] = t /\ held'[p] = rows
  BY DEF TxInv, TxTypeOK
<1>4. Exclusive'
  BY <1>2, <1>3 DEF TxInv, Exclusive, Others
<1>5. Shapes'
  <2> SUFFICES ASSUME NEW q \in Processes PROVE Shape(pc[q], tx[q], held[q])'
    BY DEF Shapes
  <2>1. CASE q = p
    BY <1>3, <2>1, ShapeOfConnection
  <2>2. CASE q # p
    <3>1. PICK st, u, r : st = pc[q] /\ u = tx[q] /\ r = held[q]
      OBVIOUS
    <3>2. Shape(st, u, r) /\ u \in TxType /\ r \cap held[p] = {}
      BY <2>2, <3>1 DEF TxInv, Shapes, TxTypeOK, Exclusive
    <3>3. PICK mine : mine = held[p]
      OBVIOUS
    <3>4. Shape(st, u, r)'
      BY <3>2, <3>3, LockedStays
    <3> QED
      BY <1>2, <2>2, <3>1, <3>4, ShapeOfConnection DEF Others
  <2> QED
    BY <2>1, <2>2
<1>6. MissedByCancel'
  <2> SUFFICES ASSUME NEW o \in missed'
               PROVE  \E q \in Processes : /\ tx'[q].op = "cancel" /\ tx'[q].order = o
                                            /\ pc'[q] = "commit" /\ tx'[q].saw.status = "none"
    BY DEF MissedByCancel
  <2>1. CASE o \in missed /\ ~(tx[p].op = "cancel" /\ tx[p].order = o /\ pc[p] = "commit")
    <3>1. PICK q \in Processes : /\ tx[q].op = "cancel" /\ tx[q].order = o
                                  /\ pc[q] = "commit" /\ tx[q].saw.status = "none"
      BY <2>1 DEF TxInv, MissedByCancel
    <3>2. q \in Others(p)
      BY <2>1, <3>1 DEF Others
    <3> QED
      BY <1>2, <3>1, <3>2
  <2>2. CASE t.op = "cancel" /\ t.order = o /\ step = "commit" /\ t.saw.status = "none"
    BY <1>3, <2>2
  <2> QED
    BY <2>1, <2>2 DEF MissedGoesOn
<1> QED
  BY <1>1, <1>4, <1>5, <1>6 DEF TxInv

(* No table is written. *)
LEMMA NothingWritten ==
    ASSUME UNCHANGED vars, NEW rows
    PROVE  Frame(rows)
BY DEF vars, Frame

(* ... so a connection is as it was described. *)
LEMMA SameTablesSameShape ==
    ASSUME UNCHANGED vars, NEW step, NEW t, NEW rows, Shape(step, t, rows)
    PROVE  Shape(step, t, rows)'
BY DEF vars, Shape, Idling, Assigning, Cancelling, Locating, Delaying, Completing, Read,
       FirstTime, Unseen, EventRow

(* A transaction that gets the lock it waited for knows what it read. *)
LEMMA LockMovesOn ==
    ASSUME TypeOK, Records, TxInv, NEW p \in Processes, pc[p] # "commit",
           NEW row \in Rows, NEW step \in Steps, NEW t \in TxType,
           Lock(p, row, step, t), Shape(step, t, held[p] \cup {row})
    PROVE  TxInv'
<1>1. PICK rows : rows = held[p] \cup {row}
  OBVIOUS
<1>2. rows \in SUBSET Rows /\ held' = [held EXCEPT ![p] = rows]
  BY <1>1 DEF TxInv, TxTypeOK, Lock
<1>3. \A q \in Others(p) : rows \cap held[q] = {}
  BY <1>1 DEF TxInv, Exclusive, Lock, Free, Others
<1>4. /\ pc' = [pc EXCEPT ![p] = step] /\ tx' = [tx EXCEPT ![p] = t]
      /\ UNCHANGED vars /\ missed' = missed
  BY DEF Lock, vars
<1>5. Frame(held[p])
  BY <1>4, NothingWritten
<1>6. Shape(step, t, rows)
  BY <1>1
<1>7. Shape(step, t, rows)'
  BY <1>4, <1>6, SameTablesSameShape
<1>8. MissedGoesOn(p, step, t)
  BY <1>4 DEF MissedGoesOn
<1> QED
  BY <1>2, <1>3, <1>4, <1>5, <1>7, <1>8, MoveOn

(* No transaction. *)
LEMMA NoTxType == NoTx \in TxType /\ NoReport \in ReportType /\ NoDeliveryRow \in DeliveryRowType
<1>1. NoReport \in ReportType /\ NoDeliveryRow \in DeliveryRowType
  BY DEF NoReport, ReportType, Phases, NoDeliveryRow, DeliveryRowType
<1>2. << >> \in Seq(Couriers)
  BY EmptySeq
<1> QED
  BY <1>1, <1>2 DEF NoTx, TxType

(* A transaction that ends gives up its locks. *)
LEMMA EndMovesOn ==
    ASSUME TypeOK, Records, TxInv, NEW p \in Processes, End(p), Frame(held[p]),
           \A o \in missed' :
              o \in missed /\ ~(tx[p].op = "cancel" /\ tx[p].order = o /\ pc[p] = "commit")
    PROVE  TxInv'
<1>1. /\ "idle" \in Steps /\ NoTx \in TxType /\ {} \in SUBSET Rows
      /\ \A q \in Others(p) : {} \cap held[q] = {}
  BY NoTxType DEF Steps
<1>2. Shape("idle", NoTx, {})'
  BY DEF Shape, Idling
<1>3. MissedGoesOn(p, "idle", NoTx)
  BY DEF MissedGoesOn
<1> QED
  BY <1>1, <1>2, <1>3, MoveOn DEF End

-----------------------------------------------------------------------------
(* Statements that only lock and read *)

(* A transaction is described by its operation. *)
LEMMA ShapeByOp ==
    ASSUME NEW step, NEW t, NEW rows, Shape(step, t, rows)
    PROVE  /\ step = "idle" => Idling(step, t, rows)
           /\ t.op = "none" => Idling(step, t, rows)
           /\ step = "candidate" \/ t.op = "assign" => Assigning(step, t, rows)
           /\ t.op = "cancel" => Cancelling(step, t, rows)
           /\ t.op = "locate" => Locating(step, t, rows)
           /\ t.op = "delay" => Delaying(step, t, rows)
           /\ t.op = "complete" => Completing(step, t, rows)
BY DEF Shape, Idling, Assigning, Cancelling, Locating, Delaying, Completing, NoTx

(* A creation locks its inbox entry first and knows the candidates. *)
LEMMA BeginAssignMovesOn ==
    ASSUME TypeOK, Records, TxInv, NEW p \in Processes, NEW o \in Orders,
           NEW candidates \in Seq(geo), BeginAssign(p, o, candidates)
    PROVE  TxInv'
<1> DEFINE t == [NoTx EXCEPT !.op = "assign", !.order = o, !.candidates = candidates]
           row == <<"order.created", o>>
<1>1. pc[p] = "idle" /\ FirstTime(row) /\ Lock(p, row, "candidate", t)
  BY DEF BeginAssign
<1>2. held[p] = {}
  BY <1>1, ShapeByOp DEF TxInv, Shapes, Idling
<1>3. candidates \in Seq(Couriers)
  BY SeqMonotonic DEF TypeOK
<1>4. t \in TxType /\ t.op = "assign" /\ t.order = o /\ t.candidates = candidates
  <2>1. t \in TxType
    BY <1>3, NoTxType DEF TxType
  <2>2. t.op = "assign" /\ t.order = o /\ t.candidates = candidates
    BY DEF NoTx
  <2> QED
    BY <2>1, <2>2
<1> HIDE DEF t
<1>5. EventRow(t) = row /\ row \in Rows
  BY <1>4 DEF EventRow, Rows
<1>6. Assigning("candidate", t, held[p] \cup {row})
  BY <1>1, <1>2, <1>4, <1>5 DEF Assigning
<1>7. Shape("candidate", t, held[p] \cup {row}) /\ "candidate" \in Steps
  BY <1>6 DEF Shape, Steps
<1> HIDE DEF row
<1> QED
  BY <1>1, <1>4, <1>5, <1>7, LockMovesOn

(* A cancellation locks its inbox entry first and has read nothing. *)
LEMMA BeginCancelMovesOn ==
    ASSUME TypeOK, Records, TxInv, NEW p \in Processes, NEW o \in Orders, BeginCancel(p, o)
    PROVE  TxInv'
<1> DEFINE t == [NoTx EXCEPT !.op = "cancel", !.order = o]
           row == <<"order.cancelled", o>>
<1>1. pc[p] = "idle" /\ FirstTime(row) /\ Lock(p, row, "delivery", t)
  BY DEF BeginCancel
<1>2. held[p] = {}
  BY <1>1, ShapeByOp DEF TxInv, Shapes, Idling
<1>3. t \in TxType /\ t.op = "cancel" /\ t.order = o /\ t.saw.status = "none"
  <2>1. t \in TxType
    BY NoTxType DEF TxType
  <2>2. t.op = "cancel" /\ t.order = o /\ t.saw.status = "none"
    BY DEF NoTx, NoDeliveryRow
  <2> QED
    BY <2>1, <2>2
<1> HIDE DEF t
<1>4. EventRow(t) = row /\ row \in Rows
  BY <1>3 DEF EventRow, Rows
<1>5. Cancelling("delivery", t, held[p] \cup {row})
  BY <1>1, <1>2, <1>3, <1>4 DEF Cancelling
<1>6. Shape("delivery", t, held[p] \cup {row}) /\ "delivery" \in Steps
  BY <1>5 DEF Shape, Steps
<1> HIDE DEF row
<1> QED
  BY <1>1, <1>3, <1>4, <1>6, LockMovesOn

(* A report locks its inbox entry first; the delivery it names is unread. *)
LEMMA BeginLocateMovesOn ==
    ASSUME TypeOK, Records, TxInv, NEW p \in Processes, NEW e \in reports, BeginLocate(p, e)
    PROVE  TxInv'
<1> DEFINE t == [NoTx EXCEPT !.op = "locate", !.order = e.delivery, !.report = e]
           row == <<"report", e.seq>>
<1>1. pc[p] = "idle" /\ Unseen(e) /\ Lock(p, row, "courier", t)
  BY DEF BeginLocate
<1>2. held[p] = {}
  BY <1>1, ShapeByOp DEF TxInv, Shapes, Idling
<1>3. e \in ReportType /\ e.seq \in Nat /\ e.delivery \in Orders \cup {NoDelivery}
  BY DEF TypeOK, ReportType
<1>4. t \in TxType /\ t.op = "locate" /\ t.order = e.delivery /\ t.report = e
  <2>1. t \in TxType
    BY <1>3, NoTxType DEF TxType
  <2>2. t.op = "locate" /\ t.order = e.delivery /\ t.report = e
    BY DEF NoTx
  <2> QED
    BY <2>1, <2>2
<1> HIDE DEF t
<1>5. EventRow(t) = row /\ row \in Rows
  BY <1>3, <1>4 DEF EventRow, Rows
<1>6. Locating("courier", t, held[p] \cup {row})
  BY <1>1, <1>2, <1>4, <1>5 DEF Locating
<1>7. Shape("courier", t, held[p] \cup {row}) /\ "courier" \in Steps
  BY <1>6 DEF Shape, Steps
<1> HIDE DEF row
<1> QED
  BY <1>1, <1>4, <1>5, <1>7, LockMovesOn

(* The operator's operations lock the delivery's row and read it at once. *)
LEMMA BeginOperationMovesOn ==
    ASSUME TypeOK, Records, TxInv, NEW p \in Processes, NEW o \in Orders,
           BeginDelay(p, o) \/ BeginComplete(p, o)
    PROVE  TxInv'
<1> DEFINE t(op) == [NoTx EXCEPT !.op = op, !.order = o, !.saw = deliveries[o]]
           row == DeliveryRow(o)
<1>1. pc[p] = "idle" /\ deliveries[o].status \in Underway
  BY DEF BeginDelay, BeginComplete, BeginOperation
<1>2. held[p] = {}
  BY <1>1, ShapeByOp DEF TxInv, Shapes, Idling
<1>3. ASSUME NEW op \in {"delay", "complete"}
      PROVE  t(op) \in TxType /\ t(op).op = op /\ t(op).order = o /\ t(op).saw = deliveries[o]
  <2>1. deliveries[o] \in DeliveryRowType
    BY DEF TypeOK, DeliveryRowType
  <2>2. t(op) \in TxType
    BY <2>1, NoTxType DEF TxType
  <2>3. t(op).op = op /\ t(op).order = o /\ t(op).saw = deliveries[o]
    BY DEF NoTx
  <2> QED
    BY <2>2, <2>3
<1>4. row \in Rows
  BY DEF Rows, DeliveryRow
<1>5. CASE BeginDelay(p, o)
  <2>1. Lock(p, row, "commit", t("delay")) /\ delays[o] < MaxDelays
    BY <1>5 DEF BeginDelay, BeginOperation
  <2> HIDE DEF t
  <2>2. Delaying("commit", t("delay"), held[p] \cup {row})
    BY <1>1, <1>2, <1>3, <2>1 DEF Delaying, Read
  <2>3. Shape("commit", t("delay"), held[p] \cup {row}) /\ "commit" \in Steps
    BY <2>2 DEF Shape, Steps
  <2>4. t("delay") \in TxType
    BY <1>3
  <2> HIDE DEF row
  <2> QED
    BY <1>1, <1>4, <2>1, <2>3, <2>4, LockMovesOn
<1>6. CASE BeginComplete(p, o)
  <2>1. Lock(p, row, "courier", t("complete"))
    BY <1>6 DEF BeginComplete, BeginOperation
  <2> HIDE DEF t
  <2>2. Completing("courier", t("complete"), held[p] \cup {row})
    BY <1>1, <1>2, <1>3, <2>1 DEF Completing, Read
  <2>3. Shape("courier", t("complete"), held[p] \cup {row}) /\ "courier" \in Steps
    BY <2>2 DEF Shape, Steps
  <2>4. t("complete") \in TxType
    BY <1>3
  <2> HIDE DEF row
  <2> QED
    BY <1>1, <1>4, <2>1, <2>3, <2>4, LockMovesOn
<1> QED
  BY <1>5, <1>6

(* assign: a busy courier stays locked and the next candidate is tried. *)
LEMMA LockCandidateMovesOn ==
    ASSUME TypeOK, Records, TxInv, NEW p \in Processes, LockCandidate(p)
    PROVE  TxInv'
<1> DEFINE c == Head(tx[p].candidates)
           row == CourierRow(c)
           u == [tx[p] EXCEPT !.candidates = Tail(@)]
<1>1. pc[p] = "candidate" /\ tx[p].candidates # << >> /\ tx[p] \in TxType
  BY DEF LockCandidate, TxInv, TxTypeOK
<1>2. Assigning(pc[p], tx[p], held[p])
  BY <1>1, ShapeByOp DEF TxInv, Shapes
<1>3. tx[p].candidates \in Seq(geo) /\ geo \subseteq Couriers
  BY <1>2 DEF Assigning, TypeOK
<1>4. c \in Couriers /\ row \in Rows
  BY <1>1, <1>3, HeadTailProperties DEF Rows, CourierRow
<1>5. CASE couriers[c] = "available"
  <2>1. Lock(p, row, "commit", tx[p])
    BY <1>5 DEF LockCandidate
  <2>2. Assigning("commit", tx[p], held[p] \cup {row})
    BY <1>1, <1>2, <1>4, <1>5 DEF Assigning
  <2>3. Shape("commit", tx[p], held[p] \cup {row}) /\ "commit" \in Steps
    BY <2>2 DEF Shape, Steps
  <2> HIDE DEF row
  <2> QED
    BY <1>1, <1>4, <2>1, <2>3, LockMovesOn
<1>6. CASE couriers[c] # "available"
  <2>1. Lock(p, row, "candidate", u)
    BY <1>6 DEF LockCandidate
  <2>2. Tail(tx[p].candidates) \in Seq(geo) /\ Tail(tx[p].candidates) \in Seq(Couriers)
    BY <1>1, <1>3, HeadTailProperties, SeqMonotonic
  <2>3. u \in TxType
    BY <1>1, <2>2 DEF TxType
  <2>4. u.op = tx[p].op /\ u.order = tx[p].order /\ u.candidates = Tail(tx[p].candidates)
        /\ u.report = tx[p].report
    BY <1>1 DEF TxType
  <2> HIDE DEF u
  <2>5. EventRow(u) = EventRow(tx[p])
    BY <2>4 DEF EventRow
  <2>6. Assigning("candidate", u, held[p] \cup {row})
    BY <1>2, <1>4, <2>2, <2>4, <2>5 DEF Assigning
  <2>7. Shape("candidate", u, held[p] \cup {row}) /\ "candidate" \in Steps
    BY <2>6 DEF Shape, Steps
  <2> HIDE DEF row
  <2> QED
    BY <1>1, <1>4, <2>1, <2>3, <2>7, LockMovesOn
<1> QED
  BY <1>5, <1>6

(* cancel and updateLocation decide on the delivery they have just locked. *)
LEMMA LockDeliveryMovesOn ==
    ASSUME TypeOK, Records, TxInv, NEW p \in Processes,
           CancelLocksDelivery(p) \/ LocateLocksDelivery(p)
    PROVE  TxInv'
<1> DEFINE o == tx[p].order
           row == DeliveryRow(o)
           u == [tx[p] EXCEPT !.saw = deliveries[o]]
<1>1. pc[p] = "delivery" /\ tx[p] \in TxType /\ Shape(pc[p], tx[p], held[p])
  BY DEF CancelLocksDelivery, LocateLocksDelivery, TxInv, TxTypeOK, Shapes
<1>2. tx[p].op \in {"cancel", "locate"} /\ o \in Orders
  BY <1>1, ShapeByOp DEF CancelLocksDelivery, LocateLocksDelivery, Cancelling, Locating, TxType
<1>3. row \in Rows /\ deliveries[o] \in DeliveryRowType
  BY <1>2 DEF Rows, DeliveryRow, TypeOK, DeliveryRowType
<1>4. u \in TxType
  BY <1>1, <1>3 DEF TxType
<1>5. u.op = tx[p].op /\ u.order = o /\ u.report = tx[p].report /\ u.saw = deliveries[o]
  BY <1>1 DEF TxType
<1>6. CASE CancelLocksDelivery(p)
  <2> DEFINE step == IF deliveries[o].status \in Underway THEN "courier" ELSE "commit"
  <2>1. tx[p].op = "cancel" /\ Lock(p, row, step, u) /\ deliveries[o].status # "none"
    BY <1>6 DEF CancelLocksDelivery
  <2>2. Cancelling("delivery", tx[p], held[p])
    BY <1>1, <2>1, ShapeByOp
  <2>3. held[p] = {EventRow(tx[p])} /\ FirstTime(EventRow(tx[p]))
    BY <2>2 DEF Cancelling
  <2>4. deliveries[o].status \in Underway \cup Terminal
    BY <2>1, <1>3 DEF DeliveryRowType
  <2> HIDE DEF u
  <2>5. EventRow(u) = EventRow(tx[p]) /\ held[p] \cup {row} = {EventRow(u), DeliveryRow(u.order)}
    BY <1>5, <2>3 DEF EventRow
  <2>6. Cancelling(step, u, held[p] \cup {row})
    <3>1. u.op = "cancel" /\ u.order \in Orders /\ FirstTime(EventRow(u)) /\ Read(u)
      BY <1>2, <1>5, <2>1, <2>3, <2>5 DEF Read
    <3> QED
      BY <1>5, <2>4, <2>5, <3>1 DEF Cancelling
  <2>7. Shape(step, u, held[p] \cup {row}) /\ step \in Steps
    BY <2>6 DEF Shape, Steps
  <2> HIDE DEF row, step
  <2> QED
    BY <1>1, <1>3, <1>4, <2>1, <2>7, LockMovesOn
<1>7. CASE LocateLocksDelivery(p)
  <2>1. tx[p].op = "locate" /\ Lock(p, row, "commit", u)
    BY <1>7 DEF LocateLocksDelivery
  <2>2. Locating("delivery", tx[p], held[p])
    BY <1>1, <2>1, ShapeByOp
  <2> HIDE DEF u
  <2>3. EventRow(u) = EventRow(tx[p])
    BY <1>5 DEF EventRow
  <2>4. held[p] \cup {row} = {EventRow(u), CourierRow(u.report.courier), DeliveryRow(u.order)}
    BY <1>5, <2>2, <2>3 DEF Locating
  <2>5. Locating("commit", u, held[p] \cup {row})
    BY <1>2, <1>5, <2>1, <2>2, <2>4 DEF Locating, Read
  <2>6. Shape("commit", u, held[p] \cup {row}) /\ "commit" \in Steps
    BY <2>5 DEF Shape, Steps
  <2> HIDE DEF row
  <2> QED
    BY <1>1, <1>3, <1>4, <2>1, <2>6, LockMovesOn
<1> QED
  BY <1>6, <1>7

(* updateLocation, cancel and complete lock the courier's row. *)
LEMMA LockCourierMovesOn ==
    ASSUME TypeOK, Records, UnderwayHasCourier, TxInv, NEW p \in Processes,
           LocateLocksCourier(p) \/ EndLocksCourier(p)
    PROVE  TxInv'
<1> DEFINE t == tx[p]
<1>1. pc[p] = "courier" /\ t \in TxType /\ Shape(pc[p], t, held[p])
  BY DEF LocateLocksCourier, EndLocksCourier, TxInv, TxTypeOK, Shapes
<1>2. CASE LocateLocksCourier(p)
  <2> DEFINE e == t.report
             row == CourierRow(e.courier)
             step == IF e.delivery = NoDelivery THEN "commit" ELSE "delivery"
  <2>1. t.op = "locate" /\ Lock(p, row, step, t) /\ lastSeq[e.courier] < e.seq
    BY <1>2 DEF LocateLocksCourier
  <2>2. Locating("courier", t, held[p])
    BY <1>1, <2>1, ShapeByOp
  <2>3. e \in reports /\ row \in Rows
    BY <2>2 DEF Locating, TypeOK, Rows, CourierRow
  <2>4. Locating(step, t, held[p] \cup {row})
    BY <2>1, <2>2 DEF Locating
  <2>5. Shape(step, t, held[p] \cup {row}) /\ step \in Steps
    BY <2>4 DEF Shape, Steps
  <2> HIDE DEF row, step, t
  <2> QED
    BY <1>1, <2>1, <2>3, <2>5, LockMovesOn
<1>3. CASE EndLocksCourier(p)
  <2> DEFINE row == CourierRow(t.saw.courier)
  <2>1. t.op \in {"cancel", "complete"} /\ Lock(p, row, "commit", t)
    BY <1>3 DEF EndLocksCourier
  <2>2. t.saw.status \in Underway /\ Read(t)
    BY <1>1, <2>1, ShapeByOp DEF Cancelling, Completing
  <2>3. row \in Rows
    BY <2>2 DEF Read, UnderwayHasCourier, Rows, CourierRow
  <2>4. Shape("commit", t, held[p] \cup {row}) /\ "commit" \in Steps
    BY <1>1, <2>1, ShapeByOp DEF Cancelling, Completing, Shape, Steps
  <2> HIDE DEF row, t
  <2> QED
    BY <1>1, <2>1, <2>3, <2>4, LockMovesOn
<1> QED
  BY <1>2, <1>3

-----------------------------------------------------------------------------
(* Steps that write *)

(* cancel, when there is no delivery: the mark is not committed yet. *)
LEMMA CancelReadsNoRowMovesOn ==
    ASSUME TypeOK, Records, TxInv, NEW p \in Processes, CancelReadsNoRow(p)
    PROVE  TxInv' /\ (UNCHANGED vars \/ Next)
<1>1. PICK t, rows, step : t = tx[p] /\ rows = held[p] /\ step = "commit"
  OBVIOUS
<1> DEFINE o == t.order
<1>2. /\ pc[p] = "delivery" /\ t.op = "cancel" /\ deliveries[o].status = "none"
      /\ missed' = missed \cup {o} /\ pc' = [pc EXCEPT ![p] = step]
      /\ UNCHANGED <<dispatchVars, lastSeq, geo, inbox, seen, kafkaVars, age, tx, held>>
  BY <1>1 DEF CancelReadsNoRow
<1>3. Cancelling("delivery", t, rows) /\ t \in TxType /\ rows \in SUBSET Rows
  BY <1>1, <1>2, ShapeByOp DEF TxInv, Shapes, TxTypeOK
<1>4. /\ o \in Orders /\ FirstTime(EventRow(t)) /\ t.saw.status = "none" /\ rows = {EventRow(t)}
      /\ EventRow(t) = <<"order.cancelled", o>> /\ EventRow(t)' = EventRow(t)
  BY <1>2, <1>3 DEF Cancelling, EventRow
<1>5. TxInv'
  <2>1. tx' = [tx EXCEPT ![p] = t] /\ held' = [held EXCEPT ![p] = rows]
    BY <1>1, <1>2 DEF TxInv, TxTypeOK
  <2>2. Frame(held[p])
    BY <1>2 DEF Frame, dispatchVars, kafkaVars
  <2>3. Shape(step, t, rows)' /\ step \in Steps
    BY <1>1, <1>2, <1>4 DEF Shape, Cancelling, FirstTime, kafkaVars, Steps
  <2>4. \A q \in Others(p) : rows \cap held[q] = {}
    BY <1>1 DEF TxInv, Exclusive, Others
  <2>5. MissedGoesOn(p, step, t)
    BY <1>1, <1>2, <1>4 DEF MissedGoesOn
  <2>6. pc' = [pc EXCEPT ![p] = step] /\ t \in TxType /\ rows \in SUBSET Rows
    BY <1>2, <1>3
  <2> QED
    BY <2>1, <2>2, <2>3, <2>4, <2>5, <2>6, MoveOn
<1>6. CASE o \in missed
  <2>1. missed' = missed
    BY <1>2, <1>6
  <2> QED
    BY <1>2, <1>5, <2>1 DEF vars, dispatchVars, kafkaVars
<1>7. CASE o \notin missed
  <2>1. CancelFindsNone(o)
    BY <1>2, <1>4, <1>7 DEF CancelFindsNone
  <2> QED
    BY <1>4, <1>5, <2>1 DEF Next
<1> QED
  BY <1>6, <1>7

(* A rollback writes nothing; that of a cancellation which had found no       *)
(* delivery is the end of it.                                               *)
LEMMA RollbackMovesOn ==
    ASSUME TypeOK, Records, TxInv, NEW p \in Processes, Rollback(p)
    PROVE  TxInv' /\ (UNCHANGED vars \/ Next)
<1> DEFINE t == tx[p]
           o == t.order
<1>1. /\ End(p)
      /\ missed' = IF t.op = "cancel" THEN missed \ {o} ELSE missed
      /\ UNCHANGED <<dispatchVars, lastSeq, geo, inbox, seen, kafkaVars, age>>
  BY DEF Rollback
<1>2. t.op = "cancel" => <<"order.cancelled", o>> \in held[p]
  <2>1. t.op = "cancel" => Cancelling(pc[p], t, held[p])
    BY ShapeByOp DEF TxInv, Shapes
  <2> QED
    BY <2>1 DEF Cancelling, EventRow
<1>3. Frame(held[p])
  BY <1>1, <1>2 DEF Frame, dispatchVars, kafkaVars
<1>4. \A m \in missed' : m \in missed /\ ~(tx[p].op = "cancel" /\ tx[p].order = m /\ pc[p] = "commit")
  BY <1>1
<1>5. TxInv'
  BY <1>1, <1>3, <1>4, EndMovesOn
<1>6. CASE missed' = missed
  BY <1>1, <1>5, <1>6 DEF vars, dispatchVars, kafkaVars
<1>7. CASE missed' # missed
  <2>1. o \in missed /\ missed' = missed \ {o} /\ o \in Orders
    BY <1>1, <1>7 DEF TypeOK
  <2>2. CancelTooEarly(o)
    BY <1>1, <2>1 DEF CancelTooEarly
  <2> QED
    BY <1>5, <2>1, <2>2 DEF Next
<1> QED
  BY <1>6, <1>7

(* While one transaction handles a cancellation, no other one does: it alone  *)
(* could have found no delivery.                                            *)
LEMMA CancelAlone ==
    ASSUME TxInv, NEW p \in Processes, tx[p].op = "cancel",
           ~(pc[p] = "commit" /\ tx[p].saw.status = "none")
    PROVE  tx[p].order \notin missed
<1> SUFFICES ASSUME tx[p].order \in missed PROVE FALSE
  OBVIOUS
<1>1. PICK q \in Processes : /\ tx[q].op = "cancel" /\ tx[q].order = tx[p].order
                              /\ pc[q] = "commit" /\ tx[q].saw.status = "none"
  BY DEF TxInv, MissedByCancel
<1>2. <<"order.cancelled", tx[p].order>> \in held[p] /\ <<"order.cancelled", tx[p].order>> \in held[q]
  <2>1. Cancelling(pc[p], tx[p], held[p]) /\ Cancelling(pc[q], tx[q], held[q])
    BY <1>1, ShapeByOp DEF TxInv, Shapes
  <2> QED
    BY <1>1, <2>1 DEF Cancelling, EventRow
<1>3. p # q
  BY <1>1
<1> QED
  BY <1>2, <1>3 DEF TxInv, Exclusive

(* Consumer.assign: the courier it locked is still available and the order    *)
(* still has no delivery.                                                   *)
LEMMA CommitAssignMovesOn ==
    ASSUME TypeOK, Records, TxInv, NEW p \in Processes, CommitAssign(p)
    PROVE  TxInv' /\ Next
<1> DEFINE t == tx[p]
           o == t.order
           c == Head(t.candidates)
<1>1. /\ pc[p] = "commit" /\ t.op = "assign" /\ End(p)
      /\ inbox' = inbox \cup {<<"order.created", o>>}
      /\ couriers' = [couriers EXCEPT ![c] = "assigned"]
      /\ deliveries' = [deliveries EXCEPT ![o] = [status |-> "assigned", courier |-> c, delay |-> 0]]
      /\ outbox' = [outbox EXCEPT ![o] = Append(@, "delivery.assigned")]
      /\ age' = [age EXCEPT ![o] = 0]
      /\ UNCHANGED <<delays, lastSeq, geo, seen, missed, kafkaVars>>
  BY DEF CommitAssign
<1>2. Assigning("commit", t, held[p])
  BY <1>1, ShapeByOp DEF TxInv, Shapes
<1>3. /\ o \in Orders /\ FirstTime(<<"order.created", o>>) /\ <<"order.created", o>> \in held[p]
      /\ t.candidates \in Seq(geo) /\ t.candidates # << >>
      /\ CourierRow(c) \in held[p] /\ couriers[c] = "available"
  BY <1>1, <1>2 DEF Assigning, EventRow
<1>4. c \in geo /\ c \in Couriers
  BY <1>3, HeadTailProperties DEF TypeOK
<1>5. deliveries[o].status = "none"
  BY <1>3 DEF Records, FirstTime
<1> HIDE DEF c
<1>6. Assign(o, c)
  BY <1>1, <1>3, <1>4, <1>5 DEF Assign
<1>7. Frame(held[p])
  <2>1. \A d \in Orders : deliveries[d].status # "none" => deliveries'[d] = deliveries[d]
    BY <1>1, <1>5 DEF TypeOK
  <2>2. \A d \in Couriers : CourierRow(d) \notin held[p] => couriers'[d] = couriers[d]
    BY <1>1, <1>3 DEF TypeOK
  <2> QED
    BY <1>1, <1>3, <2>1, <2>2 DEF Frame, kafkaVars
<1>8. \A m \in missed' : m \in missed /\ ~(tx[p].op = "cancel" /\ tx[p].order = m /\ pc[p] = "commit")
  BY <1>1
<1> QED
  BY <1>1, <1>3, <1>4, <1>6, <1>7, <1>8, EndMovesOn DEF Next

(* updateLocation of an old position. *)
LEMMA CommitStaleReportMovesOn ==
    ASSUME TypeOK, Records, TxInv, NEW p \in Processes, CommitStaleReport(p)
    PROVE  TxInv' /\ Next
<1> DEFINE e == tx[p].report
<1>1. /\ pc[p] = "courier" /\ tx[p].op = "locate" /\ End(p)
      /\ lastSeq[e.courier] >= e.seq /\ seen' = seen \cup {e.seq}
      /\ UNCHANGED <<dispatchVars, lastSeq, geo, inbox, missed, kafkaVars, age>>
  BY DEF CommitStaleReport
<1>2. Locating("courier", tx[p], held[p])
  BY <1>1, ShapeByOp DEF TxInv, Shapes
<1>3. e \in reports /\ Unseen(e) /\ <<"report", e.seq>> \in held[p]
  BY <1>1, <1>2 DEF Locating, EventRow
<1>4. e.seq \in Nat /\ lastSeq[e.courier] \in Nat
  BY <1>3 DEF TypeOK
<1>5. IgnoreStaleReport(e)
  BY <1>1, <1>3, <1>4 DEF IgnoreStaleReport
<1>6. Frame(held[p])
  BY <1>1, <1>3 DEF Frame, dispatchVars, kafkaVars
<1>7. \A m \in missed' : m \in missed /\ ~(tx[p].op = "cancel" /\ tx[p].order = m /\ pc[p] = "commit")
  BY <1>1
<1> HIDE DEF e
<1> QED
  BY <1>1, <1>3, <1>5, <1>6, <1>7, EndMovesOn DEF Next, ConsumeReport

(* The writes of an end are those of Delivery when what was read still holds. *)
LEMMA WriteEndIsEndDelivery ==
    ASSUME NEW p \in Processes, Read(tx[p]), NEW status, NEW event, WriteEnd(p, status, event)
    PROVE  EndDelivery(tx[p].order, status, event)
BY DEF WriteEnd, EndDelivery, Read

(* ... and they write the two rows that are locked. *)
LEMMA EndFrame ==
    ASSUME TypeOK, UnderwayHasCourier, NEW o \in Orders, deliveries[o].status \in Underway,
           NEW status, NEW event, EndDelivery(o, status, event)
    PROVE  /\ delays' = delays
           /\ \A d \in Orders : d # o => deliveries'[d] = deliveries[d]
           /\ \A c \in Couriers : c # deliveries[o].courier => couriers'[c] = couriers[c]
BY DEF EndDelivery, TypeOK, UnderwayHasCourier

(* Consumer.cancel *)
LEMMA CommitCancelMovesOn ==
    ASSUME TypeOK, UnderwayHasCourier, Records, TxInv, NEW p \in Processes, CommitCancel(p)
    PROVE  TxInv' /\ Next
<1> DEFINE t == tx[p]
           o == t.order
<1>1. /\ pc[p] = "commit" /\ t.op = "cancel" /\ End(p)
      /\ inbox' = inbox \cup {<<"order.cancelled", o>>} /\ missed' = missed \ {o}
      /\ t.saw.status \in Underway => WriteEnd(p, "cancelled", "delivery.cancelled")
      /\ t.saw.status \notin Underway => UNCHANGED dispatchVars
      /\ UNCHANGED <<lastSeq, geo, seen, kafkaVars, age>>
  BY DEF CommitCancel
<1>2. Cancelling("commit", t, held[p])
  BY <1>1, ShapeByOp DEF TxInv, Shapes
<1>3. /\ o \in Orders /\ FirstTime(<<"order.cancelled", o>>) /\ <<"order.cancelled", o>> \in held[p]
      /\ \/ t.saw.status = "none" /\ o \in missed
         \/ t.saw.status \in Terminal /\ Read(t)
         \/ /\ t.saw.status \in Underway /\ Read(t)
            /\ DeliveryRow(o) \in held[p] /\ CourierRow(t.saw.courier) \in held[p]
  BY <1>1, <1>2 DEF Cancelling, EventRow
<1>4. \A m \in missed' : m \in missed /\ ~(tx[p].op = "cancel" /\ tx[p].order = m /\ pc[p] = "commit")
  BY <1>1
<1>5. CASE t.saw.status = "none" /\ o \in missed
  <2>1. UNCHANGED dispatchVars
    BY <1>1, <1>5 DEF Underway
  <2>2. CancelTooEarly(o)
    BY <1>1, <1>5, <2>1 DEF CancelTooEarly
  <2>3. Frame(held[p])
    BY <1>1, <1>3, <2>1 DEF Frame, dispatchVars, kafkaVars
  <2> QED
    BY <1>1, <1>3, <1>4, <2>2, <2>3, EndMovesOn DEF Next
<1>6. CASE t.saw.status \in Terminal /\ Read(t)
  <2>1. UNCHANGED dispatchVars /\ t.saw.status # "none"
    BY <1>1, <1>6 DEF Underway, Terminal
  <2>2. o \notin missed /\ missed' = missed
    BY <1>1, <2>1, CancelAlone
  <2>3. CancelNothing(o)
    BY <1>1, <1>3, <1>6, <2>1, <2>2 DEF CancelNothing, Read
  <2>4. Frame(held[p])
    BY <1>1, <1>3, <2>1, <2>2 DEF Frame, dispatchVars, kafkaVars
  <2> QED
    BY <1>1, <1>3, <1>4, <2>3, <2>4, EndMovesOn DEF Next
<1>7. CASE /\ t.saw.status \in Underway /\ Read(t)
           /\ DeliveryRow(o) \in held[p] /\ CourierRow(t.saw.courier) \in held[p]
  <2>1. o \notin missed /\ missed' = missed
    BY <1>1, <1>7, CancelAlone DEF Underway
  <2>2. deliveries[o].status \in Underway /\ EndDelivery(o, "cancelled", "delivery.cancelled")
    BY <1>1, <1>7, WriteEndIsEndDelivery DEF Read
  <2>3. CancelUnderway(o)
    BY <1>1, <1>3, <2>1, <2>2 DEF CancelUnderway
  <2>4. CourierRow(deliveries[o].courier) \in held[p]
    BY <1>7 DEF Read
  <2>5. Frame(held[p])
    BY <1>1, <1>3, <1>7, <2>1, <2>2, <2>4, EndFrame DEF Frame, kafkaVars
  <2> QED
    BY <1>1, <1>3, <1>4, <2>3, <2>5, EndMovesOn DEF Next
<1> QED
  BY <1>3, <1>5, <1>6, <1>7

(* Handler.complete *)
LEMMA CommitCompleteMovesOn ==
    ASSUME TypeOK, UnderwayHasCourier, Records, TxInv, NEW p \in Processes, CommitComplete(p)
    PROVE  TxInv' /\ Next
<1> DEFINE t == tx[p]
           o == t.order
<1>1. /\ pc[p] = "commit" /\ t.op = "complete" /\ End(p)
      /\ WriteEnd(p, "completed", "delivery.completed")
      /\ UNCHANGED <<lastSeq, geo, inboxVars, kafkaVars, age>>
  BY DEF CommitComplete
<1>2. /\ t.saw.status \in Underway /\ Read(t) /\ o \in Orders
      /\ DeliveryRow(o) \in held[p] /\ CourierRow(t.saw.courier) \in held[p]
  BY <1>1, ShapeByOp DEF TxInv, Shapes, Completing, Read
<1>3. deliveries[o].status \in Underway /\ EndDelivery(o, "completed", "delivery.completed")
  BY <1>1, <1>2, WriteEndIsEndDelivery DEF Read
<1>4. Complete(o)
  BY <1>1, <1>3 DEF Complete
<1>5. CourierRow(deliveries[o].courier) \in held[p]
  BY <1>2 DEF Read
<1>6. Frame(held[p])
  BY <1>1, <1>2, <1>3, <1>5, EndFrame DEF Frame, inboxVars, kafkaVars
<1>7. \A m \in missed' : m \in missed /\ ~(tx[p].op = "cancel" /\ tx[p].order = m /\ pc[p] = "commit")
  BY <1>1 DEF inboxVars
<1> QED
  BY <1>1, <1>2, <1>4, <1>6, <1>7, EndMovesOn DEF Next

(* Handler.delay *)
LEMMA CommitDelayMovesOn ==
    ASSUME TypeOK, Records, TxInv, NEW p \in Processes, CommitDelay(p)
    PROVE  TxInv' /\ Next
<1> DEFINE t == tx[p]
           o == t.order
<1>1. /\ pc[p] = "commit" /\ t.op = "delay" /\ End(p)
      /\ deliveries' = [deliveries EXCEPT ![o].delay =
                          IF @ + DelayStep > MaxDelay THEN MaxDelay ELSE @ + DelayStep]
      /\ delays' = [delays EXCEPT ![o] = @ + 1]
      /\ UNCHANGED <<couriers, outbox, lastSeq, geo, inboxVars, kafkaVars, age>>
  BY DEF CommitDelay
<1>2. /\ t.saw.status \in Underway /\ Read(t) /\ o \in Orders
      /\ DeliveryRow(o) \in held[p] /\ delays[o] < MaxDelays
  BY <1>1, ShapeByOp DEF TxInv, Shapes, Delaying, Read
<1>3. deliveries[o].status \in Underway
  BY <1>2 DEF Read
<1>4. Delay(o)
  BY <1>1, <1>2, <1>3 DEF Delay
<1>5. \A d \in Orders : d # o => deliveries'[d] = deliveries[d] /\ delays'[d] = delays[d]
  BY <1>1 DEF TypeOK
<1>6. Frame(held[p])
  BY <1>1, <1>2, <1>5 DEF Frame, inboxVars, kafkaVars
<1>7. \A m \in missed' : m \in missed /\ ~(tx[p].op = "cancel" /\ tx[p].order = m /\ pc[p] = "commit")
  BY <1>1 DEF inboxVars
<1> QED
  BY <1>1, <1>2, <1>4, <1>6, <1>7, EndMovesOn DEF Next

(* updateLocation *)
LEMMA CommitLocateMovesOn ==
    ASSUME TypeOK, UnderwayHasCourier, Records, TxInv, NEW p \in Processes, CommitLocate(p)
    PROVE  TxInv' /\ Next
<1> DEFINE t == tx[p]
           e == t.report
           o == e.delivery
<1>1. /\ pc[p] = "commit" /\ t.op = "locate" /\ End(p) /\ ~Refused(t)
      /\ seen' = seen \cup {e.seq}
      /\ lastSeq' = [lastSeq EXCEPT ![e.courier] = e.seq]
      /\ geo' \in {geo, geo \cup {e.courier}}
      /\ UNCHANGED <<inbox, missed, kafkaVars, age>>
  BY DEF CommitLocate
<1>2. Locating("commit", t, held[p])
  BY <1>1, ShapeByOp DEF TxInv, Shapes
<1>3. /\ e \in reports /\ t.order = o /\ Unseen(e) /\ lastSeq[e.courier] < e.seq
      /\ <<"report", e.seq>> \in held[p] /\ CourierRow(e.courier) \in held[p]
      /\ o # NoDelivery => Read(t) /\ DeliveryRow(o) \in held[p]
  BY <1>1, <1>2 DEF Locating, EventRow
<1>4. e.seq \in Nat /\ e.courier \in Couriers /\ lastSeq[e.courier] \in Nat
  BY <1>3 DEF TypeOK
<1>5. MoveCourier(e)
  BY <1>1, <1>3, <1>4 DEF MoveCourier
<1>6. o # NoDelivery =>
         /\ o \in Orders /\ t.saw = deliveries[o] /\ deliveries[o].courier = e.courier
         /\ e.phase = deliveries[o].status \/ validDeliveryTransition(deliveries[o].status, e.phase)
  BY <1>1, <1>3 DEF Refused, Read
<1>7. ASSUME /\ \A d \in Orders : deliveries[d].status # "none" /\ DeliveryRow(d) \notin held[p] =>
                    deliveries'[d] = deliveries[d] /\ delays'[d] = delays[d]
             /\ \A c \in Couriers : CourierRow(c) \notin held[p] => couriers'[c] = couriers[c]
      PROVE  TxInv'
  <2>1. \A c \in Couriers : CourierRow(c) \notin held[p] => lastSeq'[c] = lastSeq[c]
    BY <1>1, <1>3 DEF TypeOK
  <2>2. \A n \in Nat : <<"report", n>> \notin held[p] /\ n \notin seen => n \notin seen'
    BY <1>1, <1>3
  <2>3. inbox' = inbox /\ missed' = missed /\ geo \subseteq geo' /\ reports' = reports /\ published' = published
    BY <1>1 DEF kafkaVars
  <2>4. Frame(held[p])
    BY <1>7, <2>1, <2>2, <2>3 DEF Frame
  <2>5. \A m \in missed' : m \in missed /\ ~(tx[p].op = "cancel" /\ tx[p].order = m /\ pc[p] = "commit")
    BY <1>1
  <2> QED
    BY <1>1, <2>4, <2>5, EndMovesOn
<1>8. CASE o = NoDelivery \/ e.phase = t.saw.status
  <2>1. UNCHANGED dispatchVars
    BY <1>8 DEF CommitLocate
  <2>2. ReportPosition(e)
    BY <1>1, <1>5, <1>6, <1>8, <2>1 DEF ReportPosition
  <2>3. TxInv'
    BY <1>7, <2>1 DEF dispatchVars
  <2> QED
    BY <1>3, <2>2, <2>3 DEF Next, ConsumeReport
<1>9. CASE ~(o = NoDelivery \/ e.phase = t.saw.status) /\ e.phase = "completed"
  <2>1. WriteEnd(p, "completed", "delivery.completed")
    BY <1>9 DEF CommitLocate
  <2>2. EndDelivery(o, "completed", "delivery.completed")
    BY <1>3, <1>9, <2>1, WriteEndIsEndDelivery
  <2>3. /\ o \in Orders /\ deliveries[o].courier = e.courier
        /\ validDeliveryTransition(deliveries[o].status, e.phase)
    BY <1>6, <1>9
  <2>4. ReportCompleted(e)
    BY <1>1, <1>5, <1>9, <2>2, <2>3 DEF ReportCompleted
  <2>5. deliveries[o].status \in Underway
    BY <1>9, <2>3 DEF validDeliveryTransition, Underway
  <2>6. TxInv'
    BY <1>3, <1>7, <1>9, <2>2, <2>3, <2>5, EndFrame
  <2> QED
    BY <1>3, <2>4, <2>6 DEF Next, ConsumeReport
<1>10. CASE ~(o = NoDelivery \/ e.phase = t.saw.status) /\ e.phase # "completed"
  <2>1. /\ deliveries' = [deliveries EXCEPT ![o].status = e.phase]
        /\ outbox' = [outbox EXCEPT ![o] = Append(@, IF e.phase = "assembling"
                                                     THEN "delivery.assembling"
                                                     ELSE "delivery.delivering")]
        /\ UNCHANGED <<couriers, delays>>
    BY <1>10 DEF CommitLocate
  <2>2. /\ o \in Orders /\ deliveries[o].courier = e.courier
        /\ validDeliveryTransition(deliveries[o].status, e.phase)
    BY <1>6, <1>10
  <2>3. ReportProgress(e)
    BY <1>1, <1>5, <1>10, <2>1, <2>2 DEF ReportProgress
  <2>4. \A d \in Orders : d # o => deliveries'[d] = deliveries[d]
    BY <2>1 DEF TypeOK
  <2>5. TxInv'
    BY <1>3, <1>7, <1>10, <2>1, <2>4
  <2> QED
    BY <1>3, <2>3, <2>5 DEF Next, ConsumeReport
<1> QED
  BY <1>8, <1>9, <1>10

-----------------------------------------------------------------------------
(* The invariant *)

(* A delivery that exists goes on existing, and the mark of its order event   *)
(* was committed with it.                                                   *)
LEMMA NextRecords == TypeOK /\ Records /\ [Next]_vars => Records'
<1> SUFFICES ASSUME TypeOK, Records, [Next]_vars PROVE Records'
  OBVIOUS
<1>1. \A o \in Orders : deliveries[o].status # "none" => deliveries'[o].status # "none"
  BY NextMoves DEF Moves, MoveTo, Underway
<1>2. ASSUME inbox \subseteq inbox', reports' = reports,
             \A o \in Orders : deliveries'[o].status # "none" =>
                 deliveries[o].status # "none" \/ <<"order.created", o>> \in inbox'
      PROVE  Records'
  BY <1>1, <1>2 DEF Records, TypeOK
<1>3. ASSUME inbox' = inbox, deliveries' = deliveries,
             \A e \in reports' : e \in reports \/ e.delivery = NoDelivery
                                  \/ deliveries[e.delivery].status # "none"
      PROVE  Records'
  BY <1>3 DEF Records
<1>4. ASSUME NEW o \in Orders, NEW c \in Couriers, Assign(o, c) PROVE Records'
  BY <1>2, <1>4 DEF Assign, kafkaVars, TypeOK
<1>5. ASSUME NEW o \in Orders, deliveries[o].status \in Underway,
             inbox \subseteq inbox', reports' = reports,
             \A d \in Orders : d # o => deliveries'[d] = deliveries[d]
      PROVE  Records'
  BY <1>2, <1>5 DEF Underway
<1>6. ASSUME NEW o \in Orders, CancelUnderway(o) \/ Complete(o) \/ Delay(o) PROVE Records'
  <2>1. /\ deliveries[o].status \in Underway /\ inbox \subseteq inbox' /\ reports' = reports
        /\ \A d \in Orders : d # o => deliveries'[d] = deliveries[d]
    BY <1>6 DEF CancelUnderway, Complete, Delay, EndDelivery, inboxVars, kafkaVars, TypeOK
  <2> QED
    BY <1>5, <2>1
<1>7. ASSUME NEW e \in reports, ReportProgress(e) \/ ReportCompleted(e) PROVE Records'
  <2>1. /\ e.delivery \in Orders /\ deliveries[e.delivery].status \in Underway
        /\ inbox \subseteq inbox' /\ reports' = reports
        /\ \A d \in Orders : d # e.delivery => deliveries'[d] = deliveries[d]
    BY <1>7 DEF ReportProgress, ReportCompleted, EndDelivery, validDeliveryTransition, Underway,
                kafkaVars, TypeOK
  <2> QED
    BY <1>5, <2>1
<1>8. ASSUME NEW c \in Couriers, ReportIdle(c) \/ ReportActive(c) PROVE Records'
  BY <1>3, <1>8 DEF ReportIdle, ReportActive, Report, publish, Assignments, Underway,
                    dispatchVars, inboxVars
<1>9. ASSUME inbox \subseteq inbox', reports' = reports, deliveries' = deliveries PROVE Records'
  BY <1>2, <1>9
<1>10. ASSUME NEW o \in Orders,
              \/ PublishCreated(o) \/ PublishCancelled(o)
              \/ CancelNothing(o) \/ CancelFindsNone(o) \/ CancelTooEarly(o)
       PROVE Records'
  BY <1>9, <1>10 DEF PublishCreated, PublishCancelled, CancelNothing, CancelFindsNone,
                     CancelTooEarly, dispatchVars, inboxVars, kafkaVars
<1>11. ASSUME NEW e \in reports, IgnoreStaleReport(e) \/ ReportPosition(e) PROVE Records'
  BY <1>9, <1>11 DEF IgnoreStaleReport, ReportPosition, dispatchVars, kafkaVars
<1>12. ASSUME PassTime \/ UNCHANGED vars PROVE Records'
  BY <1>9, <1>12 DEF PassTime, vars, dispatchVars, inboxVars, kafkaVars
<1> QED
  BY <1>4, <1>6, <1>7, <1>8, <1>10, <1>11, <1>12 DEF Next, ConsumeReport

(* What is proved of Delivery's tables stays true over its steps. *)
TablesInv ==
    /\ FleetInv
    /\ \A o \in Orders : Announced(o)
    /\ Records

(* Every step of Delivery keeps the tables consistent. *)
LEMMA NextTables == TablesInv /\ [Next]_vars => TablesInv'
<1> SUFFICES ASSUME TablesInv, [Next]_vars PROVE TablesInv'
  OBVIOUS
<1>1. TypeOK /\ FleetInv'
  BY NextFleetInv DEF TablesInv, FleetInv
<1>2. Records'
  BY <1>1, NextRecords DEF TablesInv
<1>3. ASSUME NEW o \in Orders PROVE Announced(o)'
  <2>1. Moves(o) /\ Announced(o) /\ outbox[o] \in Seq(DeliveryEvent)
    BY <1>1, NextMoves DEF TypeOK, TablesInv
  <2> QED
    BY <2>1, MoveKeepsInStep DEF Moves, Announced
<1> QED
  BY <1>1, <1>2, <1>3 DEF TablesInv

(* The answer of Redis is a list of couriers it knows. *)
LEMMA CandidatesAreKnown ==
    ASSUME TypeOK, NEW candidates \in SetToAllKPermutations(geo)
    PROVE  candidates \in Seq(geo)
<1>1. PICK s \in SUBSET geo : candidates \in [1..Cardinality(s) -> s]
  BY DEF SetToAllKPermutations, SetToSeqs
<1>2. IsFiniteSet(s) /\ Cardinality(s) \in Nat
  BY LocksAssumption, FS_Subset, FS_CardinalityType DEF TypeOK
<1>3. candidates \in Seq(s)
  BY <1>1, <1>2
<1> QED
  BY <1>3, SeqMonotonic

(* What happens around the transactions touches nothing they rely on. *)
LEMMA UntouchedStays ==
    ASSUME TypeOK, Records, TxInv, UNCHANGED <<pc, tx, held, missed>>, Frame({})
    PROVE  TxInv'
<1>1. ASSUME NEW q \in Processes PROVE Shape(pc[q], tx[q], held[q])'
  <2>1. PICK st, u, r : st = pc[q] /\ u = tx[q] /\ r = held[q]
    OBVIOUS
  <2>2. Shape(st, u, r) /\ u \in TxType /\ r \cap {} = {}
    BY <2>1 DEF TxInv, Shapes, TxTypeOK
  <2>3. Shape(st, u, r)'
    BY <2>2, LockedStays
  <2> QED
    BY <2>1, <2>3, ShapeOfConnection
<1>2. Shapes'
  BY <1>1 DEF Shapes
<1>3. TxTypeOK' /\ Exclusive' /\ MissedByCancel'
  BY DEF TxInv, TxTypeOK, Exclusive, MissedByCancel
<1> QED
  BY <1>2, <1>3 DEF TxInv

(* One step of the transactions is a step of Delivery or none, and keeps what *)
(* the transactions hold and know.                                          *)
LEMMA LocksStep ==
    ASSUME TablesInv, TxInv, LocksNext
    PROVE  TxInv' /\ (UNCHANGED vars \/ Next)
<1>0. TypeOK /\ UnderwayHasCourier /\ Records
  BY DEF TablesInv, FleetInv
<1>1. CASE Surroundings
  <2>1. /\ PassTime \/ \E c \in Couriers : ReportIdle(c) \/ ReportActive(c)
        /\ UNCHANGED <<pc, tx, held>>
    BY <1>1 DEF Surroundings, txVars
  <2>2. Next
    BY <2>1 DEF Next
  <2>3. /\ UNCHANGED <<deliveries, couriers, delays, lastSeq, inbox, seen, missed, published>>
        /\ geo \subseteq geo' /\ reports \subseteq reports'
    BY <2>1 DEF PassTime, ReportIdle, ReportActive, Report, publish, dispatchVars, inboxVars, kafkaVars
  <2>4. Frame({})
    BY <2>3 DEF Frame
  <2>5. TxInv'
    BY <1>0, <2>1, <2>3, <2>4, UntouchedStays
  <2> QED
    BY <2>2, <2>5
<1>2. ASSUME NEW p \in Processes, NEW o \in Orders,
             NEW candidates \in SetToAllKPermutations(geo) \ {<< >>}, BeginAssign(p, o, candidates)
      PROVE  TxInv' /\ UNCHANGED vars
  <2>1. candidates \in Seq(geo)
    BY <1>0, CandidatesAreKnown
  <2> QED
    BY <1>0, <1>2, <2>1, BeginAssignMovesOn DEF BeginAssign, Lock
<1>3. ASSUME NEW p \in Processes, NEW o \in Orders,
             BeginCancel(p, o) \/ BeginDelay(p, o) \/ BeginComplete(p, o)
      PROVE  TxInv' /\ UNCHANGED vars
  <2>1. UNCHANGED vars
    BY <1>3 DEF BeginCancel, BeginDelay, BeginComplete, BeginOperation, Lock
  <2> QED
    BY <1>0, <1>3, <2>1, BeginCancelMovesOn, BeginOperationMovesOn
<1>4. ASSUME NEW p \in Processes, NEW e \in reports, BeginLocate(p, e)
      PROVE  TxInv' /\ UNCHANGED vars
  BY <1>0, <1>4, BeginLocateMovesOn DEF BeginLocate, Lock
<1>5. ASSUME NEW p \in Processes, LockCandidate(p) PROVE TxInv' /\ UNCHANGED vars
  BY <1>0, <1>5, LockCandidateMovesOn DEF LockCandidate, Lock
<1>6. ASSUME NEW p \in Processes, CancelLocksDelivery(p) \/ LocateLocksDelivery(p)
      PROVE  TxInv' /\ UNCHANGED vars
  BY <1>0, <1>6, LockDeliveryMovesOn DEF CancelLocksDelivery, LocateLocksDelivery, Lock
<1>7. ASSUME NEW p \in Processes, LocateLocksCourier(p) \/ EndLocksCourier(p)
      PROVE  TxInv' /\ UNCHANGED vars
  BY <1>0, <1>7, LockCourierMovesOn DEF LocateLocksCourier, EndLocksCourier, Lock
<1>8. ASSUME NEW p \in Processes,
             AllBusy(p) \/ RefuseReport(p) \/ AbortVictim(p) \/ LoseConnection(p)
      PROVE  TxInv' /\ (UNCHANGED vars \/ Next)
  BY <1>0, <1>8, RollbackMovesOn DEF AllBusy, RefuseReport, AbortVictim, LoseConnection
<1>9. ASSUME NEW p \in Processes,
             \/ CommitAssign(p) \/ CommitStaleReport(p) \/ CommitCancel(p)
             \/ CommitComplete(p) \/ CommitDelay(p) \/ CommitLocate(p)
      PROVE  TxInv' /\ Next
  BY <1>0, <1>9, CommitAssignMovesOn, CommitStaleReportMovesOn, CommitCancelMovesOn,
     CommitCompleteMovesOn, CommitDelayMovesOn, CommitLocateMovesOn
<1>10. ASSUME NEW p \in Processes, CancelReadsNoRow(p)
       PROVE  TxInv' /\ (UNCHANGED vars \/ Next)
  BY <1>0, <1>10, CancelReadsNoRowMovesOn
<1>11. ASSUME NEW p \in Processes, Step(p) \/ LoseConnection(p)
       PROVE  TxInv' /\ (UNCHANGED vars \/ Next)
  BY <1>5, <1>6, <1>7, <1>8, <1>9, <1>10, <1>11 DEF Step
<1> QED
  BY <1>1, <1>2, <1>3, <1>4, <1>11 DEF LocksNext

LocksInv == TablesInv /\ TxInv

(* The invariant is inductive, and what a step makes of the tables is a step  *)
(* of Delivery.                                                             *)
LEMMA NextLocksInv ==
    LocksInv /\ [LocksNext]_<<vars, txVars>> => LocksInv' /\ [Next]_vars
<1> SUFFICES ASSUME LocksInv, [LocksNext]_<<vars, txVars>> PROVE LocksInv' /\ [Next]_vars
  OBVIOUS
<1>1. CASE LocksNext
  BY <1>1, LocksStep, NextTables DEF LocksInv
<1>2. CASE UNCHANGED <<vars, txVars>>
  <2>1. Frame({}) /\ UNCHANGED <<pc, tx, held, missed>>
    BY <1>2, NothingWritten DEF txVars, vars
  <2>2. TypeOK /\ Records
    BY DEF LocksInv, TablesInv, FleetInv
  <2>3. TxInv'
    BY <2>1, <2>2, UntouchedStays DEF LocksInv
  <2> QED
    BY <1>2, <2>3, NextTables DEF LocksInv
<1> QED
  BY <1>1, <1>2

(* The consumers come back to consistent tables and hold no lock. *)
LEMMA InitLocksInv == LocksInit => LocksInv
<1> SUFFICES ASSUME LocksInit PROVE LocksInv
  OBVIOUS
<1> USE DeliveryAssumption
<1>1. PICK cancelled \in Orders, courier \in Couriers : \E first \in {cancelled, NoDelivery} :
        /\ published = ({"order.created"} \X Orders) \cup {<<"order.cancelled", cancelled>>}
        /\ deliveries = [o \in Orders |->
               IF o = first THEN [status |-> "assembling", courier |-> courier, delay |-> 0]
               ELSE NoDeliveryRow]
        /\ couriers = [c \in Couriers |->
               IF first # NoDelivery /\ c = courier THEN "assigned" ELSE "available"]
        /\ outbox = [o \in Orders |->
               IF o = first THEN <<"delivery.assigned", "delivery.assembling">> ELSE << >>]
        /\ inbox = {<<"order.created", o>> : o \in Orders \cap {first}}
        /\ age = [o \in Orders |-> 0]
        /\ lastSeq = [c \in Couriers |-> 0]
        /\ geo = Couriers
        /\ delays = [o \in Orders |-> 0]
        /\ seen = {} /\ missed = {}
        /\ reports = {} /\ sequence = 0
        /\ pc = [p \in Processes |-> "idle"]
        /\ tx = [p \in Processes |-> NoTx]
        /\ held = [p \in Processes |-> {}]
  BY DEF LocksInit
<1>2. PICK first \in {cancelled, NoDelivery} :
        /\ published = ({"order.created"} \X Orders) \cup {<<"order.cancelled", cancelled>>}
        /\ deliveries = [o \in Orders |->
               IF o = first THEN [status |-> "assembling", courier |-> courier, delay |-> 0]
               ELSE NoDeliveryRow]
        /\ couriers = [c \in Couriers |->
               IF first # NoDelivery /\ c = courier THEN "assigned" ELSE "available"]
        /\ outbox = [o \in Orders |->
               IF o = first THEN <<"delivery.assigned", "delivery.assembling">> ELSE << >>]
        /\ inbox = {<<"order.created", o>> : o \in Orders \cap {first}}
        /\ age = [o \in Orders |-> 0]
        /\ lastSeq = [c \in Couriers |-> 0]
        /\ geo = Couriers
        /\ delays = [o \in Orders |-> 0]
        /\ seen = {} /\ missed = {}
        /\ reports = {} /\ sequence = 0
        /\ pc = [p \in Processes |-> "idle"]
        /\ tx = [p \in Processes |-> NoTx]
        /\ held = [p \in Processes |-> {}]
  BY <1>1
<1>3. TypeOK
  <2>1. deliveries \in [Orders -> [status : {"none"} \cup Underway \cup Terminal,
                                   courier : Couriers \cup {NoCourier}, delay : Nat]]
    <3>1. \A o \in Orders : deliveries[o] \in [status : {"none"} \cup Underway \cup Terminal,
                                               courier : Couriers \cup {NoCourier}, delay : Nat]
      BY <1>2 DEF NoDeliveryRow, Underway
    <3> QED
      BY <1>2, <3>1
  <2>2. outbox \in [Orders -> Seq(DeliveryEvent)]
    <3>1. <<"delivery.assigned", "delivery.assembling">> \in Seq(DeliveryEvent)
          /\ << >> \in Seq(DeliveryEvent)
      BY DEF DeliveryEvent
    <3> QED
      BY <1>2, <3>1
  <2>3. /\ couriers \in [Couriers -> {"available", "assigned"}]
        /\ inbox \subseteq {"order.created", "order.cancelled"} \X Orders
        /\ published \subseteq {"order.created", "order.cancelled"} \X Orders
    BY <1>2
  <2> QED
    BY <1>2, <2>1, <2>2, <2>3 DEF TypeOK
<1>4. \A o \in Orders :
        /\ deliveries[o].status \in Underway <=> o = first
        /\ o = first => deliveries[o].courier = courier /\ deliveries[o].status = "assembling"
        /\ o # first => deliveries[o].status = "none"
  BY <1>2 DEF NoDeliveryRow, Underway
<1>5. FleetInv
  <2>1. UnderwayHasCourier /\ CourierExclusive
    BY <1>4 DEF UnderwayHasCourier, CourierExclusive, Carries
  <2>2. CourierStatusTruthful
    <3>1. \A c \in Couriers : couriers[c] = "assigned" <=> first # NoDelivery /\ c = courier
      BY <1>2
    <3>2. first # NoDelivery <=> first \in Orders
      BY <1>2
    <3>3. \A c \in Couriers, o \in Orders : Carries(c, o) <=> o = first /\ c = courier
      BY <1>4 DEF Carries
    <3> QED
      BY <3>1, <3>2, <3>3 DEF CourierStatusTruthful
  <2> QED
    BY <1>3, <2>1, <2>2 DEF FleetInv
<1>6. ASSUME NEW o \in Orders PROVE Announced(o)
  <2>1. CASE o = first
    <3>1. deliveries[o].status = "assembling"
          /\ outbox[o] = <<"delivery.assigned", "delivery.assembling">>
      BY <1>2, <1>4, <2>1
    <3>2. Len(outbox[o]) = 2 /\ outbox[o][1] = Stage(1) /\ outbox[o][2] = Stage(2)
      BY <3>1 DEF Stage
    <3>3. \A i \in 1..2 : i = 1 \/ i = 2
      OBVIOUS
    <3>4. TellsStages(outbox[o], 2) /\ StageNo("assembling") = 2
      BY <3>2, <3>3 DEF TellsStages, StageNo
    <3> QED
      BY <3>1, <3>2, <3>4 DEF Announced, InStep
  <2>2. CASE o # first
    BY <1>2, <1>4, <2>2 DEF Announced, InStep, Underway
  <2> QED
    BY <2>1, <2>2
<1>7. Records
  <2>1. \A o \in Orders : deliveries[o].status # "none" => <<"order.created", o>> \in inbox
    BY <1>2, <1>4
  <2> QED
    BY <1>2, <2>1 DEF Records
<1>8. TxInv
  <2>1. TxTypeOK /\ Exclusive /\ MissedByCancel
    BY <1>2, NoTxType DEF TxTypeOK, Exclusive, MissedByCancel
  <2>2. Shapes
    BY <1>2 DEF Shapes, Shape, Idling
  <2> QED
    BY <2>1, <2>2 DEF TxInv
<1> QED
  BY <1>5, <1>6, <1>7, <1>8 DEF LocksInv, TablesInv

(* The inductive invariant. *)
LEMMA LocksInvariant == LocksSpec => []LocksInv
<1>1. LocksInv /\ [LocksNext]_<<vars, txVars>> => LocksInv'
  BY NextLocksInv
<1> QED
  BY <1>1, InitLocksInv, PTL DEF LocksSpec

(* Every handler of delivery-service, taken statement by statement, is one    *)
(* atomic step of Delivery: what it read under its locks is still so when it  *)
(* commits.                                                                 *)
THEOREM StatementsAtomic == LocksSpec => HandlersAtomic
<1>1. LocksInv /\ [LocksNext]_<<vars, txVars>> => [UNCHANGED vars \/ Next]_vars
  BY NextLocksInv
<1> QED
  BY <1>1, LocksInvariant, PTL DEF LocksSpec, HandlersAtomic

(* The transactions have their types, a connection without a transaction     *)
(* holds no lock, and a row is locked by one of them.                        *)
THEOREM LocksTypeCorrect == LocksSpec => []LocksTypeOK
<1>1. LocksInv => LocksTypeOK
  <2> SUFFICES ASSUME LocksInv PROVE LocksTypeOK
    OBVIOUS
  <2>1. TypeOK /\ pc \in [Processes -> {"idle", "candidate", "delivery", "courier", "commit"}]
    BY DEF LocksInv, TablesInv, FleetInv, TxInv, TxTypeOK
  <2>2. ASSUME NEW p \in Processes
        PROVE  (pc[p] = "idle" <=> tx[p] = NoTx) /\ (pc[p] = "idle" <=> held[p] = {})
    <3>1. Shape(pc[p], tx[p], held[p])
      BY DEF LocksInv, TxInv, Shapes
    <3>2. NoTx.op = "none"
      BY DEF NoTx
    <3> QED
      BY <3>1, <3>2 DEF Shape, Idling, Assigning, Cancelling, Locating, Delaying, Completing
  <2>3. \A p \in Processes : \A q \in Others(p) : held[p] \cap held[q] = {}
    BY DEF LocksInv, TxInv, Exclusive, Others
  <2> QED
    BY <2>1, <2>2, <2>3 DEF LocksTypeOK
<1> QED
  BY <1>1, LocksInvariant, PTL

(* The row locks of assign, cancel, updateLocation and complete are enough    *)
(* for the exclusivity of a courier ...                                     *)
THEOREM LockedExclusivity == LocksSpec => []CourierExclusive
<1>1. LocksInv => CourierExclusive
  BY DEF LocksInv, TablesInv, FleetInv
<1> QED
  BY <1>1, LocksInvariant, PTL

(* ... for couriers.status to say what the deliveries say ...                *)
THEOREM LockedStatusTruthful == LocksSpec => []CourierStatusTruthful
<1>1. LocksInv => CourierStatusTruthful
  BY DEF LocksInv, TablesInv, FleetInv
<1> QED
  BY <1>1, LocksInvariant, PTL

(* ... for every stage to be announced once and in order ...                 *)
THEOREM LockedAnnouncements == LocksSpec => []AnnouncedOnce
<1>1. LocksInv => AnnouncedOnce
  BY AnnouncedOnceFollows DEF LocksInv, TablesInv, FleetInv
<1> QED
  BY <1>1, LocksInvariant, PTL

(* ... and for a delivery that is over to stay as it is.                      *)
THEOREM LockedFinality == LocksSpec => FinishedStaysFinished
<1>1. LocksInv /\ [LocksNext]_<<vars, txVars>> => [RespectsFinished]_vars
  BY NextLocksInv, NextRespectsFinished DEF LocksInv, TablesInv, FleetInv
<1>2. RespectsFinished <=>
        \A o \in Orders :
            /\ deliveries[o].status \in Terminal => deliveries'[o] = deliveries[o]
            /\ deliveries[o].status # "none" => deliveries'[o].courier = deliveries[o].courier
  BY DEF RespectsFinished
<1> QED
  BY <1>1, <1>2, LocksInvariant, PTL DEF LocksSpec, FinishedStaysFinished

-----------------------------------------------------------------------------
(* Deadlocks *)

(* What a waiting transaction wants and holds. *)
LEMMA WaitingShape ==
    ASSUME LocksInv, NEW p \in Processes, Waiting(p)
    PROVE  \/ /\ tx[p].op = "assign" /\ \E c : Wants(p) = CourierRow(c)
              /\ \A row \in held[p] : row = EventRow(tx[p]) \/ \E c : row = CourierRow(c)
           \/ /\ tx[p].op \in {"cancel", "complete"} /\ \E c : Wants(p) = CourierRow(c)
              /\ \A row \in held[p] : row = EventRow(tx[p]) \/ \E o : row = DeliveryRow(o)
           \/ /\ tx[p].op = "locate" /\ \E o : Wants(p) = DeliveryRow(o)
              /\ \A row \in held[p] : row = EventRow(tx[p]) \/ \E c : row = CourierRow(c)
           \/ held[p] = {EventRow(tx[p])}
<1>1. Shape(pc[p], tx[p], held[p])
  BY DEF LocksInv, TxInv, Shapes
<1>2. CASE pc[p] = "candidate"
  <2>1. Assigning(pc[p], tx[p], held[p])
    BY <1>1, <1>2, ShapeByOp
  <2> QED
    BY <1>2, <2>1 DEF Assigning, Wants
<1>3. CASE pc[p] = "delivery"
  BY <1>1, <1>3 DEF Shape, Idling, Assigning, Cancelling, Locating, Delaying, Completing, Wants
<1>4. CASE pc[p] = "courier"
  BY <1>1, <1>4 DEF Shape, Idling, Assigning, Cancelling, Locating, Delaying, Completing, Wants
<1> QED
  BY <1>2, <1>3, <1>4 DEF Waiting

(* Nobody waits for the inbox entry of an event once it has begun. *)
LEMMA NobodyWantsEvents ==
    ASSUME LocksInv, NEW p \in Processes, Waiting(p)
    PROVE  \/ \E c : Wants(p) = CourierRow(c)
           \/ \E o : Wants(p) = DeliveryRow(o)
BY DEF Waiting, Wants

(* Rows of different tables are different. *)
LEMMA RowKinds ==
    ASSUME NEW t, NEW x, NEW y
    PROVE  /\ EventRow(t) # CourierRow(x) /\ EventRow(t) # DeliveryRow(x)
           /\ CourierRow(x) # DeliveryRow(y)
BY DEF EventRow, CourierRow, DeliveryRow

(* consumer.go:217 and handler.go:152: transactions that wait for each other  *)
(* in circles are a location report with the end of its courier's delivery,   *)
(* or assignments only.                                                     *)
THEOREM OnlyKnownDeadlocks == LocksSpec => []DeadlocksKnown
<1>1. LocksInv => DeadlocksKnown
  <2> SUFFICES ASSUME LocksInv, NEW S \in SUBSET {p \in Processes : Waiting(p)}, S # {}, Deadlocked(S)
               PROVE  LET ops == {tx[p].op : p \in S} IN
                      \/ "locate" \in ops /\ ops \cap {"cancel", "complete"} # {}
                      \/ ops = {"assign"}
    BY DEF DeadlocksKnown
  <2> DEFINE Assigns(p) == /\ tx[p].op = "assign" /\ \E c : Wants(p) = CourierRow(c)
                           /\ \A row \in held[p] : row = EventRow(tx[p]) \/ \E c : row = CourierRow(c)
             Ends(p) == /\ tx[p].op \in {"cancel", "complete"} /\ \E c : Wants(p) = CourierRow(c)
                        /\ \A row \in held[p] : row = EventRow(tx[p]) \/ \E o : row = DeliveryRow(o)
             Locates(p) == /\ tx[p].op = "locate" /\ \E o : Wants(p) = DeliveryRow(o)
                           /\ \A row \in held[p] : row = EventRow(tx[p]) \/ \E c : row = CourierRow(c)
  <2>1. ASSUME NEW p \in S PROVE \E q \in S : WaitsFor(q, p)
    BY DEF Deadlocked
  <2>2. ASSUME NEW p \in S PROVE Assigns(p) \/ Ends(p) \/ Locates(p)
    <3>1. PICK q \in S : WaitsFor(q, p)
      BY <2>1
    <3>2. Wants(q) \in held[p] /\ Wants(q) # EventRow(tx[p])
      BY <3>1, NobodyWantsEvents, RowKinds DEF WaitsFor
    <3>3. held[p] # {EventRow(tx[p])}
      BY <3>2
    <3> QED
      BY <3>3, WaitingShape
  <2>3. ASSUME NEW p \in S, Ends(p) PROVE \E q \in S : Locates(q)
    <3>1. PICK q \in S : WaitsFor(q, p)
      BY <2>1
    <3>2. PICK o : Wants(q) = DeliveryRow(o)
      BY <2>3, <3>1, NobodyWantsEvents, RowKinds DEF WaitsFor
    <3>3. ~Assigns(q) /\ ~Ends(q)
      BY <3>2, RowKinds
    <3> QED
      BY <2>2, <3>3
  <2>4. ASSUME NEW p \in S, Locates(p) PROVE \E q \in S : Ends(q)
    <3>1. PICK q \in S : WaitsFor(p, q)
      BY DEF Deadlocked
    <3>2. PICK o : Wants(p) = DeliveryRow(o) /\ Wants(p) \in held[q]
      BY <2>4, <3>1 DEF WaitsFor
    <3>3. ~Assigns(q) /\ ~Locates(q)
      BY <3>2, RowKinds
    <3> QED
      BY <2>2, <3>3
  <2> QED
    BY <2>2, <2>3, <2>4
<1> QED
  BY <1>1, LocksInvariant, PTL
=============================================================================
