-------------------------- MODULE LifecycleProofs --------------------------
(***************************************************************************)
(* Proofs about Lifecycle, for any number of orders and couriers, any      *)
(* timing of the simulator, any lag, loss, failure and replay: that the    *)
(* two services agree, that the order side refuses nothing for a reason of *)
(* its own, and that only a lost report strands a delivery.                *)
(***************************************************************************)
EXTENDS Lifecycle, FiniteSetTheorems, TLAPS

-----------------------------------------------------------------------------
(* Queues *)

(* A queue with one more at its end... *)
LEMMA Enqueued ==
    ASSUME NEW S, NEW q \in Seq(S), NEW e \in S
    PROVE  /\ Append(q, e) \in Seq(S) /\ Len(Append(q, e)) = Len(q) + 1 /\ Len(q) \in Nat
           /\ \A i \in 1..Len(q) : Append(q, e)[i] = q[i]
           /\ Append(q, e)[Len(q) + 1] = e
           /\ ToSet(Append(q, e)) = ToSet(q) \cup {e}
BY DEF ToSet

(* ...with its first taken off... *)
LEMMA Dequeued ==
    ASSUME NEW S, NEW q \in Seq(S), q # << >>
    PROVE  /\ Tail(q) \in Seq(S) /\ Len(Tail(q)) = Len(q) - 1 /\ Len(q) \in Nat \ {0}
           /\ \A i \in 1..(Len(q) - 1) : Tail(q)[i] = q[i + 1]
           /\ Head(q) = q[1] /\ Head(q) \in S
           /\ ToSet(q) = {Head(q)} \cup ToSet(Tail(q))
<1>1. /\ Tail(q) \in Seq(S) /\ Len(Tail(q)) = Len(q) - 1 /\ Len(q) \in Nat \ {0}
      /\ \A i \in 1..(Len(q) - 1) : Tail(q)[i] = q[i + 1]
      /\ Head(q) = q[1] /\ Head(q) \in S
  OBVIOUS
<1>2. ToSet(q) \subseteq {Head(q)} \cup ToSet(Tail(q))
  <2> SUFFICES ASSUME NEW i \in 1..Len(q), i # 1 PROVE q[i] \in ToSet(Tail(q))
    BY <1>1 DEF ToSet
  <2>1. PICK j \in 1..(Len(q) - 1) : i = j + 1
    BY <1>1
  <2> QED
    <3> DEFINE t == Tail(q)
    <3>1. t \in Seq(S) /\ j \in 1..Len(t) /\ t[j] = q[i]
      BY <1>1, <2>1
    <3> HIDE DEF t
    <3>2. t[j] \in ToSet(t)
      BY <3>1 DEF ToSet
    <3> QED
      BY <3>1, <3>2 DEF t
<1>3. {Head(q)} \cup ToSet(Tail(q)) \subseteq ToSet(q)
  BY <1>1 DEF ToSet
<1> QED
  BY <1>1, <1>2, <1>3

(* ...and with a replay at its end. *)
LEMMA Replayed ==
    ASSUME NEW S, NEW q \in Seq(S), NEW r \in Seq(S)
    PROVE  /\ q \o r \in Seq(S) /\ Len(q \o r) = Len(q) + Len(r)
           /\ \A i \in 1..Len(q) : (q \o r)[i] = q[i]
           /\ ToSet(q \o r) = ToSet(q) \cup ToSet(r)
<1>1. /\ q \o r \in Seq(S) /\ Len(q \o r) = Len(q) + Len(r)
      /\ \A i \in 1..Len(q) : (q \o r)[i] = q[i]
      /\ Len(q) \in Nat /\ Len(r) \in Nat
      /\ \A i \in 1..Len(r) : (q \o r)[Len(q) + i] = r[i]
  OBVIOUS
<1>2. ToSet(q \o r) \subseteq ToSet(q) \cup ToSet(r)
  <2> SUFFICES ASSUME NEW i \in 1..(Len(q) + Len(r)) PROVE (q \o r)[i] \in ToSet(q) \cup ToSet(r)
    BY <1>1 DEF ToSet
  <2>1. CASE i \in 1..Len(q)
    BY <1>1, <2>1 DEF ToSet
  <2>2. CASE i \notin 1..Len(q)
    <3>1. i - Len(q) \in 1..Len(r) /\ (q \o r)[Len(q) + (i - Len(q))] = r[i - Len(q)]
      BY <1>1, <2>2
    <3> QED
      BY <1>1, <3>1 DEF ToSet
  <2> QED
    BY <2>1, <2>2
<1>3. ToSet(q) \subseteq ToSet(q \o r)
  BY <1>1 DEF ToSet
<1>4. ToSet(r) \subseteq ToSet(q \o r)
  <2> SUFFICES ASSUME NEW i \in 1..Len(r) PROVE r[i] \in ToSet(q \o r)
    BY DEF ToSet
  <2>1. Len(q) + i \in 1..(Len(q) + Len(r)) /\ (q \o r)[Len(q) + i] = r[i]
    BY <1>1
  <2> QED
    BY <1>1, <2>1 DEF ToSet
<1> QED
  BY <1>1, <1>2, <1>3, <1>4

LEMMA QueueElements ==
    ASSUME NEW S, NEW q \in Seq(S)
    PROVE  /\ ToSet(q) \subseteq S /\ Len(q) \in Nat
           /\ q = << >> <=> Len(q) = 0
           /\ \A i \in 1..Len(q) : q[i] \in ToSet(q)
BY DEF ToSet

(* SetToSeq makes a sequence of the elements of a finite set. *)
LEMMA SetToSeqOfFinite ==
    ASSUME NEW S, IsFiniteSet(S)
    PROVE  /\ SetToSeq(S) \in Seq(S)
           /\ Len(SetToSeq(S)) = Cardinality(S)
           /\ \A x \in S : \E i \in 1..Len(SetToSeq(S)) : SetToSeq(S)[i] = x
<1> DEFINE n == Cardinality(S)
           f == SetToSeq(S)
<1>1. n \in Nat /\ ExistsBijection(1..n, S)
  BY FS_CardinalityType
<1>2. \E g \in [1..n -> S] : IsInjective(g)
  BY <1>1 DEF ExistsBijection, Bijection, Injection
<1>3. f \in [1..n -> S] /\ IsInjective(f)
  BY <1>2 DEF SetToSeq
<1>4. f \in Injection(1..n, S) /\ IsFiniteSet(1..n) /\ Cardinality(1..n) = n
  BY <1>1, <1>3, FS_Interval DEF Injection
<1> HIDE DEF n, f
<1>5. f \in Surjection(1..n, S)
  BY <1>4, FS_Injection DEF n
<1>6. f \in Seq(S) /\ Len(f) = n
  BY <1>1, <1>3
<1>7. \A x \in S : \E i \in 1..n : f[i] = x
  BY <1>5 DEF Surjection
<1> QED
  BY <1>6, <1>7 DEF f, n

-----------------------------------------------------------------------------
(* Types *)

OrderStatus == {"none", "created", "confirmed", "assembling", "delivering", "delivered", "cancelled"}
DeliveryStatus == {"none", "completed", "cancelled"} \cup Underway
DeliveryRow == [status : DeliveryStatus, courier : Couriers \cup {NoCourier}, delay : 0..MaxDelay]
News == Underway \cup {"completed", "cancelled"}
Marks == OrderEvents \cup Underway \cup {"completed"}
Report == [delivery : Orders, phase : Phases]

(* TypeOK by parts, with the domains of the queues and marks. *)
RowTypes ==
    /\ orders \in [Orders -> OrderStatus]
    /\ deliveries \in [Orders -> DeliveryRow]
    /\ age \in [Orders -> 0..MaxAge]
    /\ processed \in [Orders -> SUBSET Marks]
    /\ discarded \in [Orders -> SUBSET (OrderEvents \cup News)]

QueueTypes ==
    /\ orderTopic \in [Orders -> Seq(OrderEvents)]
    /\ orderDead \in [Orders -> Seq(OrderEvents)]
    /\ deliveryTopic \in [Orders -> Seq(News)]
    /\ deliveryDead \in [Orders -> Seq(News)]
    /\ locationTopic \in [Couriers -> Seq(Report)]

CountTypes == elsewhere \subseteq Couriers /\ lost \in Nat /\ failures \in Nat

Types == RowTypes /\ QueueTypes /\ CountTypes

(* A delivery has a courier, who carries no other that is under way. *)
Manned ==
    /\ \A o \in Orders : deliveries[o].status # "none" => deliveries[o].courier \in Couriers
    /\ \A c \in Couriers, o, p \in Orders : Carries(c, o) /\ Carries(c, p) => o = p

LEMMA Bounds ==
    /\ NoCourier \notin Couriers
    /\ AssemblingUntil \in Nat /\ DeliveringUntil \in Nat /\ DelayStep \in Nat
    /\ MaxDelay \in Nat /\ MaxAge \in Nat
    /\ 0 < AssemblingUntil /\ AssemblingUntil < DeliveringUntil
BY LifecycleAssumption

(* A courier on the road reports one delivery, any other none. *)
LEMMA OneReport ==
    ASSUME Types, Manned, NEW c \in Couriers
    PROVE  /\ IsFiniteSet(ReportsOf(c)) /\ Cardinality(ReportsOf(c)) <= 1
           /\ ReportsOf(c) \subseteq Report
           /\ \A o \in Orders : Carries(c, o) =>
                 SetToSeq(ReportsOf(c)) = <<[delivery |-> o, phase |-> PhaseOf(o)]>>
           /\ SetToSeq(ReportsOf(c)) \in Seq(Report)
<1>1. ReportsOf(c) \subseteq Report
  BY DEF ReportsOf, Report, PhaseOf, Phases
<1>2. ASSUME NEW o \in Orders, Carries(c, o)
      PROVE  ReportsOf(c) = {[delivery |-> o, phase |-> PhaseOf(o)]}
  BY <1>2 DEF ReportsOf, Manned
<1>3. CASE \E o \in Orders : Carries(c, o)
  <2>1. PICK o \in Orders : Carries(c, o)
    BY <1>3
  <2> DEFINE x == [delivery |-> o, phase |-> PhaseOf(o)]
             f == SetToSeq({x})
  <2>2. ReportsOf(c) = {x}
    BY <1>2, <2>1
  <2> HIDE DEF x
  <2>3. IsFiniteSet({x}) /\ Cardinality({x}) = 1
    BY FS_Singleton
  <2>4. f \in Seq({x}) /\ Len(f) = 1
    BY <2>3, SetToSeqOfFinite
  <2> HIDE DEF f
  <2>5. f = <<x>>
    BY <2>4
  <2>6. \A p \in Orders : Carries(c, p) => p = o
    BY <2>1 DEF Manned
  <2>7. <<x>> \in Seq(Report)
    BY <1>1, <2>2
  <2>8. SetToSeq(ReportsOf(c)) = <<x>>
    BY <2>2, <2>5 DEF f
  <2>9. ASSUME NEW p \in Orders, Carries(c, p)
        PROVE  SetToSeq(ReportsOf(c)) = <<[delivery |-> p, phase |-> PhaseOf(p)]>>
    BY <2>6, <2>8, <2>9 DEF x
  <2>10. IsFiniteSet(ReportsOf(c)) /\ Cardinality(ReportsOf(c)) <= 1
    BY <2>2, <2>3
  <2>11. SetToSeq(ReportsOf(c)) \in Seq(Report)
    BY <2>7, <2>8
  <2> QED
    BY <1>1, <2>9, <2>10, <2>11
<1>4. CASE ~\E o \in Orders : Carries(c, o)
  <2>1. ReportsOf(c) = {}
    BY <1>4 DEF ReportsOf
  <2>2. IsFiniteSet({}) /\ Cardinality({}) = 0
    BY FS_EmptySet
  <2>3. SetToSeq({}) \in Seq({})
    BY <2>2, SetToSeqOfFinite
  <2>4. SetToSeq({}) \in Seq(Report)
    BY <2>3
  <2> QED
    BY <1>1, <1>4, <2>1, <2>2, <2>4
<1> QED
  BY <1>3, <1>4

LEMMA TypesGiveTypeOK == ASSUME Types, Manned PROVE TypeOK
<1>1. \A c \in Couriers : Cardinality(ReportsOf(c)) <= 1
  BY OneReport
<1> QED
  BY <1>1 DEF Types, RowTypes, QueueTypes, CountTypes, TypeOK, OrderStatus, DeliveryStatus, DeliveryRow,
              News, Marks, Report

LEMMA InitTypes == ASSUME Init PROVE Types /\ Manned
<1>1. RowTypes
  BY Bounds DEF Init, RowTypes, OrderStatus, DeliveryRow, DeliveryStatus, NoDeliveryRow
<1>2. QueueTypes
  BY DEF Init, QueueTypes
<1>3. CountTypes
  BY DEF Init, CountTypes
<1>4. Manned
  BY DEF Init, Manned, Carries, NoDeliveryRow, Underway
<1> QED
  BY <1>1, <1>2, <1>3, <1>4 DEF Types

(* What is put into a queue and taken off one keeps its type. *)
LEMMA QueuesKeepTypes ==
    ASSUME Types, NEW o \in Orders
    PROVE  /\ \A e \in OrderEvents : Append(orderTopic[o], e) \in Seq(OrderEvents)
           /\ \A e \in News : Append(deliveryTopic[o], e) \in Seq(News)
           /\ orderTopic[o] # << >> =>
                /\ Head(orderTopic[o]) \in OrderEvents /\ Tail(orderTopic[o]) \in Seq(OrderEvents)
                /\ Append(orderDead[o], Head(orderTopic[o])) \in Seq(OrderEvents)
           /\ deliveryTopic[o] # << >> =>
                /\ Head(deliveryTopic[o]) \in News /\ Tail(deliveryTopic[o]) \in Seq(News)
                /\ Append(deliveryDead[o], Head(deliveryTopic[o])) \in Seq(News)
           /\ orderTopic[o] \o orderDead[o] \in Seq(OrderEvents)
           /\ deliveryTopic[o] \o deliveryDead[o] \in Seq(News)
<1>1. /\ orderTopic[o] \in Seq(OrderEvents) /\ orderDead[o] \in Seq(OrderEvents)
      /\ deliveryTopic[o] \in Seq(News) /\ deliveryDead[o] \in Seq(News)
  BY DEF Types, QueueTypes
<1> QED
  BY <1>1, Enqueued, Dequeued, Replayed

LEMMA OrderStepsKeepTypes ==
    ASSUME Types, NEW o \in Orders,
           \/ Create(o) \/ Cancel(o)
           \/ NobodyAvailable(o) \/ OrderEventFails(o) \/ ReplayOrderEvents(o)
    PROVE  Types'
<1> USE DEF topics, dead, budget
<1>1. CASE Create(o) \/ Cancel(o)
  <2>1. PICK s \in OrderStatus, e \in OrderEvents :
           /\ orders' = [orders EXCEPT ![o] = s]
           /\ orderTopic' = [orderTopic EXCEPT ![o] = Append(orderTopic[o], e)]
    BY <1>1 DEF Create, Cancel, OrderStatus, OrderEvents, Types, QueueTypes
  <2>2. orderTopic' \in [Orders -> Seq(OrderEvents)]
    BY <2>1, QueuesKeepTypes DEF Types, QueueTypes
  <2>3. orders' \in [Orders -> OrderStatus]
    BY <2>1 DEF Types, RowTypes
  <2>4. UNCHANGED <<deliveries, age, processed, orderDead, deliveryTopic, deliveryDead, discarded, locationTopic,
                    elsewhere, lost, failures>>
    BY <1>1 DEF Create, Cancel
  <2> QED
    BY <2>2, <2>3, <2>4 DEF Types, RowTypes, QueueTypes, CountTypes
<1>2. CASE NobodyAvailable(o) \/ OrderEventFails(o)
  <2>1. /\ orderTopic[o] # << >>
        /\ orderTopic' = [orderTopic EXCEPT ![o] = Tail(orderTopic[o])]
        /\ orderDead' = [orderDead EXCEPT ![o] = Append(orderDead[o], Head(orderTopic[o]))]
    BY <1>2 DEF NobodyAvailable, OrderEventFails, NextOrderEvent, DequeueOrderEvent, BuryOrderEvent,
                Types, QueueTypes
  <2>2. /\ orderTopic' \in [Orders -> Seq(OrderEvents)]
        /\ orderDead' \in [Orders -> Seq(OrderEvents)]
    BY <2>1, QueuesKeepTypes DEF Types, QueueTypes
  <2>3. /\ UNCHANGED <<orders, deliveries, age, processed, deliveryTopic, deliveryDead, discarded, locationTopic,
                       elsewhere, lost>>
        /\ failures' \in {failures, failures + 1}
    BY <1>2 DEF NobodyAvailable, OrderEventFails
  <2> QED
    BY <2>2, <2>3 DEF Types, RowTypes, QueueTypes, CountTypes
<1>3. CASE ReplayOrderEvents(o)
  <2>1. orderTopic' = [orderTopic EXCEPT ![o] = orderTopic[o] \o orderDead[o]]
    BY <1>3 DEF ReplayOrderEvents, Types, QueueTypes
  <2>2. orderTopic' \in [Orders -> Seq(OrderEvents)]
    BY <2>1, QueuesKeepTypes DEF Types, QueueTypes
  <2>3. UNCHANGED <<orders, deliveries, age, processed, orderDead, deliveryTopic, deliveryDead, discarded,
                    locationTopic, elsewhere, lost, failures>>
    BY <1>3 DEF ReplayOrderEvents
  <2> QED
    BY <2>2, <2>3 DEF Types, RowTypes, QueueTypes, CountTypes
<1> QED
  BY <1>1, <1>2, <1>3

(* A delivery that takes on another status, or another delay, announced or not. *)
LEMMA DeliveryKeepsTypes ==
    ASSUME Types, NEW o \in Orders, NEW row \in DeliveryRow,
           deliveries' = [deliveries EXCEPT ![o] = row],
           \/ UNCHANGED deliveryTopic
           \/ \E e \in News : deliveryTopic' = [deliveryTopic EXCEPT ![o] = Append(deliveryTopic[o], e)],
           orders' = orders, age' \in [Orders -> 0..MaxAge], processed' \in [Orders -> SUBSET Marks],
           orderTopic' \in [Orders -> Seq(OrderEvents)],
           locationTopic' \in [Couriers -> Seq(Report)],
           UNCHANGED <<orderDead, deliveryDead, discarded, elsewhere, lost, failures>>
    PROVE  Types'
<1>1. deliveries' \in [Orders -> DeliveryRow]
  BY DEF Types, RowTypes
<1>2. deliveryTopic' \in [Orders -> Seq(News)]
  BY QueuesKeepTypes DEF Types, QueueTypes
<1> QED
  BY <1>1, <1>2 DEF Types, RowTypes, QueueTypes, CountTypes

LEMMA HandleOrderEventKeepsTypes ==
    ASSUME Types, NEW o \in Orders, HandleOrderEvent(o)
    PROVE  Types'
<1> USE DEF topics, dead, budget
<1>1. /\ orderTopic[o] # << >>
      /\ orderTopic' = [orderTopic EXCEPT ![o] = Tail(orderTopic[o])]
      /\ UNCHANGED <<orders, locationTopic, orderDead, deliveryDead, discarded, elsewhere, lost, failures>>
  BY DEF HandleOrderEvent, Assign, CancelDelivery, SkipOrderEvent, NextOrderEvent,
         DequeueOrderEvent, Types, QueueTypes
<1>2. orderTopic' \in [Orders -> Seq(OrderEvents)] /\ locationTopic' \in [Couriers -> Seq(Report)]
  BY <1>1, QueuesKeepTypes DEF Types, QueueTypes
<1>3. CASE Assign(o)
  <2>1. PICK c \in Couriers :
           deliveries' = [deliveries EXCEPT ![o] = [status |-> "assigned", courier |-> c, delay |-> 0]]
    BY <1>3 DEF Assign, Available
  <2>2. [status |-> "assigned", courier |-> c, delay |-> 0] \in DeliveryRow
    BY Bounds DEF DeliveryRow, DeliveryStatus, Underway
  <2>3. /\ age' \in [Orders -> 0..MaxAge]
        /\ processed' \in [Orders -> SUBSET Marks]
    BY <1>3, Bounds DEF Assign, Mark, Marks, OrderEvents, Types, RowTypes
  <2>4. deliveryTopic' = [deliveryTopic EXCEPT ![o] = Append(deliveryTopic[o], "assigned")]
        /\ "assigned" \in News
    BY <1>3 DEF Assign, Announce, News, Underway, Types, QueueTypes
  <2> QED
    BY <1>1, <1>2, <2>1, <2>2, <2>3, <2>4, DeliveryKeepsTypes
<1>4. CASE CancelDelivery(o)
  <2>1. deliveries[o] \in DeliveryRow /\ [deliveries[o] EXCEPT !.status = "cancelled"] \in DeliveryRow
    BY DEF Types, RowTypes, DeliveryRow, DeliveryStatus
  <2>2. PICK row \in DeliveryRow : deliveries' = [deliveries EXCEPT ![o] = row]
    BY <1>4, <2>1 DEF CancelDelivery, Types, RowTypes
  <2>3. /\ age' \in [Orders -> 0..MaxAge]
        /\ processed' \in [Orders -> SUBSET Marks]
    BY <1>4 DEF CancelDelivery, Mark, Marks, OrderEvents, Types, RowTypes
  <2>4. \/ UNCHANGED deliveryTopic
        \/ \E e \in News : deliveryTopic' = [deliveryTopic EXCEPT ![o] = Append(deliveryTopic[o], e)]
    BY <1>4 DEF CancelDelivery, Announce, News, Types, QueueTypes
  <2> QED
    BY <1>1, <1>2, <2>2, <2>3, <2>4, DeliveryKeepsTypes
<1>5. CASE SkipOrderEvent(o)
  BY <1>1, <1>2, <1>5 DEF SkipOrderEvent, Types, RowTypes, QueueTypes, CountTypes
<1> QED
  BY <1>3, <1>4, <1>5 DEF HandleOrderEvent

(* The report at the head of a courier's queue. *)
LEMMA HeadReport ==
    ASSUME Types, NEW c \in Couriers, locationTopic[c] # << >>
    PROVE  /\ Head(locationTopic[c]) \in Report
           /\ Head(locationTopic[c]).delivery \in Orders /\ Head(locationTopic[c]).phase \in Phases
           /\ Tail(locationTopic[c]) \in Seq(Report)
<1>1. locationTopic[c] \in Seq(Report)
  BY DEF Types, QueueTypes
<1>2. Head(locationTopic[c]) \in Report /\ Tail(locationTopic[c]) \in Seq(Report)
  BY <1>1, Dequeued
<1> QED
  BY <1>2 DEF Report

LEMMA DeliveryStepsKeepTypes ==
    ASSUME Types, Manned,
           \/ \E o \in Orders : Delay(o) \/ Complete(o)
           \/ \E c \in Couriers : HandleReport(c) \/ LoseReport(c)
           \/ Tick
    PROVE  Types'
<1> USE DEF topics, dead, budget
<1>0. /\ age \in [Orders -> 0..MaxAge] /\ processed \in [Orders -> SUBSET Marks]
      /\ orderTopic \in [Orders -> Seq(OrderEvents)] /\ locationTopic \in [Couriers -> Seq(Report)]
      /\ deliveries \in [Orders -> DeliveryRow]
  BY DEF Types, RowTypes, QueueTypes
<1>1. ASSUME NEW o \in Orders, Delay(o) PROVE Types'
  <2>1. PICK d \in 0..MaxDelay : deliveries' = [deliveries EXCEPT ![o].delay = d]
    <3>1. deliveries[o].delay \in 0..MaxDelay
      BY <1>0 DEF DeliveryRow
    <3>2. /\ deliveries[o].delay + DelayStep > MaxDelay => MaxDelay \in 0..MaxDelay
          /\ ~(deliveries[o].delay + DelayStep > MaxDelay) => deliveries[o].delay + DelayStep \in 0..MaxDelay
      BY <3>1, Bounds
    <3>3. deliveries' = [deliveries EXCEPT ![o].delay =
                            IF deliveries[o].delay + DelayStep > MaxDelay THEN MaxDelay
                            ELSE deliveries[o].delay + DelayStep]
      BY <1>0, <1>1 DEF Delay
    <3> QED
      BY <3>2, <3>3
  <2>2. [deliveries[o] EXCEPT !.delay = d] \in DeliveryRow
    BY <1>0 DEF DeliveryRow
  <2>3. deliveries' = [deliveries EXCEPT ![o] = [deliveries[o] EXCEPT !.delay = d]]
    BY <1>0, <2>1
  <2>4. UNCHANGED <<orders, age, processed, orderTopic, orderDead, deliveryTopic, deliveryDead, discarded,
                    locationTopic, elsewhere, lost, failures>>
    BY <1>1 DEF Delay
  <2> QED
    BY <1>0, <2>2, <2>3, <2>4, DeliveryKeepsTypes
<1>2. ASSUME NEW o \in Orders, Complete(o) PROVE Types'
  <2>1. [deliveries[o] EXCEPT !.status = "completed"] \in DeliveryRow
    BY <1>0 DEF DeliveryRow, DeliveryStatus
  <2>2. /\ deliveries' = [deliveries EXCEPT ![o] = [deliveries[o] EXCEPT !.status = "completed"]]
        /\ deliveryTopic' = [deliveryTopic EXCEPT ![o] = Append(deliveryTopic[o], "completed")]
        /\ "completed" \in News
    BY <1>0, <1>2 DEF Complete, Announce, News, Types, QueueTypes
  <2>3. UNCHANGED <<orders, age, processed, orderTopic, orderDead, deliveryDead, discarded,
                    locationTopic, elsewhere, lost, failures>>
    BY <1>2 DEF Complete
  <2> QED
    BY <1>0, <2>1, <2>2, <2>3, DeliveryKeepsTypes
<1>3. ASSUME NEW c \in Couriers, HandleReport(c) PROVE Types'
  <2>1. PICK r \in Report : r = Head(locationTopic[c]) /\ r.delivery \in Orders /\ r.phase \in Phases
    BY <1>3, HeadReport DEF HandleReport
  <2>2. locationTopic' \in [Couriers -> Seq(Report)]
    BY <1>0, <1>3, HeadReport DEF HandleReport
  <2>3. UNCHANGED <<orders, age, processed, orderTopic, orderDead, deliveryDead, discarded, elsewhere, lost, failures>>
    BY <1>3 DEF HandleReport
  <2>4. CASE UNCHANGED <<deliveries, deliveryTopic>>
    BY <2>2, <2>3, <2>4 DEF Types, RowTypes, QueueTypes, CountTypes
  <2>5. CASE /\ deliveries' = [deliveries EXCEPT ![r.delivery].status = r.phase]
             /\ Announce(r.delivery, r.phase)
    <3>1. [deliveries[r.delivery] EXCEPT !.status = r.phase] \in DeliveryRow
      BY <1>0, <2>1 DEF DeliveryRow, DeliveryStatus, Phases, Underway
    <3>2. deliveries' = [deliveries EXCEPT ![r.delivery] = [deliveries[r.delivery] EXCEPT !.status = r.phase]]
      BY <1>0, <2>1, <2>5
    <3>3. \E e \in News : deliveryTopic' = [deliveryTopic EXCEPT ![r.delivery] =
                                              Append(deliveryTopic[r.delivery], e)]
      BY <2>1, <2>5 DEF Announce, News, Phases, Underway, Types, QueueTypes
    <3> QED
      BY <1>0, <2>1, <2>2, <2>3, <3>1, <3>2, <3>3, DeliveryKeepsTypes
  <2> QED
    BY <1>3, <2>1, <2>4, <2>5 DEF HandleReport
<1>4. ASSUME NEW c \in Couriers, LoseReport(c) PROVE Types'
  <2>1. locationTopic' \in [Couriers -> Seq(Report)]
    BY <1>0, <1>4, HeadReport DEF LoseReport
  <2> QED
    BY <1>4, <2>1 DEF LoseReport, Types, RowTypes, QueueTypes, CountTypes
<1>5. CASE Tick
  <2>1. \A c \in Couriers : locationTopic[c] \o SetToSeq(ReportsOf(c)) \in Seq(Report)
    BY <1>0, OneReport, Replayed
  <2>2. locationTopic' \in [Couriers -> Seq(Report)]
    BY <1>5, <2>1 DEF Tick
  <2>3. age' \in [Orders -> 0..MaxAge]
    BY <1>0, <1>5, Bounds DEF Tick
  <2> QED
    BY <1>5, <2>2, <2>3 DEF Tick, Types, RowTypes, QueueTypes, CountTypes
<1> QED
  BY <1>1, <1>2, <1>3, <1>4, <1>5

LEMMA NewsStepsKeepTypes ==
    ASSUME Types, NEW o \in Orders,
           \/ HandleDeliveryEvent(o) \/ RefuseDeliveryEvent(o) \/ DeliveryEventFails(o)
           \/ ReplayDeliveryEvents(o)
    PROVE  Types'
<1> USE DEF topics, dead, budget
<1>1. CASE HandleDeliveryEvent(o)
  <2>1. PICK e \in News : e = Head(deliveryTopic[o]) /\ deliveryTopic[o] # << >>
    BY <1>1, QueuesKeepTypes DEF HandleDeliveryEvent
  <2>2. deliveryTopic' \in [Orders -> Seq(News)]
    BY <1>1, QueuesKeepTypes DEF HandleDeliveryEvent, DequeueDeliveryEvent, Types, QueueTypes
  <2>3. orders' \in [Orders -> OrderStatus]
    <3>1. CASE UNCHANGED orders
      BY <3>1 DEF Types, RowTypes
    <3>2. CASE orders' = [orders EXCEPT ![o] = Target(e)] /\ e # "cancelled"
      <4>1. Target(e) \in OrderStatus
        BY <3>2 DEF Target, OrderStatus, News, Underway
      <4> QED
        BY <3>2, <4>1 DEF Types, RowTypes
    <3> QED
      BY <1>1, <2>1, <3>1, <3>2 DEF HandleDeliveryEvent, NothingToDo
  <2>4. processed' \in [Orders -> SUBSET Marks]
    BY <1>1, <2>1 DEF HandleDeliveryEvent, Mark, News, Marks, Types, RowTypes
  <2>5. UNCHANGED <<deliveries, age, orderTopic, orderDead, deliveryDead, discarded, locationTopic, elsewhere,
                    lost, failures>>
    BY <1>1 DEF HandleDeliveryEvent
  <2> QED
    BY <2>2, <2>3, <2>4, <2>5 DEF Types, RowTypes, QueueTypes, CountTypes
<1>2. CASE RefuseDeliveryEvent(o) \/ DeliveryEventFails(o)
  <2>1. /\ deliveryTopic[o] # << >>
        /\ deliveryTopic' = [deliveryTopic EXCEPT ![o] = Tail(deliveryTopic[o])]
        /\ deliveryDead' = [deliveryDead EXCEPT ![o] = Append(deliveryDead[o], Head(deliveryTopic[o]))]
    BY <1>2 DEF RefuseDeliveryEvent, DeliveryEventFails, DequeueDeliveryEvent, BuryDeliveryEvent,
                Types, QueueTypes
  <2>2. /\ deliveryTopic' \in [Orders -> Seq(News)]
        /\ deliveryDead' \in [Orders -> Seq(News)]
    BY <2>1, QueuesKeepTypes DEF Types, QueueTypes
  <2>3. /\ UNCHANGED <<orders, deliveries, age, processed, orderTopic, orderDead, discarded, locationTopic,
                       elsewhere, lost>>
        /\ failures' \in {failures, failures + 1}
    BY <1>2 DEF RefuseDeliveryEvent, DeliveryEventFails
  <2> QED
    BY <2>2, <2>3 DEF Types, RowTypes, QueueTypes, CountTypes
<1>3. CASE ReplayDeliveryEvents(o)
  <2>1. deliveryTopic' = [deliveryTopic EXCEPT ![o] = deliveryTopic[o] \o deliveryDead[o]]
    BY <1>3 DEF ReplayDeliveryEvents, Types, QueueTypes
  <2>2. deliveryTopic' \in [Orders -> Seq(News)]
    BY <2>1, QueuesKeepTypes DEF Types, QueueTypes
  <2>3. UNCHANGED <<orders, deliveries, age, processed, orderTopic, orderDead, deliveryDead,
                    discarded, locationTopic, elsewhere, lost, failures>>
    BY <1>3 DEF ReplayDeliveryEvents
  <2> QED
    BY <2>2, <2>3 DEF Types, RowTypes, QueueTypes, CountTypes
<1> QED
  BY <1>1, <1>2, <1>3

LEMMA DiscardsKeepTypes ==
    ASSUME Types, NEW o \in Orders, OrderEventDiscarded(o) \/ DeliveryEventDiscarded(o)
    PROVE  Types'
<1>1. PICK e \in OrderEvents \cup News :
         discarded' = [discarded EXCEPT ![o] = discarded[o] \cup {e}]
  BY QueuesKeepTypes DEF OrderEventDiscarded, DeliveryEventDiscarded, Types, RowTypes
<1>2. discarded' \in [Orders -> SUBSET (OrderEvents \cup News)]
  BY <1>1 DEF Types, RowTypes
<1>3. orderTopic' \in [Orders -> Seq(OrderEvents)] /\ deliveryTopic' \in [Orders -> Seq(News)]
  BY QueuesKeepTypes DEF OrderEventDiscarded, DeliveryEventDiscarded, DequeueOrderEvent,
                         DequeueDeliveryEvent, Types, QueueTypes
<1>4. /\ UNCHANGED <<orders, deliveries, age, processed, orderDead, deliveryDead, locationTopic,
                    elsewhere, lost>>
      /\ failures' = failures + 1
  BY DEF OrderEventDiscarded, DeliveryEventDiscarded
<1> QED
  BY <1>2, <1>3, <1>4 DEF Types, RowTypes, QueueTypes, CountTypes

LEMMA NextKeepsTypes == ASSUME Types, Manned, [Next]_vars PROVE Types'
<1>1. ASSUME NEW c \in Couriers, TakenElsewhere(c) \/ BackFromElsewhere(c) PROVE Types'
  BY <1>1 DEF TakenElsewhere, BackFromElsewhere, Available, topics, dead, budget, Types, RowTypes,
              QueueTypes, CountTypes
<1>2. CASE UNCHANGED vars
  BY <1>2 DEF vars, topics, dead, budget, Types, RowTypes, QueueTypes, CountTypes
<1>3. ASSUME NEW o \in Orders,
             \/ Create(o) \/ Cancel(o)
             \/ ConsumeOrderEvent(o) \/ OrderEventFails(o) \/ OrderEventDiscarded(o)
             \/ ConsumeDeliveryEvent(o) \/ DeliveryEventFails(o) \/ DeliveryEventDiscarded(o)
             \/ Delay(o) \/ Complete(o)
             \/ ReplayOrderEvents(o) \/ ReplayDeliveryEvents(o)
      PROVE  Types'
  BY <1>3, OrderStepsKeepTypes, HandleOrderEventKeepsTypes, DeliveryStepsKeepTypes, NewsStepsKeepTypes,
     DiscardsKeepTypes
     DEF ConsumeOrderEvent, ConsumeDeliveryEvent
<1> QED
  BY <1>1, <1>2, <1>3, DeliveryStepsKeepTypes DEF Next

-----------------------------------------------------------------------------
(* What a step does, seen from one order *)

SameOrder(o) ==
    orders'[o] = orders[o] /\ orderTopic'[o] = orderTopic[o] /\ orderDead'[o] = orderDead[o]

SameDelivery(o) ==
    /\ deliveries'[o].status = deliveries[o].status
    /\ deliveries'[o].courier = deliveries[o].courier

SameNews(o) == deliveryTopic'[o] = deliveryTopic[o] /\ deliveryDead'[o] = deliveryDead[o]
SameMarks(o) == processed'[o] = processed[o] /\ discarded'[o] = discarded[o]

Undisturbed(o) == SameOrder(o) /\ SameDelivery(o) /\ SameNews(o) /\ SameMarks(o)

(* Create or Cancel. *)
Requested(o, s, e) ==
    /\ \/ orders[o] = "none" /\ s = "created" /\ e = "order.created"
       \/ orders[o] \in {"created", "confirmed"} /\ s = "cancelled" /\ e = "order.cancelled"
    /\ orders'[o] = s /\ orderTopic'[o] = Append(orderTopic[o], e) /\ orderDead'[o] = orderDead[o]
    /\ SameDelivery(o) /\ SameNews(o) /\ SameMarks(o)

TakesOrderEvent(o, e) ==
    /\ orderTopic[o] # << >> /\ e = Head(orderTopic[o])
    /\ orderTopic'[o] = Tail(orderTopic[o]) /\ orders'[o] = orders[o]

Marked(o, e) == processed'[o] = processed[o] \cup {e} /\ discarded'[o] = discarded[o]
ThrownAway(o, e) == processed'[o] = processed[o] /\ discarded'[o] = discarded[o] \cup {e}

(* The delivery takes on status s and the outbox says so. *)
Announces(o, s) ==
    /\ deliveries'[o].status = s
    /\ deliveryTopic'[o] = Append(deliveryTopic[o], s) /\ deliveryDead'[o] = deliveryDead[o]

GetsCourier(o) ==
    /\ TakesOrderEvent(o, "order.created") /\ orderDead'[o] = orderDead[o]
    /\ "order.created" \notin processed[o] /\ Marked(o, "order.created")
    /\ Announces(o, "assigned") /\ deliveries'[o].courier \in Available

EndsCancelled(o) ==
    /\ TakesOrderEvent(o, "order.cancelled") /\ orderDead'[o] = orderDead[o]
    /\ Marked(o, "order.cancelled")
    /\ deliveries'[o].courier = deliveries[o].courier
    /\ \/ deliveries[o].status \in Underway /\ Announces(o, "cancelled")
       \/ deliveries[o].status \notin Underway /\ SameDelivery(o) /\ SameNews(o)

BuriesOrSkips(o, e) ==
    /\ TakesOrderEvent(o, e) /\ SameDelivery(o) /\ SameNews(o) /\ SameMarks(o)
    /\ \/ orderDead'[o] = Append(orderDead[o], e)
       \/ orderDead'[o] = orderDead[o] /\ e \in processed[o]

DiscardsOrder(o, e) ==
    /\ TakesOrderEvent(o, e) /\ orderDead'[o] = orderDead[o]
    /\ SameDelivery(o) /\ SameNews(o) /\ ThrownAway(o, e)

Advances(o, s) ==
    /\ \/ validDeliveryTransition(deliveries[o].status, s)
       \/ deliveries[o].status \in Underway /\ s = "completed"
    /\ Announces(o, s) /\ deliveries'[o].courier = deliveries[o].courier
    /\ SameOrder(o) /\ SameMarks(o)

TakesNews(o, e) ==
    /\ deliveryTopic[o] # << >> /\ e = Head(deliveryTopic[o])
    /\ deliveryTopic'[o] = Tail(deliveryTopic[o])
    /\ SameDelivery(o)
    /\ orderTopic'[o] = orderTopic[o] /\ orderDead'[o] = orderDead[o]

Learns(o, e) ==
    /\ TakesNews(o, e) /\ deliveryDead'[o] = deliveryDead[o]
    /\ \/ NothingToDo(o, e) /\ orders'[o] = orders[o]
       \/ /\ ~NothingToDo(o, e) /\ validTransition(orders[o], Target(e))
          /\ orders'[o] = Target(e)
    /\ IF e = "cancelled" THEN SameMarks(o) ELSE Marked(o, e)

BuriesNews(o, e) ==
    /\ TakesNews(o, e) /\ deliveryDead'[o] = Append(deliveryDead[o], e)
    /\ orders'[o] = orders[o] /\ SameMarks(o)
    /\ failures' > 0 \/ (~NothingToDo(o, e) /\ ~validTransition(orders[o], Target(e)))

DiscardsNews(o, e) ==
    /\ TakesNews(o, e) /\ deliveryDead'[o] = deliveryDead[o]
    /\ orders'[o] = orders[o] /\ ThrownAway(o, e)
    /\ failures' > 0

ReplaysOrder(o) ==
    /\ orderTopic'[o] = orderTopic[o] \o orderDead[o]
    /\ orders'[o] = orders[o] /\ orderDead'[o] = orderDead[o]
    /\ SameDelivery(o) /\ SameNews(o) /\ SameMarks(o)

ReplaysNews(o) ==
    /\ deliveryDead[o] # << >>
    /\ deliveryTopic'[o] = deliveryTopic[o] \o deliveryDead[o] /\ deliveryDead'[o] = deliveryDead[o]
    /\ SameOrder(o) /\ SameDelivery(o) /\ SameMarks(o)

Kinds(o) ==
    \/ Undisturbed(o)
    \/ \E s, e : Requested(o, s, e)
    \/ GetsCourier(o) \/ EndsCancelled(o)
    \/ \E e \in OrderEvents : BuriesOrSkips(o, e) \/ DiscardsOrder(o, e)
    \/ \E s \in Phases : Advances(o, s)
    \/ \E e \in News : Learns(o, e) \/ BuriesNews(o, e) \/ DiscardsNews(o, e)
    \/ ReplaysOrder(o) \/ ReplaysNews(o)

LEMMA StepsOfOrder ==
    ASSUME Types, NEW p \in Orders, NEW o \in Orders,
           \/ Create(p) \/ Cancel(p) \/ HandleOrderEvent(p)
           \/ NobodyAvailable(p) \/ OrderEventFails(p) \/ ReplayOrderEvents(p)
    PROVE  Kinds(o)
<1> USE DEF topics, dead, budget, Types, RowTypes, QueueTypes
<1>1. CASE Create(p) \/ Cancel(p)
  <2>1. CASE o = p
    <3>1. Requested(o, "created", "order.created") \/ Requested(o, "cancelled", "order.cancelled")
      BY <1>1, <2>1 DEF Create, Cancel, Requested, SameDelivery, SameNews, SameMarks
    <3> QED
      BY <3>1 DEF Kinds
  <2>2. CASE o # p
    BY <1>1, <2>2 DEF Create, Cancel, Kinds, Undisturbed, SameOrder, SameDelivery, SameNews, SameMarks
  <2> QED
    BY <2>1, <2>2
<1>2. CASE NobodyAvailable(p) \/ OrderEventFails(p)
  <2>1. CASE o = p
    <3>1. PICK e \in OrderEvents : e = Head(orderTopic[o]) /\ orderTopic[o] # << >>
      BY <1>2, <2>1, QueuesKeepTypes DEF NobodyAvailable, OrderEventFails, NextOrderEvent
    <3>2. BuriesOrSkips(o, e)
      BY <1>2, <2>1, <3>1 DEF NobodyAvailable, OrderEventFails, DequeueOrderEvent, BuryOrderEvent,
                              BuriesOrSkips, TakesOrderEvent, SameDelivery, SameNews, SameMarks
    <3> QED
      BY <3>2 DEF Kinds
  <2>2. CASE o # p
    BY <1>2, <2>2 DEF NobodyAvailable, OrderEventFails, DequeueOrderEvent, BuryOrderEvent,
                      Kinds, Undisturbed, SameOrder, SameDelivery, SameNews, SameMarks
  <2> QED
    BY <2>1, <2>2
<1>3. CASE ReplayOrderEvents(p)
  BY <1>3 DEF ReplayOrderEvents, Kinds, ReplaysOrder, Undisturbed, SameOrder, SameDelivery, SameNews,
              SameMarks
<1>4. CASE HandleOrderEvent(p) /\ o # p
  BY <1>4 DEF HandleOrderEvent, Assign, CancelDelivery, SkipOrderEvent, DequeueOrderEvent, Announce, Mark,
              Kinds, Undisturbed, SameOrder, SameDelivery, SameNews, SameMarks
<1>5. CASE HandleOrderEvent(p) /\ o = p
  <2>0. PICK e \in OrderEvents : TakesOrderEvent(o, e)
    <3>1. orderTopic[o] # << >>
      BY <1>5 DEF HandleOrderEvent, Assign, CancelDelivery, SkipOrderEvent, NextOrderEvent
    <3> QED
      BY <1>5, <3>1, QueuesKeepTypes DEF HandleOrderEvent, DequeueOrderEvent, TakesOrderEvent
  <2>1. CASE Assign(o)
    <3>1. PICK c \in Available :
            deliveries' = [deliveries EXCEPT ![o] = [status |-> "assigned", courier |-> c, delay |-> 0]]
      BY <2>1 DEF Assign
    <3>2. deliveries'[o].status = "assigned" /\ deliveries'[o].courier = c
      BY <3>1
    <3>3. e = "order.created" /\ orderDead'[o] = orderDead[o]
      BY <1>5, <2>0, <2>1 DEF Assign, NextOrderEvent, TakesOrderEvent, HandleOrderEvent
    <3>4. Announces(o, "assigned") /\ Marked(o, "order.created")
      BY <1>5, <2>1, <3>2 DEF Assign, HandleOrderEvent, Announce, Mark, Announces, Marked
    <3> QED
      BY <2>0, <2>1, <3>2, <3>3, <3>4 DEF GetsCourier, Kinds, Assign
  <2>2. CASE CancelDelivery(o)
    <3>1. e = "order.cancelled" /\ orderDead'[o] = orderDead[o] /\ Marked(o, "order.cancelled")
      BY <1>5, <2>0, <2>2 DEF CancelDelivery, NextOrderEvent, TakesOrderEvent, HandleOrderEvent, Mark, Marked
    <3>2. /\ deliveries'[o].courier = deliveries[o].courier
          /\ \/ deliveries[o].status \in Underway /\ Announces(o, "cancelled")
             \/ deliveries[o].status \notin Underway /\ SameDelivery(o) /\ SameNews(o)
      BY <1>5, <2>2 DEF CancelDelivery, HandleOrderEvent, Announce, Announces, SameDelivery, SameNews,
                        DeliveryRow
    <3> QED
      BY <2>0, <3>1, <3>2 DEF EndsCancelled, Kinds
  <2>3. CASE SkipOrderEvent(o)
    <3>1. BuriesOrSkips(o, e)
      BY <1>5, <2>0, <2>3 DEF SkipOrderEvent, HandleOrderEvent, BuriesOrSkips, TakesOrderEvent,
                              SameDelivery, SameNews, SameMarks
    <3> QED
      BY <3>1 DEF Kinds
  <2> QED
    BY <1>5, <2>1, <2>2, <2>3 DEF HandleOrderEvent
<1> QED
  BY <1>1, <1>2, <1>3, <1>4, <1>5

LEMMA StepsOfDelivery ==
    ASSUME Types, NEW o \in Orders,
           \/ \E p \in Orders : Delay(p) \/ Complete(p)
           \/ \E c \in Couriers : HandleReport(c) \/ LoseReport(c) \/ TakenElsewhere(c) \/ BackFromElsewhere(c)
           \/ Tick \/ UNCHANGED vars
    PROVE  Kinds(o)
<1> USE DEF topics, dead, budget, Types, RowTypes, QueueTypes
<1>1. ASSUME NEW p \in Orders, Delay(p) PROVE Undisturbed(o)
  BY <1>1 DEF Delay, DeliveryRow, Undisturbed, SameOrder, SameDelivery, SameNews, SameMarks
<1>2. ASSUME NEW p \in Orders, Complete(p) PROVE Kinds(o)
  <2>1. CASE o # p
    BY <1>2, <2>1 DEF Complete, Announce, Kinds, Undisturbed, SameOrder, SameDelivery, SameNews, SameMarks
  <2>2. CASE o = p
    <3>1. Advances(o, "completed")
      BY <1>2, <2>2 DEF Complete, Announce, Advances, Announces, SameOrder, SameMarks, DeliveryRow
    <3> QED
      BY <3>1 DEF Kinds, Phases
  <2> QED
    BY <2>1, <2>2
<1>3. ASSUME NEW c \in Couriers, HandleReport(c) PROVE Kinds(o)
  <2>1. PICK r \in Report : r = Head(locationTopic[c]) /\ r.delivery \in Orders /\ r.phase \in Phases
    BY <1>3, HeadReport DEF HandleReport
  <2>2. SameOrder(o) /\ SameMarks(o) /\ UNCHANGED deliveryDead
    BY <1>3 DEF HandleReport, SameOrder, SameMarks
  <2>3. CASE UNCHANGED <<deliveries, deliveryTopic>>
    BY <2>2, <2>3 DEF Kinds, Undisturbed, SameDelivery, SameNews
  <2>4. CASE /\ validDeliveryTransition(deliveries[r.delivery].status, r.phase)
             /\ deliveries' = [deliveries EXCEPT ![r.delivery].status = r.phase]
             /\ Announce(r.delivery, r.phase)
    <3>1. CASE o # r.delivery
      BY <2>1, <2>2, <2>4, <3>1 DEF Announce, Kinds, Undisturbed, SameDelivery, SameNews
    <3>2. CASE o = r.delivery
      <4>1. Advances(o, r.phase)
        BY <2>1, <2>2, <2>4, <3>2 DEF Announce, Advances, Announces, DeliveryRow
      <4> QED
        BY <2>1, <4>1 DEF Kinds
    <3> QED
      BY <3>1, <3>2
  <2> QED
    BY <1>3, <2>1, <2>3, <2>4 DEF HandleReport
<1>4. ASSUME \/ \E c \in Couriers : LoseReport(c) \/ TakenElsewhere(c) \/ BackFromElsewhere(c)
             \/ Tick \/ UNCHANGED vars
      PROVE  Undisturbed(o)
  BY <1>4 DEF LoseReport, TakenElsewhere, BackFromElsewhere, Tick, vars,
              Undisturbed, SameOrder, SameDelivery, SameNews, SameMarks
<1> QED
  BY <1>1, <1>2, <1>3, <1>4 DEF Kinds

LEMMA StepsOfNews ==
    ASSUME Types, NEW p \in Orders, NEW o \in Orders,
           \/ HandleDeliveryEvent(p) \/ RefuseDeliveryEvent(p) \/ DeliveryEventFails(p)
           \/ ReplayDeliveryEvents(p)
    PROVE  Kinds(o)
<1> USE DEF topics, dead, budget, Types, RowTypes, QueueTypes
<1>1. CASE ReplayDeliveryEvents(p)
  BY <1>1 DEF ReplayDeliveryEvents, Kinds, ReplaysNews, Undisturbed, SameOrder, SameDelivery, SameNews,
              SameMarks
<1>2. CASE o # p /\ ~ReplayDeliveryEvents(p)
  BY <1>2 DEF HandleDeliveryEvent, RefuseDeliveryEvent, DeliveryEventFails, DequeueDeliveryEvent,
              BuryDeliveryEvent, Mark, Kinds, Undisturbed, SameOrder, SameDelivery, SameNews, SameMarks
<1>3. CASE o = p /\ ~ReplayDeliveryEvents(p)
  <2>1. PICK e \in News : e = Head(deliveryTopic[o]) /\ deliveryTopic[o] # << >>
    BY <1>3, QueuesKeepTypes DEF HandleDeliveryEvent, RefuseDeliveryEvent, DeliveryEventFails
  <2>2. TakesNews(o, e)
    BY <1>3, <2>1 DEF HandleDeliveryEvent, RefuseDeliveryEvent, DeliveryEventFails,
                      DequeueDeliveryEvent, TakesNews, SameDelivery
  <2>3. CASE HandleDeliveryEvent(o)
    <3>1. \/ NothingToDo(o, e) /\ orders'[o] = orders[o]
          \/ /\ ~NothingToDo(o, e) /\ validTransition(orders[o], Target(e))
             /\ orders'[o] = Target(e)
      BY <2>1, <2>3 DEF HandleDeliveryEvent
    <3>2. deliveryDead'[o] = deliveryDead[o] /\ IF e = "cancelled" THEN SameMarks(o) ELSE Marked(o, e)
      BY <2>1, <2>3 DEF HandleDeliveryEvent, Mark, SameMarks, Marked
    <3> QED
      BY <2>2, <3>1, <3>2 DEF Learns, Kinds
  <2>4. CASE RefuseDeliveryEvent(o) \/ DeliveryEventFails(o)
    <3>1. failures' > 0 \/ (~NothingToDo(o, e) /\ ~validTransition(orders[o], Target(e)))
      BY <2>1, <2>4 DEF RefuseDeliveryEvent, DeliveryEventFails, CountTypes
    <3>2. /\ deliveryDead'[o] = Append(deliveryDead[o], e)
          /\ orders'[o] = orders[o] /\ SameMarks(o)
      BY <2>1, <2>4 DEF RefuseDeliveryEvent, DeliveryEventFails, BuryDeliveryEvent, SameMarks
    <3> QED
      BY <2>2, <3>1, <3>2 DEF BuriesNews, Kinds
  <2> QED
    BY <1>3, <2>3, <2>4
<1> QED
  BY <1>1, <1>2, <1>3

LEMMA StepsOfDiscards ==
    ASSUME Types, NEW p \in Orders, NEW o \in Orders, OrderEventDiscarded(p) \/ DeliveryEventDiscarded(p)
    PROVE  Kinds(o)
<1> USE DEF Types, RowTypes, QueueTypes
<1>1. CASE o # p
  BY <1>1 DEF OrderEventDiscarded, DeliveryEventDiscarded, DequeueOrderEvent, DequeueDeliveryEvent,
              Kinds, Undisturbed, SameOrder, SameDelivery, SameNews, SameMarks
<1>2. CASE o = p /\ OrderEventDiscarded(p)
  <2>1. PICK e \in OrderEvents : e = Head(orderTopic[o]) /\ orderTopic[o] # << >>
    BY <1>2, QueuesKeepTypes DEF OrderEventDiscarded
  <2>2. DiscardsOrder(o, e)
    BY <1>2, <2>1 DEF OrderEventDiscarded, DequeueOrderEvent, DiscardsOrder, TakesOrderEvent,
                      SameDelivery, SameNews, ThrownAway
  <2> QED
    BY <2>2 DEF Kinds
<1>3. CASE o = p /\ DeliveryEventDiscarded(p)
  <2>1. PICK e \in News : e = Head(deliveryTopic[o]) /\ deliveryTopic[o] # << >>
    BY <1>3, QueuesKeepTypes DEF DeliveryEventDiscarded
  <2>2. failures' > 0
    BY <1>3 DEF DeliveryEventDiscarded, CountTypes
  <2>3. DiscardsNews(o, e)
    BY <1>3, <2>1, <2>2 DEF DeliveryEventDiscarded, DequeueDeliveryEvent, DiscardsNews, TakesNews,
                            SameDelivery, ThrownAway
  <2> QED
    BY <2>3 DEF Kinds
<1> QED
  BY <1>1, <1>2, <1>3

LEMMA StepKinds == ASSUME Types, [Next]_vars, NEW o \in Orders PROVE Kinds(o)
<1>1. ASSUME NEW p \in Orders,
             \/ Create(p) \/ Cancel(p)
             \/ ConsumeOrderEvent(p) \/ OrderEventFails(p) \/ ReplayOrderEvents(p)
      PROVE  Kinds(o)
  BY <1>1, StepsOfOrder DEF ConsumeOrderEvent
<1>2. ASSUME NEW p \in Orders,
             ConsumeDeliveryEvent(p) \/ DeliveryEventFails(p) \/ ReplayDeliveryEvents(p)
      PROVE  Kinds(o)
  BY <1>2, StepsOfNews DEF ConsumeDeliveryEvent
<1> QED
  BY <1>1, <1>2, StepsOfDelivery, StepsOfDiscards DEF Next

(* Failures and losses are counted up. *)
LEMMA CountsGrow == ASSUME Types, [Next]_vars PROVE failures <= failures' /\ lost <= lost'
<1> SUFFICES failures' \in {failures, failures + 1} /\ lost' \in {lost, lost + 1}
  BY DEF Types, CountTypes
<1> USE DEF budget
<1>1. ASSUME NEW o \in Orders,
             \/ Create(o) \/ Cancel(o)
             \/ ConsumeOrderEvent(o) \/ OrderEventFails(o) \/ OrderEventDiscarded(o) \/ ReplayOrderEvents(o)
      PROVE  failures' \in {failures, failures + 1} /\ lost' = lost
  BY <1>1 DEF ConsumeOrderEvent, Create, Cancel, HandleOrderEvent, NobodyAvailable, OrderEventFails,
              OrderEventDiscarded, ReplayOrderEvents
<1>2. ASSUME NEW o \in Orders,
             \/ ConsumeDeliveryEvent(o) \/ DeliveryEventFails(o) \/ DeliveryEventDiscarded(o)
             \/ ReplayDeliveryEvents(o)
             \/ Delay(o) \/ Complete(o)
      PROVE  failures' \in {failures, failures + 1} /\ lost' = lost
  BY <1>2 DEF ConsumeDeliveryEvent, HandleDeliveryEvent, RefuseDeliveryEvent, DeliveryEventFails,
              DeliveryEventDiscarded, ReplayDeliveryEvents, Delay, Complete
<1>3. ASSUME \/ \E c \in Couriers : HandleReport(c) \/ LoseReport(c) \/ TakenElsewhere(c) \/ BackFromElsewhere(c)
             \/ Tick \/ UNCHANGED vars
      PROVE  failures' = failures /\ lost' \in {lost, lost + 1}
  BY <1>3 DEF HandleReport, LoseReport, TakenElsewhere, BackFromElsewhere, Tick, vars
<1> QED
  BY <1>1, <1>2, <1>3 DEF Next

(* A step takes an order event or adds one for one order at most. *)
LEMMA OneOrderAtATime ==
    ASSUME Types, [Next]_vars, NEW o \in Orders, NEW p \in Orders,
           orderTopic'[o] # orderTopic[o], orderTopic'[p] # orderTopic[p]
    PROVE  o = p
<1> USE DEF topics, Types, QueueTypes
<1>1. ASSUME NEW r \in Orders,
             \/ Create(r) \/ Cancel(r)
             \/ ConsumeOrderEvent(r) \/ OrderEventFails(r) \/ OrderEventDiscarded(r) \/ ReplayOrderEvents(r)
      PROVE  o = p
  <2>1. \A s \in Orders : s # r => orderTopic'[s] = orderTopic[s]
    BY <1>1 DEF ConsumeOrderEvent, Create, Cancel, HandleOrderEvent, NobodyAvailable, OrderEventFails,
              OrderEventDiscarded, DequeueOrderEvent, ReplayOrderEvents
  <2> QED
    BY <2>1
<1>2. ASSUME NEW r \in Orders,
             \/ ConsumeDeliveryEvent(r) \/ DeliveryEventFails(r) \/ DeliveryEventDiscarded(r)
             \/ ReplayDeliveryEvents(r)
             \/ Delay(r) \/ Complete(r)
      PROVE  orderTopic' = orderTopic
  BY <1>2 DEF ConsumeDeliveryEvent, HandleDeliveryEvent, RefuseDeliveryEvent, DeliveryEventFails,
              DeliveryEventDiscarded, ReplayDeliveryEvents, Delay, Complete
<1>3. ASSUME \/ \E c \in Couriers : HandleReport(c) \/ LoseReport(c) \/ TakenElsewhere(c) \/ BackFromElsewhere(c)
             \/ Tick \/ UNCHANGED vars
      PROVE  orderTopic' = orderTopic
  BY <1>3 DEF HandleReport, LoseReport, TakenElsewhere, BackFromElsewhere, Tick, vars
<1> QED
  BY <1>1, <1>2, <1>3 DEF Next

LEMMA NextKeepsManned == ASSUME Types, Manned, [Next]_vars PROVE Manned'
<1>1. ASSUME NEW o \in Orders, deliveries'[o].status # "none"
      PROVE  deliveries'[o].courier \in Couriers
  <2>1. CASE SameDelivery(o)
    BY <1>1, <2>1 DEF SameDelivery, Manned
  <2>2. CASE GetsCourier(o)
    BY <2>2 DEF GetsCourier, Available
  <2>3. CASE EndsCancelled(o)
    BY <1>1, <2>3 DEF EndsCancelled, SameDelivery, Underway, Manned
  <2>4. ASSUME NEW s \in Phases, Advances(o, s) PROVE deliveries'[o].courier \in Couriers
    BY <2>4 DEF Advances, validDeliveryTransition, Underway, Manned
  <2> QED
    BY <2>1, <2>2, <2>3, <2>4, StepKinds DEF Kinds, Undisturbed, Requested, BuriesOrSkips, Learns, BuriesNews,
       DiscardsOrder, DiscardsNews, TakesNews, ReplaysOrder, ReplaysNews
<1>2. ASSUME NEW o \in Orders, NEW c \in Couriers, Carries(c, o)', ~GetsCourier(o)
      PROVE  Carries(c, o)
  <2>0. deliveries'[o].status \in Underway /\ deliveries'[o].courier = c
    BY <1>2 DEF Carries
  <2>1. CASE SameDelivery(o)
    BY <2>0, <2>1 DEF SameDelivery, Carries
  <2>2. CASE EndsCancelled(o)
    BY <2>0, <2>2 DEF EndsCancelled, SameDelivery, Announces, Underway, Carries
  <2>3. ASSUME NEW s \in Phases, Advances(o, s) PROVE Carries(c, o)
    BY <2>0, <2>3 DEF Advances, validDeliveryTransition, Underway, Carries
  <2> QED
    BY <1>2, <2>1, <2>2, <2>3, StepKinds DEF Kinds, Undisturbed, Requested, BuriesOrSkips, Learns, BuriesNews,
       DiscardsOrder, DiscardsNews, TakesNews, ReplaysOrder, ReplaysNews
<1>3. ASSUME NEW o \in Orders, NEW c \in Couriers, Carries(c, o)', GetsCourier(o), NEW p \in Orders
      PROVE  ~Carries(c, p)
  BY <1>3 DEF Carries, GetsCourier, Available
<1>4. ASSUME NEW o \in Orders, GetsCourier(o) PROVE orderTopic'[o] # orderTopic[o]
  <2>1. orderTopic[o] \in Seq(OrderEvents)
    BY DEF Types, QueueTypes
  <2>2. orderTopic[o] # << >> /\ orderTopic'[o] = Tail(orderTopic[o])
    BY <1>4 DEF GetsCourier, TakesOrderEvent
  <2>3. \A q \in Seq(OrderEvents) : q # << >> => Tail(q) # q
    <3> TAKE q \in Seq(OrderEvents)
    <3> HAVE q # << >>
    <3>1. Len(Tail(q)) = Len(q) - 1 /\ Len(q) \in Nat
      BY Dequeued
    <3> DEFINE n == Len(q)
               m == Len(Tail(q))
    <3>2. m = n - 1 /\ n \in Nat
      BY <3>1
    <3> HIDE DEF n, m
    <3>3. m # n
      BY <3>2
    <3> QED
      BY <3>3, Zenon DEF n, m
  <2> QED
    BY <2>1, <2>2, <2>3
<1>5. ASSUME NEW c \in Couriers, NEW o \in Orders, NEW p \in Orders, Carries(c, o)', Carries(c, p)'
      PROVE  o = p
  <2>1. CASE GetsCourier(o)
    BY <1>2, <1>3, <1>4, <1>5, <2>1, OneOrderAtATime
  <2>2. CASE GetsCourier(p)
    BY <1>2, <1>3, <1>4, <1>5, <2>2, OneOrderAtATime
  <2>3. CASE ~GetsCourier(o) /\ ~GetsCourier(p)
    BY <1>2, <1>5, <2>3 DEF Manned
  <2> QED
    BY <2>1, <2>2, <2>3
<1>6. (\A o \in Orders : deliveries[o].status # "none" => deliveries[o].courier \in Couriers)'
  BY <1>1
<1>7. (\A c \in Couriers, o, p \in Orders : Carries(c, o) /\ Carries(c, p) => o = p)'
  BY <1>5
<1> QED
  BY <1>6, <1>7 DEF Manned

-----------------------------------------------------------------------------
(* The two services agree *)

(* How far a delivery, or the news of it, is; and how far the order followed. *)
Rank(s) ==
    CASE s = "assigned" -> 1 [] s = "assembling" -> 2 [] s = "delivering" -> 3 [] s = "completed" -> 4
      [] OTHER -> 0

Reached(s) ==
    CASE s = "confirmed" -> 1 [] s = "assembling" -> 2 [] s = "delivering" -> 3 [] s = "delivered" -> 4
      [] OTHER -> 0

(* What was ever announced: queued, dead-lettered, handled or thrown away. *)
OrderNews(o) ==
    ToSet(orderTopic[o]) \cup ToSet(orderDead[o]) \cup ((processed[o] \cup discarded[o]) \cap OrderEvents)
DeliveryNews(o) ==
    ToSet(deliveryTopic[o]) \cup ToSet(deliveryDead[o]) \cup ((processed[o] \cup discarded[o]) \ OrderEvents)

OrderTold(o) ==
    /\ orders[o] # "none" <=> "order.created" \in OrderNews(o)
    /\ "order.cancelled" \in OrderNews(o) => orders[o] = "cancelled"
    /\ deliveries[o].status # "none" <=> "order.created" \in processed[o]
    /\ deliveries[o].status = "cancelled" => orders[o] = "cancelled"

(* Where the delivery is was announced; as long as the order is not         *)
(* cancelled nothing further on was, and the order is at the furthest news *)
(* it handled.                                                             *)
DeliveryTold(o) ==
    /\ deliveries[o].status \notin {"none", "cancelled"} => deliveries[o].status \in DeliveryNews(o)
    /\ orders[o] # "cancelled" =>
         /\ \A e \in DeliveryNews(o) : e # "cancelled" /\ Rank(e) <= Rank(deliveries[o].status)
         /\ Reached(orders[o]) <= Rank(deliveries[o].status)
         /\ \A e \in processed[o] \ OrderEvents : Rank(e) <= Reached(orders[o])

Agreement == \A o \in Orders : OrderTold(o) /\ DeliveryTold(o)

LEMMA OrderTypes ==
    ASSUME Types, NEW o \in Orders
    PROVE  /\ orders[o] \in OrderStatus /\ deliveries[o].status \in DeliveryStatus
           /\ processed[o] \subseteq Marks
           /\ orderTopic[o] \in Seq(OrderEvents) /\ orderDead[o] \in Seq(OrderEvents)
           /\ deliveryTopic[o] \in Seq(News) /\ deliveryDead[o] \in Seq(News)
           /\ OrderNews(o) \subseteq OrderEvents /\ DeliveryNews(o) \subseteq News
           /\ discarded[o] \subseteq OrderEvents \cup News
<1>1. /\ orders[o] \in OrderStatus /\ deliveries[o].status \in DeliveryStatus
      /\ processed[o] \subseteq Marks
      /\ orderTopic[o] \in Seq(OrderEvents) /\ orderDead[o] \in Seq(OrderEvents)
      /\ deliveryTopic[o] \in Seq(News) /\ deliveryDead[o] \in Seq(News)
  BY DEF Types, RowTypes, QueueTypes, DeliveryRow
<1>2. /\ ToSet(orderTopic[o]) \subseteq OrderEvents /\ ToSet(orderDead[o]) \subseteq OrderEvents
      /\ ToSet(deliveryTopic[o]) \subseteq News /\ ToSet(deliveryDead[o]) \subseteq News
  BY <1>1, QueueElements
<1>3. processed[o] \ OrderEvents \subseteq News
  BY <1>1 DEF Marks, News
<1>4. discarded[o] \subseteq OrderEvents \cup News
  BY DEF Types, RowTypes
<1> QED
  BY <1>1, <1>2, <1>3, <1>4 DEF OrderNews, DeliveryNews

(* What an order's news become in each kind of step. *)
LEMMA OrderNewsMoves ==
    ASSUME Types, NEW o \in Orders
    PROVE  /\ \A e \in OrderEvents :
                /\ TakesOrderEvent(o, e)
                /\ \/ orderDead'[o] = orderDead[o] /\ Marked(o, e)
                   \/ orderDead'[o] = Append(orderDead[o], e) /\ SameMarks(o)
                   \/ orderDead'[o] = orderDead[o] /\ e \in processed[o] /\ SameMarks(o)
                   \/ orderDead'[o] = orderDead[o] /\ ThrownAway(o, e)
                => e \in OrderNews(o) /\ OrderNews(o)' = OrderNews(o)
           /\ \A s, e : e \in OrderEvents /\ Requested(o, s, e) => OrderNews(o)' = OrderNews(o) \cup {e}
           /\ ReplaysOrder(o) => OrderNews(o)' = OrderNews(o)
           /\ SameOrder(o) /\ SameMarks(o) => OrderNews(o)' = OrderNews(o)
           /\ \A e \in News : TakesNews(o, e) /\ (SameMarks(o) \/ Marked(o, e) \/ ThrownAway(o, e)) =>
                OrderNews(o)' = OrderNews(o)
<1> DEFINE q == orderTopic[o]
           d == orderDead[o]
<1>0. q \in Seq(OrderEvents) /\ d \in Seq(OrderEvents)
  BY OrderTypes
<1>1. ASSUME NEW e \in OrderEvents, TakesOrderEvent(o, e),
             \/ orderDead'[o] = orderDead[o] /\ Marked(o, e)
             \/ orderDead'[o] = Append(orderDead[o], e) /\ SameMarks(o)
             \/ orderDead'[o] = orderDead[o] /\ e \in processed[o] /\ SameMarks(o)
             \/ orderDead'[o] = orderDead[o] /\ ThrownAway(o, e)
      PROVE  e \in OrderNews(o) /\ OrderNews(o)' = OrderNews(o)
  <2>1. ToSet(q) = {e} \cup ToSet(Tail(q)) /\ orderTopic'[o] = Tail(q)
    BY <1>0, <1>1, Dequeued DEF TakesOrderEvent
  <2>2. ToSet(Append(d, e)) = ToSet(d) \cup {e}
    BY <1>0, Enqueued
  <2> HIDE DEF q, d
  <2>3. OrderNews(o) = ToSet(q) \cup ToSet(d) \cup ((processed[o] \cup discarded[o]) \cap OrderEvents)
    BY DEF OrderNews, q, d
  <2>4. OrderNews(o)' = ToSet(Tail(q)) \cup ToSet(orderDead'[o])
                          \cup ((processed'[o] \cup discarded'[o]) \cap OrderEvents)
    BY <2>1 DEF OrderNews
  <2> QED
    BY <1>1, <2>1, <2>2, <2>3, <2>4 DEF Marked, SameMarks, ThrownAway, d
<1>2. ASSUME NEW s, NEW e \in OrderEvents, Requested(o, s, e)
      PROVE  OrderNews(o)' = OrderNews(o) \cup {e}
  <2>1. ToSet(Append(q, e)) = ToSet(q) \cup {e}
    BY <1>0, Enqueued
  <2> QED
    BY <1>2, <2>1 DEF Requested, SameMarks, OrderNews
<1>3. ReplaysOrder(o) => OrderNews(o)' = OrderNews(o)
  <2>1. ToSet(q \o d) = ToSet(q) \cup ToSet(d)
    BY <1>0, Replayed
  <2> QED
    BY <2>1 DEF ReplaysOrder, SameMarks, OrderNews
<1>4. SameOrder(o) /\ SameMarks(o) => OrderNews(o)' = OrderNews(o)
  BY DEF SameOrder, SameMarks, OrderNews
<1>5. ASSUME NEW e \in News, TakesNews(o, e), SameMarks(o) \/ Marked(o, e) \/ ThrownAway(o, e)
      PROVE  OrderNews(o)' = OrderNews(o)
  BY <1>5 DEF TakesNews, SameMarks, Marked, ThrownAway, OrderNews, News, OrderEvents, Underway
<1> QED
  BY <1>1, <1>2, <1>3, <1>4, <1>5

LEMMA DeliveryNewsMoves ==
    ASSUME Types, NEW o \in Orders
    PROVE  /\ \A e \in News : Learns(o, e) =>
                /\ e \in DeliveryNews(o) /\ DeliveryNews(o)' \subseteq DeliveryNews(o)
                /\ DeliveryNews(o) \subseteq DeliveryNews(o)' \cup {"cancelled"}
           /\ \A e \in News : BuriesNews(o, e) \/ DiscardsNews(o, e) => DeliveryNews(o)' = DeliveryNews(o)
           /\ \A s \in News : Announces(o, s) /\ (SameMarks(o) \/ \E e \in OrderEvents : Marked(o, e)) =>
                DeliveryNews(o)' = DeliveryNews(o) \cup {s}
           /\ ReplaysNews(o) => DeliveryNews(o)' = DeliveryNews(o)
           /\ SameNews(o) /\ (SameMarks(o) \/ \E e \in OrderEvents : Marked(o, e) \/ ThrownAway(o, e)) =>
                DeliveryNews(o)' = DeliveryNews(o)
<1> DEFINE q == deliveryTopic[o]
           d == deliveryDead[o]
<1>0. q \in Seq(News) /\ d \in Seq(News)
  BY OrderTypes
<1>1. ASSUME NEW e \in News, TakesNews(o, e)
      PROVE  /\ ToSet(q) = {e} \cup ToSet(Tail(q)) /\ deliveryTopic'[o] = Tail(q)
             /\ DeliveryNews(o) = {e} \cup ToSet(Tail(q)) \cup ToSet(d)
                                   \cup ((processed[o] \cup discarded[o]) \ OrderEvents)
             /\ DeliveryNews(o)' = ToSet(Tail(q)) \cup ToSet(deliveryDead'[o])
                                   \cup ((processed'[o] \cup discarded'[o]) \ OrderEvents)
  <2>1. ToSet(q) = {e} \cup ToSet(Tail(q)) /\ deliveryTopic'[o] = Tail(q)
    BY <1>0, <1>1, Dequeued DEF TakesNews
  <2> HIDE DEF q, d
  <2>2. DeliveryNews(o) = ToSet(q) \cup ToSet(d) \cup ((processed[o] \cup discarded[o]) \ OrderEvents)
    BY DEF DeliveryNews, q, d
  <2>3. DeliveryNews(o)' = ToSet(Tail(q)) \cup ToSet(deliveryDead'[o])
                                   \cup ((processed'[o] \cup discarded'[o]) \ OrderEvents)
    BY <2>1 DEF DeliveryNews
  <2> QED
    BY <2>1, <2>2, <2>3
<1>2. ASSUME NEW e \in News, Learns(o, e)
      PROVE  /\ e \in DeliveryNews(o) /\ DeliveryNews(o)' \subseteq DeliveryNews(o)
             /\ DeliveryNews(o) \subseteq DeliveryNews(o)' \cup {"cancelled"}
  <2>1. e \notin OrderEvents
    BY DEF News, OrderEvents, Underway
  <2>2. TakesNews(o, e) /\ deliveryDead'[o] = d
    BY <1>2 DEF Learns
  <2>3. /\ \/ e = "cancelled" /\ processed'[o] = processed[o]
           \/ processed'[o] = processed[o] \cup {e}
        /\ discarded'[o] = discarded[o]
    BY <1>2 DEF Learns, SameMarks, Marked
  <2> HIDE DEF q, d
  <2> QED
    BY <1>1, <2>1, <2>2, <2>3
<1>3. ASSUME NEW e \in News, BuriesNews(o, e)
      PROVE  DeliveryNews(o)' = DeliveryNews(o)
  <2>1. /\ TakesNews(o, e) /\ deliveryDead'[o] = Append(d, e)
        /\ processed'[o] = processed[o] /\ discarded'[o] = discarded[o]
    BY <1>3 DEF BuriesNews, SameMarks
  <2>2. ToSet(Append(d, e)) = ToSet(d) \cup {e}
    BY <1>0, Enqueued
  <2> HIDE DEF q, d
  <2> QED
    BY <1>1, <2>1, <2>2
<1>4. ASSUME NEW s \in News, Announces(o, s),
             SameMarks(o) \/ \E e \in OrderEvents : Marked(o, e)
      PROVE  DeliveryNews(o)' = DeliveryNews(o) \cup {s}
  <2>1. ToSet(Append(q, s)) = ToSet(q) \cup {s}
    BY <1>0, Enqueued
  <2> QED
    BY <1>4, <2>1 DEF Announces, SameMarks, Marked, DeliveryNews
<1>5. ReplaysNews(o) => DeliveryNews(o)' = DeliveryNews(o)
  <2>1. ToSet(q \o d) = ToSet(q) \cup ToSet(d)
    BY <1>0, Replayed
  <2> QED
    BY <2>1 DEF ReplaysNews, SameMarks, DeliveryNews
<1>6. SameNews(o) /\ (SameMarks(o) \/ \E e \in OrderEvents : Marked(o, e) \/ ThrownAway(o, e)) =>
         DeliveryNews(o)' = DeliveryNews(o)
  BY DEF SameNews, SameMarks, Marked, ThrownAway, DeliveryNews
<1>7. ASSUME NEW e \in News, DiscardsNews(o, e)
      PROVE  DeliveryNews(o)' = DeliveryNews(o)
  <2>1. e \notin OrderEvents
    BY DEF News, OrderEvents, Underway
  <2>2. /\ TakesNews(o, e) /\ deliveryDead'[o] = d
        /\ processed'[o] = processed[o] /\ discarded'[o] = discarded[o] \cup {e}
    BY <1>7 DEF DiscardsNews, ThrownAway
  <2> HIDE DEF q, d
  <2> QED
    BY <1>1, <2>1, <2>2
<1> QED
  BY <1>2, <1>3, <1>4, <1>5, <1>6, <1>7

(* As the order, so its news; as the delivery, so its news: nothing that   *)
(* Agreement speaks of moved.                                              *)
LEMMA NothingNewToTell ==
    ASSUME NEW o \in Orders, OrderTold(o), DeliveryTold(o),
           orders'[o] = orders[o], deliveries'[o].status = deliveries[o].status,
           OrderNews(o)' = OrderNews(o), DeliveryNews(o)' = DeliveryNews(o),
           SameMarks(o) \/ Marked(o, "order.cancelled") \/ (\E e : ThrownAway(o, e))
    PROVE  OrderTold(o)' /\ DeliveryTold(o)'
<1>1. /\ "order.created" \in processed'[o] <=> "order.created" \in processed[o]
      /\ processed'[o] \ OrderEvents = processed[o] \ OrderEvents
  BY DEF SameMarks, Marked, ThrownAway, OrderEvents
<1>2. OrderTold(o)'
  BY <1>1 DEF OrderTold
<1>3. DeliveryTold(o)'
  BY <1>1 DEF DeliveryTold
<1> QED
  BY <1>2, <1>3

LEMMA OrderStepsAgree ==
    ASSUME Types, NEW o \in Orders, OrderTold(o), DeliveryTold(o),
           \/ Undisturbed(o) \/ \E s, e : Requested(o, s, e)
           \/ GetsCourier(o) \/ EndsCancelled(o)
           \/ \E e \in OrderEvents : BuriesOrSkips(o, e) \/ DiscardsOrder(o, e)
           \/ ReplaysOrder(o) \/ ReplaysNews(o)
    PROVE  OrderTold(o)' /\ DeliveryTold(o)'
<1>0. /\ orders[o] \in OrderStatus /\ deliveries[o].status \in DeliveryStatus
      /\ OrderNews(o) \subseteq OrderEvents /\ DeliveryNews(o) \subseteq News
      /\ {"order.created", "order.cancelled"} \subseteq OrderEvents
  BY OrderTypes DEF OrderEvents
<1>1. CASE Undisturbed(o) \/ ReplaysOrder(o) \/ ReplaysNews(o) \/ \E e \in OrderEvents : BuriesOrSkips(o, e)
  <2>1. OrderNews(o)' = OrderNews(o)
    BY <1>1, OrderNewsMoves DEF Undisturbed, ReplaysNews, BuriesOrSkips
  <2>2. DeliveryNews(o)' = DeliveryNews(o)
    BY <1>1, DeliveryNewsMoves DEF Undisturbed, ReplaysOrder, BuriesOrSkips
  <2>3. orders'[o] = orders[o] /\ deliveries'[o].status = deliveries[o].status /\ SameMarks(o)
    BY <1>1 DEF Undisturbed, ReplaysOrder, ReplaysNews, BuriesOrSkips, SameOrder, SameDelivery,
                TakesOrderEvent
  <2> QED
    BY <2>1, <2>2, <2>3, NothingNewToTell
<1>5. ASSUME NEW e \in OrderEvents, DiscardsOrder(o, e) PROVE OrderTold(o)' /\ DeliveryTold(o)'
  <2>1. OrderNews(o)' = OrderNews(o) /\ DeliveryNews(o)' = DeliveryNews(o)
    BY <1>5, OrderNewsMoves, DeliveryNewsMoves DEF DiscardsOrder
  <2> QED
    BY <1>5, <2>1, NothingNewToTell DEF DiscardsOrder, TakesOrderEvent, SameDelivery
<1>2. ASSUME NEW s, NEW e, Requested(o, s, e) PROVE OrderTold(o)' /\ DeliveryTold(o)'
  <2>1. /\ deliveries'[o].status = deliveries[o].status /\ processed'[o] = processed[o] /\ orders'[o] = s
        /\ \/ orders[o] = "none" /\ s = "created" /\ e = "order.created"
           \/ orders[o] \in {"created", "confirmed"} /\ s = "cancelled" /\ e = "order.cancelled"
    BY <1>2 DEF Requested, SameDelivery, SameMarks
  <2>2. OrderNews(o)' = OrderNews(o) \cup {e} /\ DeliveryNews(o)' = DeliveryNews(o)
    BY <1>0, <1>2, <2>1, OrderNewsMoves, DeliveryNewsMoves DEF Requested
  <2>3. OrderTold(o)'
    BY <2>1, <2>2 DEF OrderTold
  <2>4. DeliveryTold(o)'
    BY <2>1, <2>2 DEF DeliveryTold, Reached
  <2> QED
    BY <2>3, <2>4
<1>3. CASE GetsCourier(o)
  <2>1. /\ orders'[o] = orders[o] /\ deliveries'[o].status = "assigned"
        /\ processed'[o] = processed[o] \cup {"order.created"} /\ "order.created" \notin processed[o]
    BY <1>3 DEF GetsCourier, TakesOrderEvent, Announces, Marked
  <2>2. "assigned" \in News
    BY DEF News, Underway
  <2>3. "order.created" \in OrderNews(o) /\ OrderNews(o)' = OrderNews(o)
    BY <1>0, <1>3, OrderNewsMoves DEF GetsCourier
  <2>4. DeliveryNews(o)' = DeliveryNews(o) \cup {"assigned"}
    BY <1>0, <1>3, <2>2, DeliveryNewsMoves DEF GetsCourier
  <2>5. OrderTold(o)'
    BY <2>1, <2>3 DEF OrderTold
  <2>6. deliveries[o].status = "none"
    BY <2>1 DEF OrderTold
  <2>7. processed'[o] \ OrderEvents = processed[o] \ OrderEvents
    BY <1>0, <2>1
  <2>8. Rank("none") = 0 /\ Rank("assigned") = 1
    BY DEF Rank
  <2>9. ASSUME orders'[o] # "cancelled", NEW e \in DeliveryNews(o)'
        PROVE  e # "cancelled" /\ Rank(e) <= Rank("assigned")
    <3>1. e = "assigned" \/ (e # "cancelled" /\ Rank(e) <= 0)
      BY <2>1, <2>4, <2>6, <2>8, <2>9 DEF DeliveryTold
    <3> QED
      BY <2>8, <3>1 DEF Rank
  <2>10. orders'[o] # "cancelled" => Reached(orders'[o]) <= Rank("assigned")
    BY <2>1, <2>6, <2>8 DEF DeliveryTold, Reached
  <2>11. DeliveryTold(o)'
    BY <2>1, <2>4, <2>7, <2>9, <2>10 DEF DeliveryTold
  <2> QED
    BY <2>5, <2>11
<1>4. CASE EndsCancelled(o)
  <2>1. orders'[o] = orders[o] /\ processed'[o] = processed[o] \cup {"order.cancelled"}
    BY <1>4 DEF EndsCancelled, TakesOrderEvent, Marked
  <2>2. "order.cancelled" \in OrderNews(o) /\ OrderNews(o)' = OrderNews(o)
    BY <1>0, <1>4, OrderNewsMoves DEF EndsCancelled
  <2>3. orders[o] = "cancelled"
    BY <2>2 DEF OrderTold
  <2>4. CASE deliveries[o].status \in Underway /\ Announces(o, "cancelled")
    <3>1. deliveries'[o].status = "cancelled"
      BY <2>4 DEF Announces
    <3>2. OrderTold(o)'
      BY <2>1, <2>2, <2>3, <2>4, <3>1 DEF OrderTold, Underway
    <3>3. DeliveryTold(o)'
      BY <2>1, <2>3, <3>1 DEF DeliveryTold
    <3> QED
      BY <3>2, <3>3
  <2>5. CASE SameDelivery(o) /\ SameNews(o)
    <3>1. DeliveryNews(o)' = DeliveryNews(o)
      BY <1>0, <1>4, <2>5, DeliveryNewsMoves DEF EndsCancelled
    <3> QED
      BY <1>4, <2>1, <2>2, <2>5, <3>1, NothingNewToTell DEF SameDelivery, EndsCancelled
  <2> QED
    BY <1>4, <2>4, <2>5 DEF EndsCancelled
<1> QED
  BY <1>1, <1>2, <1>3, <1>4, <1>5

LEMMA NewsStepsAgree ==
    ASSUME Types, NEW o \in Orders, OrderTold(o), DeliveryTold(o),
           \/ \E s \in Phases : Advances(o, s)
           \/ \E e \in News : Learns(o, e) \/ BuriesNews(o, e) \/ DiscardsNews(o, e)
    PROVE  OrderTold(o)' /\ DeliveryTold(o)'
<1>0. /\ orders[o] \in OrderStatus /\ deliveries[o].status \in DeliveryStatus
      /\ OrderNews(o) \subseteq OrderEvents /\ DeliveryNews(o) \subseteq News
      /\ processed[o] \subseteq Marks
  BY OrderTypes
<1>1. ASSUME NEW s \in Phases, Advances(o, s) PROVE OrderTold(o)' /\ DeliveryTold(o)'
  <2>1. /\ orders'[o] = orders[o] /\ deliveries'[o].status = s /\ processed'[o] = processed[o]
        /\ deliveries[o].status \in Underway /\ s \notin {"none", "cancelled"}
        /\ Rank(deliveries[o].status) <= Rank(s) /\ Rank(deliveries[o].status) \in Nat /\ Rank(s) \in Nat
        /\ s \in News
    BY <1>1 DEF Advances, Announces, SameOrder, SameMarks, validDeliveryTransition, Underway, Phases, News,
                Rank
  <2>2. OrderNews(o)' = OrderNews(o) /\ DeliveryNews(o)' = DeliveryNews(o) \cup {s}
    BY <1>1, <2>1, OrderNewsMoves, DeliveryNewsMoves DEF Advances
  <2>3. OrderTold(o)'
    BY <2>1, <2>2 DEF OrderTold, Underway
  <2>4. \A e \in News : Rank(e) \in Nat
    BY DEF Rank
  <2>5. Reached(orders[o]) \in Nat
    BY DEF Reached
  <2>6. DeliveryTold(o)'
    BY <1>0, <2>1, <2>2, <2>4, <2>5 DEF DeliveryTold
  <2> QED
    BY <2>3, <2>6
<1>2. ASSUME NEW e \in News, BuriesNews(o, e) PROVE OrderTold(o)' /\ DeliveryTold(o)'
  <2>1. DeliveryNews(o)' = DeliveryNews(o) /\ OrderNews(o)' = OrderNews(o)
    BY <1>2, OrderNewsMoves, DeliveryNewsMoves DEF BuriesNews
  <2> QED
    BY <1>2, <2>1, NothingNewToTell DEF BuriesNews, TakesNews, SameDelivery
<1>4. ASSUME NEW e \in News, DiscardsNews(o, e) PROVE OrderTold(o)' /\ DeliveryTold(o)'
  <2>1. DeliveryNews(o)' = DeliveryNews(o) /\ OrderNews(o)' = OrderNews(o)
    BY <1>4, OrderNewsMoves, DeliveryNewsMoves DEF DiscardsNews
  <2> QED
    BY <1>4, <2>1, NothingNewToTell DEF DiscardsNews, TakesNews, SameDelivery
<1>3. ASSUME NEW e \in News, Learns(o, e) PROVE OrderTold(o)' /\ DeliveryTold(o)'
  <2>1. /\ e \in DeliveryNews(o) /\ DeliveryNews(o)' \subseteq DeliveryNews(o)
        /\ DeliveryNews(o) \subseteq DeliveryNews(o)' \cup {"cancelled"}
    BY <1>3, DeliveryNewsMoves
  <2>2. OrderNews(o)' = OrderNews(o)
    BY <1>3, OrderNewsMoves DEF Learns
  <2>3. /\ deliveries'[o].status = deliveries[o].status
        /\ IF e = "cancelled" THEN processed'[o] = processed[o] ELSE processed'[o] = processed[o] \cup {e}
        /\ \/ NothingToDo(o, e) /\ orders'[o] = orders[o]
           \/ orders[o] # "cancelled" /\ validTransition(orders[o], Target(e)) /\ orders'[o] = Target(e)
    BY <1>3 DEF Learns, TakesNews, SameDelivery, SameMarks, Marked, NothingToDo
  <2>4. e \notin OrderEvents
    BY DEF News, OrderEvents, Underway
  <2>5. orders'[o] = "cancelled" <=> orders[o] = "cancelled"
    <3>1. ASSUME orders[o] # "cancelled", validTransition(orders[o], Target(e)) PROVE Target(e) # "cancelled"
      BY <3>1 DEF validTransition
    <3> QED
      BY <2>3, <3>1 DEF validTransition
  <2>6. OrderTold(o)'
    <3>1. orders'[o] = "none" <=> orders[o] = "none"
      BY <2>3 DEF validTransition
    <3>2. "order.created" \in processed'[o] <=> "order.created" \in processed[o]
      BY <2>3, <2>4 DEF OrderEvents
    <3> QED
      BY <2>2, <2>3, <2>5, <3>1, <3>2 DEF OrderTold
  <2>7. CASE orders[o] = "cancelled"
    BY <2>1, <2>3, <2>5, <2>6, <2>7 DEF DeliveryTold
  <2>8. CASE orders[o] # "cancelled"
    <3>1. /\ \A f \in DeliveryNews(o) : f # "cancelled" /\ Rank(f) <= Rank(deliveries[o].status)
          /\ Reached(orders[o]) <= Rank(deliveries[o].status)
          /\ \A f \in processed[o] \ OrderEvents : Rank(f) <= Reached(orders[o])
      BY <2>8 DEF DeliveryTold
    <3>2. e # "cancelled" /\ Rank(e) <= Rank(deliveries[o].status)
      BY <2>1, <3>1
    <3>3. /\ Reached(Target(e)) = Rank(e) /\ Rank(e) \in Nat /\ Reached(orders[o]) \in Nat
          /\ \A f \in News : Rank(f) \in Nat
      BY <3>2 DEF Reached, Target, Rank, News, Underway
    <3>4. processed'[o] \ OrderEvents \subseteq (processed[o] \ OrderEvents) \cup {e}
      BY <2>3
    <3>5. CASE NothingToDo(o, e) /\ orders'[o] = orders[o]
      <4>1. Rank(e) <= Reached(orders[o])
        BY <2>4, <2>8, <3>1, <3>2, <3>3, <3>5 DEF NothingToDo
      <4> QED
        BY <2>1, <2>3, <2>6, <3>1, <3>4, <3>5, <4>1 DEF DeliveryTold
    <3>6. CASE validTransition(orders[o], Target(e)) /\ orders'[o] = Target(e)
      <4>1. Reached(orders[o]) <= Rank(e)
        <5>1. Reached(orders[o]) <= Reached(Target(e))
          BY <3>6 DEF validTransition, Reached
        <5> QED
          BY <3>3, <5>1
      <4>2. processed[o] \ OrderEvents \subseteq News
        BY <1>0 DEF Marks, News
      <4>3. \A f \in processed'[o] \ OrderEvents : Rank(f) <= Reached(orders'[o])
        BY <3>1, <3>3, <3>4, <3>6, <4>1, <4>2
      <4>4. Reached(orders'[o]) <= Rank(deliveries[o].status)
        BY <3>2, <3>3, <3>6
      <4> QED
        BY <2>1, <2>3, <2>6, <3>1, <4>3, <4>4 DEF DeliveryTold
    <3> QED
      BY <2>3, <3>5, <3>6
  <2> QED
    BY <2>7, <2>8
<1> QED
  BY <1>1, <1>2, <1>3, <1>4

(* Every step keeps the agreement of each order, which the initial state has. *)
LEMMA NextKeepsAgreement == ASSUME Types, Agreement, [Next]_vars PROVE Agreement'
<1> SUFFICES ASSUME NEW o \in Orders PROVE OrderTold(o)' /\ DeliveryTold(o)'
  BY DEF Agreement
<1>1. OrderTold(o) /\ DeliveryTold(o)
  BY DEF Agreement
<1>2. Kinds(o)
  BY StepKinds
<1> QED
  BY <1>1, <1>2, OrderStepsAgree, NewsStepsAgree DEF Kinds

LEMMA InitAgreement == ASSUME Init PROVE Agreement
<1> SUFFICES ASSUME NEW o \in Orders PROVE OrderTold(o) /\ DeliveryTold(o)
  BY DEF Agreement
<1>1. /\ orders[o] = "none" /\ deliveries[o].status = "none" /\ processed[o] = {}
      /\ orderTopic[o] = << >> /\ orderDead[o] = << >> /\ deliveryTopic[o] = << >> /\ deliveryDead[o] = << >>
      /\ discarded[o] = {}
  BY DEF Init, NoDeliveryRow
<1>2. ToSet(<< >>) = {}
  BY DEF ToSet
<1>3. OrderNews(o) = {} /\ DeliveryNews(o) = {}
  BY <1>1, <1>2 DEF OrderNews, DeliveryNews
<1>4. OrderTold(o)
  BY <1>1, <1>3 DEF OrderTold
<1>5. DeliveryTold(o)
  BY <1>1, <1>3 DEF DeliveryTold, Rank, Reached
<1> QED
  BY <1>4, <1>5

(* When everything was handled the order is where the furthest news, which is the delivery's, put it. *)
LEMMA AgreementSettles == ASSUME Types, Agreement PROVE AgreeWhenSettled
<1> SUFFICES ASSUME NEW o \in Orders, Quiet(o), Unhandled(o) = {}, orders[o] # "cancelled"
             PROVE  orders[o] = Target(deliveries[o].status)
  BY DEF AgreeWhenSettled
<1> DEFINE s == deliveries[o].status
<1>0. /\ orders[o] \in OrderStatus /\ s \in DeliveryStatus
      /\ OrderNews(o) \subseteq OrderEvents /\ DeliveryNews(o) \subseteq News
  BY OrderTypes
<1>1. OrderTold(o) /\ DeliveryTold(o)
  BY DEF Agreement
<1>2. ToSet(orderTopic[o]) = {} /\ ToSet(deliveryTopic[o]) = {}
  BY DEF Quiet, ToSet
<1>3. /\ ToSet(orderDead[o]) \subseteq processed[o] \cup {"cancelled"}
      /\ ToSet(deliveryDead[o]) \subseteq processed[o] \cup {"cancelled"}
      /\ discarded[o] \subseteq processed[o] \cup {"cancelled"}
  BY DEF Unhandled
<1>4. s # "cancelled"
  BY <1>1 DEF OrderTold
<1>5. CASE s = "none"
  <2>1. "order.created" \notin processed[o]
    BY <1>1, <1>5 DEF OrderTold
  <2>2. "order.created" \notin OrderNews(o)
    BY <1>2, <1>3, <2>1 DEF OrderNews
  <2> QED
    BY <1>1, <1>5, <2>2 DEF OrderTold, Target
<1>6. CASE s # "none"
  <2>1. s \in DeliveryNews(o) /\ s \in News
    BY <1>0, <1>1, <1>4, <1>6 DEF DeliveryTold
  <2>2. s \notin OrderEvents
    BY <2>1 DEF News, OrderEvents, Underway
  <2>3. s \in processed[o]
    BY <1>2, <1>3, <1>4, <2>1 DEF DeliveryNews
  <2>4. Rank(s) <= Reached(orders[o]) /\ Reached(orders[o]) <= Rank(s)
    BY <1>1, <2>2, <2>3 DEF DeliveryTold
  <2>5. s \in {"assigned", "assembling", "delivering", "completed"}
    BY <1>4, <2>1 DEF News, Underway
  <2>6. Rank(s) \in 1..4 /\ Reached(orders[o]) = Rank(s)
    BY <2>4, <2>5 DEF Rank, Reached
  <2> HIDE DEF s
  <2> QED
    BY <1>0, <2>5, <2>6 DEF Rank, Reached, Target, OrderStatus, s
<1> QED
  BY <1>5, <1>6

-----------------------------------------------------------------------------
(* Without failures, no news of a delivery is refused *)

Follows(s, t) ==
    \/ s = "none" /\ t = "assigned"
    \/ validDeliveryTransition(s, t)
    \/ s \in Underway /\ t \in {"completed", "cancelled"}

(* The queue of a delivery's news is a path through its statuses that ends  *)
(* where the delivery is; and unless the order was cancelled it is where    *)
(* that path begins.                                                       *)
Path(q, s) ==
    /\ Len(q) > 0 => q[Len(q)] = s
    /\ \A i \in 1..(Len(q) - 1) : Follows(q[i], q[i + 1])

AtItsStart(status, q, s) ==
    /\ Len(q) > 0 => validTransition(status, Target(q[1]))
    /\ Len(q) = 0 => status = Target(s) \/ (s = "none" /\ status = "created")

InStep(o) ==
    /\ deliveryDead[o] = << >>
    /\ Path(deliveryTopic[o], deliveries[o].status)
    /\ orders[o] # "cancelled" => AtItsStart(orders[o], deliveryTopic[o], deliveries[o].status)

(* Another status at the end of the path. *)
LEMMA PathGrows ==
    ASSUME NEW q \in Seq(News), NEW s, NEW t \in News, Path(q, s), Follows(s, t)
    PROVE  /\ Path(Append(q, t), t)
           /\ Len(Append(q, t)) > 0
           /\ Append(q, t)[1] = IF Len(q) = 0 THEN t ELSE q[1]
<1> DEFINE r == Append(q, t)
           n == Len(q)
<1>1. /\ Len(r) = n + 1 /\ n \in Nat /\ r[n + 1] = t
      /\ \A i \in 1..n : r[i] = q[i]
  BY Enqueued
<1>2. n > 0 => q[n] = s
  BY DEF Path
<1>3. \A i \in 1..(n - 1) : Follows(q[i], q[i + 1])
  BY DEF Path
<1> HIDE DEF r, n
<1>4. ASSUME NEW i \in 1..(Len(r) - 1) PROVE Follows(r[i], r[i + 1])
  <2>1. CASE i = n
    <3>1. n > 0 /\ r[n] = q[n] /\ r[n + 1] = t
      BY <1>1, <2>1
    <3> QED
      BY <1>2, <2>1, <3>1
  <2>2. CASE i # n
    <3>1. i \in 1..(n - 1) /\ i \in 1..n /\ i + 1 \in 1..n
      BY <1>1, <2>2
    <3> QED
      BY <1>1, <1>3, <3>1
  <2> QED
    BY <2>1, <2>2
<1>5. Len(r) > 0 /\ r[Len(r)] = t
  BY <1>1
<1>6. Path(r, t)
  BY <1>4, <1>5 DEF Path
<1>7. r[1] = IF n = 0 THEN t ELSE q[1]
  BY <1>1
<1> QED
  BY <1>5, <1>6, <1>7 DEF r, n

(* The first status off the path. *)
LEMMA PathShrinks ==
    ASSUME NEW q \in Seq(News), NEW s, Path(q, s), q # << >>
    PROVE  /\ Path(Tail(q), s)
           /\ Len(Tail(q)) = 0 => q[1] = s
           /\ Len(Tail(q)) > 0 => Follows(q[1], q[2]) /\ Tail(q)[1] = q[2] /\ q[2] \in ToSet(q)
           /\ q[1] = Head(q) /\ q[1] \in News
<1> DEFINE r == Tail(q)
           n == Len(q)
<1>1. /\ Len(r) = n - 1 /\ n \in Nat \ {0} /\ Head(q) = q[1] /\ Head(q) \in News
      /\ \A i \in 1..(n - 1) : r[i] = q[i + 1]
  BY Dequeued
<1>2. n > 0 => q[n] = s
  BY DEF Path
<1>3. \A i \in 1..(n - 1) : Follows(q[i], q[i + 1])
  BY DEF Path
<1>4. \A i \in 1..n : q[i] \in ToSet(q)
  BY QueueElements
<1> HIDE DEF r, n
<1>5. Path(r, s)
  <2>1. ASSUME Len(r) > 0 PROVE r[Len(r)] = s
    <3>1. n - 1 \in 1..(n - 1) /\ (n - 1) + 1 = n /\ n > 0
      BY <1>1, <2>1
    <3>2. r[n - 1] = q[(n - 1) + 1]
      BY <1>1, <3>1
    <3> QED
      BY <1>1, <1>2, <3>1, <3>2
  <2>2. ASSUME NEW i \in 1..(Len(r) - 1) PROVE Follows(r[i], r[i + 1])
    <3>1. i \in 1..(n - 1) /\ i + 1 \in 1..(n - 1)
      BY <1>1
    <3>2. r[i] = q[i + 1] /\ r[i + 1] = q[(i + 1) + 1] /\ Follows(q[i + 1], q[(i + 1) + 1])
      BY <1>1, <1>3, <3>1
    <3> QED
      BY <3>2
  <2> QED
    BY <2>1, <2>2 DEF Path
<1>6. Len(r) = 0 => q[1] = s
  BY <1>1, <1>2
<1>7. Len(r) > 0 => Follows(q[1], q[2]) /\ r[1] = q[2] /\ q[2] \in ToSet(q)
  <2> HAVE Len(r) > 0
  <2>1. 1 \in 1..(n - 1) /\ 2 \in 1..n /\ 1 + 1 = 2
    BY <1>1
  <2> QED
    BY <1>1, <1>3, <1>4, <2>1
<1> QED
  BY <1>1, <1>5, <1>6, <1>7 DEF r, n

(* What follows in the delivery is a valid next status of the order. *)
LEMMA TargetsFollow ==
    /\ \A s \in News, t \in News \ {"cancelled"} : Follows(s, t) => validTransition(Target(s), Target(t))
    /\ \A status \in OrderStatus, e \in News : validTransition(status, Target(e)) =>
          e # "cancelled" /\ status # Target(e) /\ Reached(status) < Rank(e)
    /\ Follows("none", "assigned") /\ validTransition("created", Target("assigned"))
<1>1. \A s \in News, t \in News \ {"cancelled"} : Follows(s, t) => validTransition(Target(s), Target(t))
  BY DEF Follows, validDeliveryTransition, validTransition, Target, News, Underway
<1>2. ASSUME NEW status \in OrderStatus, NEW e \in News, validTransition(status, Target(e))
      PROVE  e # "cancelled" /\ status # Target(e) /\ Reached(status) < Rank(e)
  <2>1. e # "cancelled"
    BY <1>2 DEF validTransition, Target
  <2>2. status # Target(e)
    BY <1>2 DEF validTransition
  <2>3. Reached(status) < Reached(Target(e))
    BY <1>2 DEF validTransition, Reached
  <2>4. Reached(Target(e)) = Rank(e)
    BY <2>1 DEF Reached, Rank, Target, News, Underway
  <2> QED
    BY <2>1, <2>2, <2>3, <2>4
<1>3. Follows("none", "assigned") /\ validTransition("created", Target("assigned"))
  BY DEF Follows, validTransition, Target
<1> QED
  BY <1>1, <1>2, <1>3

(* A delivery not yet there has no news. *)
LEMMA NoNewsOfNone ==
    ASSUME Types, NEW o \in Orders, InStep(o), deliveries[o].status = "none"
    PROVE  Len(deliveryTopic[o]) = 0
<1>1. PICK q \in Seq(News) : q = deliveryTopic[o]
  BY OrderTypes
<1>2. Len(q) \in Nat /\ \A i \in 1..Len(q) : q[i] \in News
  BY QueueElements
<1>3. Len(q) > 0 => q[Len(q)] = "none"
  BY <1>1 DEF InStep, Path
<1>4. "none" \notin News
  BY DEF News, Underway
<1>5. ~(Len(q) > 0)
  BY <1>2, <1>3, <1>4
<1> QED
  BY <1>1, <1>2, <1>5

LEMMA StepKeepsInStep ==
    ASSUME Types, NEW o \in Orders, OrderTold(o), DeliveryTold(o), InStep(o), Kinds(o), failures' = 0
    PROVE  InStep(o)'
<1>0. PICK q \in Seq(News), s \in DeliveryStatus :
         /\ q = deliveryTopic[o] /\ s = deliveries[o].status /\ Path(q, s) /\ deliveryDead[o] = << >>
         /\ orders[o] # "cancelled" => AtItsStart(orders[o], q, s)
         /\ orders[o] \in OrderStatus
  BY OrderTypes DEF InStep
<1>1. ASSUME SameDelivery(o), SameNews(o), orders'[o] = orders[o] \/ orders'[o] = "cancelled"
      PROVE  InStep(o)'
  BY <1>1 DEF SameDelivery, SameNews, InStep
<1>2. CASE \/ Undisturbed(o) \/ ReplaysOrder(o)
           \/ \E e \in OrderEvents : BuriesOrSkips(o, e) \/ DiscardsOrder(o, e)
  BY <1>1, <1>2 DEF Undisturbed, ReplaysOrder, BuriesOrSkips, DiscardsOrder, TakesOrderEvent, SameOrder
<1>3. ASSUME NEW t, NEW e, Requested(o, t, e) PROVE InStep(o)'
  <2>1. CASE t = "cancelled"
    BY <1>1, <1>3, <2>1 DEF Requested
  <2>2. CASE t = "created"
    <3>1. orders[o] = "none" /\ SameDelivery(o) /\ SameNews(o) /\ orders'[o] = "created"
      BY <1>3, <2>2 DEF Requested
    <3>2. "order.created" \notin processed[o]
      BY <3>1 DEF OrderTold, OrderNews, OrderEvents
    <3>3. s = "none" /\ Len(q) = 0
      BY <1>0, <3>2, NoNewsOfNone DEF OrderTold
    <3>4. AtItsStart("created", q, s)
      BY <3>3 DEF AtItsStart
    <3> QED
      BY <1>0, <3>1, <3>4 DEF InStep, SameDelivery, SameNews
  <2> QED
    BY <1>3, <2>1, <2>2 DEF Requested
<1>4. ASSUME NEW t \in News, Announces(o, t), Follows(s, t), orders'[o] = orders[o],
             orders[o] # "cancelled" =>
               IF Len(q) = 0 THEN validTransition(orders[o], Target(t)) ELSE validTransition(orders[o], Target(q[1]))
      PROVE  InStep(o)'
  <2>1. PICK r : r = Append(q, t)
    OBVIOUS
  <2>2. Path(r, t) /\ Len(r) > 0 /\ r[1] = IF Len(q) = 0 THEN t ELSE q[1]
    BY <1>0, <1>4, <2>1, PathGrows
  <2>3. deliveries'[o].status = t /\ deliveryTopic'[o] = r /\ deliveryDead'[o] = << >>
    BY <1>0, <1>4, <2>1 DEF Announces
  <2>4. orders[o] # "cancelled" => AtItsStart(orders[o], r, t)
    BY <1>4, <2>2 DEF AtItsStart
  <2> QED
    BY <1>4, <2>2, <2>3, <2>4 DEF InStep
<1>5. CASE GetsCourier(o)
  <2>1. /\ orders'[o] = orders[o] /\ Announces(o, "assigned") /\ "assigned" \in News
        /\ "order.created" \notin processed[o]
    BY <1>5 DEF GetsCourier, TakesOrderEvent, News, Underway
  <2>2. s = "none" /\ Len(q) = 0
    BY <1>0, <2>1, NoNewsOfNone DEF OrderTold
  <2>3. orders[o] # "none"
    <3>1. "order.created" \in OrderNews(o)
      BY <1>5, OrderNewsMoves DEF GetsCourier, OrderEvents
    <3> QED
      BY <3>1 DEF OrderTold
  <2>4. orders[o] # "cancelled" => orders[o] = "created"
    BY <1>0, <2>2, <2>3 DEF AtItsStart, Target
  <2> QED
    BY <1>4, <2>1, <2>2, <2>4, TargetsFollow
<1>6. CASE EndsCancelled(o)
  <2>1. orders'[o] = orders[o] /\ orders[o] = "cancelled"
    <3>1. "order.cancelled" \in OrderNews(o)
      BY <1>6, OrderNewsMoves DEF EndsCancelled, OrderEvents
    <3> QED
      BY <1>6, <3>1 DEF OrderTold, EndsCancelled, TakesOrderEvent
  <2>2. CASE s \in Underway /\ Announces(o, "cancelled")
    <3>1. Follows(s, "cancelled") /\ "cancelled" \in News
      BY <2>2 DEF Follows, News
    <3> QED
      BY <1>4, <2>1, <2>2, <3>1
  <2>3. CASE SameDelivery(o) /\ SameNews(o)
    BY <1>1, <2>1, <2>3
  <2> QED
    BY <1>0, <1>6, <2>2, <2>3 DEF EndsCancelled
<1>7. ASSUME NEW t \in Phases, Advances(o, t) PROVE InStep(o)'
  <2>1. /\ Announces(o, t) /\ orders'[o] = orders[o] /\ t \in News \ {"cancelled"}
        /\ s \in News /\ Follows(s, t)
    BY <1>0, <1>7 DEF Advances, SameOrder, Phases, News, Underway, Follows, validDeliveryTransition
  <2>2. Len(q) \in Nat
    BY QueueElements
  <2>3. ASSUME orders[o] # "cancelled"
        PROVE  IF Len(q) = 0 THEN validTransition(orders[o], Target(t))
               ELSE validTransition(orders[o], Target(q[1]))
    <3>1. AtItsStart(orders[o], q, s)
      BY <1>0, <2>3
    <3>2. CASE Len(q) = 0
      <4>1. orders[o] = Target(s)
        BY <2>1, <3>1, <3>2 DEF AtItsStart, News, Underway
      <4> QED
        BY <2>1, <3>2, <4>1, TargetsFollow
    <3>3. CASE Len(q) # 0
      BY <2>2, <3>1, <3>3 DEF AtItsStart
    <3> QED
      BY <3>2, <3>3
  <2> QED
    BY <1>4, <2>1, <2>3
<1>8. ASSUME NEW e \in News, Learns(o, e) PROVE InStep(o)'
  <2>1. PICK r : r = Tail(q)
    OBVIOUS
  <2>2. /\ q # << >> /\ e = Head(q) /\ deliveryTopic'[o] = r /\ deliveries'[o].status = s
        /\ deliveryDead'[o] = << >>
    BY <1>0, <1>8, <2>1 DEF Learns, TakesNews, SameDelivery
  <2>3. /\ Path(r, s) /\ e = q[1]
        /\ Len(r) = 0 => q[1] = s
        /\ Len(r) > 0 => Follows(q[1], q[2]) /\ r[1] = q[2] /\ q[2] \in ToSet(q)
    BY <1>0, <2>1, <2>2, PathShrinks
  <2>4. Len(q) > 0 /\ Len(r) \in Nat
    BY <2>1, <2>2, Dequeued
  <2>5. CASE orders[o] = "cancelled"
    <3>1. orders'[o] = "cancelled"
      BY <1>8, <2>5 DEF Learns, NothingToDo
    <3> QED
      BY <2>2, <2>3, <3>1 DEF InStep
  <2>6. CASE orders[o] # "cancelled"
    <3>1. validTransition(orders[o], Target(e))
      BY <1>0, <2>3, <2>4, <2>6 DEF AtItsStart
    <3>2. e # "cancelled" /\ orders[o] # Target(e) /\ Reached(orders[o]) < Rank(e)
      BY <1>0, <3>1, TargetsFollow
    <3>3. e \notin processed[o]
      <4>1. e \notin OrderEvents
        BY DEF News, OrderEvents, Underway
      <4>2. e \in processed[o] => Rank(e) <= Reached(orders[o])
        BY <2>6, <4>1 DEF DeliveryTold
      <4>3. Reached(orders[o]) \in Nat /\ Rank(e) \in Nat
        BY DEF Reached, Rank
      <4> QED
        BY <3>2, <4>2, <4>3
    <3>4. orders'[o] = Target(e)
      BY <1>8, <2>6, <3>2, <3>3 DEF Learns, NothingToDo
    <3>5. AtItsStart(Target(e), r, s)
      <4>1. CASE Len(r) = 0
        BY <2>3, <4>1 DEF AtItsStart
      <4>2. CASE Len(r) # 0
        <5>1. Len(r) > 0
          BY <2>4, <4>2
        <5>2. q[2] \in DeliveryNews(o)
          BY <1>0, <2>3, <5>1 DEF DeliveryNews
        <5>3. q[2] \in News \ {"cancelled"}
          BY <2>6, <5>2, OrderTypes DEF DeliveryTold
        <5>4. validTransition(Target(e), Target(r[1]))
          BY <2>3, <5>1, <5>3, TargetsFollow
        <5> QED
          BY <4>2, <5>4 DEF AtItsStart
      <4> QED
        BY <4>1, <4>2
    <3> QED
      BY <2>2, <2>3, <3>4, <3>5 DEF InStep
  <2> QED
    BY <2>5, <2>6
<1>9. ASSUME NEW e \in News, BuriesNews(o, e) PROVE FALSE
  <2>1. ~NothingToDo(o, e) /\ ~validTransition(orders[o], Target(e)) /\ q # << >> /\ e = Head(q)
    BY <1>0, <1>9 DEF BuriesNews, TakesNews
  <2>2. orders[o] # "cancelled"
    BY <2>1 DEF NothingToDo
  <2>3. Len(q) > 0 /\ e = q[1]
    BY <2>1, Dequeued
  <2> QED
    BY <1>0, <2>1, <2>2, <2>3 DEF AtItsStart
<1>10. ~ReplaysNews(o) /\ \A e \in News : ~DiscardsNews(o, e)
  BY <1>0 DEF ReplaysNews, DiscardsNews
<1> QED
  BY <1>2, <1>3, <1>5, <1>6, <1>7, <1>8, <1>9, <1>10 DEF Kinds

(* As long as nothing failed every order and its delivery are in step. *)
AllInStep == failures = 0 => \A o \in Orders : InStep(o)

LEMMA NextKeepsInStep == ASSUME Types, Agreement, AllInStep, [Next]_vars PROVE AllInStep'
<1> SUFFICES ASSUME failures' = 0, NEW o \in Orders PROVE InStep(o)'
  BY DEF AllInStep
<1>1. failures = 0
  BY CountsGrow DEF Types, CountTypes
<1>2. InStep(o) /\ OrderTold(o) /\ DeliveryTold(o)
  BY <1>1 DEF AllInStep, Agreement
<1>3. Kinds(o)
  BY StepKinds
<1> QED
  BY <1>2, <1>3, StepKeepsInStep

LEMMA InitInStep == ASSUME Init PROVE AllInStep
<1> SUFFICES ASSUME NEW o \in Orders PROVE InStep(o)
  BY DEF AllInStep
<1>1. /\ orders[o] = "none" /\ deliveries[o].status = "none"
      /\ deliveryTopic[o] = << >> /\ deliveryDead[o] = << >>
  BY DEF Init, NoDeliveryRow
<1>2. Path(<< >>, "none")
  BY DEF Path
<1>3. AtItsStart("none", << >>, "none")
  BY DEF AtItsStart, Target
<1> QED
  BY <1>1, <1>2, <1>3 DEF InStep

-----------------------------------------------------------------------------
(* Without losses, no delivery is left behind by its courier's phases *)

Says(q, i, o, p) == i \in 1..Len(q) /\ q[i] = [delivery |-> o, phase |-> p]

(* A phase that is over, and that the delivery has not reached, is still in *)
(* the courier's reports; assembling before delivering.                    *)
HasSaid(q, o, status, elapsed) ==
    /\ status = "assigned" /\ elapsed >= AssemblingUntil =>
         \E i \in 1..Len(q) :
            /\ Says(q, i, o, "assembling")
            /\ elapsed >= DeliveringUntil => \E j \in 1..Len(q) : i < j /\ Says(q, j, o, "delivering")
    /\ status = "assembling" /\ elapsed >= DeliveringUntil =>
         \E j \in 1..Len(q) : Says(q, j, o, "delivering")

InReports(o) == HasSaid(locationTopic[deliveries[o].courier], o, deliveries[o].status, Elapsed(o))

AllInReports == lost = 0 => \A o \in Orders : deliveries[o].status \in Underway => InReports(o)

(* A later estimate asks for less. *)
LEMMA DelayedSaid ==
    ASSUME NEW q, NEW o, NEW s, NEW x \in Int, NEW y \in Int, y <= x, HasSaid(q, o, s, x)
    PROVE  HasSaid(q, o, s, y)
<1>1. /\ y >= AssemblingUntil => x >= AssemblingUntil
      /\ y >= DeliveringUntil => x >= DeliveringUntil
  BY Bounds
<1> QED
  BY <1>1 DEF HasSaid

(* The next status asks for what was to come after it. *)
LEMMA AdvancedSaid ==
    ASSUME NEW q, NEW o, NEW s, NEW t, NEW x \in Int, validDeliveryTransition(s, t), HasSaid(q, o, s, x)
    PROVE  HasSaid(q, o, t, x)
<1>1. x >= DeliveringUntil => x >= AssemblingUntil
  BY Bounds
<1> QED
  BY <1>1 DEF HasSaid, validDeliveryTransition

(* A tick reports the phase before the second passes. *)
LEMMA TickSaid ==
    ASSUME NEW q \in Seq(Report), NEW o \in Orders, NEW s, NEW x \in Int, NEW y \in {x, x + 1}, NEW p \in Phases,
           p = IF x < AssemblingUntil THEN "assembling"
               ELSE IF x < DeliveringUntil THEN "delivering" ELSE "completed",
           HasSaid(q, o, s, x)
    PROVE  HasSaid(Append(q, [delivery |-> o, phase |-> p]), o, s, y)
<1> DEFINE e == [delivery |-> o, phase |-> p]
           r == Append(q, e)
           n == Len(q)
<1>1. /\ Len(r) = n + 1 /\ n \in Nat
      /\ \A i \in 1..n : r[i] = q[i]
      /\ r[n + 1] = e
  <2>1. e \in Report
    BY DEF Report
  <2> QED
    BY <2>1, Enqueued
<1> HIDE DEF r, n
<1>2. n + 1 \in 1..Len(r) /\ Says(r, n + 1, o, p)
  BY <1>1 DEF Says
<1>3. \A i \in 1..Len(q) : \A a : Says(q, i, o, a) => Says(r, i, o, a) /\ i \in 1..Len(r) /\ i < n + 1
  BY <1>1 DEF Says, n
<1>4. ASSUME s = "assigned", y >= AssemblingUntil
      PROVE  \E i \in 1..Len(r) :
                /\ Says(r, i, o, "assembling")
                /\ y >= DeliveringUntil => \E j \in 1..Len(r) : i < j /\ Says(r, j, o, "delivering")
  <2>1. CASE x < AssemblingUntil
    <3>1. p = "assembling" /\ ~(y >= DeliveringUntil)
      BY <2>1, Bounds
    <3> QED
      BY <1>2, <3>1
  <2>2. CASE ~(x < AssemblingUntil)
    <3>1. PICK i \in 1..Len(q) :
             /\ Says(q, i, o, "assembling")
             /\ x >= DeliveringUntil => \E j \in 1..Len(q) : i < j /\ Says(q, j, o, "delivering")
      BY <1>4, <2>2, Bounds DEF HasSaid
    <3>2. Says(r, i, o, "assembling") /\ i \in 1..Len(r) /\ i < n + 1
      BY <1>3, <3>1
    <3>3. CASE x < DeliveringUntil
      BY <1>2, <2>2, <3>2, <3>3
    <3>4. CASE ~(x < DeliveringUntil)
      <4>1. PICK j \in 1..Len(q) : i < j /\ Says(q, j, o, "delivering")
        BY <3>1, <3>4, Bounds
      <4> QED
        BY <1>3, <3>2, <4>1
    <3> QED
      BY <3>3, <3>4
  <2> QED
    BY <2>1, <2>2
<1>5. ASSUME s = "assembling", y >= DeliveringUntil
      PROVE  \E j \in 1..Len(r) : Says(r, j, o, "delivering")
  <2>1. CASE x < DeliveringUntil
    <3>1. ~(x < AssemblingUntil)
      BY <1>5, <2>1, Bounds
    <3> QED
      BY <1>2, <2>1, <3>1
  <2>2. CASE ~(x < DeliveringUntil)
    <3>1. PICK j \in 1..Len(q) : Says(q, j, o, "delivering")
      BY <1>5, <2>2, Bounds DEF HasSaid
    <3> QED
      BY <1>3, <3>1
  <2> QED
    BY <2>1, <2>2
<1>6. HasSaid(r, o, s, y)
  BY <1>4, <1>5 DEF HasSaid
<1> QED
  BY <1>6 DEF r

(* The consumer takes a report off; what it says of another delivery, or    *)
(* again, or too early, is not what this one waits for.                    *)
LEMMA HandledSaid ==
    ASSUME NEW q \in Seq(Report), q # << >>, NEW o, NEW s, NEW x \in Int, HasSaid(q, o, s, x),
           NEW t, \/ Head(q).delivery = o /\ validDeliveryTransition(s, Head(q).phase) /\ t = Head(q).phase
                  \/ ~(Head(q).delivery = o /\ validDeliveryTransition(s, Head(q).phase)) /\ t = s
    PROVE  HasSaid(Tail(q), o, t, x)
<1> DEFINE h == Head(q)
           r == Tail(q)
           n == Len(q)
<1>1. /\ Len(r) = n - 1 /\ n \in Nat \ {0} /\ h = q[1]
      /\ \A i \in 1..(n - 1) : r[i] = q[i + 1]
  BY Dequeued
<1> HIDE DEF h, r, n
<1>2. ASSUME NEW i \in 1..n, i # 1, NEW p, Says(q, i, o, p)
      PROVE  /\ i - 1 \in 1..Len(r) /\ Says(r, i - 1, o, p)
             /\ \A j \in 1..n : i < j => j # 1 /\ i - 1 < j - 1
  <2>1. i - 1 \in 1..(n - 1) /\ (i - 1) + 1 = i
    BY <1>1, <1>2
  <2>2. r[i - 1] = q[i]
    BY <1>1, <2>1
  <2> QED
    BY <1>1, <1>2, <2>1, <2>2 DEF Says
<1>3. ASSUME NEW p, Says(q, 1, o, p) PROVE h.delivery = o /\ h.phase = p
  BY <1>1, <1>3 DEF Says
<1>4. n = Len(q) /\ h = Head(q)
  BY DEF n, h
<1>5. CASE h.delivery = o /\ validDeliveryTransition(s, h.phase) /\ t = h.phase
  <2>1. ASSUME t = "assembling", x >= DeliveringUntil
        PROVE  \E j \in 1..Len(r) : Says(r, j, o, "delivering")
    <3>1. s = "assigned" /\ x >= AssemblingUntil
      BY <1>5, <2>1, Bounds DEF validDeliveryTransition
    <3>2. PICK i \in 1..n, j \in 1..n : i < j /\ Says(q, j, o, "delivering")
      BY <1>4, <2>1, <3>1 DEF HasSaid
    <3>3. j # 1
      BY <1>1, <3>2
    <3> QED
      BY <1>2, <3>2, <3>3
  <2>2. t # "assigned"
    BY <1>5 DEF validDeliveryTransition
  <2>3. HasSaid(r, o, t, x)
    BY <2>1, <2>2 DEF HasSaid
  <2> QED
    BY <2>3 DEF r
<1>6. CASE ~(h.delivery = o /\ validDeliveryTransition(s, h.phase)) /\ t = s
  <2>1. ASSUME s = "assigned", x >= AssemblingUntil
        PROVE  \E i \in 1..Len(r) :
                  /\ Says(r, i, o, "assembling")
                  /\ x >= DeliveringUntil => \E j \in 1..Len(r) : i < j /\ Says(r, j, o, "delivering")
    <3>1. PICK i \in 1..n :
             /\ Says(q, i, o, "assembling")
             /\ x >= DeliveringUntil => \E j \in 1..n : i < j /\ Says(q, j, o, "delivering")
      BY <1>4, <2>1 DEF HasSaid
    <3>2. i # 1
      BY <1>3, <1>6, <2>1, <3>1 DEF validDeliveryTransition
    <3>3. i - 1 \in 1..Len(r) /\ Says(r, i - 1, o, "assembling")
      BY <1>2, <3>1, <3>2
    <3>4. ASSUME x >= DeliveringUntil
          PROVE  \E j \in 1..Len(r) : i - 1 < j /\ Says(r, j, o, "delivering")
      <4>1. PICK j \in 1..n : i < j /\ Says(q, j, o, "delivering")
        BY <3>1, <3>4
      <4>2. j # 1 /\ i - 1 < j - 1
        BY <1>1, <4>1
      <4> QED
        BY <1>2, <4>1, <4>2
    <3> QED
      BY <3>3, <3>4
  <2>2. ASSUME s = "assembling", x >= DeliveringUntil
        PROVE  \E j \in 1..Len(r) : Says(r, j, o, "delivering")
    <3>1. PICK j \in 1..n : Says(q, j, o, "delivering")
      BY <1>4, <2>2 DEF HasSaid
    <3>2. j # 1
      BY <1>3, <1>6, <2>2, <3>1 DEF validDeliveryTransition
    <3> QED
      BY <1>2, <3>1, <3>2
  <2>3. HasSaid(r, o, t, x)
    BY <1>6, <2>1, <2>2 DEF HasSaid
  <2> QED
    BY <2>3 DEF r
<1> QED
  BY <1>4, <1>5, <1>6

(* What a delivery waits for, in a step that takes it as far or less. *)
LEMMA SameReports ==
    ASSUME Types, Types', NEW o \in Orders, InReports(o),
           SameDelivery(o), age'[o] = age[o], deliveries'[o].delay >= deliveries[o].delay,
           locationTopic'[deliveries[o].courier] = locationTopic[deliveries[o].courier]
    PROVE  InReports(o)'
<1>1. PICK q, c, s : q = locationTopic[c] /\ c = deliveries[o].courier /\ s = deliveries[o].status
  OBVIOUS
<1>2. PICK x \in Int, y \in Int : x = Elapsed(o) /\ y = Elapsed(o)' /\ y <= x
  <2>1. /\ age[o] \in Int /\ deliveries[o].delay \in Int
        /\ deliveries'[o].delay \in Int
    BY Bounds DEF Types, RowTypes, DeliveryRow
  <2>2. Elapsed(o) \in Int /\ Elapsed(o)' \in Int /\ Elapsed(o)' <= Elapsed(o)
    BY <2>1 DEF Elapsed
  <2> QED
    BY <2>2
<1>3. HasSaid(q, o, s, x)
  BY <1>1, <1>2 DEF InReports
<1>4. HasSaid(q, o, s, y)
  BY <1>2, <1>3, DelayedSaid
<1>5. locationTopic'[deliveries'[o].courier] = q /\ deliveries'[o].status = s
  BY <1>1 DEF SameDelivery
<1> QED
  BY <1>2, <1>4, <1>5 DEF InReports

LEMMA ElapsedTypes ==
    ASSUME Types, NEW o \in Orders
    PROVE  Elapsed(o) \in Int /\ age[o] \in Nat /\ deliveries[o].delay \in Nat
BY Bounds DEF Types, RowTypes, DeliveryRow, Elapsed

LEMMA TickKeepsReports ==
    ASSUME Types, Manned, NEW o \in Orders, deliveries[o].status \in Underway, InReports(o), Tick
    PROVE  InReports(o)'
<1>1. PICK c \in Couriers : c = deliveries[o].courier /\ Carries(c, o)
  BY DEF Manned, Underway, Carries
<1>2. PICK q \in Seq(Report), s \in DeliveryStatus, x \in Int, p \in Phases :
         /\ q = locationTopic[c] /\ s = deliveries[o].status /\ x = Elapsed(o) /\ p = PhaseOf(o)
  <2>1. locationTopic[c] \in Seq(Report) /\ deliveries[o].status \in DeliveryStatus
    BY OrderTypes DEF Types, QueueTypes
  <2>2. PhaseOf(o) \in Phases
    BY DEF PhaseOf, Phases
  <2> QED
    BY <2>1, <2>2, ElapsedTypes
<1>3. PICK e \in Report : e = [delivery |-> o, phase |-> p]
  BY DEF Report
<1>4. locationTopic'[c] = q \o <<e>>
  <2>1. SetToSeq(ReportsOf(c)) = <<e>>
    BY <1>1, <1>2, <1>3, OneReport
  <2> QED
    BY <1>2, <2>1 DEF Tick
<1>5. q \o <<e>> = Append(q, e)
  OBVIOUS
<1>6. /\ deliveries' = deliveries
      /\ age'[o] \in {age[o], age[o] + 1}
  BY DEF Tick
<1>7. PICK y \in {x, x + 1} : y = Elapsed(o)'
  <2>1. Elapsed(o)' = age'[o] - deliveries[o].delay /\ Elapsed(o) = age[o] - deliveries[o].delay
    BY <1>6 DEF Elapsed
  <2> QED
    BY <1>2, <1>6, <2>1, ElapsedTypes
<1>8. HasSaid(q, o, s, x)
  BY <1>1, <1>2 DEF InReports
<1>9. p = IF x < AssemblingUntil THEN "assembling"
          ELSE IF x < DeliveringUntil THEN "delivering" ELSE "completed"
  BY <1>2 DEF PhaseOf
<1>10. HasSaid(Append(q, e), o, s, y)
  BY <1>3, <1>7, <1>8, <1>9, TickSaid
<1>11. locationTopic'[deliveries'[o].courier] = Append(q, e) /\ deliveries'[o].status = s
  BY <1>1, <1>2, <1>4, <1>5, <1>6
<1> QED
  BY <1>7, <1>10, <1>11 DEF InReports

LEMMA HandlingKeepsReports ==
    ASSUME Types, Manned, NEW o \in Orders, deliveries[o].status \in Underway, InReports(o),
           NEW c \in Couriers, HandleReport(c)
    PROVE  InReports(o)'
<1>1. PICK d \in Couriers : d = deliveries[o].courier
  BY DEF Manned, Underway
<1>2. PICK q \in Seq(Report), s \in DeliveryStatus, x \in Int :
         q = locationTopic[d] /\ s = deliveries[o].status /\ x = Elapsed(o)
  <2>1. locationTopic[d] \in Seq(Report) /\ deliveries[o].status \in DeliveryStatus
    BY OrderTypes DEF Types, QueueTypes
  <2> QED
    BY <2>1, ElapsedTypes
<1>3. PICK h \in Report : h = Head(locationTopic[c]) /\ h.delivery \in Orders /\ h.phase \in Phases
  BY HeadReport DEF HandleReport
<1>4. HasSaid(q, o, s, x)
  BY <1>1, <1>2 DEF InReports
<1>5. PICK t :
        /\ \/ h.delivery = o /\ validDeliveryTransition(s, h.phase) /\ t = h.phase
           \/ ~(h.delivery = o /\ validDeliveryTransition(s, h.phase)) /\ t = s
        /\ deliveries'[o].status = t
        /\ deliveries'[o].courier = deliveries[o].courier /\ deliveries'[o].delay = deliveries[o].delay
  <2>1. CASE h.delivery = o /\ validDeliveryTransition(s, h.phase)
    <3>1. deliveries' = [deliveries EXCEPT ![o].status = h.phase]
      BY <1>2, <1>3, <2>1 DEF HandleReport
    <3> QED
      BY <2>1, <3>1 DEF Types, RowTypes, DeliveryRow
  <2>2. CASE ~(h.delivery = o /\ validDeliveryTransition(s, h.phase))
    <3>1. \/ deliveries' = deliveries
          \/ h.delivery # o /\ deliveries' = [deliveries EXCEPT ![h.delivery].status = h.phase]
      BY <1>2, <1>3, <2>2 DEF HandleReport
    <3>2. deliveries'[o] = deliveries[o]
      BY <1>3, <3>1 DEF Types, RowTypes, DeliveryRow
    <3> QED
      BY <1>2, <2>2, <3>2
  <2> QED
    BY <2>1, <2>2
<1>6. Elapsed(o)' = x
  BY <1>2, <1>5 DEF Elapsed, HandleReport
<1>7. CASE d = c
  <2>1. q # << >> /\ h = Head(q) /\ locationTopic'[d] = Tail(q)
    BY <1>2, <1>3, <1>7 DEF HandleReport, Types, QueueTypes
  <2>2. HasSaid(Tail(q), o, t, x)
    BY <1>4, <1>5, <2>1, HandledSaid
  <2> QED
    BY <1>1, <1>5, <1>6, <2>1, <2>2 DEF InReports
<1>8. CASE d # c
  <2>1. locationTopic'[d] = q
    BY <1>2, <1>8 DEF HandleReport, Types, QueueTypes
  <2>2. HasSaid(q, o, t, x)
    BY <1>4, <1>5, AdvancedSaid
  <2> QED
    BY <1>1, <1>5, <1>6, <2>1, <2>2 DEF InReports
<1> QED
  BY <1>7, <1>8

LEMMA OrderStepsKeepReports ==
    ASSUME Types, Types', Manned, NEW o \in Orders,
           deliveries[o].status \in Underway => InReports(o), deliveries'[o].status \in Underway,
           \/ \E p \in Orders :
                 \/ Create(p) \/ Cancel(p)
                 \/ ConsumeOrderEvent(p) \/ OrderEventFails(p) \/ OrderEventDiscarded(p) \/ ReplayOrderEvents(p)
                 \/ ConsumeDeliveryEvent(p) \/ DeliveryEventFails(p) \/ DeliveryEventDiscarded(p)
                 \/ ReplayDeliveryEvents(p)
                 \/ Delay(p) \/ Complete(p)
           \/ \E c \in Couriers : TakenElsewhere(c) \/ BackFromElsewhere(c)
           \/ UNCHANGED vars
    PROVE  InReports(o)'
<1> USE DEF topics, dead, budget
<1>0. /\ deliveries \in [Orders -> DeliveryRow] /\ age \in [Orders -> 0..MaxAge]
      /\ deliveries[o].delay \in Nat
  BY ElapsedTypes DEF Types, RowTypes
<1>1. ASSUME SameDelivery(o), age'[o] = age[o], deliveries'[o].delay >= deliveries[o].delay,
             UNCHANGED locationTopic
      PROVE  InReports(o)'
  BY <1>1, SameReports DEF SameDelivery
<1>2. ASSUME UNCHANGED <<deliveries, age, locationTopic>> PROVE InReports(o)'
  BY <1>0, <1>1, <1>2 DEF SameDelivery
<1>3. ASSUME NEW p \in Orders, HandleOrderEvent(p) PROVE InReports(o)'
  <2>0. UNCHANGED locationTopic
    BY <1>3 DEF HandleOrderEvent
  <2>1. CASE Assign(p)
    <3>1. PICK c \in Available :
            deliveries' = [deliveries EXCEPT ![p] = [status |-> "assigned", courier |-> c, delay |-> 0]]
      BY <2>1 DEF Assign
    <3>2. age' = [age EXCEPT ![p] = 0]
      BY <2>1 DEF Assign
    <3>3. CASE o = p
      <4>1. deliveries'[o].status = "assigned" /\ Elapsed(o)' = 0
        BY <1>0, <3>1, <3>2, <3>3 DEF Elapsed
      <4> QED
        BY <4>1, Bounds DEF InReports, HasSaid
    <3>4. CASE o # p
      <4>1. deliveries'[o] = deliveries[o] /\ age'[o] = age[o]
        BY <1>0, <3>1, <3>2, <3>4
      <4> QED
        BY <1>0, <1>1, <2>0, <4>1 DEF SameDelivery
    <3> QED
      BY <3>3, <3>4
  <2>2. CASE CancelDelivery(p)
    <3>1. \/ deliveries' = deliveries
          \/ deliveries' = [deliveries EXCEPT ![p].status = "cancelled"]
      BY <2>2 DEF CancelDelivery
    <3>2. deliveries'[o] = deliveries[o]
      BY <1>0, <3>1 DEF DeliveryRow, Underway
    <3> QED
      BY <1>0, <1>1, <2>0, <2>2, <3>2 DEF SameDelivery, CancelDelivery
  <2>3. CASE SkipOrderEvent(p)
    BY <1>2, <2>0, <2>3 DEF SkipOrderEvent
  <2> QED
    BY <1>3, <2>1, <2>2, <2>3 DEF HandleOrderEvent
<1>4. ASSUME NEW p \in Orders, Delay(p) PROVE InReports(o)'
  <2>1. /\ deliveries'[o].status = deliveries[o].status /\ deliveries'[o].courier = deliveries[o].courier
        /\ deliveries'[o].delay >= deliveries[o].delay
    <3>1. CASE o # p
      BY <1>0, <1>4, <3>1 DEF Delay
    <3>2. CASE o = p
      <4>1. PICK d \in {MaxDelay, deliveries[o].delay + DelayStep} :
               deliveries' = [deliveries EXCEPT ![o].delay = d] /\ deliveries[o].delay < MaxDelay
        BY <1>0, <1>4, <3>2 DEF Delay
      <4>2. d >= deliveries[o].delay
        BY <1>0, <4>1, Bounds
      <4> QED
        BY <1>0, <4>1, <4>2 DEF DeliveryRow
    <3> QED
      BY <3>1, <3>2
  <2> QED
    BY <1>1, <1>4, <2>1 DEF Delay, SameDelivery
<1>5. ASSUME NEW p \in Orders, Complete(p) PROVE InReports(o)'
  <2>1. deliveries' = [deliveries EXCEPT ![p].status = "completed"]
    BY <1>5 DEF Complete
  <2>2. o # p
    <3>1. o = p => deliveries'[o].status = "completed"
      BY <1>0, <2>1 DEF DeliveryRow
    <3>2. "completed" \notin Underway
      BY DEF Underway
    <3> QED
      BY <3>1, <3>2
  <2>3. deliveries'[o] = deliveries[o]
    BY <1>0, <2>1, <2>2
  <2>4. age'[o] = age[o] /\ UNCHANGED locationTopic
    BY <1>5 DEF Complete
  <2>5. SameDelivery(o) /\ deliveries'[o].delay >= deliveries[o].delay
    BY <1>0, <2>3 DEF SameDelivery
  <2> QED
    BY <1>1, <2>4, <2>5
<1>6. ASSUME NEW p \in Orders,
             \/ Create(p) \/ Cancel(p) \/ NobodyAvailable(p) \/ OrderEventFails(p) \/ OrderEventDiscarded(p)
             \/ ReplayOrderEvents(p)
      PROVE  InReports(o)'
  BY <1>2, <1>6 DEF Create, Cancel, NobodyAvailable, OrderEventFails, OrderEventDiscarded, ReplayOrderEvents
<1>7. ASSUME NEW p \in Orders,
             \/ ConsumeDeliveryEvent(p) \/ DeliveryEventFails(p) \/ DeliveryEventDiscarded(p)
             \/ ReplayDeliveryEvents(p)
      PROVE  InReports(o)'
  BY <1>2, <1>7 DEF ConsumeDeliveryEvent, HandleDeliveryEvent, RefuseDeliveryEvent, DeliveryEventFails,
                    DeliveryEventDiscarded, ReplayDeliveryEvents
<1>8. ASSUME \/ \E c \in Couriers : TakenElsewhere(c) \/ BackFromElsewhere(c)
             \/ UNCHANGED vars
      PROVE  InReports(o)'
  BY <1>2, <1>8 DEF TakenElsewhere, BackFromElsewhere, vars
<1> QED
  BY <1>3, <1>4, <1>5, <1>6, <1>7, <1>8 DEF ConsumeOrderEvent

LEMMA NextKeepsReports ==
    ASSUME Types, Types', Manned, AllInReports, [Next]_vars
    PROVE  AllInReports'
<1> SUFFICES ASSUME lost' = 0, NEW o \in Orders, deliveries'[o].status \in Underway
             PROVE  InReports(o)'
  BY DEF AllInReports
<1>1. lost = 0
  BY CountsGrow DEF Types, CountTypes
<1>2. deliveries[o].status \in Underway => InReports(o)
  BY <1>1 DEF AllInReports
<1>3. CASE Tick
  <2>1. deliveries[o].status \in Underway
    BY <1>3 DEF Tick
  <2> QED
    BY <1>2, <1>3, <2>1, TickKeepsReports
<1>4. ASSUME NEW c \in Couriers, HandleReport(c) PROVE InReports(o)'
  <2>1. deliveries[o].status \in Underway
    <3>1. SameDelivery(o) \/ \E s \in Phases : validDeliveryTransition(deliveries[o].status, s)
      <4>1. PICK r \in Report : r = Head(locationTopic[c]) /\ r.delivery \in Orders /\ r.phase \in Phases
        BY <1>4, HeadReport DEF HandleReport
      <4>2. \/ deliveries' = deliveries
            \/ /\ validDeliveryTransition(deliveries[r.delivery].status, r.phase)
               /\ deliveries' = [deliveries EXCEPT ![r.delivery].status = r.phase]
        BY <1>4, <4>1 DEF HandleReport
      <4> QED
        BY <4>1, <4>2 DEF SameDelivery, Types, RowTypes
    <3> QED
      BY <3>1 DEF SameDelivery, validDeliveryTransition, Underway
  <2> QED
    BY <1>2, <1>4, <2>1, HandlingKeepsReports
<1>5. ASSUME NEW c \in Couriers, LoseReport(c) PROVE FALSE
  BY <1>1, <1>5 DEF LoseReport
<1> QED
  BY <1>2, <1>3, <1>4, <1>5, OrderStepsKeepReports DEF Next

-----------------------------------------------------------------------------
(* The theorems *)

LifecycleInv == Types /\ Manned /\ Agreement /\ AllInStep /\ AllInReports

LEMMA InductiveLifecycle == Spec => []LifecycleInv
<1>1. ASSUME Init PROVE LifecycleInv
  <2>1. AllInReports
    BY <1>1 DEF Init, AllInReports, NoDeliveryRow, Underway
  <2> QED
    BY <1>1, <2>1, InitTypes, InitAgreement, InitInStep DEF LifecycleInv
<1>2. ASSUME LifecycleInv, [Next]_vars PROVE LifecycleInv'
  <2>1. Types' /\ Manned'
    BY <1>2, NextKeepsTypes, NextKeepsManned DEF LifecycleInv
  <2>2. Agreement' /\ AllInStep'
    BY <1>2, NextKeepsAgreement, NextKeepsInStep DEF LifecycleInv
  <2>3. AllInReports'
    BY <1>2, <2>1, NextKeepsReports DEF LifecycleInv
  <2> QED
    BY <2>1, <2>2, <2>3 DEF LifecycleInv
<1> QED
  BY <1>1, <1>2, PTL DEF Spec

(* The rows, queues and marks of both services keep their types, and no     *)
(* courier ever carries two deliveries (consumer.go assign, under the lock  *)
(* on the courier's row), so that a tick of the simulator reports one.      *)
THEOREM LifecycleTypeCorrect == Spec => []TypeOK
<1>1. LifecycleInv => TypeOK
  BY TypesGiveTypeOK DEF LifecycleInv
<1> QED
  BY <1>1, InductiveLifecycle, PTL

(* When each service handled what the other announced, whatever was         *)
(* delayed, dead-lettered, replayed, cancelled or completed by an operator  *)
(* on the way, an order that is not cancelled is where its delivery is      *)
(* (consumer.go handle and statusFor).                                      *)
THEOREM ServicesAgree == Spec => []AgreeWhenSettled
<1>1. LifecycleInv => AgreeWhenSettled
  BY AgreementSettles DEF LifecycleInv
<1> QED
  BY <1>1, InductiveLifecycle, PTL

(* order-service consumer.go's transitions refuse no delivery event as long *)
(* as no handler failed for a cause of its own and no poll threw one away.  *)
THEOREM RefusalsNeedFailures == Spec => []RefusedOnlyAfterFailure
<1>1. LifecycleInv => RefusedOnlyAfterFailure
  <2> SUFFICES ASSUME LifecycleInv, NEW o \in Orders, deliveryDead[o] # << >> PROVE failures > 0
    BY DEF RefusedOnlyAfterFailure
  <2>1. failures # 0
    BY DEF LifecycleInv, AllInStep, InStep
  <2> QED
    BY <2>1 DEF LifecycleInv, Types, CountTypes
<1> QED
  BY <1>1, InductiveLifecycle, PTL

(* The simulator's phases (simulatedLocation) leave a delivery behind in    *)
(* delivery-service's table of transitions only when a report was lost.     *)
THEOREM StrandingNeedsLoss == Spec => []StrandedOnlyByLoss
<1>1. LifecycleInv => StrandedOnlyByLoss
  <2> SUFFICES ASSUME LifecycleInv, NEW o \in Orders, Stranded(o) PROVE lost > 0
    BY DEF StrandedOnlyByLoss
  <2>1. deliveries[o].status \in Underway
    BY DEF Stranded, Underway
  <2>2. PICK c \in Couriers : c = deliveries[o].courier
    BY <2>1 DEF LifecycleInv, Manned, Underway
  <2>3. PICK q \in Seq(Report) : q = locationTopic[c]
    BY DEF LifecycleInv, Types, QueueTypes
  <2>4. DOMAIN q = 1..Len(q)
    BY <2>3
  <2>5. ASSUME lost = 0 PROVE FALSE
    <3>1. HasSaid(q, o, deliveries[o].status, Elapsed(o))
      BY <2>1, <2>2, <2>3, <2>5 DEF LifecycleInv, AllInReports, InReports
    <3>2. \A i \in 1..Len(q), p \in Phases : Says(q, i, o, p) => Coming(o, p)
      BY <2>2, <2>3, <2>4 DEF Says, Coming
    <3> QED
      BY <3>1, <3>2 DEF Stranded, HasSaid, Phases
  <2> QED
    BY <2>5 DEF LifecycleInv, Types, CountTypes
<1> QED
  BY <1>1, InductiveLifecycle, PTL
=============================================================================
