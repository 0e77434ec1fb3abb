--------------------------- MODULE DeliveryProofs ---------------------------
(***************************************************************************)
(* Proofs about Delivery, for any fleet, any orders and any bounds: its    *)
(* types, the exclusivity of a courier's assignment, the finality of an    *)
(* ended delivery and the announcements of its stages; and about           *)
(* EtaPrediction, for any number of workers: the prediction worker only    *)
(* adds to what delivery-service does, what it writes about a completed    *)
(* delivery is final, and it leaves few predictions unevaluated.           *)
(***************************************************************************)
EXTENDS EtaPrediction, FiniteSetTheorems, SequenceTheorems, TLAPS

-----------------------------------------------------------------------------
(* Type correctness *)

(* Delivery: the initial tables, events and counters have their types. *)
LEMMA InitTypeOK == Init => TypeOK
BY DeliveryAssumption DEF Init, TypeOK, NoDeliveryRow

(* EndDelivery: the end of a delivery, however it comes about, keeps the    *)
(* types of the rows it writes.                                             *)
LEMMA EndDeliveryTypes ==
    ASSUME TypeOK, NEW o \in Orders, deliveries[o].status \in Underway,
           NEW status \in Terminal, NEW event \in DeliveryEvent,
           EndDelivery(o, status, event)
    PROVE  /\ couriers' \in [Couriers -> {"available", "assigned"}]
           /\ deliveries' \in [Orders -> [status : {"none"} \cup Underway \cup Terminal,
                                          courier : Couriers \cup {NoCourier},
                                          delay : Nat]]
           /\ outbox' \in [Orders -> Seq(DeliveryEvent)]
           /\ delays' \in [Orders -> Nat]
<1>1. couriers' \in [Couriers -> {"available", "assigned"}]
  BY DEF TypeOK, EndDelivery
<1>2. deliveries' \in [Orders -> [status : {"none"} \cup Underway \cup Terminal,
                                  courier : Couriers \cup {NoCourier},
                                  delay : Nat]]
  <2>1. deliveries[o] \in [status : {"none"} \cup Underway \cup Terminal,
                           courier : Couriers \cup {NoCourier}, delay : Nat]
    BY DEF TypeOK
  <2>2. [deliveries[o] EXCEPT !.status = status] \in
           [status : {"none"} \cup Underway \cup Terminal,
            courier : Couriers \cup {NoCourier}, delay : Nat]
    BY <2>1
  <2> QED
    BY <2>2 DEF TypeOK, EndDelivery
<1>3. outbox' \in [Orders -> Seq(DeliveryEvent)]
  <2>1. Append(outbox[o], event) \in Seq(DeliveryEvent)
    BY DEF TypeOK
  <2> QED
    BY <2>1 DEF TypeOK, EndDelivery
<1>4. delays' \in [Orders -> Nat]
  BY DEF TypeOK, EndDelivery
<1> QED
  BY <1>1, <1>2, <1>3, <1>4

(* Report: the simulator publishes well-typed location events. *)
LEMMA ReportTypes ==
    ASSUME TypeOK, NEW c \in Couriers, NEW o \in Orders \cup {NoDelivery},
           NEW phase \in Phases, Report(c, o, phase)
    PROVE  TypeOK'
BY DEF TypeOK, Report, publish, dispatchVars, inboxVars

(* Every step of delivery-service and of the simulator keeps the types. *)
LEMMA NextTypeOK == TypeOK /\ [Next]_vars => TypeOK'
<1> SUFFICES ASSUME TypeOK, [Next]_vars PROVE TypeOK'
  OBVIOUS
<1> USE DeliveryAssumption
<1>1. ASSUME NEW o \in Orders, PublishCreated(o) PROVE TypeOK'
  <2>1. published' \subseteq {"order.created", "order.cancelled"} \X Orders
    BY <1>1 DEF PublishCreated, TypeOK
  <2> QED
    BY <1>1, <2>1 DEF PublishCreated, TypeOK, dispatchVars, inboxVars
<1>2. ASSUME NEW o \in Orders, PublishCancelled(o) PROVE TypeOK'
  <2>1. published' \subseteq {"order.created", "order.cancelled"} \X Orders
    BY <1>2 DEF PublishCancelled, TypeOK
  <2> QED
    BY <1>2, <2>1 DEF PublishCancelled, TypeOK, dispatchVars, inboxVars
<1>3. ASSUME NEW o \in Orders, NEW c \in Couriers, Assign(o, c) PROVE TypeOK'
  <2>1. deliveries' \in [Orders -> [status : {"none"} \cup Underway \cup Terminal,
                                    courier : Couriers \cup {NoCourier}, delay : Nat]]
    <3>1. [status |-> "assigned", courier |-> c, delay |-> 0] \in
             [status : {"none"} \cup Underway \cup Terminal,
              courier : Couriers \cup {NoCourier}, delay : Nat]
      BY DEF Underway
    <3> QED
      BY <1>3, <3>1 DEF Assign, TypeOK
  <2>2. outbox' \in [Orders -> Seq(DeliveryEvent)]
    <3>1. Append(outbox[o], "delivery.assigned") \in Seq(DeliveryEvent)
      BY DEF TypeOK, DeliveryEvent
    <3> QED
      BY <1>3, <3>1 DEF Assign, TypeOK
  <2>3. /\ couriers' \in [Couriers -> {"available", "assigned"}]
        /\ age' \in [Orders -> Nat]
        /\ inbox' \subseteq {"order.created", "order.cancelled"} \X Orders
    BY <1>3 DEF Assign, FirstTime, TypeOK
  <2> QED
    BY <1>3, <2>1, <2>2, <2>3 DEF Assign, TypeOK, kafkaVars
<1>4. ASSUME NEW o \in Orders, CancelNothing(o) \/ CancelFindsNone(o) \/ CancelTooEarly(o)
      PROVE TypeOK'
  <2>1. CASE CancelNothing(o)
    BY <2>1 DEF CancelNothing, FirstTime, TypeOK, dispatchVars, kafkaVars
  <2>2. CASE CancelFindsNone(o)
    BY <2>2 DEF CancelFindsNone, TypeOK, dispatchVars, kafkaVars
  <2>3. CASE CancelTooEarly(o)
    <3>1. /\ inbox' \subseteq {"order.created", "order.cancelled"} \X Orders
          /\ missed' \subseteq Orders
      BY <2>3 DEF CancelTooEarly, TypeOK
    <3> QED
      BY <2>3, <3>1 DEF CancelTooEarly, TypeOK, dispatchVars, kafkaVars
  <2> QED
    BY <1>4, <2>1, <2>2, <2>3
<1>5. ASSUME NEW o \in Orders, CancelUnderway(o) PROVE TypeOK'
  <2>1. EndDelivery(o, "cancelled", "delivery.cancelled") /\ deliveries[o].status \in Underway
    BY <1>5 DEF CancelUnderway
  <2>2. "cancelled" \in Terminal /\ "delivery.cancelled" \in DeliveryEvent
    BY DEF Terminal, DeliveryEvent
  <2>3. /\ couriers' \in [Couriers -> {"available", "assigned"}]
        /\ deliveries' \in [Orders -> [status : {"none"} \cup Underway \cup Terminal,
                                       courier : Couriers \cup {NoCourier},
                                       delay : Nat]]
        /\ outbox' \in [Orders -> Seq(DeliveryEvent)]
        /\ delays' \in [Orders -> Nat]
    BY <2>1, <2>2, EndDeliveryTypes
  <2> QED
    BY <1>5, <2>3 DEF CancelUnderway, FirstTime, TypeOK, kafkaVars
<1>6. ASSUME NEW o \in Orders, Delay(o) PROVE TypeOK'
  <2>1. deliveries[o] \in [status : {"none"} \cup Underway \cup Terminal,
                           courier : Couriers \cup {NoCourier}, delay : Nat]
    BY DEF TypeOK
  <2>2. PICK d \in Nat : deliveries' = [deliveries EXCEPT ![o].delay = d]
    <3>1. deliveries[o].delay + DelayStep \in Nat /\ MaxDelay \in Nat
      BY <2>1
    <3>2. CASE deliveries[o].delay + DelayStep > MaxDelay
      BY <1>6, <3>1, <3>2 DEF Delay
    <3>3. CASE ~(deliveries[o].delay + DelayStep > MaxDelay)
      BY <1>6, <3>1, <3>3 DEF Delay
    <3> QED
      BY <3>2, <3>3
  <2>3. [deliveries[o] EXCEPT !.delay = d] \in
           [status : {"none"} \cup Underway \cup Terminal,
            courier : Couriers \cup {NoCourier}, delay : Nat]
    BY <2>1, <2>2
  <2>4. deliveries' \in [Orders -> [status : {"none"} \cup Underway \cup Terminal,
                                    courier : Couriers \cup {NoCourier}, delay : Nat]]
    BY <2>2, <2>3 DEF TypeOK
  <2> QED
    <3>1. /\ delays' = [delays EXCEPT ![o] = @ + 1]
          /\ UNCHANGED <<couriers, outbox, lastSeq, geo, inboxVars, kafkaVars, age>>
      BY <1>6 DEF Delay
    <3>2. delays' \in [Orders -> Nat]
      <4>1. delays \in [Orders -> Nat]
        BY DEF TypeOK
      <4> QED
        BY <3>1, <4>1
    <3> QED
      BY <2>4, <3>1, <3>2 DEF TypeOK, inboxVars, kafkaVars
<1>7. ASSUME NEW o \in Orders, Complete(o) PROVE TypeOK'
  <2>1. EndDelivery(o, "completed", "delivery.completed") /\ deliveries[o].status \in Underway
    BY <1>7 DEF Complete
  <2>2. "completed" \in Terminal /\ "delivery.completed" \in DeliveryEvent
    BY DEF Terminal, DeliveryEvent
  <2>3. /\ couriers' \in [Couriers -> {"available", "assigned"}]
        /\ deliveries' \in [Orders -> [status : {"none"} \cup Underway \cup Terminal,
                                       courier : Couriers \cup {NoCourier},
                                       delay : Nat]]
        /\ outbox' \in [Orders -> Seq(DeliveryEvent)]
        /\ delays' \in [Orders -> Nat]
    BY <2>1, <2>2, EndDeliveryTypes
  <2> QED
    BY <1>7, <2>3 DEF Complete, TypeOK, inboxVars, kafkaVars
<1>8. ASSUME NEW c \in Couriers, ReportIdle(c) \/ ReportActive(c) PROVE TypeOK'
  BY <1>8, ReportTypes DEF ReportIdle, ReportActive, Assignments, PhaseOf, Phases
<1>9. ASSUME NEW e \in reports, ConsumeReport(e) PROVE TypeOK'
  <2>0. e \in [courier : Couriers, delivery : Orders \cup {NoDelivery}, seq : Nat, phase : Phases]
    BY DEF TypeOK
  <2>1. CASE IgnoreStaleReport(e)
    BY <2>0, <2>1 DEF IgnoreStaleReport, TypeOK, dispatchVars, kafkaVars
  <2>2. CASE ReportPosition(e)
    BY <2>0, <2>2 DEF ReportPosition, MoveCourier, TypeOK, dispatchVars, kafkaVars
  <2>3. CASE ReportProgress(e)
    <3>1. e.delivery \in Orders /\ e.phase \in {"assembling", "delivering"}
      BY <2>0, <2>3 DEF ReportProgress, validDeliveryTransition
    <3>2. /\ deliveries' = [deliveries EXCEPT ![e.delivery].status = e.phase]
          /\ outbox' = [outbox EXCEPT ![e.delivery] =
                          Append(@, IF e.phase = "assembling" THEN "delivery.assembling"
                                    ELSE "delivery.delivering")]
          /\ MoveCourier(e)
          /\ UNCHANGED <<couriers, delays, inbox, missed, kafkaVars, age>>
      BY <2>3 DEF ReportProgress
    <3>3. [deliveries[e.delivery] EXCEPT !.status = e.phase] \in
             [status : {"none"} \cup Underway \cup Terminal,
              courier : Couriers \cup {NoCourier}, delay : Nat]
      BY <3>1 DEF TypeOK, Underway
    <3>4. deliveries' \in [Orders -> [status : {"none"} \cup Underway \cup Terminal,
                                      courier : Couriers \cup {NoCourier}, delay : Nat]]
      BY <3>1, <3>2, <3>3 DEF TypeOK
    <3>5. outbox' \in [Orders -> Seq(DeliveryEvent)]
      BY <3>1, <3>2 DEF TypeOK, DeliveryEvent
    <3> QED
      BY <2>0, <3>2, <3>4, <3>5 DEF MoveCourier, TypeOK, kafkaVars
  <2>4. CASE ReportCompleted(e)
    <3>1. e.delivery \in Orders /\ deliveries[e.delivery].status \in Underway
      BY <2>0, <2>4 DEF ReportCompleted, validDeliveryTransition, Underway
    <3>2. "completed" \in Terminal /\ "delivery.completed" \in DeliveryEvent
      BY DEF Terminal, DeliveryEvent
    <3>3. /\ couriers' \in [Couriers -> {"available", "assigned"}]
          /\ deliveries' \in [Orders -> [status : {"none"} \cup Underway \cup Terminal,
                                         courier : Couriers \cup {NoCourier},
                                         delay : Nat]]
          /\ outbox' \in [Orders -> Seq(DeliveryEvent)]
          /\ delays' \in [Orders -> Nat]
      BY <2>4, <3>1, <3>2, EndDeliveryTypes DEF ReportCompleted
    <3> QED
      BY <2>0, <2>4, <3>3 DEF ReportCompleted, MoveCourier, TypeOK, kafkaVars
  <2> QED
    BY <1>9, <2>1, <2>2, <2>3, <2>4 DEF ConsumeReport
<1>10. CASE PassTime
  BY <1>10 DEF PassTime, TypeOK, dispatchVars, inboxVars, kafkaVars
<1>11. CASE UNCHANGED vars
  BY <1>11 DEF vars, TypeOK
<1> QED
  BY <1>1, <1>2, <1>3, <1>4, <1>5, <1>6, <1>7, <1>8, <1>9, <1>10, <1>11 DEF Next

(* Delivery keeps its types: no handler writes a status, courier or event   *)
(* outside the sets the schema and the consumers know.                      *)
THEOREM TypeCorrect == Spec => []TypeOK
<1>1. Init => TypeOK
  BY InitTypeOK
<1>2. TypeOK /\ [Next]_vars => TypeOK'
  BY NextTypeOK
<1> QED
  BY <1>1, <1>2, PTL DEF Spec

-----------------------------------------------------------------------------
(* Exclusivity of an assignment *)

(* A delivery under way has a courier of the fleet. *)
UnderwayHasCourier ==
    \A o \in Orders : deliveries[o].status \in Underway => deliveries[o].courier \in Couriers

(* CourierExclusive is not inductive alone: Assign looks at couriers.status, *)
(* so the status must be known to agree with the deliveries.                *)
FleetInv ==
    /\ TypeOK
    /\ UnderwayHasCourier
    /\ CourierStatusTruthful
    /\ CourierExclusive

(* A step that changes neither who carries what nor a courier's status, such *)
(* as a report that moves a delivery on, an operator's delay or an ignored   *)
(* cancellation, keeps the fleet consistent.                                 *)
LEMMA SameCarriersKeepFleet ==
    ASSUME FleetInv, TypeOK', couriers' = couriers,
           \A o \in Orders :
              /\ deliveries'[o].courier = deliveries[o].courier
              /\ deliveries'[o].status \in Underway <=> deliveries[o].status \in Underway
    PROVE  FleetInv'
BY DEF FleetInv, UnderwayHasCourier, CourierStatusTruthful, CourierExclusive, Carries

(* EndDelivery, by cancellation, report or operator: the courier was on no   *)
(* other delivery, so freeing it is right.                                   *)
LEMMA EndDeliveryKeepsFleet ==
    ASSUME FleetInv, TypeOK', NEW o \in Orders, deliveries[o].status \in Underway,
           NEW status \in Terminal, NEW event, EndDelivery(o, status, event)
    PROVE  FleetInv'
<1> DEFINE c == deliveries[o].courier
<1>1. c \in Couriers /\ Carries(c, o)
  BY DEF FleetInv, UnderwayHasCourier, Carries
<1>2. status \notin Underway
  BY DEF Terminal, Underway
<1>3. \A p \in Orders : deliveries'[p].courier = deliveries[p].courier
  BY DEF EndDelivery, FleetInv, TypeOK
<1>4. \A p \in Orders : deliveries'[p].status \in Underway <=>
                           p # o /\ deliveries[p].status \in Underway
  BY <1>2 DEF EndDelivery, FleetInv, TypeOK
<1>5. \A d \in Couriers : couriers'[d] = IF d = c THEN "available" ELSE couriers[d]
  BY <1>1 DEF EndDelivery, FleetInv, TypeOK
<1>6. \A d \in Couriers, p \in Orders : Carries(d, p)' <=> p # o /\ Carries(d, p)
  BY <1>3, <1>4 DEF Carries
<1>7. UnderwayHasCourier'
  BY <1>3, <1>4 DEF FleetInv, UnderwayHasCourier
<1>8. CourierExclusive'
  BY <1>6 DEF FleetInv, CourierExclusive
<1>9. CourierStatusTruthful'
  <2> SUFFICES ASSUME NEW d \in Couriers
               PROVE  couriers'[d] = "assigned" <=> \E p \in Orders : Carries(d, p)'
    BY DEF CourierStatusTruthful
  <2>1. CASE d = c
    <3>1. \A p \in Orders : Carries(c, p) => p = o
      BY <1>1 DEF FleetInv, CourierExclusive
    <3> QED
      BY <1>5, <1>6, <2>1, <3>1
  <2>2. CASE d # c
    <3>1. \A p \in Orders : Carries(d, p)' <=> Carries(d, p)
      BY <1>6, <2>2 DEF Carries
    <3> QED
      BY <1>5, <2>2, <3>1 DEF FleetInv, CourierStatusTruthful
  <2> QED
    BY <2>1, <2>2
<1> QED
  BY <1>7, <1>8, <1>9 DEF FleetInv

(* Assign: a courier that is available carries nothing yet. *)
LEMMA AssignKeepsFleet ==
    ASSUME FleetInv, TypeOK', NEW o \in Orders, NEW c \in Couriers, Assign(o, c)
    PROVE  FleetInv'
<1>1. \A p \in Orders : ~Carries(c, p)
  BY DEF Assign, FleetInv, CourierStatusTruthful
<1>2. /\ deliveries'[o].status \in Underway /\ deliveries'[o].courier = c
      /\ deliveries[o].status \notin Underway
      /\ \A p \in Orders \ {o} : deliveries'[p] = deliveries[p]
  BY DEF Assign, FleetInv, TypeOK, Underway
<1>3. \A d \in Couriers : couriers'[d] = IF d = c THEN "assigned" ELSE couriers[d]
  BY DEF Assign, FleetInv, TypeOK
<1>4. \A d \in Couriers, p \in Orders :
        Carries(d, p)' <=> IF p = o THEN d = c ELSE Carries(d, p)
  BY <1>2 DEF Carries
<1>5. \A d \in Couriers : ~Carries(d, o)
  BY <1>2 DEF Carries
<1>6. UnderwayHasCourier'
  BY <1>2 DEF FleetInv, UnderwayHasCourier
<1>7. CourierExclusive'
  BY <1>1, <1>4 DEF FleetInv, CourierExclusive
<1>8. CourierStatusTruthful'
  BY <1>3, <1>4, <1>5 DEF FleetInv, CourierStatusTruthful
<1> QED
  BY <1>6, <1>7, <1>8 DEF FleetInv

(* Every step of delivery-service keeps the fleet consistent. *)
LEMMA NextFleetInv == FleetInv /\ [Next]_vars => FleetInv'
<1> SUFFICES ASSUME FleetInv, [Next]_vars PROVE FleetInv'
  OBVIOUS
<1>0. TypeOK /\ TypeOK'
  BY NextTypeOK DEF FleetInv
<1>1. ASSUME NEW o \in Orders, NEW c \in Couriers, Assign(o, c) PROVE FleetInv'
  BY <1>0, <1>1, AssignKeepsFleet
<1>2. ASSUME NEW o \in Orders, CancelUnderway(o) PROVE FleetInv'
  BY <1>0, <1>2, EndDeliveryKeepsFleet DEF CancelUnderway, Terminal
<1>3. ASSUME NEW o \in Orders, Complete(o) PROVE FleetInv'
  BY <1>0, <1>3, EndDeliveryKeepsFleet DEF Complete, Terminal
<1>4. ASSUME NEW o \in Orders, Delay(o) PROVE FleetInv'
  <2>1. couriers' = couriers
    BY <1>4 DEF Delay
  <2>2. \A p \in Orders : /\ deliveries'[p].courier = deliveries[p].courier
                           /\ deliveries'[p].status = deliveries[p].status
    BY <1>0, <1>4 DEF Delay, TypeOK
  <2> QED
    BY <1>0, <2>1, <2>2, SameCarriersKeepFleet
<1>5. ASSUME NEW e \in reports, ReportProgress(e) PROVE FleetInv'
  <2>1. e.delivery \in Orders
    BY <1>0, <1>5 DEF ReportProgress, TypeOK
  <2>2. couriers' = couriers /\ deliveries' = [deliveries EXCEPT ![e.delivery].status = e.phase]
    BY <1>5 DEF ReportProgress
  <2>3. e.phase \in Underway /\ deliveries[e.delivery].status \in Underway
    BY <1>5 DEF ReportProgress, validDeliveryTransition, Underway
  <2>4. \A p \in Orders :
          /\ deliveries'[p].courier = deliveries[p].courier
          /\ deliveries'[p].status \in Underway <=> deliveries[p].status \in Underway
    BY <1>0, <2>1, <2>2, <2>3 DEF TypeOK
  <2> QED
    BY <1>0, <2>2, <2>4, SameCarriersKeepFleet
<1>6. ASSUME NEW e \in reports, ReportCompleted(e) PROVE FleetInv'
  <2>1. e.delivery \in Orders /\ deliveries[e.delivery].status \in Underway
    BY <1>0, <1>6 DEF ReportCompleted, validDeliveryTransition, TypeOK, Underway
  <2>2. EndDelivery(e.delivery, "completed", "delivery.completed") /\ "completed" \in Terminal
    BY <1>6 DEF ReportCompleted, Terminal
  <2> QED
    BY <1>0, <2>1, <2>2, EndDeliveryKeepsFleet
<1>7. ASSUME UNCHANGED <<couriers, deliveries>> PROVE FleetInv'
  BY <1>0, <1>7, SameCarriersKeepFleet
<1>8. ASSUME NEW o \in Orders,
             \/ PublishCreated(o) \/ PublishCancelled(o)
             \/ CancelNothing(o) \/ CancelFindsNone(o) \/ CancelTooEarly(o)
      PROVE FleetInv'
  BY <1>7, <1>8 DEF PublishCreated, PublishCancelled, CancelNothing, CancelFindsNone,
                    CancelTooEarly, dispatchVars
<1>9. ASSUME NEW c \in Couriers, ReportIdle(c) \/ ReportActive(c) PROVE FleetInv'
  BY <1>7, <1>9 DEF ReportIdle, ReportActive, Report, Assignments, publish, dispatchVars
<1>10. ASSUME NEW e \in reports, IgnoreStaleReport(e) \/ ReportPosition(e) PROVE FleetInv'
  BY <1>7, <1>10 DEF IgnoreStaleReport, ReportPosition, dispatchVars
<1>11. ASSUME PassTime \/ UNCHANGED vars PROVE FleetInv'
  BY <1>7, <1>11 DEF PassTime, vars, dispatchVars
<1> QED
  BY <1>1, <1>2, <1>3, <1>4, <1>5, <1>6, <1>8, <1>9, <1>10, <1>11 DEF Next, ConsumeReport

(* The fleet is consistent from the start: everybody is available. *)
LEMMA InitFleetInv == Init => FleetInv
<1> SUFFICES ASSUME Init PROVE FleetInv
  OBVIOUS
<1>1. TypeOK
  BY InitTypeOK
<1>2. \A o \in Orders : deliveries[o].status \notin Underway
  BY DEF Init, NoDeliveryRow, Underway
<1>3. \A c \in Couriers : couriers[c] # "assigned"
  BY DEF Init
<1> QED
  BY <1>1, <1>2, <1>3 DEF FleetInv, UnderwayHasCourier, CourierStatusTruthful, CourierExclusive, Carries

(* The inductive invariant holds in every behaviour of Delivery. *)
LEMMA FleetInvariant == Spec => []FleetInv
<1>1. Init => FleetInv
  BY InitFleetInv
<1>2. FleetInv /\ [Next]_vars => FleetInv'
  BY NextFleetInv
<1> QED
  BY <1>1, <1>2, PTL DEF Spec

(* assign, under any interleaving with cancel, updateLocation and the        *)
(* operator, and whatever Redis GEO proposes: PostgreSQL never lets two      *)
(* deliveries under way have the same courier.                               *)
THEOREM Exclusivity == Spec => []CourierExclusive
<1>1. FleetInv => CourierExclusive
  BY DEF FleetInv
<1> QED
  BY <1>1, FleetInvariant, PTL

(* cancel, applyPhase and complete return a courier to the fleet exactly     *)
(* when its delivery ends: couriers.status always says what the deliveries   *)
(* say.                                                                      *)
THEOREM StatusTruthful == Spec => []CourierStatusTruthful
<1>1. FleetInv => CourierStatusTruthful
  BY DEF FleetInv
<1> QED
  BY <1>1, FleetInvariant, PTL

-----------------------------------------------------------------------------
(* Finality *)

(* What FinishedStaysFinished says of one step. *)
RespectsFinished ==
    \A o \in Orders :
        /\ deliveries[o].status \in Terminal => deliveries'[o] = deliveries[o]
        /\ deliveries[o].status # "none" => deliveries'[o].courier = deliveries[o].courier

(* A step that rewrites the status or the delay of one delivery under way    *)
(* respects the finished ones.                                               *)
LEMMA UnderwayOnlyRespectsFinished ==
    ASSUME TypeOK, NEW o \in Orders, deliveries[o].status \in Underway,
           \A p \in Orders \ {o} : deliveries'[p] = deliveries[p],
           deliveries'[o].courier = deliveries[o].courier
    PROVE  RespectsFinished
BY DEF RespectsFinished, Underway, Terminal

(* Every step of delivery-service respects finished deliveries. *)
LEMMA NextRespectsFinished == TypeOK /\ [Next]_vars => RespectsFinished
<1> SUFFICES ASSUME TypeOK, [Next]_vars PROVE RespectsFinished
  OBVIOUS
<1>1. ASSUME NEW o \in Orders, NEW c \in Couriers, Assign(o, c) PROVE RespectsFinished
  BY <1>1 DEF Assign, RespectsFinished, TypeOK, Terminal
<1>2. ASSUME NEW o \in Orders, NEW status, NEW event,
             deliveries[o].status \in Underway, EndDelivery(o, status, event)
      PROVE  RespectsFinished
  <2>1. /\ \A p \in Orders \ {o} : deliveries'[p] = deliveries[p]
        /\ deliveries'[o].courier = deliveries[o].courier
    BY <1>2 DEF EndDelivery, TypeOK
  <2> QED
    BY <1>2, <2>1, UnderwayOnlyRespectsFinished
<1>3. ASSUME NEW o \in Orders, CancelUnderway(o) \/ Complete(o) PROVE RespectsFinished
  BY <1>2, <1>3 DEF CancelUnderway, Complete
<1>4. ASSUME NEW o \in Orders, Delay(o) PROVE RespectsFinished
  <2>1. /\ \A p \in Orders \ {o} : deliveries'[p] = deliveries[p]
        /\ deliveries'[o].courier = deliveries[o].courier
        /\ deliveries[o].status \in Underway
    BY <1>4 DEF Delay, TypeOK
  <2> QED
    BY <2>1, UnderwayOnlyRespectsFinished
<1>5. ASSUME NEW e \in reports, ReportProgress(e) PROVE RespectsFinished
  <2>1. e.delivery \in Orders /\ deliveries[e.delivery].status \in Underway
    BY <1>5 DEF ReportProgress, validDeliveryTransition, TypeOK, Underway
  <2>2. deliveries' = [deliveries EXCEPT ![e.delivery].status = e.phase]
    BY <1>5 DEF ReportProgress
  <2>3. /\ \A p \in Orders \ {e.delivery} : deliveries'[p] = deliveries[p]
        /\ deliveries'[e.delivery].courier = deliveries[e.delivery].courier
    BY <2>1, <2>2 DEF TypeOK
  <2> QED
    BY <2>1, <2>3, UnderwayOnlyRespectsFinished
<1>6. ASSUME NEW e \in reports, ReportCompleted(e) PROVE RespectsFinished
  <2>1. e.delivery \in Orders /\ deliveries[e.delivery].status \in Underway
    BY <1>6 DEF ReportCompleted, validDeliveryTransition, TypeOK, Underway
  <2> QED
    BY <1>2, <1>6, <2>1 DEF ReportCompleted
<1>7. ASSUME UNCHANGED deliveries PROVE RespectsFinished
  BY <1>7 DEF RespectsFinished
<1>8. ASSUME NEW o \in Orders,
             \/ PublishCreated(o) \/ PublishCancelled(o)
             \/ CancelNothing(o) \/ CancelFindsNone(o) \/ CancelTooEarly(o)
      PROVE RespectsFinished
  BY <1>7, <1>8 DEF PublishCreated, PublishCancelled, CancelNothing, CancelFindsNone,
                    CancelTooEarly, dispatchVars
<1>9. ASSUME NEW c \in Couriers, ReportIdle(c) \/ ReportActive(c) PROVE RespectsFinished
  BY <1>7, <1>9 DEF ReportIdle, ReportActive, Report, Assignments, publish, dispatchVars
<1>10. ASSUME NEW e \in reports, IgnoreStaleReport(e) \/ ReportPosition(e) PROVE RespectsFinished
  BY <1>7, <1>10 DEF IgnoreStaleReport, ReportPosition, dispatchVars
<1>11. ASSUME PassTime \/ UNCHANGED vars PROVE RespectsFinished
  BY <1>7, <1>11 DEF PassTime, vars, dispatchVars
<1> QED
  BY <1>1, <1>3, <1>4, <1>5, <1>6, <1>8, <1>9, <1>10, <1>11 DEF Next, ConsumeReport

(* cancel, updateLocation, delay and complete: late, repeated and racing     *)
(* events never touch a delivery that is over, nor move one to another       *)
(* courier.                                                                  *)
THEOREM Finality == Spec => FinishedStaysFinished
<1>1. TypeOK /\ [Next]_vars => [RespectsFinished]_vars
  BY NextRespectsFinished
<1>2. RespectsFinished <=>
        \A o \in Orders :
            /\ deliveries[o].status \in Terminal => deliveries'[o] = deliveries[o]
            /\ deliveries[o].status # "none" => deliveries'[o].courier = deliveries[o].courier
  BY DEF RespectsFinished
<1> QED
  BY <1>1, <1>2, TypeCorrect, PTL DEF Spec, FinishedStaysFinished
-----------------------------------------------------------------------------
(* One announcement per step of a delivery *)

(* What one step may make of the status and the announcements of a delivery. *)
MoveTo(from, to, ev, next) ==
    \/ to = from /\ next = ev
    \/ from = "none" /\ to = "assigned" /\ next = Append(ev, "delivery.assigned")
    \/ from = "assigned" /\ to = "assembling" /\ next = Append(ev, "delivery.assembling")
    \/ from = "assembling" /\ to = "delivering" /\ next = Append(ev, "delivery.delivering")
    \/ from \in Underway /\ to = "completed" /\ next = Append(ev, "delivery.completed")
    \/ from \in Underway /\ to = "cancelled" /\ next = Append(ev, "delivery.cancelled")

Moves(o) == MoveTo(deliveries[o].status, deliveries'[o].status, outbox[o], outbox'[o])

(* How far a delivery under way has got, and what was announced on the way. *)
StageNo(status) ==
    IF status = "assigned" THEN 1 ELSE IF status = "assembling" THEN 2 ELSE 3

Stage(n) ==
    IF n = 1 THEN "delivery.assigned"
    ELSE IF n = 2 THEN "delivery.assembling" ELSE "delivery.delivering"

(* ev tells the first n stages in order. *)
TellsStages(ev, n) == \A i \in 1..n : ev[i] = Stage(i)

TellsEnd(ev, event) ==
    Len(ev) \in 2..4 /\ TellsStages(ev, Len(ev) - 1) /\ ev[Len(ev)] = event

(* AnnouncedOnce of one delivery, element by element. *)
InStep(status, ev) ==
    /\ status = "none" => ev = << >>
    /\ status \in Underway => Len(ev) = StageNo(status) /\ TellsStages(ev, StageNo(status))
    /\ status = "completed" => TellsEnd(ev, "delivery.completed")
    /\ status = "cancelled" => TellsEnd(ev, "delivery.cancelled")

Announced(o) == InStep(deliveries[o].status, outbox[o])

(* EndDelivery writes the end of one delivery under way and announces it. *)
LEMMA EndDeliveryMoves ==
    ASSUME TypeOK, NEW o \in Orders, deliveries[o].status \in Underway,
           NEW status, NEW event, EndDelivery(o, status, event),
           \/ status = "completed" /\ event = "delivery.completed"
           \/ status = "cancelled" /\ event = "delivery.cancelled"
    PROVE  \A p \in Orders : Moves(p)
BY DEF TypeOK, EndDelivery, Moves, MoveTo

(* Whatever happens in delivery-service, each delivery makes one of its moves. *)
LEMMA NextMoves == TypeOK /\ [Next]_vars => \A p \in Orders : Moves(p)
<1> SUFFICES ASSUME TypeOK, [Next]_vars PROVE \A p \in Orders : Moves(p)
  OBVIOUS
<1>1. ASSUME NEW o \in Orders, NEW c \in Couriers, Assign(o, c) PROVE \A p \in Orders : Moves(p)
  BY <1>1 DEF Assign, TypeOK, Moves, MoveTo
<1>2. ASSUME NEW o \in Orders, CancelUnderway(o) \/ Complete(o) PROVE \A p \in Orders : Moves(p)
  BY <1>2, EndDeliveryMoves DEF CancelUnderway, Complete
<1>3. ASSUME NEW o \in Orders, Delay(o) PROVE \A p \in Orders : Moves(p)
  <2>1. outbox' = outbox /\ \A p \in Orders : deliveries'[p].status = deliveries[p].status
    BY <1>3 DEF Delay, TypeOK
  <2> QED
    BY <2>1 DEF Moves, MoveTo
<1>4. ASSUME NEW e \in reports, ReportProgress(e) PROVE \A p \in Orders : Moves(p)
  <2> DEFINE o == e.delivery
  <2>1. /\ o \in Orders
        /\ \/ deliveries[o].status = "assigned" /\ e.phase = "assembling"
           \/ deliveries[o].status = "assembling" /\ e.phase = "delivering"
        /\ deliveries' = [deliveries EXCEPT ![o].status = e.phase]
        /\ outbox' = [outbox EXCEPT ![o] = Append(@, IF e.phase = "assembling"
                                    THEN "delivery.assembling" ELSE "delivery.delivering")]
    BY <1>4 DEF ReportProgress, validDeliveryTransition, TypeOK
  <2> QED
    BY <2>1 DEF TypeOK, Moves, MoveTo
<1>5. ASSUME NEW e \in reports, ReportCompleted(e) PROVE \A p \in Orders : Moves(p)
  <2>1. e.delivery \in Orders /\ deliveries[e.delivery].status \in Underway
    BY <1>5 DEF ReportCompleted, validDeliveryTransition, TypeOK, Underway
  <2> QED
    BY <1>5, <2>1, EndDeliveryMoves DEF ReportCompleted
<1>6. ASSUME UNCHANGED <<deliveries, outbox>> PROVE \A p \in Orders : Moves(p)
  BY <1>6 DEF Moves, MoveTo
<1>7. ASSUME NEW o \in Orders,
             \/ PublishCreated(o) \/ PublishCancelled(o)
             \/ CancelNothing(o) \/ CancelFindsNone(o) \/ CancelTooEarly(o)
      PROVE \A p \in Orders : Moves(p)
  BY <1>6, <1>7 DEF PublishCreated, PublishCancelled, CancelNothing, CancelFindsNone,
                    CancelTooEarly, dispatchVars
<1>8. ASSUME NEW c \in Couriers, ReportIdle(c) \/ ReportActive(c) PROVE \A p \in Orders : Moves(p)
  BY <1>6, <1>8 DEF ReportIdle, ReportActive, Report, Assignments, publish, dispatchVars
<1>9. ASSUME NEW e \in reports, IgnoreStaleReport(e) \/ ReportPosition(e) PROVE \A p \in Orders : Moves(p)
  BY <1>6, <1>9 DEF IgnoreStaleReport, ReportPosition, dispatchVars
<1>10. ASSUME PassTime \/ UNCHANGED vars PROVE \A p \in Orders : Moves(p)
  BY <1>6, <1>10 DEF PassTime, vars, dispatchVars
<1> QED
  BY <1>1, <1>2, <1>3, <1>4, <1>5, <1>7, <1>8, <1>9, <1>10 DEF Next, ConsumeReport

(* One more announcement. *)
LEMMA TellMore ==
    ASSUME NEW ev \in Seq(DeliveryEvent), NEW event \in DeliveryEvent, TellsStages(ev, Len(ev))
    PROVE  LET next == Append(ev, event) IN
           /\ Len(next) = Len(ev) + 1
           /\ next[Len(next)] = event
           /\ TellsStages(next, Len(ev))
<1> DEFINE next == Append(ev, event)
<1>1. /\ Len(next) = Len(ev) + 1 /\ next[Len(ev) + 1] = event
      /\ \A i \in 1..Len(ev) : next[i] = ev[i]
  BY AppendProperties
<1> HIDE DEF next
<1> QED
  BY <1>1 DEF TellsStages, next

(* Every move of a delivery keeps its announcements in step with its status. *)
LEMMA MoveKeepsInStep ==
    ASSUME NEW from, NEW to, NEW ev \in Seq(DeliveryEvent), NEW next,
           InStep(from, ev), MoveTo(from, to, ev, next)
    PROVE  InStep(to, next)
<1>1. CASE to = from /\ next = ev
  BY <1>1
<1>2. CASE from = "none" /\ to = "assigned" /\ next = Append(ev, "delivery.assigned")
  <2>1. Len(ev) = 0 /\ TellsStages(ev, Len(ev)) /\ "delivery.assigned" \in DeliveryEvent
    BY <1>2 DEF InStep, TellsStages, DeliveryEvent
  <2>2. Len(next) = 1 /\ next[1] = "delivery.assigned"
    BY <1>2, <2>1, TellMore
  <2> QED
    BY <1>2, <2>2 DEF InStep, StageNo, TellsStages, Stage, Underway
<1>3. ASSUME from \in Underway, NEW event \in DeliveryEvent, next = Append(ev, event)
      PROVE  /\ Len(ev) = StageNo(from) /\ Len(ev) \in 1..3 /\ Len(next) = Len(ev) + 1
             /\ next[Len(next)] = event /\ TellsStages(next, Len(ev))
  <2>1. Len(ev) = StageNo(from) /\ TellsStages(ev, Len(ev)) /\ StageNo(from) \in 1..3
    BY <1>3 DEF InStep, StageNo
  <2> QED
    BY <1>3, <2>1, TellMore
<1>4. CASE from = "assigned" /\ to = "assembling" /\ next = Append(ev, "delivery.assembling")
  <2>1. StageNo(from) = 1 /\ from \in Underway /\ "delivery.assembling" \in DeliveryEvent
    BY <1>4 DEF StageNo, Underway, DeliveryEvent
  <2>2. Len(next) = 2 /\ next[2] = "delivery.assembling" /\ TellsStages(next, 1)
    BY <1>3, <1>4, <2>1
  <2> QED
    BY <1>4, <2>2 DEF InStep, StageNo, TellsStages, Stage, Underway
<1>5. CASE from = "assembling" /\ to = "delivering" /\ next = Append(ev, "delivery.delivering")
  <2>1. StageNo(from) = 2 /\ from \in Underway /\ "delivery.delivering" \in DeliveryEvent
    BY <1>5 DEF StageNo, Underway, DeliveryEvent
  <2>2. Len(next) = 3 /\ next[3] = "delivery.delivering" /\ TellsStages(next, 2)
    BY <1>3, <1>5, <2>1
  <2>3. TellsStages(next, 3)
    <3>1. \A i \in 1..3 : i \in 1..2 \/ i = 3
      OBVIOUS
    <3> QED
      BY <2>2, <3>1 DEF TellsStages, Stage
  <2> QED
    BY <1>5, <2>2, <2>3 DEF InStep, StageNo, Underway
<1>6. ASSUME from \in Underway, NEW event \in DeliveryEvent, next = Append(ev, event)
      PROVE  TellsEnd(next, event)
  <2>1. /\ Len(ev) \in 1..3 /\ Len(next) = Len(ev) + 1
        /\ next[Len(next)] = event /\ TellsStages(next, Len(ev))
    BY <1>3, <1>6
  <2>2. Len(next) \in 2..4 /\ Len(next) - 1 = Len(ev)
    <3>1. PICK m \in 1..3 : Len(ev) = m /\ Len(next) = m + 1
      BY <2>1
    <3>2. m + 1 \in 2..4 /\ m + 1 - 1 = m
      OBVIOUS
    <3> QED
      BY <3>1, <3>2
  <2> QED
    BY <2>1, <2>2 DEF TellsEnd
<1>7. CASE from \in Underway /\ to = "completed" /\ next = Append(ev, "delivery.completed")
  BY <1>6, <1>7 DEF InStep, Underway, DeliveryEvent
<1>8. CASE from \in Underway /\ to = "cancelled" /\ next = Append(ev, "delivery.cancelled")
  BY <1>6, <1>8 DEF InStep, Underway, DeliveryEvent
<1> QED
  BY <1>1, <1>2, <1>4, <1>5, <1>7, <1>8 DEF MoveTo

(* Element by element or as a prefix of the list of the stages. *)
LEMMA StagesPrefix ==
    ASSUME NEW ev \in Seq(DeliveryEvent), NEW n \in 1..3, n <= Len(ev), TellsStages(ev, n)
    PROVE  SubSeq(ev, 1, n) =
              SubSeq(<<"delivery.assigned", "delivery.assembling", "delivery.delivering">>, 1, n)
<1> DEFINE stages == <<"delivery.assigned", "delivery.assembling", "delivery.delivering">>
<1>1. \A i \in 1..n : ev[i] \in DeliveryEvent /\ stages[i] \in DeliveryEvent /\ stages[i] = Stage(i)
  <2> SUFFICES ASSUME NEW i \in 1..n
               PROVE  ev[i] \in DeliveryEvent /\ stages[i] \in DeliveryEvent /\ stages[i] = Stage(i)
    OBVIOUS
  <2>1. ev[i] \in DeliveryEvent
    BY ElementOfSeq
  <2>2. stages[1] = Stage(1) /\ stages[2] = Stage(2) /\ stages[3] = Stage(3)
    BY DEF Stage
  <2>3. i = 1 \/ i = 2 \/ i = 3
    OBVIOUS
  <2> QED
    BY <2>1, <2>2, <2>3 DEF Stage, DeliveryEvent
<1> HIDE DEF stages
<1>2. /\ SubSeq(ev, 1, n) \in Seq(DeliveryEvent) /\ Len(SubSeq(ev, 1, n)) = n
      /\ \A i \in 1..n : SubSeq(ev, 1, n)[i] = ev[i]
  BY <1>1, SubSeqProperties
<1>3. /\ SubSeq(stages, 1, n) \in Seq(DeliveryEvent) /\ Len(SubSeq(stages, 1, n)) = n
      /\ \A i \in 1..n : SubSeq(stages, 1, n)[i] = stages[i]
  BY <1>1, SubSeqProperties
<1>4. SubSeq(ev, 1, n) = SubSeq(stages, 1, n)
  BY <1>1, <1>2, <1>3, SeqEqual DEF TellsStages
<1> QED
  BY <1>4 DEF stages

(* The announcements of every delivery in step with its status are what       *)
(* AnnouncedOnce asks for.                                                  *)
LEMMA AnnouncedOnceFollows ==
    ASSUME TypeOK, \A o \in Orders : Announced(o)
    PROVE  AnnouncedOnce
<1> DEFINE stages == <<"delivery.assigned", "delivery.assembling", "delivery.delivering">>
           name == <<"assigned", "assembling", "delivering">>
           Rule(ev, n, status) ==
               CASE status = "none" -> n = 0
                 [] status \in Underway -> n \in 1..3 /\ ev = SubSeq(stages, 1, n) /\ status = name[n]
                 [] OTHER -> n \in 2..4 /\ SubSeq(ev, 1, n - 1) = SubSeq(stages, 1, n - 1)
                             /\ ev[n] = IF status = "completed" THEN "delivery.completed"
                                        ELSE "delivery.cancelled"
<1>1. ASSUME NEW ev \in Seq(DeliveryEvent), NEW status \in Underway,
             Len(ev) = StageNo(status), TellsStages(ev, StageNo(status))
      PROVE  Rule(ev, Len(ev), status)
  <2> DEFINE n == Len(ev)
  <2>1. n \in 1..3 /\ TellsStages(ev, n)
    BY <1>1 DEF StageNo
  <2>2. SubSeq(ev, 1, n) = ev
    BY SubSeqFull
  <2>3. ev = SubSeq(stages, 1, n)
    BY <2>1, <2>2, StagesPrefix
  <2>4. name[1] = "assigned" /\ name[2] = "assembling" /\ name[3] = "delivering"
    OBVIOUS
  <2>5. status = name[n]
    BY <1>1, <2>1, <2>4 DEF StageNo, Underway
  <2>6. status # "none"
    BY DEF Underway
  <2> HIDE DEF n, stages, name
  <2>7. Rule(ev, n, status)
    BY <2>1, <2>3, <2>5, <2>6
  <2> QED
    BY <2>7 DEF n
<1>2. ASSUME NEW ev \in Seq(DeliveryEvent), NEW status \in Terminal,
             TellsEnd(ev, IF status = "completed" THEN "delivery.completed" ELSE "delivery.cancelled")
      PROVE  Rule(ev, Len(ev), status)
  <2> DEFINE n == Len(ev)
  <2>1. /\ n \in 2..4 /\ TellsStages(ev, n - 1)
        /\ ev[n] = IF status = "completed" THEN "delivery.completed" ELSE "delivery.cancelled"
    BY <1>2 DEF TellsEnd
  <2>2. n - 1 \in 1..3 /\ n - 1 <= n
    BY <2>1
  <2>3. SubSeq(ev, 1, n - 1) = SubSeq(stages, 1, n - 1)
    BY <2>1, <2>2, StagesPrefix
  <2>4. status # "none" /\ status \notin Underway
    BY DEF Underway, Terminal
  <2> HIDE DEF n, stages, name
  <2>5. Rule(ev, n, status)
    BY <2>1, <2>3, <2>4
  <2> QED
    BY <2>5 DEF n
<1>3. ASSUME NEW o \in Orders PROVE Rule(outbox[o], Len(outbox[o]), deliveries[o].status)
  <2>1. /\ outbox[o] \in Seq(DeliveryEvent)
        /\ deliveries[o].status \in {"none"} \cup Underway \cup Terminal
    BY DEF TypeOK
  <2>2. CASE deliveries[o].status = "none"
    <3>1. Len(outbox[o]) = 0
      BY <2>2 DEF Announced, InStep
    <3> HIDE DEF stages, name
    <3> QED
      BY <2>2, <3>1 DEF Underway
  <2>3. CASE deliveries[o].status \in Underway
    <3>1. /\ Len(outbox[o]) = StageNo(deliveries[o].status)
          /\ TellsStages(outbox[o], StageNo(deliveries[o].status))
      BY <2>3 DEF Announced, InStep
    <3> HIDE DEF Rule
    <3> QED
      BY <1>1, <2>1, <2>3, <3>1
  <2>4. CASE deliveries[o].status \in Terminal
    <3>1. TellsEnd(outbox[o], IF deliveries[o].status = "completed" THEN "delivery.completed"
                              ELSE "delivery.cancelled")
      BY <2>4 DEF Announced, InStep, Terminal
    <3> HIDE DEF Rule
    <3> QED
      BY <1>2, <2>1, <2>4, <3>1
  <2> QED
    BY <2>1, <2>2, <2>3, <2>4
<1> QED
  BY <1>3, Zenon DEF AnnouncedOnce

(* Consumer.assign, applyPhase, cancel and complete write the outbox row with *)
(* the status it announces: the announcements of a delivery are its          *)
(* assignment, its stages in order and one end, each once.                   *)
THEOREM EachStageAnnouncedOnce == Spec => []AnnouncedOnce
<1> DEFINE I == TypeOK /\ \A o \in Orders : Announced(o)
<1>1. Init => I
  BY InitTypeOK DEF Init, Announced, InStep, NoDeliveryRow, Underway
<1>2. I /\ [Next]_vars => I'
  <2> SUFFICES ASSUME I, [Next]_vars PROVE I'
    OBVIOUS
  <2>1. TypeOK'
    BY NextTypeOK
  <2>2. ASSUME NEW o \in Orders PROVE Announced(o)'
    <3>1. Moves(o) /\ Announced(o) /\ outbox[o] \in Seq(DeliveryEvent)
      BY NextMoves DEF TypeOK
    <3> QED
      BY <3>1, MoveKeepsInStep DEF Moves, Announced
  <2> QED
    BY <2>1, <2>2
<1>3. I => AnnouncedOnce
  BY AnnouncedOnceFollows
<1> QED
  BY <1>1, <1>2, <1>3, PTL DEF Spec

-----------------------------------------------------------------------------
(***************************************************************************)
(* The prediction worker                                                   *)
(***************************************************************************)

(* An open transaction that read "completed" wrote it for a delivery that is. *)
SavesTruth ==
    \A w \in Workers :
        saving[w].actual = "evaluated" => deliveries[saving[w].order].status = "completed"

EtaInv == TypeOK /\ EtaTypeOK /\ SavesTruth

-----------------------------------------------------------------------------
(* The worker beside Delivery *)

(* A step of the worker, or of Delivery with its effect on the predictions. *)
LEMMA EtaStepIsDeliveryStep ==
    ASSUME [EtaNext]_<<vars, etaVars>>
    PROVE  [Next]_vars
BY DEF EtaNext, DeliveryStep, predictMissing, PredictFails, BeginSave, CommitSave,
       WorkerRestart

(* predictMissing, save and the evaluation by a completion touch nothing    *)
(* the handlers read: whatever is proved of Delivery holds with the workers. *)
THEOREM WorkersOnlyAdd == EtaSpec => Spec
<1>1. EtaInit => Init
  BY DEF EtaInit
<1>2. [EtaNext]_<<vars, etaVars>> => [Next]_vars
  BY EtaStepIsDeliveryStep
<1> QED
  BY <1>1, <1>2, PTL DEF EtaSpec, Spec

-----------------------------------------------------------------------------
(* Types, and what an open transaction knows *)

LEMMA InitEtaInv == EtaInit => EtaInv
<1> SUFFICES ASSUME EtaInit PROVE EtaInv
  OBVIOUS
<1>1. TypeOK
  BY InitTypeOK DEF EtaInit
<1>2. EtaTypeOK
  BY DEF EtaInit, EtaTypeOK, PredictionState
<1>3. SavesTruth
  BY DEF EtaInit, SavesTruth, NotSaving
<1> QED
  BY <1>1, <1>2, <1>3 DEF EtaInv

(* A delivery that is completed stays so, whoever steps. *)
LEMMA CompletedStays ==
    ASSUME TypeOK, [Next]_vars, NEW o \in Orders, deliveries[o].status = "completed"
    PROVE  deliveries'[o].status = "completed"
<1>1. RespectsFinished
  BY NextRespectsFinished
<1> QED
  BY <1>1 DEF RespectsFinished, Terminal

(* What save reads: the job is a delivery and one of its stages. *)
LEMMA JobTypes ==
    ASSUME EtaTypeOK, NEW w \in Workers, NEW job \in jobs[w]
    PROVE  job[1] \in Orders /\ job[2] \in Stages
BY DEF EtaTypeOK

LEMMA NextEtaInv == EtaInv /\ [EtaNext]_<<vars, etaVars>> => EtaInv'
<1> SUFFICES ASSUME EtaInv, [EtaNext]_<<vars, etaVars>> PROVE EtaInv'
  OBVIOUS
<1>0. TypeOK /\ EtaTypeOK /\ SavesTruth /\ TypeOK' /\ [Next]_vars
  BY EtaStepIsDeliveryStep, NextTypeOK DEF EtaInv
<1> SUFFICES EtaTypeOK' /\ SavesTruth'
  BY <1>0 DEF EtaInv
<1>1. CASE UNCHANGED <<vars, etaVars>>
  BY <1>0, <1>1 DEF vars, etaVars, EtaTypeOK, SavesTruth
<1>2. CASE DeliveryStep
  <2>1. EtaTypeOK'
    BY <1>0, <1>2 DEF DeliveryStep, Evaluate, EtaTypeOK, PredictionState
  <2>2. ASSUME NEW w \in Workers, saving'[w].actual = "evaluated"
        PROVE  deliveries'[saving'[w].order].status = "completed"
    <3>1. saving' = saving /\ saving[w].order \in Orders
      BY <1>0, <1>2, <2>2 DEF DeliveryStep, EtaTypeOK, NotSaving
    <3> QED
      BY <1>0, <2>2, <3>1, CompletedStays DEF SavesTruth
  <2> QED
    BY <2>1, <2>2 DEF SavesTruth
<1>3. ASSUME NEW w \in Workers, predictMissing(w) PROVE EtaTypeOK' /\ SavesTruth'
  <2>1. Missing \subseteq Orders \X Stages
    BY DEF Missing, StageOf, Stages, Underway
  <2> QED
    BY <1>0, <1>3, <2>1 DEF predictMissing, vars, EtaTypeOK, SavesTruth
<1>4. ASSUME NEW w \in Workers, NEW job \in jobs[w], PredictFails(w, job)
      PROVE  EtaTypeOK' /\ SavesTruth'
  BY <1>0, <1>4 DEF PredictFails, vars, EtaTypeOK, SavesTruth
<1>5. ASSUME NEW w \in Workers, NEW job \in jobs[w], BeginSave(w, job)
      PROVE  EtaTypeOK' /\ SavesTruth'
  <2> DEFINE row == [order |-> job[1], stage |-> job[2],
                     actual |-> IF deliveries[job[1]].status = "completed"
                                THEN "evaluated" ELSE "open"]
  <2>1. /\ row \in [order : Orders, stage : Stages, actual : {"open", "evaluated"}]
        /\ row.actual = "evaluated" => deliveries[row.order].status = "completed"
    BY <1>0, <1>5, JobTypes
  <2>2. /\ jobs' = [jobs EXCEPT ![w] = @ \ {job}] /\ saving' = [saving EXCEPT ![w] = row]
        /\ deliveries' = deliveries /\ eta' = eta
    BY <1>5 DEF BeginSave, vars
  <2> HIDE DEF row
  <2> QED
    BY <1>0, <2>1, <2>2 DEF EtaTypeOK, SavesTruth
<1>6. ASSUME NEW w \in Workers, CommitSave(w) PROVE EtaTypeOK' /\ SavesTruth'
  <2>1. saving[w].actual \in PredictionState /\ saving[w].order \in Orders
        /\ saving[w].stage \in Stages
    BY <1>0, <1>6 DEF CommitSave, EtaTypeOK, PredictionState
  <2>2. EtaTypeOK'
    BY <1>0, <1>6, <2>1 DEF CommitSave, EtaTypeOK
  <2>3. SavesTruth'
    BY <1>0, <1>6 DEF CommitSave, vars, EtaTypeOK, SavesTruth, NotSaving
  <2> QED
    BY <2>2, <2>3
<1>7. ASSUME NEW w \in Workers, WorkerRestart(w) PROVE EtaTypeOK' /\ SavesTruth'
  BY <1>0, <1>7 DEF WorkerRestart, vars, EtaTypeOK, SavesTruth, NotSaving
<1> QED
  BY <1>1, <1>2, <1>3, <1>4, <1>5, <1>6, <1>7 DEF EtaNext

LEMMA EtaInvariant == EtaSpec => []EtaInv
<1> QED
  BY InitEtaInv, NextEtaInv, PTL DEF EtaSpec

(* predictMissing and save: batches, open transactions and stored           *)
(* predictions keep their types, and a save has a row to commit.            *)
THEOREM EtaTypeCorrect == EtaSpec => []EtaTypeOK
<1>1. EtaInv => EtaTypeOK
  BY DEF EtaInv
<1> QED
  BY <1>1, EtaInvariant, PTL

-----------------------------------------------------------------------------
(* Finality of the evaluation *)

EvaluationFinal ==
    \A o \in Orders, s \in Stages :
        /\ eta[o][s] # "none" => eta'[o][s] # "none"
        /\ eta[o][s] = "evaluated" => eta'[o][s] = "evaluated"
        /\ eta[o][s] # "evaluated" /\ eta'[o][s] = "evaluated" =>
              deliveries'[o].status = "completed"

LEMMA StepEvaluates ==
    ASSUME EtaInv, EtaNext
    PROVE  EvaluationFinal
<1>1. CASE DeliveryStep
  BY <1>1 DEF EtaInv, EtaTypeOK, DeliveryStep, CompletedBy, Evaluate, EvaluationFinal
<1>2. ASSUME NEW w \in Workers, CommitSave(w) PROVE EvaluationFinal
  <2>1. /\ saving[w].order \in Orders /\ saving[w].stage \in Stages
        /\ saving[w].actual \in {"open", "evaluated"}
        /\ saving[w].actual = "evaluated" => deliveries[saving[w].order].status = "completed"
        /\ deliveries' = deliveries
    BY <1>2 DEF EtaInv, EtaTypeOK, SavesTruth, CommitSave, vars
  <2> QED
    BY <1>2, <2>1 DEF EtaInv, EtaTypeOK, CommitSave, EvaluationFinal
<1>3. ASSUME eta' = eta PROVE EvaluationFinal
  BY <1>3 DEF EvaluationFinal
<1> QED
  BY <1>1, <1>2, <1>3
     DEF EtaNext, predictMissing, PredictFails, BeginSave, WorkerRestart

(* save, and the UPDATE of a completion: a stored prediction is never lost  *)
(* and its actual time never changes back; it is written only of a delivery *)
(* that is completed, which save may have read before it commits.           *)
THEOREM EvaluationIsFinal == EtaSpec => EvaluatedForGood
<1>1. EtaInv /\ [EtaNext]_<<vars, etaVars>> => [EvaluationFinal]_<<vars, etaVars>>
  BY StepEvaluates
<1>2. EvaluationFinal <=>
        \A o \in Orders, s \in Stages :
            /\ eta[o][s] # "none" => eta'[o][s] # "none"
            /\ eta[o][s] = "evaluated" => eta'[o][s] = "evaluated"
            /\ eta[o][s] # "evaluated" /\ eta'[o][s] = "evaluated" =>
                  deliveries'[o].status = "completed"
  BY DEF EvaluationFinal
<1> QED
  BY <1>1, <1>2, EtaInvariant, PTL DEF EtaSpec, EvaluatedForGood

-----------------------------------------------------------------------------
(* Predictions left open *)

(* The open predictions of a delivery, and the workers about to commit one. *)
OpenStages(o) == {s \in Stages : eta[o][s] = "open"}
SavingOpen(o) == {w \in Workers : saving[w].order = o /\ saving[w].actual = "open"}

LeftOpen(o) ==
    deliveries[o].status = "completed" =>
        Cardinality(OpenStages(o)) + Cardinality(SavingOpen(o)) <= Cardinality(Workers)

(* Both are finite, and no more workers save than there are. *)
LEMMA OpenCounts ==
    ASSUME NEW o
    PROVE  /\ IsFiniteSet(OpenStages(o)) /\ IsFiniteSet(SavingOpen(o))
           /\ Cardinality(OpenStages(o)) \in Nat /\ Cardinality(SavingOpen(o)) \in Nat
           /\ Cardinality(Workers) \in Nat
           /\ Cardinality(SavingOpen(o)) <= Cardinality(Workers)
<1>1. IsFiniteSet(Stages)
  <2>1. IsFiniteSet({"confirmed"} \cup {"assembling"})
    BY FS_Singleton, FS_AddElement
  <2>2. IsFiniteSet(({"confirmed"} \cup {"assembling"}) \cup {"delivering"})
    BY <2>1, FS_AddElement
  <2>3. Stages = ({"confirmed"} \cup {"assembling"}) \cup {"delivering"}
    BY DEF Stages
  <2>. QED
    BY <2>2, <2>3
<1>2. OpenStages(o) \subseteq Stages /\ SavingOpen(o) \subseteq Workers
  BY DEF OpenStages, SavingOpen
<1>. QED
  BY <1>1, <1>2, EtaAssumption, FS_Subset, FS_CardinalityType

(* Fewer or as many open predictions and open saves are no more in number. *)
LEMMA FewerOpen ==
    ASSUME NEW o, OpenStages(o)' \subseteq OpenStages(o), SavingOpen(o)' \subseteq SavingOpen(o),
           Cardinality(OpenStages(o)) + Cardinality(SavingOpen(o)) <= Cardinality(Workers)
    PROVE  Cardinality(OpenStages(o)') + Cardinality(SavingOpen(o)') <= Cardinality(Workers)
<1>1. /\ Cardinality(OpenStages(o)') <= Cardinality(OpenStages(o))
      /\ Cardinality(SavingOpen(o)') <= Cardinality(SavingOpen(o))
      /\ Cardinality(OpenStages(o)') \in Nat /\ Cardinality(SavingOpen(o)') \in Nat
  BY OpenCounts, FS_Subset, FS_CardinalityType
<1>. QED
  BY <1>1, OpenCounts

(* A commit moves an open save to the stored predictions, or finds one. *)
LEMMA CommitMovesOne ==
    ASSUME EtaInv, NEW o \in Orders, NEW w \in Workers, CommitSave(w),
           Cardinality(OpenStages(o)) + Cardinality(SavingOpen(o)) <= Cardinality(Workers)
    PROVE  Cardinality(OpenStages(o)') + Cardinality(SavingOpen(o)') <= Cardinality(Workers)
<1>1. /\ saving[w].order \in Orders /\ saving[w].stage \in Stages
      /\ saving[w].actual \in {"open", "evaluated"}
      /\ saving \in [Workers -> [order : Orders, stage : Stages, actual : {"open", "evaluated"}]
                                  \cup {NotSaving}]
      /\ eta \in [Orders -> [Stages -> PredictionState]]
  BY DEF EtaInv, EtaTypeOK, CommitSave
<1>2. /\ eta' = [eta EXCEPT ![saving[w].order][saving[w].stage] =
                    IF @ = "none" THEN saving[w].actual ELSE @]
      /\ saving' = [saving EXCEPT ![w] = NotSaving]
  BY DEF CommitSave
<1>3. NotSaving.actual # "open"
  BY DEF NotSaving
<1>4. SavingOpen(o)' = SavingOpen(o) \ {w}
  BY <1>1, <1>2, <1>3 DEF SavingOpen
<1>5. CASE saving[w].order = o /\ saving[w].actual = "open"
  <2>1. w \in SavingOpen(o)
    BY <1>5 DEF SavingOpen
  <2>2. Cardinality(SavingOpen(o)') = Cardinality(SavingOpen(o)) - 1
    BY <1>4, <2>1, OpenCounts, FS_RemoveElement
  <2>3. OpenStages(o)' \subseteq OpenStages(o) \cup {saving[w].stage}
    BY <1>1, <1>2 DEF OpenStages
  <2>4. /\ IsFiniteSet(OpenStages(o) \cup {saving[w].stage})
        /\ Cardinality(OpenStages(o) \cup {saving[w].stage}) <= Cardinality(OpenStages(o)) + 1
        /\ Cardinality(OpenStages(o) \cup {saving[w].stage}) \in Nat
    <3>1. PICK S, x : S = OpenStages(o) /\ x = saving[w].stage
      OBVIOUS
    <3>2. IsFiniteSet(S) /\ Cardinality(S) \in Nat
      BY <3>1, OpenCounts
    <3>3. /\ IsFiniteSet(S \cup {x})
          /\ Cardinality(S \cup {x}) = IF x \in S THEN Cardinality(S) ELSE Cardinality(S) + 1
      BY <3>2, FS_AddElement
    <3>. QED
      BY <3>1, <3>2, <3>3
  <2>5. /\ Cardinality(OpenStages(o)') <= Cardinality(OpenStages(o) \cup {saving[w].stage})
        /\ Cardinality(OpenStages(o)') \in Nat
    BY <2>3, <2>4, FS_Subset, FS_CardinalityType
  <2>. QED
    BY <2>2, <2>4, <2>5, OpenCounts
<1>6. CASE ~(saving[w].order = o /\ saving[w].actual = "open")
  <2>1. OpenStages(o)' \subseteq OpenStages(o)
    BY <1>1, <1>2, <1>6 DEF OpenStages
  <2>. QED
    BY <1>4, <2>1, FewerOpen
<1>. QED
  BY <1>5, <1>6

LEMMA StepLeavesOpen ==
    ASSUME EtaInv, EtaNext, NEW o \in Orders, LeftOpen(o)
    PROVE  LeftOpen(o)'
<1>. SUFFICES ASSUME deliveries'[o].status = "completed"
              PROVE  Cardinality(OpenStages(o)') + Cardinality(SavingOpen(o)') <= Cardinality(Workers)
  BY DEF LeftOpen
<1>1. CASE DeliveryStep
  <2>1. CASE CompletedBy(o)
    <3>1. eta'[o] = Evaluate(o) /\ saving' = saving
      BY <1>1, <2>1 DEF DeliveryStep
    <3>2. OpenStages(o)' = {}
      BY <3>1 DEF OpenStages, Evaluate
    <3>3. SavingOpen(o)' = SavingOpen(o)
      BY <3>1 DEF SavingOpen
    <3>. QED
      BY <3>2, <3>3, OpenCounts, FS_EmptySet
  <2>2. CASE ~CompletedBy(o)
    <3>1. deliveries[o].status = "completed" /\ eta'[o] = eta[o] /\ saving' = saving
      BY <1>1, <2>2 DEF DeliveryStep, CompletedBy
    <3>2. OpenStages(o)' = OpenStages(o) /\ SavingOpen(o)' = SavingOpen(o)
      BY <3>1 DEF OpenStages, SavingOpen
    <3>. QED
      BY <3>1, <3>2 DEF LeftOpen
  <2>. QED
    BY <2>1, <2>2
<1>2. CASE ~DeliveryStep
  <2>1. deliveries' = deliveries
    BY <1>2 DEF EtaNext, predictMissing, PredictFails, BeginSave, CommitSave, WorkerRestart, vars
  <2>2. Cardinality(OpenStages(o)) + Cardinality(SavingOpen(o)) <= Cardinality(Workers)
    BY <2>1 DEF LeftOpen
  <2>3. ASSUME eta' = eta, SavingOpen(o)' \subseteq SavingOpen(o)
        PROVE  Cardinality(OpenStages(o)') + Cardinality(SavingOpen(o)') <= Cardinality(Workers)
    BY <2>2, <2>3, FewerOpen DEF OpenStages
  <2>4. ASSUME NEW w \in Workers, predictMissing(w)
        PROVE  eta' = eta /\ SavingOpen(o)' \subseteq SavingOpen(o)
    BY <2>4 DEF predictMissing, SavingOpen
  <2>5. ASSUME NEW w \in Workers, NEW job \in jobs[w], PredictFails(w, job)
        PROVE  eta' = eta /\ SavingOpen(o)' \subseteq SavingOpen(o)
    BY <2>5 DEF PredictFails, SavingOpen
  <2>6. ASSUME NEW w \in Workers, NEW job \in jobs[w], BeginSave(w, job)
        PROVE  eta' = eta /\ SavingOpen(o)' \subseteq SavingOpen(o)
    <3>. DEFINE row == [order |-> job[1], stage |-> job[2],
                        actual |-> IF deliveries[job[1]].status = "completed"
                                   THEN "evaluated" ELSE "open"]
    <3>1. eta' = eta /\ saving' = [saving EXCEPT ![w] = row]
      BY <2>6 DEF BeginSave
    <3>2. ~(row.order = o /\ row.actual = "open")
      BY <2>1
    <3>3. DOMAIN saving = Workers
      BY DEF EtaInv, EtaTypeOK
    <3>. HIDE DEF row
    <3>. QED
      BY <3>1, <3>2, <3>3 DEF SavingOpen
  <2>7. ASSUME NEW w \in Workers, WorkerRestart(w)
        PROVE  eta' = eta /\ SavingOpen(o)' \subseteq SavingOpen(o)
    <3>1. NotSaving.actual # "open" /\ DOMAIN saving = Workers
      BY DEF NotSaving, EtaInv, EtaTypeOK
    <3>. QED
      BY <2>7, <3>1 DEF WorkerRestart, SavingOpen
  <2>. QED
    BY <1>2, <2>2, <2>3, <2>4, <2>5, <2>6, <2>7, CommitMovesOne DEF EtaNext
<1>. QED
  BY <1>1, <1>2

(* applyPhase, complete and save: a prediction that a completion leaves open *)
(* belongs to a transaction that was open when it ran, so for a completed   *)
(* delivery there are never more of them than workers.                      *)
THEOREM LeftOpenByWorkers == EtaSpec => []OnePerWorkerLeftOpen
<1>. DEFINE AllLeftOpen == \A o \in Orders : LeftOpen(o)
<1>1. EtaInit => AllLeftOpen
  BY DEF EtaInit, Init, LeftOpen, NoDeliveryRow
<1>2. EtaInv /\ AllLeftOpen /\ [EtaNext]_<<vars, etaVars>> => AllLeftOpen'
  <2>. SUFFICES ASSUME EtaInv, AllLeftOpen, [EtaNext]_<<vars, etaVars>>
                PROVE  AllLeftOpen'
    OBVIOUS
  <2>1. CASE UNCHANGED <<vars, etaVars>>
    BY <2>1 DEF vars, etaVars, LeftOpen, OpenStages, SavingOpen
  <2>2. CASE EtaNext
    BY <2>2, StepLeavesOpen
  <2>. QED
    BY <2>1, <2>2
<1>3. AllLeftOpen => OnePerWorkerLeftOpen
  BY DEF LeftOpen, OpenStages, SavingOpen, OnePerWorkerLeftOpen
<1>. HIDE DEF AllLeftOpen
<1>. QED
  BY <1>1, <1>2, <1>3, EtaInvariant, PTL DEF EtaSpec
=============================================================================
