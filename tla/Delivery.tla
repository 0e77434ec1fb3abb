------------------------------ MODULE Delivery ------------------------------
(***************************************************************************)
(* delivery-service: couriers, deliveries, the consumer of order and       *)
(* location events, the dispatcher's delay and complete; and the           *)
(* courier-simulator that reports locations.  The ETA predictions, which   *)
(* completions also update, are added by EtaPrediction.                    *)
(*                                                                         *)
(* Every handler is one PostgreSQL transaction that locks the rows it      *)
(* changes, hence one step.  An event that was published stays available:  *)
(* it may be handled late, again, out of order (the relay and the DLQ      *)
(* replay both reorder) or never.  A handler that returns an error rolls   *)
(* back, so it is not a step.                                              *)
(* deliveries.order_id is UNIQUE: a delivery is named by its order.        *)
(***************************************************************************)
EXTENDS Integers, Sequences, FiniteSets

CONSTANTS
    Couriers,         \* rows of delivery.couriers
    Orders,           \* order ids
    NoCourier, NoDelivery,
    AssemblingUntil,  \* simulator: elapsed time below which it says assembling (3s)
    DeliveringUntil,  \* simulator: elapsed time below which it says delivering (15s)
    DelayStep,        \* operator delay (10s)
    MaxDelay,         \* cap of simulation_delay_seconds (600s)
    MaxAge,           \* bound on the time since assignment
    MaxReports,       \* bound on location events published
    MaxDelays         \* bound on operator delays per delivery

ASSUME DeliveryAssumption ==
    /\ NoCourier \notin Couriers
    /\ NoDelivery \notin Orders
    /\ AssemblingUntil \in Nat
    /\ DeliveringUntil \in Nat
    /\ DelayStep \in Nat
    /\ MaxDelay \in Nat
    /\ MaxAge \in Nat
    /\ MaxReports \in Nat
    /\ MaxDelays \in Nat

VARIABLES
    couriers,      \* couriers.status
    lastSeq,       \* couriers.location_sequence
    geo,           \* the couriers an answer of Redis GEO may name: those it ever had a position of,
                   \* for an answer read before Redis lost its data may still be in use
    deliveries,    \* delivery.deliveries
    outbox,        \* delivery.outbox, per order: the events of its status
    delays,        \* delivery.outbox, per order: number of delay_injected events
    inbox,         \* delivery.processed_events, order events
    seen,          \* delivery.processed_events, location events (by sequence)
    missed,        \* orders whose cancellation, not yet committed, found no delivery
    published,     \* order events in Kafka
    reports,       \* location events in Kafka
    sequence,      \* the simulator's sequence
    age            \* time since assignment, per delivery

dispatchVars == <<couriers, deliveries, outbox, delays>>
kafkaVars == <<published, reports, sequence>>
inboxVars == <<inbox, seen, missed>>
vars == <<couriers, lastSeq, geo, deliveries, outbox, delays, inbox, seen, missed, published,
          reports, sequence, age>>

Underway == {"assigned", "assembling", "delivering"}
Terminal == {"completed", "cancelled"}
Phases == {"available", "assembling", "delivering", "completed"}
DeliveryEvent == {"delivery.assigned", "delivery.assembling", "delivery.delivering",
                  "delivery.completed", "delivery.cancelled"}

NoDeliveryRow == [status |-> "none", courier |-> NoCourier, delay |-> 0]

Init ==
    /\ couriers = [c \in Couriers |-> "available"]
    /\ lastSeq = [c \in Couriers |-> 0]
    /\ geo = {}
    /\ deliveries = [o \in Orders |-> NoDeliveryRow]
    /\ outbox = [o \in Orders |-> << >>]
    /\ delays = [o \in Orders |-> 0]
    /\ inbox = {}
    /\ seen = {}
    /\ missed = {}
    /\ published = {}
    /\ reports = {}
    /\ sequence = 0
    /\ age = [o \in Orders |-> 0]

(***************************************************************************)
(* Order events                                                            *)
(***************************************************************************)

(* order-service publishes order.created, and order.cancelled after it. *)
PublishCreated(o) ==
    /\ published' = published \cup {<<"order.created", o>>}
    /\ published' # published
    /\ UNCHANGED <<dispatchVars, lastSeq, geo, inboxVars, reports, sequence, age>>

PublishCancelled(o) ==
    /\ <<"order.created", o>> \in published
    /\ published' = published \cup {<<"order.cancelled", o>>}
    /\ published' # published
    /\ UNCHANGED <<dispatchVars, lastSeq, geo, inboxVars, reports, sequence, age>>

(* markProcessed: the first transaction to insert the event id goes on. *)
FirstTime(e) == e \in published /\ e \notin inbox

(* Consumer.assign: the first candidate of Redis GEO whose locked row says  *)
(* available.  Distances are not modelled: any candidate may be the nearest. *)
Assign(o, c) ==
    /\ FirstTime(<<"order.created", o>>)
    /\ c \in geo
    /\ couriers[c] = "available"
    /\ deliveries[o].status = "none"
    /\ inbox' = inbox \cup {<<"order.created", o>>}
    /\ couriers' = [couriers EXCEPT ![c] = "assigned"]
    /\ deliveries' = [deliveries EXCEPT ![o] = [status |-> "assigned", courier |-> c, delay |-> 0]]
    /\ outbox' = [outbox EXCEPT ![o] = Append(@, "delivery.assigned")]
    /\ UNCHANGED delays
    /\ age' = [age EXCEPT ![o] = 0]
    /\ UNCHANGED <<lastSeq, geo, seen, missed, kafkaVars>>

(* A delivery that ends gives its courier back and says so, once. *)
EndDelivery(o, status, event) ==
    /\ deliveries' = [deliveries EXCEPT ![o].status = status]
    /\ couriers' = [couriers EXCEPT ![deliveries[o].courier] = "available"]
    /\ outbox' = [outbox EXCEPT ![o] = Append(@, event)]
    /\ UNCHANGED delays

(* Consumer.cancel with nothing to cancel: the delivery is finished. *)
CancelNothing(o) ==
    /\ FirstTime(<<"order.cancelled", o>>)
    /\ o \notin missed
    /\ deliveries[o].status \in Terminal
    /\ inbox' = inbox \cup {<<"order.cancelled", o>>}
    /\ UNCHANGED <<dispatchVars, lastSeq, geo, seen, missed, kafkaVars, age>>

(* ... or there is no delivery yet.  A row that is not there cannot be       *)
(* locked: a concurrent assignment (after a rebalance the former owner of   *)
(* the partition is still working) may commit before the mark does.         *)
CancelFindsNone(o) ==
    /\ FirstTime(<<"order.cancelled", o>>)
    /\ deliveries[o].status = "none"
    /\ missed' = missed \cup {o}
    /\ missed' # missed
    /\ UNCHANGED <<dispatchVars, lastSeq, geo, inbox, seen, kafkaVars, age>>

CancelTooEarly(o) ==
    /\ o \in missed
    /\ missed' = missed \ {o}
    /\ inbox' \in {inbox, inbox \cup {<<"order.cancelled", o>>}}
    /\ UNCHANGED <<dispatchVars, lastSeq, geo, seen, kafkaVars, age>>

(* Consumer.cancel of a delivery under way. *)
CancelUnderway(o) ==
    /\ FirstTime(<<"order.cancelled", o>>)
    /\ o \notin missed
    /\ deliveries[o].status \in Underway
    /\ inbox' = inbox \cup {<<"order.cancelled", o>>}
    /\ EndDelivery(o, "cancelled", "delivery.cancelled")
    /\ UNCHANGED <<lastSeq, geo, seen, missed, kafkaVars, age>>

(***************************************************************************)
(* Location events                                                         *)
(***************************************************************************)

(* simulatedLocation: the phase follows from the time since assignment less *)
(* the delay the operator injected.                                        *)
PhaseOf(o) ==
    LET elapsed == age[o] - deliveries[o].delay IN
    IF elapsed < AssemblingUntil THEN "assembling"
    ELSE IF elapsed < DeliveringUntil THEN "delivering"
    ELSE "completed"

(* What Handler.assignments answers the simulator: the deliveries that have *)
(* not ended.                                                              *)
Assignments == {o \in Orders : deliveries[o].status \in Underway}

(* Runner.publish: the location becomes an event in Kafka. *)
publish(e) == reports' = reports \cup {e}

(* Runner.tick for one courier: the location of its active assignment, or   *)
(* of no delivery (none assigned, or the assignments could not be fetched). *)
(* The simulator also writes the position to Redis itself.                  *)
Report(c, o, phase) ==
    /\ sequence < MaxReports
    /\ sequence' = sequence + 1
    /\ publish([courier |-> c, delivery |-> o, seq |-> sequence + 1, phase |-> phase])
    /\ geo' \in {geo, geo \cup {c}}
    /\ UNCHANGED <<dispatchVars, lastSeq, inboxVars, published, age>>

ReportIdle(c) == Report(c, NoDelivery, "available")

ReportActive(c) ==
    \E o \in Assignments :
        /\ deliveries[o].courier = c
        /\ Report(c, o, PhaseOf(o))

Unseen(e) == e.seq \notin seen

(* updateLocation, older than the position on record: only marked. *)
IgnoreStaleReport(e) ==
    /\ Unseen(e)
    /\ e.seq <= lastSeq[e.courier]
    /\ seen' = seen \cup {e.seq}
    /\ UNCHANGED <<dispatchVars, lastSeq, geo, inbox, missed, kafkaVars, age>>

(* The part of updateLocation every newer report performs.  GeoAdd comes    *)
(* after the commit and its error is ignored.                              *)
MoveCourier(e) ==
    /\ Unseen(e)
    /\ e.seq > lastSeq[e.courier]
    /\ seen' = seen \cup {e.seq}
    /\ lastSeq' = [lastSeq EXCEPT ![e.courier] = e.seq]
    /\ geo' \in {geo, geo \cup {e.courier}}

(* No delivery named, or its phase is what the delivery already has. *)
ReportPosition(e) ==
    /\ MoveCourier(e)
    /\ e.delivery # NoDelivery =>
          /\ deliveries[e.delivery].courier = e.courier
          /\ e.phase = deliveries[e.delivery].status
    /\ UNCHANGED <<dispatchVars, inbox, missed, kafkaVars, age>>

validDeliveryTransition(current, target) ==
    \/ current = "assigned" /\ target = "assembling"
    \/ current = "assembling" /\ target = "delivering"
    \/ current = "delivering" /\ target = "completed"

(* applyPhase up to delivering.  A phase that does not follow the current   *)
(* status, or a report by another courier, is an error: rolled back.        *)
ReportProgress(e) ==
    LET o == e.delivery IN
    /\ MoveCourier(e)
    /\ o # NoDelivery
    /\ deliveries[o].courier = e.courier
    /\ e.phase # "completed"
    /\ validDeliveryTransition(deliveries[o].status, e.phase)
    /\ deliveries' = [deliveries EXCEPT ![o].status = e.phase]
    /\ outbox' = [outbox EXCEPT ![o] = Append(@, IF e.phase = "assembling" THEN "delivery.assembling"
                                                 ELSE "delivery.delivering")]
    /\ UNCHANGED <<couriers, delays, inbox, missed, kafkaVars, age>>

(* applyPhase to completed. *)
ReportCompleted(e) ==
    LET o == e.delivery IN
    /\ MoveCourier(e)
    /\ o # NoDelivery
    /\ deliveries[o].courier = e.courier
    /\ e.phase = "completed"
    /\ validDeliveryTransition(deliveries[o].status, e.phase)
    /\ EndDelivery(o, "completed", "delivery.completed")
    /\ UNCHANGED <<inbox, missed, kafkaVars, age>>

(***************************************************************************)
(* Dispatcher                                                              *)
(***************************************************************************)

(* Handler.delay *)
Delay(o) ==
    /\ deliveries[o].status \in Underway
    /\ delays[o] < MaxDelays
    /\ deliveries' = [deliveries EXCEPT ![o].delay =
                        IF @ + DelayStep > MaxDelay THEN MaxDelay ELSE @ + DelayStep]
    /\ delays' = [delays EXCEPT ![o] = @ + 1]
    /\ UNCHANGED <<couriers, outbox, lastSeq, geo, inboxVars, kafkaVars, age>>

(* Handler.complete, from any status under way. *)
Complete(o) ==
    /\ deliveries[o].status \in Underway
    /\ EndDelivery(o, "completed", "delivery.completed")
    /\ UNCHANGED <<lastSeq, geo, inboxVars, kafkaVars, age>>

(***************************************************************************)
(* Environment                                                             *)
(***************************************************************************)
PassTime ==
    /\ age' = [o \in Orders |-> IF deliveries[o].status \in Underway /\ age[o] < MaxAge
                                THEN age[o] + 1 ELSE age[o]]
    /\ age' # age
    /\ UNCHANGED <<dispatchVars, lastSeq, geo, inboxVars, kafkaVars>>

ConsumeReport(e) ==
    \/ IgnoreStaleReport(e)
    \/ ReportPosition(e)
    \/ ReportProgress(e)
    \/ ReportCompleted(e)

Next ==
    \/ \E o \in Orders :
          \/ PublishCreated(o) \/ PublishCancelled(o)
          \/ \E c \in Couriers : Assign(o, c)
          \/ CancelNothing(o) \/ CancelUnderway(o)
          \/ CancelFindsNone(o) \/ CancelTooEarly(o)
          \/ Delay(o) \/ Complete(o)
    \/ \E c \in Couriers : ReportIdle(c) \/ ReportActive(c)
    \/ \E e \in reports : ConsumeReport(e)
    \/ PassTime

Spec == Init /\ [][Next]_vars

(***************************************************************************)
(* Properties                                                              *)
(***************************************************************************)

(* Types of the tables, of Redis and of the events. *)
TypeOK ==
    /\ couriers \in [Couriers -> {"available", "assigned"}]
    /\ lastSeq \in [Couriers -> Nat]
    /\ geo \subseteq Couriers
    /\ deliveries \in [Orders -> [status : {"none"} \cup Underway \cup Terminal,
                                  courier : Couriers \cup {NoCourier},
                                  delay : Nat]]
    /\ outbox \in [Orders -> Seq(DeliveryEvent)]
    /\ delays \in [Orders -> Nat]
    /\ inbox \subseteq {"order.created", "order.cancelled"} \X Orders
    /\ seen \subseteq Nat
    /\ missed \subseteq Orders
    /\ published \subseteq {"order.created", "order.cancelled"} \X Orders
    /\ reports \subseteq [courier : Couriers, delivery : Orders \cup {NoDelivery},
                          seq : Nat, phase : Phases]
    /\ sequence \in Nat
    /\ age \in [Orders -> Nat]

Carries(c, o) == deliveries[o].status \in Underway /\ deliveries[o].courier = c

(* docs/architecture.md: the exclusivity of an assignment is confirmed in   *)
(* PostgreSQL.  No two deliveries under way share a courier, whatever Redis *)
(* proposes and however assignment, cancellation, reports and the operator  *)
(* interleave.                                                             *)
CourierExclusive ==
    \A o, p \in Orders, c \in Couriers : Carries(c, o) /\ Carries(c, p) => o = p

(* Assign, cancel, applyPhase and complete keep couriers.status equal to    *)
(* what the deliveries say: no courier is stranded as assigned after its    *)
(* delivery ended, and none is offered again while it is on one.            *)
CourierStatusTruthful ==
    \A c \in Couriers : couriers[c] = "assigned" <=> \E o \in Orders : Carries(c, o)

(* Inbox, row locks and terminal checks together: redelivered, stale or     *)
(* racing events announce a delivery's assignment once, its stages in order *)
(* and its end once; nothing follows the end.                               *)
AnnouncedOnce ==
    \A o \in Orders :
        LET ev == outbox[o]
            stages == <<"delivery.assigned", "delivery.assembling", "delivery.delivering">>
            n == Len(ev) IN
        CASE deliveries[o].status = "none" -> n = 0
          [] deliveries[o].status \in Underway ->
                n \in 1..3 /\ ev = SubSeq(stages, 1, n)
                /\ deliveries[o].status = <<"assigned", "assembling", "delivering">>[n]
          [] OTHER ->
                n \in 2..4 /\ SubSeq(ev, 1, n - 1) = SubSeq(stages, 1, n - 1)
                /\ ev[n] = IF deliveries[o].status = "completed" THEN "delivery.completed"
                           ELSE "delivery.cancelled"

(* Handlers of late reports, of cancellations and of the operator: a        *)
(* completed or cancelled delivery is never touched again, and a delivery   *)
(* never changes hands.                                                     *)
FinishedStaysFinished ==
    [][\A o \in Orders :
          /\ deliveries[o].status \in Terminal => deliveries'[o] = deliveries[o]
          /\ deliveries[o].status # "none" => deliveries'[o].courier = deliveries[o].courier
      ]_vars

(* Delivery README: "Cancellation releases an assigned courier".  Once the  *)
(* order's cancellation has been handled, no courier is on its way for it.  *)
CancelledOrderHasNoCourier ==
    \A o \in Orders : <<"order.cancelled", o>> \in inbox => deliveries[o].status \notin Underway
=============================================================================
