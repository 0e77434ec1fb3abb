------------------------------ MODULE Lifecycle ------------------------------
(***************************************************************************)
(* An order from checkout to the door: order-service and delivery-service, *)
(* each the consumer of the other's topic, the courier-simulator that      *)
(* advances deliveries, the dispatcher, the dead letter topics and their   *)
(* replay.                                                                 *)
(*                                                                         *)
(* Here the topics are queues, per order (the partition key) and per       *)
(* courier: what the services do when nothing is reordered, and whether    *)
(* they get to the end.  Delivery checks each handler against events in    *)
(* any order; Messaging shows how an outbox row becomes a handled or dead- *)
(* lettered record, once or more.  A handler that succeeds, one that is    *)
(* refused three times and one that fails three times are steps, and so is *)
(* an event that a poll with an error threw away for good (one that is     *)
(* fetched again in its place was not thrown away, as far as a queue goes; *)
(* one that is fetched again behind later ones is Delivery's).             *)
(***************************************************************************)
EXTENDS Integers, Sequences, FiniteSets, SequencesExt

CONSTANTS
    Orders, Couriers, NoCourier,
    AssemblingUntil,  \* seconds since the assignment during which the simulator says assembling (3)
    DeliveringUntil,  \* and then delivering (15)
    DelayStep,        \* operator delay (10)
    MaxDelay,         \* cap of simulation_delay_seconds (600)
    MaxAge,           \* where the time since an assignment stops being counted
    MaxLag,           \* seconds of reports the consumer may be behind
    MaxLost,          \* bound on location reports that never take effect
    MaxFailures,      \* bound on order and delivery events that fail three times or are discarded
    MaxReplays        \* bound on runs of dlq-replay

ASSUME LifecycleAssumption ==
    /\ NoCourier \notin Couriers
    /\ {AssemblingUntil, DeliveringUntil, DelayStep, MaxDelay, MaxAge, MaxLag,
        MaxLost, MaxFailures, MaxReplays} \subseteq Nat
    /\ 0 < AssemblingUntil
    /\ AssemblingUntil < DeliveringUntil
    /\ DeliveringUntil + MaxDelay <= MaxAge
    /\ MaxLag > 0

VARIABLES
    orders,         \* orders.orders.status
    deliveries,     \* delivery.deliveries
    age,            \* seconds since assigned_at, per delivery
    orderTopic,     \* freshflow.order.events.v1, per order: what delivery-service has yet to handle
    deliveryTopic,  \* freshflow.delivery.events.v1, per order: what order-service has yet to handle
    locationTopic,  \* freshflow.courier.location.v1, per courier
    orderDead,      \* the dead letters of the order topic, per order
    deliveryDead,   \* the dead letters of the delivery topic, per order
    discarded,      \* history: events thrown away by a poll of either consumer, per order
    processed,      \* both services' processed_events: events per order
    elsewhere,      \* couriers on deliveries of orders that are not in Orders
    lost, failures, replays

topics == <<orderTopic, deliveryTopic, locationTopic>>
dead == <<orderDead, deliveryDead, discarded>>
budget == <<lost, failures, replays>>
vars == <<orders, deliveries, age, topics, dead, processed, elsewhere, budget>>

Underway == {"assigned", "assembling", "delivering"}
Phases == {"assembling", "delivering", "completed"}
OrderEvents == {"order.created", "order.cancelled"}

NoDeliveryRow == [status |-> "none", courier |-> NoCourier, delay |-> 0]

(* An event of the delivery topic is named by the status it announces.      *)
(* delivery.delay_injected, which no consumer here acts on, is left out.    *)
Init ==
    /\ orders = [o \in Orders |-> "none"]
    /\ deliveries = [o \in Orders |-> NoDeliveryRow]
    /\ age = [o \in Orders |-> 0]
    /\ orderTopic = [o \in Orders |-> << >>]
    /\ deliveryTopic = [o \in Orders |-> << >>]
    /\ locationTopic = [c \in Couriers |-> << >>]
    /\ orderDead = [o \in Orders |-> << >>]
    /\ deliveryDead = [o \in Orders |-> << >>]
    /\ discarded = [o \in Orders |-> {}]
    /\ processed = [o \in Orders |-> {}]
    /\ elsewhere = {}
    /\ lost = 0 /\ failures = 0 /\ replays = 0

(***************************************************************************)
(* order-service, HTTP                                                     *)
(***************************************************************************)
Create(o) ==
    /\ orders[o] = "none"
    /\ orders' = [orders EXCEPT ![o] = "created"]
    /\ orderTopic' = [orderTopic EXCEPT ![o] = Append(@, "order.created")]
    /\ UNCHANGED <<deliveries, age, deliveryTopic, locationTopic, dead, processed, elsewhere, budget>>

Cancel(o) ==
    /\ orders[o] \in {"created", "confirmed"}
    /\ orders' = [orders EXCEPT ![o] = "cancelled"]
    /\ orderTopic' = [orderTopic EXCEPT ![o] = Append(@, "order.cancelled")]
    /\ UNCHANGED <<deliveries, age, deliveryTopic, locationTopic, dead, processed, elsewhere, budget>>

(***************************************************************************)
(* delivery-service, order events                                          *)
(***************************************************************************)
NextOrderEvent(o, e) == orderTopic[o] # << >> /\ Head(orderTopic[o]) = e

Mark(o, e) == processed' = [processed EXCEPT ![o] = @ \cup {e}]

(* The status of o's delivery becomes s and the outbox says so. *)
Announce(o, s) == deliveryTopic' = [deliveryTopic EXCEPT ![o] = Append(@, s)]

Carries(c, o) == deliveries[o].status \in Underway /\ deliveries[o].courier = c
Available == {c \in Couriers \ elsewhere : \A o \in Orders : ~Carries(c, o)}

Assign(o) ==
    /\ NextOrderEvent(o, "order.created")
    /\ "order.created" \notin processed[o]
    /\ \E c \in Available :
          deliveries' = [deliveries EXCEPT ![o] = [status |-> "assigned", courier |-> c, delay |-> 0]]
    /\ age' = [age EXCEPT ![o] = 0]
    /\ Announce(o, "assigned")
    /\ Mark(o, "order.created")

CancelDelivery(o) ==
    /\ NextOrderEvent(o, "order.cancelled")
    /\ "order.cancelled" \notin processed[o]
    /\ IF deliveries[o].status \in Underway
       THEN /\ deliveries' = [deliveries EXCEPT ![o].status = "cancelled"]
            /\ Announce(o, "cancelled")
       ELSE UNCHANGED <<deliveries, deliveryTopic>>
    /\ Mark(o, "order.cancelled")
    /\ UNCHANGED age

(* A replayed event that was already handled. *)
SkipOrderEvent(o) ==
    /\ orderTopic[o] # << >>
    /\ Head(orderTopic[o]) \in processed[o]
    /\ UNCHANGED <<deliveries, age, deliveryTopic, processed>>

DequeueOrderEvent(o) == orderTopic' = [orderTopic EXCEPT ![o] = Tail(@)]
BuryOrderEvent(o) == orderDead' = [orderDead EXCEPT ![o] = Append(@, Head(orderTopic[o]))]

HandleOrderEvent(o) ==
    /\ Assign(o) \/ CancelDelivery(o) \/ SkipOrderEvent(o)
    /\ DequeueOrderEvent(o)
    /\ UNCHANGED <<orders, locationTopic, dead, elsewhere, budget>>

(* Mutation: finding nobody is not an error. *)
NobodyAvailableIgnored(o) ==
    /\ NextOrderEvent(o, "order.created")
    /\ "order.created" \notin processed[o]
    /\ Available = {}
    /\ DequeueOrderEvent(o)
    /\ UNCHANGED <<orders, deliveries, age, deliveryTopic, locationTopic, dead, processed,
                   elsewhere, budget>>

(* Consumer.assign when every courier is busy, three times within a second. *)
NobodyAvailable(o) ==
    /\ NextOrderEvent(o, "order.created")
    /\ "order.created" \notin processed[o]
    /\ Available = {}
    /\ DequeueOrderEvent(o)
    /\ BuryOrderEvent(o)
    /\ UNCHANGED <<orders, deliveries, age, deliveryTopic, locationTopic, deliveryDead, discarded,
                   processed, elsewhere, budget>>

(* PostgreSQL or Redis fails during all three tries. *)
OrderEventFails(o) ==
    /\ orderTopic[o] # << >>
    /\ failures < MaxFailures
    /\ failures' = failures + 1
    /\ DequeueOrderEvent(o)
    /\ BuryOrderEvent(o)
    /\ UNCHANGED <<orders, deliveries, age, deliveryTopic, locationTopic, deliveryDead, discarded,
                   processed, elsewhere, lost, replays>>

(* A poll of delivery-service reports an error, of any partition or of the  *)
(* session; what it brought is not looked at, and later commits go past it. *)
OrderEventDiscarded(o) ==
    /\ orderTopic[o] # << >>
    /\ failures < MaxFailures
    /\ failures' = failures + 1
    /\ DequeueOrderEvent(o)
    /\ discarded' = [discarded EXCEPT ![o] = @ \cup {Head(orderTopic[o])}]
    /\ UNCHANGED <<orders, deliveries, age, deliveryTopic, locationTopic, orderDead, deliveryDead,
                   processed, elsewhere, lost, replays>>

(***************************************************************************)
(* courier-simulator                                                       *)
(***************************************************************************)
Elapsed(o) == age[o] - deliveries[o].delay

(* simulatedLocation *)
PhaseOf(o) ==
    IF Elapsed(o) < AssemblingUntil THEN "assembling"
    ELSE IF Elapsed(o) < DeliveringUntil THEN "delivering"
    ELSE "completed"

(* The reports of one tick about deliveries; a courier without one reports  *)
(* a position only.                                                         *)
ReportsOf(c) ==
    {[delivery |-> o, phase |-> PhaseOf(o)] : o \in {p \in Orders : Carries(c, p)}}

ActiveOrders == {o \in Orders : deliveries[o].status \in Underway}

(* Mutation: the second passes before the tick looks at the clock. *)
TickLate ==
    LET later(o) == [delivery |-> o, phase |->
            IF Elapsed(o) + 1 < AssemblingUntil THEN "assembling"
            ELSE IF Elapsed(o) + 1 < DeliveringUntil THEN "delivering" ELSE "completed"] IN
    /\ ActiveOrders # {}
    /\ \A c \in Couriers : Len(locationTopic[c]) < MaxLag
    /\ locationTopic' = [c \in Couriers |->
            locationTopic[c] \o SetToSeq({later(o) : o \in {p \in Orders : Carries(c, p)}})]
    /\ age' = [o \in Orders |-> IF o \in ActiveOrders /\ age[o] < MaxAge THEN age[o] + 1 ELSE age[o]]
    /\ UNCHANGED <<orders, deliveries, orderTopic, deliveryTopic, dead, processed, elsewhere, budget>>

(* Runner.tick, every second.  The consumer is at most MaxLag reports behind. *)
Tick ==
    /\ ActiveOrders # {}
    /\ \A c \in Couriers : Len(locationTopic[c]) < MaxLag
    /\ locationTopic' = [c \in Couriers |-> locationTopic[c] \o SetToSeq(ReportsOf(c))]
    /\ age' = [o \in Orders |-> IF o \in ActiveOrders /\ age[o] < MaxAge THEN age[o] + 1 ELSE age[o]]
    /\ UNCHANGED <<orders, deliveries, orderTopic, deliveryTopic, dead, processed, elsewhere, budget>>

(***************************************************************************)
(* delivery-service, location events                                       *)
(***************************************************************************)
(* Mutation: the last row of the table is missing. *)
validDeliveryTransitionOpen(current, target) ==
    \/ current = "assigned" /\ target = "assembling"
    \/ current = "assembling" /\ target = "delivering"

validDeliveryTransition(current, target) ==
    \/ current = "assigned" /\ target = "assembling"
    \/ current = "assembling" /\ target = "delivering"
    \/ current = "delivering" /\ target = "completed"

(* applyPhase.  A phase the delivery already has changes nothing; one that  *)
(* does not follow is refused and dead-lettered, which here is the end of   *)
(* it: replayed, it is older than the courier's later reports.              *)
HandleReport(c) ==
    /\ locationTopic[c] # << >>
    /\ locationTopic' = [locationTopic EXCEPT ![c] = Tail(@)]
    /\ LET r == Head(locationTopic[c]) IN
       IF validDeliveryTransition(deliveries[r.delivery].status, r.phase)
       THEN /\ deliveries' = [deliveries EXCEPT ![r.delivery].status = r.phase]
            /\ Announce(r.delivery, r.phase)
       ELSE UNCHANGED <<deliveries, deliveryTopic>>
    /\ UNCHANGED <<orders, age, orderTopic, dead, processed, elsewhere, budget>>

(* The assignments could not be fetched, the report not be published, the   *)
(* simulator was down for a second, the handler failed three times, or the  *)
(* poll that brought the report was thrown away.                            *)
LoseReport(c) ==
    /\ locationTopic[c] # << >>
    /\ lost < MaxLost
    /\ lost' = lost + 1
    /\ locationTopic' = [locationTopic EXCEPT ![c] = Tail(@)]
    /\ UNCHANGED <<orders, deliveries, age, orderTopic, deliveryTopic, dead, processed, elsewhere,
                   failures, replays>>

(***************************************************************************)
(* delivery-service, dispatcher                                            *)
(***************************************************************************)
Delay(o) ==
    /\ deliveries[o].status \in Underway
    /\ deliveries[o].delay < MaxDelay
    /\ deliveries' = [deliveries EXCEPT ![o].delay =
                        IF @ + DelayStep > MaxDelay THEN MaxDelay ELSE @ + DelayStep]
    /\ UNCHANGED <<orders, age, topics, dead, processed, elsewhere, budget>>

(* Mutation: the order's word for it is written into the delivery. *)
CompleteAsDelivered(o) ==
    /\ deliveries[o].status \in Underway
    /\ deliveries' = [deliveries EXCEPT ![o].status = "delivered"]
    /\ Announce(o, "completed")
    /\ UNCHANGED <<orders, age, orderTopic, locationTopic, dead, processed, elsewhere, budget>>

Complete(o) ==
    /\ deliveries[o].status \in Underway
    /\ deliveries' = [deliveries EXCEPT ![o].status = "completed"]
    /\ Announce(o, "completed")
    /\ UNCHANGED <<orders, age, orderTopic, locationTopic, dead, processed, elsewhere, budget>>

(***************************************************************************)
(* order-service, delivery events                                          *)
(***************************************************************************)

(* The order status a delivery event asks for; delivery.cancelled asks none. *)
Target(e) ==
    CASE e = "assigned" -> "confirmed"
      [] e = "completed" -> "delivered"
      [] OTHER -> e

(* Mutation: the fast-forward of an operator's completion is forgotten. *)
validTransitionStrict(current, target) ==
    \/ current = "created" /\ target = "confirmed"
    \/ current = "confirmed" /\ target = "assembling"
    \/ current = "assembling" /\ target = "delivering"
    \/ current = "delivering" /\ target = "delivered"

validTransition(current, target) ==
    \/ current = "created" /\ target = "confirmed"
    \/ current = "confirmed" /\ target \in {"assembling", "delivered"}
    \/ current = "assembling" /\ target \in {"delivering", "delivered"}
    \/ current = "delivering" /\ target = "delivered"

DequeueDeliveryEvent(o) == deliveryTopic' = [deliveryTopic EXCEPT ![o] = Tail(@)]
BuryDeliveryEvent(o) == deliveryDead' = [deliveryDead EXCEPT ![o] = Append(@, Head(deliveryTopic[o]))]

(* Neither marked nor refused (cancelled), already handled, what the order  *)
(* already says, or too late for a cancelled order.                         *)
NothingToDo(o, e) ==
    \/ e = "cancelled"
    \/ e \in processed[o]
    \/ orders[o] \in {Target(e), "cancelled"}

(* Mutation: a completion is not mapped to a status. *)
HandleDeliveryEventPartly(o) ==
    /\ deliveryTopic[o] # << >>
    /\ LET e == Head(deliveryTopic[o]) IN
       /\ IF NothingToDo(o, e) \/ e = "completed" THEN UNCHANGED orders
          ELSE /\ validTransition(orders[o], Target(e))
               /\ orders' = [orders EXCEPT ![o] = Target(e)]
       /\ IF e = "cancelled" THEN UNCHANGED processed ELSE Mark(o, e)
    /\ DequeueDeliveryEvent(o)
    /\ UNCHANGED <<deliveries, age, orderTopic, locationTopic, dead, elsewhere, budget>>

(* EventConsumer.handle when it commits. *)
HandleDeliveryEvent(o) ==
    /\ deliveryTopic[o] # << >>
    /\ LET e == Head(deliveryTopic[o]) IN
       /\ IF NothingToDo(o, e) THEN UNCHANGED orders
          ELSE /\ validTransition(orders[o], Target(e))
               /\ orders' = [orders EXCEPT ![o] = Target(e)]
       /\ IF e = "cancelled" THEN UNCHANGED processed ELSE Mark(o, e)
    /\ DequeueDeliveryEvent(o)
    /\ UNCHANGED <<deliveries, age, orderTopic, locationTopic, dead, elsewhere, budget>>

(* Mutation: the mark of a refused event is kept. *)
RefuseAndMark(o) ==
    /\ deliveryTopic[o] # << >>
    /\ LET e == Head(deliveryTopic[o]) IN
       /\ ~NothingToDo(o, e)
       /\ ~validTransition(orders[o], Target(e))
       /\ Mark(o, e)
    /\ BuryDeliveryEvent(o)
    /\ DequeueDeliveryEvent(o)
    /\ UNCHANGED <<orders, deliveries, age, orderTopic, locationTopic, orderDead, discarded, elsewhere,
                   budget>>

(* An event whose transition is invalid, three times over. *)
RefuseDeliveryEvent(o) ==
    /\ deliveryTopic[o] # << >>
    /\ LET e == Head(deliveryTopic[o]) IN
       /\ ~NothingToDo(o, e)
       /\ ~validTransition(orders[o], Target(e))
    /\ BuryDeliveryEvent(o)
    /\ DequeueDeliveryEvent(o)
    /\ UNCHANGED <<orders, deliveries, age, orderTopic, locationTopic, orderDead, discarded,
                   processed, elsewhere, budget>>

DeliveryEventFails(o) ==
    /\ deliveryTopic[o] # << >>
    /\ failures < MaxFailures
    /\ failures' = failures + 1
    /\ BuryDeliveryEvent(o)
    /\ DequeueDeliveryEvent(o)
    /\ UNCHANGED <<orders, deliveries, age, orderTopic, locationTopic, orderDead, discarded,
                   processed, elsewhere, lost, replays>>

(* The same in order-service. *)
DeliveryEventDiscarded(o) ==
    /\ deliveryTopic[o] # << >>
    /\ failures < MaxFailures
    /\ failures' = failures + 1
    /\ DequeueDeliveryEvent(o)
    /\ discarded' = [discarded EXCEPT ![o] = @ \cup {Head(deliveryTopic[o])}]
    /\ UNCHANGED <<orders, deliveries, age, orderTopic, locationTopic, orderDead, deliveryDead,
                   processed, elsewhere, lost, replays>>

(***************************************************************************)
(* dlq-replay: the dead letters of one topic, from the first               *)
(***************************************************************************)
ReplayOrderEvents(o) ==
    /\ orderDead[o] # << >>
    /\ replays < MaxReplays
    /\ replays' = replays + 1
    /\ orderTopic' = [orderTopic EXCEPT ![o] = @ \o orderDead[o]]
    /\ UNCHANGED <<orders, deliveries, age, deliveryTopic, locationTopic, dead, processed, elsewhere,
                   lost, failures>>

ReplayDeliveryEvents(o) ==
    /\ deliveryDead[o] # << >>
    /\ replays < MaxReplays
    /\ replays' = replays + 1
    /\ deliveryTopic' = [deliveryTopic EXCEPT ![o] = @ \o deliveryDead[o]]
    /\ UNCHANGED <<orders, deliveries, age, orderTopic, locationTopic, dead, processed, elsewhere,
                   lost, failures>>

(***************************************************************************)
(* Orders outside Orders, which share nothing with these but the couriers  *)
(***************************************************************************)
TakenElsewhere(c) ==
    /\ elsewhere' = elsewhere \cup ({c} \cap Available)
    /\ elsewhere' # elsewhere
    /\ UNCHANGED <<orders, deliveries, age, topics, dead, processed, budget>>

BackFromElsewhere(c) ==
    /\ elsewhere' = elsewhere \ {c}
    /\ elsewhere' # elsewhere
    /\ UNCHANGED <<orders, deliveries, age, topics, dead, processed, budget>>

ConsumeOrderEvent(o) == HandleOrderEvent(o) \/ NobodyAvailable(o)
ConsumeDeliveryEvent(o) == HandleDeliveryEvent(o) \/ RefuseDeliveryEvent(o)

Next ==
    \/ \E o \in Orders :
          \/ Create(o) \/ Cancel(o)
          \/ ConsumeOrderEvent(o) \/ OrderEventFails(o) \/ OrderEventDiscarded(o)
          \/ ConsumeDeliveryEvent(o) \/ DeliveryEventFails(o) \/ DeliveryEventDiscarded(o)
          \/ Delay(o) \/ Complete(o)
          \/ ReplayOrderEvents(o) \/ ReplayDeliveryEvents(o)
    \/ \E c \in Couriers : HandleReport(c) \/ LoseReport(c) \/ TakenElsewhere(c) \/ BackFromElsewhere(c)
    \/ Tick

Spec == Init /\ [][Next]_vars

(* The consumers poll and the ticker fires for as long as the processes     *)
(* run; customers, the dispatcher, failures and replays owe nothing.        *)
Fairness ==
    /\ \A o \in Orders : WF_vars(ConsumeOrderEvent(o)) /\ WF_vars(ConsumeDeliveryEvent(o))
    /\ \A c \in Couriers : WF_vars(HandleReport(c))
    /\ WF_vars(Tick)

FairSpec == Spec /\ Fairness

(***************************************************************************)
(* Properties                                                              *)
(***************************************************************************)

(* Types; one courier carries at most one delivery, so a tick reports one. *)
TypeOK ==
    /\ orders \in [Orders -> {"none", "created", "confirmed", "assembling", "delivering",
                              "delivered", "cancelled"}]
    /\ deliveries \in [Orders -> [status : {"none", "completed", "cancelled"} \cup Underway,
                                  courier : Couriers \cup {NoCourier}, delay : 0..MaxDelay]]
    /\ age \in [Orders -> 0..MaxAge]
    /\ orderTopic \in [Orders -> Seq(OrderEvents)]
    /\ orderDead \in [Orders -> Seq(OrderEvents)]
    /\ deliveryTopic \in [Orders -> Seq(Underway \cup {"completed", "cancelled"})]
    /\ deliveryDead \in [Orders -> Seq(Underway \cup {"completed", "cancelled"})]
    /\ discarded \in [Orders -> SUBSET (OrderEvents \cup Underway \cup {"completed", "cancelled"})]
    /\ \A c \in Couriers :
          /\ locationTopic[c] \in Seq([delivery : Orders, phase : Phases])
          /\ Cardinality(ReportsOf(c)) <= 1
    /\ \A o \in Orders :
          processed[o] \subseteq OrderEvents \cup Underway \cup {"completed"}
    /\ elsewhere \subseteq Couriers

(* Dead letters that were not handled by a replay, and what polls threw     *)
(* away.                                                                   *)
Unhandled(o) ==
    (ToSet(orderDead[o]) \cup ToSet(deliveryDead[o]) \cup discarded[o]) \ (processed[o] \cup {"cancelled"})

(* Nothing about o is under way between the services. *)
Quiet(o) == orderTopic[o] = << >> /\ deliveryTopic[o] = << >>

(* services/order-service/README.md and delivery-service/README.md: each    *)
(* side follows the other's events.  When they have all been handled, none  *)
(* of them left in a dead letter topic or lost with a failed poll, with     *)
(* failures, dead letters and replays on the way, both databases tell the   *)
(* same story about the order: it is where its delivery is, or it was       *)
(* cancelled.                                                              *)
AgreeWhenSettled ==
    \A o \in Orders :
        Quiet(o) /\ Unhandled(o) = {} /\ orders[o] # "cancelled" =>
            orders[o] = Target(deliveries[o].status)

(* order-service consumer.go:109 and :142: a cancellation in between, the   *)
(* operator's completion from any status and repeated reports are no reason *)
(* to refuse.  As long as no handler failed for a cause of its own and no   *)
(* poll threw an event away, order-service dead-letters no delivery event.  *)
RefusedOnlyAfterFailure ==
    (\E o \in Orders : deliveryDead[o] # << >>) => failures > 0

(* The status the consumer waits for, when the simulator no longer says it  *)
(* and no report that does is queued.                                      *)
Coming(o, phase) ==
    \E i \in DOMAIN locationTopic[deliveries[o].courier] :
        locationTopic[deliveries[o].courier][i] = [delivery |-> o, phase |-> phase]

Stranded(o) ==
    \/ /\ deliveries[o].status = "assigned"
       /\ Elapsed(o) >= AssemblingUntil
       /\ ~Coming(o, "assembling")
    \/ /\ deliveries[o].status = "assembling"
       /\ Elapsed(o) >= DeliveringUntil
       /\ ~Coming(o, "delivering")

(* simulatedLocation against validDeliveryTransition: however the operator  *)
(* delays and completes, customers cancel and the consumer lags, a delivery *)
(* is left behind by its courier's phases only when a report was lost.      *)
StrandedOnlyByLoss ==
    (\E o \in Orders : Stranded(o)) => lost > 0

(* services/courier-simulator/README.md: active assignments are advanced to *)
(* completed.  A delivery under way ends, unless its courier's phases left  *)
(* it behind.                                                              *)
DeliveriesEndOrStrand ==
    \A o \in Orders :
        [](deliveries[o].status \in Underway =>
             <>(deliveries[o].status \in {"completed", "cancelled"} \/ Stranded(o)))

(* A created order gets a courier, is cancelled, is in a dead letter topic, *)
(* or an event of it was lost with a failed poll: otherwise it is never     *)
(* forgotten, in particular not when every courier is busy.                *)
CreatedOrdersSettle ==
    \A o \in Orders :
        orders[o] = "created" ~> (orders[o] # "created" \/ Unhandled(o) # {})

(* The end of a delivery reaches its order, or news of it are a dead letter *)
(* or were lost with a failed poll.                                        *)
OrdersLearnTheEnd ==
    \A o \in Orders :
        deliveries[o].status = "completed" ~>
            (orders[o] \in {"delivered", "cancelled"} \/ Unhandled(o) # {})
=============================================================================
