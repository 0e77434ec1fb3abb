------------------------------ MODULE Analytics ------------------------------
(***************************************************************************)
(* analytics-worker: the consumer that projects the events of the domain   *)
(* topics into two ClickHouse tables, and the figures read from them.      *)
(*                                                                         *)
(* An event may need a row in both tables.  ClickHouse has no transaction  *)
(* over the two inserts and no inbox protects them: a record is repeated   *)
(* from the start after a failure, and the copies of a row are merged when *)
(* a query reads (ReplacingMergeTree, FINAL).  The consumer comes back to  *)
(* a backlog; each topic has one partition.  A poll that reports an error  *)
(* is thrown away whole, with the records it brought.                      *)
(***************************************************************************)
EXTENDS Integers, Sequences, FiniteSetsExt, SequencesExt

CONSTANTS
    Topics, NoTopic,
    Backlog,      \* per topic, the events in its partition
    Orders, NoOrder, Products,
    Workers,      \* replicas of the consumer
    MaxAttempts,  \* tries of the handler (3)
    HourLength,   \* time units of an hour
    MaxCopies,    \* bound on the copies of a row that are told apart
    MaxReplays,   \* bound on dead letters republished
    MaxFaults     \* bound on failures of any kind

OrderEvent == {"order.created", "order.confirmed", "order.status_changed"}
DeliveryEvent == {"delivery.assigned", "delivery.status_changed", "delivery.completed",
                  "courier.location_updated"}

(* The event records: type, order (of the payload or, for order events, the  *)
(* aggregate), status, previous, time, items, predicted and actual ETA      *)
(* (-1 for NULL).  Two events never agree in everything, so an event stands *)
(* for its event_id.                                                       *)
Events == UNION {ToSet(Backlog[t]) : t \in Topics}

ASSUME AnalyticsAssumption ==
    /\ IsFiniteSet(Topics)
    /\ Backlog \in [Topics -> Seq(Events)]
    /\ \A e \in Events : e.at \in Int /\ e.items \in [Products -> Nat]
    /\ MaxAttempts \in Nat \ {0} /\ MaxCopies \in Nat \ {0}

VARIABLES
    log,           \* the partitions
    committed,     \* per topic, the offset of the group
    owner,         \* per topic, the worker the partition is assigned to
    position,      \* per topic, where its owner reads next
    discarded,     \* history: per topic, offsets of records thrown away by a poll
    worker,        \* per worker, the record it is working on
    deliveryRows,  \* delivery_events: copies per event
    orderRows,     \* order_analytics: copies per event
    dlq,           \* per topic, the dead letters
    replayed,      \* dead letters republished so far
    faults

groupVars == <<committed, owner, position, discarded>>
tables == <<deliveryRows, orderRows>>
vars == <<log, groupVars, worker, tables, dlq, replayed, faults>>

Idle == [pc |-> "idle", topic |-> NoTopic, offset |-> 0, attempt |-> 1]

Init ==
    /\ log = Backlog
    /\ committed = [t \in Topics |-> 1]
    /\ \E w \in Workers : owner = [t \in Topics |-> w]
    /\ position = [t \in Topics |-> 1]
    /\ discarded = [t \in Topics |-> {}]
    /\ worker = [w \in Workers |-> Idle]
    /\ deliveryRows = [e \in Events |-> 0]
    /\ orderRows = [e \in Events |-> 0]
    /\ dlq = [t \in Topics |-> << >>]
    /\ replayed = 0
    /\ faults = 0

Fault ==
    /\ faults < MaxFaults
    /\ faults' = faults + 1

(***************************************************************************)
(* Projection                                                              *)
(***************************************************************************)
HasDeliveryFact(e) == e.type \in DeliveryEvent
HasOrderFact(e) == e.order # NoOrder /\ e.type \in OrderEvent \cup DeliveryEvent

(* What Project writes as the status of the order fact. *)
FactStatus(e) ==
    CASE e.type = "order.created" -> "created"
      [] e.type = "order.confirmed" -> "confirmed"
      [] OTHER -> e.status

(* The first statement of handling e, and the one after the first insert.   *)
FirstStep(e) ==
    IF HasDeliveryFact(e) THEN "delivery" ELSE IF HasOrderFact(e) THEN "order" ELSE "commit"
AfterDelivery(e) == IF HasOrderFact(e) THEN "order" ELSE "commit"

AddCopy(rows, e) == [rows EXCEPT ![e] = IF @ < MaxCopies THEN @ + 1 ELSE @]

(***************************************************************************)
(* Consumer                                                                *)
(***************************************************************************)
Record(w) == log[worker[w].topic][worker[w].offset]
At(w, step) == worker[w].pc = step
GoTo(w, step) == worker' = [worker EXCEPT ![w].pc = step]

(* The next record of a fetch. *)
Take(w, t) ==
    /\ At(w, "idle")
    /\ owner[t] = w
    /\ position[t] <= Len(log[t])
    /\ worker' = [worker EXCEPT ![w] = [pc |-> FirstStep(log[t][position[t]]), topic |-> t,
                                        offset |-> position[t], attempt |-> 1]]
    /\ position' = [position EXCEPT ![t] = @ + 1]
    /\ UNCHANGED <<log, committed, owner, discarded, tables, dlq, replayed, faults>>

(* The poll also reports an error, of any partition or of the session.  The  *)
(* records it brought of t are not looked at, and the next poll goes on      *)
(* behind them.  (One that brought records of several topics is several of   *)
(* these steps.)                                                           *)
PollFails(w, t) ==
    /\ Fault
    /\ At(w, "idle")
    /\ owner[t] = w
    /\ \E next \in (position[t] + 1)..(Len(log[t]) + 1) :
          /\ position' = [position EXCEPT ![t] = next]
          /\ discarded' = [discarded EXCEPT ![t] = @ \cup position[t]..(next - 1)]
    /\ UNCHANGED <<log, committed, owner, worker, tables, dlq, replayed>>

(* Store.Insert, first statement. *)
InsertDelivery(w) ==
    /\ At(w, "delivery")
    /\ deliveryRows' = AddCopy(deliveryRows, Record(w))
    /\ GoTo(w, AfterDelivery(Record(w)))
    /\ UNCHANGED <<log, groupVars, orderRows, dlq, replayed, faults>>

(* Store.Insert, second statement. *)
InsertOrder(w) ==
    /\ At(w, "order")
    /\ orderRows' = AddCopy(orderRows, Record(w))
    /\ GoTo(w, "commit")
    /\ UNCHANGED <<log, groupVars, deliveryRows, dlq, replayed, faults>>

(* Mutation: a retry goes on after the insert that failed. *)
RetryNextStatement(w) ==
    worker' = [worker EXCEPT ![w] =
        IF @.attempt < MaxAttempts
        THEN [@ EXCEPT !.pc = IF @ = "delivery" THEN AfterDelivery(Record(w)) ELSE @,
                       !.attempt = @ + 1]
        ELSE [@ EXCEPT !.pc = "deadletter"]]

(* kafkax.Process: the whole handler again, or the dead letter. *)
Retry(w) ==
    worker' = [worker EXCEPT ![w] =
        IF @.attempt < MaxAttempts
        THEN [@ EXCEPT !.pc = FirstStep(Record(w)), !.attempt = worker[w].attempt + 1]
        ELSE [@ EXCEPT !.pc = "deadletter"]]

(* ClickHouse answers with an error, or not at all: the row may be there.   *)
InsertFails(w) ==
    /\ Fault
    /\ \/ At(w, "delivery") /\ deliveryRows' \in {deliveryRows, AddCopy(deliveryRows, Record(w))}
          /\ UNCHANGED orderRows
       \/ At(w, "order") /\ orderRows' \in {orderRows, AddCopy(orderRows, Record(w))}
          /\ UNCHANGED deliveryRows
    /\ Retry(w)
    /\ UNCHANGED <<log, groupVars, dlq, replayed>>

(* Mutation: a record tried often enough is given up. *)
PublishNoDeadLetter(w) ==
    /\ At(w, "deadletter")
    /\ GoTo(w, "commit")
    /\ UNCHANGED <<log, groupVars, tables, dlq, replayed, faults>>

PublishDeadLetter(w) ==
    /\ At(w, "deadletter")
    /\ dlq' = [dlq EXCEPT ![worker[w].topic] = Append(@, Record(w))]
    /\ GoTo(w, "commit")
    /\ UNCHANGED <<log, groupVars, tables, replayed, faults>>

(* Mutation: the offset of the next record is counted twice. *)
CommitAhead(w) ==
    LET t == worker[w].topic IN
    /\ At(w, "commit")
    /\ \/ committed' = [committed EXCEPT ![t] = worker[w].offset + 2] /\ UNCHANGED faults
       \/ UNCHANGED committed /\ Fault
    /\ worker' = [worker EXCEPT ![w] = Idle]
    /\ UNCHANGED <<log, owner, position, discarded, tables, dlq, replayed>>

(* CommitRecords; its failure is only logged. *)
Commit(w) ==
    LET t == worker[w].topic IN
    /\ At(w, "commit")
    /\ \/ committed' = [committed EXCEPT ![t] = worker[w].offset + 1] /\ UNCHANGED faults
       \/ UNCHANGED committed /\ Fault
    /\ worker' = [worker EXCEPT ![w] = Idle]
    /\ UNCHANGED <<log, owner, position, discarded, tables, dlq, replayed>>

(* A rebalance: the new owner starts at the group's offset; the former one   *)
(* finishes the record it is working on.  (Messaging has the rest of what a *)
(* member fetched, which it works through and commits all the same.)        *)
Rebalance(t, w) ==
    /\ Fault
    /\ owner[t] # w
    /\ owner' = [owner EXCEPT ![t] = w]
    /\ position' = [position EXCEPT ![t] = committed[t]]
    /\ UNCHANGED <<log, committed, discarded, worker, tables, dlq, replayed>>

(* A worker dies, also between the two inserts, and comes back. *)
Restart(w) ==
    /\ Fault
    /\ worker' = [worker EXCEPT ![w] = Idle]
    /\ position' = [t \in Topics |-> IF owner[t] = w THEN committed[t] ELSE position[t]]
    /\ UNCHANGED <<log, committed, owner, discarded, tables, dlq, replayed>>

(* dlq-replay --execute puts a dead letter at the end of its topic. *)
Replay(t) ==
    /\ replayed < MaxReplays
    /\ \E e \in ToSet(dlq[t]) : log' = [log EXCEPT ![t] = Append(@, e)]
    /\ replayed' = replayed + 1
    /\ UNCHANGED <<groupVars, worker, tables, dlq, faults>>

WorkerStep(w) ==
    \/ \E t \in Topics : Take(w, t)
    \/ InsertDelivery(w) \/ InsertOrder(w) \/ InsertFails(w)
    \/ PublishDeadLetter(w)
    \/ Commit(w)

Next ==
    \/ \E w \in Workers : WorkerStep(w) \/ Restart(w) \/ \E t \in Topics : PollFails(w, t)
    \/ \E t \in Topics : Replay(t) \/ \E w \in Workers : Rebalance(t, w)

Spec == Init /\ [][Next]_vars

(* The workers poll for ever; ClickHouse and Kafka answer in the end, for    *)
(* failures are finitely many.                                             *)
FairSpec == Spec /\ \A w \in Workers : WF_vars(WorkerStep(w))

(***************************************************************************)
(* Figures.  Each is a query over a table; the same query over the backlog *)
(* is the truth, so a table is a parameter: copies per event.              *)
(***************************************************************************)
Truth == [e \in Events |-> IF HasOrderFact(e) THEN 1 ELSE 0]

(* Mutation: FINAL is forgotten. *)
FinalRaw(rows, e) == rows[e]

(* FINAL: the copies of a row count once. *)
Final(rows, e) == IF rows[e] > 0 THEN 1 ELSE 0

Selected(rows, types) == {e \in Events : Final(rows, e) > 0 /\ e.type \in types}
Created(rows) == Selected(rows, {"order.created"})

OrdersByHour(rows) ==
    [h \in {e.at \div HourLength : e \in Created(rows)} |->
        MapThenSumSet(LAMBDA e : Final(rows, e), {e \in Created(rows) : e.at \div HourLength = h})]

PopularProducts(rows) ==
    [p \in Products |->
        MapThenSumSet(LAMBDA e : Final(rows, e) * e.items[p], Created(rows))]

(* countDistinct(order_id) *)
Cancellations(rows) ==
    Cardinality({e.order : e \in {f \in Events : Final(rows, f) > 0 /\ FactStatus(f) = "cancelled"}})

(* DeliverySLO and OnTimeRatio: completions with both ETAs known, and those  *)
(* of them on time.  An operator's completion names no prediction.          *)
Completed(rows) ==
    {e \in Selected(rows, {"delivery.completed"}) : e.predicted >= 0 /\ e.actual >= 0}
DeliverySLO(rows) ==
    [completed |-> MapThenSumSet(LAMBDA e : Final(rows, e), Completed(rows)),
     onTime |-> MapThenSumSet(LAMBDA e : Final(rows, e),
                              {e \in Completed(rows) : e.actual <= e.predicted})]

(* The rows before e in the window of its order. *)
Earlier(rows, e) ==
    {d \in Selected(rows, {"order.created", "order.status_changed"}) :
        d.order = e.order /\ d.at < e.at}

(* StatusDurations, before the average: the time since the row before e, for *)
(* the status e leaves.                                                     *)
StatusDurations(rows) ==
    {[order |-> e.order, status |-> e.previous,
      duration |-> e.at - Max({d.at : d \in Earlier(rows, e)})] :
     e \in {f \in Selected(rows, {"order.created", "order.status_changed"}) :
               f.previous # "none" /\ Earlier(rows, f) # {}}}

(***************************************************************************)
(* Properties                                                              *)
(***************************************************************************)

(* Types; the offsets never point beyond the partitions. *)
AnalyticsTypeOK ==
    /\ \A t \in Topics :
          /\ log[t] \in Seq(Events) /\ dlq[t] \in Seq(Events)
          /\ committed[t] \in 1..(Len(log[t]) + 1)
          /\ position[t] \in committed[t]..(Len(log[t]) + 1) \/ position[t] \in 1..committed[t]
          /\ discarded[t] \subseteq 1..Len(log[t])
    /\ owner \in [Topics -> Workers]
    /\ \A w \in Workers :
          /\ worker[w].pc \in {"idle", "delivery", "order", "deadletter", "commit"}
          /\ worker[w].attempt \in 1..MaxAttempts
    /\ deliveryRows \in [Events -> 0..MaxCopies]
    /\ orderRows \in [Events -> 0..MaxCopies]

Projected(e) ==
    /\ HasDeliveryFact(e) => deliveryRows[e] > 0
    /\ HasOrderFact(e) => orderRows[e] > 0

Settled(t, e) == Projected(e) \/ e \in ToSet(dlq[t])

(* store.go:25, two inserts without a transaction, and consumer.go:33.       *)
(* Whatever fails or stops between the inserts, also with the answer lost,   *)
(* a record the group has passed has all its rows, is a dead letter, or was  *)
(* itself thrown away by a poll with an error.                             *)
Passable(t, i) == i \in discarded[t] \/ Settled(t, log[t][i])

ForgottenOnlyByFailedPoll ==
    \A t \in Topics : \A i \in 1..(committed[t] - 1) : Passable(t, i)

(* e is a dead letter, or a record of it was thrown away by a poll. *)
Missed(t, e) == e \in ToSet(dlq[t]) \/ \E i \in discarded[t] : log[t][i] = e

(* The topics show the history of an order as it was: its events are in one  *)
(* partition, an earlier one before a later one.                           *)
Precedes(f, e) ==
    /\ {f.type, e.type} \subseteq {"order.created", "order.status_changed"}
    /\ f.order = e.order /\ f.at < e.at

BacklogInOrder ==
    \A t, u \in Topics : \A i \in DOMAIN Backlog[t], j \in DOMAIN Backlog[u] :
        Precedes(Backlog[t][i], Backlog[u][j]) => t = u /\ i < j

(* README.md, step 11: a stable event_id, ReplacingMergeTree and FINAL       *)
(* suppress the effect of a repeated delivery.  A figure read at any time,   *)
(* between the inserts or while records are repeated, never counts more      *)
(* than what happened; and a duration is that of the history unless an event *)
(* of the order is missing, dead-lettered or thrown away by a poll: its time *)
(* then goes to a neighbour.                                               *)
FiguresTrue ==
    LET hours == OrdersByHour(orderRows)
        slo == DeliverySLO(orderRows) IN
    /\ \A h \in DOMAIN hours : hours[h] <= OrdersByHour(Truth)[h]
    /\ \A p \in Products : PopularProducts(orderRows)[p] <= PopularProducts(Truth)[p]
    /\ Cancellations(orderRows) <= Cancellations(Truth)
    /\ slo.completed <= DeliverySLO(Truth).completed
    /\ slo.onTime <= DeliverySLO(Truth).onTime
    /\ \A d \in StatusDurations(orderRows) \ StatusDurations(Truth) :
          \E t \in Topics, e \in Events : e.order = d.order /\ Missed(t, e)

(* The dashboard comes to agree with what happened: when failures stop, an   *)
(* event is projected unless it is a dead letter or a poll threw it away,    *)
(* and when those are projected too, by a replay or because they were        *)
(* fetched again, every figure is exact.                                   *)
Exact ==
    /\ OrdersByHour(orderRows) = OrdersByHour(Truth)
    /\ PopularProducts(orderRows) = PopularProducts(Truth)
    /\ Cancellations(orderRows) = Cancellations(Truth)
    /\ DeliverySLO(orderRows) = DeliverySLO(Truth)
    /\ StatusDurations(orderRows) = StatusDurations(Truth)

SummaryConverges ==
    <>[](/\ \A t \in Topics : \A e \in ToSet(Backlog[t]) : Projected(e) \/ Missed(t, e)
         /\ (\A t \in Topics : \A e \in Events : Missed(t, e) => Projected(e)) => Exact)
=============================================================================
