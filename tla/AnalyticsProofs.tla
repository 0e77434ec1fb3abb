--------------------------- MODULE AnalyticsProofs ---------------------------
(***************************************************************************)
(* Proofs about Analytics, for any backlog, any number of topics, workers, *)
(* rebalances, failed inserts, failed polls, restarts and replays: a       *)
(* record the group has passed is in its tables, a dead letter or one that *)
(* a poll with an error threw away, and no figure read from the tables     *)
(* exceeds what happened.                                                  *)
(***************************************************************************)
EXTENDS Analytics, Sums, TLAPS

(* A worker is idle or at a statement of handling a record. *)
WorkerType ==
    [pc : {"idle"}, topic : {NoTopic}, offset : {0}, attempt : {1}] \cup
    [pc : {"delivery", "order", "deadletter", "commit"}, topic : Topics,
     offset : Nat \ {0}, attempt : 1..MaxAttempts]

ProjectionTypes ==
    /\ log \in [Topics -> Seq(Events)]
    /\ dlq \in [Topics -> Seq(Events)]
    /\ committed \in [Topics -> Nat \ {0}]
    /\ position \in [Topics -> Nat \ {0}]
    /\ discarded \in [Topics -> SUBSET Nat]
    /\ \A t \in Topics : discarded[t] \subseteq 1..Len(log[t])
    /\ owner \in [Topics -> Workers]
    /\ worker \in [Workers -> WorkerType]
    /\ deliveryRows \in [Events -> 0..MaxCopies]
    /\ orderRows \in [Events -> 0..MaxCopies]

Busy(w) == worker[w].pc # "idle"

(* The first n records of a partition are done with, or were thrown away. *)
SettledUpTo(t, n) == n <= Len(log[t]) /\ \A j \in 1..n : Passable(t, j)

(* The record a worker has in hand: everything before it is done with, and  *)
(* at each statement the ones before it have taken effect.                  *)
InHand(w) ==
    Busy(w) =>
      \E t \in Topics, n \in Nat \ {0}, e \in Events :
         /\ worker[w].topic = t /\ worker[w].offset = n
         /\ n <= Len(log[t]) /\ log[t][n] = e
         /\ SettledUpTo(t, n - 1)
         /\ At(w, "delivery") => HasDeliveryFact(e)
         /\ At(w, "order") => HasOrderFact(e) /\ (HasDeliveryFact(e) => deliveryRows[e] > 0)
         /\ At(w, "commit") => Settled(t, e)

(* Of the records that were fetched, only the one in the hand of the        *)
(* partition's owner is neither done with nor thrown away.  A former owner may hold another,    *)
(* which the new one has fetched again.                                     *)
Holds(w, t, j) == Busy(w) /\ worker[w].topic = t /\ worker[w].offset = j

FetchedSettled(t) ==
    /\ position[t] <= Len(log[t]) + 1
    /\ \A j \in 1..(position[t] - 1) : Passable(t, j) \/ Holds(owner[t], t, j)

AnalyticsInv ==
    /\ ProjectionTypes
    /\ \A w \in Workers : InHand(w)
    /\ \A t \in Topics : SettledUpTo(t, committed[t] - 1) /\ FetchedSettled(t)

-----------------------------------------------------------------------------
(* What a step keeps *)

(* A sequence of events with one more. *)
LEMMA OneMore ==
    ASSUME NEW s \in Seq(Events), NEW e \in Events
    PROVE  /\ Append(s, e) \in Seq(Events)
           /\ Len(Append(s, e)) = Len(s) + 1
           /\ \A j \in 1..Len(s) : Append(s, e)[j] = s[j]
           /\ e \in ToSet(Append(s, e)) /\ ToSet(s) \subseteq ToSet(Append(s, e))
BY DEF ToSet

(* The record a busy worker has in hand. *)
LEMMA RecordInHand ==
    ASSUME ProjectionTypes, NEW w \in Workers, Busy(w)
    PROVE  /\ worker[w].topic \in Topics /\ worker[w].offset \in Nat \ {0}
           /\ worker[w].attempt \in 1..MaxAttempts
           /\ worker[w].pc \in {"delivery", "order", "deadletter", "commit"}
BY DEF ProjectionTypes, WorkerType, Busy

(* No step takes a row, a dead letter or a record away, nor makes a record   *)
(* that was thrown away one that was not.                                  *)
Grows ==
    /\ \A t \in Topics : discarded[t] \subseteq discarded'[t]
    /\ \A e \in Events : deliveryRows[e] > 0 => deliveryRows'[e] > 0
    /\ \A e \in Events : orderRows[e] > 0 => orderRows'[e] > 0
    /\ \A t \in Topics : ToSet(dlq[t]) \subseteq ToSet(dlq'[t])
    /\ \A t \in Topics :
          /\ Len(log[t]) <= Len(log'[t])
          /\ \A j \in 1..Len(log[t]) : log'[t][j] = log[t][j]

(* One more copy of a row. *)
LEMMA CopyAdded ==
    ASSUME NEW rows \in [Events -> 0..MaxCopies], NEW e \in Events
    PROVE  /\ AddCopy(rows, e) \in [Events -> 0..MaxCopies]
           /\ AddCopy(rows, e)[e] > 0
           /\ \A f \in Events : rows[f] > 0 => AddCopy(rows, e)[f] > 0
BY AnalyticsAssumption DEF AddCopy

(* What is done with stays done with. *)
LEMMA SettledStays ==
    ASSUME Grows, NEW t \in Topics, NEW e \in Events, Settled(t, e)
    PROVE  Settled(t, e)'
BY DEF Grows, Settled, Projected

LEMMA PassableStays ==
    ASSUME ProjectionTypes, Grows, NEW t \in Topics, NEW j \in 1..Len(log[t]), Passable(t, j)
    PROVE  Passable(t, j)'
<1>1. PICK e \in Events : log[t][j] = e /\ log'[t][j] = e
  BY DEF ProjectionTypes, Grows
<1>2. j \in discarded[t] => j \in discarded'[t]
  BY DEF Grows
<1>3. Settled(t, e) => Settled(t, e)'
  BY SettledStays
<1>. QED
  BY <1>1, <1>2, <1>3 DEF Passable, Settled, Projected

LEMMA SettledUpToStays ==
    ASSUME ProjectionTypes, Grows, NEW t \in Topics, NEW n \in Nat, SettledUpTo(t, n),
           ProjectionTypes'
    PROVE  SettledUpTo(t, n)'
<1>1. log[t] \in Seq(Events) /\ log'[t] \in Seq(Events)
  BY DEF ProjectionTypes
<1>2. n <= Len(log'[t])
  BY <1>1 DEF Grows, SettledUpTo
<1>3. ASSUME NEW j \in 1..n PROVE Passable(t, j)'
  BY <1>1, PassableStays DEF SettledUpTo
<1>. QED
  BY <1>2, <1>3 DEF SettledUpTo

(* The hand of a worker that does not move is as good as it was. *)
LEMMA InHandStays ==
    ASSUME ProjectionTypes, ProjectionTypes', Grows, NEW w \in Workers, InHand(w),
           worker'[w] = worker[w]
    PROVE  InHand(w)'
<1>. SUFFICES ASSUME Busy(w) PROVE InHand(w)'
  BY DEF InHand, Busy
<1>1. PICK t \in Topics, n \in Nat \ {0}, e \in Events :
         /\ worker[w].topic = t /\ worker[w].offset = n
         /\ n <= Len(log[t]) /\ log[t][n] = e
         /\ SettledUpTo(t, n - 1)
         /\ At(w, "delivery") => HasDeliveryFact(e)
         /\ At(w, "order") => HasOrderFact(e) /\ (HasDeliveryFact(e) => deliveryRows[e] > 0)
         /\ At(w, "commit") => Settled(t, e)
  BY DEF InHand
<1>2. log[t] \in Seq(Events) /\ log'[t] \in Seq(Events)
  BY DEF ProjectionTypes
<1>3. n <= Len(log'[t]) /\ log'[t][n] = e
  BY <1>1, <1>2 DEF Grows
<1>4. SettledUpTo(t, n - 1)' /\ (Settled(t, e) => Settled(t, e)')
  BY <1>1, SettledUpToStays, SettledStays
<1>5. deliveryRows[e] > 0 => deliveryRows'[e] > 0
  BY DEF Grows
<1>6. /\ At(w, "delivery")' <=> At(w, "delivery")
      /\ At(w, "order")' <=> At(w, "order")
      /\ At(w, "commit")' <=> At(w, "commit")
  BY DEF At
<1>. QED
  BY <1>1, <1>3, <1>4, <1>5, <1>6 DEF InHand

(* What a partition's owner has fetched is as far as it was, if it still    *)
(* has in hand what it had or is done with it.                             *)
LEMMA FetchedStays ==
    ASSUME ProjectionTypes, ProjectionTypes', Grows, NEW t \in Topics, FetchedSettled(t),
           position'[t] = position[t],
           \A j \in Nat \ {0} : Holds(owner[t], t, j) =>
               Passable(t, j)' \/ Holds(owner[t], t, j)'
    PROVE  FetchedSettled(t)'
<1>1. log[t] \in Seq(Events) /\ log'[t] \in Seq(Events) /\ position[t] \in Nat \ {0}
  BY DEF ProjectionTypes
<1>2. position'[t] <= Len(log'[t]) + 1
  BY <1>1 DEF Grows, FetchedSettled
<1>3. ASSUME NEW j \in 1..(position[t] - 1)
      PROVE  Passable(t, j)' \/ Holds(owner[t], t, j)'
  <2>1. CASE Holds(owner[t], t, j)
    BY <1>1, <2>1
  <2>2. CASE Passable(t, j)
    <3>1. j \in 1..Len(log[t])
      BY <1>1 DEF FetchedSettled
    <3>. QED
      BY <2>2, <3>1, PassableStays
  <2>. QED
    BY <2>1, <2>2 DEF FetchedSettled
<1>. QED
  BY <1>2, <1>3 DEF FetchedSettled

(* ... and the group's offset as well, while nothing is committed. *)
LEMMA CommittedStays ==
    ASSUME ProjectionTypes, ProjectionTypes', Grows, NEW t \in Topics,
           SettledUpTo(t, committed[t] - 1), committed'[t] = committed[t]
    PROVE  SettledUpTo(t, committed[t] - 1)'
<1>1. PICK n \in Nat : n = committed[t] - 1
  BY DEF ProjectionTypes
<1>2. SettledUpTo(t, n)
  BY <1>1 DEF SettledUpTo
<1>3. SettledUpTo(t, n)'
  BY <1>2, SettledUpToStays
<1>. QED
  BY <1>1, <1>3 DEF SettledUpTo

(* The worker goes on to another statement for the record it has in hand. *)
GoesOn(w) ==
    /\ UNCHANGED groupVars
    /\ worker'[w].pc # "idle"
    /\ worker'[w].topic = worker[w].topic /\ worker'[w].offset = worker[w].offset
    /\ \A v \in Workers \ {w} : worker'[v] = worker[v]

LEMMA WorkGoesOn ==
    ASSUME AnalyticsInv, ProjectionTypes', Grows,
           NEW w \in Workers, NEW e \in Events, Busy(w), GoesOn(w), e = Record(w),
           worker'[w].pc = "delivery" => HasDeliveryFact(e),
           worker'[w].pc = "order" =>
               HasOrderFact(e) /\ (HasDeliveryFact(e) => deliveryRows'[e] > 0),
           \A t \in Topics : worker'[w].pc = "commit" /\ t = worker[w].topic => Settled(t, e)'
    PROVE  AnalyticsInv'
<1>1. ProjectionTypes /\ InHand(w)
  BY DEF AnalyticsInv
<1>2. InHand(w)'
  <2>1. PICK t \in Topics, n \in Nat \ {0} :
           /\ worker[w].topic = t /\ worker[w].offset = n
           /\ n <= Len(log[t]) /\ log[t][n] = e
           /\ SettledUpTo(t, n - 1)
    BY <1>1 DEF InHand, Record
  <2>2. log[t] \in Seq(Events) /\ log'[t] \in Seq(Events)
    BY <1>1 DEF ProjectionTypes
  <2>3. n <= Len(log'[t]) /\ log'[t][n] = e
    BY <2>1, <2>2 DEF Grows
  <2>4. SettledUpTo(t, n - 1)'
    BY <1>1, <2>1, SettledUpToStays
  <2>5. worker'[w].topic = t /\ worker'[w].offset = n
    BY <2>1 DEF GoesOn
  <2>. QED
    BY <2>1, <2>3, <2>4, <2>5 DEF InHand, At
<1>3. ASSUME NEW v \in Workers PROVE InHand(v)'
  <2>1. CASE v = w
    BY <1>2, <2>1
  <2>2. CASE v # w
    BY <1>1, <2>2, InHandStays DEF AnalyticsInv, GoesOn
  <2>. QED
    BY <2>1, <2>2
<1>4. ASSUME NEW t \in Topics
      PROVE  SettledUpTo(t, committed[t] - 1)' /\ FetchedSettled(t)'
  <2>1. SettledUpTo(t, committed[t] - 1) /\ FetchedSettled(t)
    BY DEF AnalyticsInv
  <2>2. position'[t] = position[t] /\ committed'[t] = committed[t] /\ owner'[t] = owner[t]
    BY DEF GoesOn, groupVars
  <2>3. owner[t] \in Workers
    BY <1>1 DEF ProjectionTypes
  <2>4. ASSUME NEW j \in Nat \ {0}, Holds(owner[t], t, j) PROVE Holds(owner[t], t, j)'
    BY <2>2, <2>3, <2>4 DEF Holds, Busy, GoesOn
  <2>. QED
    BY <1>1, <2>1, <2>2, <2>4, CommittedStays, FetchedStays
<1>. QED
  BY <1>3, <1>4 DEF AnalyticsInv

-----------------------------------------------------------------------------
(* The statements of the handler *)

(* A busy worker that goes to another statement. *)
LEMMA GoesTo ==
    ASSUME ProjectionTypes, NEW w \in Workers, Busy(w),
           NEW step \in {"delivery", "order", "deadletter", "commit"}, GoTo(w, step)
    PROVE  /\ worker' \in [Workers -> WorkerType]
           /\ worker'[w].pc = step
           /\ UNCHANGED groupVars => GoesOn(w)
<1>1. worker[w] \in [pc : {"delivery", "order", "deadletter", "commit"}, topic : Topics,
                     offset : Nat \ {0}, attempt : 1..MaxAttempts]
  BY DEF ProjectionTypes, WorkerType, Busy
<1>2. [worker[w] EXCEPT !.pc = step] \in
          [pc : {"delivery", "order", "deadletter", "commit"}, topic : Topics,
           offset : Nat \ {0}, attempt : 1..MaxAttempts]
  BY <1>1
<1>3. worker \in [Workers -> WorkerType] /\ worker' = [worker EXCEPT ![w].pc = step]
  BY DEF ProjectionTypes, GoTo
<1>4. /\ worker'[w] = [worker[w] EXCEPT !.pc = step]
      /\ \A v \in Workers \ {w} : worker'[v] = worker[v]
  BY <1>3
<1>5. worker' \in [Workers -> WorkerType]
  BY <1>2, <1>3 DEF WorkerType
<1>6. /\ worker'[w].pc = step
      /\ worker'[w].topic = worker[w].topic /\ worker'[w].offset = worker[w].offset
  BY <1>1, <1>4
<1>. QED
  BY <1>4, <1>5, <1>6 DEF GoesOn

(* The record of a busy worker is an event; what the statement it is at says *)
(* of it.                                                                  *)
LEMMA EventInHand ==
    ASSUME AnalyticsInv, NEW w \in Workers, Busy(w)
    PROVE  \E e \in Events :
              /\ e = Record(w)
              /\ At(w, "delivery") => HasDeliveryFact(e)
              /\ At(w, "order") => HasOrderFact(e) /\ (HasDeliveryFact(e) => deliveryRows[e] > 0)
BY DEF AnalyticsInv, InHand, Record

(* The first statement for a record: there is nothing to do only when there *)
(* is nothing to write.                                                    *)
LEMMA FirstStepFits ==
    ASSUME NEW e \in Events
    PROVE  /\ FirstStep(e) \in {"delivery", "order", "commit"}
           /\ FirstStep(e) = "delivery" => HasDeliveryFact(e)
           /\ FirstStep(e) = "order" => HasOrderFact(e) /\ ~HasDeliveryFact(e)
           /\ FirstStep(e) = "commit" => ~HasOrderFact(e) /\ ~HasDeliveryFact(e)
BY DEF FirstStep

(* Nothing but the tables, a dead letter or a record is written. *)
LEMMA LogsKept ==
    ASSUME ProjectionTypes, UNCHANGED <<log, dlq, discarded>>
    PROVE  \A t \in Topics :
              /\ discarded[t] \subseteq discarded'[t]
              /\ ToSet(dlq[t]) \subseteq ToSet(dlq'[t])
              /\ Len(log[t]) <= Len(log'[t])
              /\ \A j \in 1..Len(log[t]) : log'[t][j] = log[t][j]
BY DEF ProjectionTypes

LEMMA InsertDeliveryKeeps ==
    ASSUME AnalyticsInv, NEW w \in Workers, InsertDelivery(w)
    PROVE  AnalyticsInv'
<1>1. ProjectionTypes /\ Busy(w)
  BY DEF AnalyticsInv, InsertDelivery, At, Busy
<1>2. PICK e \in Events : e = Record(w) /\ HasDeliveryFact(e)
  BY <1>1, EventInHand DEF InsertDelivery
<1>3. PICK step \in {"order", "commit"} :
         step = AfterDelivery(e) /\ (step = "order" <=> HasOrderFact(e))
  BY DEF AfterDelivery
<1>4. /\ worker' \in [Workers -> WorkerType] /\ worker'[w].pc = step /\ GoesOn(w)
  BY <1>1, <1>2, <1>3, GoesTo DEF InsertDelivery
<1>5. deliveryRows' = AddCopy(deliveryRows, e) /\ deliveryRows \in [Events -> 0..MaxCopies]
  BY <1>1, <1>2 DEF InsertDelivery, ProjectionTypes
<1>6. /\ deliveryRows' \in [Events -> 0..MaxCopies] /\ deliveryRows'[e] > 0
      /\ \A f \in Events : deliveryRows[f] > 0 => deliveryRows'[f] > 0
  BY <1>5, CopyAdded
<1>7. ProjectionTypes'
  BY <1>1, <1>4, <1>6 DEF ProjectionTypes, InsertDelivery, groupVars
<1>8. Grows
  BY <1>1, <1>6, LogsKept DEF Grows, InsertDelivery, groupVars
<1>9. step = "commit" => \A t \in Topics : Settled(t, e)'
  BY <1>3, <1>6 DEF Settled, Projected
<1>. QED
  BY <1>1, <1>2, <1>3, <1>4, <1>6, <1>7, <1>8, <1>9, WorkGoesOn

LEMMA InsertOrderKeeps ==
    ASSUME AnalyticsInv, NEW w \in Workers, InsertOrder(w)
    PROVE  AnalyticsInv'
<1>1. ProjectionTypes /\ Busy(w)
  BY DEF AnalyticsInv, InsertOrder, At, Busy
<1>2. PICK e \in Events : e = Record(w) /\ (HasDeliveryFact(e) => deliveryRows[e] > 0)
  BY <1>1, EventInHand DEF InsertOrder
<1>3. worker' \in [Workers -> WorkerType] /\ worker'[w].pc = "commit" /\ GoesOn(w)
  BY <1>1, GoesTo DEF InsertOrder
<1>4. orderRows' = AddCopy(orderRows, e) /\ orderRows \in [Events -> 0..MaxCopies]
  BY <1>1, <1>2 DEF InsertOrder, ProjectionTypes
<1>5. /\ orderRows' \in [Events -> 0..MaxCopies] /\ orderRows'[e] > 0
      /\ \A f \in Events : orderRows[f] > 0 => orderRows'[f] > 0
  BY <1>4, CopyAdded
<1>6. ProjectionTypes'
  BY <1>1, <1>3, <1>5 DEF ProjectionTypes, InsertOrder, groupVars
<1>7. Grows
  BY <1>1, <1>5, LogsKept DEF Grows, InsertOrder, groupVars
<1>8. \A t \in Topics : Settled(t, e)'
  BY <1>2, <1>5 DEF Settled, Projected, InsertOrder
<1>. QED
  BY <1>1, <1>2, <1>3, <1>6, <1>7, <1>8, WorkGoesOn

(* An insert that failed: the handler from its start, or the dead letter. *)
LEMMA InsertFailsKeeps ==
    ASSUME AnalyticsInv, NEW w \in Workers, InsertFails(w)
    PROVE  AnalyticsInv'
<1>1. ProjectionTypes /\ Busy(w)
  BY DEF AnalyticsInv, InsertFails, At, Busy
<1>2. PICK e \in Events : e = Record(w)
  BY <1>1, EventInHand
<1>3. worker[w] \in [pc : {"delivery", "order", "deadletter", "commit"}, topic : Topics,
                     offset : Nat \ {0}, attempt : 1..MaxAttempts]
  BY <1>1 DEF ProjectionTypes, WorkerType, Busy
<1>4. worker \in [Workers -> WorkerType]
  BY <1>1 DEF ProjectionTypes
<1>13. Retry(w) /\ e = Record(w)
  BY <1>2 DEF InsertFails
<1>5. /\ worker'[w] \in [pc : {"delivery", "order", "deadletter", "commit"}, topic : Topics,
                         offset : Nat \ {0}, attempt : 1..MaxAttempts]
      /\ worker'[w].pc \in {FirstStep(e), "deadletter"}
      /\ worker'[w].topic = worker[w].topic /\ worker'[w].offset = worker[w].offset
  <2>1. worker[w].attempt \in 1..MaxAttempts
    BY <1>3
  <2>2. CASE worker[w].attempt < MaxAttempts
    <3>1. worker'[w] = [worker[w] EXCEPT !.pc = FirstStep(e), !.attempt = @ + 1]
      BY <1>4, <1>13, <2>2 DEF Retry
    <3>2. worker[w].attempt + 1 \in 1..MaxAttempts
      BY <2>1, <2>2, AnalyticsAssumption
    <3>. QED
      BY <1>3, <3>1, <3>2, FirstStepFits
  <2>3. CASE ~(worker[w].attempt < MaxAttempts)
    <3>1. worker'[w] = [worker[w] EXCEPT !.pc = "deadletter"]
      BY <1>4, <1>13, <2>3 DEF Retry
    <3>. QED
      BY <1>3, <3>1
  <2>. QED
    BY <2>2, <2>3
<1>6. \A v \in Workers \ {w} : worker'[v] = worker[v]
  BY <1>4, <1>13 DEF Retry
<1>7. GoesOn(w) /\ worker' \in [Workers -> WorkerType]
  <2>1. worker'[w].pc # "idle" /\ worker'[w] \in WorkerType
    BY <1>5 DEF WorkerType
  <2>2. worker' \in [Workers -> WorkerType]
    BY <1>4, <1>6, <1>13, <2>1 DEF Retry
  <2>. QED
    BY <1>5, <1>6, <2>1, <2>2 DEF GoesOn, InsertFails
<1>8. /\ deliveryRows' \in {deliveryRows, AddCopy(deliveryRows, e)}
      /\ orderRows' \in {orderRows, AddCopy(orderRows, e)}
      /\ deliveryRows \in [Events -> 0..MaxCopies] /\ orderRows \in [Events -> 0..MaxCopies]
  BY <1>1, <1>2 DEF InsertFails, ProjectionTypes
<1>9. /\ deliveryRows' \in [Events -> 0..MaxCopies] /\ orderRows' \in [Events -> 0..MaxCopies]
      /\ \A f \in Events : deliveryRows[f] > 0 => deliveryRows'[f] > 0
      /\ \A f \in Events : orderRows[f] > 0 => orderRows'[f] > 0
  BY <1>8, CopyAdded
<1>10. ProjectionTypes'
  BY <1>1, <1>7, <1>9 DEF ProjectionTypes, InsertFails, groupVars
<1>11. Grows
  BY <1>1, <1>9, LogsKept DEF Grows, InsertFails, groupVars
<1>12. FirstStep(e) = "commit" => \A t \in Topics : Settled(t, e)'
  BY FirstStepFits DEF Settled, Projected
<1>. QED
  BY <1>1, <1>2, <1>5, <1>7, <1>10, <1>11, <1>12, FirstStepFits, WorkGoesOn

LEMMA PublishDeadLetterKeeps ==
    ASSUME AnalyticsInv, NEW w \in Workers, PublishDeadLetter(w)
    PROVE  AnalyticsInv'
<1>1. ProjectionTypes /\ Busy(w)
  BY DEF AnalyticsInv, PublishDeadLetter, At, Busy
<1>2. PICK e \in Events : e = Record(w)
  BY <1>1, EventInHand
<1>3. worker' \in [Workers -> WorkerType] /\ worker'[w].pc = "commit" /\ GoesOn(w)
  BY <1>1, GoesTo DEF PublishDeadLetter
<1>4. PICK t \in Topics : t = worker[w].topic
  BY <1>1, RecordInHand
<1>5. dlq \in [Topics -> Seq(Events)] /\ dlq' = [dlq EXCEPT ![t] = Append(dlq[t], e)]
  BY <1>1, <1>2, <1>4 DEF ProjectionTypes, PublishDeadLetter
<1>6. /\ dlq' \in [Topics -> Seq(Events)] /\ e \in ToSet(dlq'[t])
      /\ \A u \in Topics : ToSet(dlq[u]) \subseteq ToSet(dlq'[u])
  BY <1>5, OneMore
<1>7. ProjectionTypes'
  BY <1>1, <1>3, <1>6 DEF ProjectionTypes, PublishDeadLetter, groupVars, tables
<1>8. Grows
  <2>1. log' = log /\ tables' = tables /\ discarded' = discarded
    BY DEF PublishDeadLetter, groupVars
  <2>2. \A u \in Topics : Len(log[u]) <= Len(log'[u])
    BY <1>1, <2>1 DEF ProjectionTypes
  <2>. QED
    BY <1>6, <2>1, <2>2 DEF Grows, tables
<1>9. Settled(t, e)'
  BY <1>6 DEF Settled
<1>. QED
  BY <1>1, <1>2, <1>3, <1>4, <1>7, <1>8, <1>9, WorkGoesOn

-----------------------------------------------------------------------------
(* Fetches, commits, rebalances, restarts and replays *)

(* A worker without a record. *)
LEMMA IdleType ==
    /\ Idle \in WorkerType /\ Idle.pc = "idle"
    /\ ProjectionTypes =>
          \A w \in Workers : [worker EXCEPT ![w] = Idle] \in [Workers -> WorkerType]
<1>1. Idle \in WorkerType /\ Idle.pc = "idle"
  BY DEF Idle, WorkerType
<1>. QED
  BY <1>1 DEF ProjectionTypes

(* Steps that write nothing but the workers and the group. *)
LEMMA OnlyGroupMoves ==
    ASSUME ProjectionTypes, UNCHANGED <<log, dlq, discarded, tables>>
    PROVE  Grows
BY LogsKept DEF Grows, tables

(* Idle workers hold nothing, the others what they held. *)
LEMMA HandsStay ==
    ASSUME AnalyticsInv, ProjectionTypes', Grows,
           \A v \in Workers : worker'[v].pc = "idle" \/ worker'[v] = worker[v]
    PROVE  \A v \in Workers : InHand(v)'
<1>. SUFFICES ASSUME NEW v \in Workers PROVE InHand(v)'
  OBVIOUS
<1>1. CASE worker'[v].pc = "idle"
  BY <1>1 DEF InHand, Busy
<1>2. CASE worker'[v] = worker[v]
  BY <1>2, InHandStays DEF AnalyticsInv
<1>. QED
  BY <1>1, <1>2

(* A partition whose next record is that of the group's offset. *)
LEMMA FetchedFromCommitted ==
    ASSUME ProjectionTypes', NEW t \in Topics, SettledUpTo(t, committed[t] - 1)',
           position'[t] = committed'[t]
    PROVE  FetchedSettled(t)'
<1>1. committed'[t] \in Nat \ {0} /\ log'[t] \in Seq(Events)
  BY DEF ProjectionTypes
<1>. QED
  BY <1>1 DEF FetchedSettled, SettledUpTo

LEMMA TakeKeeps ==
    ASSUME AnalyticsInv, NEW w \in Workers, NEW t \in Topics, Take(w, t)
    PROVE  AnalyticsInv'
<1>1. /\ ProjectionTypes /\ ~Busy(w) /\ owner[t] = w /\ FetchedSettled(t)
      /\ log[t] \in Seq(Events)
  BY DEF AnalyticsInv, Take, At, Busy, ProjectionTypes
<1>2. PICK n \in Nat \ {0} : n = position[t]
  BY <1>1 DEF ProjectionTypes
<1>3. n <= Len(log[t]) /\ log' = log
  BY <1>2 DEF Take
<1>4. PICK e \in Events : e = log[t][n]
  BY <1>1, <1>3
<1>5. FirstStep(e) \in {"delivery", "order", "commit"}
  BY FirstStepFits
<1>6. PICK held : held = [pc |-> FirstStep(e), topic |-> t, offset |-> n, attempt |-> 1]
  OBVIOUS
<1>7. /\ held.pc = FirstStep(e) /\ held.topic = t /\ held.offset = n
      /\ held \in WorkerType
  BY <1>5, <1>6, AnalyticsAssumption DEF WorkerType
<1>8. worker' = [worker EXCEPT ![w] = held] /\ worker \in [Workers -> WorkerType]
  BY <1>1, <1>2, <1>4, <1>6 DEF Take, ProjectionTypes
<1>9. /\ worker' \in [Workers -> WorkerType] /\ worker'[w] = held
      /\ \A v \in Workers \ {w} : worker'[v] = worker[v]
  BY <1>7, <1>8
<1>10. position' = [position EXCEPT ![t] = n + 1] /\ position \in [Topics -> Nat \ {0}]
  BY <1>1, <1>2 DEF Take, ProjectionTypes
<1>11. ProjectionTypes'
  <2>1. position' \in [Topics -> Nat \ {0}]
    BY <1>10
  <2>2. UNCHANGED <<log, dlq, committed, owner, discarded, deliveryRows, orderRows>>
    BY DEF Take, tables
  <2>. QED
    BY <1>1, <1>9, <2>1, <2>2 DEF ProjectionTypes
<1>12. Grows
  BY <1>1, OnlyGroupMoves DEF Take
<1>13. \A j \in 1..(n - 1) : Passable(t, j)
  BY <1>1, <1>2 DEF FetchedSettled, Holds
<1>14. SettledUpTo(t, n - 1)'
  <2>1. SettledUpTo(t, n - 1)
    BY <1>1, <1>3, <1>13 DEF SettledUpTo
  <2>. QED
    BY <1>1, <1>11, <1>12, <2>1, SettledUpToStays
<1>15. InHand(w)'
  <2>1. FirstStep(e) = "commit" => Settled(t, e)'
    BY FirstStepFits DEF Settled, Projected
  <2>. QED
    BY <1>3, <1>4, <1>7, <1>9, <1>14, <2>1, FirstStepFits DEF InHand, At
<1>16. ASSUME NEW v \in Workers PROVE InHand(v)'
  BY <1>1, <1>9, <1>11, <1>12, <1>15, InHandStays DEF AnalyticsInv
<1>17. ASSUME NEW u \in Topics PROVE FetchedSettled(u)'
  <2>1. CASE u = t
    <3>1. position'[t] = n + 1 /\ owner'[t] = w
      BY <1>1, <1>10 DEF Take
    <3>2. Holds(w, t, n)'
      BY <1>5, <1>7, <1>9 DEF Holds, Busy
    <3>3. \A j \in 1..n : Passable(t, j)' \/ Holds(w, t, j)'
      BY <1>14, <3>2 DEF SettledUpTo
    <3>4. \A j \in 1..n : Passable(t, j)' \/ Holds(owner[t], t, j)'
      BY <3>1, <3>3 DEF Holds, Busy
    <3>. QED
      BY <1>1, <1>3, <2>1, <3>1, <3>4 DEF FetchedSettled
  <2>2. CASE u # t
    <3>1. /\ position'[u] = position[u] /\ owner'[u] = owner[u] /\ owner[u] \in Workers
          /\ FetchedSettled(u)
      BY <1>1, <1>10, <2>2 DEF Take, ProjectionTypes, AnalyticsInv
    <3>2. ASSUME NEW j \in Nat \ {0}, Holds(owner[u], u, j) PROVE Holds(owner[u], u, j)'
      BY <1>1, <1>9, <3>1, <3>2 DEF Holds, Busy
    <3>. QED
      BY <1>1, <1>11, <1>12, <3>1, <3>2, FetchedStays
  <2>. QED
    BY <2>1, <2>2
<1>18. ASSUME NEW u \in Topics PROVE SettledUpTo(u, committed[u] - 1)'
  BY <1>1, <1>11, <1>12, CommittedStays DEF AnalyticsInv, Take
<1>. QED
  BY <1>11, <1>16, <1>17, <1>18 DEF AnalyticsInv

(* A poll with an error goes past records, but they are known. *)
LEMMA PollFailsKeeps ==
    ASSUME AnalyticsInv, NEW w \in Workers, NEW t \in Topics, PollFails(w, t)
    PROVE  AnalyticsInv' /\ Grows
<1>1. /\ ProjectionTypes /\ log[t] \in Seq(Events) /\ FetchedSettled(t) /\ ~Busy(w)
      /\ position \in [Topics -> Nat \ {0}] /\ discarded \in [Topics -> SUBSET Nat]
      /\ owner[t] = w
  BY DEF AnalyticsInv, ProjectionTypes, PollFails, At, Busy
<1>2. PICK first \in Nat \ {0} : first = position[t]
  BY <1>1
<1>3. PICK next \in (first + 1)..(Len(log[t]) + 1) :
         /\ position' = [position EXCEPT ![t] = next]
         /\ discarded' = [discarded EXCEPT ![t] = @ \cup first..(next - 1)]
  BY <1>2 DEF PollFails
<1>4. UNCHANGED <<log, committed, owner, worker, deliveryRows, orderRows, dlq>>
  BY DEF PollFails, tables
<1>5. /\ discarded'[t] = discarded[t] \cup first..(next - 1) /\ position'[t] = next
      /\ \A u \in Topics \ {t} : discarded'[u] = discarded[u] /\ position'[u] = position[u]
  BY <1>1, <1>3
<1>6. discarded[t] \subseteq 1..Len(log[t]) /\ first..(next - 1) \subseteq 1..Len(log[t])
  <2>1. discarded[t] \subseteq 1..Len(log[t])
    BY <1>1 DEF ProjectionTypes
  <2>2. PICK len \in Nat : len = Len(log[t])
    BY <1>1
  <2>3. first \in Nat \ {0} /\ next \in (first + 1)..(len + 1)
    BY <1>2, <1>3, <2>2
  <2>4. first..(next - 1) \subseteq 1..len
    BY <2>3
  <2>. QED
    BY <2>1, <2>2, <2>4
<1>7. position' \in [Topics -> Nat \ {0}] /\ discarded' \in [Topics -> SUBSET Nat]
  BY <1>1, <1>2, <1>3
<1>8. ProjectionTypes'
  <2>1. ASSUME NEW u \in Topics PROVE discarded'[u] \subseteq 1..Len(log'[u])
    BY <1>1, <1>4, <1>5, <1>6 DEF ProjectionTypes
  <2>. QED
    BY <1>1, <1>4, <1>7, <2>1 DEF ProjectionTypes
<1>9. Grows
  <2>1. \A u \in Topics : discarded[u] \subseteq discarded'[u]
    BY <1>5
  <2>2. \A u \in Topics : Len(log[u]) <= Len(log'[u])
    BY <1>1, <1>4 DEF ProjectionTypes
  <2>. QED
    BY <1>4, <2>1, <2>2 DEF Grows
<1>10. \A v \in Workers : InHand(v)'
  BY <1>4, <1>8, <1>9, HandsStay
<1>11. ASSUME NEW u \in Topics PROVE SettledUpTo(u, committed[u] - 1)'
  BY <1>1, <1>4, <1>8, <1>9, CommittedStays DEF AnalyticsInv
<1>12. ASSUME NEW u \in Topics PROVE FetchedSettled(u)'
  <2>1. CASE u = t
    <3>1. ASSUME NEW j \in 1..(next - 1) PROVE Passable(t, j)'
      <4>1. CASE j \in first..(next - 1)
        BY <1>5, <4>1 DEF Passable
      <4>2. CASE j \in 1..(first - 1)
        <5>1. j \in 1..Len(log[t]) /\ Passable(t, j)
          BY <1>1, <1>2, <4>2 DEF FetchedSettled, Holds
        <5>. QED
          BY <1>1, <1>9, <5>1, PassableStays
      <4>. QED
        BY <1>2, <4>1, <4>2
    <3>. QED
      BY <1>1, <1>4, <1>5, <2>1, <3>1 DEF FetchedSettled
  <2>2. CASE u # t
    <3>1. position'[u] = position[u] /\ owner'[u] = owner[u] /\ worker' = worker
      BY <1>4, <1>5, <2>2
    <3>2. ASSUME NEW j \in Nat \ {0}, Holds(owner[u], u, j) PROVE Holds(owner[u], u, j)'
      BY <3>1, <3>2 DEF Holds, Busy
    <3>. QED
      BY <1>1, <1>8, <1>9, <3>1, <3>2, FetchedStays DEF AnalyticsInv
  <2>. QED
    BY <2>1, <2>2
<1>. QED
  BY <1>8, <1>9, <1>10, <1>11, <1>12 DEF AnalyticsInv

(* The record that is committed is done with, and all before it. *)
LEMMA CommitKeeps ==
    ASSUME AnalyticsInv, NEW w \in Workers, Commit(w)
    PROVE  AnalyticsInv'
<1>1. ProjectionTypes /\ Busy(w) /\ At(w, "commit")
  BY DEF AnalyticsInv, Commit, At, Busy
<1>2. PICK t \in Topics, n \in Nat \ {0}, e \in Events :
         /\ worker[w].topic = t /\ worker[w].offset = n
         /\ n <= Len(log[t]) /\ log[t][n] = e
         /\ SettledUpTo(t, n - 1)
         /\ Settled(t, e)
  BY <1>1 DEF AnalyticsInv, InHand
<1>3. SettledUpTo(t, n)
  BY <1>2 DEF SettledUpTo, Passable
<1>4. worker' = [worker EXCEPT ![w] = Idle] /\ UNCHANGED <<log, owner, position, discarded, tables, dlq>>
  BY DEF Commit
<1>5. committed' \in {committed, [committed EXCEPT ![t] = n + 1]}
  BY <1>2 DEF Commit
<1>6. /\ worker' \in [Workers -> WorkerType]
      /\ worker'[w].pc = "idle" /\ \A v \in Workers \ {w} : worker'[v] = worker[v]
  BY <1>1, <1>4, IdleType DEF ProjectionTypes
<1>7. ProjectionTypes'
  BY <1>1, <1>4, <1>5, <1>6 DEF ProjectionTypes, tables
<1>8. Grows
  BY <1>1, <1>4, OnlyGroupMoves
<1>9. \A v \in Workers : InHand(v)'
  BY <1>6, <1>7, <1>8, HandsStay
<1>10. ASSUME NEW u \in Topics PROVE SettledUpTo(u, committed[u] - 1)'
  <2>1. CASE committed'[u] = committed[u]
    BY <1>1, <1>7, <1>8, <2>1, CommittedStays DEF AnalyticsInv
  <2>2. CASE u = t /\ committed'[u] = n + 1
    <3>1. SettledUpTo(t, n)'
      BY <1>1, <1>3, <1>7, <1>8, SettledUpToStays
    <3>. QED
      BY <2>2, <3>1 DEF SettledUpTo
  <2>. QED
    BY <1>1, <1>5, <2>1, <2>2 DEF ProjectionTypes
<1>11. ASSUME NEW u \in Topics PROVE FetchedSettled(u)'
  <2>1. position'[u] = position[u] /\ owner'[u] = owner[u] /\ owner[u] \in Workers
    BY <1>1, <1>4 DEF ProjectionTypes
  <2>2. ASSUME NEW j \in Nat \ {0}, Holds(owner[u], u, j)
        PROVE  Passable(u, j)' \/ Holds(owner[u], u, j)'
    <3>1. CASE owner[u] = w
      <4>1. u = t /\ j = n
        BY <1>2, <2>2, <3>1 DEF Holds
      <4>2. Settled(t, e)'
        BY <1>2, <1>8, SettledStays
      <4>. QED
        BY <1>2, <1>4, <4>1, <4>2 DEF Passable, Settled, Projected
    <3>2. CASE owner[u] # w
      BY <1>6, <2>1, <2>2, <3>2 DEF Holds, Busy
    <3>. QED
      BY <3>1, <3>2
  <2>. QED
    BY <1>1, <1>7, <1>8, <2>1, <2>2, FetchedStays DEF AnalyticsInv
<1>. QED
  BY <1>7, <1>9, <1>10, <1>11 DEF AnalyticsInv

LEMMA RebalanceKeeps ==
    ASSUME AnalyticsInv, NEW t \in Topics, NEW w \in Workers, Rebalance(t, w)
    PROVE  AnalyticsInv'
<1>1. /\ ProjectionTypes
      /\ committed \in [Topics -> Nat \ {0}] /\ owner \in [Topics -> Workers]
      /\ position \in [Topics -> Nat \ {0}]
  BY DEF AnalyticsInv, ProjectionTypes
<1>2. /\ owner' = [owner EXCEPT ![t] = w] /\ position' = [position EXCEPT ![t] = committed[t]]
      /\ UNCHANGED <<log, committed, discarded, worker, deliveryRows, orderRows, dlq>>
  BY DEF Rebalance, tables
<1>3. ProjectionTypes'
  <2>1. owner' \in [Topics -> Workers] /\ position' \in [Topics -> Nat \ {0}]
    BY <1>1, <1>2
  <2>. QED
    BY <1>1, <1>2, <2>1 DEF ProjectionTypes
<1>4. Grows
  BY <1>1, <1>2, OnlyGroupMoves DEF tables
<1>5. \A v \in Workers : InHand(v)'
  BY <1>2, <1>3, <1>4, HandsStay
<1>6. ASSUME NEW u \in Topics PROVE SettledUpTo(u, committed[u] - 1)'
  BY <1>1, <1>2, <1>3, <1>4, CommittedStays DEF AnalyticsInv
<1>7. ASSUME NEW u \in Topics PROVE FetchedSettled(u)'
  <2>1. CASE u = t
    BY <1>1, <1>2, <1>3, <1>6, <2>1, FetchedFromCommitted
  <2>2. CASE u # t
    <3>1. position'[u] = position[u] /\ owner'[u] = owner[u] /\ worker' = worker
      BY <1>1, <1>2, <2>2
    <3>2. ASSUME NEW j \in Nat \ {0}, Holds(owner[u], u, j) PROVE Holds(owner[u], u, j)'
      BY <3>1, <3>2 DEF Holds, Busy
    <3>. QED
      BY <1>1, <1>3, <1>4, <3>1, <3>2, FetchedStays DEF AnalyticsInv
  <2>. QED
    BY <2>1, <2>2
<1>. QED
  BY <1>3, <1>5, <1>6, <1>7 DEF AnalyticsInv

LEMMA RestartKeeps ==
    ASSUME AnalyticsInv, NEW w \in Workers, Restart(w)
    PROVE  AnalyticsInv'
<1>1. /\ ProjectionTypes
      /\ committed \in [Topics -> Nat \ {0}] /\ owner \in [Topics -> Workers]
      /\ position \in [Topics -> Nat \ {0}]
  BY DEF AnalyticsInv, ProjectionTypes
<1>2. /\ worker' = [worker EXCEPT ![w] = Idle]
      /\ position' = [t \in Topics |-> IF owner[t] = w THEN committed[t] ELSE position[t]]
      /\ UNCHANGED <<log, committed, owner, discarded, deliveryRows, orderRows, dlq>>
  BY DEF Restart, tables
<1>3. /\ worker' \in [Workers -> WorkerType]
      /\ worker'[w].pc = "idle" /\ \A v \in Workers \ {w} : worker'[v] = worker[v]
  BY <1>1, <1>2, IdleType DEF ProjectionTypes
<1>4. ProjectionTypes'
  <2>1. position' \in [Topics -> Nat \ {0}]
    BY <1>1, <1>2
  <2>. QED
    BY <1>1, <1>2, <1>3, <2>1 DEF ProjectionTypes
<1>5. Grows
  BY <1>1, <1>2, OnlyGroupMoves DEF tables
<1>6. \A v \in Workers : InHand(v)'
  BY <1>3, <1>4, <1>5, HandsStay
<1>7. ASSUME NEW u \in Topics PROVE SettledUpTo(u, committed[u] - 1)'
  BY <1>1, <1>2, <1>4, <1>5, CommittedStays DEF AnalyticsInv
<1>8. ASSUME NEW u \in Topics PROVE FetchedSettled(u)'
  <2>1. CASE owner[u] = w
    BY <1>1, <1>2, <1>4, <1>7, <2>1, FetchedFromCommitted
  <2>2. CASE owner[u] # w
    <3>1. /\ position'[u] = position[u] /\ owner'[u] = owner[u]
          /\ worker'[owner[u]] = worker[owner[u]]
      BY <1>1, <1>2, <1>3, <2>2
    <3>2. ASSUME NEW j \in Nat \ {0}, Holds(owner[u], u, j) PROVE Holds(owner[u], u, j)'
      BY <3>1, <3>2 DEF Holds, Busy
    <3>. QED
      BY <1>1, <1>4, <1>5, <3>1, <3>2, FetchedStays DEF AnalyticsInv
  <2>. QED
    BY <2>1, <2>2
<1>. QED
  BY <1>4, <1>6, <1>7, <1>8 DEF AnalyticsInv

(* A dead letter is republished behind everything that was fetched. *)
LEMMA ReplayKeeps ==
    ASSUME AnalyticsInv, NEW t \in Topics, Replay(t)
    PROVE  AnalyticsInv'
<1>1. ProjectionTypes /\ log \in [Topics -> Seq(Events)] /\ dlq[t] \in Seq(Events)
  BY DEF AnalyticsInv, ProjectionTypes
<1>2. PICK e \in ToSet(dlq[t]) : log' = [log EXCEPT ![t] = Append(log[t], e)]
  BY DEF Replay
<1>3. e \in Events
  BY <1>1 DEF ToSet
<1>4. UNCHANGED <<committed, owner, position, discarded, worker, deliveryRows, orderRows, dlq>>
  BY DEF Replay, groupVars, tables
<1>5. /\ log' \in [Topics -> Seq(Events)]
      /\ \A u \in Topics : /\ Len(log[u]) <= Len(log'[u])
                           /\ \A j \in 1..Len(log[u]) : log'[u][j] = log[u][j]
  BY <1>1, <1>2, <1>3, OneMore
<1>6. ProjectionTypes'
  BY <1>1, <1>4, <1>5 DEF ProjectionTypes
<1>7. Grows
  BY <1>4, <1>5 DEF Grows
<1>8. \A v \in Workers : InHand(v)'
  BY <1>4, <1>6, <1>7, HandsStay
<1>9. ASSUME NEW u \in Topics
      PROVE  SettledUpTo(u, committed[u] - 1)' /\ FetchedSettled(u)'
  <2>1. ASSUME NEW j \in Nat \ {0}, Holds(owner[u], u, j) PROVE Holds(owner[u], u, j)'
    BY <1>4, <2>1 DEF Holds, Busy
  <2>. QED
    BY <1>1, <1>4, <1>6, <1>7, <2>1, CommittedStays, FetchedStays DEF AnalyticsInv
<1>. QED
  BY <1>6, <1>8, <1>9 DEF AnalyticsInv

-----------------------------------------------------------------------------
(* Theorems *)

(* The group starts at the beginning of every partition, with nobody at     *)
(* work.                                                                   *)
LEMMA InitAnalyticsInv == Init => AnalyticsInv
<1>. SUFFICES ASSUME Init PROVE AnalyticsInv
  OBVIOUS
<1>1. ProjectionTypes
  <2>1. worker \in [Workers -> WorkerType]
    BY IdleType DEF Init
  <2>2. dlq \in [Topics -> Seq(Events)]
    BY DEF Init
  <2>3. deliveryRows \in [Events -> 0..MaxCopies] /\ orderRows \in [Events -> 0..MaxCopies]
    BY AnalyticsAssumption DEF Init
  <2>. QED
    BY <2>1, <2>2, <2>3, AnalyticsAssumption DEF Init, ProjectionTypes
<1>2. \A w \in Workers : InHand(w)
  BY IdleType DEF Init, InHand, Busy
<1>3. \A t \in Topics : committed[t] = 1 /\ position[t] = 1 /\ log[t] \in Seq(Events)
  BY <1>1 DEF Init, ProjectionTypes
<1>4. \A t \in Topics : SettledUpTo(t, committed[t] - 1) /\ FetchedSettled(t)
  BY <1>3 DEF SettledUpTo, FetchedSettled
<1>. QED
  BY <1>1, <1>2, <1>4 DEF AnalyticsInv

(* The inductive invariant: each worker has one record in hand with         *)
(* everything before it done with.                                         *)
LEMMA AnalyticsInvariant == Spec => []AnalyticsInv
<1>1. AnalyticsInv /\ [Next]_vars => AnalyticsInv'
  <2>. SUFFICES ASSUME AnalyticsInv, [Next]_vars PROVE AnalyticsInv'
    OBVIOUS
  <2>1. CASE UNCHANGED vars
    BY <2>1 DEF vars, groupVars, tables, AnalyticsInv, ProjectionTypes, InHand, Busy, At,
                SettledUpTo, Passable, Settled, Projected, FetchedSettled, Holds
  <2>2. ASSUME NEW w \in Workers, WorkerStep(w) PROVE AnalyticsInv'
    BY <2>2, TakeKeeps, InsertDeliveryKeeps, InsertOrderKeeps, InsertFailsKeeps,
       PublishDeadLetterKeeps, CommitKeeps DEF WorkerStep
  <2>. QED
    BY <2>1, <2>2, RestartKeeps, PollFailsKeeps, RebalanceKeeps, ReplayKeeps DEF Next
<1>. QED
  BY <1>1, InitAnalyticsInv, PTL DEF Spec

(* The offsets never point beyond the partitions, whatever is committed     *)
(* late by a former owner; the rest are types.                             *)
THEOREM AnalyticsTypeCorrect == Spec => []AnalyticsTypeOK
<1>1. AnalyticsInv => AnalyticsTypeOK
  <2>. SUFFICES ASSUME AnalyticsInv PROVE AnalyticsTypeOK
    OBVIOUS
  <2>1. ProjectionTypes
    BY DEF AnalyticsInv
  <2>2. ASSUME NEW t \in Topics
        PROVE  /\ log[t] \in Seq(Events) /\ dlq[t] \in Seq(Events)
               /\ committed[t] \in 1..(Len(log[t]) + 1)
               /\ position[t] \in committed[t]..(Len(log[t]) + 1) \/ position[t] \in 1..committed[t]
               /\ discarded[t] \subseteq 1..Len(log[t])
    <3>1. /\ log[t] \in Seq(Events) /\ dlq[t] \in Seq(Events)
          /\ committed[t] \in Nat \ {0} /\ position[t] \in Nat \ {0}
          /\ discarded[t] \subseteq 1..Len(log[t])
      BY <2>1 DEF ProjectionTypes
    <3>2. committed[t] - 1 <= Len(log[t]) /\ position[t] <= Len(log[t]) + 1
      BY DEF AnalyticsInv, SettledUpTo, FetchedSettled
    <3>. QED
      BY <3>1, <3>2
  <2>3. ASSUME NEW w \in Workers
        PROVE  /\ worker[w].pc \in {"idle", "delivery", "order", "deadletter", "commit"}
               /\ worker[w].attempt \in 1..MaxAttempts
    BY <2>1, AnalyticsAssumption DEF ProjectionTypes, WorkerType
  <2>. QED
    BY <2>1, <2>2, <2>3 DEF AnalyticsTypeOK, ProjectionTypes
<1>. QED
  BY <1>1, AnalyticsInvariant, PTL

(* store.go:25 and consumer.go:33: whatever fails, stops or is reassigned    *)
(* between the two inserts, a record the group has passed has all its rows,  *)
(* is a dead letter, or came with an error and was not looked at.          *)
THEOREM PassedIsProjected == Spec => []ForgottenOnlyByFailedPoll
<1>1. AnalyticsInv => ForgottenOnlyByFailedPoll
  BY DEF AnalyticsInv, SettledUpTo, ForgottenOnlyByFailedPoll
<1>. QED
  BY <1>1, AnalyticsInvariant, PTL

-----------------------------------------------------------------------------
(* What the tables tell of the history *)

(* A partition is its backlog with dead letters behind it. *)
PartitionsGrow ==
    \A t \in Topics :
        /\ Len(Backlog[t]) <= Len(log[t])
        /\ \A j \in 1..Len(Backlog[t]) : log[t][j] = Backlog[t][j]
        /\ \A j \in 1..Len(log[t]) : j > Len(Backlog[t]) => log[t][j] \in ToSet(dlq[t])

(* Some event of the order is a dead letter or was thrown away. *)
Marred(order) == \E t \in Topics, d \in Events : d.order = order /\ Missed(t, d)

(* Rows are facts; and an event of an order's history comes with all that   *)
(* precede it, unless an event of the order is missing.                     *)
RowsTrue == \A e \in Events : orderRows[e] > 0 => HasOrderFact(e)
HistoryKept ==
    \A e \in Events, f \in Events :
        Precedes(f, e) /\ orderRows[e] > 0 => orderRows[f] > 0 \/ Marred(e.order)

FiguresInv == PartitionsGrow /\ RowsTrue /\ (BacklogInOrder => HistoryKept)

LEMMA NextGrows ==
    ASSUME AnalyticsInv, [Next]_vars
    PROVE  Grows
<1>1. ProjectionTypes
  BY DEF AnalyticsInv
<1>2. CASE UNCHANGED <<log, dlq, discarded, tables>>
  BY <1>1, <1>2, LogsKept DEF Grows, tables
<1>3. ASSUME NEW w \in Workers, InsertDelivery(w) \/ InsertOrder(w) \/ InsertFails(w)
      PROVE  Grows
  <2>1. PICK e \in Events : e = Record(w)
    BY <1>3, EventInHand DEF InsertDelivery, InsertOrder, InsertFails, At, Busy
  <2>2. /\ deliveryRows' \in {deliveryRows, AddCopy(deliveryRows, e)}
        /\ orderRows' \in {orderRows, AddCopy(orderRows, e)}
        /\ UNCHANGED <<log, dlq, discarded>>
    BY <1>3, <2>1 DEF InsertDelivery, InsertOrder, InsertFails, groupVars
  <2>3. deliveryRows \in [Events -> 0..MaxCopies] /\ orderRows \in [Events -> 0..MaxCopies]
    BY <1>1 DEF ProjectionTypes
  <2>4. /\ \A f \in Events : deliveryRows[f] > 0 => deliveryRows'[f] > 0
        /\ \A f \in Events : orderRows[f] > 0 => orderRows'[f] > 0
    BY <2>2, <2>3, CopyAdded
  <2>. QED
    BY <1>1, <2>2, <2>4, LogsKept DEF Grows
<1>4. ASSUME NEW w \in Workers, PublishDeadLetter(w) PROVE Grows
  <2>1. PICK e \in Events : e = Record(w)
    BY <1>4, EventInHand DEF PublishDeadLetter, At, Busy
  <2>2. dlq' = [dlq EXCEPT ![worker[w].topic] = Append(@, e)]
    BY <1>4, <2>1 DEF PublishDeadLetter
  <2>3. dlq \in [Topics -> Seq(Events)] /\ log \in [Topics -> Seq(Events)]
    BY <1>1 DEF ProjectionTypes
  <2>4. ASSUME NEW t \in Topics PROVE ToSet(dlq[t]) \subseteq ToSet(dlq'[t])
    <3>1. dlq'[t] = dlq[t] \/ dlq'[t] = Append(dlq[t], e)
      BY <2>2, <2>3
    <3>. QED
      BY <2>3, <3>1, OneMore
  <2>5. UNCHANGED <<log, discarded, tables>>
    BY <1>4 DEF PublishDeadLetter, groupVars
  <2>. QED
    BY <2>3, <2>4, <2>5 DEF Grows, tables
<1>5. ASSUME NEW t \in Topics, Replay(t) PROVE Grows
  <2>1. PICK e \in ToSet(dlq[t]) : log' = [log EXCEPT ![t] = Append(log[t], e)]
    BY <1>5 DEF Replay
  <2>2. log \in [Topics -> Seq(Events)] /\ dlq[t] \in Seq(Events)
    BY <1>1 DEF ProjectionTypes
  <2>3. e \in Events
    BY <2>2 DEF ToSet
  <2>4. \A u \in Topics : /\ Len(log[u]) <= Len(log'[u])
                          /\ \A j \in 1..Len(log[u]) : log'[u][j] = log[u][j]
    BY <2>1, <2>2, <2>3, OneMore
  <2>. QED
    BY <1>5, <2>4 DEF Grows, Replay, groupVars, tables
<1>6. ASSUME NEW w \in Workers, NEW t \in Topics,
             Take(w, t) \/ Commit(w) \/ Restart(w) \/ Rebalance(t, w)
      PROVE  UNCHANGED <<log, dlq, discarded, tables>>
  BY <1>6 DEF Take, Commit, Restart, Rebalance
<1>7. ASSUME NEW w \in Workers, Commit(w) \/ Restart(w)
      PROVE  UNCHANGED <<log, dlq, discarded, tables>>
  BY <1>7 DEF Commit, Restart
<1>8. CASE UNCHANGED vars
  BY <1>2, <1>8 DEF vars, groupVars
<1>. QED
  BY <1>2, <1>3, <1>4, <1>5, <1>6, <1>7, <1>8, PollFailsKeeps DEF Next, WorkerStep

(* Only a dead letter is put behind the backlog. *)
LEMMA NextKeepsPartitions ==
    ASSUME AnalyticsInv, PartitionsGrow, [Next]_vars
    PROVE  PartitionsGrow'
<1>1. ProjectionTypes /\ Grows
  BY NextGrows DEF AnalyticsInv
<1>2. log \in [Topics -> Seq(Events)] /\ dlq \in [Topics -> Seq(Events)] /\ Backlog \in [Topics -> Seq(Events)]
  BY <1>1, AnalyticsAssumption DEF ProjectionTypes
<1>3. CASE UNCHANGED log
  BY <1>1, <1>2, <1>3 DEF PartitionsGrow, Grows
<1>4. ASSUME NEW t \in Topics, Replay(t) PROVE PartitionsGrow'
  <2>1. PICK e \in ToSet(dlq[t]) : log' = [log EXCEPT ![t] = Append(log[t], e)]
    BY <1>4 DEF Replay
  <2>2. e \in Events
    BY <1>2, dlq[t] \in Seq(Events) DEF ToSet
  <2>3. dlq' = dlq
    BY <1>4 DEF Replay
  <2>4. ASSUME NEW u \in Topics
        PROVE  /\ Len(Backlog[u]) <= Len(log'[u])
               /\ \A j \in 1..Len(Backlog[u]) : log'[u][j] = Backlog[u][j]
               /\ \A j \in 1..Len(log'[u]) : j > Len(Backlog[u]) => log'[u][j] \in ToSet(dlq[u])
    <3>1. /\ Len(Backlog[u]) <= Len(log[u])
          /\ \A j \in 1..Len(Backlog[u]) : log[u][j] = Backlog[u][j]
          /\ \A j \in 1..Len(log[u]) : j > Len(Backlog[u]) => log[u][j] \in ToSet(dlq[u])
          /\ log[u] \in Seq(Events) /\ Backlog[u] \in Seq(Events)
      BY <1>2 DEF PartitionsGrow
    <3>2. CASE u = t
      <4>1. log'[u] = Append(log[u], e) /\ e \in ToSet(dlq[u])
        BY <1>2, <2>1, <3>2
      <4>2. /\ Len(log'[u]) = Len(log[u]) + 1 /\ log'[u][Len(log[u]) + 1] = e
            /\ \A j \in 1..Len(log[u]) : log'[u][j] = log[u][j]
        BY <2>2, <3>1, <4>1
      <4>. QED
        BY <3>1, <4>1, <4>2
    <3>3. CASE u # t
      BY <1>2, <2>1, <3>1, <3>3
    <3>. QED
      BY <3>2, <3>3
  <2>. QED
    BY <2>3, <2>4 DEF PartitionsGrow
<1>5. ASSUME NEW w \in Workers, WorkerStep(w) \/ Restart(w) PROVE UNCHANGED log
  BY <1>5 DEF WorkerStep, Take, InsertDelivery, InsertOrder, InsertFails, PublishDeadLetter,
              Commit, Restart
<1>6. ASSUME NEW w \in Workers, NEW t \in Topics, Rebalance(t, w) \/ PollFails(w, t)
      PROVE  UNCHANGED log
  BY <1>6 DEF Rebalance, PollFails
<1>7. CASE UNCHANGED vars
  BY <1>3, <1>7 DEF vars
<1>. QED
  BY <1>3, <1>4, <1>5, <1>6, <1>7 DEF Next

(* A new row is of a record that was in a worker's hand. *)
LEMMA RowWritten ==
    ASSUME AnalyticsInv, [Next]_vars, NEW e \in Events, ~(orderRows[e] > 0), orderRows'[e] > 0
    PROVE  /\ HasOrderFact(e)
           /\ \E t \in Topics, n \in Nat \ {0} :
                 n <= Len(log[t]) /\ log[t][n] = e /\ SettledUpTo(t, n - 1)
<1>1. PICK w \in Workers : At(w, "order") /\ orderRows' = AddCopy(orderRows, Record(w))
  <2>1. orderRows' # orderRows
    OBVIOUS
  <2>2. ASSUME NEW t \in Topics
        PROVE  ~Replay(t) /\ \A w \in Workers : ~Rebalance(t, w) /\ ~Take(w, t) /\ ~PollFails(w, t)
    BY <2>1 DEF Replay, Rebalance, Take, PollFails, tables
  <2>3. ASSUME NEW w \in Workers
        PROVE  ~InsertDelivery(w) /\ ~PublishDeadLetter(w) /\ ~Commit(w) /\ ~Restart(w)
    BY <2>1 DEF InsertDelivery, PublishDeadLetter, Commit, Restart, tables
  <2>4. ~UNCHANGED vars
    BY <2>1 DEF vars, tables
  <2>5. PICK w \in Workers : InsertOrder(w) \/ InsertFails(w)
    BY <2>2, <2>3, <2>4 DEF Next, WorkerStep
  <2>. QED
    BY <2>1, <2>5 DEF InsertOrder, InsertFails
<1>2. PICK t \in Topics, n \in Nat \ {0}, d \in Events :
         /\ worker[w].topic = t /\ worker[w].offset = n
         /\ n <= Len(log[t]) /\ log[t][n] = d
         /\ SettledUpTo(t, n - 1) /\ HasOrderFact(d)
  BY <1>1 DEF AnalyticsInv, InHand, Busy, At
<1>3. d = Record(w) /\ orderRows \in [Events -> 0..MaxCopies]
  BY <1>2 DEF Record, AnalyticsInv, ProjectionTypes
<1>4. orderRows' = AddCopy(orderRows, d)
  BY <1>1, <1>3
<1>5. e = d
  BY <1>3, <1>4 DEF AddCopy
<1>. QED
  BY <1>2, <1>5

(* What preceded a record in hand was handled before it, or the record is a  *)
(* dead letter that came back.                                              *)
LEMMA PrecedingDone ==
    ASSUME ProjectionTypes, PartitionsGrow, BacklogInOrder,
           NEW e \in Events, NEW f \in Events, Precedes(f, e), HasOrderFact(e),
           NEW t \in Topics, NEW n \in Nat \ {0},
           n <= Len(log[t]), log[t][n] = e, SettledUpTo(t, n - 1)
    PROVE  orderRows[f] > 0 \/ Marred(e.order)
<1>1. log[t] \in Seq(Events) /\ Backlog \in [Topics -> Seq(Events)] /\ Backlog[t] \in Seq(Events)
  BY AnalyticsAssumption DEF ProjectionTypes
<1>2. CASE n > Len(Backlog[t])
  <2>1. e \in ToSet(dlq[t])
    BY <1>1, <1>2 DEF PartitionsGrow
  <2>. QED
    BY <2>1 DEF Marred, Missed
<1>3. CASE n <= Len(Backlog[t])
  <2>1. Backlog[t][n] = e /\ n \in DOMAIN Backlog[t]
    BY <1>1, <1>3 DEF PartitionsGrow
  <2>2. PICK u \in Topics : f \in ToSet(Backlog[u])
    BY DEF Events
  <2>3. PICK i \in DOMAIN Backlog[u] : Backlog[u][i] = f
    BY <2>2 DEF ToSet
  <2>4. u = t /\ i < n
    BY <2>1, <2>3 DEF BacklogInOrder
  <2>5. i \in 1..(n - 1) /\ log[t][i] = f
    BY <1>1, <1>3, <2>3, <2>4 DEF PartitionsGrow
  <2>6. Passable(t, i)
    BY <2>5 DEF SettledUpTo
  <2>7. HasOrderFact(f) /\ f.order = e.order
    BY DEF Precedes, HasOrderFact, OrderEvent
  <2>. QED
    BY <2>5, <2>6, <2>7 DEF Passable, Settled, Projected, Marred, Missed
<1>. QED
  BY <1>1, <1>2, <1>3

LEMMA NextKeepsFigures ==
    ASSUME AnalyticsInv, FiguresInv, [Next]_vars
    PROVE  FiguresInv'
<1>1. Grows /\ PartitionsGrow' /\ ProjectionTypes
  BY NextGrows, NextKeepsPartitions DEF FiguresInv, AnalyticsInv
<1>2. RowsTrue'
  BY RowWritten DEF FiguresInv, RowsTrue
<1>3. ASSUME NEW order, Marred(order) PROVE Marred(order)'
  <2>1. PICK t \in Topics, d \in Events : d.order = order /\ Missed(t, d)
    BY <1>3 DEF Marred
  <2>2. d \in ToSet(dlq[t]) => d \in ToSet(dlq'[t])
    BY <1>1 DEF Grows
  <2>3. ASSUME NEW i \in discarded[t], log[t][i] = d
        PROVE  i \in discarded'[t] /\ log'[t][i] = d
    BY <1>1, <2>3 DEF Grows, ProjectionTypes
  <2>. QED
    BY <2>1, <2>2, <2>3 DEF Marred, Missed
<1>4. ASSUME BacklogInOrder, NEW e \in Events, NEW f \in Events, Precedes(f, e), orderRows'[e] > 0
      PROVE  orderRows'[f] > 0 \/ Marred(e.order)'
  <2>1. orderRows[f] > 0 \/ Marred(e.order)
    <3>1. CASE orderRows[e] > 0
      BY <1>4, <3>1 DEF FiguresInv, HistoryKept
    <3>2. CASE ~(orderRows[e] > 0)
      <4>1. HasOrderFact(e)
        BY <1>4, <3>2, RowWritten
      <4>2. PICK t \in Topics, n \in Nat \ {0} :
               n <= Len(log[t]) /\ log[t][n] = e /\ SettledUpTo(t, n - 1)
        BY <1>4, <3>2, RowWritten
      <4>. QED
        BY <1>1, <1>4, <4>1, <4>2, PrecedingDone DEF FiguresInv
    <3>. QED
      BY <3>1, <3>2
  <2>2. orderRows[f] > 0 => orderRows'[f] > 0
    BY <1>1 DEF Grows
  <2>. QED
    BY <1>3, <2>1, <2>2
<1>5. BacklogInOrder => HistoryKept'
  BY <1>4 DEF HistoryKept, Precedes
<1>6. BacklogInOrder' <=> BacklogInOrder
  BY DEF BacklogInOrder, Precedes
<1>. QED
  BY <1>1, <1>2, <1>5 DEF FiguresInv, BacklogInOrder, Precedes

LEMMA FiguresInvariant == Spec => [](AnalyticsInv /\ FiguresInv)
<1>1. Init => FiguresInv
  <2>. SUFFICES ASSUME Init PROVE FiguresInv
    OBVIOUS
  <2>1. log = Backlog /\ Backlog \in [Topics -> Seq(Events)]
    BY AnalyticsAssumption DEF Init
  <2>2. PartitionsGrow
    BY <2>1 DEF PartitionsGrow
  <2>3. \A e \in Events : orderRows[e] = 0
    BY DEF Init
  <2>. QED
    BY <2>2, <2>3 DEF FiguresInv, RowsTrue, HistoryKept
<1>2. AnalyticsInv /\ FiguresInv /\ [Next]_vars => FiguresInv'
  BY NextKeepsFigures
<1>. QED
  BY <1>1, <1>2, AnalyticsInvariant, PTL DEF Spec

-----------------------------------------------------------------------------
(* Sums of the figures *)

(* A function takes finitely many values on a finite set. *)
LEMMA ImageFinite ==
    ASSUME NEW S, IsFiniteSet(S), NEW f
    PROVE  IsFiniteSet({f[x] : x \in S})
<1> DEFINE g == [x \in S |-> f[x]]
<1>1. g \in Surjection(S, {f[x] : x \in S})
  BY DEF Surjection
<1>. QED
  BY <1>1, FS_Surjection

(* Events are finitely many: a partition is a finite sequence. *)
LEMMA EventsFinite == IsFiniteSet(Events)
<1> DEFINE sets == [t \in Topics |-> ToSet(Backlog[t])]
<1>1. IsFiniteSet({sets[t] : t \in Topics})
  BY AnalyticsAssumption, ImageFinite
<1>2. ASSUME NEW t \in Topics PROVE IsFiniteSet(sets[t])
  <2>1. DOMAIN Backlog[t] = 1..Len(Backlog[t]) /\ Len(Backlog[t]) \in Nat
    BY AnalyticsAssumption
  <2>2. IsFiniteSet(DOMAIN Backlog[t])
    BY <2>1, FS_Interval
  <2>3. IsFiniteSet({Backlog[t][i] : i \in DOMAIN Backlog[t]})
    BY <2>2, ImageFinite
  <2>. QED
    BY <2>3 DEF ToSet
<1>3. IsFiniteSet(UNION {sets[t] : t \in Topics})
  <2>1. \A S \in {sets[t] : t \in Topics} : IsFiniteSet(S)
    BY <1>2
  <2>. HIDE DEF sets
  <2>. QED
    BY <1>1, <2>1, FS_UNION
<1>. QED
  BY <1>3 DEF Events

(* The two sums over rows, with the set as a parameter, are totals. *)
CountIn(rows, S) == MapThenSumSet(LAMBDA e : Final(rows, e), S)
PiecesIn(rows, p, S) == MapThenSumSet(LAMBDA e : Final(rows, e) * e.items[p], S)
Counts(rows) == [e \in Events |-> Final(rows, e)]
Pieces(rows, p) == [e \in Events |-> Final(rows, e) * e.items[p]]

LEMMA CountIsTotal ==
    ASSUME NEW rows, NEW S \in SUBSET Events
    PROVE  CountIn(rows, S) = Total(Counts(rows), S)
<1> DEFINE w == Counts(rows)
           F(h) == [s \in SUBSET S |->
                       IF s = {} THEN 0
                       ELSE Final(rows, CHOOSE x \in s : TRUE) + h[s \ {CHOOSE x \in s : TRUE}]]
           it == CHOOSE h : h = F(h)
<1>1. CountIn(rows, S) = it[S]
  BY DEF CountIn, MapThenSumSet, MapThenFoldSet
<1>2. IsFiniteSet(S)
  BY EventsFinite, FS_Subset
<1>3. PICK g : Totals(g, w, S) /\ Total(w, S) = g[S]
  BY <1>2, TotalUnfolds
<1>4. ASSUME NEW s \in SUBSET S, s # {} PROVE w[Pick(s)] = Final(rows, CHOOSE x \in s : TRUE)
  BY <1>4, PickIn DEF Counts, Pick
<1>5. ASSUME NEW h PROVE Totals(h, w, S) <=> h = F(h)
  <2> HIDE DEF w
  <2>. QED
    BY <1>4 DEF Totals, Pick
<1>6. Totals(it, w, S)
  <2> HIDE DEF w, F
  <2>1. g = F(g)
    BY <1>3, <1>5
  <2>2. it = F(it)
    BY <2>1
  <2>. QED
    BY <1>5, <2>2
<1>7. it[S] = Total(w, S)
  <2> HIDE DEF it, w
  <2>. QED
    BY <1>2, <1>6, TotalOfSubset
<1>. QED
  BY <1>1, <1>7

LEMMA PiecesIsTotal ==
    ASSUME NEW rows, NEW p, NEW S \in SUBSET Events
    PROVE  PiecesIn(rows, p, S) = Total(Pieces(rows, p), S)
<1> DEFINE w == Pieces(rows, p)
           F(h) == [s \in SUBSET S |->
                       IF s = {} THEN 0
                       ELSE Final(rows, CHOOSE x \in s : TRUE) * (CHOOSE x \in s : TRUE).items[p]
                              + h[s \ {CHOOSE x \in s : TRUE}]]
           it == CHOOSE h : h = F(h)
<1>1. PiecesIn(rows, p, S) = it[S]
  BY DEF PiecesIn, MapThenSumSet, MapThenFoldSet
<1>2. IsFiniteSet(S)
  BY EventsFinite, FS_Subset
<1>3. PICK g : Totals(g, w, S) /\ Total(w, S) = g[S]
  BY <1>2, TotalUnfolds
<1>4. ASSUME NEW s \in SUBSET S, s # {}
      PROVE  w[Pick(s)] = Final(rows, CHOOSE x \in s : TRUE) * (CHOOSE x \in s : TRUE).items[p]
  BY <1>4, PickIn DEF Pieces, Pick
<1>5. ASSUME NEW h PROVE Totals(h, w, S) <=> h = F(h)
  <2> HIDE DEF w
  <2>. QED
    BY <1>4 DEF Totals, Pick
<1>6. Totals(it, w, S)
  <2> HIDE DEF w, F
  <2>1. g = F(g)
    BY <1>3, <1>5
  <2>2. it = F(it)
    BY <2>1
  <2>. QED
    BY <1>5, <2>2
<1>7. it[S] = Total(w, S)
  <2> HIDE DEF it, w
  <2>. QED
    BY <1>2, <1>6, TotalOfSubset
<1>. QED
  BY <1>1, <1>7

(* Tables with no row that is not a fact count no more than the facts. *)
Within(rows) == \A e \in Events : Final(rows, e) <= Final(Truth, e)

LEMMA FinalBit ==
    ASSUME NEW rows, NEW e
    PROVE  Final(rows, e) \in {0, 1}
BY DEF Final

LEMMA CountMonotone ==
    ASSUME NEW rows, Within(rows), NEW B \in SUBSET Events, NEW S \in SUBSET B
    PROVE  CountIn(rows, S) <= CountIn(Truth, B)
<1>1. IsFiniteSet(B)
  BY EventsFinite, FS_Subset
<1>2. \A e \in B : Counts(rows)[e] \in Nat /\ Counts(Truth)[e] \in Nat
  BY FinalBit DEF Counts
<1>3. \A e \in S : Counts(rows)[e] <= Counts(Truth)[e]
  BY DEF Counts, Within
<1>4. Total(Counts(rows), S) <= Total(Counts(Truth), B)
  BY <1>1, <1>2, <1>3, TotalMonotone
<1>. QED
  BY <1>4, CountIsTotal

LEMMA PiecesMonotone ==
    ASSUME NEW rows, Within(rows), NEW B \in SUBSET Events, NEW S \in SUBSET B, NEW p \in Products
    PROVE  PiecesIn(rows, p, S) <= PiecesIn(Truth, p, B)
<1>1. IsFiniteSet(B)
  BY EventsFinite, FS_Subset
<1>2. ASSUME NEW e \in Events
      PROVE  /\ Pieces(rows, p)[e] \in Nat /\ Pieces(Truth, p)[e] \in Nat
             /\ Pieces(rows, p)[e] <= Pieces(Truth, p)[e]
  <2>1. e.items[p] \in Nat
    BY AnalyticsAssumption
  <2>2. Final(rows, e) \in {0, 1} /\ Final(Truth, e) \in {0, 1} /\ Final(rows, e) <= Final(Truth, e)
    BY FinalBit DEF Within
  <2>3. Pieces(rows, p)[e] = Final(rows, e) * e.items[p] /\ Pieces(Truth, p)[e] = Final(Truth, e) * e.items[p]
    BY DEF Pieces
  <2>. QED
    BY <2>1, <2>2, <2>3
<1>3. Total(Pieces(rows, p), S) <= Total(Pieces(Truth, p), B)
  BY <1>1, <1>2, TotalMonotone
<1>. QED
  BY <1>3, PiecesIsTotal

-----------------------------------------------------------------------------
(* The figures of such tables *)

LEMMA RowsWithin ==
    ASSUME RowsTrue, ProjectionTypes
    PROVE  /\ Within(orderRows)
           /\ \A types : Selected(orderRows, types) \subseteq Selected(Truth, types)
           /\ \A types : Selected(Truth, types) \subseteq Events
           /\ Completed(orderRows) \subseteq Completed(Truth)
<1>1. ASSUME NEW e \in Events
      PROVE  /\ Final(orderRows, e) <= Final(Truth, e)
             /\ Final(orderRows, e) > 0 => Final(Truth, e) > 0
  <2>1. orderRows[e] > 0 => Truth[e] = 1
    BY DEF RowsTrue, Truth
  <2>. QED
    BY <2>1 DEF Final
<1>2. \A types : Selected(orderRows, types) \subseteq Selected(Truth, types)
  BY <1>1 DEF Selected
<1>. QED
  BY <1>1, <1>2 DEF Within, Selected, Completed

(* Orders per hour and products sold. *)
LEMMA OrdersTrue ==
    ASSUME RowsTrue, ProjectionTypes
    PROVE  /\ \A h \in DOMAIN OrdersByHour(orderRows) :
                 OrdersByHour(orderRows)[h] <= OrdersByHour(Truth)[h]
           /\ \A p \in Products : PopularProducts(orderRows)[p] <= PopularProducts(Truth)[p]
<1> DEFINE In(rows, h) == {e \in Created(rows) : e.at \div HourLength = h}
<1>1. /\ Within(orderRows)
      /\ Created(orderRows) \subseteq Created(Truth) /\ Created(Truth) \subseteq Events
  BY RowsWithin DEF Created
<1>2. ASSUME NEW rows, NEW h \in DOMAIN OrdersByHour(rows)
      PROVE  OrdersByHour(rows)[h] = CountIn(rows, In(rows, h))
  BY <1>2 DEF OrdersByHour, CountIn
<1>3. ASSUME NEW h \in DOMAIN OrdersByHour(orderRows)
      PROVE  OrdersByHour(orderRows)[h] <= OrdersByHour(Truth)[h]
  <2>1. h \in DOMAIN OrdersByHour(Truth)
    BY <1>1 DEF OrdersByHour
  <2>2. In(Truth, h) \in SUBSET Events /\ In(orderRows, h) \in SUBSET In(Truth, h)
    BY <1>1
  <2>3. CountIn(orderRows, In(orderRows, h)) <= CountIn(Truth, In(Truth, h))
    <3>. HIDE DEF In
    <3>. QED
      BY <1>1, <2>2, CountMonotone
  <2>. QED
    BY <1>2, <2>1, <2>3
<1>4. ASSUME NEW p \in Products
      PROVE  PopularProducts(orderRows)[p] <= PopularProducts(Truth)[p]
  <2>1. /\ PopularProducts(orderRows)[p] = PiecesIn(orderRows, p, Created(orderRows))
        /\ PopularProducts(Truth)[p] = PiecesIn(Truth, p, Created(Truth))
    BY DEF PopularProducts, PiecesIn
  <2>. QED
    BY <1>1, <2>1, PiecesMonotone
<1>. QED
  BY <1>3, <1>4

(* The two counts of the SLO. *)
LEMMA SLOTrue ==
    ASSUME RowsTrue, ProjectionTypes
    PROVE  /\ DeliverySLO(orderRows).completed <= DeliverySLO(Truth).completed
           /\ DeliverySLO(orderRows).onTime <= DeliverySLO(Truth).onTime
<1> DEFINE OnTime(rows) == {e \in Completed(rows) : e.actual <= e.predicted}
<1>1. /\ Within(orderRows) /\ Completed(Truth) \in SUBSET Events
      /\ Completed(orderRows) \in SUBSET Completed(Truth)
  BY RowsWithin DEF Completed
<1>2. OnTime(Truth) \in SUBSET Events /\ OnTime(orderRows) \in SUBSET OnTime(Truth)
  BY <1>1
<1>3. /\ CountIn(orderRows, Completed(orderRows)) <= CountIn(Truth, Completed(Truth))
      /\ CountIn(orderRows, OnTime(orderRows)) <= CountIn(Truth, OnTime(Truth))
  <2>. HIDE DEF OnTime
  <2>. QED
    BY <1>1, <1>2, CountMonotone
<1>4. ASSUME NEW rows
      PROVE  /\ DeliverySLO(rows).completed = CountIn(rows, Completed(rows))
             /\ DeliverySLO(rows).onTime = CountIn(rows, OnTime(rows))
  BY DEF DeliverySLO, CountIn
<1>. QED
  BY <1>3, <1>4

(* Distinct orders that were cancelled. *)
LEMMA CancellationsTrue ==
    ASSUME RowsTrue, ProjectionTypes
    PROVE  Cancellations(orderRows) <= Cancellations(Truth)
<1> DEFINE Facts(rows) == {f \in Events : Final(rows, f) > 0 /\ FactStatus(f) = "cancelled"}
           Ids(rows) == {e.order : e \in Facts(rows)}
           orderOf == [e \in Events |-> e.order]
<1>1. Facts(orderRows) \subseteq Facts(Truth)
  <2>1. ASSUME NEW f \in Events, Final(orderRows, f) > 0 PROVE Final(Truth, f) > 0
    BY <2>1, RowsWithin, FinalBit DEF Within
  <2>. QED
    BY <2>1
<1>2. IsFiniteSet(Ids(Truth))
  <2>1. IsFiniteSet(Facts(Truth))
    BY EventsFinite, FS_Subset
  <2>2. IsFiniteSet({orderOf[e] : e \in Facts(Truth)})
    <3>. HIDE DEF Facts, orderOf
    <3>. QED
      BY <2>1, ImageFinite
  <2>3. Ids(Truth) = {orderOf[e] : e \in Facts(Truth)}
    OBVIOUS
  <2>. QED
    BY <2>2, <2>3
<1>3. Ids(orderRows) \subseteq Ids(Truth)
  BY <1>1
<1>4. Cardinality(Ids(orderRows)) <= Cardinality(Ids(Truth))
  <2>. HIDE DEF Ids
  <2>. QED
    BY <1>2, <1>3, FS_Subset
<1>. QED
  BY <1>4 DEF Cancellations

(* A duration of a complete history is that of the history. *)
LEMMA DurationsTrue ==
    ASSUME RowsTrue, ProjectionTypes, HistoryKept,
           NEW d \in StatusDurations(orderRows) \ StatusDurations(Truth)
    PROVE  \E t \in Topics, e \in Events : e.order = d.order /\ Missed(t, e)
<1> DEFINE History(rows) == Selected(rows, {"order.created", "order.status_changed"})
           Duration(rows, e) == [order |-> e.order, status |-> e.previous,
                                 duration |-> e.at - Max({f.at : f \in Earlier(rows, e)})]
<1>1. PICK e \in History(orderRows) :
         e.previous # "none" /\ Earlier(orderRows, e) # {} /\ d = Duration(orderRows, e)
  BY DEF StatusDurations
<1>2. SUFFICES ASSUME ~Marred(e.order) PROVE FALSE
  BY <1>1 DEF Marred
<1>3. e \in History(Truth) /\ History(orderRows) \subseteq History(Truth)
  BY <1>1, RowsWithin
<1>4. ASSUME NEW f \in Earlier(Truth, e) PROVE f \in Earlier(orderRows, e)
  <2>1. f \in Events /\ e \in Events /\ Precedes(f, e) /\ orderRows[e] > 0
    BY <1>1 DEF Earlier, Selected, Precedes, Final
  <2>2. orderRows[f] > 0
    BY <1>2, <2>1 DEF HistoryKept
  <2>. QED
    BY <2>1, <2>2 DEF Earlier, Selected, Precedes, Final
<1>5. Earlier(orderRows, e) = Earlier(Truth, e)
  BY <1>3, <1>4 DEF Earlier
<1>6. Duration(Truth, e) = Duration(orderRows, e)
  BY <1>5
<1>7. d \in StatusDurations(Truth)
  BY <1>1, <1>3, <1>5, <1>6 DEF StatusDurations
<1>. QED
  BY <1>7

(* README.md, step 11: with stable event ids, ReplacingMergeTree and FINAL   *)
(* no figure counts more than what happened, at whatever moment it is read; *)
(* and when the topics show the history of each order as it was, a duration *)
(* is wrong only if an event of its order is a dead letter or was thrown    *)
(* away by a poll.                                                         *)
THEOREM FiguresNeverTooHigh ==
    ASSUME BacklogInOrder
    PROVE  Spec => []FiguresTrue
<1>1. AnalyticsInv /\ FiguresInv => FiguresTrue
  BY BacklogInOrder, OrdersTrue, SLOTrue, CancellationsTrue, DurationsTrue
     DEF AnalyticsInv, FiguresInv, FiguresTrue
<1>. QED
  BY <1>1, FiguresInvariant, PTL
=============================================================================
