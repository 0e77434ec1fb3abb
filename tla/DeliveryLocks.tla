---------------------------- MODULE DeliveryLocks ----------------------------
(***************************************************************************)
(* The transactions of delivery-service, statement by statement.  Delivery *)
(* takes each handler as one step; here a handler is a transaction at READ *)
(* COMMITTED that waits for row locks, reads, and writes when it commits,  *)
(* and PostgreSQL breaks the cycles of waiting transactions.               *)
(*                                                                         *)
(*   assign          event, then couriers in the order of the candidates   *)
(*   cancel          event, delivery, courier                              *)
(*   updateLocation  event, courier, delivery                              *)
(*   delay           delivery                                              *)
(*   complete        delivery, courier                                     *)
(*                                                                         *)
(* A transaction decides on what it read: nothing here but the locks makes *)
(* the decision still true when it commits.                                *)
(***************************************************************************)
EXTENDS Delivery, SequencesExt

CONSTANTS
    Processes,   \* connections: consumers and dispatcher requests
    MaxInputs    \* bound on location reports and delays together

ASSUME LocksAssumption == IsFiniteSet(Couriers)

VARIABLES
    pc,      \* what the transaction of a connection does next
    tx,      \* its input and what it read
    held     \* rows it has locked

txVars == <<pc, tx, held>>

NoReport == [courier |-> NoCourier, delivery |-> NoDelivery, seq |-> 0, phase |-> "available"]
NoTx == [op |-> "none", order |-> NoDelivery, report |-> NoReport, candidates |-> << >>,
         saw |-> NoDeliveryRow]

(* Rows: the inbox entry of an event (the unique index makes a second        *)
(* insert wait), a courier, a delivery.                                     *)
EventRow(t) ==
    CASE t.op = "assign" -> <<"order.created", t.order>>
      [] t.op = "cancel" -> <<"order.cancelled", t.order>>
      [] OTHER -> <<"report", t.report.seq>>
CourierRow(c) == <<"courier", c>>
DeliveryRow(o) == <<"delivery", o>>

(* The consumers come back to a backlog: every order was created, one was    *)
(* cancelled, and Redis knows the couriers; the cancelled order may be on    *)
(* its way, the other events are not handled.                              *)
LocksInit ==
    \E cancelled \in Orders, courier \in Couriers : \E first \in {cancelled, NoDelivery} :
    /\ published = ({"order.created"} \X Orders) \cup {<<"order.cancelled", cancelled>>}
    /\ deliveries = [o \in Orders |->
           IF o = first THEN [status |-> "assembling", courier |-> courier, delay |-> 0]
           ELSE NoDeliveryRow]
    /\ couriers = [c \in Couriers |->
           IF first # NoDelivery /\ c = courier THEN "assigned" ELSE "available"]
    /\ outbox = [o \in Orders |->
           IF o = first THEN <<"delivery.assigned", "delivery.assembling">> ELSE << >>]
    /\ inbox = {<<"order.created", o>> : o \in Orders \cap {first}}
    /\ age = [o \in Orders |-> 0]
    /\ lastSeq = [c \in Couriers |-> 0]
    /\ geo = Couriers
    /\ delays = [o \in Orders |-> 0]
    /\ seen = {} /\ missed = {}
    /\ reports = {} /\ sequence = 0
    /\ pc = [p \in Processes |-> "idle"]
    /\ tx = [p \in Processes |-> NoTx]
    /\ held = [p \in Processes |-> {}]

(***************************************************************************)
(* Waiting, deciding, ending                                               *)
(***************************************************************************)
Inputs == sequence + MapThenSumSet(LAMBDA o : delays[o], Orders)

Others(p) == Processes \ {p}
Free(p, row) == \A q \in Others(p) : row \notin held[q]

(* p has the lock it waited for; t is what it knows now. *)
Lock(p, row, step, t) ==
    /\ Free(p, row)
    /\ held' = [held EXCEPT ![p] = @ \cup {row}]
    /\ pc' = [pc EXCEPT ![p] = step]
    /\ tx' = [tx EXCEPT ![p] = t]
    /\ UNCHANGED vars

End(p) ==
    /\ pc' = [pc EXCEPT ![p] = "idle"]
    /\ tx' = [tx EXCEPT ![p] = NoTx]
    /\ held' = [held EXCEPT ![p] = {}]

Rollback(p) ==
    /\ End(p)
    /\ missed' = IF tx[p].op = "cancel" THEN missed \ {tx[p].order} ELSE missed
    /\ UNCHANGED <<dispatchVars, lastSeq, geo, inbox, seen, kafkaVars, age>>

(***************************************************************************)
(* First statements.  Waiting for the first lock holds nothing, so a        *)
(* transaction begins when it gets it.  markProcessed of an event that is   *)
(* marked already ends at once and is left out.                            *)
(***************************************************************************)

(* Redis answers before: some of the couriers it knows, nearest first. *)
BeginAssign(p, o, candidates) ==
    /\ pc[p] = "idle"
    /\ FirstTime(<<"order.created", o>>)
    /\ Lock(p, <<"order.created", o>>, "candidate",
            [NoTx EXCEPT !.op = "assign", !.order = o, !.candidates = candidates])

BeginCancel(p, o) ==
    /\ pc[p] = "idle"
    /\ FirstTime(<<"order.cancelled", o>>)
    /\ Lock(p, <<"order.cancelled", o>>, "delivery",
            [NoTx EXCEPT !.op = "cancel", !.order = o])

BeginLocate(p, e) ==
    /\ pc[p] = "idle"
    /\ Unseen(e)
    /\ Lock(p, <<"report", e.seq>>, "courier",
            [NoTx EXCEPT !.op = "locate", !.order = e.delivery, !.report = e])

(* Handler.delay and Handler.complete: SELECT ... FOR UPDATE.  One that      *)
(* finds the delivery finished answers 409 and is left out.                 *)
BeginOperation(p, o, op, step) ==
    /\ pc[p] = "idle"
    /\ deliveries[o].status \in Underway
    /\ Lock(p, DeliveryRow(o), step,
            [NoTx EXCEPT !.op = op, !.order = o, !.saw = deliveries[o]])

BeginDelay(p, o) ==
    /\ delays[o] < MaxDelays
    /\ Inputs < MaxInputs
    /\ BeginOperation(p, o, "delay", "commit")

(* Mutation: the courier is updated before the delivery is locked. *)
BeginCompleteCourierFirst(p, o) ==
    /\ pc[p] = "idle"
    /\ deliveries[o].status \in Underway
    /\ Lock(p, CourierRow(deliveries[o].courier), "delivery",
            [NoTx EXCEPT !.op = "complete", !.order = o, !.saw = deliveries[o]])

BeginComplete(p, o) == BeginOperation(p, o, "complete", "courier")

(***************************************************************************)
(* Consumer.assign                                                         *)
(***************************************************************************)

(* Mutation: SELECT status without FOR UPDATE. *)
ReadCandidate(p) ==
    /\ pc[p] = "candidate"
    /\ tx[p].candidates # << >>
    /\ LET c == Head(tx[p].candidates) IN
       /\ pc' = [pc EXCEPT ![p] = IF couriers[c] = "available" THEN "commit" ELSE "candidate"]
       /\ tx' = [tx EXCEPT ![p] = IF couriers[c] = "available" THEN @
                                  ELSE [@ EXCEPT !.candidates = Tail(@)]]
    /\ UNCHANGED <<vars, held>>

(* SELECT status ... FOR UPDATE: the lock stays, also on a busy courier. *)
LockCandidate(p) ==
    /\ pc[p] = "candidate"
    /\ tx[p].candidates # << >>
    /\ LET c == Head(tx[p].candidates) IN
       IF couriers[c] = "available"
       THEN Lock(p, CourierRow(c), "commit", tx[p])
       ELSE Lock(p, CourierRow(c), "candidate", [tx[p] EXCEPT !.candidates = Tail(@)])

AllBusy(p) ==
    /\ pc[p] = "candidate"
    /\ tx[p].candidates = << >>
    /\ Rollback(p)

CommitAssign(p) ==
    LET o == tx[p].order
        c == Head(tx[p].candidates) IN
    /\ pc[p] = "commit" /\ tx[p].op = "assign"
    /\ inbox' = inbox \cup {<<"order.created", o>>}
    /\ couriers' = [couriers EXCEPT ![c] = "assigned"]
    /\ deliveries' = [deliveries EXCEPT ![o] = [status |-> "assigned", courier |-> c, delay |-> 0]]
    /\ outbox' = [outbox EXCEPT ![o] = Append(@, "delivery.assigned")]
    /\ age' = [age EXCEPT ![o] = 0]
    /\ End(p)
    /\ UNCHANGED <<delays, lastSeq, geo, seen, missed, kafkaVars>>

(***************************************************************************)
(* The delivery's row, of cancel and of updateLocation                     *)
(***************************************************************************)

(* Mutation: cancel reads the delivery without FOR UPDATE. *)
CancelReadsDelivery(p) ==
    /\ pc[p] = "delivery" /\ tx[p].op = "cancel"
    /\ pc' = [pc EXCEPT ![p] = IF deliveries[tx[p].order].status \in Underway
                               THEN "courier" ELSE "commit"]
    /\ tx' = [tx EXCEPT ![p].saw = deliveries[tx[p].order]]
    /\ UNCHANGED <<vars, held>>

(* No row: nothing to lock, and the mark will be committed. *)
CancelReadsNoRow(p) ==
    LET o == tx[p].order IN
    /\ pc[p] = "delivery" /\ tx[p].op = "cancel"
    /\ deliveries[o].status = "none"
    /\ missed' = missed \cup {o}
    /\ pc' = [pc EXCEPT ![p] = "commit"]
    /\ UNCHANGED <<dispatchVars, lastSeq, geo, inbox, seen, kafkaVars, age, tx, held>>

CancelLocksDelivery(p) ==
    LET o == tx[p].order IN
    /\ pc[p] = "delivery" /\ tx[p].op = "cancel"
    /\ deliveries[o].status # "none"
    /\ Lock(p, DeliveryRow(o), IF deliveries[o].status \in Underway THEN "courier" ELSE "commit",
            [tx[p] EXCEPT !.saw = deliveries[o]])

(* Mutation: applyPhase reads the delivery without FOR UPDATE. *)
LocateReadsDelivery(p) ==
    /\ pc[p] = "delivery" /\ tx[p].op = "locate"
    /\ pc' = [pc EXCEPT ![p] = "commit"]
    /\ tx' = [tx EXCEPT ![p].saw = deliveries[tx[p].order]]
    /\ UNCHANGED <<vars, held>>

(* applyPhase reads the delivery; what it cannot apply is rolled back. *)
LocateLocksDelivery(p) ==
    LET o == tx[p].order IN
    /\ pc[p] = "delivery" /\ tx[p].op = "locate"
    /\ Lock(p, DeliveryRow(o), "commit", [tx[p] EXCEPT !.saw = deliveries[o]])

(***************************************************************************)
(* The courier's row                                                       *)
(***************************************************************************)

(* updateLocation: UPDATE ... WHERE location_sequence < $4. *)
LocateLocksCourier(p) ==
    LET e == tx[p].report IN
    /\ pc[p] = "courier" /\ tx[p].op = "locate"
    /\ lastSeq[e.courier] < e.seq
    /\ Lock(p, CourierRow(e.courier), IF e.delivery = NoDelivery THEN "commit" ELSE "delivery", tx[p])

(* ... which finds no row when the position is old, and the mark commits. *)
CommitStaleReport(p) ==
    LET e == tx[p].report IN
    /\ pc[p] = "courier" /\ tx[p].op = "locate"
    /\ lastSeq[e.courier] >= e.seq
    /\ seen' = seen \cup {e.seq}
    /\ End(p)
    /\ UNCHANGED <<dispatchVars, lastSeq, geo, inbox, missed, kafkaVars, age>>

(* cancel and complete: UPDATE of the courier they read with the delivery. *)
EndLocksCourier(p) ==
    /\ pc[p] = "courier" /\ tx[p].op \in {"cancel", "complete"}
    /\ Lock(p, CourierRow(tx[p].saw.courier), "commit", tx[p])

(***************************************************************************)
(* Commits                                                                 *)
(***************************************************************************)

(* Mutation: the courier goes offline instead of back to the fleet. *)
WriteEndOffline(p, status, event) ==
    LET o == tx[p].order IN
    /\ deliveries' = [deliveries EXCEPT ![o].status = status]
    /\ couriers' = [couriers EXCEPT ![tx[p].saw.courier] = "offline"]
    /\ outbox' = [outbox EXCEPT ![o] = Append(@, event)]
    /\ UNCHANGED delays

(* The writes of an end, on what was read. *)
WriteEnd(p, status, event) ==
    LET o == tx[p].order IN
    /\ deliveries' = [deliveries EXCEPT ![o].status = status]
    /\ couriers' = [couriers EXCEPT ![tx[p].saw.courier] = "available"]
    /\ outbox' = [outbox EXCEPT ![o] = Append(@, event)]
    /\ UNCHANGED delays

CommitCancel(p) ==
    LET o == tx[p].order IN
    /\ pc[p] = "commit" /\ tx[p].op = "cancel"
    /\ inbox' = inbox \cup {<<"order.cancelled", o>>}
    /\ IF tx[p].saw.status \in Underway
       THEN WriteEnd(p, "cancelled", "delivery.cancelled")
       ELSE UNCHANGED dispatchVars
    /\ missed' = missed \ {o}
    /\ End(p)
    /\ UNCHANGED <<lastSeq, geo, seen, kafkaVars, age>>

CommitComplete(p) ==
    /\ pc[p] = "commit" /\ tx[p].op = "complete"
    /\ WriteEnd(p, "completed", "delivery.completed")
    /\ End(p)
    /\ UNCHANGED <<lastSeq, geo, inboxVars, kafkaVars, age>>

CommitDelay(p) ==
    LET o == tx[p].order IN
    /\ pc[p] = "commit" /\ tx[p].op = "delay"
    /\ deliveries' = [deliveries EXCEPT ![o].delay =
                        IF @ + DelayStep > MaxDelay THEN MaxDelay ELSE @ + DelayStep]
    /\ delays' = [delays EXCEPT ![o] = @ + 1]
    /\ End(p)
    /\ UNCHANGED <<couriers, outbox, lastSeq, geo, inboxVars, kafkaVars, age>>

(* What applyPhase refuses: another courier's delivery, or a phase that does *)
(* not follow the status it read.                                          *)
Refused(t) ==
    /\ t.order # NoDelivery
    /\ \/ t.saw.courier # t.report.courier
       \/ /\ t.report.phase # t.saw.status
          /\ ~validDeliveryTransition(t.saw.status, t.report.phase)

RefuseReport(p) ==
    /\ pc[p] = "commit" /\ tx[p].op = "locate"
    /\ Refused(tx[p])
    /\ Rollback(p)

CommitLocate(p) ==
    LET e == tx[p].report
        o == e.delivery IN
    /\ pc[p] = "commit" /\ tx[p].op = "locate"
    /\ ~Refused(tx[p])
    /\ seen' = seen \cup {e.seq}
    /\ lastSeq' = [lastSeq EXCEPT ![e.courier] = e.seq]
    /\ geo' \in {geo, geo \cup {e.courier}}
    /\ IF o = NoDelivery \/ e.phase = tx[p].saw.status THEN UNCHANGED dispatchVars
       ELSE IF e.phase = "completed" THEN WriteEnd(p, "completed", "delivery.completed")
       ELSE /\ deliveries' = [deliveries EXCEPT ![o].status = e.phase]
            /\ outbox' = [outbox EXCEPT ![o] = Append(@, IF e.phase = "assembling"
                                                          THEN "delivery.assembling"
                                                          ELSE "delivery.delivering")]
            /\ UNCHANGED <<couriers, delays>>
    /\ End(p)
    /\ UNCHANGED <<inbox, missed, kafkaVars, age>>

(***************************************************************************)
(* Deadlocks                                                               *)
(***************************************************************************)
Waiting(p) ==
    \/ pc[p] = "candidate" /\ tx[p].candidates # << >>
    \/ pc[p] \in {"delivery", "courier"}

Wants(p) ==
    CASE pc[p] = "candidate" -> CourierRow(Head(tx[p].candidates))
      [] pc[p] = "delivery" -> DeliveryRow(tx[p].order)
      [] pc[p] = "courier" -> CourierRow(IF tx[p].op = "locate" THEN tx[p].report.courier
                                         ELSE tx[p].saw.courier)

WaitsFor(p, q) == p # q /\ Waiting(p) /\ Wants(p) \in held[q]

(* Transactions that wait for each other in circles: each of S waits for one *)
(* of S and keeps one of S waiting.                                        *)
Deadlocked(S) ==
    \A p \in S : (\E q \in S : WaitsFor(p, q)) /\ (\E q \in S : WaitsFor(q, p))

(* PostgreSQL's deadlock check, after deadlock_timeout, fails one statement. *)
AbortVictim(p) ==
    /\ Waiting(p)
    /\ \E S \in SUBSET Processes : p \in S /\ Deadlocked(S)
    /\ Rollback(p)

(* The process dies, or a statement fails for another reason. *)
LoseConnection(p) == pc[p] # "idle" /\ Rollback(p)

Step(p) ==
    \/ LockCandidate(p) \/ AllBusy(p) \/ CommitAssign(p)
    \/ CancelReadsNoRow(p) \/ CancelLocksDelivery(p) \/ LocateLocksDelivery(p)
    \/ LocateLocksCourier(p) \/ CommitStaleReport(p) \/ EndLocksCourier(p)
    \/ CommitCancel(p) \/ CommitComplete(p) \/ CommitDelay(p)
    \/ RefuseReport(p) \/ CommitLocate(p)
    \/ AbortVictim(p)

(* The simulator reports and time passes as in Delivery. *)
Surroundings ==
    /\ \/ Inputs < MaxInputs /\ \E c \in Couriers : ReportIdle(c) \/ ReportActive(c)
       \/ PassTime
    /\ UNCHANGED txVars

LocksNext ==
    \/ Surroundings
    \/ \E p \in Processes :
          \/ \E o \in Orders :
                \/ \E candidates \in SetToAllKPermutations(geo) \ {<< >>} :
                      BeginAssign(p, o, candidates)
                \/ BeginCancel(p, o) \/ BeginDelay(p, o) \/ BeginComplete(p, o)
          \/ \E e \in reports : BeginLocate(p, e)
          \/ Step(p)
          \/ LoseConnection(p)

LocksSpec == LocksInit /\ [][LocksNext]_<<vars, txVars>>

(***************************************************************************)
(* Properties                                                              *)
(***************************************************************************)

(* Types, of the tables too; and two transactions never hold the same row. *)
LocksTypeOK ==
    /\ TypeOK
    /\ pc \in [Processes -> {"idle", "candidate", "delivery", "courier", "commit"}]
    /\ \A p \in Processes :
          /\ pc[p] = "idle" <=> tx[p] = NoTx
          /\ pc[p] = "idle" <=> held[p] = {}
          /\ \A q \in Others(p) : held[p] \cap held[q] = {}

(* Every transaction is one atomic step of Delivery, at its commit, however  *)
(* the statements of several interleave: what a handler decided on is still  *)
(* true when it writes.  (UNCHANGED is what a stuttering step means anyway;   *)
(* said first, it spares TLC the evaluation of Next.)                       *)
HandlersAtomic == [][UNCHANGED vars \/ Next]_vars

(* consumer.go:217 and handler.go:152.  Only two pairs of handlers deadlock: *)
(* a location report with the end of its courier's delivery, and two         *)
(* assignments whose candidates came in different orders.                   *)
DeadlocksKnown ==
    \A S \in SUBSET {p \in Processes : Waiting(p)} :
        S # {} /\ Deadlocked(S) =>
            LET ops == {tx[p].op : p \in S} IN
            \/ "locate" \in ops /\ ops \cap {"cancel", "complete"} # {}
            \/ ops = {"assign"}
=============================================================================
