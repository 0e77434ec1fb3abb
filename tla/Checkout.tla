------------------------------ MODULE Checkout ------------------------------
(***************************************************************************)
(* order-service's checkout and cancellation over catalog-service.         *)
(*                                                                         *)
(* A handler is one HTTP request being served by some replica of           *)
(* order-service: Service.Create or Service.Cancel.  PostgreSQL (the       *)
(* idempotency keys, the orders, the outbox, the advisory lock of a key,   *)
(* the row lock of an order) is shared by all of them and survives them;   *)
(* a handler's own progress does not.  Calls to catalog-service travel in  *)
(* calls: one may be served late, after the handler gave up on it, or      *)
(* never.  The cart-service is seen here through its answer only.          *)
(***************************************************************************)
EXTENDS Catalog

CONSTANTS
    Handlers,        \* request slots
    Keys,            \* Idempotency-Key values
    OrderIds,        \* order ids (UUIDs)
    Requests,        \* checkout bodies: [user, version]
    KnownUsers,      \* users present in orders.users
    MaxCartVersion,  \* bound on cart versions
    MaxRequests,     \* bound on requests served in a behaviour
    NoHandler, NoKey, NoRequest, NoAttempt, NoOrder

ASSUME CheckoutAssumption ==
    /\ \A r \in Requests : r.version \in Nat
    /\ MaxCartVersion \in Nat
    /\ MaxRequests \in Nat
    /\ NoHandler \notin Handlers
    /\ NoKey \notin Keys
    /\ NoRequest \notin Requests
    /\ NoAttempt \notin Attempts
    /\ NoOrder \notin OrderIds

VARIABLES
    idem,        \* orders.idempotency_keys
    orders,      \* orders.orders; field key is history: the key that placed it
    outbox,      \* orders.outbox and order_status_history, per order
    keyLock,     \* pg_advisory_lock(key): the session that holds it
    rowLock,     \* SELECT ... FOR UPDATE on an order held across a call
    handler,     \* the request each slot is serving
    calls,       \* requests on their way to catalog-service
    answers,     \* history: <<key, order>> answered with success
    cart,        \* what cart-service would answer now
    served       \* number of requests accepted so far

orderVars == <<idem, orders, outbox, answers>>
lockVars == <<keyLock, rowLock>>
vars == <<idem, orders, outbox, keyLock, rowLock, handler, calls, answers, cart, served,
          available, reservations, catalogOutbox>>

OrderStatus == {"created", "confirmed", "assembling", "delivering", "delivered", "cancelled"}

EventType == {"order.created", "order.confirmed", "order.cancelled", "order.status_changed"}

NoRow == [state |-> "none", hash |-> NoRequest, attempt |-> NoAttempt, order |-> NoOrder]
NoOrderRow == [status |-> "none", key |-> NoKey, reservation |-> NoAttempt, items |-> EmptyBasket]
Idle == [pc |-> "idle", key |-> NoKey, request |-> NoRequest,
         attempt |-> NoAttempt, order |-> NoOrder, reply |-> "none",
         granted |-> EmptyBasket]

Init ==
    /\ CatalogInit
    /\ idem = [k \in Keys |-> NoRow]
    /\ orders = [o \in OrderIds |-> NoOrderRow]
    /\ outbox = [o \in OrderIds |-> << >>]
    /\ keyLock = [k \in Keys |-> NoHandler]
    /\ rowLock = [o \in OrderIds |-> NoHandler]
    /\ handler = [h \in Handlers |-> Idle]
    /\ calls = {}
    /\ answers = {}
    /\ cart \in [version : {1}, items : Baskets \ {EmptyBasket}]
    /\ served = 0

(***************************************************************************)
(* Order state machine                                                     *)
(***************************************************************************)
canCancel(status) == status \in {"created", "confirmed"}

validTransition(current, target) ==
    \/ current = "created"    /\ target = "confirmed"
    \/ current = "confirmed"  /\ target \in {"assembling", "delivered"}
    \/ current = "assembling" /\ target \in {"delivering", "delivered"}
    \/ current = "delivering" /\ target = "delivered"

Event(type, from, to) == [type |-> type, from |-> from, to |-> to]

StatusChanged(from, to) == Event("order.status_changed", from, to)

(***************************************************************************)
(* Requests, calls and locks                                               *)
(***************************************************************************)
Call(op, att, items, h) == [op |-> op, attempt |-> att, items |-> items, by |-> h]

(* The connection of a handler that is gone: its call may still be served. *)
Orphaned(h) ==
    {c \in calls : c.by # h} \cup {[c EXCEPT !.by = NoHandler] : c \in {d \in calls : d.by = h}}

(* The deferred unlock and rollback, or the end of the session. *)
ReleaseLocks(h) ==
    /\ keyLock' = [k \in Keys |-> IF keyLock[k] = h THEN NoHandler ELSE keyLock[k]]
    /\ rowLock' = [o \in OrderIds |-> IF rowLock[o] = h THEN NoHandler ELSE rowLock[o]]

(* The request is over; whatever it still has in flight goes on without it. *)
EndRequest(h) ==
    /\ handler' = [handler EXCEPT ![h] = Idle]
    /\ calls' = Orphaned(h)
    /\ ReleaseLocks(h)

(***************************************************************************)
(* Service.Create                                                          *)
(***************************************************************************)
StartCreate(h, k, r) ==
    /\ handler[h].pc = "idle"
    /\ served < MaxRequests
    /\ served' = served + 1
    /\ handler' = [handler EXCEPT ![h] = [Idle EXCEPT !.pc = "lock", !.key = k, !.request = r]]
    /\ UNCHANGED <<orderVars, lockVars, calls, cart, catalogVars>>

AcquireKeyLock(h) ==
    /\ handler[h].pc = "lock"
    /\ keyLock[handler[h].key] = NoHandler
    /\ keyLock' = [keyLock EXCEPT ![handler[h].key] = h]
    /\ handler' = [handler EXCEPT ![h].pc = "prepare"]
    /\ UNCHANGED <<orderVars, rowLock, calls, cart, served, catalogVars>>

(* Mutation: INSERT ... ON CONFLICT DO UPDATE mints an attempt every time. *)
PrepareNewUpserts(h, att) ==
    /\ handler[h].pc = "prepare"
    /\ \A k \in Keys : idem[k].attempt # att
    /\ idem' = [idem EXCEPT ![handler[h].key] =
                  [NoRow EXCEPT !.state = "processing", !.hash = handler[h].request, !.attempt = att]]
    /\ handler' = [handler EXCEPT ![h] = [@ EXCEPT !.pc = "cart", !.attempt = att]]
    /\ UNCHANGED <<orders, outbox, answers, lockVars, calls, cart, served, catalogVars>>

(* The key is new: a fresh attempt is recorded, in a statement of its own. *)
PrepareNew(h, att) ==
    /\ handler[h].pc = "prepare"
    /\ idem[handler[h].key].state = "none"
    /\ \A k \in Keys : idem[k].attempt # att
    /\ idem' = [idem EXCEPT ![handler[h].key] =
                  [NoRow EXCEPT !.state = "processing", !.hash = handler[h].request, !.attempt = att]]
    /\ handler' = [handler EXCEPT ![h] = [@ EXCEPT !.pc = "cart", !.attempt = att]]
    /\ UNCHANGED <<orders, outbox, answers, lockVars, calls, cart, served, catalogVars>>

(* The key was used with another body: 409. *)
PrepareReused(h) ==
    /\ handler[h].pc = "prepare"
    /\ idem[handler[h].key].state # "none"
    /\ idem[handler[h].key].hash # handler[h].request
    /\ EndRequest(h)
    /\ UNCHANGED <<orderVars, cart, served, catalogVars>>

(* The key is completed: the stored order is the answer. *)
PrepareReplay(h) ==
    /\ handler[h].pc = "prepare"
    /\ idem[handler[h].key].state = "completed"
    /\ idem[handler[h].key].hash = handler[h].request
    /\ answers' = answers \cup {<<handler[h].key, idem[handler[h].key].order>>}
    /\ EndRequest(h)
    /\ UNCHANGED <<idem, orders, outbox, cart, served, catalogVars>>

(* An earlier request got only part of the way: its attempt is taken up. *)
PrepareResume(h) ==
    /\ handler[h].pc = "prepare"
    /\ idem[handler[h].key].state = "processing"
    /\ idem[handler[h].key].hash = handler[h].request
    /\ handler' = [handler EXCEPT ![h] = [@ EXCEPT !.pc = "cart", !.attempt = idem[handler[h].key].attempt]]
    /\ UNCHANGED <<orderVars, lockVars, calls, cart, served, catalogVars>>

CartMatches(h) ==
    /\ handler[h].request.user \in KnownUsers
    /\ cart.version = handler[h].request.version
    /\ cart.items # EmptyBasket

(* Unknown user, changed cart or empty cart: refused; the key stays processing. *)
RefuseCart(h) ==
    /\ handler[h].pc = "cart"
    /\ ~CartMatches(h)
    /\ EndRequest(h)
    /\ UNCHANGED <<orderVars, cart, served, catalogVars>>

(* The reservation is requested for the items of the cart just read. *)
SendReserve(h) ==
    /\ handler[h].pc = "cart"
    /\ CartMatches(h)
    /\ calls' = calls \cup {Call("reserve", handler[h].attempt, cart.items, h)}
    /\ handler' = [handler EXCEPT ![h].pc = "reserve"]
    /\ UNCHANGED <<orderVars, lockVars, cart, served, catalogVars>>

(* catalog-service answers 409: not enough stock. *)
ReserveRefused(h) ==
    /\ handler[h].pc = "reserve"
    /\ handler[h].reply = "failed"
    /\ EndRequest(h)
    /\ UNCHANGED <<orderVars, cart, served, catalogVars>>

(* What persistOrder's transaction writes, all of it or nothing: the order, *)
(* the items catalog-service granted (not those of the cart), order.created *)
(* and the completed idempotency row.  The orders table admits one order    *)
(* per reservation.                                                         *)
OrderRowsWritten(h, o) ==
    LET k == handler[h].key  att == handler[h].attempt IN
    /\ orders[o].status = "none"
    /\ \A p \in OrderIds : orders[p].reservation # att
    /\ orders' = [orders EXCEPT ![o] = [status |-> "created", key |-> k, reservation |-> att,
                                        items |-> handler[h].granted]]
    /\ outbox' = [outbox EXCEPT ![o] = Append(@, Event("order.created", "none", "created"))]
    /\ idem' = [idem EXCEPT ![k] = [@ EXCEPT !.state = "completed", !.order = o]]

(* The transaction commits and the client gets 201.  It runs on the         *)
(* connection that took the advisory lock, so it needs that session alive.  *)
PersistOrder(h, o) ==
    /\ handler[h].pc = "reserve"
    /\ handler[h].reply = "active"
    /\ keyLock[handler[h].key] = h
    /\ OrderRowsWritten(h, o)
    /\ answers' = answers \cup {<<handler[h].key, o>>}
    /\ EndRequest(h)
    /\ UNCHANGED <<cart, served, catalogVars>>

(* The compensation is sent and waited for, its result ignored. *)
StartCompensation(h) ==
    /\ calls' = calls \cup {Call("release", handler[h].attempt, EmptyBasket, h)}
    /\ handler' = [handler EXCEPT ![h] = [@ EXCEPT !.pc = "compensate", !.reply = "none"]]
    /\ UNCHANGED rowLock

(* The transaction fails (for one, because the session is gone) and is      *)
(* rolled back.                                                            *)
PersistFails(h) ==
    /\ handler[h].pc = "reserve"
    /\ handler[h].reply = "active"
    /\ StartCompensation(h)
    /\ UNCHANGED <<orderVars, keyLock, cart, served, catalogVars>>

(* The server commits but the connection breaks before the handler knows.  *)
PersistUnknown(h, o) ==
    /\ handler[h].pc = "reserve"
    /\ handler[h].reply = "active"
    /\ keyLock[handler[h].key] = h
    /\ OrderRowsWritten(h, o)
    /\ StartCompensation(h)
    /\ keyLock' = [keyLock EXCEPT ![handler[h].key] = NoHandler]
    /\ UNCHANGED <<answers, cart, served, catalogVars>>

(* The release came back; the client gets 500 all the same. *)
CompensationDone(h) ==
    /\ handler[h].pc = "compensate"
    /\ handler[h].reply = "ok"
    /\ EndRequest(h)
    /\ UNCHANGED <<orderVars, cart, served, catalogVars>>

(***************************************************************************)
(* Service.Cancel                                                          *)
(***************************************************************************)

(* Mutation: the row is read without FOR UPDATE. *)
BeginCancelUnlocked(h, o) ==
    /\ handler[h].pc = "idle"
    /\ served < MaxRequests
    /\ canCancel(orders[o].status)
    /\ rowLock[o] = NoHandler
    /\ served' = served + 1
    /\ calls' = calls \cup {Call("release", orders[o].reservation, EmptyBasket, h)}
    /\ handler' = [handler EXCEPT ![h] = [Idle EXCEPT !.pc = "cancelling", !.order = o,
                                                      !.attempt = orders[o].reservation]]
    /\ UNCHANGED <<orderVars, lockVars, cart, catalogVars>>

(* A created or confirmed order: its row is locked and the release of its   *)
(* reservation requested.  Any other order is only read, and refused or     *)
(* (when already cancelled) answered: nothing changes.                      *)
BeginCancel(h, o) ==
    /\ handler[h].pc = "idle"
    /\ served < MaxRequests
    /\ canCancel(orders[o].status)
    /\ rowLock[o] = NoHandler
    /\ rowLock' = [rowLock EXCEPT ![o] = h]
    /\ served' = served + 1
    /\ calls' = calls \cup {Call("release", orders[o].reservation, EmptyBasket, h)}
    /\ handler' = [handler EXCEPT ![h] = [Idle EXCEPT !.pc = "cancelling", !.order = o,
                                                      !.attempt = orders[o].reservation]]
    /\ UNCHANGED <<orderVars, keyLock, cart, catalogVars>>

(* What the cancelling transaction writes. *)
CancelRowsWritten(o) ==
    /\ orders' = [orders EXCEPT ![o].status = "cancelled"]
    /\ outbox' = [outbox EXCEPT ![o] = @ \o <<Event("order.cancelled", orders[o].status, "cancelled"),
                                              StatusChanged(orders[o].status, "cancelled")>>]

(* Mutation: an error of the release call is ignored. *)
CommitCancelUnreleased(h) ==
    /\ handler[h].pc = "cancelling"
    /\ CancelRowsWritten(handler[h].order)
    /\ EndRequest(h)
    /\ UNCHANGED <<idem, answers, cart, served, catalogVars>>

(* Only a successful release is followed by the cancellation.  previous_status *)
(* is the status read under the lock.                                       *)
CommitCancel(h) ==
    /\ handler[h].pc = "cancelling"
    /\ handler[h].reply = "ok"
    /\ CancelRowsWritten(handler[h].order)
    /\ EndRequest(h)
    /\ UNCHANGED <<idem, answers, cart, served, catalogVars>>

(***************************************************************************)
(* Failures of a handler                                                   *)
(***************************************************************************)

(* Mutation: the call that releases a reservation has no timeout. *)
CallFailsForReserveOnly(h) ==
    /\ handler[h].pc = "reserve"
    /\ handler[h].reply = "none"
    /\ EndRequest(h)
    /\ UNCHANGED <<orderVars, cart, served, catalogVars>>

(* A call to catalog-service fails or times out after 3 seconds: Create     *)
(* answers 503, the compensation is given up, Cancel rolls back.           *)
CallFails(h) ==
    /\ handler[h].pc \in {"reserve", "compensate", "cancelling"}
    /\ handler[h].reply = "none"
    /\ EndRequest(h)
    /\ UNCHANGED <<orderVars, cart, served, catalogVars>>

(* The connection breaks while the handler waits for cart-service or        *)
(* catalog-service: the session's advisory lock is gone, and the handler    *)
(* does not know.                                                          *)
LoseSession(h) ==
    /\ handler[h].pc \in {"cart", "reserve"}
    /\ keyLock[handler[h].key] = h
    /\ keyLock' = [keyLock EXCEPT ![handler[h].key] = NoHandler]
    /\ UNCHANGED <<orderVars, rowLock, handler, calls, cart, served, catalogVars>>

(* The process dies, the client hangs up, or PostgreSQL or cart-service     *)
(* fails where the code answers an error without compensating.             *)
Abort(h) ==
    /\ handler[h].pc # "idle"
    /\ EndRequest(h)
    /\ UNCHANGED <<orderVars, cart, served, catalogVars>>

(***************************************************************************)
(* catalog-service serving calls, in any order                             *)
(***************************************************************************)

(* The reply, with the items it grants, reaches the caller if it is still   *)
(* waiting.                                                                *)
Deliver(c, reply, items) ==
    /\ calls' = calls \ {c}
    /\ handler' = [h \in Handlers |->
           IF h = c.by THEN [handler[h] EXCEPT !.reply = reply, !.granted = items]
           ELSE handler[h]]

ServeReserve(c) ==
    /\ c.op = "reserve"
    /\ Reserve(c.attempt, c.items)
    /\ Deliver(c, ReserveResponse(c.attempt, c.items), GrantedItems(c.attempt, c.items))
    /\ UNCHANGED <<orderVars, lockVars, cart, served>>

ServeRelease(c) ==
    /\ c.op = "release"
    /\ Release(c.attempt)
    /\ Deliver(c, "ok", EmptyBasket)
    /\ UNCHANGED <<orderVars, lockVars, cart, served>>

(* The call is lost, or its transaction is rolled back. *)
LoseCall(c) ==
    /\ calls' = calls \ {c}
    /\ UNCHANGED <<orderVars, lockVars, handler, cart, served, catalogVars>>

(***************************************************************************)
(* The rest of the system                                                  *)
(***************************************************************************)

(* EventConsumer.handle for a delivery event that has not been seen: it     *)
(* waits for the row lock and advances the order.  Events that repeat the   *)
(* status, reach a cancelled order or are invalid change nothing.           *)
Advance(o, target) ==
    /\ rowLock[o] = NoHandler
    /\ validTransition(orders[o].status, target)
    /\ orders' = [orders EXCEPT ![o].status = target]
    /\ outbox' = [outbox EXCEPT ![o] =
           (IF target = "confirmed" THEN Append(@, Event("order.confirmed", "created", "confirmed")) ELSE @)
               \o <<StatusChanged(orders[o].status, target)>>]
    /\ UNCHANGED <<idem, answers, lockVars, handler, calls, cart, served, catalogVars>>

(* The user changes the cart, or cart-service answers from a cache that is  *)
(* behind or with the items of a later version (see Cart).                 *)
ChangeCart(version, items) ==
    /\ cart' = [version |-> version, items |-> items]
    /\ UNCHANGED <<orderVars, lockVars, handler, calls, served, catalogVars>>

HandlerStep(h) ==
    \/ AcquireKeyLock(h)
    \/ \E att \in Attempts : PrepareNew(h, att)
    \/ PrepareReused(h) \/ PrepareReplay(h) \/ PrepareResume(h)
    \/ RefuseCart(h) \/ SendReserve(h) \/ ReserveRefused(h)
    \/ \E o \in OrderIds : PersistOrder(h, o) \/ PersistUnknown(h, o)
    \/ PersistFails(h) \/ CompensationDone(h) \/ CommitCancel(h) \/ CallFails(h)

CatalogStep == \E c \in calls : ServeReserve(c) \/ ServeRelease(c) \/ LoseCall(c)

Next ==
    \/ \E h \in Handlers :
          \/ \E k \in Keys, r \in Requests : StartCreate(h, k, r)
          \/ \E o \in OrderIds : BeginCancel(h, o)
          \/ HandlerStep(h)
          \/ LoseSession(h)
          \/ Abort(h)
    \/ CatalogStep
    \/ \E o \in OrderIds, target \in OrderStatus : Advance(o, target)
    \/ \E version \in 1..MaxCartVersion, items \in Baskets : ChangeCart(version, items)

Spec == Init /\ [][Next]_vars

(* A running handler takes its next step: PostgreSQL answers, the advisory  *)
(* lock is granted when free, and http.Client.Timeout ends every call.      *)
(* catalog-service serves or loses what it is sent.                         *)
Fairness ==
    /\ \A h \in Handlers : WF_vars(HandlerStep(h))
    /\ WF_vars(CatalogStep)

FairSpec == Spec /\ Fairness

(***************************************************************************)
(* Properties                                                              *)
(***************************************************************************)

(* Types of the tables, of a handler's local state and of calls in flight. *)
TypeOK ==
    /\ CatalogTypeOK
    /\ idem \in [Keys -> [state : {"none", "processing", "completed"},
                          hash : Requests \cup {NoRequest},
                          attempt : Attempts \cup {NoAttempt},
                          order : OrderIds \cup {NoOrder}]]
    /\ orders \in [OrderIds -> [status : OrderStatus \cup {"none"},
                                key : Keys \cup {NoKey},
                                reservation : Attempts \cup {NoAttempt},
                                items : [Products -> Nat]]]
    /\ outbox \in [OrderIds -> Seq([type : EventType,
                                    from : OrderStatus \cup {"none"}, to : OrderStatus])]
    /\ keyLock \in [Keys -> Handlers \cup {NoHandler}]
    /\ rowLock \in [OrderIds -> Handlers \cup {NoHandler}]
    /\ handler \in [Handlers ->
           [pc : {"idle", "lock", "prepare", "cart", "reserve", "compensate", "cancelling"},
            key : Keys \cup {NoKey},
            request : Requests \cup {NoRequest},
            attempt : Attempts \cup {NoAttempt},
            order : OrderIds \cup {NoOrder},
            reply : {"none", "active", "failed", "ok"},
            granted : [Products -> Nat]]]
    /\ calls \subseteq [op : {"reserve", "release"}, attempt : Attempts,
                        items : [Products -> Nat], by : Handlers \cup {NoHandler}]
    /\ answers \subseteq Keys \X OrderIds
    /\ cart \in [version : Nat, items : Baskets]
    /\ served \in Nat

Placed(o) == orders[o].status # "none"

(* Service.Create under retries, concurrent duplicates and crashes: the     *)
(* advisory lock and the idempotency row together place at most one order   *)
(* for a key.                                                               *)
OneOrderPerKey ==
    \A o, p \in OrderIds :
        Placed(o) /\ Placed(p) /\ orders[o].key = orders[p].key => o = p

(* persistOrder and Reserve: the order is made only from a reservation that *)
(* was granted, and for the items it was granted, also when the attempt of  *)
(* an earlier request is taken up with a cart that reads differently.  The  *)
(* row behind an order is active or released, never missing and never one   *)
(* that failed.                                                             *)
OrderBackedByReservation ==
    \A o \in OrderIds : Placed(o) =>
        /\ orders[o].reservation \in Attempts
        /\ reservations[orders[o].reservation].status \in {"active", "released"}
        /\ reservations[orders[o].reservation].items = orders[o].items

(* Service.Cancel: the cancellation commits only after catalog-service      *)
(* acknowledged the release, so a cancelled order never keeps its stock.    *)
CancelledOrderReleased ==
    \A o \in OrderIds : orders[o].status = "cancelled" =>
        reservations[orders[o].reservation].status = "released"

(* The events that carry a change of status. *)
ChangesStatus(e) == e.type \in {"order.created", "order.status_changed"}

LegalMove(from, to) == validTransition(from, to) \/ (canCancel(from) /\ to = "cancelled")

(* What may follow the event d in the outbox of an order: a move from where d *)
(* left it, and between the announcement of a confirmation or cancellation  *)
(* and the status change itself nothing.                                   *)
Follows(d, e) ==
    IF ChangesStatus(d)
    THEN /\ e.from = d.to /\ LegalMove(e.from, e.to)
         /\ e.type = CASE e.to = "confirmed" -> "order.confirmed"
                       [] e.to = "cancelled" -> "order.cancelled"
                       [] OTHER -> "order.status_changed"
    ELSE e = StatusChanged(d.from, d.to)

(* The events replay to the status. *)
Replays(events, status) ==
    /\ Len(events) > 0 /\ events[1] = Event("order.created", "none", "created")
    /\ ChangesStatus(events[Len(events)]) /\ events[Len(events)].to = status
    /\ \A i \in 1..(Len(events) - 1) : Follows(events[i], events[i + 1])

(* Create, Cancel and EventConsumer.handle write status, history and outbox *)
(* in one transaction under the row lock: the announced changes form an     *)
(* unbroken chain from creation to the current status, each a legal move    *)
(* and each confirmation and cancellation announced once, whatever races    *)
(* with the cancellation's call to catalog-service.                         *)
OutboxReplaysStatus ==
    \A o \in OrderIds :
        IF Placed(o) THEN Replays(outbox[o], orders[o].status) ELSE outbox[o] = << >>

(* The client's view: Checkout implements the promise to retrying clients,  *)
(* with the orders of the table grouped by the key that placed them.        *)
PlacedByKey == [k \in Keys |-> {o \in OrderIds : Placed(o) /\ orders[o].key = k}]

Promise == INSTANCE CheckoutPromise WITH placed <- PlacedByKey, answers <- answers

(* Service.Create: every successful answer for a key, first or replayed,    *)
(* names the one order ever placed for it.                                  *)
ImplementsPromise == Promise!PromiseSpec

(* Service.Create and Service.Cancel: every accepted request comes to an    *)
(* end.  The advisory lock, the row lock held across a remote call and the  *)
(* calls themselves cannot block a request for ever.                        *)
RequestsEnd == \A h \in Handlers : handler[h].pc # "idle" ~> handler[h].pc = "idle"

(* README.md, step 6 and the failure table of docs/architecture.md: a live  *)
(* order owns the stock it was created from.                                *)
LiveOrderHoldsStock ==
    \A o \in OrderIds : Placed(o) /\ orders[o].status # "cancelled" =>
        reservations[orders[o].reservation].status = "active"
=============================================================================
