--------------------------- MODULE CheckoutProofs ---------------------------
(***************************************************************************)
(* Proofs about Checkout, for any number of requests, keys, products,      *)
(* calls in flight and any stock: its types, one order per                 *)
(* Idempotency-Key, and the refinement of CheckoutPromise; then of the two *)
(* services together, what catalog-service decides and announces, that no  *)
(* stock is lost, what order-service builds on the answers, and what its   *)
(* outbox tells.                                                           *)
(***************************************************************************)
EXTENDS Checkout, Sums, TLAPS

USE CatalogAssumption, CheckoutAssumption

-----------------------------------------------------------------------------
(* Types of the parts *)

IdemRow == [state : {"none", "processing", "completed"},
            hash : Requests \cup {NoRequest},
            attempt : Attempts \cup {NoAttempt},
            order : OrderIds \cup {NoOrder}]

OrderRow == [status : OrderStatus \cup {"none"},
             key : Keys \cup {NoKey},
             reservation : Attempts \cup {NoAttempt},
             items : [Products -> Nat]]

OutboxRow == [type : EventType, from : OrderStatus \cup {"none"}, to : OrderStatus]

HandlerState ==
    [pc : {"idle", "lock", "prepare", "cart", "reserve", "compensate", "cancelling"},
     key : Keys \cup {NoKey},
     request : Requests \cup {NoRequest},
     attempt : Attempts \cup {NoAttempt},
     order : OrderIds \cup {NoOrder},
     reply : {"none", "active", "failed", "ok"},
     granted : [Products -> Nat]]

CallRecord == [op : {"reserve", "release"}, attempt : Attempts,
               items : [Products -> Nat], by : Handlers \cup {NoHandler}]

ReservationRow == [status : ReservationStatus, items : [Products -> Nat],
                   response : ResponseStatus]

(* The slots of a request past the lock are filled in.  TypeOK alone would  *)
(* admit NoKey or NoAttempt there.                                          *)
SlotsFilled ==
    \A h \in Handlers :
        /\ handler[h].pc \in {"lock", "prepare", "cart", "reserve", "compensate"} =>
              handler[h].key \in Keys /\ handler[h].request \in Requests
        /\ handler[h].pc \in {"cart", "reserve", "compensate", "cancelling"} =>
              handler[h].attempt \in Attempts
        /\ handler[h].pc = "cancelling" => handler[h].order \in OrderIds

(* A row names what its readers take from it.  Only an order that can still *)
(* be cancelled has its reservation read.                                   *)
RowsFilled ==
    /\ \A k \in Keys : idem[k].state = "processing" => idem[k].attempt \in Attempts
    /\ \A k \in Keys : idem[k].state = "completed" => idem[k].order \in OrderIds
    /\ \A o \in OrderIds : canCancel(orders[o].status) => orders[o].reservation \in Attempts

CatalogTypes ==
    /\ available \in [Products -> Nat]
    /\ reservations \in [Attempts -> ReservationRow]
    /\ catalogOutbox \in [Attempts -> Seq(InventoryEvent)]

Types ==
    /\ CatalogTypes
    /\ idem \in [Keys -> IdemRow]
    /\ orders \in [OrderIds -> OrderRow]
    /\ outbox \in [OrderIds -> Seq(OutboxRow)]
    /\ keyLock \in [Keys -> Handlers \cup {NoHandler}]
    /\ rowLock \in [OrderIds -> Handlers \cup {NoHandler}]
    /\ handler \in [Handlers -> HandlerState]
    /\ calls \subseteq CallRecord
    /\ answers \subseteq Keys \X OrderIds
    /\ cart \in [version : Nat, items : Baskets]
    /\ served \in Nat

TInv == Types /\ SlotsFilled /\ RowsFilled

LEMMA TypesIsTypeOK == Types <=> TypeOK
BY DEF Types, TypeOK, CatalogTypes, CatalogTypeOK, IdemRow, OrderRow, OutboxRow, HandlerState,
       CallRecord, ReservationRow

-----------------------------------------------------------------------------
(* catalog-service *)

(* Reserve: the checks under the row locks never let stock go below zero. *)
LEMMA ReserveTypes ==
    ASSUME CatalogTypes, NEW att \in Attempts, NEW items \in [Products -> Nat],
           Reserve(att, items)
    PROVE  CatalogTypes'
<1>1. CASE ReserveActive(att, items)
  <2>1. \A p \in Products : available[p] - items[p] \in Nat
    <3> SUFFICES ASSUME NEW p \in Products PROVE available[p] - items[p] \in Nat
      OBVIOUS
    <3>1. available[p] \in Nat /\ items[p] \in Nat
      BY DEF CatalogTypes
    <3>2. ~(items[p] > 0 /\ available[p] < items[p])
      BY <1>1 DEF ReserveActive, Shortages
    <3> QED
      BY <3>1, <3>2
  <2>2. available' \in [Products -> Nat]
    BY <1>1, <2>1 DEF ReserveActive
  <2>3. [status |-> "active", items |-> items, response |-> "active"] \in ReservationRow
    BY DEF ReservationRow, ReservationStatus, ResponseStatus
  <2>4. reservations' \in [Attempts -> ReservationRow]
    BY <1>1, <2>3 DEF ReserveActive, CatalogTypes
  <2>5. catalogOutbox' \in [Attempts -> Seq(InventoryEvent)]
    BY <1>1 DEF ReserveActive, CatalogTypes, InventoryEvent
  <2> QED
    BY <2>2, <2>4, <2>5 DEF CatalogTypes
<1>2. CASE ReserveFailed(att, items)
  <2>1. [status |-> "failed", items |-> EmptyBasket, response |-> "failed"] \in ReservationRow
    BY DEF ReservationRow, ReservationStatus, ResponseStatus, EmptyBasket
  <2>2. reservations' \in [Attempts -> ReservationRow]
    BY <1>2, <2>1 DEF ReserveFailed, CatalogTypes
  <2>3. catalogOutbox' \in [Attempts -> Seq(InventoryEvent)]
    BY <1>2 DEF ReserveFailed, CatalogTypes, InventoryEvent
  <2> QED
    BY <1>2, <2>2, <2>3 DEF ReserveFailed, CatalogTypes
<1>3. CASE ReserveReplay(att, items)
  BY <1>3 DEF ReserveReplay, catalogVars, CatalogTypes
<1> QED
  BY <1>1, <1>2, <1>3 DEF Reserve

(* Release: gives back whole units. *)
LEMMA ReleaseTypes ==
    ASSUME CatalogTypes, NEW att \in Attempts, Release(att)
    PROVE  CatalogTypes'
<1>1. CASE ReleaseActive(att)
  <2>1. reservations[att] \in ReservationRow
    BY DEF CatalogTypes
  <2>2. available' \in [Products -> Nat]
    BY <1>1, <2>1 DEF ReleaseActive, CatalogTypes, ReservationRow
  <2>3. [reservations[att] EXCEPT !.status = "released"] \in ReservationRow
    BY <2>1 DEF ReservationRow, ReservationStatus
  <2>4. reservations' \in [Attempts -> ReservationRow]
    BY <1>1, <2>3 DEF ReleaseActive, CatalogTypes
  <2> QED
    BY <1>1, <2>2, <2>4 DEF ReleaseActive, CatalogTypes
<1>2. CASE ReleaseNoop(att)
  BY <1>2 DEF ReleaseNoop, catalogVars, CatalogTypes
<1> QED
  BY <1>1, <1>2 DEF Release

-----------------------------------------------------------------------------
(* The frames of order-service's actions *)

(* EndRequest: the slot is idle again and its locks are free; everybody     *)
(* else's locks and slots are as they were.                                 *)
LEMMA EndRequestEffect ==
    ASSUME TInv, NEW h \in Handlers, EndRequest(h)
    PROVE  /\ handler' \in [Handlers -> HandlerState]
           /\ keyLock' \in [Keys -> Handlers \cup {NoHandler}]
           /\ rowLock' \in [OrderIds -> Handlers \cup {NoHandler}]
           /\ calls' \subseteq CallRecord
           /\ handler'[h] = Idle
           /\ \A g \in Handlers \ {h} : handler'[g] = handler[g]
           /\ \A k \in Keys, g \in Handlers \ {h} : keyLock[k] = g => keyLock'[k] = g
           /\ SlotsFilled'
<1>1. Idle \in HandlerState
  BY DEF Idle, HandlerState, EmptyBasket
<1>2. /\ handler' \in [Handlers -> HandlerState]
      /\ handler'[h] = Idle
      /\ \A g \in Handlers \ {h} : handler'[g] = handler[g]
  BY <1>1 DEF EndRequest, TInv, Types
<1>3. /\ keyLock' \in [Keys -> Handlers \cup {NoHandler}]
      /\ rowLock' \in [OrderIds -> Handlers \cup {NoHandler}]
      /\ \A k \in Keys, g \in Handlers \ {h} : keyLock[k] = g => keyLock'[k] = g
  BY DEF EndRequest, ReleaseLocks, TInv, Types
<1>4. calls' \subseteq CallRecord
  <2>1. calls \subseteq CallRecord
    BY DEF TInv, Types
  <2>2. \A c \in CallRecord : [c EXCEPT !.by = NoHandler] \in CallRecord
    BY DEF CallRecord
  <2>3. calls' = Orphaned(h)
    BY DEF EndRequest
  <2>4. ASSUME NEW c \in Orphaned(h) PROVE c \in CallRecord
    BY <2>1, <2>2, <2>4 DEF Orphaned
  <2> QED
    BY <2>3, <2>4
<1>5. SlotsFilled'
  BY <1>2 DEF SlotsFilled, TInv, Idle
<1> QED
  BY <1>2, <1>3, <1>4, <1>5

(* A request that just ends, changing no table. *)
LEMMA EndOnlyKeepsTInv ==
    ASSUME TInv, NEW h \in Handlers, EndRequest(h),
           UNCHANGED <<orderVars, cart, served, catalogVars>>
    PROVE  TInv'
<1>1. UNCHANGED <<idem, orders, outbox, answers, cart, served, available, reservations, catalogOutbox>>
  BY DEF orderVars, catalogVars
<1> QED
  BY <1>1, EndRequestEffect DEF TInv, Types, CatalogTypes, RowsFilled

(* A request that goes on: one slot moves to a state with its slots filled,  *)
(* the others stay.                                                         *)
LEMMA MoveSlot ==
    ASSUME TInv, NEW h \in Handlers, NEW s \in HandlerState,
           handler' = [handler EXCEPT ![h] = s],
           s.pc \in {"lock", "prepare", "cart", "reserve", "compensate"} =>
              s.key \in Keys /\ s.request \in Requests,
           s.pc \in {"cart", "reserve", "compensate", "cancelling"} => s.attempt \in Attempts,
           s.pc = "cancelling" => s.order \in OrderIds
    PROVE  handler' \in [Handlers -> HandlerState] /\ SlotsFilled'
<1>1. handler' \in [Handlers -> HandlerState]
  BY DEF TInv, Types
<1>2. handler'[h] = s /\ \A g \in Handlers \ {h} : handler'[g] = handler[g]
  BY DEF TInv, Types
<1>3. SlotsFilled'
  BY <1>2 DEF TInv, SlotsFilled
<1> QED
  BY <1>1, <1>3

(* OrderRowsWritten: what persistOrder commits is well-typed. *)
LEMMA OrderRowsTypes ==
    ASSUME TInv, NEW h \in Handlers, NEW o \in OrderIds,
           handler[h].pc = "reserve", OrderRowsWritten(h, o)
    PROVE  /\ orders' \in [OrderIds -> OrderRow]
           /\ outbox' \in [OrderIds -> Seq(OutboxRow)]
           /\ idem' \in [Keys -> IdemRow]
           /\ RowsFilled'
<1> DEFINE k == handler[h].key
           att == handler[h].attempt
<1>1. k \in Keys /\ att \in Attempts
  BY DEF TInv, SlotsFilled
<1>2. [status |-> "created", key |-> k, reservation |-> att, items |-> handler[h].granted] \in OrderRow
  <2>1. handler[h] \in HandlerState
    BY DEF TInv, Types
  <2> QED
    BY <1>1, <2>1 DEF OrderRow, OrderStatus, HandlerState
<1>3. orders' = [orders EXCEPT ![o] = [status |-> "created", key |-> k, reservation |-> att,
                                       items |-> handler[h].granted]]
  BY DEF OrderRowsWritten
<1>4. orders' \in [OrderIds -> OrderRow]
  BY <1>2, <1>3 DEF TInv, Types
<1>5. Event("order.created", "none", "created") \in OutboxRow
  BY DEF Event, OutboxRow, EventType, OrderStatus
<1>6. outbox' \in [OrderIds -> Seq(OutboxRow)]
  BY <1>5 DEF OrderRowsWritten, TInv, Types
<1>7. idem' = [idem EXCEPT ![k] = [idem[k] EXCEPT !.state = "completed", !.order = o]]
  BY DEF OrderRowsWritten
<1>8. [idem[k] EXCEPT !.state = "completed", !.order = o] \in IdemRow
  <2>1. idem[k] \in IdemRow
    BY <1>1 DEF TInv, Types
  <2>2. [idem[k] EXCEPT !.state = "completed"] \in IdemRow
    BY <2>1 DEF IdemRow
  <2>3. ASSUME NEW r \in IdemRow PROVE [r EXCEPT !.order = o] \in IdemRow
    BY DEF IdemRow
  <2> QED
    BY <2>2, <2>3
<1>9. idem' \in [Keys -> IdemRow]
  BY <1>7, <1>8 DEF TInv, Types
<1>10. RowsFilled'
  <2>1. \A j \in Keys \ {k} : idem'[j] = idem[j]
    BY <1>7 DEF TInv, Types
  <2>2. idem'[k].state = "completed" /\ idem'[k].order \in OrderIds
    BY <1>1, <1>7 DEF TInv, Types, IdemRow
  <2>3. \A p \in OrderIds \ {o} : orders'[p] = orders[p]
    BY <1>3 DEF TInv, Types
  <2>4. orders'[o].reservation \in Attempts
    BY <1>1, <1>3 DEF TInv, Types
  <2> QED
    BY <2>1, <2>2, <2>3, <2>4 DEF RowsFilled, TInv
<1> QED
  BY <1>4, <1>6, <1>9, <1>10

-----------------------------------------------------------------------------
(* Type correctness *)

(* The outbox rows of a status change. *)
LEMMA StatusEventTypes ==
    ASSUME NEW from \in OrderStatus \cup {"none"}, NEW to \in OrderStatus
    PROVE  /\ StatusChanged(from, to) \in OutboxRow
           /\ \A type \in EventType : Event(type, from, to) \in OutboxRow
BY DEF StatusChanged, Event, OutboxRow, EventType

(* A step that moves one slot on and changes only idem or calls beside it.   *)
LEMMA GoOnKeepsTInv ==
    ASSUME TInv, NEW h \in Handlers, NEW s \in HandlerState,
           handler' = [handler EXCEPT ![h] = s],
           s.pc \in {"lock", "prepare", "cart", "reserve", "compensate"} =>
              s.key \in Keys /\ s.request \in Requests,
           s.pc \in {"cart", "reserve", "compensate", "cancelling"} => s.attempt \in Attempts,
           s.pc = "cancelling" => s.order \in OrderIds,
           idem' \in [Keys -> IdemRow],
           \A k \in Keys : idem'[k].state = "processing" => idem'[k].attempt \in Attempts,
           \A k \in Keys : idem'[k].state = "completed" => idem'[k].order \in OrderIds,
           keyLock' \in [Keys -> Handlers \cup {NoHandler}],
           rowLock' \in [OrderIds -> Handlers \cup {NoHandler}],
           calls' \subseteq CallRecord,
           served' \in Nat,
           UNCHANGED <<orders, outbox, answers, cart, catalogVars>>
    PROVE  TInv'
<1>1. handler' \in [Handlers -> HandlerState] /\ SlotsFilled'
  BY MoveSlot
<1> QED
  BY <1>1 DEF TInv, Types, CatalogTypes, RowsFilled, catalogVars

(* Service.Create up to the reservation request. *)
LEMMA CreateStepsKeepTInv ==
    ASSUME TInv, NEW h \in Handlers,
           \/ \E k \in Keys, r \in Requests : StartCreate(h, k, r)
           \/ AcquireKeyLock(h)
           \/ \E att \in Attempts : PrepareNew(h, att)
           \/ PrepareReused(h) \/ PrepareReplay(h) \/ PrepareResume(h)
           \/ RefuseCart(h) \/ SendReserve(h) \/ ReserveRefused(h)
    PROVE  TInv'
<1>0. /\ handler[h] \in HandlerState
      /\ idem \in [Keys -> IdemRow]
      /\ RowsFilled
      /\ keyLock \in [Keys -> Handlers \cup {NoHandler}]
      /\ rowLock \in [OrderIds -> Handlers \cup {NoHandler}]
      /\ calls \subseteq CallRecord
      /\ served \in Nat
      /\ \A k \in Keys : idem[k].state = "processing" => idem[k].attempt \in Attempts
      /\ \A k \in Keys : idem[k].state = "completed" => idem[k].order \in OrderIds
  BY DEF TInv, Types, RowsFilled
<1>a. ASSUME NEW s \in HandlerState,
             NEW pc \in {"idle", "lock", "prepare", "cart", "reserve", "compensate", "cancelling"}
      PROVE  /\ [s EXCEPT !.pc = pc] \in HandlerState
             /\ [s EXCEPT !.pc = pc].pc = pc
             /\ [s EXCEPT !.pc = pc].key = s.key
             /\ [s EXCEPT !.pc = pc].request = s.request
             /\ [s EXCEPT !.pc = pc].attempt = s.attempt
  BY DEF HandlerState
<1>b. ASSUME NEW s \in HandlerState, NEW att \in Attempts
      PROVE  /\ [s EXCEPT !.attempt = att] \in HandlerState
             /\ [s EXCEPT !.attempt = att].pc = s.pc
             /\ [s EXCEPT !.attempt = att].key = s.key
             /\ [s EXCEPT !.attempt = att].request = s.request
             /\ [s EXCEPT !.attempt = att].attempt = att
  BY DEF HandlerState
<1>c. ASSUME NEW att \in Attempts
      PROVE  /\ [[handler[h] EXCEPT !.pc = "cart"] EXCEPT !.attempt = att] \in HandlerState
             /\ [[handler[h] EXCEPT !.pc = "cart"] EXCEPT !.attempt = att].pc = "cart"
             /\ [[handler[h] EXCEPT !.pc = "cart"] EXCEPT !.attempt = att].attempt = att
             /\ [[handler[h] EXCEPT !.pc = "cart"] EXCEPT !.attempt = att].key = handler[h].key
             /\ [[handler[h] EXCEPT !.pc = "cart"] EXCEPT !.attempt = att].request = handler[h].request
  <2> DEFINE t == [handler[h] EXCEPT !.pc = "cart"]
  <2>1. /\ t \in HandlerState /\ t.pc = "cart"
        /\ t.key = handler[h].key /\ t.request = handler[h].request
    BY <1>0, <1>a
  <2> HIDE DEF t
  <2>2. /\ [t EXCEPT !.attempt = att] \in HandlerState
        /\ [t EXCEPT !.attempt = att].pc = "cart"
        /\ [t EXCEPT !.attempt = att].attempt = att
        /\ [t EXCEPT !.attempt = att].key = handler[h].key
        /\ [t EXCEPT !.attempt = att].request = handler[h].request
    BY <1>b, <2>1
  <2> QED
    BY <2>2 DEF t
<1>1. ASSUME NEW k \in Keys, NEW r \in Requests, StartCreate(h, k, r) PROVE TInv'
  <2> DEFINE s == [Idle EXCEPT !.pc = "lock", !.key = k, !.request = r]
  <2>1. s \in HandlerState /\ s.pc = "lock" /\ s.key = k /\ s.request = r
    BY DEF Idle, HandlerState, EmptyBasket
  <2>2. handler' = [handler EXCEPT ![h] = s] /\ served' = served + 1
    BY <1>1 DEF StartCreate
  <2>3. UNCHANGED <<idem, orders, outbox, answers, keyLock, rowLock, calls, cart, catalogVars>>
    BY <1>1 DEF StartCreate, orderVars, lockVars
  <2> HIDE DEF s
  <2>4. served' \in Nat
    BY <1>0, <2>2
  <2> QED
    BY <1>0, <2>1, <2>2, <2>3, <2>4, GoOnKeepsTInv
<1>2. ASSUME AcquireKeyLock(h) PROVE TInv'
  <2> DEFINE s == [handler[h] EXCEPT !.pc = "prepare"]
  <2>1. s \in HandlerState /\ s.pc = "prepare" /\ s.key \in Keys /\ s.request \in Requests
    BY <1>0, <1>a, <1>2 DEF AcquireKeyLock, TInv, SlotsFilled
  <2>2. /\ handler' = [handler EXCEPT ![h] = s]
        /\ keyLock' \in [Keys -> Handlers \cup {NoHandler}]
        /\ UNCHANGED <<idem, orders, outbox, answers, rowLock, calls, cart, served, catalogVars>>
    BY <1>2 DEF AcquireKeyLock, orderVars, TInv, Types
  <2> HIDE DEF s
  <2> QED
    BY <1>0, <2>1, <2>2, GoOnKeepsTInv
<1>3. ASSUME NEW att \in Attempts, PrepareNew(h, att) PROVE TInv'
  <2> DEFINE s == [[handler[h] EXCEPT !.pc = "cart"] EXCEPT !.attempt = att]
             row == [NoRow EXCEPT !.state = "processing", !.hash = handler[h].request, !.attempt = att]
  <2>1. /\ s \in HandlerState /\ s.pc = "cart" /\ s.attempt = att
        /\ s.key = handler[h].key /\ s.request = handler[h].request
        /\ s.key \in Keys /\ s.request \in Requests
    <3>1. handler[h].key \in Keys /\ handler[h].request \in Requests
      BY <1>3 DEF PrepareNew, TInv, SlotsFilled
    <3> QED
      BY <1>c, <3>1
  <2>2. row \in IdemRow /\ row.state = "processing" /\ row.attempt \in Attempts
    BY <2>1 DEF NoRow, IdemRow
  <2>3. /\ handler' = [handler EXCEPT ![h] = s]
        /\ idem' = [idem EXCEPT ![handler[h].key] = row]
        /\ UNCHANGED <<orders, outbox, answers, lockVars, calls, cart, served, catalogVars>>
    BY <1>3 DEF PrepareNew
  <2> HIDE DEF s, row
  <2>4. /\ idem' \in [Keys -> IdemRow]
        /\ \A k \in Keys : idem'[k] = IF k = handler[h].key THEN row ELSE idem[k]
    BY <1>0, <2>2, <2>3
  <2> QED
    <3>1. UNCHANGED <<orders, outbox, answers, keyLock, rowLock, calls, cart, served, catalogVars>>
      BY <2>3 DEF lockVars
    <3>2. /\ \A k \in Keys : idem'[k].state = "processing" => idem'[k].attempt \in Attempts
          /\ \A k \in Keys : idem'[k].state = "completed" => idem'[k].order \in OrderIds
      BY <1>0, <2>2, <2>4
    <3> QED
      BY <1>0, <2>1, <2>3, <2>4, <3>1, <3>2, GoOnKeepsTInv
<1>4. ASSUME PrepareReplay(h) PROVE TInv'
  <2>1. handler[h].key \in Keys /\ idem[handler[h].key].order \in OrderIds
    BY <1>0, <1>4 DEF PrepareReplay, TInv, SlotsFilled, RowsFilled
  <2>2. answers' \subseteq Keys \X OrderIds
    BY <1>4, <2>1 DEF PrepareReplay, TInv, Types
  <2>3. EndRequest(h) /\ UNCHANGED <<idem, orders, outbox, cart, served, catalogVars>>
    BY <1>4 DEF PrepareReplay
  <2> QED
    BY <2>2, <2>3, EndRequestEffect DEF TInv, Types, CatalogTypes, RowsFilled, catalogVars
<1>5. ASSUME PrepareResume(h) PROVE TInv'
  <2> DEFINE att == idem[handler[h].key].attempt
             s == [[handler[h] EXCEPT !.pc = "cart"] EXCEPT !.attempt = att]
  <2>1. handler[h].key \in Keys /\ handler[h].request \in Requests /\ att \in Attempts
    BY <1>0, <1>5 DEF PrepareResume, TInv, SlotsFilled, RowsFilled
  <2>3. handler' = [handler EXCEPT ![h] = s]
    BY <1>5 DEF PrepareResume
  <2> HIDE DEF att
  <2>4. /\ s \in HandlerState /\ s.pc = "cart" /\ s.attempt = att
        /\ s.key = handler[h].key /\ s.request = handler[h].request
    BY <1>c, <2>1
  <2>5. UNCHANGED <<idem, orders, outbox, answers, keyLock, rowLock, calls, cart, served, catalogVars>>
    BY <1>5 DEF PrepareResume, orderVars, lockVars
  <2> HIDE DEF s
  <2> QED
    BY <1>0, <2>1, <2>3, <2>4, <2>5, GoOnKeepsTInv
<1>6. ASSUME SendReserve(h) PROVE TInv'
  <2> DEFINE s == [handler[h] EXCEPT !.pc = "reserve"]
  <2>1. handler[h].key \in Keys /\ handler[h].request \in Requests /\ handler[h].attempt \in Attempts
    BY <1>6 DEF SendReserve, TInv, SlotsFilled
  <2>2. /\ s \in HandlerState /\ s.pc = "reserve" /\ s.attempt = handler[h].attempt
        /\ s.key = handler[h].key /\ s.request = handler[h].request
    BY <1>0, <1>a
  <2>3. Call("reserve", handler[h].attempt, cart.items, h) \in CallRecord
    BY <2>1 DEF Call, CallRecord, TInv, Types
  <2>4. /\ calls' \subseteq CallRecord
        /\ handler' = [handler EXCEPT ![h] = s]
        /\ UNCHANGED <<idem, orders, outbox, answers, keyLock, rowLock, cart, served, catalogVars>>
    BY <1>6, <2>3 DEF SendReserve, TInv, Types, orderVars, lockVars
  <2> HIDE DEF s
  <2> QED
    BY <1>0, <2>1, <2>2, <2>4, GoOnKeepsTInv
<1>7. ASSUME PrepareReused(h) \/ RefuseCart(h) \/ ReserveRefused(h) PROVE TInv'
  BY <1>7, EndOnlyKeepsTInv DEF PrepareReused, RefuseCart, ReserveRefused
<1> QED
  BY <1>1, <1>2, <1>3, <1>4, <1>5, <1>6, <1>7

(* StartCompensation: the release is sent for the attempt just reserved. *)
LEMMA StartCompensationEffect ==
    ASSUME TInv, NEW h \in Handlers, handler[h].pc = "reserve", StartCompensation(h)
    PROVE  /\ handler' \in [Handlers -> HandlerState]
           /\ SlotsFilled'
           /\ calls' \subseteq CallRecord
           /\ handler'[h].pc = "compensate"
           /\ \A g \in Handlers \ {h} : handler'[g] = handler[g]
           /\ rowLock' = rowLock
<1> DEFINE s == [[handler[h] EXCEPT !.pc = "compensate"] EXCEPT !.reply = "none"]
<1>1. /\ handler[h] \in HandlerState /\ handler \in [Handlers -> HandlerState]
      /\ handler[h].key \in Keys /\ handler[h].request \in Requests
      /\ handler[h].attempt \in Attempts
  BY DEF TInv, Types, SlotsFilled
<1>2. /\ s \in HandlerState /\ s.pc = "compensate" /\ s.key = handler[h].key
      /\ s.request = handler[h].request /\ s.attempt = handler[h].attempt
  <2> DEFINE t == [handler[h] EXCEPT !.pc = "compensate"]
  <2>1. /\ t \in HandlerState /\ t.pc = "compensate" /\ t.key = handler[h].key
        /\ t.request = handler[h].request /\ t.attempt = handler[h].attempt
    BY <1>1 DEF HandlerState
  <2> HIDE DEF t
  <2>2. /\ [t EXCEPT !.reply = "none"] \in HandlerState
        /\ [t EXCEPT !.reply = "none"].pc = "compensate"
        /\ [t EXCEPT !.reply = "none"].key = handler[h].key
        /\ [t EXCEPT !.reply = "none"].request = handler[h].request
        /\ [t EXCEPT !.reply = "none"].attempt = handler[h].attempt
    BY <2>1 DEF HandlerState
  <2> QED
    BY <2>2 DEF t
<1>3. handler' = [handler EXCEPT ![h] = s] /\ rowLock' = rowLock
  BY DEF StartCompensation
<1>4. Call("release", handler[h].attempt, EmptyBasket, h) \in CallRecord
  BY <1>1 DEF Call, CallRecord, EmptyBasket
<1>5. calls' \subseteq CallRecord
  BY <1>4 DEF StartCompensation, TInv, Types
<1> HIDE DEF s
<1>6. handler' \in [Handlers -> HandlerState] /\ SlotsFilled'
  BY <1>1, <1>2, <1>3, MoveSlot
<1> QED
  BY <1>1, <1>2, <1>3, <1>5, <1>6

(* persistOrder and its compensation. *)
LEMMA PersistStepsKeepTInv ==
    ASSUME TInv, NEW h \in Handlers,
           \/ \E o \in OrderIds : PersistOrder(h, o) \/ PersistUnknown(h, o)
           \/ PersistFails(h) \/ CompensationDone(h) \/ LoseSession(h)
    PROVE  TInv'
<1>1. ASSUME NEW o \in OrderIds, PersistOrder(h, o) PROVE TInv'
  <2>1. /\ handler[h].pc = "reserve" /\ OrderRowsWritten(h, o) /\ EndRequest(h)
        /\ answers' = answers \cup {<<handler[h].key, o>>}
        /\ UNCHANGED <<cart, served, available, reservations, catalogOutbox>>
    BY <1>1 DEF PersistOrder, catalogVars
  <2>2. handler[h].key \in Keys
    BY <2>1 DEF TInv, SlotsFilled
  <2>3. answers' \subseteq Keys \X OrderIds
    BY <2>1, <2>2 DEF TInv, Types
  <2> QED
    BY <2>1, <2>3, OrderRowsTypes, EndRequestEffect DEF TInv, Types, CatalogTypes
<1>2. ASSUME NEW o \in OrderIds, PersistUnknown(h, o) PROVE TInv'
  <2>1. /\ handler[h].pc = "reserve" /\ OrderRowsWritten(h, o) /\ StartCompensation(h)
        /\ keyLock' = [keyLock EXCEPT ![handler[h].key] = NoHandler]
        /\ UNCHANGED <<answers, cart, served, available, reservations, catalogOutbox>>
    BY <1>2 DEF PersistUnknown, catalogVars
  <2>2. keyLock' \in [Keys -> Handlers \cup {NoHandler}]
    BY <2>1 DEF TInv, Types
  <2> QED
    BY <2>1, <2>2, OrderRowsTypes, StartCompensationEffect DEF TInv, Types, CatalogTypes
<1>3. ASSUME PersistFails(h) PROVE TInv'
  <2>1. /\ handler[h].pc = "reserve" /\ StartCompensation(h)
        /\ UNCHANGED <<idem, orders, outbox, answers, keyLock, cart, served, available, reservations, catalogOutbox>>
    BY <1>3 DEF PersistFails, orderVars, catalogVars
  <2> QED
    BY <2>1, StartCompensationEffect DEF TInv, Types, CatalogTypes, RowsFilled
<1>4. ASSUME CompensationDone(h) PROVE TInv'
  BY <1>4, EndOnlyKeepsTInv DEF CompensationDone
<1>5. ASSUME LoseSession(h) PROVE TInv'
  <2>1. keyLock' \in [Keys -> Handlers \cup {NoHandler}]
    BY <1>5 DEF LoseSession, TInv, Types
  <2>2. UNCHANGED <<idem, orders, outbox, answers, rowLock, handler, calls, cart, served,
                    available, reservations, catalogOutbox>>
    BY <1>5 DEF LoseSession, orderVars, catalogVars
  <2> QED
    BY <2>1, <2>2 DEF TInv, Types, CatalogTypes, RowsFilled, SlotsFilled
<1> QED
  BY <1>1, <1>2, <1>3, <1>4, <1>5

(* A change of an order's status and the events it announces. *)
LEMMA StatusChangeTypes ==
    ASSUME TInv, NEW o \in OrderIds, NEW status \in OrderStatus, NEW ev \in Seq(OutboxRow),
           canCancel(status) => orders[o].reservation \in Attempts,
           orders' = [orders EXCEPT ![o].status = status],
           outbox' = [outbox EXCEPT ![o] = @ \o ev]
    PROVE  /\ orders' \in [OrderIds -> OrderRow]
           /\ outbox' \in [OrderIds -> Seq(OutboxRow)]
           /\ \A p \in OrderIds : canCancel(orders'[p].status) => orders'[p].reservation \in Attempts
<1>1. orders[o] \in OrderRow
  BY DEF TInv, Types
<1>2. [orders[o] EXCEPT !.status = status] \in OrderRow
  BY <1>1 DEF OrderRow
<1>3. orders' \in [OrderIds -> OrderRow]
  BY <1>2 DEF TInv, Types
<1>4. \A p \in OrderIds : canCancel(orders'[p].status) => orders'[p].reservation \in Attempts
  BY <1>1 DEF TInv, Types, RowsFilled, OrderRow
<1>5. outbox[o] \o ev \in Seq(OutboxRow)
  BY DEF TInv, Types
<1>6. outbox' \in [OrderIds -> Seq(OutboxRow)]
  BY <1>5 DEF TInv, Types
<1> QED
  BY <1>3, <1>4, <1>6

(* Service.Cancel, and every other way a request ends. *)
LEMMA CancelStepsKeepTInv ==
    ASSUME TInv, NEW h \in Handlers,
           \/ \E o \in OrderIds : BeginCancel(h, o)
           \/ CommitCancel(h) \/ CallFails(h) \/ Abort(h)
    PROVE  TInv'
<1>1. ASSUME NEW o \in OrderIds, BeginCancel(h, o) PROVE TInv'
  <2> DEFINE s == [Idle EXCEPT !.pc = "cancelling", !.order = o, !.attempt = orders[o].reservation]
  <2>1. orders[o].reservation \in Attempts
    BY <1>1 DEF BeginCancel, TInv, RowsFilled
  <2>2. /\ s \in HandlerState /\ s.pc = "cancelling" /\ s.order = o
        /\ s.attempt = orders[o].reservation
    BY <2>1 DEF Idle, HandlerState, EmptyBasket
  <2>3. Call("release", orders[o].reservation, EmptyBasket, h) \in CallRecord
    BY <2>1 DEF Call, CallRecord, EmptyBasket
  <2>4. /\ handler' = [handler EXCEPT ![h] = s]
        /\ calls' \subseteq CallRecord
        /\ rowLock' \in [OrderIds -> Handlers \cup {NoHandler}]
        /\ served' \in Nat
        /\ UNCHANGED <<idem, orders, outbox, answers, keyLock, cart, catalogVars>>
    <3>1. calls \subseteq CallRecord /\ rowLock \in [OrderIds -> Handlers \cup {NoHandler}]
          /\ served \in Nat
      BY DEF TInv, Types
    <3>2. /\ handler' = [handler EXCEPT ![h] = s]
          /\ calls' = calls \cup {Call("release", orders[o].reservation, EmptyBasket, h)}
          /\ rowLock' = [rowLock EXCEPT ![o] = h]
          /\ served' = served + 1
          /\ UNCHANGED <<idem, orders, outbox, answers, keyLock, cart, catalogVars>>
      BY <1>1 DEF BeginCancel, orderVars
    <3> QED
      BY <2>3, <3>1, <3>2
  <2>5. /\ idem \in [Keys -> IdemRow] /\ keyLock \in [Keys -> Handlers \cup {NoHandler}]
        /\ \A k \in Keys : idem[k].state = "processing" => idem[k].attempt \in Attempts
        /\ \A k \in Keys : idem[k].state = "completed" => idem[k].order \in OrderIds
    BY DEF TInv, Types, RowsFilled
  <2> HIDE DEF s
  <2>6. /\ s.pc \in {"lock", "prepare", "cart", "reserve", "compensate"} =>
              s.key \in Keys /\ s.request \in Requests
        /\ s.pc \in {"cart", "reserve", "compensate", "cancelling"} => s.attempt \in Attempts
        /\ s.pc = "cancelling" => s.order \in OrderIds
    BY <2>1, <2>2
  <2>7. /\ idem' \in [Keys -> IdemRow] /\ keyLock' \in [Keys -> Handlers \cup {NoHandler}]
        /\ \A k \in Keys : idem'[k].state = "processing" => idem'[k].attempt \in Attempts
        /\ \A k \in Keys : idem'[k].state = "completed" => idem'[k].order \in OrderIds
    BY <2>4, <2>5
  <2> QED
    BY <2>2, <2>4, <2>6, <2>7, GoOnKeepsTInv
<1>2. ASSUME CommitCancel(h) PROVE TInv'
  <2> DEFINE o == handler[h].order
             ev == <<Event("order.cancelled", orders[o].status, "cancelled"),
                     StatusChanged(orders[o].status, "cancelled")>>
  <2>1. o \in OrderIds
    BY <1>2 DEF CommitCancel, TInv, SlotsFilled
  <2>2. /\ orders' = [orders EXCEPT ![o].status = "cancelled"]
        /\ outbox' = [outbox EXCEPT ![o] = @ \o ev]
        /\ EndRequest(h)
        /\ UNCHANGED <<idem, answers, cart, served, available, reservations, catalogOutbox>>
    BY <1>2 DEF CommitCancel, CancelRowsWritten, catalogVars
  <2>3. "cancelled" \in OrderStatus /\ ~canCancel("cancelled")
    BY DEF OrderStatus, canCancel
  <2>4. ev \in Seq(OutboxRow)
    <3>1. orders[o].status \in OrderStatus \cup {"none"}
      BY <2>1 DEF TInv, Types, OrderRow
    <3>2. /\ Event("order.cancelled", orders[o].status, "cancelled") \in OutboxRow
          /\ StatusChanged(orders[o].status, "cancelled") \in OutboxRow
      BY <2>3, <3>1, StatusEventTypes DEF EventType
    <3> QED
      BY <3>2
  <2> HIDE DEF o, ev
  <2>5. /\ orders' \in [OrderIds -> OrderRow]
        /\ outbox' \in [OrderIds -> Seq(OutboxRow)]
        /\ \A p \in OrderIds : canCancel(orders'[p].status) => orders'[p].reservation \in Attempts
    BY <2>1, <2>2, <2>3, <2>4, StatusChangeTypes
  <2> QED
    BY <2>2, <2>5, EndRequestEffect DEF TInv, Types, CatalogTypes, RowsFilled
<1>3. ASSUME CallFails(h) \/ Abort(h) PROVE TInv'
  BY <1>3, EndOnlyKeepsTInv DEF CallFails, Abort
<1> QED
  BY <1>1, <1>2, <1>3

(* EventConsumer.handle and the user's cart. *)
LEMMA EnvironmentKeepsTInv ==
    ASSUME TInv,
           \/ \E o \in OrderIds, target \in OrderStatus : Advance(o, target)
           \/ \E version \in 1..MaxCartVersion, items \in Baskets : ChangeCart(version, items)
    PROVE  TInv'
<1>1. ASSUME NEW o \in OrderIds, NEW target \in OrderStatus, Advance(o, target) PROVE TInv'
  <2>1. orders[o].status \in OrderStatus
    BY <1>1 DEF Advance, validTransition, OrderStatus
  <2>2. outbox[o] \in Seq(OutboxRow)
    BY DEF TInv, Types
  <2>3. /\ Event("order.confirmed", "created", "confirmed") \in OutboxRow
        /\ StatusChanged(orders[o].status, target) \in OutboxRow
    BY <2>1, StatusEventTypes DEF EventType, OrderStatus
  <2>4. outbox'[o] \in Seq(OutboxRow) /\ outbox' = [outbox EXCEPT ![o] = outbox'[o]]
    <3>1. /\ outbox' = [outbox EXCEPT ![o] =
                  (IF target = "confirmed"
                   THEN Append(outbox[o], Event("order.confirmed", "created", "confirmed"))
                   ELSE outbox[o]) \o <<StatusChanged(orders[o].status, target)>>]
      BY <1>1 DEF Advance
    <3>2. \A q \in Seq(OutboxRow) : q \o <<StatusChanged(orders[o].status, target)>> \in Seq(OutboxRow)
      BY <2>3
    <3>3. Append(outbox[o], Event("order.confirmed", "created", "confirmed")) \in Seq(OutboxRow)
      BY <2>2, <2>3
    <3>4. outbox \in [OrderIds -> Seq(OutboxRow)]
      BY DEF TInv, Types
    <3> QED
      BY <2>2, <3>1, <3>2, <3>3, <3>4
  <2>5. outbox' \in [OrderIds -> Seq(OutboxRow)]
    BY <2>4 DEF TInv, Types
  <2>6. /\ orders' = [orders EXCEPT ![o].status = target]
        /\ UNCHANGED <<idem, answers, keyLock, rowLock, handler, calls, cart, served,
                       available, reservations, catalogOutbox>>
    BY <1>1 DEF Advance, lockVars, catalogVars
  <2>7. orders[o] \in OrderRow /\ [orders[o] EXCEPT !.status = target] \in OrderRow
    <3>1. orders[o] \in OrderRow
      BY DEF TInv, Types
    <3> QED
      BY <3>1 DEF OrderRow
  <2>8. orders' \in [OrderIds -> OrderRow]
    BY <2>6, <2>7 DEF TInv, Types
  <2>9. \A p \in OrderIds : canCancel(orders'[p].status) => orders'[p].reservation \in Attempts
    <3>1. canCancel(target) => canCancel(orders[o].status)
      BY <1>1 DEF Advance, validTransition, canCancel
    <3>2. orders'[o].status = target /\ orders'[o].reservation = orders[o].reservation
      BY <2>6, <2>7 DEF TInv, Types, OrderRow
    <3>3. \A p \in OrderIds \ {o} : orders'[p] = orders[p]
      BY <2>6 DEF TInv, Types
    <3> QED
      BY <3>1, <3>2, <3>3 DEF TInv, RowsFilled
  <2> QED
    BY <2>5, <2>6, <2>8, <2>9 DEF TInv, Types, CatalogTypes, RowsFilled, SlotsFilled
<1>2. ASSUME NEW version \in 1..MaxCartVersion, NEW items \in Baskets, ChangeCart(version, items) PROVE TInv'
  <2>1. cart' \in [version : Nat, items : Baskets]
    BY <1>2 DEF ChangeCart, TInv, Types
  <2>2. UNCHANGED <<idem, orders, outbox, answers, keyLock, rowLock, handler, calls, served,
                    available, reservations, catalogOutbox>>
    BY <1>2 DEF ChangeCart, orderVars, lockVars, catalogVars
  <2> QED
    BY <2>1, <2>2 DEF TInv, Types, CatalogTypes, RowsFilled, SlotsFilled
<1> QED
  BY <1>1, <1>2

(* An answer fills the reply of the slot that waits for it, and nothing else. *)
LEMMA DeliverReaches ==
    ASSUME handler \in [Handlers -> HandlerState], NEW c, NEW reply, NEW items,
           Deliver(c, reply, items)
    PROVE  /\ calls' = calls \ {c}
           /\ \A h \in Handlers :
                 /\ handler'[h].pc = handler[h].pc /\ handler'[h].key = handler[h].key
                 /\ handler'[h].order = handler[h].order
                 /\ handler'[h].attempt = handler[h].attempt
                 /\ handler'[h].reply = IF h = c.by THEN reply ELSE handler[h].reply
                 /\ handler'[h].granted = IF h = c.by THEN items ELSE handler[h].granted
<1>1. ASSUME NEW s \in HandlerState
      PROVE  /\ [s EXCEPT !.reply = reply, !.granted = items].pc = s.pc
             /\ [s EXCEPT !.reply = reply, !.granted = items].key = s.key
             /\ [s EXCEPT !.reply = reply, !.granted = items].order = s.order
             /\ [s EXCEPT !.reply = reply, !.granted = items].attempt = s.attempt
             /\ [s EXCEPT !.reply = reply, !.granted = items].reply = reply
             /\ [s EXCEPT !.reply = reply, !.granted = items].granted = items
  BY DEF HandlerState
<1>2. ASSUME NEW h \in Handlers
      PROVE  handler'[h] = IF h = c.by THEN [handler[h] EXCEPT !.reply = reply, !.granted = items]
                           ELSE handler[h]
  BY DEF Deliver
<1>3. ASSUME NEW h \in Handlers
      PROVE  /\ handler'[h].pc = handler[h].pc /\ handler'[h].key = handler[h].key
             /\ handler'[h].order = handler[h].order
             /\ handler'[h].attempt = handler[h].attempt
             /\ handler'[h].reply = IF h = c.by THEN reply ELSE handler[h].reply
             /\ handler'[h].granted = IF h = c.by THEN items ELSE handler[h].granted
  <2>1. CASE h = c.by
    <3>1. handler[h] \in HandlerState
      OBVIOUS
    <3>2. handler'[h] = [handler[h] EXCEPT !.reply = reply, !.granted = items]
      BY <1>2, <2>1
    <3> QED
      BY <1>1, <2>1, <3>1, <3>2
  <2>2. CASE h # c.by
    BY <1>2, <2>2
  <2> QED
    BY <2>1, <2>2
<1> QED
  BY <1>3 DEF Deliver

(* A call served or lost: at most one slot learns a reply, nothing else of  *)
(* order-service moves.                                                     *)
LEMMA CatalogStepsKeepTInv ==
    ASSUME TInv, CatalogStep
    PROVE  TInv'
<1>1. PICK c \in calls : ServeReserve(c) \/ ServeRelease(c) \/ LoseCall(c)
  BY DEF CatalogStep
<1>2. c \in CallRecord /\ c.attempt \in Attempts /\ c.items \in [Products -> Nat]
  BY DEF TInv, Types, CallRecord
<1>a. CatalogTypes
  BY DEF TInv, Types
<1>3. ASSUME NEW reply \in {"none", "active", "failed", "ok"}, NEW items \in [Products -> Nat],
             Deliver(c, reply, items), CatalogTypes', UNCHANGED <<orderVars, lockVars, cart, served>>
      PROVE  TInv'
  <2>1. ASSUME NEW s \in HandlerState
        PROVE  LET t == [s EXCEPT !.reply = reply, !.granted = items]
               IN  /\ t \in HandlerState
                   /\ t.pc = s.pc /\ t.key = s.key /\ t.request = s.request
                   /\ t.attempt = s.attempt /\ t.order = s.order
    BY DEF HandlerState
  <2>2. \A h \in Handlers : handler[h] \in HandlerState
    BY DEF TInv, Types
  <2>3. /\ handler' \in [Handlers -> HandlerState]
        /\ \A h \in Handlers : /\ handler'[h].pc = handler[h].pc
                               /\ handler'[h].key = handler[h].key
                               /\ handler'[h].request = handler[h].request
                               /\ handler'[h].attempt = handler[h].attempt
                               /\ handler'[h].order = handler[h].order
    BY <1>3, <2>1, <2>2 DEF Deliver
  <2>4. SlotsFilled'
    BY <2>3 DEF TInv, SlotsFilled
  <2>5. calls' \subseteq CallRecord
    BY <1>3 DEF Deliver, TInv, Types
  <2>6. UNCHANGED <<idem, orders, outbox, answers, keyLock, rowLock, cart, served>>
    BY <1>3 DEF orderVars, lockVars
  <2> QED
    BY <1>3, <2>3, <2>4, <2>5, <2>6 DEF TInv, Types, RowsFilled
<1>4. CASE ServeReserve(c)
  <2>1. CatalogTypes'
    BY <1>2, <1>4, <1>a, ReserveTypes DEF ServeReserve
  <2>2. /\ ReserveResponse(c.attempt, c.items) \in {"none", "active", "failed", "ok"}
        /\ GrantedItems(c.attempt, c.items) \in [Products -> Nat]
    BY <1>2, <1>a DEF ReserveResponse, GrantedItems, EmptyBasket, CatalogTypes, ReservationRow,
                      ResponseStatus
  <2> QED
    BY <1>3, <1>4, <2>1, <2>2 DEF ServeReserve
<1>5. CASE ServeRelease(c)
  <2>1. CatalogTypes'
    BY <1>2, <1>5, <1>a, ReleaseTypes DEF ServeRelease
  <2>2. EmptyBasket \in [Products -> Nat]
    BY DEF EmptyBasket
  <2> QED
    BY <1>3, <1>5, <2>1, <2>2 DEF ServeRelease
<1>6. CASE LoseCall(c)
  <2>1. calls' \subseteq CallRecord
    BY <1>6 DEF LoseCall, TInv, Types
  <2>2. UNCHANGED <<idem, orders, outbox, answers, keyLock, rowLock, handler, cart, served,
                    available, reservations, catalogOutbox>>
    BY <1>6 DEF LoseCall, orderVars, lockVars, catalogVars
  <2> QED
    BY <2>1, <2>2 DEF TInv, Types, CatalogTypes, RowsFilled, SlotsFilled
<1> QED
  BY <1>1, <1>4, <1>5, <1>6

(* All of it: every step of the system keeps the tables well-typed. *)
LEMMA InitTInv == Init => TInv
<1> SUFFICES ASSUME Init PROVE TInv
  OBVIOUS
<1>1. CatalogTypes
  BY DEF Init, CatalogInit, CatalogTypes, NoReservation, ReservationRow, ReservationStatus,
         ResponseStatus, EmptyBasket
<1>2. NoRow \in IdemRow /\ NoRow.state = "none"
  BY DEF NoRow, IdemRow
<1>3. NoOrderRow \in OrderRow /\ ~canCancel(NoOrderRow.status)
  BY DEF NoOrderRow, OrderRow, canCancel, EmptyBasket
<1>4. Idle \in HandlerState /\ Idle.pc = "idle"
  BY DEF Idle, HandlerState, EmptyBasket
<1>5. Types
  BY <1>1, <1>2, <1>3, <1>4 DEF Init, Types
<1>6. SlotsFilled /\ RowsFilled
  BY <1>2, <1>3, <1>4 DEF Init, SlotsFilled, RowsFilled
<1> QED
  BY <1>5, <1>6 DEF TInv

LEMMA NextTInv == TInv /\ [Next]_vars => TInv'
<1> SUFFICES ASSUME TInv, [Next]_vars PROVE TInv'
  OBVIOUS
<1>1. CASE UNCHANGED vars
  BY <1>1 DEF vars, catalogVars, TInv, Types, CatalogTypes, SlotsFilled, RowsFilled
<1>2. ASSUME NEW h \in Handlers,
             \/ \E k \in Keys, r \in Requests : StartCreate(h, k, r)
             \/ \E o \in OrderIds : BeginCancel(h, o)
             \/ HandlerStep(h)
             \/ LoseSession(h)
             \/ Abort(h)
      PROVE  TInv'
  BY <1>2, CreateStepsKeepTInv, PersistStepsKeepTInv, CancelStepsKeepTInv DEF HandlerStep
<1> QED
  BY <1>1, <1>2, CatalogStepsKeepTInv, EnvironmentKeepsTInv DEF Next

(* The tables of order-service and catalog-service, the local state of the   *)
(* requests and the calls in flight are always well-typed; for one, stock    *)
(* never goes below zero, whatever races, is retried, is lost or is late.    *)
THEOREM TypeCorrect == Spec => []TypeOK
<1>1. TInv => TypeOK
  BY TypesIsTypeOK DEF TInv
<1> QED
  BY <1>1, InitTInv, NextTInv, PTL DEF Spec

-----------------------------------------------------------------------------
(* One order per key                                                        *)
(*                                                                          *)
(* OneOrderPerKey is not inductive: it follows from KeyRows, which ties the  *)
(* orders to the idempotency rows in both directions, and KeyRows is kept    *)
(* by persistOrder only because of KeyLocks: a request that still has the    *)
(* session it locked the key with finds the row as it left it.               *)

KeyRows ==
    /\ \A o \in OrderIds : Placed(o) =>
          /\ orders[o].key \in Keys
          /\ idem[orders[o].key].state = "completed"
          /\ idem[orders[o].key].order = o
    /\ \A k \in Keys : idem[k].state = "completed" =>
          Placed(idem[k].order) /\ orders[idem[k].order].key = k

KeyLocks ==
    \A h \in Handlers :
        /\ handler[h].pc = "prepare" => keyLock[handler[h].key] = h
        /\ handler[h].pc \in {"cart", "reserve"} /\ keyLock[handler[h].key] = h =>
              idem[handler[h].key].state = "processing"

(* What one request h may do without disturbing KeyLocks. *)
LEMMA KeyLocksKept ==
    ASSUME TInv, KeyLocks, NEW h \in Handlers,
           \A g \in Handlers \ {h} : handler'[g] = handler[g],
           \A k \in Keys, g \in Handlers \ {h} : keyLock'[k] = g <=> keyLock[k] = g,
           \A k \in Keys, g \in Handlers \ {h} :
              keyLock[k] = g /\ idem[k].state = "processing" => idem'[k].state = "processing",
           handler'[h].pc = "prepare" => keyLock'[handler'[h].key] = h,
           handler'[h].pc \in {"cart", "reserve"} /\ keyLock'[handler'[h].key] = h =>
              idem'[handler'[h].key].state = "processing"
    PROVE  KeyLocks'
<1>1. ASSUME NEW g \in Handlers \ {h}
      PROVE  /\ handler'[g].pc = "prepare" => keyLock'[handler'[g].key] = g
             /\ handler'[g].pc \in {"cart", "reserve"} /\ keyLock'[handler'[g].key] = g =>
                   idem'[handler'[g].key].state = "processing"
  <2>1. handler'[g] = handler[g]
    OBVIOUS
  <2>2. handler[g].pc \in {"prepare", "cart", "reserve"} => handler[g].key \in Keys
    BY DEF TInv, SlotsFilled
  <2>3. /\ handler[g].pc = "prepare" => keyLock[handler[g].key] = g
        /\ handler[g].pc \in {"cart", "reserve"} /\ keyLock[handler[g].key] = g =>
              idem[handler[g].key].state = "processing"
    BY DEF KeyLocks
  <2> QED
    BY <2>1, <2>2, <2>3
<1> QED
  BY <1>1 DEF KeyLocks

(* The locks when a request ends: its own are free, the others' stay. *)
LEMMA EndRequestLocks ==
    ASSUME TInv, NEW h \in Handlers, EndRequest(h)
    PROVE  /\ \A g \in Handlers \ {h} : handler'[g] = handler[g]
           /\ handler'[h].pc = "idle"
           /\ \A k \in Keys, g \in Handlers \ {h} : keyLock'[k] = g <=> keyLock[k] = g
<1>1. \A g \in Handlers \ {h} : handler'[g] = handler[g]
  BY DEF EndRequest, TInv, Types
<1>2. handler'[h].pc = "idle"
  BY DEF EndRequest, TInv, Types, Idle
<1>3. \A k \in Keys, g \in Handlers \ {h} : keyLock'[k] = g <=> keyLock[k] = g
  BY DEF EndRequest, ReleaseLocks, TInv, Types
<1> QED
  BY <1>1, <1>2, <1>3

(* A request that ends and writes no row. *)
LEMMA EndKeepsKeyInv ==
    ASSUME TInv, KeyRows, KeyLocks, NEW h \in Handlers, EndRequest(h), UNCHANGED <<idem, orders>>
    PROVE  KeyRows' /\ KeyLocks'
<1>1. KeyRows'
  BY DEF KeyRows, Placed
<1>2. KeyLocks'
  BY EndRequestLocks, KeyLocksKept
<1> QED
  BY <1>1, <1>2

(* persistOrder under the lock: the key's row was still processing, so no    *)
(* order had the key, and now exactly o has it.                              *)
LEMMA OrderRowsKeepKeyRows ==
    ASSUME TInv, KeyRows, KeyLocks, NEW h \in Handlers, NEW o \in OrderIds,
           handler[h].pc = "reserve", keyLock[handler[h].key] = h, OrderRowsWritten(h, o)
    PROVE  /\ KeyRows'
           /\ handler[h].key \in Keys
           /\ idem[handler[h].key].state = "processing"
           /\ ~Placed(o) /\ Placed(o)'
           /\ orders'[o].key = handler[h].key
           /\ \A p \in OrderIds \ {o} : orders'[p] = orders[p]
           /\ \A k \in Keys \ {handler[h].key} : idem'[k] = idem[k]
<1> DEFINE k == handler[h].key
<1>1. k \in Keys /\ idem[k].state = "processing"
  BY DEF TInv, SlotsFilled, KeyLocks
<1>2. /\ orders[o].status = "none"
      /\ orders' = [orders EXCEPT ![o] = [status |-> "created", key |-> k,
                                          reservation |-> handler[h].attempt,
                                          items |-> handler[h].granted]]
      /\ idem' = [idem EXCEPT ![k] = [idem[k] EXCEPT !.state = "completed", !.order = o]]
  BY DEF OrderRowsWritten
<1>3. /\ orders'[o].status = "created" /\ orders'[o].key = k
      /\ \A p \in OrderIds \ {o} : orders'[p] = orders[p]
  BY <1>2 DEF TInv, Types
<1>4. /\ \A j \in Keys \ {k} : idem'[j] = idem[j]
      /\ idem'[k].state = "completed" /\ idem'[k].order = o
  BY <1>1, <1>2 DEF TInv, Types, IdemRow
<1>5. \A j \in Keys : idem[j].state = "completed" => idem[j].order \in OrderIds
  BY DEF TInv, RowsFilled
<1> HIDE DEF k
<1>6. KeyRows'
  <2>1. ASSUME NEW p \in OrderIds, Placed(p)'
        PROVE  /\ orders'[p].key \in Keys
               /\ idem'[orders'[p].key].state = "completed"
               /\ idem'[orders'[p].key].order = p
    BY <1>1, <1>3, <1>4, <2>1 DEF KeyRows, Placed
  <2>2. ASSUME NEW j \in Keys, idem'[j].state = "completed"
        PROVE  orders'[idem'[j].order].status # "none" /\ orders'[idem'[j].order].key = j
    <3>1. CASE j = k
      BY <1>3, <1>4, <3>1
    <3>2. CASE j # k
      <4>1. idem[j].state = "completed" /\ idem'[j] = idem[j] /\ idem[j].order \in OrderIds
        BY <1>4, <1>5, <2>2, <3>2
      <4>2. orders[idem[j].order].status # "none" /\ orders[idem[j].order].key = j
        BY <4>1 DEF KeyRows, Placed
      <4>3. idem[j].order # o
        BY <1>2, <4>2
      <4> QED
        BY <1>3, <4>1, <4>2, <4>3
    <3> QED
      BY <3>1, <3>2
  <2> QED
    BY <2>1, <2>2 DEF KeyRows, Placed
<1> QED
  BY <1>1, <1>2, <1>3, <1>4, <1>6 DEF Placed, k

(* The steps of Service.Create that go on. *)
LEMMA GoOnKeepsKeyInv ==
    ASSUME TInv, KeyRows, KeyLocks, NEW h \in Handlers,
           \/ \E k \in Keys, r \in Requests : StartCreate(h, k, r)
           \/ AcquireKeyLock(h)
           \/ \E att \in Attempts : PrepareNew(h, att)
           \/ PrepareResume(h) \/ SendReserve(h) \/ LoseSession(h)
           \/ \E o \in OrderIds : BeginCancel(h, o)
    PROVE  KeyRows' /\ KeyLocks'
<1>0. /\ handler \in [Handlers -> HandlerState] /\ keyLock \in [Keys -> Handlers \cup {NoHandler}]
      /\ idem \in [Keys -> IdemRow]
      /\ handler[h].pc \in {"lock", "prepare", "cart", "reserve"} => handler[h].key \in Keys
      /\ handler[h].pc = "prepare" => keyLock[handler[h].key] = h
  BY DEF TInv, Types, SlotsFilled, KeyLocks
<1>1. ASSUME NEW k \in Keys, NEW r \in Requests, StartCreate(h, k, r) PROVE KeyRows' /\ KeyLocks'
  <2>1. UNCHANGED <<idem, orders, keyLock>>
    BY <1>1 DEF StartCreate, orderVars, lockVars
  <2>2. handler'[h].pc = "lock" /\ \A g \in Handlers \ {h} : handler'[g] = handler[g]
    BY <1>0, <1>1 DEF StartCreate, Idle
  <2> QED
    BY <2>1, <2>2, KeyLocksKept DEF KeyRows, Placed
<1>2. ASSUME AcquireKeyLock(h) PROVE KeyRows' /\ KeyLocks'
  <2>1. /\ UNCHANGED <<idem, orders>>
        /\ handler[h].pc = "lock" /\ keyLock[handler[h].key] = NoHandler
        /\ keyLock' = [keyLock EXCEPT ![handler[h].key] = h]
        /\ handler' = [handler EXCEPT ![h].pc = "prepare"]
    BY <1>2 DEF AcquireKeyLock, orderVars
  <2>2. /\ handler'[h].pc = "prepare" /\ handler'[h].key = handler[h].key
        /\ \A g \in Handlers \ {h} : handler'[g] = handler[g]
    BY <1>0, <2>1 DEF HandlerState
  <2>3. \A k \in Keys, g \in Handlers \ {h} : keyLock'[k] = g <=> keyLock[k] = g
    BY <1>0, <2>1
  <2>4. keyLock'[handler[h].key] = h
    BY <1>0, <2>1
  <2> QED
    BY <2>1, <2>2, <2>3, <2>4, KeyLocksKept DEF KeyRows, Placed
<1>3. ASSUME NEW att \in Attempts, PrepareNew(h, att) PROVE KeyRows' /\ KeyLocks'
  <2> DEFINE k == handler[h].key
             row == [NoRow EXCEPT !.state = "processing", !.hash = handler[h].request, !.attempt = att]
  <2>1. /\ UNCHANGED <<orders, keyLock>>
        /\ handler[h].pc = "prepare" /\ idem[k].state = "none"
        /\ idem' = [idem EXCEPT ![k] = row]
        /\ handler' = [handler EXCEPT ![h] = [handler[h] EXCEPT !.pc = "cart", !.attempt = att]]
    BY <1>3 DEF PrepareNew, lockVars
  <2>2. row.state = "processing"
    BY DEF NoRow
  <2>3. k \in Keys /\ keyLock[k] = h
    BY <1>0, <2>1
  <2>4. /\ \A g \in Handlers \ {h} : handler'[g] = handler[g]
        /\ handler'[h].pc = "cart" /\ handler'[h].key = k
    BY <1>0, <2>1 DEF HandlerState
  <2> HIDE DEF k, row
  <2>5. idem'[k].state = "processing" /\ \A j \in Keys \ {k} : idem'[j] = idem[j]
    BY <1>0, <2>1, <2>2, <2>3
  <2>6. KeyRows'
    <3>1. \A j \in Keys : idem'[j].state = "completed" => idem'[j] = idem[j]
      BY <2>5
    <3>2. \A j \in Keys : idem[j].state = "completed" => idem'[j] = idem[j]
      BY <2>1, <2>5
    <3> QED
      BY <2>1, <3>1, <3>2 DEF KeyRows, Placed
  <2> QED
    BY <2>1, <2>4, <2>5, <2>6, KeyLocksKept
<1>4. ASSUME PrepareResume(h) PROVE KeyRows' /\ KeyLocks'
  <2> DEFINE k == handler[h].key
             s == [handler[h] EXCEPT !.pc = "cart", !.attempt = idem[k].attempt]
  <2>1. /\ UNCHANGED <<idem, orders, keyLock>>
        /\ handler[h].pc = "prepare" /\ idem[k].state = "processing"
        /\ handler' = [handler EXCEPT ![h] = s]
    BY <1>4 DEF PrepareResume, orderVars, lockVars
  <2>2. s.pc = "cart" /\ s.key = k
    BY <1>0 DEF HandlerState
  <2> HIDE DEF s
  <2>3. handler'[h] = s /\ \A g \in Handlers \ {h} : handler'[g] = handler[g]
    BY <1>0, <2>1
  <2> QED
    BY <2>1, <2>2, <2>3, KeyLocksKept DEF KeyRows, Placed
<1>5. ASSUME SendReserve(h) PROVE KeyRows' /\ KeyLocks'
  <2>1. /\ UNCHANGED <<idem, orders, keyLock>>
        /\ handler[h].pc = "cart"
        /\ handler' = [handler EXCEPT ![h].pc = "reserve"]
    BY <1>5 DEF SendReserve, orderVars, lockVars
  <2>2. /\ handler'[h].pc = "reserve" /\ handler'[h].key = handler[h].key
        /\ \A g \in Handlers \ {h} : handler'[g] = handler[g]
    BY <1>0, <2>1 DEF HandlerState
  <2>3. keyLock[handler[h].key] = h => idem[handler[h].key].state = "processing"
    BY <2>1 DEF KeyLocks
  <2> QED
    BY <2>1, <2>2, <2>3, KeyLocksKept DEF KeyRows, Placed
<1>6. ASSUME LoseSession(h) PROVE KeyRows' /\ KeyLocks'
  <2>1. /\ UNCHANGED <<idem, orders, handler>>
        /\ handler[h].pc \in {"cart", "reserve"} /\ keyLock[handler[h].key] = h
        /\ keyLock' = [keyLock EXCEPT ![handler[h].key] = NoHandler]
    BY <1>6 DEF LoseSession, orderVars
  <2>2. \A k \in Keys, g \in Handlers \ {h} : keyLock'[k] = g <=> keyLock[k] = g
    BY <1>0, <2>1
  <2>3. keyLock'[handler[h].key] # h
    BY <1>0, <2>1
  <2> QED
    BY <2>1, <2>2, <2>3, KeyLocksKept DEF KeyRows, Placed
<1>7. ASSUME NEW o \in OrderIds, BeginCancel(h, o) PROVE KeyRows' /\ KeyLocks'
  <2>1. UNCHANGED <<idem, orders, keyLock>>
    BY <1>7 DEF BeginCancel, orderVars
  <2>2. handler'[h].pc = "cancelling" /\ \A g \in Handlers \ {h} : handler'[g] = handler[g]
    BY <1>0, <1>7 DEF BeginCancel, Idle
  <2> QED
    BY <2>1, <2>2, KeyLocksKept DEF KeyRows, Placed
<1> QED
  BY <1>1, <1>2, <1>3, <1>4, <1>5, <1>6, <1>7

(* persistOrder, in its three outcomes, and the ends of a request. *)
LEMMA EndStepsKeepKeyInv ==
    ASSUME TInv, KeyRows, KeyLocks, NEW h \in Handlers,
           \/ PrepareReused(h) \/ PrepareReplay(h) \/ RefuseCart(h) \/ ReserveRefused(h)
           \/ \E o \in OrderIds : PersistOrder(h, o) \/ PersistUnknown(h, o)
           \/ PersistFails(h) \/ CompensationDone(h) \/ CallFails(h) \/ Abort(h)
    PROVE  KeyRows' /\ KeyLocks'
<1>1. CASE \/ PrepareReused(h) \/ PrepareReplay(h) \/ RefuseCart(h) \/ ReserveRefused(h)
           \/ CompensationDone(h) \/ CallFails(h) \/ Abort(h)
  <2>1. EndRequest(h) /\ UNCHANGED <<idem, orders>>
    BY <1>1 DEF PrepareReused, PrepareReplay, RefuseCart, ReserveRefused, CompensationDone,
                CallFails, Abort, orderVars
  <2> QED
    BY <2>1, EndKeepsKeyInv
<1>2. ASSUME NEW o \in OrderIds, PersistOrder(h, o) PROVE KeyRows' /\ KeyLocks'
  <2>1. /\ handler[h].pc = "reserve" /\ keyLock[handler[h].key] = h
        /\ OrderRowsWritten(h, o) /\ EndRequest(h)
    BY <1>2 DEF PersistOrder
  <2>2. /\ KeyRows' /\ handler[h].key \in Keys
        /\ \A k \in Keys \ {handler[h].key} : idem'[k] = idem[k]
    BY <2>1, OrderRowsKeepKeyRows
  <2>3. \A k \in Keys, g \in Handlers \ {h} :
           keyLock[k] = g /\ idem[k].state = "processing" => idem'[k].state = "processing"
    BY <2>1, <2>2
  <2> QED
    BY <2>1, <2>2, <2>3, EndRequestLocks, KeyLocksKept
<1>3. ASSUME NEW o \in OrderIds, PersistUnknown(h, o) PROVE KeyRows' /\ KeyLocks'
  <2>1. /\ handler[h].pc = "reserve" /\ keyLock[handler[h].key] = h
        /\ OrderRowsWritten(h, o) /\ StartCompensation(h)
        /\ keyLock' = [keyLock EXCEPT ![handler[h].key] = NoHandler]
    BY <1>3 DEF PersistUnknown
  <2>2. /\ KeyRows' /\ handler[h].key \in Keys
        /\ \A k \in Keys \ {handler[h].key} : idem'[k] = idem[k]
    BY <2>1, OrderRowsKeepKeyRows
  <2>3. \A k \in Keys, g \in Handlers \ {h} :
           keyLock[k] = g /\ idem[k].state = "processing" => idem'[k].state = "processing"
    BY <2>1, <2>2
  <2>4. handler'[h].pc = "compensate" /\ \A g \in Handlers \ {h} : handler'[g] = handler[g]
    BY <2>1, StartCompensationEffect
  <2>5. \A k \in Keys, g \in Handlers \ {h} : keyLock'[k] = g <=> keyLock[k] = g
    BY <2>1, <2>2 DEF TInv, Types
  <2> QED
    BY <2>2, <2>3, <2>4, <2>5, KeyLocksKept
<1>4. ASSUME PersistFails(h) PROVE KeyRows' /\ KeyLocks'
  <2>1. /\ handler[h].pc = "reserve" /\ StartCompensation(h)
        /\ UNCHANGED <<idem, orders, keyLock>>
    BY <1>4 DEF PersistFails, orderVars
  <2>2. handler'[h].pc = "compensate" /\ \A g \in Handlers \ {h} : handler'[g] = handler[g]
    BY <2>1, StartCompensationEffect
  <2> QED
    BY <2>1, <2>2, KeyLocksKept DEF KeyRows, Placed
<1> QED
  BY <1>1, <1>2, <1>3, <1>4

(* A change of status leaves an order placed and its key alone. *)
LEMMA StatusChangeKeepsPlaced ==
    ASSUME TInv, NEW o \in OrderIds, NEW status, status # "none", Placed(o),
           orders' = [orders EXCEPT ![o].status = status]
    PROVE  \A p \in OrderIds : (Placed(p)' <=> Placed(p)) /\ orders'[p].key = orders[p].key
BY DEF TInv, Types, OrderRow, Placed

(* Service.Cancel's commit changes a placed order: the one it cancels was   *)
(* placed when its row was locked.                                          *)
CancelsPlaced ==
    \A h \in Handlers : handler[h].pc = "cancelling" => Placed(handler[h].order)

LEMMA NextKeepsKeyInv ==
    ASSUME TInv, KeyRows, KeyLocks, CancelsPlaced, [Next]_vars
    PROVE  KeyRows' /\ KeyLocks' /\ CancelsPlaced'
<1>0. /\ handler \in [Handlers -> HandlerState] /\ orders \in [OrderIds -> OrderRow]
      /\ \A h \in Handlers : handler[h].pc = "cancelling" => handler[h].order \in OrderIds
      /\ \A k \in Keys : idem[k].state = "completed" => idem[k].order \in OrderIds
  BY DEF TInv, Types, SlotsFilled, RowsFilled
(* Rows and handlers keep what the invariant reads of them. *)
<1>a. ASSUME UNCHANGED <<idem, keyLock>>,
             \A p \in OrderIds : (Placed(p)' <=> Placed(p)) /\ orders'[p].key = orders[p].key,
             \A h \in Handlers : /\ handler'[h].pc = handler[h].pc
                                 /\ handler'[h].key = handler[h].key
                                 /\ handler'[h].order = handler[h].order
      PROVE  KeyRows' /\ KeyLocks' /\ CancelsPlaced'
  <2>1. KeyRows'
    BY <1>0, <1>a DEF KeyRows, Placed
  <2>2. KeyLocks'
    BY <1>a DEF KeyLocks
  <2>3. CancelsPlaced'
    BY <1>0, <1>a DEF CancelsPlaced, Placed
  <2> QED
    BY <2>1, <2>2, <2>3
(* One request moves, no placed order disappears, and it is not cancelling. *)
<1>b. ASSUME NEW h \in Handlers,
             \A g \in Handlers \ {h} : handler'[g] = handler[g],
             handler'[h].pc = "cancelling" => orders'[handler'[h].order].status # "none",
             \A p \in OrderIds : Placed(p) => Placed(p)'
      PROVE  CancelsPlaced'
  BY <1>0, <1>b DEF CancelsPlaced, Placed
<1>1. CASE UNCHANGED vars
  BY <1>1, <1>a DEF vars, Placed
<1>2. ASSUME NEW h \in Handlers,
             \/ \E k \in Keys, r \in Requests : StartCreate(h, k, r)
             \/ AcquireKeyLock(h)
             \/ \E att \in Attempts : PrepareNew(h, att)
             \/ PrepareResume(h) \/ SendReserve(h) \/ LoseSession(h)
      PROVE  KeyRows' /\ KeyLocks' /\ CancelsPlaced'
  <2>1. KeyRows' /\ KeyLocks'
    BY <1>2, GoOnKeepsKeyInv
  <2>2. /\ \A g \in Handlers \ {h} : handler'[g] = handler[g]
        /\ handler'[h].pc # "cancelling"
        /\ orders' = orders
    <3>1. CASE \E k \in Keys, r \in Requests : StartCreate(h, k, r)
      BY <1>0, <3>1 DEF StartCreate, Idle, orderVars
    <3>2. CASE AcquireKeyLock(h)
      BY <1>0, <3>2 DEF AcquireKeyLock, HandlerState, orderVars
    <3>3. CASE \E att \in Attempts : PrepareNew(h, att)
      BY <1>0, <3>3 DEF PrepareNew, HandlerState
    <3>4. CASE PrepareResume(h)
      BY <1>0, <3>4 DEF PrepareResume, HandlerState, orderVars
    <3>5. CASE SendReserve(h)
      BY <1>0, <3>5 DEF SendReserve, HandlerState, orderVars
    <3>6. CASE LoseSession(h)
      BY <1>0, <3>6 DEF LoseSession, HandlerState, orderVars
    <3> QED
      BY <1>2, <3>1, <3>2, <3>3, <3>4, <3>5, <3>6
  <2> QED
    BY <1>b, <2>1, <2>2 DEF Placed
<1>3. ASSUME NEW h \in Handlers, NEW o \in OrderIds, BeginCancel(h, o)
      PROVE  KeyRows' /\ KeyLocks' /\ CancelsPlaced'
  <2>1. KeyRows' /\ KeyLocks'
    BY <1>3, GoOnKeepsKeyInv
  <2>2. /\ \A g \in Handlers \ {h} : handler'[g] = handler[g]
        /\ handler'[h].order = o
        /\ orders' = orders /\ Placed(o)
    BY <1>0, <1>3 DEF BeginCancel, Idle, orderVars, Placed, canCancel
  <2> QED
    BY <1>b, <2>1, <2>2 DEF Placed
<1>4. ASSUME NEW h \in Handlers,
             \/ PrepareReused(h) \/ PrepareReplay(h) \/ RefuseCart(h) \/ ReserveRefused(h)
             \/ \E o \in OrderIds : PersistOrder(h, o) \/ PersistUnknown(h, o)
             \/ PersistFails(h) \/ CompensationDone(h) \/ CallFails(h) \/ Abort(h)
      PROVE  KeyRows' /\ KeyLocks' /\ CancelsPlaced'
  <2>1. KeyRows' /\ KeyLocks'
    BY <1>4, EndStepsKeepKeyInv
  <2>2. CASE \/ PrepareReused(h) \/ PrepareReplay(h) \/ RefuseCart(h) \/ ReserveRefused(h)
             \/ CompensationDone(h) \/ CallFails(h) \/ Abort(h)
    <3>1. EndRequest(h) /\ orders' = orders
      BY <2>2 DEF PrepareReused, PrepareReplay, RefuseCart, ReserveRefused, CompensationDone,
                  CallFails, Abort, orderVars
    <3> QED
      BY <1>b, <2>1, <3>1, EndRequestLocks DEF Placed
  <2>3. ASSUME NEW o \in OrderIds, PersistOrder(h, o) \/ PersistUnknown(h, o)
        PROVE  CancelsPlaced'
    <3>1. /\ handler[h].pc = "reserve" /\ keyLock[handler[h].key] = h
          /\ OrderRowsWritten(h, o)
          /\ EndRequest(h) \/ StartCompensation(h)
      BY <2>3 DEF PersistOrder, PersistUnknown
    <3>2. /\ handler'[h].pc # "cancelling" /\ \A g \in Handlers \ {h} : handler'[g] = handler[g]
      BY <3>1, EndRequestLocks, StartCompensationEffect
    <3>3. \A p \in OrderIds : Placed(p) => Placed(p)'
      BY <3>1, OrderRowsKeepKeyRows DEF Placed
    <3> QED
      BY <1>b, <3>2, <3>3
  <2>4. CASE PersistFails(h)
    <3>1. handler[h].pc = "reserve" /\ StartCompensation(h) /\ orders' = orders
      BY <2>4 DEF PersistFails, orderVars
    <3> QED
      BY <1>b, <2>1, <3>1, StartCompensationEffect DEF Placed
  <2> QED
    BY <1>4, <2>1, <2>2, <2>3, <2>4
<1>5. ASSUME NEW h \in Handlers, CommitCancel(h) PROVE KeyRows' /\ KeyLocks' /\ CancelsPlaced'
  <2> DEFINE o == handler[h].order
  <2>1. /\ o \in OrderIds /\ Placed(o) /\ EndRequest(h) /\ idem' = idem
        /\ orders' = [orders EXCEPT ![o].status = "cancelled"]
    BY <1>0, <1>5 DEF CommitCancel, CancelRowsWritten, CancelsPlaced
  <2> HIDE DEF o
  <2>2. \A p \in OrderIds : (Placed(p)' <=> Placed(p)) /\ orders'[p].key = orders[p].key
    BY <2>1, StatusChangeKeepsPlaced
  <2>3. KeyRows'
    BY <1>0, <2>1, <2>2 DEF KeyRows, Placed
  <2>4. KeyLocks' /\ CancelsPlaced'
    BY <1>b, <2>1, <2>2, EndRequestLocks, KeyLocksKept
  <2> QED
    BY <2>3, <2>4
<1>6. ASSUME NEW o \in OrderIds, NEW target \in OrderStatus, Advance(o, target)
      PROVE  KeyRows' /\ KeyLocks' /\ CancelsPlaced'
  <2>1. /\ Placed(o) /\ target # "none"
        /\ orders' = [orders EXCEPT ![o].status = target]
        /\ UNCHANGED <<idem, keyLock, handler>>
    BY <1>6 DEF Advance, validTransition, Placed, lockVars
  <2>2. \A p \in OrderIds : (Placed(p)' <=> Placed(p)) /\ orders'[p].key = orders[p].key
    BY <2>1, StatusChangeKeepsPlaced
  <2> QED
    BY <1>a, <2>1, <2>2
<1>7. ASSUME NEW version \in 1..MaxCartVersion, NEW items \in Baskets, ChangeCart(version, items) PROVE KeyRows' /\ KeyLocks' /\ CancelsPlaced'
  BY <1>7, <1>a DEF ChangeCart, orderVars, lockVars, Placed
<1>8. ASSUME CatalogStep PROVE KeyRows' /\ KeyLocks' /\ CancelsPlaced'
  <2>1. /\ UNCHANGED <<idem, orders, keyLock>>
        /\ handler' = handler \/ \E c \in calls : \E reply, items : Deliver(c, reply, items)
    BY <1>8 DEF CatalogStep, ServeReserve, ServeRelease, LoseCall, orderVars, lockVars
  <2>2. \A h \in Handlers : /\ handler'[h].pc = handler[h].pc
                            /\ handler'[h].key = handler[h].key
                            /\ handler'[h].order = handler[h].order
    BY <1>0, <2>1, DeliverReaches
  <2> QED
    BY <1>a, <2>1, <2>2 DEF Placed
<1> QED
  BY <1>1, <1>2, <1>3, <1>4, <1>5, <1>6, <1>7, <1>8 DEF Next, HandlerStep

LEMMA KeyInvariant == Spec => [](TInv /\ KeyRows /\ KeyLocks /\ CancelsPlaced)
<1>1. Init => TInv /\ KeyRows /\ KeyLocks /\ CancelsPlaced
  <2> SUFFICES ASSUME Init PROVE TInv /\ KeyRows /\ KeyLocks /\ CancelsPlaced
    OBVIOUS
  <2>1. TInv
    BY InitTInv
  <2>2. /\ \A o \in OrderIds : ~Placed(o)
        /\ \A k \in Keys : idem[k].state = "none"
        /\ \A h \in Handlers : handler[h].pc = "idle"
    BY DEF Init, NoRow, NoOrderRow, Idle, Placed
  <2> QED
    BY <2>1, <2>2 DEF KeyRows, KeyLocks, CancelsPlaced
<1>2. TInv /\ KeyRows /\ KeyLocks /\ CancelsPlaced /\ [Next]_vars
         => (TInv /\ KeyRows /\ KeyLocks /\ CancelsPlaced)'
  BY NextTInv, NextKeepsKeyInv
<1> QED
  BY <1>1, <1>2, PTL DEF Spec

(* Service.Create: however requests with one Idempotency-Key overlap, retry, *)
(* lose their session or die at any step, at most one order is placed for it.*)
THEOREM AtMostOneOrder == Spec => []OneOrderPerKey
<1>1. KeyRows => OneOrderPerKey
  BY DEF KeyRows, OneOrderPerKey
<1> QED
  BY <1>1, KeyInvariant, PTL

-----------------------------------------------------------------------------
(* The refinement of CheckoutPromise *)

(* Nothing the client's view reads has changed. *)
LEMMA PlacedUnchanged ==
    ASSUME \A p \in OrderIds : (Placed(p)' <=> Placed(p)) /\ orders'[p].key = orders[p].key
    PROVE  PlacedByKey' = PlacedByKey
BY DEF PlacedByKey, Placed

(* persistOrder is the promise's Place, heard of or not. *)
LEMMA PersistPlaces ==
    ASSUME TInv, KeyRows, KeyLocks, NEW h \in Handlers, NEW o \in OrderIds,
           handler[h].pc = "reserve", keyLock[handler[h].key] = h, OrderRowsWritten(h, o),
           answers' = answers \/ answers' = answers \cup {<<handler[h].key, o>>}
    PROVE  Promise!PromiseNext
<1> DEFINE k == handler[h].key
<1>1. /\ k \in Keys /\ idem[k].state = "processing"
      /\ ~Placed(o) /\ Placed(o)' /\ orders'[o].key = k
      /\ \A p \in OrderIds \ {o} : orders'[p] = orders[p]
  BY OrderRowsKeepKeyRows
<1>2. answers' = answers \/ answers' = answers \cup {<<k, o>>}
  OBVIOUS
<1> HIDE DEF k
<1>3. PlacedByKey[k] = {}
  <2>1. \A p \in OrderIds : ~(Placed(p) /\ orders[p].key = k)
    BY <1>1 DEF KeyRows
  <2> QED
    BY <1>1, <2>1 DEF PlacedByKey
<1>4. \A j \in Keys : o \notin PlacedByKey[j]
  BY <1>1 DEF PlacedByKey
<1>5. PlacedByKey' = [PlacedByKey EXCEPT ![k] = {o}]
  <2>1. ASSUME NEW j \in Keys
        PROVE  {p \in OrderIds : Placed(p)' /\ orders'[p].key = j}
                  = IF j = k THEN {o} ELSE {p \in OrderIds : Placed(p) /\ orders[p].key = j}
    <3>1. \A p \in OrderIds \ {o} : Placed(p)' <=> Placed(p)
      BY <1>1 DEF Placed
    <3>2. \A p \in OrderIds : ~(Placed(p) /\ orders[p].key = k)
      BY <1>1 DEF KeyRows
    <3>3. CASE j = k
      BY <1>1, <3>1, <3>2, <3>3
    <3>4. CASE j # k
      BY <1>1, <3>1, <3>4
    <3> QED
      BY <3>3, <3>4
  <2>2. PlacedByKey' = [j \in Keys |-> {p \in OrderIds : Placed(p)' /\ orders'[p].key = j}]
    BY DEF PlacedByKey
  <2>3. PlacedByKey = [j \in Keys |-> {p \in OrderIds : Placed(p) /\ orders[p].key = j}]
    BY DEF PlacedByKey
  <2> QED
    BY <1>1, <2>1, <2>2, <2>3
<1>6. Promise!Place(k, o)
  BY <1>2, <1>3, <1>4, <1>5 DEF Promise!Place
<1> QED
  BY <1>1, <1>6 DEF Promise!PromiseNext

(* prepareIdempotency answering a completed key is the promise's Answer. *)
LEMMA ReplayAnswers ==
    ASSUME TInv, KeyRows, NEW h \in Handlers, PrepareReplay(h)
    PROVE  Promise!PromiseNext
<1> DEFINE k == handler[h].key
           o == idem[k].order
<1>1. /\ k \in Keys /\ idem[k].state = "completed" /\ orders' = orders
      /\ answers' = answers \cup {<<k, o>>}
  BY DEF PrepareReplay, TInv, SlotsFilled
<1>2. o \in OrderIds /\ Placed(o) /\ orders[o].key = k
  BY <1>1 DEF KeyRows, TInv, RowsFilled
<1> HIDE DEF k, o
<1>3. o \in PlacedByKey[k] /\ PlacedByKey' = PlacedByKey
  BY <1>1, <1>2 DEF PlacedByKey, Placed
<1>4. Promise!Answer(k, o)
  BY <1>1, <1>3 DEF Promise!Answer
<1> QED
  BY <1>1, <1>2, <1>4 DEF Promise!PromiseNext

(* Every other step stutters: it places no order and answers no checkout. *)
LEMMA OthersStutter ==
    ASSUME TInv, CancelsPlaced, [Next]_vars,
           \A h \in Handlers : ~PrepareReplay(h),
           \A h \in Handlers, o \in OrderIds : ~PersistOrder(h, o) /\ ~PersistUnknown(h, o)
    PROVE  UNCHANGED <<PlacedByKey, answers>>
<1>1. CASE UNCHANGED <<orders, answers>>
  BY <1>1, PlacedUnchanged DEF Placed
<1>2. ASSUME NEW h \in Handlers,
             \/ \E k \in Keys, r \in Requests : StartCreate(h, k, r)
             \/ \E o \in OrderIds : BeginCancel(h, o)
             \/ AcquireKeyLock(h) \/ (\E att \in Attempts : PrepareNew(h, att))
             \/ PrepareReused(h) \/ PrepareResume(h) \/ RefuseCart(h) \/ SendReserve(h)
             \/ ReserveRefused(h) \/ PersistFails(h) \/ CompensationDone(h) \/ CallFails(h)
             \/ LoseSession(h) \/ Abort(h)
      PROVE  UNCHANGED <<orders, answers>>
  BY <1>2 DEF StartCreate, BeginCancel, AcquireKeyLock, PrepareNew, PrepareReused, PrepareResume,
              RefuseCart, SendReserve, ReserveRefused, PersistFails, CompensationDone, CallFails,
              LoseSession, Abort, orderVars
<1>3. ASSUME NEW h \in Handlers, CommitCancel(h) PROVE UNCHANGED <<PlacedByKey, answers>>
  <2> DEFINE o == handler[h].order
  <2>1. /\ o \in OrderIds /\ Placed(o) /\ answers' = answers
        /\ orders' = [orders EXCEPT ![o].status = "cancelled"]
    BY <1>3 DEF CommitCancel, CancelRowsWritten, CancelsPlaced, TInv, SlotsFilled
  <2> HIDE DEF o
  <2> QED
    BY <2>1, StatusChangeKeepsPlaced, PlacedUnchanged
<1>4. ASSUME NEW o \in OrderIds, NEW target \in OrderStatus, Advance(o, target)
      PROVE  UNCHANGED <<PlacedByKey, answers>>
  <2>1. /\ Placed(o) /\ target # "none" /\ answers' = answers
        /\ orders' = [orders EXCEPT ![o].status = target]
    BY <1>4 DEF Advance, validTransition, Placed
  <2> QED
    BY <2>1, StatusChangeKeepsPlaced, PlacedUnchanged
<1>5. CASE CatalogStep
  BY <1>1, <1>5 DEF CatalogStep, ServeReserve, ServeRelease, LoseCall, orderVars
<1>6. CASE \E version \in 1..MaxCartVersion, items \in Baskets : ChangeCart(version, items)
  BY <1>1, <1>6 DEF ChangeCart, orderVars
<1>7. CASE UNCHANGED vars
  BY <1>1, <1>7 DEF vars
<1> QED
  BY <1>1, <1>2, <1>3, <1>4, <1>5, <1>6, <1>7 DEF Next, HandlerStep

(* Service.Create keeps the promise made to a client that retries: one order *)
(* per Idempotency-Key, and every successful answer names it.                *)
THEOREM PromiseKept == Spec => ImplementsPromise
<1>1. Init => Promise!PromiseInit
  BY DEF Init, NoOrderRow, Placed, PlacedByKey, Promise!PromiseInit
<1>2. ASSUME TInv, KeyRows, KeyLocks, CancelsPlaced, [Next]_vars
      PROVE  [Promise!PromiseNext]_(Promise!promiseVars)
  <2>1. ASSUME NEW h \in Handlers, PrepareReplay(h) PROVE Promise!PromiseNext
    BY <1>2, <2>1, ReplayAnswers
  <2>2. ASSUME NEW h \in Handlers, NEW o \in OrderIds, PersistOrder(h, o) \/ PersistUnknown(h, o)
        PROVE  Promise!PromiseNext
    BY <1>2, <2>2, PersistPlaces DEF PersistOrder, PersistUnknown
  <2>3. CASE /\ \A h \in Handlers : ~PrepareReplay(h)
             /\ \A h \in Handlers, o \in OrderIds : ~PersistOrder(h, o) /\ ~PersistUnknown(h, o)
    BY <1>2, <2>3, OthersStutter DEF Promise!promiseVars
  <2> QED
    BY <2>1, <2>2, <2>3
<1> QED
  BY <1>1, <1>2, KeyInvariant, PTL DEF Spec, ImplementsPromise, Promise!PromiseSpec

-----------------------------------------------------------------------------
(* What catalog-service decides                                             *)

(* The stored response fits the status the reservation has or had first.    *)
AnswersFit ==
    \A a \in Attempts :
        /\ reservations[a].status = "none" <=> reservations[a].response = "none"
        /\ reservations[a].status \in {"active", "released"} <=> reservations[a].response = "active"

CatalogInv == AnswersFit /\ OneEventPerReservation

(* The steps ReservationDecidedOnce and StockMovesWithOneReservation admit.  *)
DecidedStay ==
    \A a \in Attempts : reservations[a].status # "none" =>
        /\ reservations'[a].items = reservations[a].items
        /\ reservations'[a].response = reservations[a].response
        /\ reservations'[a].status # reservations[a].status =>
              reservations[a].status = "active" /\ reservations'[a].status = "released"

StockMoves ==
    available' # available =>
        \E a \in Attempts :
            /\ \A b \in Attempts \ {a} : reservations'[b] = reservations[b]
            /\ \/ /\ reservations[a].status = "none" /\ reservations'[a].status = "active"
                  /\ \A p \in Products : available'[p] = available[p] - reservations'[a].items[p]
               \/ /\ reservations[a].status = "active" /\ reservations'[a].status = "released"
                  /\ \A p \in Products : available'[p] = available[p] + reservations[a].items[p]

(* Reserve writes one row and its one event the first time and nothing      *)
(* after; what it answers is what the row then says.                        *)
LEMMA ReserveDecides ==
    ASSUME CatalogTypes, CatalogInv, NEW att \in Attempts, NEW items \in [Products -> Nat],
           Reserve(att, items)
    PROVE  /\ CatalogInv' /\ DecidedStay /\ StockMoves
           /\ ReserveResponse(att, items) = "active" =>
                 /\ reservations'[att].status \in {"active", "released"}
                 /\ reservations'[att].items = GrantedItems(att, items)
<1>0. /\ available \in [Products -> Nat] /\ reservations \in [Attempts -> ReservationRow]
      /\ catalogOutbox \in [Attempts -> Seq(InventoryEvent)]
  BY DEF CatalogTypes
<1>1. CASE ReserveActive(att, items)
  <2> DEFINE row == [status |-> "active", items |-> items, response |-> "active"]
  <2>1. /\ reservations[att].status = "none" /\ reservations[att].response = "none"
        /\ catalogOutbox[att] = << >>
    BY <1>1 DEF ReserveActive, CatalogInv, AnswersFit, OneEventPerReservation
  <2>2. /\ reservations'[att] = row /\ catalogOutbox'[att] = <<"inventory.reserved">>
        /\ \A p \in Products : available'[p] = available[p] - items[p]
    BY <1>0, <1>1, <2>1 DEF ReserveActive
  <2>3. \A b \in Attempts \ {att} :
           reservations'[b] = reservations[b] /\ catalogOutbox'[b] = catalogOutbox[b]
    BY <1>0, <1>1 DEF ReserveActive
  <2>4. AnswersFit'
    BY <2>2, <2>3 DEF CatalogInv, AnswersFit
  <2>5. OneEventPerReservation'
    BY <2>2, <2>3 DEF CatalogInv, OneEventPerReservation
  <2>6. DecidedStay
    BY <2>1, <2>3 DEF DecidedStay
  <2>7. StockMoves
    BY <2>1, <2>2, <2>3 DEF StockMoves
  <2>8. GrantedItems(att, items) = items
    BY <1>1, <2>1 DEF GrantedItems, ReserveActive
  <2> QED
    BY <2>2, <2>4, <2>5, <2>6, <2>7, <2>8 DEF CatalogInv
<1>2. CASE ReserveFailed(att, items)
  <2> DEFINE row == [status |-> "failed", items |-> EmptyBasket, response |-> "failed"]
  <2>1. /\ reservations[att].status = "none" /\ reservations[att].response = "none"
        /\ catalogOutbox[att] = << >> /\ Shortages(items) # {} /\ available' = available
    BY <1>2 DEF ReserveFailed, CatalogInv, AnswersFit, OneEventPerReservation
  <2>2. /\ reservations'[att] = row /\ catalogOutbox'[att] = <<"inventory.reservation_failed">>
    BY <1>0, <1>2, <2>1 DEF ReserveFailed
  <2>3. \A b \in Attempts \ {att} :
           reservations'[b] = reservations[b] /\ catalogOutbox'[b] = catalogOutbox[b]
    BY <1>0, <1>2 DEF ReserveFailed
  <2>4. AnswersFit'
    BY <2>2, <2>3 DEF CatalogInv, AnswersFit
  <2>5. OneEventPerReservation'
    BY <2>2, <2>3 DEF CatalogInv, OneEventPerReservation
  <2>6. DecidedStay /\ StockMoves
    BY <2>1, <2>3 DEF DecidedStay, StockMoves
  <2>7. ReserveResponse(att, items) = "failed"
    BY <2>1 DEF ReserveResponse
  <2> QED
    BY <2>4, <2>5, <2>6, <2>7 DEF CatalogInv
<1>3. CASE ReserveReplay(att, items)
  <2>1. UNCHANGED <<available, reservations, catalogOutbox>> /\ reservations[att].status # "none"
    BY <1>3 DEF ReserveReplay, catalogVars
  <2>2. CatalogInv' /\ DecidedStay /\ StockMoves
    BY <2>1 DEF CatalogInv, AnswersFit, OneEventPerReservation, DecidedStay, StockMoves
  <2>3. /\ ReserveResponse(att, items) = reservations[att].response
        /\ GrantedItems(att, items) = reservations[att].items
    BY <2>1 DEF ReserveResponse, GrantedItems
  <2> QED
    BY <2>1, <2>2, <2>3 DEF CatalogInv, AnswersFit
<1> QED
  BY <1>1, <1>2, <1>3 DEF Reserve

(* Release gives back what one active reservation took, once.               *)
LEMMA ReleaseDecides ==
    ASSUME CatalogTypes, CatalogInv, NEW att \in Attempts, Release(att)
    PROVE  /\ CatalogInv' /\ DecidedStay /\ StockMoves
           /\ reservations'[att].status \in {"failed", "released"}
<1>1. CASE ReleaseActive(att)
  <2>1. reservations[att] \in ReservationRow /\ reservations[att].status = "active"
    BY <1>1 DEF ReleaseActive, CatalogTypes
  <2>2. /\ reservations' = [reservations EXCEPT ![att] = [reservations[att] EXCEPT !.status = "released"]]
        /\ catalogOutbox' = catalogOutbox
        /\ \A p \in Products : available'[p] = available[p] + reservations[att].items[p]
    BY <1>1 DEF ReleaseActive
  <2>3. /\ reservations'[att].status = "released"
        /\ reservations'[att].items = reservations[att].items
        /\ reservations'[att].response = reservations[att].response
        /\ \A b \in Attempts \ {att} : reservations'[b] = reservations[b]
    BY <2>1, <2>2 DEF CatalogTypes, ReservationRow
  <2>4. AnswersFit'
    BY <2>1, <2>3 DEF CatalogInv, AnswersFit
  <2>5. OneEventPerReservation'
    BY <2>2, <2>3 DEF CatalogInv, OneEventPerReservation
  <2>6. DecidedStay
    BY <2>1, <2>3 DEF DecidedStay
  <2>7. StockMoves
    BY <2>1, <2>2, <2>3 DEF StockMoves
  <2> QED
    BY <2>3, <2>4, <2>5, <2>6, <2>7 DEF CatalogInv
<1>2. CASE ReleaseNoop(att)
  BY <1>2 DEF ReleaseNoop, catalogVars, CatalogInv, AnswersFit, OneEventPerReservation,
              DecidedStay, StockMoves
<1> QED
  BY <1>1, <1>2 DEF Release

(* Only a call to Reserve or Release touches the tables of catalog-service.  *)
LEMMA OnlyCallsMoveStock ==
    ASSUME [Next]_vars, ~CatalogStep PROVE UNCHANGED catalogVars
<1>1. ASSUME NEW h \in Handlers,
             \/ \E k \in Keys, r \in Requests : StartCreate(h, k, r)
             \/ \E o \in OrderIds : BeginCancel(h, o)
             \/ HandlerStep(h) \/ LoseSession(h) \/ Abort(h)
      PROVE  UNCHANGED catalogVars
  BY <1>1 DEF StartCreate, BeginCancel, HandlerStep, AcquireKeyLock, PrepareNew, PrepareReused,
              PrepareReplay, PrepareResume, RefuseCart, SendReserve, ReserveRefused, PersistOrder,
              PersistUnknown, PersistFails, CompensationDone, CommitCancel, CallFails, LoseSession,
              Abort
<1>2. CASE \/ \E o \in OrderIds, target \in OrderStatus : Advance(o, target)
           \/ \E version \in 1..MaxCartVersion, items \in Baskets : ChangeCart(version, items)
  BY <1>2 DEF Advance, ChangeCart
<1>3. CASE UNCHANGED vars
  BY <1>3 DEF vars, catalogVars
<1> QED
  BY <1>1, <1>2, <1>3 DEF Next

(* ... which keep what its tables agree on. *)
LEMMA NextKeepsCatalogInv ==
    ASSUME TInv, CatalogInv, [Next]_vars
    PROVE  CatalogInv' /\ DecidedStay /\ StockMoves
<1>1. CASE UNCHANGED catalogVars
  BY <1>1 DEF catalogVars, CatalogInv, AnswersFit, OneEventPerReservation, DecidedStay, StockMoves
<1>2. CASE CatalogStep
  <2>1. PICK c \in calls : ServeReserve(c) \/ ServeRelease(c) \/ LoseCall(c)
    BY <1>2 DEF CatalogStep
  <2>2. c.attempt \in Attempts /\ c.items \in [Products -> Nat] /\ CatalogTypes
    BY DEF TInv, Types, CallRecord
  <2>3. CASE ServeReserve(c)
    BY <2>2, <2>3, ReserveDecides DEF ServeReserve
  <2>4. CASE ServeRelease(c)
    BY <2>2, <2>4, ReleaseDecides DEF ServeRelease
  <2>5. CASE LoseCall(c)
    BY <1>1, <2>5 DEF LoseCall
  <2> QED
    BY <2>1, <2>3, <2>4, <2>5
<1>3. CASE ~CatalogStep
  BY <1>1, <1>3, OnlyCallsMoveStock
<1> QED
  BY <1>2, <1>3

LEMMA CatalogInvariant == Spec => [](TInv /\ CatalogInv)
<1>1. Init => CatalogInv
  BY DEF Init, CatalogInit, NoReservation, CatalogInv, AnswersFit, OneEventPerReservation
<1>2. TInv /\ CatalogInv /\ [Next]_vars => (TInv /\ CatalogInv)'
  BY NextTInv, NextKeepsCatalogInv
<1> QED
  BY <1>1, <1>2, InitTInv, PTL DEF Spec

(* Store.Reserve announces every attempt it decides exactly once, however   *)
(* often and in whatever order its callers retry and release.               *)
THEOREM AnnouncedWithTheRow == Spec => []OneEventPerReservation
<1>1. CatalogInv => OneEventPerReservation
  BY DEF CatalogInv
<1> QED
  BY <1>1, CatalogInvariant, PTL

(* Store.Reserve and Store.Release: a decided attempt keeps its items and   *)
(* its answer, and moves from active to released only.                      *)
THEOREM DecidedOnce == Spec => ReservationDecidedOnce
<1>1. TInv /\ CatalogInv /\ [Next]_vars => [DecidedStay]_catalogVars
  BY NextKeepsCatalogInv
<1> QED
  BY <1>1, CatalogInvariant, PTL DEF Spec, ReservationDecidedOnce, DecidedStay

(* Store.Reserve and Store.Release move stock with the row they write: what *)
(* leaves the shelf is what one reservation then holds, and comes back with *)
(* its release.                                                             *)
THEOREM StockWithReservation == Spec => StockMovesWithOneReservation
<1>1. TInv /\ CatalogInv /\ [Next]_vars => [StockMoves]_catalogVars
  BY NextKeepsCatalogInv
<1> QED
  BY <1>1, CatalogInvariant, PTL DEF Spec, StockMovesWithOneReservation, StockMoves

-----------------------------------------------------------------------------
(* Stock, on the shelf and held                                             *)

(* HeldBy with the reservations as a parameter: the same sum before and     *)
(* after a step.                                                            *)
ActiveIn(r) == {a \in Attempts : r[a].status = "active"}
HeldIn(r, p) == MapThenSumSet(LAMBDA a : r[a].items[p], ActiveIn(r))
ItemsOf(r, p) == [a \in Attempts |-> r[a].items[p]]

(* It is a total in the sense of Sums, with the items as weights. *)
LEMMA HeldIsTotal ==
    ASSUME NEW r, NEW p, IsFiniteSet(ActiveIn(r))
    PROVE  HeldIn(r, p) = Total(ItemsOf(r, p), ActiveIn(r))
<1> DEFINE S == ActiveIn(r)
           w == ItemsOf(r, p)
           F(h) == [s \in SUBSET S |->
                       IF s = {} THEN 0
                       ELSE r[CHOOSE x \in s : TRUE].items[p] + h[s \ {CHOOSE x \in s : TRUE}]]
           it == CHOOSE h : h = F(h)
<1>1. HeldIn(r, p) = it[S]
  BY DEF HeldIn, MapThenSumSet, MapThenFoldSet
<1>2. PICK g : Totals(g, w, S) /\ Total(w, S) = g[S]
  BY TotalUnfolds
<1>3. ASSUME NEW s \in SUBSET S, s # {}
      PROVE  w[Pick(s)] = r[CHOOSE x \in s : TRUE].items[p]
  <2>1. Pick(s) \in Attempts
    BY <1>3, PickIn DEF ActiveIn
  <2> QED
    BY <2>1 DEF ItemsOf, Pick
<1>4. ASSUME NEW h PROVE Totals(h, w, S) <=> h = F(h)
  <2> HIDE DEF S, w
  <2> QED
    BY <1>3 DEF Totals, Pick
<1>5. Totals(it, w, S)
  <2> HIDE DEF S, w, F
  <2>1. g = F(g)
    BY <1>2, <1>4
  <2>2. it = F(it)
    BY <2>1
  <2> QED
    BY <1>4, <2>2
<1>6. it[S] = g[S]
  <2> HIDE DEF it
  <2>1. it[S] = Total(w, S)
    BY <1>5, TotalOfSubset
  <2> QED
    BY <1>2, <2>1
<1> QED
  BY <1>1, <1>2, <1>6

(* One reservation that becomes active holds its items more. *)
LEMMA HeldMore ==
    ASSUME NEW r \in [Attempts -> ReservationRow], NEW s \in [Attempts -> ReservationRow],
           NEW att \in Attempts, r[att].status # "active", s[att].status = "active",
           \A b \in Attempts \ {att} : s[b] = r[b],
           IsFiniteSet(ActiveIn(r)) \/ IsFiniteSet(ActiveIn(s))
    PROVE  /\ IsFiniteSet(ActiveIn(r)) /\ IsFiniteSet(ActiveIn(s))
           /\ \A p \in Products : HeldIn(s, p) = HeldIn(r, p) + s[att].items[p]
<1>1. ActiveIn(s) = ActiveIn(r) \cup {att} /\ att \notin ActiveIn(r) /\ att \in ActiveIn(s)
  BY DEF ActiveIn
<1>2. ActiveIn(r) = ActiveIn(s) \ {att}
  BY <1>1
<1>3. IsFiniteSet(ActiveIn(r)) /\ IsFiniteSet(ActiveIn(s))
  BY <1>1, <1>2, FS_AddElement, FS_Subset
<1>4. ASSUME NEW p \in Products PROVE HeldIn(s, p) = HeldIn(r, p) + s[att].items[p]
  <2>1. \A a \in Attempts : ItemsOf(s, p)[a] = s[a].items[p] /\ s[a].items[p] \in Nat
    BY DEF ItemsOf, ReservationRow
  <2>2. \A a \in ActiveIn(s) : ItemsOf(s, p)[a] \in Nat
    BY <2>1 DEF ActiveIn
  <2>3. \A a \in ActiveIn(r) : ItemsOf(s, p)[a] = ItemsOf(r, p)[a] /\ ItemsOf(s, p)[a] \in Nat
    BY <1>1, <2>1 DEF ItemsOf, ActiveIn
  <2>4. Total(ItemsOf(s, p), ActiveIn(s))
           = ItemsOf(s, p)[att] + Total(ItemsOf(s, p), ActiveIn(r))
    BY <1>1, <1>2, <1>3, <2>2, TotalWithout
  <2>5. Total(ItemsOf(s, p), ActiveIn(r)) = Total(ItemsOf(r, p), ActiveIn(r))
    BY <1>3, <2>3, TotalSame
  <2>6. Total(ItemsOf(s, p), ActiveIn(r)) \in Nat
    BY <1>3, <2>3, TotalType
  <2>7. HeldIn(s, p) = Total(ItemsOf(s, p), ActiveIn(s)) /\ HeldIn(r, p) = Total(ItemsOf(r, p), ActiveIn(r))
    BY <1>3, HeldIsTotal
  <2> QED
    BY <2>1, <2>4, <2>5, <2>6, <2>7
<1> QED
  BY <1>3, <1>4

(* What no step of Reserve or Release made active or released holds the same. *)
LEMMA HeldSame ==
    ASSUME NEW r \in [Attempts -> ReservationRow], NEW s \in [Attempts -> ReservationRow],
           IsFiniteSet(ActiveIn(r)),
           \A a \in Attempts : r[a] = s[a] \/ (r[a].status # "active" /\ s[a].status # "active")
    PROVE  /\ IsFiniteSet(ActiveIn(s))
           /\ \A p \in Products : HeldIn(s, p) = HeldIn(r, p)
<1>1. ActiveIn(s) = ActiveIn(r)
  BY DEF ActiveIn
<1>2. ASSUME NEW p \in Products PROVE HeldIn(s, p) = HeldIn(r, p)
  <2>1. \A a \in ActiveIn(r) : ItemsOf(s, p)[a] = ItemsOf(r, p)[a]
    BY DEF ItemsOf, ActiveIn
  <2>2. Total(ItemsOf(s, p), ActiveIn(r)) = Total(ItemsOf(r, p), ActiveIn(r))
    BY <2>1, TotalSame
  <2>3. HeldIn(s, p) = Total(ItemsOf(s, p), ActiveIn(s)) /\ HeldIn(r, p) = Total(ItemsOf(r, p), ActiveIn(r))
    BY <1>1, HeldIsTotal
  <2> QED
    BY <1>1, <2>2, <2>3
<1> QED
  BY <1>1, <1>2

(* Stock is conserved, and only finitely many reservations hold any, which   *)
(* gives the sum its meaning when there is no end of attempts.              *)
StockInv == IsFiniteSet(ActiveIn(reservations)) /\ StockConserved

LEMMA StockInvMeans ==
    StockInv <=> /\ IsFiniteSet(ActiveIn(reservations))
                 /\ \A p \in Products : available[p] + HeldIn(reservations, p) = InitialStock[p]
BY DEF StockInv, StockConserved, HeldBy, HeldIn, ActiveIn

LEMMA StockInvMeansNext ==
    StockInv' <=> /\ IsFiniteSet(ActiveIn(reservations'))
                  /\ \A p \in Products : available'[p] + HeldIn(reservations', p) = InitialStock[p]
<1>1. ASSUME NEW p \in Products PROVE HeldBy(p)' = HeldIn(reservations', p)
  BY DEF HeldBy, HeldIn, ActiveIn, MapThenSumSet, MapThenFoldSet
<1>2. ActiveIn(reservations)' = ActiveIn(reservations')
  BY DEF ActiveIn
<1> QED
  BY <1>1, <1>2 DEF StockInv, StockConserved

(* Reserve takes from the shelf what the reservation then holds. *)
LEMMA ReserveKeepsStock ==
    ASSUME CatalogTypes, StockInv, NEW att \in Attempts, NEW items \in [Products -> Nat],
           Reserve(att, items)
    PROVE  StockInv'
<1> PICK r, s, left, now : r = reservations /\ s = reservations' /\ left = available /\ now = available'
  OBVIOUS
<1>1. /\ r \in [Attempts -> ReservationRow] /\ left \in [Products -> Nat]
      /\ IsFiniteSet(ActiveIn(r))
      /\ \A p \in Products : left[p] + HeldIn(r, p) = InitialStock[p]
  BY StockInvMeans DEF CatalogTypes
<1>2. SUFFICES /\ IsFiniteSet(ActiveIn(s))
               /\ \A p \in Products : now[p] + HeldIn(s, p) = InitialStock[p]
  BY StockInvMeansNext
<1>3. ASSUME NEW p \in Products PROVE HeldIn(r, p) \in Int
  <2>1. \A a \in ActiveIn(r) : ItemsOf(r, p)[a] \in Nat
    BY <1>1 DEF ActiveIn, ItemsOf, ReservationRow
  <2>2. Total(ItemsOf(r, p), ActiveIn(r)) \in Nat
    BY <1>1, <2>1, TotalType
  <2> QED
    BY <1>1, <2>2, HeldIsTotal
<1>4. CASE ReserveActive(att, items)
  <2>1. /\ r[att].status = "none"
        /\ s = [r EXCEPT ![att] = [status |-> "active", items |-> items, response |-> "active"]]
        /\ \A p \in Products : now[p] = left[p] - items[p]
    BY <1>4 DEF ReserveActive
  <2>2. /\ s \in [Attempts -> ReservationRow] /\ s[att].status = "active" /\ s[att].items = items
        /\ \A b \in Attempts \ {att} : s[b] = r[b]
    BY <1>1, <2>1 DEF ReservationRow, ReservationStatus, ResponseStatus
  <2>3. r[att].status # "active"
    BY <2>1
  <2>4. /\ IsFiniteSet(ActiveIn(s))
        /\ \A p \in Products : HeldIn(s, p) = HeldIn(r, p) + s[att].items[p]
    BY <1>1, <2>2, <2>3, HeldMore
  <2>5. ASSUME NEW p \in Products PROVE now[p] + HeldIn(s, p) = InitialStock[p]
    <3>1. left[p] \in Nat /\ items[p] \in Nat /\ HeldIn(r, p) \in Int
      BY <1>1, <1>3
    <3>2. HeldIn(s, p) = HeldIn(r, p) + items[p]
      BY <2>2, <2>4
    <3>3. now[p] = left[p] - items[p] /\ left[p] + HeldIn(r, p) = InitialStock[p]
      BY <1>1, <2>1
    <3> QED
      BY <3>1, <3>2, <3>3
  <2> QED
    BY <2>4, <2>5
<1>5. CASE ReserveFailed(att, items)
  <2>1. /\ r[att].status = "none" /\ now = left
        /\ s = [r EXCEPT ![att] = [status |-> "failed", items |-> EmptyBasket, response |-> "failed"]]
    BY <1>5 DEF ReserveFailed
  <2>2. EmptyBasket \in [Products -> Nat]
    BY DEF EmptyBasket
  <2>3. /\ s \in [Attempts -> ReservationRow] /\ s[att].status = "failed"
        /\ \A b \in Attempts \ {att} : s[b] = r[b]
    BY <1>1, <2>1, <2>2 DEF ReservationRow, ReservationStatus, ResponseStatus
  <2>4. \A a \in Attempts : r[a] = s[a] \/ (r[a].status # "active" /\ s[a].status # "active")
    BY <2>1, <2>3
  <2>5. IsFiniteSet(ActiveIn(s)) /\ \A p \in Products : HeldIn(s, p) = HeldIn(r, p)
    BY <1>1, <2>3, <2>4, HeldSame
  <2> QED
    BY <1>1, <2>1, <2>5
<1>6. CASE ReserveReplay(att, items)
  BY <1>1, <1>6 DEF ReserveReplay, catalogVars
<1> QED
  BY <1>4, <1>5, <1>6 DEF Reserve

(* Release puts back on the shelf what the reservation held. *)
LEMMA ReleaseKeepsStock ==
    ASSUME CatalogTypes, StockInv, NEW att \in Attempts, Release(att)
    PROVE  StockInv'
<1> PICK r, s, left, now : r = reservations /\ s = reservations' /\ left = available /\ now = available'
  OBVIOUS
<1>1. /\ r \in [Attempts -> ReservationRow] /\ left \in [Products -> Nat]
      /\ IsFiniteSet(ActiveIn(r))
      /\ \A p \in Products : left[p] + HeldIn(r, p) = InitialStock[p]
  BY StockInvMeans DEF CatalogTypes
<1>2. SUFFICES /\ IsFiniteSet(ActiveIn(s))
               /\ \A p \in Products : now[p] + HeldIn(s, p) = InitialStock[p]
  BY StockInvMeansNext
<1>3. CASE ReleaseActive(att)
  <2>1. /\ r[att].status = "active"
        /\ s = [r EXCEPT ![att] = [r[att] EXCEPT !.status = "released"]]
        /\ \A p \in Products : now[p] = left[p] + r[att].items[p]
    BY <1>3 DEF ReleaseActive
  <2>2. /\ s \in [Attempts -> ReservationRow] /\ s[att].status = "released"
        /\ \A b \in Attempts \ {att} : r[b] = s[b]
    BY <1>1, <2>1 DEF ReservationRow, ReservationStatus
  <2>3. /\ IsFiniteSet(ActiveIn(s))
        /\ \A p \in Products : HeldIn(r, p) = HeldIn(s, p) + r[att].items[p]
    <3>1. s[att].status # "active" /\ r[att].status = "active" /\ \A b \in Attempts \ {att} : r[b] = s[b]
      BY <2>1, <2>2
    <3>2. r \in [Attempts -> ReservationRow] /\ s \in [Attempts -> ReservationRow]
      BY <1>1, <2>2
    <3>3. IsFiniteSet(ActiveIn(s)) \/ IsFiniteSet(ActiveIn(r))
      BY <1>1
    <3> QED
      BY <3>1, <3>2, <3>3, HeldMore
  <2>4. ASSUME NEW p \in Products PROVE HeldIn(s, p) \in Int /\ r[att].items[p] \in Nat
    <3>1. \A a \in ActiveIn(s) : ItemsOf(s, p)[a] \in Nat
      BY <2>2 DEF ActiveIn, ItemsOf, ReservationRow
    <3>2. Total(ItemsOf(s, p), ActiveIn(s)) \in Nat
      BY <2>3, <3>1, TotalType
    <3> QED
      BY <1>1, <2>3, <3>2, HeldIsTotal DEF ReservationRow
  <2>5. ASSUME NEW p \in Products PROVE now[p] + HeldIn(s, p) = InitialStock[p]
    <3>1. left[p] \in Nat /\ r[att].items[p] \in Nat /\ HeldIn(s, p) \in Int
      BY <1>1, <2>4
    <3>2. HeldIn(r, p) = HeldIn(s, p) + r[att].items[p]
      BY <2>3
    <3>3. now[p] = left[p] + r[att].items[p] /\ left[p] + HeldIn(r, p) = InitialStock[p]
      BY <1>1, <2>1
    <3> QED
      BY <3>1, <3>2, <3>3
  <2> QED
    BY <2>3, <2>5
<1>4. CASE ReleaseNoop(att)
  BY <1>1, <1>4 DEF ReleaseNoop, catalogVars
<1> QED
  BY <1>3, <1>4 DEF Release

LEMMA NextKeepsStock ==
    ASSUME TInv, StockInv, [Next]_vars
    PROVE  StockInv'
<1>1. CASE UNCHANGED catalogVars
  BY <1>1, StockInvMeans, StockInvMeansNext DEF catalogVars
<1>2. CASE CatalogStep
  <2>1. PICK c \in calls : ServeReserve(c) \/ ServeRelease(c) \/ LoseCall(c)
    BY <1>2 DEF CatalogStep
  <2>2. c.attempt \in Attempts /\ c.items \in [Products -> Nat] /\ CatalogTypes
    BY DEF TInv, Types, CallRecord
  <2>3. CASE ServeReserve(c)
    BY <2>2, <2>3, ReserveKeepsStock DEF ServeReserve
  <2>4. CASE ServeRelease(c)
    BY <2>2, <2>4, ReleaseKeepsStock DEF ServeRelease
  <2>5. CASE LoseCall(c)
    BY <1>1, <2>5 DEF LoseCall
  <2> QED
    BY <2>1, <2>3, <2>4, <2>5
<1>3. CASE ~CatalogStep
  BY <1>1, <1>3, OnlyCallsMoveStock
<1> QED
  BY <1>2, <1>3

(* Store.Reserve and Store.Release: whatever the order of reservations,      *)
(* refusals, retries and repeated releases, every unit of stock is on the   *)
(* shelf or in exactly one active reservation.                              *)
THEOREM StockNeverLost == Spec => []StockConserved
<1>1. Init => StockInv
  <2> SUFFICES ASSUME Init PROVE StockInv
    OBVIOUS
  <2>1. ActiveIn(reservations) = {} /\ available = InitialStock
    BY DEF Init, CatalogInit, NoReservation, ActiveIn
  <2>2. ASSUME NEW p \in Products PROVE HeldIn(reservations, p) = 0
    <3>1. IsFiniteSet(ActiveIn(reservations))
      BY <2>1, FS_EmptySet
    <3>2. HeldIn(reservations, p) = Total(ItemsOf(reservations, p), ActiveIn(reservations))
      BY <3>1, HeldIsTotal
    <3>3. Total(ItemsOf(reservations, p), {}) = 0
      BY TotalEmpty
    <3> QED
      BY <2>1, <3>2, <3>3
  <2>3. IsFiniteSet(ActiveIn(reservations))
    BY <2>1, FS_EmptySet
  <2>4. ASSUME NEW p \in Products PROVE available[p] + HeldIn(reservations, p) = InitialStock[p]
    <3>1. available[p] = InitialStock[p] /\ InitialStock[p] \in Nat
      BY <2>1
    <3> QED
      BY <2>2, <3>1
  <2> QED
    BY <2>3, <2>4, StockInvMeans
<1>2. TInv /\ StockInv /\ [Next]_vars => (TInv /\ StockInv)'
  BY NextTInv, NextKeepsStock
<1>3. StockInv => StockConserved
  BY DEF StockInv
<1> QED
  BY <1>1, <1>2, <1>3, InitTInv, PTL DEF Spec

-----------------------------------------------------------------------------
(* What order-service builds on the answers                                 *)

(* A handler waits for one call at most, the one it made last; before its   *)
(* first call it has heard nothing.                                         *)
CallsMatch ==
    /\ \A h \in Handlers :
          handler[h].pc \in {"idle", "lock", "prepare", "cart"} => handler[h].reply = "none"
    /\ \A c \in calls : c.by \in Handlers =>
          /\ handler[c.by].reply = "none"
          /\ handler[c.by].attempt = c.attempt
          /\ c.op = "reserve" => handler[c.by].pc = "reserve"
          /\ c.op = "release" => handler[c.by].pc \in {"compensate", "cancelling"}
    /\ \A c, d \in calls : c.by \in Handlers /\ c.by = d.by => c = d

(* What a handler was told is still so. *)
RepliesHold ==
    \A h \in Handlers :
        /\ handler[h].pc = "reserve" /\ handler[h].reply = "active" =>
              /\ reservations[handler[h].attempt].status \in {"active", "released"}
              /\ reservations[handler[h].attempt].items = handler[h].granted
        /\ handler[h].pc = "cancelling" /\ handler[h].reply = "ok" =>
              reservations[handler[h].attempt].status \in {"failed", "released"}

CallsInv == CallsMatch /\ RepliesHold

(* A cancellation releases the reservation of the order it has locked. *)
CancelsAim ==
    \A h \in Handlers :
        handler[h].pc = "cancelling" => orders[handler[h].order].reservation = handler[h].attempt

OrdersInv == CancelsAim /\ OrderBackedByReservation /\ CancelledOrderReleased

(* A slot that calls nobody, or has just made its one call, fits whatever   *)
(* the others do.                                                           *)
LEMMA SlotMoves ==
    ASSUME TInv, CallsInv, NEW h \in Handlers,
           \A g \in Handlers \ {h} : handler'[g] = handler[g],
           UNCHANGED reservations,
           handler'[h].reply = "none",
           \A c \in calls' : c.by \in Handlers \ {h} => c \in calls,
           \A c \in calls' : c.by = h =>
              /\ c.attempt = handler'[h].attempt
              /\ c.op = "reserve" => handler'[h].pc = "reserve"
              /\ c.op = "release" => handler'[h].pc \in {"compensate", "cancelling"},
           \A c, d \in calls' : c.by = h /\ d.by = h => c = d
    PROVE  CallsInv'
<1>1. \A g \in Handlers :
        handler'[g].pc \in {"idle", "lock", "prepare", "cart"} => handler'[g].reply = "none"
  BY DEF CallsInv, CallsMatch
<1>2. ASSUME NEW c \in calls', c.by \in Handlers
      PROVE  /\ handler'[c.by].reply = "none"
             /\ handler'[c.by].attempt = c.attempt
             /\ c.op = "reserve" => handler'[c.by].pc = "reserve"
             /\ c.op = "release" => handler'[c.by].pc \in {"compensate", "cancelling"}
  <2>1. CASE c.by = h
    BY <2>1
  <2>2. CASE c.by # h
    BY <1>2, <2>2 DEF CallsInv, CallsMatch
  <2> QED
    BY <2>1, <2>2
<1>3. ASSUME NEW c \in calls', NEW d \in calls', c.by \in Handlers, c.by = d.by PROVE c = d
  BY <1>3 DEF CallsInv, CallsMatch
<1>4. CallsMatch'
  BY <1>1, <1>2, <1>3 DEF CallsMatch
<1>5. RepliesHold'
  BY DEF CallsInv, RepliesHold
<1> QED
  BY <1>4, <1>5 DEF CallsInv

(* EndRequest: what the request left behind has no one waiting for it.      *)
LEMMA EndKeepsCallsInv ==
    ASSUME TInv, CallsInv, NEW h \in Handlers, EndRequest(h), UNCHANGED reservations
    PROVE  CallsInv'
<1>1. handler'[h] = Idle /\ \A g \in Handlers \ {h} : handler'[g] = handler[g]
  BY EndRequestEffect
<1>2. calls \subseteq CallRecord /\ calls' = Orphaned(h)
  BY DEF TInv, Types, EndRequest
<1>3. ASSUME NEW c \in calls', c.by \in Handlers PROVE c \in calls /\ c.by # h
  <2>1. \A d \in CallRecord : [d EXCEPT !.by = NoHandler].by = NoHandler
    BY DEF CallRecord
  <2>2. CASE c \in calls /\ c.by # h
    BY <2>2
  <2>3. ASSUME NEW d \in calls, c = [d EXCEPT !.by = NoHandler] PROVE FALSE
    <3>1. d \in CallRecord
      BY <1>2
    <3>2. c.by = NoHandler
      BY <2>1, <2>3, <3>1
    <3> QED
      BY <1>3, <3>2, CheckoutAssumption
  <2> QED
    BY <1>2, <2>2, <2>3 DEF Orphaned
<1> QED
  BY <1>1, <1>3, SlotMoves DEF Idle

(* Nobody is told anything and no call is new.                              *)
LEMMA QuietKeepsCallsInv ==
    ASSUME CallsInv, calls' \subseteq calls, UNCHANGED <<handler, reservations>>
    PROVE  CallsInv'
BY DEF CallsInv, CallsMatch, RepliesHold

(* The steps that move one slot on. *)
LEMMA MovesKeepCallsInv ==
    ASSUME TInv, CallsInv, NEW h \in Handlers,
           \/ \E k \in Keys, r \in Requests : StartCreate(h, k, r)
           \/ AcquireKeyLock(h)
           \/ \E att \in Attempts : PrepareNew(h, att)
           \/ PrepareResume(h) \/ SendReserve(h)
           \/ PersistFails(h) \/ (\E o \in OrderIds : PersistUnknown(h, o))
           \/ \E o \in OrderIds : BeginCancel(h, o)
    PROVE  CallsInv'
<1>0. handler \in [Handlers -> HandlerState]
  BY DEF TInv, Types
<1>1. \A c \in calls : c.by # h
  <2>1. \/ handler[h].pc \in {"idle", "lock", "prepare", "cart"}
        \/ handler[h].pc = "reserve" /\ handler[h].reply = "active"
    BY DEF StartCreate, AcquireKeyLock, PrepareNew, PrepareResume, SendReserve, PersistFails,
           PersistUnknown, BeginCancel
  <2>2. \A c \in calls : c.op \in {"reserve", "release"}
    BY DEF TInv, Types, CallRecord
  <2> QED
    BY <2>1, <2>2 DEF CallsInv, CallsMatch
<1>2. /\ handler[h].pc \in {"idle", "lock", "prepare", "cart"} => handler[h].reply = "none"
  BY DEF CallsInv, CallsMatch
<1>3. CASE \/ \E k \in Keys, r \in Requests : StartCreate(h, k, r)
           \/ AcquireKeyLock(h)
           \/ \E att \in Attempts : PrepareNew(h, att)
           \/ PrepareResume(h)
  <2>1. /\ \A g \in Handlers \ {h} : handler'[g] = handler[g]
        /\ calls' = calls /\ UNCHANGED reservations /\ handler'[h].reply = "none"
    <3>1. CASE \E k \in Keys, r \in Requests : StartCreate(h, k, r)
      <4>1. PICK k \in Keys, r \in Requests : StartCreate(h, k, r)
        BY <3>1
      <4>2. PICK x : handler' = [handler EXCEPT ![h] = x] /\ x.reply = "none"
        <5>1. [Idle EXCEPT !.pc = "lock", !.key = k, !.request = r].reply = "none"
          BY DEF Idle
        <5> QED
          BY <4>1, <5>1, Zenon DEF StartCreate
      <4>3. calls' = calls /\ UNCHANGED reservations
        BY <4>1 DEF StartCreate, catalogVars
      <4> QED
        BY <1>0, <4>2, <4>3
    <3>2. CASE AcquireKeyLock(h)
      BY <1>0, <1>2, <3>2 DEF AcquireKeyLock, HandlerState, catalogVars
    <3>3. CASE \E att \in Attempts : PrepareNew(h, att)
      <4>1. PICK att \in Attempts : PrepareNew(h, att)
        BY <3>3
      <4>2. /\ handler' = [handler EXCEPT ![h] = [[handler[h] EXCEPT !.pc = "cart"] EXCEPT !.attempt = att]]
            /\ handler[h].pc = "prepare" /\ calls' = calls /\ UNCHANGED reservations
        BY <4>1 DEF PrepareNew, catalogVars
      <4>3. [[handler[h] EXCEPT !.pc = "cart"] EXCEPT !.attempt = att].reply = handler[h].reply
        BY <1>0 DEF HandlerState
      <4> QED
        BY <1>0, <1>2, <4>2, <4>3
    <3>4. CASE PrepareResume(h)
      BY <1>0, <1>2, <3>4 DEF PrepareResume, HandlerState, catalogVars
    <3> QED
      BY <1>3, <3>1, <3>2, <3>3, <3>4
  <2> QED
    BY <1>1, <2>1, SlotMoves
<1>4. CASE SendReserve(h)
  <2> DEFINE c0 == Call("reserve", handler[h].attempt, cart.items, h)
  <2>1. /\ \A g \in Handlers \ {h} : handler'[g] = handler[g]
        /\ calls' = calls \cup {c0} /\ UNCHANGED reservations /\ handler'[h].reply = "none"
        /\ handler'[h].pc = "reserve" /\ handler'[h].attempt = handler[h].attempt
    BY <1>0, <1>2, <1>4 DEF SendReserve, HandlerState, catalogVars
  <2>2. c0.by = h /\ c0.op = "reserve" /\ c0.attempt = handler[h].attempt
    BY DEF Call
  <2> HIDE DEF c0
  <2> QED
    BY <1>1, <2>1, <2>2, SlotMoves
<1>5. CASE PersistFails(h) \/ \E o \in OrderIds : PersistUnknown(h, o)
  <2> DEFINE c0 == Call("release", handler[h].attempt, EmptyBasket, h)
  <2>1. /\ \A g \in Handlers \ {h} : handler'[g] = handler[g]
        /\ calls' = calls \cup {c0} /\ UNCHANGED reservations /\ handler'[h].reply = "none"
        /\ handler'[h].pc = "compensate" /\ handler'[h].attempt = handler[h].attempt
    <3>1. StartCompensation(h) /\ UNCHANGED reservations
      BY <1>5 DEF PersistFails, PersistUnknown, catalogVars
    <3> QED
      BY <1>0, <3>1 DEF StartCompensation, HandlerState
  <2>2. c0.by = h /\ c0.op = "release" /\ c0.attempt = handler[h].attempt
    BY DEF Call
  <2> HIDE DEF c0
  <2> QED
    BY <1>1, <2>1, <2>2, SlotMoves
<1>6. ASSUME NEW o \in OrderIds, BeginCancel(h, o) PROVE CallsInv'
  <2> DEFINE c0 == Call("release", orders[o].reservation, EmptyBasket, h)
  <2>1. /\ \A g \in Handlers \ {h} : handler'[g] = handler[g]
        /\ calls' = calls \cup {c0} /\ UNCHANGED reservations /\ handler'[h].reply = "none"
        /\ handler'[h].pc = "cancelling" /\ handler'[h].attempt = orders[o].reservation
    BY <1>0, <1>6 DEF BeginCancel, Idle, catalogVars
  <2>2. c0.by = h /\ c0.op = "release" /\ c0.attempt = orders[o].reservation
    BY DEF Call
  <2> HIDE DEF c0
  <2> QED
    BY <1>1, <2>1, <2>2, SlotMoves
<1> QED
  BY <1>3, <1>4, <1>5, <1>6

(* A call is served or lost: the one handler that waits for it is told what *)
(* the reservation now is.                                                  *)
LEMMA CatalogStepsKeepCallsInv ==
    ASSUME TInv, CatalogInv, CallsInv, CatalogStep
    PROVE  CallsInv'
<1>0. /\ handler \in [Handlers -> HandlerState] /\ calls \subseteq CallRecord /\ CatalogTypes
      /\ \A h \in Handlers : handler[h].pc \in {"reserve", "cancelling"} => handler[h].attempt \in Attempts
  BY DEF TInv, Types, SlotsFilled
<1>1. PICK c \in calls : ServeReserve(c) \/ ServeRelease(c) \/ LoseCall(c)
  BY DEF CatalogStep
<1>2. CASE LoseCall(c)
  BY <1>2, QuietKeepsCallsInv DEF LoseCall, catalogVars
<1>3. ASSUME NEW reply \in {"none", "active", "failed", "ok"}, NEW items \in [Products -> Nat],
             Deliver(c, reply, items), DecidedStay,
             c.op = "reserve" => reply # "ok",
             c.op = "release" => reply = "ok",
             reply = "active" => /\ reservations'[c.attempt].status \in {"active", "released"}
                                 /\ reservations'[c.attempt].items = items,
             reply = "ok" => reservations'[c.attempt].status \in {"failed", "released"}
      PROVE  CallsInv'
  <2>1. /\ \A h \in Handlers :
              handler'[h].pc = handler[h].pc /\ handler'[h].attempt = handler[h].attempt
        /\ \A h \in Handlers : handler'[h].reply = IF h = c.by THEN reply ELSE handler[h].reply
        /\ \A h \in Handlers :
              handler'[h].granted = IF h = c.by THEN items ELSE handler[h].granted
        /\ calls' = calls \ {c}
    BY <1>0, <1>3, DeliverReaches
  <2>2. c.by \in Handlers =>
           /\ handler[c.by].attempt = c.attempt
           /\ handler[c.by].pc \in {"reserve", "compensate", "cancelling"}
           /\ handler[c.by].pc = "reserve" => c.op = "reserve"
           /\ handler[c.by].pc = "cancelling" => c.op = "release"
    BY <1>0 DEF CallsInv, CallsMatch, CallRecord
  <2>3. \A d \in calls : d.by \in Handlers /\ d.by = c.by => d = c
    BY DEF CallsInv, CallsMatch
  <2>4. CallsMatch'
    <3>1. \A h \in Handlers :
            handler'[h].pc \in {"idle", "lock", "prepare", "cart"} => handler'[h].reply = "none"
      BY <2>1, <2>2 DEF CallsInv, CallsMatch
    <3>2. \A d \in calls' : d.by \in Handlers =>
            /\ handler'[d.by].reply = "none"
            /\ handler'[d.by].attempt = d.attempt
            /\ d.op = "reserve" => handler'[d.by].pc = "reserve"
            /\ d.op = "release" => handler'[d.by].pc \in {"compensate", "cancelling"}
      BY <2>1, <2>3 DEF CallsInv, CallsMatch
    <3>3. \A d, e \in calls' : d.by \in Handlers /\ d.by = e.by => d = e
      BY <2>1 DEF CallsInv, CallsMatch
    <3> QED
      BY <3>1, <3>2, <3>3 DEF CallsMatch
  <2>5. ASSUME NEW h \in Handlers
        PROVE  /\ handler'[h].pc = "reserve" /\ handler'[h].reply = "active" =>
                     /\ reservations'[handler'[h].attempt].status \in {"active", "released"}
                     /\ reservations'[handler'[h].attempt].items = handler'[h].granted
               /\ handler'[h].pc = "cancelling" /\ handler'[h].reply = "ok" =>
                     reservations'[handler'[h].attempt].status \in {"failed", "released"}
    <3>1. CASE h = c.by
      BY <1>3, <2>1, <2>2, <3>1
    <3>2. CASE h # c.by
      BY <1>0, <1>3, <2>1, <3>2 DEF CallsInv, RepliesHold, DecidedStay
    <3> QED
      BY <3>1, <3>2
  <2>6. RepliesHold'
    BY <2>5 DEF RepliesHold
  <2> QED
    BY <2>4, <2>6 DEF CallsInv
<1>4. c.attempt \in Attempts /\ c.items \in [Products -> Nat]
  BY <1>0 DEF CallRecord
<1>5. CASE ServeReserve(c)
  <2>1. /\ c.op = "reserve" /\ Reserve(c.attempt, c.items)
        /\ Deliver(c, ReserveResponse(c.attempt, c.items), GrantedItems(c.attempt, c.items))
    BY <1>5 DEF ServeReserve
  <2>2. /\ ReserveResponse(c.attempt, c.items) \in {"none", "active", "failed"}
        /\ GrantedItems(c.attempt, c.items) \in [Products -> Nat]
    BY <1>0, <1>4 DEF ReserveResponse, GrantedItems, EmptyBasket, CatalogTypes, ReservationRow,
                      ResponseStatus
  <2>3. /\ DecidedStay
        /\ ReserveResponse(c.attempt, c.items) = "active" =>
              /\ reservations'[c.attempt].status \in {"active", "released"}
              /\ reservations'[c.attempt].items = GrantedItems(c.attempt, c.items)
    BY <1>0, <1>4, <2>1, ReserveDecides
  <2> QED
    BY <1>3, <2>1, <2>2, <2>3
<1>6. CASE ServeRelease(c)
  <2>1. c.op = "release" /\ Release(c.attempt) /\ Deliver(c, "ok", EmptyBasket)
        /\ EmptyBasket \in [Products -> Nat]
    BY <1>6 DEF ServeRelease, EmptyBasket
  <2>2. DecidedStay /\ reservations'[c.attempt].status \in {"failed", "released"}
    BY <1>0, <1>4, <2>1, ReleaseDecides
  <2> QED
    BY <1>3, <2>1, <2>2
<1> QED
  BY <1>1, <1>2, <1>5, <1>6

(* Placed orders keep their reservation, cancelled ones stay, and nothing   *)
(* decided is undone: all three facts about orders carry over.              *)
LEMMA OrdersKept ==
    ASSUME TInv, OrdersInv, CancelsPlaced, DecidedStay,
           \A o \in OrderIds : Placed(o)' => Placed(o),
           \A o \in OrderIds : Placed(o) => /\ orders'[o].reservation = orders[o].reservation
                                            /\ orders'[o].items = orders[o].items,
           \A o \in OrderIds : orders'[o].status = "cancelled" =>
              \/ orders[o].status = "cancelled"
              \/ reservations'[orders'[o].reservation].status = "released",
           \A h \in Handlers : handler'[h].pc = "cancelling" =>
              \/ /\ handler[h].pc = "cancelling"
                 /\ handler'[h].order = handler[h].order
                 /\ handler'[h].attempt = handler[h].attempt
              \/ orders'[handler'[h].order].reservation = handler'[h].attempt
    PROVE  OrdersInv'
<1>1. CancelsAim'
  <2> SUFFICES ASSUME NEW h \in Handlers, handler'[h].pc = "cancelling"
               PROVE  orders'[handler'[h].order].reservation = handler'[h].attempt
    BY DEF CancelsAim
  <2>1. CASE /\ handler[h].pc = "cancelling"
             /\ handler'[h].order = handler[h].order
             /\ handler'[h].attempt = handler[h].attempt
    <3>1. handler[h].order \in OrderIds /\ Placed(handler[h].order)
      BY <2>1 DEF TInv, SlotsFilled, CancelsPlaced
    <3> QED
      BY <2>1, <3>1 DEF OrdersInv, CancelsAim
  <2> QED
    BY <2>1
<1>2. OrderBackedByReservation'
  <2> SUFFICES ASSUME NEW o \in OrderIds, Placed(o)'
               PROVE  /\ orders'[o].reservation \in Attempts
                      /\ reservations'[orders'[o].reservation].status \in {"active", "released"}
                      /\ reservations'[orders'[o].reservation].items = orders'[o].items
    BY DEF OrderBackedByReservation
  <2>1. /\ orders'[o].reservation = orders[o].reservation /\ orders'[o].items = orders[o].items
        /\ orders[o].reservation \in Attempts
        /\ reservations[orders[o].reservation].status \in {"active", "released"}
        /\ reservations[orders[o].reservation].items = orders[o].items
    BY DEF OrdersInv, OrderBackedByReservation
  <2> QED
    BY <2>1 DEF DecidedStay
<1>3. CancelledOrderReleased'
  <2> SUFFICES ASSUME NEW o \in OrderIds, orders'[o].status = "cancelled"
               PROVE  reservations'[orders'[o].reservation].status = "released"
    BY DEF CancelledOrderReleased
  <2>1. CASE orders[o].status = "cancelled"
    <3>1. /\ orders'[o].reservation = orders[o].reservation
          /\ orders[o].reservation \in Attempts
          /\ reservations[orders[o].reservation].status = "released"
      BY <2>1 DEF OrdersInv, OrderBackedByReservation, CancelledOrderReleased, Placed
    <3> QED
      BY <3>1 DEF DecidedStay
  <2> QED
    BY <2>1
<1> QED
  BY <1>1, <1>2, <1>3 DEF OrdersInv

(* persistOrder commits only what was reserved. *)
LEMMA OrderRowsKeepOrdersInv ==
    ASSUME TInv, CallsInv, OrdersInv, CancelsPlaced, UNCHANGED reservations,
           NEW h \in Handlers, NEW o \in OrderIds,
           handler[h].pc = "reserve", handler[h].reply = "active", OrderRowsWritten(h, o),
           \A g \in Handlers \ {h} : handler'[g] = handler[g],
           handler'[h].pc # "cancelling"
    PROVE  OrdersInv'
<1> DEFINE att == handler[h].attempt
<1>1. /\ att \in Attempts
      /\ reservations[att].status \in {"active", "released"}
      /\ reservations[att].items = handler[h].granted
  BY DEF TInv, SlotsFilled, CallsInv, RepliesHold
<1>2. /\ ~Placed(o) /\ orders'[o].status = "created" /\ orders'[o].reservation = att
      /\ orders'[o].items = handler[h].granted
      /\ \A p \in OrderIds \ {o} : orders'[p] = orders[p]
  BY DEF OrderRowsWritten, TInv, Types, Placed
<1> HIDE DEF att
<1>3. CancelsAim'
  <2> SUFFICES ASSUME NEW g \in Handlers, handler'[g].pc = "cancelling"
               PROVE  orders'[handler'[g].order].reservation = handler'[g].attempt
    BY DEF CancelsAim
  <2>1. handler'[g] = handler[g]
    OBVIOUS
  <2>2. handler[g].order \in OrderIds \ {o}
    BY <1>2, <2>1 DEF TInv, SlotsFilled, CancelsPlaced
  <2> QED
    BY <1>2, <2>1, <2>2 DEF OrdersInv, CancelsAim
<1>4. OrderBackedByReservation'
  BY <1>1, <1>2 DEF OrdersInv, OrderBackedByReservation, Placed
<1>5. CancelledOrderReleased'
  BY <1>2 DEF OrdersInv, CancelledOrderReleased
<1> QED
  BY <1>3, <1>4, <1>5 DEF OrdersInv

LEMMA NextKeepsSagaInv ==
    ASSUME TInv, CancelsPlaced, CatalogInv, CallsInv, OrdersInv, [Next]_vars
    PROVE  CallsInv' /\ OrdersInv'
<1>0. /\ handler \in [Handlers -> HandlerState] /\ orders \in [OrderIds -> OrderRow]
      /\ DecidedStay
  BY NextKeepsCatalogInv DEF TInv, Types
(* Only slots that are not cancelling move. *)
<1>a. ASSUME UNCHANGED orders,
             \A h \in Handlers : handler'[h].pc = "cancelling" =>
                /\ handler[h].pc = "cancelling"
                /\ handler'[h].order = handler[h].order
                /\ handler'[h].attempt = handler[h].attempt
      PROVE  OrdersInv'
  BY <1>0, <1>a, OrdersKept DEF Placed
<1>1. CASE UNCHANGED vars
  BY <1>1, <1>a, QuietKeepsCallsInv DEF vars
<1>2. ASSUME NEW h \in Handlers,
             \/ \E k \in Keys, r \in Requests : StartCreate(h, k, r)
             \/ AcquireKeyLock(h)
             \/ \E att \in Attempts : PrepareNew(h, att)
             \/ PrepareResume(h) \/ SendReserve(h) \/ PersistFails(h)
      PROVE  CallsInv' /\ OrdersInv'
  <2>1. CallsInv'
    BY <1>2, MovesKeepCallsInv
  <2>2. /\ \A g \in Handlers \ {h} : handler'[g] = handler[g]
        /\ handler'[h].pc # "cancelling"
        /\ orders' = orders
    <3>1. CASE \E k \in Keys, r \in Requests : StartCreate(h, k, r)
      BY <1>0, <3>1 DEF StartCreate, Idle, orderVars
    <3>2. CASE AcquireKeyLock(h)
      BY <1>0, <3>2 DEF AcquireKeyLock, HandlerState, orderVars
    <3>3. CASE \E att \in Attempts : PrepareNew(h, att)
      BY <1>0, <3>3 DEF PrepareNew, HandlerState
    <3>4. CASE PrepareResume(h)
      BY <1>0, <3>4 DEF PrepareResume, HandlerState, orderVars
    <3>5. CASE SendReserve(h)
      BY <1>0, <3>5 DEF SendReserve, HandlerState, orderVars
    <3>6. CASE PersistFails(h)
      BY <3>6, StartCompensationEffect DEF PersistFails, orderVars
    <3> QED
      BY <1>2, <3>1, <3>2, <3>3, <3>4, <3>5, <3>6
  <2> QED
    BY <1>a, <2>1, <2>2
<1>3. ASSUME NEW h \in Handlers, NEW o \in OrderIds, BeginCancel(h, o)
      PROVE  CallsInv' /\ OrdersInv'
  <2>1. /\ orders' = orders
        /\ \A g \in Handlers \ {h} : handler'[g] = handler[g]
        /\ handler'[h].order = o /\ handler'[h].attempt = orders[o].reservation
    BY <1>0, <1>3 DEF BeginCancel, Idle, orderVars
  <2>2. OrdersInv'
    BY <1>0, <2>1, OrdersKept DEF Placed
  <2> QED
    BY <1>3, <2>2, MovesKeepCallsInv
<1>4. ASSUME NEW h \in Handlers,
             \/ PrepareReused(h) \/ PrepareReplay(h) \/ RefuseCart(h) \/ ReserveRefused(h)
             \/ CompensationDone(h) \/ CallFails(h) \/ Abort(h)
      PROVE  CallsInv' /\ OrdersInv'
  <2>1. EndRequest(h) /\ UNCHANGED <<orders, reservations>>
    BY <1>4 DEF PrepareReused, PrepareReplay, RefuseCart, ReserveRefused, CompensationDone,
                CallFails, Abort, orderVars, catalogVars
  <2>2. handler'[h].pc = "idle" /\ \A g \in Handlers \ {h} : handler'[g] = handler[g]
    BY <2>1, EndRequestLocks
  <2> QED
    BY <1>a, <2>1, <2>2, EndKeepsCallsInv
<1>5. ASSUME NEW h \in Handlers, NEW o \in OrderIds, PersistOrder(h, o) \/ PersistUnknown(h, o)
      PROVE  CallsInv' /\ OrdersInv'
  <2>1. /\ handler[h].pc = "reserve" /\ handler[h].reply = "active"
        /\ OrderRowsWritten(h, o) /\ UNCHANGED reservations
        /\ EndRequest(h) \/ StartCompensation(h)
    BY <1>5 DEF PersistOrder, PersistUnknown, catalogVars
  <2>2. handler'[h].pc # "cancelling" /\ \A g \in Handlers \ {h} : handler'[g] = handler[g]
    BY <2>1, EndRequestLocks, StartCompensationEffect
  <2>3. OrdersInv'
    BY <2>1, <2>2, OrderRowsKeepOrdersInv
  <2>4. CallsInv'
    BY <1>5, <2>1, EndKeepsCallsInv, MovesKeepCallsInv DEF PersistOrder
  <2> QED
    BY <2>3, <2>4
<1>6. ASSUME NEW h \in Handlers, CommitCancel(h) PROVE CallsInv' /\ OrdersInv'
  <2> DEFINE o == handler[h].order
  <2>1. /\ o \in OrderIds /\ Placed(o) /\ EndRequest(h) /\ UNCHANGED reservations
        /\ orders' = [orders EXCEPT ![o].status = "cancelled"]
        /\ handler[h].pc = "cancelling" /\ handler[h].reply = "ok"
    BY <1>6 DEF CommitCancel, CancelRowsWritten, CancelsPlaced, TInv, SlotsFilled, catalogVars
  <2>2. orders[o].reservation \in Attempts /\ reservations[orders[o].reservation].status = "released"
    <3>1. orders[o].reservation = handler[h].attempt
      BY <2>1 DEF OrdersInv, CancelsAim
    <3>2. reservations[handler[h].attempt].status \in {"failed", "released"}
      BY <2>1 DEF CallsInv, RepliesHold
    <3>3. /\ orders[o].reservation \in Attempts
          /\ reservations[orders[o].reservation].status \in {"active", "released"}
      BY <2>1 DEF OrdersInv, OrderBackedByReservation
    <3> QED
      BY <3>1, <3>2, <3>3
  <2> HIDE DEF o
  <2>3. /\ \A p \in OrderIds : /\ orders'[p].reservation = orders[p].reservation
                               /\ orders'[p].items = orders[p].items
        /\ \A p \in OrderIds \ {o} : orders'[p] = orders[p]
    BY <1>0, <2>1 DEF OrderRow
  <2>4. \A p \in OrderIds : Placed(p)' <=> Placed(p)
    BY <2>1, StatusChangeKeepsPlaced
  <2>5. handler'[h].pc = "idle" /\ \A g \in Handlers \ {h} : handler'[g] = handler[g]
    BY <2>1, EndRequestLocks
  <2>6. OrdersInv'
    BY <1>0, <2>1, <2>2, <2>3, <2>4, <2>5, OrdersKept
  <2> QED
    BY <2>1, <2>6, EndKeepsCallsInv
<1>7. ASSUME NEW o \in OrderIds, NEW target \in OrderStatus, Advance(o, target)
      PROVE  CallsInv' /\ OrdersInv'
  <2>1. /\ Placed(o) /\ target # "none" /\ target # "cancelled"
        /\ orders' = [orders EXCEPT ![o].status = target]
        /\ UNCHANGED <<handler, calls, reservations>>
    BY <1>7 DEF Advance, validTransition, Placed, catalogVars
  <2>2. /\ \A p \in OrderIds : /\ orders'[p].reservation = orders[p].reservation
                               /\ orders'[p].items = orders[p].items
        /\ \A p \in OrderIds : orders'[p].status = "cancelled" => orders[p].status = "cancelled"
    BY <1>0, <2>1 DEF OrderRow
  <2>3. \A p \in OrderIds : Placed(p)' <=> Placed(p)
    BY <2>1, StatusChangeKeepsPlaced
  <2>4. OrdersInv'
    BY <1>0, <2>1, <2>2, <2>3, OrdersKept
  <2> QED
    BY <2>1, <2>4, QuietKeepsCallsInv
<1>8. ASSUME NEW h \in Handlers, LoseSession(h) PROVE CallsInv' /\ OrdersInv'
  BY <1>8, <1>a, QuietKeepsCallsInv DEF LoseSession, orderVars, catalogVars
<1>9. ASSUME NEW version \in 1..MaxCartVersion, NEW items \in Baskets, ChangeCart(version, items)
      PROVE  CallsInv' /\ OrdersInv'
  BY <1>9, <1>a, QuietKeepsCallsInv DEF ChangeCart, orderVars, catalogVars
<1>10. CASE CatalogStep
  <2>1. /\ orders' = orders
        /\ handler' = handler \/ \E c \in calls : \E reply, items : Deliver(c, reply, items)
    BY <1>10 DEF CatalogStep, ServeReserve, ServeRelease, LoseCall, orderVars
  <2>2. \A h \in Handlers : /\ handler'[h].pc = handler[h].pc
                            /\ handler'[h].order = handler[h].order
                            /\ handler'[h].attempt = handler[h].attempt
    BY <1>0, <2>1, DeliverReaches
  <2> QED
    BY <1>10, <1>a, <2>1, <2>2, CatalogStepsKeepCallsInv
<1> QED
  BY <1>1, <1>2, <1>3, <1>4, <1>5, <1>6, <1>7, <1>8, <1>9, <1>10 DEF Next, HandlerStep

SagaInv == TInv /\ CancelsPlaced /\ CatalogInv /\ CallsInv /\ OrdersInv

LEMMA SagaInvariant == Spec => []SagaInv
<1>1. Init => CatalogInv /\ CallsInv /\ OrdersInv
  <2> SUFFICES ASSUME Init PROVE CatalogInv /\ CallsInv /\ OrdersInv
    OBVIOUS
  <2>1. CatalogInv
    BY DEF Init, CatalogInit, NoReservation, CatalogInv, AnswersFit, OneEventPerReservation
  <2>2. /\ calls = {} /\ \A h \in Handlers : handler[h].pc = "idle" /\ handler[h].reply = "none"
        /\ \A o \in OrderIds : orders[o].status = "none"
    BY DEF Init, Idle, NoOrderRow
  <2> QED
    BY <2>1, <2>2 DEF CallsInv, CallsMatch, RepliesHold, OrdersInv, CancelsAim,
                      OrderBackedByReservation, CancelledOrderReleased, Placed
<1>2. TInv /\ CancelsPlaced /\ SagaInv /\ [Next]_vars
         => (CatalogInv /\ CallsInv /\ OrdersInv)'
  BY NextKeepsCatalogInv, NextKeepsSagaInv DEF SagaInv
<1>3. SagaInv <=> TInv /\ CancelsPlaced /\ CatalogInv /\ CallsInv /\ OrdersInv
  BY DEF SagaInv
<1> QED
  BY <1>1, <1>2, <1>3, KeyInvariant, PTL DEF Spec

(* persistOrder and Reserve: across crashes, lost replies, attempts taken   *)
(* up again with another cart and compensations that run late, the          *)
(* reservation behind an order is one that was granted, for its very items. *)
THEOREM OrdersBacked == Spec => []OrderBackedByReservation
<1>1. SagaInv => OrderBackedByReservation
  BY DEF SagaInv, OrdersInv
<1> QED
  BY <1>1, SagaInvariant, PTL

(* Service.Cancel: no cancelled order still holds its stock. *)
THEOREM CancelledReleased == Spec => []CancelledOrderReleased
<1>1. SagaInv => CancelledOrderReleased
  BY DEF SagaInv, OrdersInv
<1> QED
  BY <1>1, SagaInvariant, PTL

-----------------------------------------------------------------------------
(* The outbox replays the status *)

(* Each event follows the one before it. *)
Chain(events) == \A i \in 1..(Len(events) - 1) : Follows(events[i], events[i + 1])

(* A chain with one more event. *)
LEMMA ChainGrows ==
    ASSUME NEW events \in Seq(OutboxRow), Len(events) > 0, Chain(events),
           NEW e \in OutboxRow, Follows(events[Len(events)], e)
    PROVE  /\ Append(events, e) \in Seq(OutboxRow) /\ Len(Append(events, e)) > 0
           /\ Chain(Append(events, e))
           /\ Append(events, e)[1] = events[1]
           /\ Append(events, e)[Len(Append(events, e))] = e
<1>1. PICK n \in Nat \ {0} : n = Len(events)
  OBVIOUS
<1>2. PICK more \in Seq(OutboxRow) : more = Append(events, e)
  <2>1. Append(events, e) \in Seq(OutboxRow)
    OBVIOUS
  <2>. QED
    BY <2>1
<1>3. /\ Len(more) = n + 1 /\ more[n + 1] = e /\ Len(more) > 0
      /\ \A i \in 1..n : more[i] = events[i]
  BY <1>1, <1>2
<1>4. ASSUME NEW i \in 1..n PROVE Follows(more[i], more[i + 1])
  <2>1. CASE i = n
    BY <1>1, <1>3, <2>1
  <2>2. CASE i # n
    BY <1>1, <1>3, <2>2 DEF Chain
  <2>. QED
    BY <2>1, <2>2
<1>. QED
  BY <1>1, <1>2, <1>3, <1>4 DEF Chain

(* The announcement of a move, as the transactions append it. *)
Announcement(from, to) ==
    IF to = "confirmed" THEN <<Event("order.confirmed", from, to), StatusChanged(from, to)>>
    ELSE IF to = "cancelled" THEN <<Event("order.cancelled", from, to), StatusChanged(from, to)>>
    ELSE <<StatusChanged(from, to)>>

(* Appending at once and one after the other. *)
LEMMA AppendedTogether ==
    ASSUME NEW events \in Seq(OutboxRow), NEW d \in OutboxRow, NEW e \in OutboxRow
    PROVE  /\ events \o <<d, e>> = Append(Append(events, d), e)
           /\ Append(events, d) \o <<e>> = Append(Append(events, d), e)
           /\ events \o <<e>> = Append(events, e)
OBVIOUS

LEMMA MoveAnnounced ==
    ASSUME NEW events \in Seq(OutboxRow), NEW from \in OrderStatus, NEW to \in OrderStatus,
           Replays(events, from), LegalMove(from, to)
    PROVE  Replays(events \o Announcement(from, to), to)
<1>. DEFINE change == StatusChanged(from, to)
<1>1. /\ change \in OutboxRow /\ ChangesStatus(change) /\ change.to = to /\ change.from = from
      /\ change.type = "order.status_changed"
  BY StatusEventTypes DEF StatusChanged, Event, ChangesStatus
<1>2. PICK last \in OutboxRow :
        last = events[Len(events)] /\ ChangesStatus(last) /\ last.to = from
  BY DEF Replays
<1>3. Len(events) > 0 /\ Chain(events) /\ events[1] = Event("order.created", "none", "created")
  BY DEF Replays, Chain
<1>. HIDE DEF change
<1>4. CASE to \notin {"confirmed", "cancelled"}
  <2>1. Follows(last, change)
    BY <1>1, <1>2, <1>4 DEF Follows
  <2>2. events \o Announcement(from, to) = Append(events, change)
    BY <1>1, <1>4, AppendedTogether DEF Announcement, change
  <2>. QED
    BY <1>1, <1>2, <1>3, <2>1, <2>2, ChainGrows DEF Replays, Chain
<1>5. CASE to \in {"confirmed", "cancelled"}
  <2>1. PICK type \in {"order.confirmed", "order.cancelled"} :
           type = IF to = "confirmed" THEN "order.confirmed" ELSE "order.cancelled"
    OBVIOUS
  <2>. DEFINE told == Event(type, from, to)
  <2>2. /\ told \in OutboxRow /\ told.type = type /\ told.from = from /\ told.to = to
        /\ ~ChangesStatus(told)
    BY <2>1, StatusEventTypes DEF Event, EventType, ChangesStatus
  <2>3. Announcement(from, to) = <<told, change>>
    BY <1>5, <2>1 DEF Announcement, change, told
  <2>. HIDE DEF told
  <2>4. events \o Announcement(from, to) = Append(Append(events, told), change)
    BY <1>1, <2>2, <2>3, AppendedTogether
  <2>5. Follows(last, told)
    BY <1>2, <1>5, <2>1, <2>2 DEF Follows
  <2>6. Follows(told, change)
    BY <2>2 DEF Follows, change
  <2>7. PICK more \in Seq(OutboxRow) :
           /\ more = Append(events, told) /\ Len(more) > 0 /\ Chain(more)
           /\ more[1] = events[1] /\ more[Len(more)] = told
    BY <1>2, <1>3, <2>2, <2>5, ChainGrows
  <2>. QED
    BY <1>1, <1>3, <2>4, <2>6, <2>7, ChainGrows DEF Replays, Chain
<1>. QED
  BY <1>4, <1>5

(* A cancellation holds the row it read until it ends, so the status it read *)
(* is still the order's.                                                   *)
CancelsHold ==
    \A h \in Handlers : handler[h].pc = "cancelling" =>
        /\ rowLock[handler[h].order] = h
        /\ canCancel(orders[handler[h].order].status)

OutboxOf(o) ==
    IF Placed(o) THEN Replays(outbox[o], orders[o].status) ELSE outbox[o] = << >>

OutboxInv == CancelsHold /\ \A o \in OrderIds : OutboxOf(o)

(* Slots other than cancelling ones may move while the rows stay. *)
LEMMA RowsStay ==
    ASSUME TInv, OutboxInv, UNCHANGED <<orders, outbox>>,
           \A h \in Handlers : handler'[h].pc = "cancelling" =>
              /\ handler[h].pc = "cancelling" /\ handler'[h].order = handler[h].order
              /\ rowLock'[handler[h].order] = h
    PROVE  OutboxInv'
BY DEF OutboxInv, CancelsHold, OutboxOf, Placed

(* The end of a request frees no lock of another one. *)
LEMMA EndKeepsRowLocks ==
    ASSUME TInv, NEW h \in Handlers, EndRequest(h)
    PROVE  /\ handler'[h].pc = "idle"
           /\ \A g \in Handlers \ {h} : handler'[g] = handler[g]
           /\ \A o \in OrderIds, g \in Handlers \ {h} : rowLock[o] = g => rowLock'[o] = g
BY DEF TInv, Types, EndRequest, ReleaseLocks, Idle

(* A request that ends, or goes on to compensate, and one order's row and   *)
(* outbox change while nobody else holds the row.                           *)
LEMMA RowMoves ==
    ASSUME TInv, OutboxInv, NEW o \in OrderIds, OutboxOf(o)',
           \A p \in OrderIds \ {o} : orders'[p] = orders[p] /\ outbox'[p] = outbox[p],
           \A h \in Handlers : handler'[h].pc = "cancelling" =>
              /\ handler[h].pc = "cancelling" /\ handler'[h].order = handler[h].order
              /\ rowLock'[handler[h].order] = h
              /\ handler[h].order # o
    PROVE  OutboxInv'
<1>1. CancelsHold'
  <2>1. ASSUME NEW h \in Handlers, handler'[h].pc = "cancelling"
        PROVE  /\ rowLock'[handler'[h].order] = h
               /\ canCancel(orders'[handler'[h].order].status)
    <3>1. handler[h].order \in OrderIds \ {o} /\ canCancel(orders[handler[h].order].status)
      BY <2>1 DEF TInv, SlotsFilled, OutboxInv, CancelsHold
    <3>. QED
      BY <2>1, <3>1
  <2>. QED
    BY <2>1 DEF CancelsHold
<1>2. \A p \in OrderIds \ {o} : OutboxOf(p)'
  BY DEF OutboxInv, OutboxOf, Placed
<1>. QED
  BY <1>1, <1>2 DEF OutboxInv

(* A move of a placed order, with its announcement. *)
LEMMA MoveReplays ==
    ASSUME TInv, OutboxInv, NEW o \in OrderIds, Placed(o), NEW to \in OrderStatus,
           LegalMove(orders[o].status, to),
           orders' = [orders EXCEPT ![o].status = to],
           outbox' = [outbox EXCEPT ![o] = @ \o Announcement(orders[o].status, to)]
    PROVE  /\ OutboxOf(o)'
           /\ \A p \in OrderIds \ {o} : orders'[p] = orders[p] /\ outbox'[p] = outbox[p]
<1>1. /\ orders \in [OrderIds -> OrderRow] /\ outbox \in [OrderIds -> Seq(OutboxRow)]
  BY DEF TInv, Types
<1>2. PICK from \in OrderStatus, events \in Seq(OutboxRow) :
        from = orders[o].status /\ events = outbox[o]
  BY <1>1 DEF OrderRow, Placed
<1>3. Replays(events \o Announcement(from, to), to)
  <2>1. Replays(events, from)
    BY <1>2 DEF OutboxInv, OutboxOf
  <2>. QED
    BY <1>2, <2>1, MoveAnnounced
<1>4. /\ orders'[o].status = to /\ outbox'[o] = events \o Announcement(from, to)
  BY <1>1, <1>2 DEF OrderRow
<1>5. to # "none"
  BY DEF OrderStatus
<1>6. PICK said : said = outbox'[o]
  OBVIOUS
<1>7. Replays(said, to)
  BY <1>3, <1>4, <1>6
<1>8. OutboxOf(o)'
  BY <1>4, <1>5, <1>6, <1>7 DEF OutboxOf, Placed, Replays
<1>. QED
  BY <1>1, <1>8

(* The creation of an order is the first event of its outbox. *)
LEMMA CreationReplays ==
    ASSUME TInv, OutboxInv, NEW h \in Handlers, NEW o \in OrderIds, OrderRowsWritten(h, o)
    PROVE  /\ OutboxOf(o)' /\ ~Placed(o)
           /\ \A p \in OrderIds \ {o} : orders'[p] = orders[p] /\ outbox'[p] = outbox[p]
<1>1. /\ orders \in [OrderIds -> OrderRow] /\ outbox \in [OrderIds -> Seq(OutboxRow)]
  BY DEF TInv, Types
<1>2. ~Placed(o) /\ outbox[o] = << >>
  BY DEF OrderRowsWritten, Placed, OutboxInv, OutboxOf
<1>. DEFINE first == Event("order.created", "none", "created")
<1>3. first.to = "created" /\ ChangesStatus(first)
  BY DEF Event, ChangesStatus
<1>. HIDE DEF first
<1>4. outbox'[o] = <<first>> /\ orders'[o].status = "created"
  BY <1>1, <1>2 DEF OrderRowsWritten, first
<1>5. Replays(<<first>>, "created")
  BY <1>3 DEF Replays, first
<1>6. PICK said : said = outbox'[o] /\ Replays(said, "created")
  BY <1>4, <1>5
<1>7. OutboxOf(o)'
  BY <1>4, <1>6 DEF OutboxOf, Placed, Replays
<1>. QED
  BY <1>1, <1>2, <1>7 DEF OrderRowsWritten

LEMMA NextKeepsOutboxInv ==
    ASSUME TInv, CancelsPlaced, OutboxInv, [Next]_vars
    PROVE  OutboxInv'
<1>0. /\ handler \in [Handlers -> HandlerState] /\ orders \in [OrderIds -> OrderRow]
      /\ rowLock \in [OrderIds -> Handlers \cup {NoHandler}]
      /\ \A h \in Handlers : handler[h].pc = "cancelling" =>
            handler[h].order \in OrderIds /\ rowLock[handler[h].order] = h
  BY DEF TInv, Types, SlotsFilled, OutboxInv, CancelsHold
<1>1. CASE UNCHANGED vars
  BY <1>0, <1>1, RowsStay DEF vars
<1>2. ASSUME NEW h \in Handlers,
             \/ \E k \in Keys, r \in Requests : StartCreate(h, k, r)
             \/ AcquireKeyLock(h)
             \/ \E att \in Attempts : PrepareNew(h, att)
             \/ PrepareResume(h) \/ SendReserve(h) \/ PersistFails(h) \/ LoseSession(h)
      PROVE  OutboxInv'
  <2>1. /\ \A g \in Handlers \ {h} : handler'[g] = handler[g]
        /\ handler'[h].pc # "cancelling"
        /\ UNCHANGED <<orders, outbox, rowLock>>
    <3>1. CASE \E k \in Keys, r \in Requests : StartCreate(h, k, r)
      BY <1>0, <3>1 DEF StartCreate, Idle, orderVars, lockVars
    <3>2. CASE AcquireKeyLock(h)
      BY <1>0, <3>2 DEF AcquireKeyLock, HandlerState, orderVars
    <3>3. CASE \E att \in Attempts : PrepareNew(h, att)
      BY <1>0, <3>3 DEF PrepareNew, HandlerState, lockVars
    <3>4. CASE PrepareResume(h)
      BY <1>0, <3>4 DEF PrepareResume, HandlerState, orderVars, lockVars
    <3>5. CASE SendReserve(h)
      BY <1>0, <3>5 DEF SendReserve, HandlerState, orderVars, lockVars
    <3>6. CASE PersistFails(h)
      BY <3>6, StartCompensationEffect DEF PersistFails, StartCompensation, orderVars
    <3>7. CASE LoseSession(h)
      BY <1>0, <3>7 DEF LoseSession, HandlerState, orderVars
    <3>. QED
      BY <1>2, <3>1, <3>2, <3>3, <3>4, <3>5, <3>6, <3>7
  <2>. QED
    BY <1>0, <2>1, RowsStay
<1>3. ASSUME NEW h \in Handlers, NEW o \in OrderIds, BeginCancel(h, o) PROVE OutboxInv'
  <2>1. /\ UNCHANGED <<orders, outbox>>
        /\ \A g \in Handlers \ {h} : handler'[g] = handler[g]
        /\ handler'[h].order = o /\ canCancel(orders[o].status)
        /\ rowLock[o] = NoHandler /\ rowLock' = [rowLock EXCEPT ![o] = h]
    BY <1>0, <1>3 DEF BeginCancel, Idle, orderVars
  <2>2. ASSUME NEW g \in Handlers, handler'[g].pc = "cancelling"
        PROVE  /\ rowLock'[handler'[g].order] = g
               /\ canCancel(orders'[handler'[g].order].status)
    <3>1. CASE g = h
      BY <1>0, <2>1, <3>1
    <3>2. CASE g # h
      <4>1. /\ handler'[g] = handler[g] /\ handler[g].order \in OrderIds
            /\ rowLock[handler[g].order] = g /\ canCancel(orders[handler[g].order].status)
        BY <1>0, <2>1, <2>2, <3>2 DEF OutboxInv, CancelsHold
      <4>2. handler[g].order # o
        BY <2>1, <4>1, CheckoutAssumption
      <4>. QED
        BY <1>0, <2>1, <4>1, <4>2
    <3>. QED
      BY <3>1, <3>2
  <2>3. \A p \in OrderIds : OutboxOf(p)'
    BY <2>1 DEF OutboxInv, OutboxOf, Placed
  <2>. QED
    BY <2>2, <2>3 DEF OutboxInv, CancelsHold
<1>4. ASSUME NEW h \in Handlers,
             \/ PrepareReused(h) \/ PrepareReplay(h) \/ RefuseCart(h) \/ ReserveRefused(h)
             \/ CompensationDone(h) \/ CallFails(h) \/ Abort(h)
      PROVE  OutboxInv'
  <2>1. EndRequest(h) /\ UNCHANGED <<orders, outbox>>
    BY <1>4 DEF PrepareReused, PrepareReplay, RefuseCart, ReserveRefused, CompensationDone,
                CallFails, Abort, orderVars
  <2>. QED
    BY <1>0, <2>1, EndKeepsRowLocks, RowsStay
<1>5. ASSUME NEW h \in Handlers, NEW o \in OrderIds, PersistOrder(h, o) \/ PersistUnknown(h, o)
      PROVE  OutboxInv'
  <2>1. /\ handler[h].pc = "reserve" /\ OrderRowsWritten(h, o)
        /\ EndRequest(h) \/ StartCompensation(h)
    BY <1>5 DEF PersistOrder, PersistUnknown
  <2>2. /\ handler'[h].pc # "cancelling" /\ \A g \in Handlers \ {h} : handler'[g] = handler[g]
    BY <2>1, EndKeepsRowLocks, StartCompensationEffect
  <2>3. \A p \in OrderIds, g \in Handlers \ {h} : rowLock[p] = g => rowLock'[p] = g
    BY <2>1, EndKeepsRowLocks DEF StartCompensation
  <2>4. \A g \in Handlers : handler[g].pc = "cancelling" => handler[g].order # o
    BY <2>1, CreationReplays DEF CancelsPlaced
  <2>. QED
    BY <1>0, <2>1, <2>2, <2>3, <2>4, CreationReplays, RowMoves
<1>6. ASSUME NEW h \in Handlers, CommitCancel(h) PROVE OutboxInv'
  <2>0. PICK o \in OrderIds : o = handler[h].order
    BY <1>0, <1>6 DEF CommitCancel
  <2>1. /\ Placed(o) /\ EndRequest(h)
        /\ handler[h].pc = "cancelling" /\ rowLock[o] = h /\ canCancel(orders[o].status)
        /\ orders' = [orders EXCEPT ![o].status = "cancelled"]
        /\ outbox' = [outbox EXCEPT ![o] = @ \o <<Event("order.cancelled", orders[o].status, "cancelled"),
                                                  StatusChanged(orders[o].status, "cancelled")>>]
    BY <1>0, <1>6, <2>0 DEF CommitCancel, CancelRowsWritten, CancelsPlaced, OutboxInv, CancelsHold
  <2>2. Announcement(orders[o].status, "cancelled")
          = <<Event("order.cancelled", orders[o].status, "cancelled"),
              StatusChanged(orders[o].status, "cancelled")>>
    BY DEF Announcement
  <2>3. LegalMove(orders[o].status, "cancelled") /\ "cancelled" \in OrderStatus
    BY <2>1 DEF LegalMove, OrderStatus
  <2>4. /\ OutboxOf(o)'
        /\ \A p \in OrderIds \ {o} : orders'[p] = orders[p] /\ outbox'[p] = outbox[p]
    BY <2>1, <2>2, <2>3, MoveReplays
  <2>. QED
    <3>1. /\ handler'[h].pc # "cancelling" /\ \A g \in Handlers \ {h} : handler'[g] = handler[g]
          /\ \A p \in OrderIds, g \in Handlers \ {h} : rowLock[p] = g => rowLock'[p] = g
      BY <1>0, <2>1, EndKeepsRowLocks
    <3>2. \A g \in Handlers \ {h} : handler[g].pc = "cancelling" => handler[g].order # o
      BY <1>0, <2>1 DEF OutboxInv, CancelsHold
    <3> QED
      BY <1>0, <2>4, <3>1, <3>2, RowMoves
<1>7. ASSUME NEW o \in OrderIds, NEW target \in OrderStatus, Advance(o, target) PROVE OutboxInv'
  <2>1. /\ Placed(o) /\ rowLock[o] = NoHandler /\ validTransition(orders[o].status, target)
        /\ orders' = [orders EXCEPT ![o].status = target]
        /\ UNCHANGED <<handler, rowLock>>
    BY <1>7 DEF Advance, validTransition, Placed, lockVars
  <2>2. outbox' = [outbox EXCEPT ![o] = @ \o Announcement(orders[o].status, target)]
    <3>1. outbox \in [OrderIds -> Seq(OutboxRow)]
      BY DEF TInv, Types
    <3>2. PICK events \in Seq(OutboxRow) : events = outbox[o]
      BY <3>1
    <3>3. target # "cancelled" /\ (target = "confirmed" => orders[o].status = "created")
      BY <2>1 DEF validTransition
    <3>4. (IF target = "confirmed"
           THEN Append(events, Event("order.confirmed", "created", "confirmed")) ELSE events)
             \o <<StatusChanged(orders[o].status, target)>>
          = events \o Announcement(orders[o].status, target)
      <4>1. /\ StatusChanged(orders[o].status, target) \in OutboxRow
            /\ Event("order.confirmed", "created", "confirmed") \in OutboxRow
        BY <1>0, StatusEventTypes DEF OrderRow, EventType, OrderStatus
      <4>2. CASE target = "confirmed"
        BY <3>3, <4>1, <4>2, AppendedTogether DEF Announcement
      <4>3. CASE target # "confirmed"
        BY <3>3, <4>3 DEF Announcement
      <4>. QED
        BY <4>2, <4>3
    <3>. QED
      BY <1>7, <3>1, <3>2, <3>4 DEF Advance
  <2>3. /\ OutboxOf(o)'
        /\ \A p \in OrderIds \ {o} : orders'[p] = orders[p] /\ outbox'[p] = outbox[p]
    BY <2>1, <2>2, MoveReplays DEF LegalMove
  <2>4. \A h \in Handlers : handler[h].pc = "cancelling" => handler[h].order # o
    BY <1>0, <2>1, CheckoutAssumption
  <2>. QED
    BY <1>0, <2>1, <2>3, <2>4, RowMoves
<1>8. ASSUME NEW version \in 1..MaxCartVersion, NEW items \in Baskets, ChangeCart(version, items)
      PROVE  OutboxInv'
  BY <1>0, <1>8, RowsStay DEF ChangeCart, orderVars, lockVars
<1>9. CASE CatalogStep
  <2>1. /\ UNCHANGED <<orders, outbox, rowLock>>
        /\ handler' = handler \/ \E c \in calls : \E reply, items : Deliver(c, reply, items)
    BY <1>9 DEF CatalogStep, ServeReserve, ServeRelease, LoseCall, orderVars, lockVars
  <2>2. \A h \in Handlers : /\ handler'[h].pc = handler[h].pc
                            /\ handler'[h].order = handler[h].order
    BY <1>0, <2>1, DeliverReaches
  <2>. QED
    BY <1>0, <2>1, <2>2, RowsStay
<1>. QED
  BY <1>1, <1>2, <1>3, <1>4, <1>5, <1>6, <1>7, <1>8, <1>9 DEF Next, HandlerStep

(* Create, Cancel and EventConsumer.handle: whatever races with the release *)
(* that Cancel waits for, what an order announced is the legal history of   *)
(* its status, with no step missing, repeated or out of order.              *)
THEOREM HistoryAnnounced == Spec => []OutboxReplaysStatus
<1>1. Init => OutboxInv
  <2>. SUFFICES ASSUME Init PROVE OutboxInv
    OBVIOUS
  <2>1. /\ \A h \in Handlers : handler[h].pc = "idle"
        /\ \A o \in OrderIds : orders[o].status = "none" /\ outbox[o] = << >>
    BY DEF Init, Idle, NoOrderRow
  <2>. QED
    BY <2>1 DEF OutboxInv, CancelsHold, OutboxOf, Placed
<1>2. TInv /\ CancelsPlaced /\ OutboxInv /\ [Next]_vars => OutboxInv'
  BY NextKeepsOutboxInv
<1>3. OutboxInv => OutboxReplaysStatus
  BY DEF OutboxInv, OutboxOf, OutboxReplaysStatus
<1>. QED
  BY <1>1, <1>2, <1>3, KeyInvariant, PTL DEF Spec
=============================================================================
