------------------------------ MODULE Catalog ------------------------------
(***************************************************************************)
(* catalog-service: product stock and durable reservations.                *)
(*                                                                         *)
(* Store.Reserve and Store.Release each run in one PostgreSQL transaction  *)
(* that holds an advisory lock on the checkout attempt and row locks on    *)
(* the products (Reserve) or a row lock on the reservation (Release), so   *)
(* each is one atomic step here.  checkout_attempt_id is UNIQUE in         *)
(* catalog.inventory_reservations; a reservation is therefore named by its *)
(* attempt.  A basket maps every product to the quantity asked for, 0 for  *)
(* a product that is not in the cart.                                      *)
(***************************************************************************)
EXTENDS Integers, Sequences, FiniteSetsExt

CONSTANTS
    Attempts,        \* checkout attempt ids (UUIDs minted by order-service)
    Products,        \* rows of catalog.products
    ActiveProducts,  \* the rows with active = true; no code path changes it
    InitialStock,    \* available_quantity before any checkout
    Baskets          \* the item lists a checkout may ask for

ASSUME CatalogAssumption ==
    /\ ActiveProducts \subseteq Products
    /\ InitialStock \in [Products -> Nat]
    /\ Baskets \subseteq [Products -> Nat]

VARIABLES
    available,       \* products.available_quantity
    reservations,    \* inventory_reservations and their items, by attempt
    catalogOutbox    \* catalog.outbox: the event types written per reservation

catalogVars == <<available, reservations, catalogOutbox>>

EmptyBasket == [p \in Products |-> 0]

(* "none" stands for the absence of the row.  "consumed", the fourth value  *)
(* the schema admits, is never written by any code.                        *)
ReservationStatus == {"none", "active", "failed", "released"}

(* What Reserve answers, and stores in the response column. *)
ResponseStatus == {"none", "active", "failed"}

NoReservation == [status |-> "none", items |-> EmptyBasket, response |-> "none"]

InventoryEvent == {"inventory.reserved", "inventory.reservation_failed"}

CatalogInit ==
    /\ available = InitialStock
    /\ reservations = [a \in Attempts |-> NoReservation]
    /\ catalogOutbox = [a \in Attempts |-> << >>]

(***************************************************************************)
(* Reserve                                                                 *)
(***************************************************************************)

(* Mutation: the stock comparison is off by one. *)
ShortagesOffByOne(items) ==
    {p \in Products : items[p] > 0 /\ (p \notin ActiveProducts \/ available[p] < items[p] - 1)}

(* A wanted product that is inactive or short makes the whole basket fail. *)
Shortages(items) ==
    {p \in Products : items[p] > 0 /\ (p \notin ActiveProducts \/ available[p] < items[p])}

(* Mutation: the stored response is not looked up, so a retry reserves again. *)
ReserveActiveWithoutLookup(att, items) ==
    /\ Shortages(items) = {}
    /\ available' = [p \in Products |-> available[p] - items[p]]
    /\ reservations' = [reservations EXCEPT ![att] =
                          [status |-> "active", items |-> items, response |-> "active"]]
    /\ catalogOutbox' = [catalogOutbox EXCEPT ![att] = Append(@, "inventory.reserved")]

(* The basket fits: stock is taken, the reservation and its event written. *)
ReserveActive(att, items) ==
    /\ reservations[att].status = "none"
    /\ Shortages(items) = {}
    /\ available' = [p \in Products |-> available[p] - items[p]]
    /\ reservations' = [reservations EXCEPT ![att] =
                          [status |-> "active", items |-> items, response |-> "active"]]
    /\ catalogOutbox' = [catalogOutbox EXCEPT ![att] = Append(@, "inventory.reserved")]

(* A shortage: nothing is taken, yet the failed attempt is stored for good. *)
ReserveFailed(att, items) ==
    /\ reservations[att].status = "none"
    /\ Shortages(items) # {}
    /\ reservations' = [reservations EXCEPT ![att] =
                          [status |-> "failed", items |-> EmptyBasket, response |-> "failed"]]
    /\ catalogOutbox' = [catalogOutbox EXCEPT ![att] = Append(@, "inventory.reservation_failed")]
    /\ UNCHANGED available

(* Mutation: the upsert of a retry makes the reservation active again. *)
ReserveReplayRevives(att, items) ==
    /\ reservations[att].response = "active"
    /\ reservations' = [reservations EXCEPT ![att].status = "active"]
    /\ UNCHANGED <<available, catalogOutbox>>

(* A known attempt: the response stored the first time is returned as it    *)
(* was, whatever has become of the reservation since.                      *)
ReserveReplay(att, items) ==
    /\ reservations[att].status # "none"
    /\ UNCHANGED catalogVars

Reserve(att, items) ==
    \/ ReserveActive(att, items)
    \/ ReserveFailed(att, items)
    \/ ReserveReplay(att, items)

(* The status the caller is told, read before the step. *)
ReserveResponse(att, items) ==
    IF reservations[att].status # "none" THEN reservations[att].response
    ELSE IF Shortages(items) = {} THEN "active" ELSE "failed"

(* Mutation: the items answered are those of the request, also to a retry. *)
GrantedItemsOfRequest(att, items) == IF Shortages(items) = {} THEN items ELSE EmptyBasket

(* The items the caller is told, read before the step: a retry hears those  *)
(* of the first call, whatever it asks for itself.                         *)
GrantedItems(att, items) ==
    IF reservations[att].status # "none" THEN reservations[att].items
    ELSE IF Shortages(items) = {} THEN items ELSE EmptyBasket

(***************************************************************************)
(* Release                                                                 *)
(***************************************************************************)

(* Mutation: the status is not tested, so a repeated release restores twice. *)
ReleaseActiveTwice(att) ==
    /\ reservations[att].status \in {"active", "released"}
    /\ available' = [p \in Products |-> available[p] + reservations[att].items[p]]
    /\ reservations' = [reservations EXCEPT ![att].status = "released"]
    /\ UNCHANGED catalogOutbox

(* An active reservation gives its items back.  No event is written. *)
ReleaseActive(att) ==
    /\ reservations[att].status = "active"
    /\ available' = [p \in Products |-> available[p] + reservations[att].items[p]]
    /\ reservations' = [reservations EXCEPT ![att].status = "released"]
    /\ UNCHANGED catalogOutbox

(* Failed and already released reservations are left as they are. *)
ReleaseNoop(att) ==
    /\ reservations[att].status \in {"failed", "released"}
    /\ UNCHANGED catalogVars

Release(att) == ReleaseActive(att) \/ ReleaseNoop(att)

(***************************************************************************)
(* Properties                                                              *)
(***************************************************************************)

(* Types of the catalog tables.  available \in Nat is also the CHECK        *)
(* constraint of the schema: Reserve never oversells a product.            *)
CatalogTypeOK ==
    /\ available \in [Products -> Nat]
    /\ reservations \in [Attempts -> [status : ReservationStatus,
                                      items : [Products -> Nat],
                                      response : ResponseStatus]]
    /\ catalogOutbox \in [Attempts -> Seq(InventoryEvent)]

(* What active reservations hold of product p. *)
HeldBy(p) ==
    MapThenSumSet(LAMBDA a : reservations[a].items[p],
                  {a \in Attempts : reservations[a].status = "active"})

(* Store.Reserve and Store.Release: however reservations, refusals, retries *)
(* and repeated releases interleave, every unit of stock is either on the   *)
(* shelf or in exactly one active reservation.                             *)
StockConserved ==
    \A p \in Products : available[p] + HeldBy(p) = InitialStock[p]

(* Store.Reserve: each reservation row has exactly one outbox event, of the *)
(* type its stored response says, and a release adds none; a retry of       *)
(* Reserve never announces the attempt a second time.                       *)
OneEventPerReservation ==
    \A a \in Attempts :
        /\ reservations[a].response = "none"   => catalogOutbox[a] = << >>
        /\ reservations[a].response = "active" => catalogOutbox[a] = <<"inventory.reserved">>
        /\ reservations[a].response = "failed" => catalogOutbox[a] = <<"inventory.reservation_failed">>

(* Store.Reserve returns the stored response to every retry and Release     *)
(* tests the status: once an attempt is decided its items and response are  *)
(* never rewritten, its status moves only from active to released, and no   *)
(* later call revives a released or failed reservation.                     *)
ReservationDecidedOnce ==
    [][\A a \in Attempts : reservations[a].status # "none" =>
          /\ reservations'[a].items = reservations[a].items
          /\ reservations'[a].response = reservations[a].response
          /\ reservations'[a].status # reservations[a].status =>
                reservations[a].status = "active" /\ reservations'[a].status = "released"
      ]_catalogVars

(* Reserve is all or nothing: a step that takes stock takes exactly the     *)
(* items of the one reservation it makes active, and a step that gives      *)
(* stock back gives exactly the items of the one it releases.               *)
StockMovesWithOneReservation ==
    [][available' # available =>
          \E a \in Attempts :
              /\ \A b \in Attempts \ {a} : reservations'[b] = reservations[b]
              /\ \/ /\ reservations[a].status = "none" /\ reservations'[a].status = "active"
                    /\ \A p \in Products : available'[p] = available[p] - reservations'[a].items[p]
                 \/ /\ reservations[a].status = "active" /\ reservations'[a].status = "released"
                    /\ \A p \in Products : available'[p] = available[p] + reservations[a].items[p]
      ]_catalogVars
=============================================================================
