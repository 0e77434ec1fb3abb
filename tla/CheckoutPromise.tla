-------------------------- MODULE CheckoutPromise --------------------------
(***************************************************************************)
(* What POST /api/v1/orders promises a client that retries: an             *)
(* Idempotency-Key places at most one order, ever, and every successful    *)
(* answer given for the key names that order.  No locks, tables, calls or  *)
(* failures: those are Checkout, which implements this.                    *)
(***************************************************************************)
CONSTANTS Keys, OrderIds

VARIABLES
    placed,    \* per key, the orders placed for it
    answers    \* the successful answers given so far, as <<key, order>>

promiseVars == <<placed, answers>>

PromiseInit ==
    /\ placed = [k \in Keys |-> {}]
    /\ answers = {}

(* The first successful attempt places the order.  The client may not hear  *)
(* of it (the connection breaks, the process dies).                        *)
Place(k, o) ==
    /\ placed[k] = {}
    /\ \A j \in Keys : o \notin placed[j]
    /\ placed' = [placed EXCEPT ![k] = {o}]
    /\ \/ answers' = answers
       \/ answers' = answers \cup {<<k, o>>}

(* A retry is told of the order already placed for its key. *)
Answer(k, o) ==
    /\ o \in placed[k]
    /\ answers' = answers \cup {<<k, o>>}
    /\ UNCHANGED placed

PromiseNext == \E k \in Keys, o \in OrderIds : Place(k, o) \/ Answer(k, o)

PromiseSpec == PromiseInit /\ [][PromiseNext]_promiseVars
=============================================================================
