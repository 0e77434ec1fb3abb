-------------------------------- MODULE Cart --------------------------------
(***************************************************************************)
(* cart-service: the versioned cart of one user in PostgreSQL, with a      *)
(* copy in Redis that reads fill and mutations delete.                     *)
(*                                                                         *)
(* A session is one HTTP request.  A mutation that changes something holds *)
(* the row lock of the cart, so it is one step up to its commit.  A read   *)
(* (and a deletion that finds nothing to delete) takes two statements, the *)
(* version and then the items, each with a snapshot of its own.            *)
(***************************************************************************)
EXTENDS Integers, Sequences

CONSTANTS
    Products,
    Quantities,    \* quantities a client may set (1 to 99 in the code)
    Sessions,      \* request slots
    NoCart,
    MaxVersion     \* bound on mutations

ASSUME CartAssumption ==
    /\ Quantities \subseteq Nat \ {0}
    /\ MaxVersion \in Nat

VARIABLES
    version,       \* cart.carts.version, 0 while there is no row
    items,         \* cart.cart_items: quantity per product, 0 when absent
    cache,         \* Redis: NoCart or a cart
    session,       \* the requests being served
    versions,      \* history: versions[v] are the items of version v
    answered       \* history: the carts that Get answered

dbVars == <<version, items, versions>>
vars == <<version, items, cache, session, versions, answered>>

Contents == [Products -> Quantities \cup {0}]
NoItems == [p \in Products |-> 0]
CartValue == [version : 0..MaxVersion, items : Contents]
Snapshot == [version |-> version, items |-> items]
Idle == [pc |-> "idle", then |-> "fill", version |-> 0, items |-> NoItems]

Init ==
    /\ version = 0
    /\ items = NoItems
    /\ cache = NoCart
    /\ session = [s \in Sessions |-> Idle]
    /\ versions = << >>
    /\ answered = {}

Goto(s, pc) == session' = [session EXCEPT ![s].pc = pc]

(***************************************************************************)
(* Store.Get                                                               *)
(***************************************************************************)
GetCached(s) ==
    /\ session[s].pc = "idle"
    /\ cache # NoCart
    /\ answered' = answered \cup {cache}
    /\ UNCHANGED <<dbVars, cache, session>>

(* Nothing in Redis, or Redis does not answer. *)
GetMisses(s) ==
    /\ session[s].pc = "idle"
    /\ session' = [session EXCEPT ![s] = [Idle EXCEPT !.pc = "version"]]
    /\ UNCHANGED <<dbVars, cache, answered>>

(* Mutation: the items are read first. *)
ReadVersionLast(s) ==
    \/ /\ session[s].pc = "version"
       /\ session' = [session EXCEPT ![s] = [@ EXCEPT !.pc = "items", !.items = items]]
       /\ UNCHANGED <<dbVars, cache, answered>>
    \/ /\ session[s].pc = "items"
       /\ session' = [session EXCEPT ![s] = [@ EXCEPT !.pc = session[s].then, !.version = version]]
       /\ UNCHANGED <<dbVars, cache, answered>>

(* getCart, the version; without a row the cart is empty. *)
ReadVersion(s) ==
    /\ session[s].pc = "version"
    /\ session' = [session EXCEPT ![s] = [@ EXCEPT !.pc = IF version = 0 THEN session[s].then ELSE "items",
                                                   !.version = version]]
    /\ UNCHANGED <<dbVars, cache, answered>>

(* getCart, the items. *)
ReadItems(s) ==
    /\ session[s].pc = "items"
    /\ session' = [session EXCEPT ![s] = [@ EXCEPT !.pc = session[s].then, !.items = items]]
    /\ UNCHANGED <<dbVars, cache, answered>>

ValueOf(s) == [version |-> session[s].version, items |-> session[s].items]

(* The value is written to Redis, an error ignored, and answered. *)
FillCache(s) ==
    /\ session[s].pc = "fill"
    /\ cache' \in {cache, ValueOf(s)}
    /\ answered' = answered \cup {ValueOf(s)}
    /\ Goto(s, "idle")
    /\ UNCHANGED dbVars

(***************************************************************************)
(* Store.SetItem and Store.DeleteItem                                      *)
(***************************************************************************)
Change(s, p, q) ==
    /\ session[s].pc = "idle"
    /\ version < MaxVersion
    /\ version' = version + 1
    /\ items' = [items EXCEPT ![p] = q]
    /\ versions' = Append(versions, items')
    /\ session' = [session EXCEPT ![s] = [Idle EXCEPT !.pc = "invalidate"]]
    /\ UNCHANGED <<cache, answered>>

SetItem(s, p, q) == q \in Quantities /\ Change(s, p, q)

(* Mutation: the version is not raised. *)
DeleteItemUnversioned(s, p) ==
    /\ session[s].pc = "idle" /\ items[p] # 0
    /\ items' = [items EXCEPT ![p] = 0]
    /\ versions' = Append(versions, items')
    /\ session' = [session EXCEPT ![s] = [Idle EXCEPT !.pc = "invalidate"]]
    /\ UNCHANGED <<version, cache, answered>>

DeleteItem(s, p) == items[p] # 0 /\ Change(s, p, 0)

(* Nothing to delete: the version stays, and the cart is read unlocked. *)
DeleteAbsent(s, p) ==
    /\ session[s].pc = "idle"
    /\ items[p] = 0
    /\ session' = [session EXCEPT ![s] = [Idle EXCEPT !.pc = "version", !.then = "invalidate"]]
    /\ UNCHANGED <<dbVars, cache, answered>>

(* After the commit the copy in Redis is deleted, an error ignored. *)
Invalidate(s) ==
    /\ session[s].pc = "invalidate"
    /\ cache' \in {cache, NoCart}
    /\ Goto(s, "idle")
    /\ UNCHANGED <<dbVars, answered>>

(***************************************************************************)
(* The rest                                                                *)
(***************************************************************************)

(* The process dies, PostgreSQL fails, or the client hangs up. *)
Abort(s) ==
    /\ session[s].pc # "idle"
    /\ Goto(s, "idle")
    /\ UNCHANGED <<dbVars, cache, answered>>

(* Mutation: the copy is stored without a TTL. *)
ExpireNever == cache # NoCart /\ cache' = NoCart /\ FALSE /\ UNCHANGED <<dbVars, session, answered>>

(* The TTL of the copy, or Redis losing it. *)
Expire ==
    /\ cache # NoCart
    /\ cache' = NoCart
    /\ UNCHANGED <<dbVars, session, answered>>

SessionStep(s) == ReadVersion(s) \/ ReadItems(s) \/ FillCache(s) \/ Invalidate(s)

Next ==
    \/ \E s \in Sessions :
          \/ GetCached(s) \/ GetMisses(s)
          \/ \E p \in Products :
                (\E q \in Quantities : SetItem(s, p, q)) \/ DeleteItem(s, p) \/ DeleteAbsent(s, p)
          \/ SessionStep(s)
          \/ Abort(s)
    \/ Expire

Spec == Init /\ [][Next]_vars

(* A request goes on, and Redis expires what it holds. *)
FairSpec == Spec /\ WF_vars(Expire) /\ \A s \in Sessions : WF_vars(SessionStep(s))

(***************************************************************************)
(* Properties                                                              *)
(***************************************************************************)

(* Types; the history has one entry per version. *)
TypeOK ==
    /\ version \in 0..MaxVersion
    /\ items \in Contents
    /\ cache \in CartValue \cup {NoCart}
    /\ session \in [Sessions -> [pc : {"idle", "version", "items", "fill", "invalidate"},
                                 then : {"fill", "invalidate"},
                                 version : 0..MaxVersion, items : Contents]]
    /\ versions \in Seq(Contents) /\ Len(versions) = version
    /\ answered \subseteq CartValue

ItemsOf(v) == IF v = 0 THEN NoItems ELSE versions[v]

(* getCart reads the version before the items: whatever mutations come in   *)
(* between, and however long the copy in Redis lives, an answer's items are *)
(* never older than the version it carries, so a checkout never succeeds on *)
(* items that the client's version had already replaced.                   *)
ItemsNoOlderThanVersion ==
    \A a \in answered : \E v \in a.version..version : a.items = ItemsOf(v)

(* Get and the mutations: a stale copy, from a reader that filled the cache *)
(* after a mutation had emptied it or from a deletion that never reached    *)
(* Redis, goes away when the mutations stop.                               *)
CacheConverges == <>[](cache = NoCart \/ cache = Snapshot)

(* docs/architecture.md line 29: the version protects the checkout from     *)
(* using other contents unnoticed.  An answer's items are those of the      *)
(* version it carries.                                                     *)
AnswersAreVersions == \A a \in answered : a.items = ItemsOf(a.version)
=============================================================================
