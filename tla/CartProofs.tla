----------------------------- MODULE CartProofs -----------------------------
(***************************************************************************)
(* Proofs about Cart, for any number of requests, products and versions:   *)
(* its types, and that no answer is older than the version it carries.     *)
(***************************************************************************)
EXTENDS Cart, TLAPS

USE CartAssumption

SessionState == [pc : {"idle", "version", "items", "fill", "invalidate"},
                 then : {"fill", "invalidate"},
                 version : 0..MaxVersion, items : Contents]

-----------------------------------------------------------------------------
(* Type correctness *)

LEMMA IdleTypes ==
    /\ NoItems \in Contents
    /\ Idle \in SessionState
    /\ \A pc \in {"idle", "version", "items", "fill", "invalidate"} :
          /\ [Idle EXCEPT !.pc = pc] \in SessionState
          /\ [Idle EXCEPT !.pc = pc].pc = pc
          /\ [Idle EXCEPT !.pc = pc].items = NoItems
<1>1. NoItems \in Contents
  BY DEF NoItems, Contents
<1>2. Idle \in SessionState
  BY <1>1 DEF Idle, SessionState
<1> QED
  BY <1>1, <1>2 DEF Idle, SessionState

(* What one request s becomes, the others unmoved. *)
LEMMA SessionMoves ==
    ASSUME TypeOK, NEW s \in Sessions, NEW x \in SessionState,
           session' = [session EXCEPT ![s] = x]
    PROVE  /\ session' \in [Sessions -> SessionState]
           /\ session'[s] = x
           /\ \A r \in Sessions \ {s} : session'[r] = session[r]
BY DEF TypeOK, SessionState

(* The state a request goes on with.                                        *)
LEMMA PcState ==
    ASSUME NEW x \in SessionState,
           NEW pc \in {"idle", "version", "items", "fill", "invalidate"}
    PROVE  /\ [x EXCEPT !.pc = pc] \in SessionState
           /\ [x EXCEPT !.pc = pc].pc = pc
BY DEF SessionState

-----------------------------------------------------------------------------
(* Answers are no older than their version *)

(* x's items are those of its version or of a later one, up to n of the     *)
(* history vs.                                                              *)
FreshIn(x, n, vs) ==
    \E v \in x.version..n : x.items = IF v = 0 THEN NoItems ELSE vs[v]

(* The cart is its last version.  A request past its first statement has a  *)
(* version that was current; one about to fill the cache a cart that is     *)
(* fresh, as is the copy in Redis.                                          *)
FreshInv ==
    /\ TypeOK
    /\ items = IF version = 0 THEN NoItems ELSE versions[version]
    /\ \A s \in Sessions :
          /\ session[s].pc = "version" => session[s].items = NoItems
          /\ session[s].pc = "items" => session[s].version <= version
          /\ session[s].pc = "fill" => FreshIn(ValueOf(s), version, versions)
    /\ cache # NoCart => FreshIn(cache, version, versions)
    /\ \A a \in answered : FreshIn(a, version, versions)

LEMMA FreshIsProperty ==
    (\A a \in answered : FreshIn(a, version, versions)) <=> ItemsNoOlderThanVersion
BY DEF FreshIn, ItemsNoOlderThanVersion, ItemsOf

(* A request whose next state is x, which fits what the database holds. *)
LEMMA ReadsKeepFreshInv ==
    ASSUME FreshInv, NEW s \in Sessions, NEW x \in SessionState,
           session' = [session EXCEPT ![s] = x],
           x.pc = "version" => x.items = NoItems,
           x.pc = "items" => x.version <= version,
           x.pc = "fill" => FreshIn([version |-> x.version, items |-> x.items], version, versions),
           UNCHANGED dbVars,
           cache' \in CartValue \cup {NoCart},
           cache' # NoCart => FreshIn(cache', version, versions),
           answered' \subseteq CartValue,
           \A a \in answered' : FreshIn(a, version, versions)
    PROVE  FreshInv'
<1>0. TypeOK /\ version' = version /\ items' = items /\ versions' = versions
  BY DEF FreshInv, dbVars
<1>1. /\ session' \in [Sessions -> SessionState]
      /\ session'[s] = x
      /\ \A r \in Sessions \ {s} : session'[r] = session[r]
  BY <1>0, SessionMoves
<1>2. TypeOK'
  BY <1>0, <1>1 DEF TypeOK, SessionState
<1>3. ASSUME NEW r \in Sessions
      PROVE  /\ session'[r].pc = "version" => session'[r].items = NoItems
             /\ session'[r].pc = "items" => session'[r].version <= version
             /\ session'[r].pc = "fill" =>
                   FreshIn([version |-> session'[r].version, items |-> session'[r].items],
                           version, versions)
  <2>1. CASE r = s
    BY <1>1, <2>1
  <2>2. CASE r # s
    BY <1>1, <2>2 DEF FreshInv, ValueOf
  <2> QED
    BY <2>1, <2>2
<1> QED
  BY <1>0, <1>2, <1>3 DEF FreshInv, ValueOf

(* SetItem and DeleteItem add a version and leave the others alone. *)
LEMMA ChangeKeepsFreshInv ==
    ASSUME FreshInv, NEW s \in Sessions, NEW p \in Products, NEW q \in Quantities \cup {0},
           Change(s, p, q)
    PROVE  FreshInv'
<1> DEFINE x == [Idle EXCEPT !.pc = "invalidate"]
<1>0. /\ TypeOK /\ version \in Nat /\ version + 1 \in 0..MaxVersion /\ version' = version + 1
      /\ session' = [session EXCEPT ![s] = x] /\ UNCHANGED <<cache, answered>>
      /\ versions \in Seq(Contents) /\ Len(versions) = version
      /\ versions' = Append(versions, items')
  BY DEF FreshInv, TypeOK, Change
<1>1. x \in SessionState /\ x.pc = "invalidate"
  BY IdleTypes
<1>2. items' \in Contents
  BY DEF Change, FreshInv, TypeOK, Contents
<1> HIDE DEF x
<1>3. /\ session' \in [Sessions -> SessionState]
      /\ session'[s] = x
      /\ \A r \in Sessions \ {s} : session'[r] = session[r]
  BY <1>0, <1>1, SessionMoves
<1>4. /\ versions' \in Seq(Contents) /\ Len(versions') = version'
      /\ versions'[version'] = items'
      /\ \A v \in 1..version : versions'[v] = versions[v]
  BY <1>0, <1>2
<1>5. TypeOK'
  BY <1>0, <1>2, <1>3, <1>4 DEF TypeOK, SessionState
<1>6. ASSUME NEW y \in CartValue, FreshIn(y, version, versions) PROVE FreshIn(y, version', versions')
  <2>1. y.version \in Nat /\ version <= version' /\ version' \in Nat
    BY <1>0 DEF CartValue
  <2>2. PICK v \in y.version..version : y.items = IF v = 0 THEN NoItems ELSE versions[v]
    BY <1>6 DEF FreshIn
  <2>3. v \in y.version..version' /\ (v # 0 => v \in 1..version)
    BY <1>0, <2>1, <2>2
  <2>4. y.items = IF v = 0 THEN NoItems ELSE versions'[v]
    BY <1>4, <2>2, <2>3
  <2> QED
    BY <2>3, <2>4 DEF FreshIn
<1>7. ASSUME NEW r \in Sessions
      PROVE  /\ session'[r].pc = "version" => session'[r].items = NoItems
             /\ session'[r].pc = "items" => session'[r].version <= version'
             /\ session'[r].pc = "fill" =>
                   FreshIn([version |-> session'[r].version, items |-> session'[r].items],
                           version', versions')
  <2>1. CASE r = s
    BY <1>1, <1>3, <2>1
  <2>2. CASE r # s
    <3> DEFINE y == [version |-> session[r].version, items |-> session[r].items]
    <3>1. session'[r] = session[r] /\ session[r] \in SessionState
      BY <1>0, <1>3, <2>2 DEF TypeOK, SessionState
    <3>2. y \in CartValue /\ session[r].version \in Nat
      BY <3>1 DEF SessionState, CartValue
    <3>3. session[r].pc = "fill" => FreshIn(y, version, versions)
      BY DEF FreshInv, ValueOf
    <3>4. session[r].pc = "fill" => FreshIn(y, version', versions')
      BY <1>6, <3>2, <3>3
    <3> QED
      BY <1>0, <3>1, <3>2, <3>4 DEF FreshInv
  <2> QED
    BY <2>1, <2>2
<1>8. /\ cache' # NoCart => FreshIn(cache', version', versions')
      /\ \A a \in answered' : FreshIn(a, version', versions')
  BY <1>0, <1>6 DEF FreshInv, TypeOK
<1> QED
  BY <1>0, <1>4, <1>5, <1>7, <1>8 DEF FreshInv, ValueOf

LEMMA NextKeepsFreshInv ==
    ASSUME FreshInv, [Next]_vars
    PROVE  FreshInv'
<1>0. /\ TypeOK /\ session \in [Sessions -> SessionState] /\ version \in 0..MaxVersion
      /\ items \in Contents
      /\ cache \in CartValue \cup {NoCart} /\ answered \subseteq CartValue
      /\ cache # NoCart => FreshIn(cache, version, versions)
      /\ \A a \in answered : FreshIn(a, version, versions)
  BY DEF FreshInv, TypeOK, SessionState
(* The cart as it is now is fresh for every version so far. *)
<1>a. ASSUME NEW v \in 0..version
      PROVE  FreshIn([version |-> v, items |-> items], version, versions)
  BY <1>0 DEF FreshIn, FreshInv
<1>1. CASE UNCHANGED vars
  BY <1>1 DEF vars, dbVars, FreshInv, TypeOK, ValueOf
<1>2. CASE Expire
  BY <1>2 DEF Expire, dbVars, FreshInv, TypeOK, ValueOf
<1>3. ASSUME NEW s \in Sessions, GetCached(s) PROVE FreshInv'
  <2>1. /\ answered' = answered \cup {cache} /\ cache # NoCart
        /\ session' = session /\ cache' = cache /\ UNCHANGED dbVars
    BY <1>3 DEF GetCached
  <2> QED
    BY <1>0, <2>1 DEF dbVars, FreshInv, TypeOK, ValueOf
<1>4. ASSUME NEW s \in Sessions, GetMisses(s) PROVE FreshInv'
  BY <1>0, <1>4, IdleTypes, ReadsKeepFreshInv DEF GetMisses
<1>5. ASSUME NEW s \in Sessions, ReadVersion(s) PROVE FreshInv'
  <2> DEFINE pc == IF version = 0 THEN session[s].then ELSE "items"
             x == [session[s] EXCEPT !.pc = pc, !.version = version]
  <2>1. /\ session[s] \in SessionState /\ session[s].items = NoItems
        /\ pc \in {"fill", "invalidate", "items"}
        /\ session' = [session EXCEPT ![s] = x]
        /\ UNCHANGED <<dbVars, cache, answered>>
    BY <1>0, <1>5 DEF ReadVersion, SessionState, FreshInv
  <2>2. /\ x \in SessionState /\ x.pc = pc /\ x.version = version /\ x.items = NoItems
    <3> DEFINE y == session[s]
    <3>1. y \in SessionState /\ pc \in {"idle", "version", "items", "fill", "invalidate"}
      BY <2>1
    <3> HIDE DEF pc, y
    <3>2. /\ [y EXCEPT !.pc = pc, !.version = version] \in SessionState
          /\ [y EXCEPT !.pc = pc, !.version = version].pc = pc
          /\ [y EXCEPT !.pc = pc, !.version = version].version = version
          /\ [y EXCEPT !.pc = pc, !.version = version].items = y.items
      BY <1>0, <3>1 DEF SessionState
    <3> QED
      BY <2>1, <3>2 DEF y
  <2>3. x.pc = "fill" => FreshIn([version |-> x.version, items |-> x.items], version, versions)
    <3>1. x.pc = "fill" => version = 0 /\ items = NoItems
      BY <2>1, <2>2 DEF FreshInv
    <3> QED
      BY <1>0, <1>a, <2>2, <3>1
  <2>4. x.pc # "version" /\ x.version <= version
    BY <1>0, <2>1, <2>2
  <2> HIDE DEF x
  <2> QED
    BY <1>0, <2>1, <2>2, <2>3, <2>4, ReadsKeepFreshInv
<1>6. ASSUME NEW s \in Sessions, ReadItems(s) PROVE FreshInv'
  <2> DEFINE x == [session[s] EXCEPT !.pc = session[s].then, !.items = items]
  <2>1. /\ session[s] \in SessionState /\ session[s].version \in 0..version
        /\ session[s].then \in {"fill", "invalidate"}
        /\ session' = [session EXCEPT ![s] = x]
        /\ UNCHANGED <<dbVars, cache, answered>>
    BY <1>0, <1>6 DEF ReadItems, SessionState, FreshInv
  <2>2. /\ x \in SessionState /\ x.pc = session[s].then
        /\ x.version = session[s].version /\ x.items = items
    <3> DEFINE y == session[s]
               pc == session[s].then
    <3>1. y \in SessionState /\ pc \in {"idle", "version", "items", "fill", "invalidate"}
      BY <2>1
    <3> HIDE DEF pc, y
    <3>2. /\ [y EXCEPT !.pc = pc, !.items = items] \in SessionState
          /\ [y EXCEPT !.pc = pc, !.items = items].pc = pc
          /\ [y EXCEPT !.pc = pc, !.items = items].version = y.version
          /\ [y EXCEPT !.pc = pc, !.items = items].items = items
      BY <1>0, <3>1 DEF SessionState
    <3> QED
      BY <2>1, <3>2 DEF y, pc
  <2> HIDE DEF x
  <2>3. FreshIn([version |-> x.version, items |-> x.items], version, versions)
    BY <1>a, <2>1, <2>2
  <2> QED
    BY <1>0, <2>1, <2>2, <2>3, ReadsKeepFreshInv
<1>7. ASSUME NEW s \in Sessions, FillCache(s) PROVE FreshInv'
  <2> DEFINE x == [session[s] EXCEPT !.pc = "idle"]
  <2>1. /\ session[s] \in SessionState /\ session[s].pc = "fill"
        /\ session' = [session EXCEPT ![s] = x]
        /\ cache' \in {cache, ValueOf(s)} /\ answered' = answered \cup {ValueOf(s)}
        /\ UNCHANGED dbVars
    BY <1>0, <1>7 DEF FillCache, Goto
  <2>2. x \in SessionState /\ x.pc = "idle"
    BY <1>0, <2>1, PcState
  <2>3. ValueOf(s) \in CartValue /\ FreshIn(ValueOf(s), version, versions)
    BY <2>1 DEF ValueOf, CartValue, SessionState, FreshInv
  <2> HIDE DEF x
  <2> QED
    BY <1>0, <2>1, <2>2, <2>3, ReadsKeepFreshInv
<1>8. ASSUME NEW s \in Sessions, Invalidate(s) \/ Abort(s) PROVE FreshInv'
  <2> DEFINE x == [session[s] EXCEPT !.pc = "idle"]
  <2>1. /\ session[s] \in SessionState /\ session' = [session EXCEPT ![s] = x]
        /\ cache' \in {cache, NoCart} /\ answered' = answered /\ UNCHANGED dbVars
    BY <1>0, <1>8 DEF Invalidate, Abort, Goto
  <2>2. x \in SessionState /\ x.pc = "idle"
    BY <1>0, <2>1, PcState
  <2> HIDE DEF x
  <2> QED
    BY <1>0, <2>1, <2>2, ReadsKeepFreshInv
<1>9. ASSUME NEW s \in Sessions, NEW p \in Products,
             (\E q \in Quantities : SetItem(s, p, q)) \/ DeleteItem(s, p)
      PROVE  FreshInv'
  BY <1>9, ChangeKeepsFreshInv DEF SetItem, DeleteItem
<1>10. ASSUME NEW s \in Sessions, NEW p \in Products, DeleteAbsent(s, p) PROVE FreshInv'
  <2> DEFINE x == [Idle EXCEPT !.pc = "version", !.then = "invalidate"]
  <2>1. x \in SessionState /\ x.pc = "version" /\ x.items = NoItems
    BY IdleTypes DEF Idle, SessionState
  <2>2. session' = [session EXCEPT ![s] = x] /\ UNCHANGED <<dbVars, cache, answered>>
    BY <1>10 DEF DeleteAbsent
  <2> HIDE DEF x
  <2> QED
    BY <1>0, <2>1, <2>2, ReadsKeepFreshInv
<1> QED
  BY <1>1, <1>2, <1>3, <1>4, <1>5, <1>6, <1>7, <1>8, <1>9, <1>10 DEF Next, SessionStep

LEMMA FreshInvariant == Spec => []FreshInv
<1>1. Init => FreshInv
  <2> SUFFICES ASSUME Init PROVE FreshInv
    OBVIOUS
  <2>1. TypeOK
    BY IdleTypes DEF Init, TypeOK, SessionState
  <2> QED
    BY <2>1 DEF Init, FreshInv, Idle
<1>2. FreshInv /\ [Next]_vars => FreshInv'
  BY NextKeepsFreshInv
<1> QED
  BY <1>1, <1>2, PTL DEF Spec

(* cart-service's rows, its copy in Redis and what its requests have read   *)
(* keep their types.                                                        *)
THEOREM TypeCorrect == Spec => []TypeOK
<1>1. FreshInv => TypeOK
  BY DEF FreshInv
<1> QED
  BY <1>1, FreshInvariant, PTL

(* Store.Get reads the version first: whatever changes, fills and deletions *)
(* of the copy come in between, the items it answers are those of the       *)
(* version it answers or of a later one.                                    *)
THEOREM NoOlderItems == Spec => []ItemsNoOlderThanVersion
<1>1. FreshInv => ItemsNoOlderThanVersion
  BY FreshIsProperty DEF FreshInv
<1> QED
  BY <1>1, FreshInvariant, PTL
=============================================================================
