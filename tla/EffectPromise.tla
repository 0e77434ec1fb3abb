--------------------------- MODULE EffectPromise ---------------------------
(***************************************************************************)
(* What the outbox, Kafka and an inbox promise together: every event a     *)
(* consumer acts on was written by a producer's transaction, and is acted  *)
(* on at most once, in some order.  No relays, offsets, retries or dead    *)
(* letters: those are Messaging, which implements this.                    *)
(***************************************************************************)
EXTENDS Naturals, Sequences

CONSTANTS Events

VARIABLES
    outbox,    \* the events written, in the order they occurred
    effects    \* the events acted on, in the order of the actions

promiseVars == <<outbox, effects>>

Elements(s) == {s[i] : i \in 1..Len(s)}

PromiseInit == outbox = << >> /\ effects = << >>

Write(e) ==
    /\ e \notin Elements(outbox)
    /\ outbox' = Append(outbox, e)
    /\ UNCHANGED effects

Act(e) ==
    /\ e \in Elements(outbox)
    /\ e \notin Elements(effects)
    /\ effects' = Append(effects, e)
    /\ UNCHANGED outbox

PromiseNext == \E e \in Events : Write(e) \/ Act(e)

PromiseSpec == PromiseInit /\ [][PromiseNext]_promiseVars
=============================================================================
