----------------------------- MODULE RelayTurns -----------------------------
(***************************************************************************)
(* Messaging with a history: whether the relays of two replicas ever had a *)
(* batch at the same time.  As long as they take turns, each relay holds   *)
(* the oldest of what is not published, and the order of the aggregate     *)
(* survives up to the effects.                                             *)
(***************************************************************************)
EXTENDS Messaging

VARIABLE overlapped

turnVars == <<vars, overlapped>>

Overlap == \E r, s \in Relays : r # s /\ relay[r].batch # {} /\ relay[s].batch # {}

TurnsInit == Init /\ overlapped = FALSE
TurnsNext == Next /\ overlapped' = (overlapped \/ Overlap')
TurnsSpec == TurnsInit /\ [][TurnsNext]_turnVars

TurnsFairSpec == TurnsSpec /\ Fairness

(* outbox.go:93.  As long as the relays of the replicas take turns, effects  *)
(* follow the order in which the events of the aggregate occurred, however   *)
(* relays, members and the replay fail or repeat; only one that was          *)
(* dead-lettered, or that a failed poll threw away, is late.                *)
InOrderUnlessOverlapped == overlapped \/ EffectsInOrder
=============================================================================
