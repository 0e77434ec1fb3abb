----------------------------- MODULE MCMessaging -----------------------------
(* Two relays, two members, two events. *)
EXTENDS RelayTurns, TLC

CONSTANTS r1, r2, m1, m2, e1, e2

MCMembers == {m1, m2}
=============================================================================
