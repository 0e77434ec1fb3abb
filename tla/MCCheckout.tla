----------------------------- MODULE MCCheckout -----------------------------
EXTENDS Checkout, TLC

CONSTANTS h1, h2, k1, k2, a1, a2, o1, o2

MCHandlers == {h1, h2}
MCAttempts == {a1, a2}
MCOrderIds == {o1, o2}
(* Two baskets compete for the milk; one of them also wants a product that   *)
(* was withdrawn.  (An empty cart is among the baskets below.)             *)
MCProducts == {"milk", "bread", "withdrawn"}
MCActiveProducts == {"milk", "bread"}
MCInitialStock == [milk |-> 3, bread |-> 1, withdrawn |-> 1]
MCBaskets ==
    {[milk |-> 2, bread |-> 1, withdrawn |-> 0],
     [milk |-> 1, bread |-> 0, withdrawn |-> 1]}

(* One product, for liveness. *)
OneProduct == {"milk"}
OneProductStock == [milk |-> 1]
OneProductBaskets == {[milk |-> 0], [milk |-> 1]}

MCRequests == {[user |-> "ann", version |-> 1], [user |-> "ghost", version |-> 1]}
MCKnownUsers == {"ann"}

(* Attempts and order ids are fresh UUIDs and request slots are alike. *)
Symm == Permutations(MCHandlers) \cup Permutations(MCAttempts) \cup Permutations(MCOrderIds)
=============================================================================
