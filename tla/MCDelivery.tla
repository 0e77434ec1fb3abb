----------------------------- MODULE MCDelivery -----------------------------
EXTENDS Delivery, TLC

CONSTANTS c1, c2, o1, o2

MCCouriers == {c1, c2}
MCOrders == {o1, o2}
Symm == Permutations(MCCouriers) \cup Permutations(MCOrders)
=============================================================================
