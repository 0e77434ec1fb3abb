-------------------------- MODULE MCDeliveryLocks ---------------------------
EXTENDS DeliveryLocks, TLC

CONSTANTS c1, c2, o1, o2, p1, p2

MCCouriers == {c1, c2}
MCOrders == {o1, o2}
MCProcesses == {p1, p2}
Symm == Permutations(MCCouriers) \cup Permutations(MCOrders) \cup Permutations(MCProcesses)
=============================================================================
