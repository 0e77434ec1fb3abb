---------------------------- MODULE MCLifecycle -----------------------------
EXTENDS Lifecycle

CONSTANTS c1, o1

MCCouriers == {c1}
MCOrders == {o1}
=============================================================================
