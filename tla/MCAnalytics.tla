---------------------------- MODULE MCAnalytics ----------------------------
(* Two orders: one is cancelled after its confirmation; the other is         *)
(* delivered late, which order-service has not heard of yet.               *)
EXTENDS Analytics

CONSTANTS o1, o2, w1, w2

MCTopics == {"orders", "delivery"}
Event(type, order, previous, status, at) ==
    [type |-> type, order |-> order, status |-> status, previous |-> previous, at |-> at,
     items |-> [p \in Products |-> IF type = "order.created" THEN 2 ELSE 0],
     predicted |-> -1, actual |-> -1]

MCBacklog ==
    [orders |->
        <<Event("order.created", o1, "none", "none", 0),
          Event("order.created", o2, "none", "none", 1),
          Event("order.status_changed", o1, "created", "confirmed", 2),
          Event("order.status_changed", o1, "confirmed", "cancelled", 3)>>,
     delivery |->
        <<Event("courier.location_updated", NoOrder, "none", "none", 1),
          [Event("delivery.completed", o2, "none", "completed", 4)
              EXCEPT !.predicted = 1, !.actual = 2]>>]

(* What FiguresTrue says of durations is about topics in order. *)
ASSUME MCBacklogInOrder == BacklogInOrder
=============================================================================
