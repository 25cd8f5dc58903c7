---------------------------- MODULE MCDemoBackend ----------------------------
(* Four mixes of calls: about orders; about time, in which the clocks      *)
(* drift, or in which there is enough of it for the oldest timestamp; and  *)
(* about books.  The exchange accepts an order in the first only.          *)
EXTENDS DemoBackend

OrderCalls ==
    [ops |-> {"limit", "simulated", "cancel", "status", "detailed", "query"},
     calls |-> 3, orders |-> 1, time |-> 2, drift |-> 0]

DriftCalls == [ops |-> {"market", "sync"}, calls |-> 2, orders |-> 0, time |-> 4, drift |-> 1]

LongCalls == [ops |-> {"market", "sync"}, calls |-> 2, orders |-> 0, time |-> 7, drift |-> 0]

BookCalls == [ops |-> {"book"}, calls |-> 3, orders |-> 0, time |-> 4, drift |-> 0]

MCWorkloads == {OrderCalls, DriftCalls, LongCalls, BookCalls}
MCDrifts == {-1, 0, 1}
=============================================================================
