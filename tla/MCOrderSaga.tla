---------------------------- MODULE MCOrderSaga ----------------------------
(* Instances of OrderSaga for TLC.                                             *)
EXTENDS OrderSaga, TLC

CONSTANTS A, B, C, p1, c1, c2

TwoOrders   == {A, B}
OneUnknown  == {A, C}
OneProduct  == {p1}

(* All orders ask for the same product, or the last one for an unknown one.    *)
SameProduct == [o \in Orders |-> p1]
LastUnknown == [o \in Orders |-> IF o = C THEN None ELSE p1]

OneEach     == [o \in Orders |-> 1]
TwoForFirst == [o \in Orders |-> IF o = A THEN 2 ELSE 1]
StockOfTwo  == [p \in Products |-> 2]

OneConsumer  == {c1}
TwoConsumers == {c1, c2}

ConsumerSymmetry == Permutations(Consumers)
=============================================================================
