------------------------ MODULE MCDeliveryTracking ------------------------
(* Instances of DeliveryTracking for TLC.                                      *)
EXTENDS DeliveryTracking, TLC

CONSTANTS s1, A, B, a1, a2, b1, c1, c2, i1, i2

MCSellers  == {s1}

(* Two orders of one seller, the first with two operations.                    *)
MCOrders   == {A, B}
MCSellerOf == A :> s1 @@ B :> s1
MCEvents   == {a1, a2, b1}
MCOrderOf  == a1 :> A @@ a2 :> A @@ b1 :> B
MCSeqOf    == a1 :> 1 @@ a2 :> 2 @@ b1 :> 1

(* One order with two operations.                                              *)
OrderA        == {A}
ChainSellerOf == A :> s1
ChainEvents   == {a1, a2}
ChainOrderOf  == a1 :> A @@ a2 :> A
ChainSeqOf    == a1 :> 1 @@ a2 :> 2

OneClient  == {c1}
TwoClients == {c1, c2}
OneInstance  == {i1}
TwoInstances == {i1, i2}

Interchangeable == Permutations(Clients) \cup Permutations(Instances)
=============================================================================
