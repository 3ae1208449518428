---------------------------- MODULE MCPartnerInbox ----------------------------
(* Instances of PartnerInbox for TLC.                                          *)
EXTENDS PartnerInbox, TLC

CONSTANTS s1, A, B, a1, a2, b1, p1, i1, i2

MCSellers     == {s1}

(* A chain: one order with two operations.                                     *)
OrderA       == {A}
ChainEvents  == {a1, a2}
ChainSellerOf == A :> s1
ChainOrderOf == a1 :> A @@ a2 :> A
ChainSeqOf   == a1 :> 1 @@ a2 :> 2

(* A pair: the first operations of two orders of the same seller.              *)
MCOrders     == {A, B}
MCSellerOf   == A :> s1 @@ B :> s1
PairEvents   == {a1, b1}
PairOrderOf  == a1 :> A @@ b1 :> B
PairSeqOf    == a1 :> 1 @@ b1 :> 1

OneInstance  == {i1}
TwoInstances == {i1, i2}

OnePartition  == {p1}
ChainLog      == p1 :> <<a1, a2>>
PairLog       == p1 :> <<a1, b1>>

InstanceSymmetry == Permutations(Instances)
=============================================================================
