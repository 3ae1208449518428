--------------------------- MODULE PartnerDelivery ---------------------------
(* What the delivery pipeline promises, whatever mode carries it: the partner  *)
(* applies the operations of an order one after the other, each once, and the  *)
(* service's own record follows the partner by at most one operation.          *)
EXTENDS PartnerEvents

VARIABLES
  applied,    \* applied[o]: how many operations of order o the partner has applied
  recorded    \* recorded[o]: how many of them the service has recorded

Init == applied = [o \in Orders |-> 0] /\ recorded = [o \in Orders |-> 0]

(* The partner applies an operation of e's order: the one after the last, and  *)
(* only when everything before it has been recorded.                           *)
Apply(e) ==
  /\ applied[OrderOf[e]] = recorded[OrderOf[e]]
  /\ SeqOf[e] = applied[OrderOf[e]] + 1
  /\ applied' = [applied EXCEPT ![OrderOf[e]] = SeqOf[e]]
  /\ UNCHANGED recorded

(* The service records the operation the partner has applied.                  *)
Record(e) ==
  /\ recorded[OrderOf[e]] + 1 = applied[OrderOf[e]]
  /\ SeqOf[e] = applied[OrderOf[e]]
  /\ recorded' = [recorded EXCEPT ![OrderOf[e]] = SeqOf[e]]
  /\ UNCHANGED applied

Next == \E e \in Events : Apply(e) \/ Record(e)

Spec == Init /\ [][Next]_<<applied, recorded>>
=============================================================================
