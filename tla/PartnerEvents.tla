---------------------------- MODULE PartnerEvents ----------------------------
(* The operations a source sends to the partner: CREATE, CHANGE and CANCEL     *)
(* events of an order, numbered 1, 2, 3 ... within the order (the event's      *)
(* "sequence").  An event is identified by its eventId; payload, quantity and  *)
(* price are not modelled.                                                     *)
EXTENDS Naturals

CONSTANTS
  Sellers,    \* seller ids
  Orders,     \* order ids
  Events,     \* event ids
  SellerOf,   \* SellerOf[o]: the seller an order belongs to
  OrderOf,    \* OrderOf[e]: the order of an event
  SeqOf       \* SeqOf[e]: the event's place in its order

(* An order has one seller, so (seller_id, order_id) is determined by the     *)
(* order; (seller_id, order_id, seq) is unique as the schema demands.          *)
ASSUME EventsAssumption ==
  /\ SellerOf \in [Orders -> Sellers]
  /\ OrderOf \in [Events -> Orders]
  /\ SeqOf \in [Events -> Nat \ {0}]
  /\ \A d, e \in Events : OrderOf[d] = OrderOf[e] /\ SeqOf[d] = SeqOf[e] => d = e

(* The seller whose permits and retry budget an event uses.                    *)
EventSeller(e) == SellerOf[OrderOf[e]]
=============================================================================
