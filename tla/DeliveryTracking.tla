--------------------------- MODULE DeliveryTracking ---------------------------
(* Delivery obligations of the order service and the completion reports that   *)
(* close them.                                                                 *)
(*                                                                             *)
(* The source opens an obligation for every operation it accepts, within a     *)
(* quota per seller.  The partner service writes a report in the transaction   *)
(* of each delivery; its instances relay the reports to a topic, a report that *)
(* grew old is relayed by any of them.  The source closes the obligation and   *)
(* returns its share of the quota.  How an accepted operation is delivered is  *)
(* the subject of OrderSaga and PartnerInbox; here it is one step.             *)
EXTENDS PartnerEvents, Integers, FiniteSets

CONSTANTS
  Clients,             \* request threads of the source
  Instances,           \* process incarnations of the partner service
  Quota,               \* app.seller-quota; 0 means no quota
  OperationsPerOrder,  \* OPERATIONS_PER_ORDER
  BatchSize,           \* rows one pass of the completion relay reads
  Faults,              \* which kinds of fault may happen
  MaxFaults,           \* bound: how many faults may happen
  None                 \* no request, no owner

FaultKinds == {"crash", "relay", "redelivery"}

ASSUME TrackingAssumption ==
  /\ {Quota, MaxFaults} \subseteq Nat
  /\ {OperationsPerOrder, BatchSize} \subseteq Nat \ {0}
  /\ Faults \subseteq FaultKinds
  /\ None \notin Instances
  /\ IsFiniteSet(Events)

(* accept reserves room for "all three of its operations" and does not count   *)
(* them: that an order has no more is up to its client, trace.py.              *)
ASSUME OrdersFit == \A e \in Events : SeqOf[e] <= OperationsPerOrder

VARIABLES
  obligation,   \* table delivery_obligation
  used,         \* table seller_quota
  request,      \* per client: the request whose transaction has read its snapshot
  orderSeq,     \* table partner_order: the last sequence delivered per order
  report,       \* table completion_outbox
  relaying,     \* per instance: the batch acknowledged and not yet marked sent
  topic,        \* copies of a report that the source has not acknowledged
  up,           \* the instances that run
  faults        \* how many faults have happened

sourceVars  == <<obligation, used, request>>
partnerVars == <<orderSeq, report, relaying, up>>
vars == <<sourceVars, partnerVars, topic, faults>>

Request == [event : Events, known : BOOLEAN, parent : BOOLEAN]
Report  == [state : {"absent", "unsent", "sent"}, owner : Instances \cup {None}, old : BOOLEAN]
NoReport == [state |-> "absent", owner |-> None, old |-> FALSE]

(* Tables and memory have the types of their declarations, and what a seller   *)
(* has reserved stays within its quota.                                        *)
TypeOK ==
  /\ obligation \in [Events -> {"none", "open", "closed"}]
  /\ used \in [Sellers -> 0 .. Quota]
  /\ request \in [Clients -> Request \cup {None}]
  /\ orderSeq \in [Orders -> Nat]
  /\ report \in [Events -> Report]
  /\ relaying \in [Instances -> SUBSET Events]
  /\ topic \in [Events -> Nat]
  /\ up \in SUBSET Instances
  /\ faults \in 0 .. MaxFaults

Init ==
  /\ obligation = [e \in Events |-> "none"]
  /\ used = [s \in Sellers |-> 0]
  /\ request = [c \in Clients |-> None]
  /\ orderSeq = [o \in Orders |-> 0]
  /\ report = [e \in Events |-> NoReport]
  /\ relaying = [i \in Instances |-> {}]
  /\ topic = [e \in Events |-> 0]
  /\ up = Instances
  /\ faults = 0

Fault(kind) == kind \in Faults /\ faults < MaxFaults /\ faults' = faults + 1

-----------------------------------------------------------------------------
(* DeliveryObligations.accept *)

Accepted(e) == obligation[e] # "none"
Creates(o)  == {e \in Events : OrderOf[e] = o /\ SeqOf[e] = 1}

(* The first plain read fixes the snapshot of the transaction: is the request  *)
(* a repeated one, and is the CREATE of its order accepted?                    *)
Submit(c, e) ==
  /\ request[c] = None
  /\ request' = [request EXCEPT ![c] =
       [event |-> e, known |-> Accepted(e), parent |-> \E d \in Creates(OrderOf[e]) : Accepted(d)]]
  /\ UNCHANGED <<obligation, used, partnerVars, topic, faults>>

Answered(c) == request' = [request EXCEPT ![c] = None]

(* A faulty QuotaAllows: room for one operation is enough.                     *)
QuotaAllowsOne(r) ==
  Quota > 0 => IF SeqOf[r.event] = 1
               THEN used[EventSeller(r.event)] + 1 <= Quota
               ELSE r.parent

(* A CREATE needs room for all operations of its order, read under the row     *)
(* lock; a later operation needs the CREATE.                                   *)
QuotaAllows(r) ==
  Quota > 0 => IF SeqOf[r.event] = 1
               THEN used[EventSeller(r.event)] + OperationsPerOrder <= Quota
               ELSE r.parent

(* The obligation, the reservation and the outbox row in one transaction.      *)
Accept(c) ==
  LET r == request[c]
      s == EventSeller(r.event)
  IN /\ r # None /\ ~r.known
     /\ QuotaAllows(r)
     /\ ~Accepted(r.event)
     /\ obligation' = [obligation EXCEPT ![r.event] = "open"]
     /\ used' = IF Quota > 0 /\ SeqOf[r.event] = 1
                THEN [used EXCEPT ![s] = @ + OperationsPerOrder]
                ELSE used
     /\ Answered(c)
     /\ UNCHANGED <<partnerVars, topic, faults>>

(* The first acceptance is kept, the quota refuses, or another transaction     *)
(* inserted the same event_id since the snapshot and this one rolls back.      *)
NotAccepted(c) ==
  LET r == request[c]
  IN /\ r # None
     /\ r.known \/ ~QuotaAllows(r) \/ Accepted(r.event)
     /\ Answered(c)
     /\ UNCHANGED <<obligation, used, partnerVars, topic, faults>>

-----------------------------------------------------------------------------
(* The partner service: delivery with its report, and CompletionRelay          *)

(* An accepted operation is delivered after its predecessor; the report is     *)
(* written in the same transaction.                                            *)
Deliver(i, e) ==
  /\ i \in up /\ Accepted(e)
  /\ SeqOf[e] = orderSeq[OrderOf[e]] + 1
  /\ orderSeq' = [orderSeq EXCEPT ![OrderOf[e]] = SeqOf[e]]
  /\ report' = [report EXCEPT ![e] = [state |-> "unsent", owner |-> i, old |-> FALSE]]
  /\ UNCHANGED <<relaying, up, sourceVars, topic, faults>>

(* ORPHAN_AFTER_MS passes.                                                     *)
Age(e) ==
  /\ report[e].state = "unsent" /\ ~report[e].old
  /\ report' = [report EXCEPT ![e].old = TRUE]
  /\ UNCHANGED <<orderSeq, relaying, up, sourceVars, topic, faults>>

(* A faulty Relayable: nobody looks after the reports of a dead instance.      *)
RelayableOwn(i) == {e \in Events : report[e].state = "unsent" /\ report[e].owner = i}

(* Unsent reports of this instance, and anybody's that are old.                *)
Relayable(i) == {e \in Events : report[e].state = "unsent" /\ (report[e].owner = i \/ report[e].old)}

Batches(i) == {B \in SUBSET Relayable(i) : B # {} /\ Cardinality(B) <= BatchSize}
Published(stored) == topic' = [e \in Events |-> IF e \in stored THEN topic[e] + 1 ELSE topic[e]]

(* The whole batch is acknowledged; no lock is held meanwhile.                 *)
RelaySend(i) ==
  /\ i \in up /\ relaying[i] = {}
  /\ \E B \in Batches(i) : Published(B) /\ relaying' = [relaying EXCEPT ![i] = B]
  /\ UNCHANGED <<orderSeq, report, up, sourceVars, faults>>

(* Nobody reads the owner and the age of a report that is sent.                *)
Mark(B) == [e \in Events |-> IF e \in B /\ report[e].state = "unsent"
                             THEN [NoReport EXCEPT !.state = "sent"] ELSE report[e]]

(* A faulty RelayFails: the batch is marked although not all of it was stored. *)
RelayFailsMarked(i) ==
  /\ i \in up /\ relaying[i] = {}
  /\ Fault("relay")
  /\ \E B \in Batches(i) : \E stored \in SUBSET B : Published(stored) /\ report' = Mark(B)
  /\ UNCHANGED <<orderSeq, relaying, up, sourceVars>>

(* Some send fails or the mark does: nothing is marked, the batch goes again.  *)
RelayFails(i) ==
  /\ i \in up /\ relaying[i] = {}
  /\ Fault("relay")
  /\ \E B \in Batches(i) : \E stored \in SUBSET B : Published(stored)
  /\ UNCHANGED <<orderSeq, report, relaying, up, sourceVars>>

SentReports == {e \in Events : report[e].state = "sent"}

(* The batch is marked sent, and some reports sent long ago are deleted.       *)
RelayMark(i) ==
  /\ i \in up /\ relaying[i] # {}
  /\ \E gone \in SUBSET SentReports :
       report' = [e \in Events |-> IF e \in gone THEN NoReport ELSE Mark(relaying[i])[e]]
  /\ relaying' = [relaying EXCEPT ![i] = {}]
  /\ UNCHANGED <<orderSeq, up, sourceVars, topic, faults>>

(* A pass that finds nothing to relay only deletes.                            *)
RelayPurge(i) ==
  /\ i \in up /\ relaying[i] = {} /\ Relayable(i) = {}
  /\ \E gone \in SUBSET SentReports \ {{}} :
       report' = [e \in Events |-> IF e \in gone THEN NoReport ELSE report[e]]
  /\ UNCHANGED <<orderSeq, relaying, up, sourceVars, topic, faults>>

(* The process dies; some incarnation is always left or started.               *)
Crash(i) ==
  /\ i \in up /\ up # {i}
  /\ Fault("crash")
  /\ up' = up \ {i}
  /\ relaying' = [relaying EXCEPT ![i] = {}]
  /\ UNCHANGED <<orderSeq, report, sourceVars, topic>>

-----------------------------------------------------------------------------
(* CompletionListener.receive and DeliveryObligations.resolve *)

(* A faulty Resolved: every report returns a share.                            *)
ResolvedAgain(B) == B

(* The obligations a batch of reports closes: those that are open.             *)
Resolved(B) == {e \in B : obligation[e] = "open"}

Share(B, s) == Cardinality({e \in Resolved(B) : EventSeller(e) = s})

(* GREATEST(used - n, 0) *)
Less(n, k) == IF k <= n THEN n - k ELSE 0

(* One transaction closes a batch; the offsets are committed after it.         *)
Receive ==
  \E B \in SUBSET {e \in Events : topic[e] > 0} :
    /\ B # {}
    /\ obligation' = [e \in Events |-> IF e \in Resolved(B) THEN "closed" ELSE obligation[e]]
    /\ used' = [s \in Sellers |-> Less(used[s], Share(B, s))]
    /\ \/ topic' = [e \in Events |-> IF e \in B THEN topic[e] - 1 ELSE topic[e]]
          /\ UNCHANGED faults
       \/ Fault("redelivery") /\ UNCHANGED topic
    /\ UNCHANGED <<request, partnerVars>>

-----------------------------------------------------------------------------
Client(c) == (\E e \in Events : Submit(c, e)) \/ Accept(c) \/ NotAccepted(c)
Relay(i)  == RelaySend(i) \/ RelayMark(i)

Next ==
  \/ \E c \in Clients : Client(c)
  \/ \E i \in Instances : Relay(i) \/ RelayPurge(i) \/ RelayFails(i) \/ Crash(i)
  \/ \E i \in Instances, e \in Events : Deliver(i, e)
  \/ \E e \in Events : Age(e)
  \/ Receive

Spec == Init /\ [][Next]_vars

(* The relay is scheduled on every live instance, the listener polls, time     *)
(* passes and accepted operations are delivered (PartnerInbox shows that).     *)
(* Nothing is assumed of clients or of faults.                                 *)
Fairness ==
  /\ \A i \in Instances : WF_vars(Relay(i))
  /\ \A e \in Events : WF_vars(Age(e)) /\ WF_vars(\E i \in Instances : Deliver(i, e))
  /\ WF_vars(Receive)

FairSpec == Spec /\ Fairness

-----------------------------------------------------------------------------
(* Properties *)

Delivered(e) == SeqOf[e] <= orderSeq[OrderOf[e]]

EventsOf(s) == {e \in Events : EventSeller(e) = s}

(* "A new order reserves room for all three of its operations", and "later     *)
(* reports of the same delivery change nothing": what a seller has used is     *)
(* what its accepted orders reserved less what is closed, however often a      *)
(* request or a report is repeated; so open obligations never outgrow it, and  *)
(* operations "of a refused order" are never taken.                            *)
QuotaAccounts ==
  Quota > 0 =>
    \A s \in Sellers :
      LET first  == {e \in EventsOf(s) : Accepted(e) /\ SeqOf[e] = 1}
          open   == {e \in EventsOf(s) : obligation[e] = "open"}
          closed == {e \in EventsOf(s) : obligation[e] = "closed"}
      IN /\ used[s] = OperationsPerOrder * Cardinality(first) - Cardinality(closed)
         /\ Cardinality(open) <= used[s]

(* "The source learns about a delivery even if this process dies right after   *)
(* the commit": a delivery is known to the source or its report is still on    *)
(* the way; and only deliveries are reported.                                  *)
ReportedIffDelivered ==
  \A e \in Events :
    Delivered(e) <=> \/ obligation[e] = "closed"
                     \/ report[e].state = "unsent"
                     \/ topic[e] > 0

(* Every obligation of an order accepted without a gap is closed in the end,   *)
(* also when the instance that delivered it dies before it reports.            *)
EveryObligationClosed ==
  \A e \in Events :
    (\A d \in Events : OrderOf[d] = OrderOf[e] /\ SeqOf[d] <= SeqOf[e] => Accepted(d))
      ~> obligation[e] = "closed"
=============================================================================
