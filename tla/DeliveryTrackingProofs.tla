----------------------- MODULE DeliveryTrackingProofs -----------------------
(* Safety of delivery tracking, for any number of clients, instances, sellers, *)
(* orders and operations.                                                      *)
EXTENDS DeliveryTracking, FiniteSetTheorems, TLAPS

(* Lookups of an event.                                                        *)
LEMMA EventTypes ==
  /\ \A e \in Events : /\ OrderOf[e] \in Orders /\ EventSeller(e) \in Sellers
                        /\ SeqOf[e] \in Nat \ {0} /\ SeqOf[e] \in 1 .. OperationsPerOrder
  /\ \A d, e \in Events : OrderOf[d] = OrderOf[e] /\ SeqOf[d] = SeqOf[e] => d = e
  /\ OperationsPerOrder \in Nat \ {0} /\ Quota \in Nat /\ MaxFaults \in Nat
  BY EventsAssumption, TrackingAssumption, OrdersFit
     DEF EventsAssumption, TrackingAssumption, OrdersFit, EventSeller

(* The rows of completion_outbox.                                              *)
LEMMA ReportTypes ==
  /\ NoReport \in Report /\ NoReport.state = "absent"
  /\ [NoReport EXCEPT !.state = "sent"] \in Report /\ [NoReport EXCEPT !.state = "sent"].state = "sent"
  /\ \A i \in Instances : [state |-> "unsent", owner |-> i, old |-> FALSE] \in Report
  /\ \A r \in Report : [r EXCEPT !.old = TRUE] \in Report /\ [r EXCEPT !.old = TRUE].state = r.state
  BY TrackingAssumption DEF TrackingAssumption, Report, NoReport

(* A batch of reports closes finitely many obligations of a seller.            *)
LEMMA ShareType ==
  ASSUME NEW B \in SUBSET Events, NEW s
  PROVE IsFiniteSet({e \in Resolved(B) : EventSeller(e) = s}) /\ Share(B, s) \in Nat
  <1>1. {e \in Resolved(B) : EventSeller(e) = s} \in SUBSET Events
    BY DEF Resolved
  <1> QED BY <1>1, FS_Subset, FS_CardinalityType, TrackingAssumption DEF TrackingAssumption, Share

(* Types, and the quota as the limit of what is used.                          *)
LEMMA TypeStep == TypeOK /\ [Next]_vars => TypeOK'
  <1> SUFFICES ASSUME TypeOK, [Next]_vars PROVE TypeOK'
    OBVIOUS
  <1> USE EventTypes, ReportTypes DEF TypeOK, sourceVars, partnerVars
  <1>1. ASSUME NEW c \in Clients, NEW e \in Events, Submit(c, e) PROVE TypeOK'
    <2> DEFINE r == [event |-> e, known |-> Accepted(e), parent |-> \E d \in Creates(OrderOf[e]) : Accepted(d)]
    <2>1. r \in Request
      BY DEF Request, Accepted
    <2> HIDE DEF r
    <2>2. request' = [request EXCEPT ![c] = r]
      BY <1>1 DEF Submit, r
    <2> QED BY <1>1, <2>1, <2>2 DEF Submit
  <1>2. ASSUME NEW c \in Clients, Accept(c) PROVE TypeOK'
    <2>1. request[c] \in Request /\ request[c].event \in Events
      BY <1>2 DEF Accept, Request
    <2>2. used' \in [Sellers -> 0 .. Quota]
      BY <1>2, <2>1 DEF Accept, QuotaAllows
    <2> QED BY <1>2, <2>1, <2>2 DEF Accept, Answered
  <1>3. ASSUME NEW c \in Clients, NotAccepted(c) PROVE TypeOK'
    BY <1>3 DEF NotAccepted, Answered
  <1>4. ASSUME NEW i \in Instances, RelaySend(i) PROVE TypeOK'
    BY <1>4 DEF RelaySend, Batches, Published, Relayable
  <1>5. ASSUME NEW i \in Instances, RelayMark(i) PROVE TypeOK'
    BY <1>5 DEF RelayMark, SentReports, Mark, NoReport
  <1>6. ASSUME NEW i \in Instances, RelayPurge(i) PROVE TypeOK'
    BY <1>6 DEF RelayPurge, SentReports, NoReport
  <1>7. ASSUME NEW i \in Instances, RelayFails(i) PROVE TypeOK'
    BY <1>7 DEF RelayFails, Fault, Published, Batches, Relayable
  <1>8. ASSUME NEW i \in Instances, Crash(i) PROVE TypeOK'
    BY <1>8 DEF Crash, Fault
  <1>9. ASSUME NEW i \in Instances, NEW e \in Events, Deliver(i, e) PROVE TypeOK'
    BY <1>9 DEF Deliver
  <1>10. ASSUME NEW e \in Events, Age(e) PROVE TypeOK'
    BY <1>10 DEF Age
  <1>11. CASE Receive
    <2>1. PICK B \in SUBSET Events :
            /\ \A e \in B : topic[e] > 0
            /\ obligation' = [e \in Events |-> IF e \in Resolved(B) THEN "closed" ELSE obligation[e]]
            /\ used' = [s \in Sellers |-> Less(used[s], Share(B, s))]
            /\ \/ topic' = [e \in Events |-> IF e \in B THEN topic[e] - 1 ELSE topic[e]]
                  /\ UNCHANGED faults
               \/ Fault("redelivery") /\ UNCHANGED topic
      BY <1>11 DEF Receive
    <2>2. \A s \in Sellers : Share(B, s) \in Nat
      BY ShareType
    <2>3. used' \in [Sellers -> 0 .. Quota]
      BY <2>1, <2>2 DEF Less
    <2> QED BY <1>11, <2>1, <2>3 DEF Receive, Fault
  <1>12. CASE UNCHANGED vars
    BY <1>12 DEF vars, sourceVars, partnerVars
  <1> QED BY <1>1, <1>2, <1>3, <1>4, <1>5, <1>6, <1>7, <1>8, <1>9, <1>10, <1>11, <1>12 DEF Next, Client, Relay

-----------------------------------------------------------------------------
(* Reports *)

(* What is delivered was accepted, and what is reported was delivered; an      *)
(* acknowledged batch is in the topic or the source has closed its obligation. *)
ReportInv ==
  /\ \A e \in Events : Delivered(e) => Accepted(e)
  /\ \A i \in Instances : \A e \in relaying[i] : topic[e] > 0 \/ obligation[e] = "closed"
  /\ ReportedIffDelivered

(* completion_outbox and the effect of an event, action by action.             *)
LEMMA ReportStep == TypeOK /\ ReportInv /\ [Next]_vars => ReportInv'
  <1> SUFFICES ASSUME TypeOK, ReportInv, [Next]_vars PROVE ReportInv'
    OBVIOUS
  <1> USE EventTypes, ReportTypes DEF TypeOK, ReportInv, ReportedIffDelivered, Delivered, Accepted, sourceVars, partnerVars
  <1>1. ASSUME NEW c \in Clients, NEW e \in Events, Submit(c, e) PROVE ReportInv'
    BY <1>1 DEF Submit
  <1>2. ASSUME NEW c \in Clients, Accept(c) PROVE ReportInv'
    BY <1>2 DEF Accept, Answered
  <1>3. ASSUME NEW c \in Clients, NotAccepted(c) PROVE ReportInv'
    BY <1>3 DEF NotAccepted, Answered
  <1>4. ASSUME NEW i \in Instances, RelaySend(i) PROVE ReportInv'
    BY <1>4 DEF RelaySend, Batches, Published, Relayable
  <1>5. ASSUME NEW i \in Instances, RelayMark(i) PROVE ReportInv'
    BY <1>5 DEF RelayMark, SentReports, Mark, NoReport
  <1>6. ASSUME NEW i \in Instances, RelayPurge(i) PROVE ReportInv'
    BY <1>6 DEF RelayPurge, SentReports, NoReport
  <1>7. ASSUME NEW i \in Instances, RelayFails(i) PROVE ReportInv'
    BY <1>7 DEF RelayFails, Fault, Published, Batches, Relayable
  <1>8. ASSUME NEW i \in Instances, Crash(i) PROVE ReportInv'
    BY <1>8 DEF Crash, Fault
  <1>9. ASSUME NEW i \in Instances, NEW e \in Events, Deliver(i, e) PROVE ReportInv'
    <2>0. /\ SeqOf[e] = orderSeq[OrderOf[e]] + 1 /\ orderSeq[OrderOf[e]] \in Nat
          /\ orderSeq' = [orderSeq EXCEPT ![OrderOf[e]] = SeqOf[e]]
      BY <1>9 DEF Deliver
    <2>1. ASSUME NEW d \in Events PROVE Delivered(d)' <=> Delivered(d) \/ d = e
      <3>1. CASE OrderOf[d] = OrderOf[e]
        <4>1. orderSeq'[OrderOf[d]] = orderSeq[OrderOf[d]] + 1 /\ orderSeq[OrderOf[d]] \in Nat
          BY <2>0, <3>1
        <4>2. d = e <=> SeqOf[d] = orderSeq[OrderOf[d]] + 1
          BY <2>0, <3>1
        <4> QED BY <4>1, <4>2
      <3>2. CASE OrderOf[d] # OrderOf[e]
        BY <2>0, <3>2
      <3> QED BY <3>1, <3>2
    <2>2. \A d \in Events : (report'[d].state = "unsent") <=> (report[d].state = "unsent" \/ d = e)
      BY <1>9 DEF Deliver
    <2>3. UNCHANGED <<obligation, topic, relaying>> /\ obligation[e] # "none"
      BY <1>9 DEF Deliver
    <2> HIDE DEF Delivered
    <2> QED BY <2>1, <2>2, <2>3
  <1>10. ASSUME NEW e \in Events, Age(e) PROVE ReportInv'
    BY <1>10 DEF Age
  <1>11. CASE Receive
    BY <1>11 DEF Receive, Resolved, Share, Less, Fault
  <1>12. CASE UNCHANGED vars
    BY <1>12 DEF vars, sourceVars, partnerVars
  <1> QED BY <1>1, <1>2, <1>3, <1>4, <1>5, <1>6, <1>7, <1>8, <1>9, <1>10, <1>11, <1>12 DEF Next, Client, Relay

-----------------------------------------------------------------------------
(* Quota *)

FirstOf(s)    == {e \in EventsOf(s) : Accepted(e) /\ SeqOf[e] = 1}
OpenOf(s)     == {e \in EventsOf(s) : obligation[e] = "open"}
ClosedOf(s)   == {e \in EventsOf(s) : obligation[e] = "closed"}
AcceptedOf(s) == {e \in EventsOf(s) : Accepted(e)}

HasCreate(e) == \E d \in Creates(OrderOf[e]) : Accepted(d)

(* With a quota only operations of an accepted order are accepted, and what a  *)
(* request has read of its CREATE stays true; the quota is accounted for.      *)
ParentInv ==
  /\ \A c \in Clients : request[c] # None /\ request[c].parent => HasCreate(request[c].event)
  /\ Quota > 0 => \A e \in Events : Accepted(e) => HasCreate(e)

UsedInv ==
  Quota > 0 => \A s \in Sellers :
    used[s] = OperationsPerOrder * Cardinality(FirstOf(s)) - Cardinality(ClosedOf(s))

(* All these sets are finite.                                                  *)
LEMMA QuotaSets ==
  ASSUME NEW s
  PROVE /\ IsFiniteSet(FirstOf(s)) /\ IsFiniteSet(OpenOf(s))
        /\ IsFiniteSet(ClosedOf(s)) /\ IsFiniteSet(AcceptedOf(s))
        /\ Cardinality(FirstOf(s)) \in Nat /\ Cardinality(OpenOf(s)) \in Nat
        /\ Cardinality(ClosedOf(s)) \in Nat /\ Cardinality(AcceptedOf(s)) \in Nat
  <1>1. /\ FirstOf(s) \in SUBSET Events /\ OpenOf(s) \in SUBSET Events
        /\ ClosedOf(s) \in SUBSET Events /\ AcceptedOf(s) \in SUBSET Events
    BY DEF FirstOf, OpenOf, ClosedOf, AcceptedOf, EventsOf
  <1>2. \A S \in SUBSET Events : IsFiniteSet(S)
    BY FS_Subset, TrackingAssumption DEF TrackingAssumption
  <1> QED BY <1>1, <1>2, FS_CardinalityType

(* Accepted operations are those of accepted orders, at most                   *)
(* OPERATIONS_PER_ORDER of each: an operation is known by its order's CREATE   *)
(* and its place.                                                              *)
LEMMA AcceptedFit ==
  ASSUME TypeOK, ParentInv, Quota > 0, NEW s \in Sellers
  PROVE Cardinality(AcceptedOf(s)) <= OperationsPerOrder * Cardinality(FirstOf(s))
  <1> DEFINE create(e) == CHOOSE d \in Creates(OrderOf[e]) : Accepted(d)
             places == 1 .. OperationsPerOrder
             f == [e \in AcceptedOf(s) |-> <<create(e), SeqOf[e]>>]
  <1>1. \A e \in AcceptedOf(s) :
          create(e) \in FirstOf(s) /\ OrderOf[create(e)] = OrderOf[e] /\ SeqOf[e] \in places /\ e \in Events
    <2> SUFFICES ASSUME NEW e \in AcceptedOf(s)
                 PROVE create(e) \in FirstOf(s) /\ OrderOf[create(e)] = OrderOf[e] /\ SeqOf[e] \in places /\ e \in Events
      OBVIOUS
    <2>1. e \in Events /\ EventSeller(e) = s /\ Accepted(e)
      BY DEF AcceptedOf, EventsOf
    <2>2. HasCreate(e)
      BY <2>1 DEF ParentInv
    <2>3. create(e) \in Creates(OrderOf[e]) /\ Accepted(create(e))
      BY <2>2 DEF HasCreate
    <2> QED BY <2>1, <2>3, EventTypes DEF Creates, FirstOf, EventsOf, EventSeller
  <1> HIDE DEF create
  <1>2. f \in [AcceptedOf(s) -> FirstOf(s) \X places]
    BY <1>1
  <1>3. \A a, b \in AcceptedOf(s) : f[a] = f[b] => a = b
    <2> SUFFICES ASSUME NEW a \in AcceptedOf(s), NEW b \in AcceptedOf(s), f[a] = f[b] PROVE a = b
      OBVIOUS
    <2>1. create(a) = create(b) /\ SeqOf[a] = SeqOf[b]
      OBVIOUS
    <2> QED BY <1>1, <2>1, EventTypes
  <1>4. f \in Injection(AcceptedOf(s), FirstOf(s) \X places)
    BY <1>2, <1>3 DEF Injection, IsInjective
  <1>5. /\ IsFiniteSet(places) /\ Cardinality(places) = OperationsPerOrder
    BY FS_Interval, EventTypes
  <1>6. /\ IsFiniteSet(FirstOf(s) \X places)
        /\ Cardinality(FirstOf(s) \X places) = Cardinality(FirstOf(s)) * Cardinality(places)
    BY <1>5, QuotaSets, FS_Product
  <1>7. Cardinality(AcceptedOf(s)) <= Cardinality(FirstOf(s) \X places)
    BY <1>4, <1>6, FS_Injection
  <1> HIDE DEF f, places
  <1>8. Cardinality(FirstOf(s)) * Cardinality(places) = OperationsPerOrder * Cardinality(FirstOf(s))
    BY <1>5, QuotaSets, EventTypes
  <1> QED BY <1>6, <1>7, <1>8

(* So what is open is within what is used.                                     *)
LEMMA OpenWithinUsed ==
  ASSUME TypeOK, ParentInv, UsedInv, Quota > 0, NEW s \in Sellers
  PROVE Cardinality(OpenOf(s)) <= used[s]
  <1>1. OpenOf(s) \cup ClosedOf(s) = AcceptedOf(s) /\ OpenOf(s) \cap ClosedOf(s) = {}
    BY DEF OpenOf, ClosedOf, AcceptedOf, Accepted, EventsOf, TypeOK
  <1>2. Cardinality(AcceptedOf(s)) = Cardinality(OpenOf(s)) + Cardinality(ClosedOf(s)) - Cardinality({})
    BY <1>1, QuotaSets, FS_Union
  <1>3. Cardinality({}) = 0
    BY FS_EmptySet
  <1>4. used[s] = OperationsPerOrder * Cardinality(FirstOf(s)) - Cardinality(ClosedOf(s))
    BY DEF UsedInv
  <1>5. OperationsPerOrder * Cardinality(FirstOf(s)) \in Nat
    BY QuotaSets, EventTypes
  <1> QED BY <1>2, <1>3, <1>4, <1>5, AcceptedFit, QuotaSets

(* Only accept opens an obligation, and nothing withdraws one.                 *)
LEMMA ParentStep == TypeOK /\ ParentInv /\ [Next]_vars => ParentInv'
  <1> SUFFICES ASSUME TypeOK, ParentInv, [Next]_vars PROVE ParentInv'
    OBVIOUS
  <1> USE EventTypes DEF TypeOK, sourceVars, partnerVars
  <1>0. ASSUME UNCHANGED <<obligation, request>> PROVE ParentInv'
    BY <1>0 DEF ParentInv, HasCreate, Accepted
  <1>1. ASSUME NEW c \in Clients, NEW e \in Events, Submit(c, e) PROVE ParentInv'
    <2>1. \A d \in Events : HasCreate(d)' = HasCreate(d) /\ Accepted(d)' = Accepted(d)
      BY <1>1 DEF Submit, HasCreate, Accepted
    <2>2. request'[c].event = e /\ (request'[c].parent => HasCreate(e))
      BY <1>1 DEF Submit, HasCreate
    <2>3. \A b \in Clients \ {c} : request'[b] = request[b]
      BY <1>1 DEF Submit
    <2>4. \A b \in Clients : request[b] # None => request[b].event \in Events
      BY DEF Request
    <2> QED BY <2>1, <2>2, <2>3, <2>4 DEF ParentInv
  <1>2. ASSUME NEW c \in Clients, Accept(c) PROVE ParentInv'
    <2>0. PICK e \in Events : e = request[c].event /\ request[c] # None
      BY <1>2 DEF Accept, Request
    <2>1. \A d \in Events : Accepted(d)' <=> Accepted(d) \/ d = e
      BY <1>2, <2>0 DEF Accept, Accepted
    <2>2. \A d \in Events : HasCreate(d) => HasCreate(d)'
      BY <2>1 DEF HasCreate, Creates
    <2>3. Quota > 0 => HasCreate(e)'
      <3>1. CASE Quota > 0 /\ SeqOf[e] = 1
        <4>1. e \in Creates(OrderOf[e]) /\ Accepted(e)'
          BY <2>0, <2>1, <3>1 DEF Creates
        <4> QED BY <4>1 DEF HasCreate, Creates
      <3>2. CASE Quota > 0 /\ SeqOf[e] # 1
        <4>1. request[c].parent
          BY <1>2, <2>0, <3>2 DEF Accept, QuotaAllows
        <4>2. HasCreate(e)
          BY <2>0, <4>1 DEF ParentInv
        <4> QED BY <2>0, <2>2, <4>2
      <3> QED BY <3>1, <3>2
    <2>4. \A b \in Clients : request'[b] # None => request'[b] = request[b] /\ request[b].event \in Events
      BY <1>2 DEF Accept, Answered, Request
    <2> QED BY <2>1, <2>2, <2>3, <2>4 DEF ParentInv
  <1>3. ASSUME NEW c \in Clients, NotAccepted(c) PROVE ParentInv'
    <2>1. \A d \in Events : HasCreate(d)' = HasCreate(d) /\ Accepted(d)' = Accepted(d)
      BY <1>3 DEF NotAccepted, HasCreate, Accepted
    <2>2. \A b \in Clients : request'[b] # None => request'[b] = request[b] /\ request[b].event \in Events
      BY <1>3 DEF NotAccepted, Answered, Request
    <2> QED BY <2>1, <2>2 DEF ParentInv
  <1>4. CASE Receive
    <2>1. \A d \in Events : Accepted(d)' = Accepted(d)
      BY <1>4 DEF Receive, Accepted, Resolved
    <2>2. \A d \in Events : HasCreate(d)' = HasCreate(d)
      BY <2>1 DEF HasCreate, Creates
    <2>3. UNCHANGED request /\ \A b \in Clients : request[b] # None => request[b].event \in Events
      BY <1>4 DEF Receive, Request
    <2> QED BY <2>1, <2>2, <2>3 DEF ParentInv
  <1>5. ASSUME NEW i \in Instances, Relay(i) \/ RelayPurge(i) \/ RelayFails(i) \/ Crash(i)
               \/ \E e \in Events : Deliver(i, e)
        PROVE ParentInv'
    BY <1>5, <1>0 DEF Relay, RelaySend, RelayMark, RelayPurge, RelayFails, Crash, Deliver
  <1>6. ASSUME NEW e \in Events, Age(e) PROVE ParentInv'
    BY <1>6, <1>0 DEF Age
  <1>7. CASE UNCHANGED vars
    BY <1>7, <1>0 DEF vars
  <1> QED BY <1>1, <1>2, <1>3, <1>4, <1>5, <1>6, <1>7 DEF Next, Client

(* accept reserves for one CREATE more; resolve returns one share for each     *)
(* obligation it closes, and GREATEST never cuts anything off.                 *)
LEMMA UsedStep == TypeOK /\ ParentInv /\ UsedInv /\ [Next]_vars => UsedInv'
  <1> SUFFICES ASSUME TypeOK, ParentInv, UsedInv, [Next]_vars, Quota > 0, NEW s \in Sellers
               PROVE used'[s] = OperationsPerOrder * Cardinality(FirstOf(s)') - Cardinality(ClosedOf(s)')
    BY DEF UsedInv
  <1> DEFINE Goal == used'[s] = OperationsPerOrder * Cardinality(FirstOf(s)') - Cardinality(ClosedOf(s)')
  <1>u. used[s] = OperationsPerOrder * Cardinality(FirstOf(s)) - Cardinality(ClosedOf(s))
    BY DEF UsedInv
  <1>q. /\ OperationsPerOrder \in Nat /\ used[s] \in Nat
        /\ Cardinality(FirstOf(s)) \in Nat /\ Cardinality(ClosedOf(s)) \in Nat
    BY QuotaSets, EventTypes DEF TypeOK
  <1>0. ASSUME UNCHANGED <<obligation, used>> PROVE Goal
    BY <1>0, <1>u DEF FirstOf, ClosedOf, Accepted
  <1>1. ASSUME NEW c \in Clients, Accept(c) PROVE Goal
    <2> DEFINE e == request[c].event
    <2>0. e \in Events /\ EventSeller(e) \in Sellers /\ SeqOf[e] \in Nat
      BY <1>1, EventTypes DEF Accept, Request, TypeOK
    <2>1. /\ obligation' = [obligation EXCEPT ![e] = "open"] /\ obligation[e] = "none"
          /\ used' = IF SeqOf[e] = 1
                     THEN [used EXCEPT ![EventSeller(e)] = @ + OperationsPerOrder]
                     ELSE used
      BY <1>1 DEF Accept, Accepted
    <2>2. ClosedOf(s)' = ClosedOf(s)
      BY <2>0, <2>1 DEF ClosedOf, EventsOf, TypeOK
    <2>3. CASE SeqOf[e] = 1 /\ EventSeller(e) = s
      <3>1. FirstOf(s)' = FirstOf(s) \cup {e} /\ e \notin FirstOf(s)
        BY <2>0, <2>1, <2>3 DEF FirstOf, EventsOf, Accepted, TypeOK
      <3>2. Cardinality(FirstOf(s)') = Cardinality(FirstOf(s)) + 1
        BY <3>1, QuotaSets, FS_AddElement
      <3>3. used'[s] = used[s] + OperationsPerOrder
        BY <2>0, <2>1, <2>3 DEF TypeOK
      <3>4. OperationsPerOrder * (Cardinality(FirstOf(s)) + 1) = OperationsPerOrder * Cardinality(FirstOf(s)) + OperationsPerOrder
        BY <1>q
      <3>5. OperationsPerOrder * Cardinality(FirstOf(s)) \in Nat
        BY <1>q
      <3> QED BY <1>u, <1>q, <2>2, <3>2, <3>3, <3>4, <3>5
    <2>4. CASE ~(SeqOf[e] = 1 /\ EventSeller(e) = s)
      <3>1. FirstOf(s)' = FirstOf(s)
        BY <2>0, <2>1, <2>4 DEF FirstOf, EventsOf, Accepted, TypeOK
      <3>2. used'[s] = used[s]
        BY <2>0, <2>1, <2>4 DEF TypeOK
      <3> QED BY <1>u, <2>2, <3>1, <3>2
    <2> QED BY <2>3, <2>4
  <1>2. CASE Receive
    <2>1. PICK B \in SUBSET Events :
            /\ obligation' = [e \in Events |-> IF e \in Resolved(B) THEN "closed" ELSE obligation[e]]
            /\ used' = [t \in Sellers |-> Less(used[t], Share(B, t))]
      BY <1>2 DEF Receive
    <2> DEFINE R == {e \in Resolved(B) : EventSeller(e) = s}
    <2>2. FirstOf(s)' = FirstOf(s)
      BY <2>1 DEF FirstOf, EventsOf, Accepted, Resolved, TypeOK
    <2>3. ClosedOf(s)' = ClosedOf(s) \cup R /\ ClosedOf(s) \cap R = {} /\ R \in SUBSET OpenOf(s)
      BY <2>1 DEF ClosedOf, OpenOf, EventsOf, Resolved, TypeOK
    <2>4. IsFiniteSet(R) /\ Cardinality(R) \in Nat /\ Share(B, s) = Cardinality(R)
      BY ShareType DEF Share
    <2> HIDE DEF R
    <2>5. Cardinality(ClosedOf(s)') = Cardinality(ClosedOf(s)) + Cardinality(R)
      <3>1. IsFiniteSet(ClosedOf(s)) /\ Cardinality({}) = 0
        BY QuotaSets, FS_EmptySet
      <3>2. Cardinality(ClosedOf(s) \cup R) = Cardinality(ClosedOf(s)) + Cardinality(R) - Cardinality({})
        BY <2>3, <2>4, <3>1, FS_Union
      <3> QED BY <1>q, <2>3, <2>4, <3>1, <3>2
    <2>6. Cardinality(R) <= Cardinality(OpenOf(s)) /\ Cardinality(OpenOf(s)) \in Nat
      BY <2>3, QuotaSets, FS_Subset
    <2>7. Cardinality(R) <= used[s]
      BY <2>4, <2>6, <1>q, OpenWithinUsed
    <2>8. used'[s] = used[s] - Cardinality(R)
      BY <2>1, <2>4, <2>7 DEF Less
    <2>9. OperationsPerOrder * Cardinality(FirstOf(s)) \in Nat
      BY <1>q
    <2> QED BY <1>u, <1>q, <2>2, <2>4, <2>5, <2>8, <2>9
  <1>3. ASSUME NEW c \in Clients, (\E e \in Events : Submit(c, e)) \/ NotAccepted(c) PROVE Goal
    BY <1>3, <1>0 DEF Submit, NotAccepted
  <1>4. ASSUME NEW i \in Instances, Relay(i) \/ RelayPurge(i) \/ RelayFails(i) \/ Crash(i)
               \/ \E e \in Events : Deliver(i, e)
        PROVE Goal
    BY <1>4, <1>0 DEF Relay, RelaySend, RelayMark, RelayPurge, RelayFails, Crash, Deliver, sourceVars
  <1>5. ASSUME NEW e \in Events, Age(e) PROVE Goal
    BY <1>5, <1>0 DEF Age, sourceVars
  <1>6. CASE UNCHANGED vars
    BY <1>6, <1>0 DEF vars, sourceVars
  <1> QED BY <1>1, <1>2, <1>3, <1>4, <1>5, <1>6 DEF Next, Client

-----------------------------------------------------------------------------
TrackingInv == TypeOK /\ ReportInv /\ ParentInv /\ UsedInv

(* At the start nothing is accepted.                                           *)
LEMMA TrackingStarts == Init => TrackingInv
  <1> SUFFICES ASSUME Init PROVE TrackingInv
    OBVIOUS
  <1> USE EventTypes, ReportTypes DEF Init
  <1>1. TypeOK
    BY DEF TypeOK
  <1>2. ReportInv
    BY DEF ReportInv, ReportedIffDelivered, Delivered
  <1>3. ParentInv
    BY DEF ParentInv, Accepted
  <1>4. \A s \in Sellers : FirstOf(s) = {} /\ ClosedOf(s) = {}
    BY DEF FirstOf, ClosedOf, EventsOf, Accepted
  <1>5. UsedInv
    <2>1. \A s \in Sellers : Cardinality(FirstOf(s)) = 0 /\ Cardinality(ClosedOf(s)) = 0 /\ used[s] = 0
      BY <1>4, FS_EmptySet
    <2>2. OperationsPerOrder * 0 - 0 = 0
      OBVIOUS
    <2> QED BY <2>1, <2>2 DEF UsedInv
  <1> QED BY <1>1, <1>2, <1>3, <1>5 DEF TrackingInv

(* The parts of the invariant together are inductive.                          *)
LEMMA TrackingInvariant == Spec => []TrackingInv
  <1>1. TrackingInv /\ [Next]_vars => TrackingInv'
    BY TypeStep, ReportStep, ParentStep, UsedStep DEF TrackingInv
  <1> QED BY TrackingStarts, <1>1, PTL DEF Spec

(* Whatever requests and reports are repeated, reordered or lost and whichever *)
(* instance dies: what a seller has used is what its accepted orders reserved  *)
(* less what is closed, and its open obligations are within it.                *)
THEOREM QuotaCorrect == Spec => [](TypeOK /\ QuotaAccounts)
  <1>1. TrackingInv => TypeOK /\ QuotaAccounts
    <2> SUFFICES ASSUME TrackingInv PROVE QuotaAccounts
      BY DEF TrackingInv
    <2>1. TypeOK /\ ParentInv /\ UsedInv
      BY DEF TrackingInv
    <2>2. ASSUME Quota > 0, NEW s \in Sellers
          PROVE /\ used[s] = OperationsPerOrder * Cardinality(FirstOf(s)) - Cardinality(ClosedOf(s))
                /\ Cardinality(OpenOf(s)) <= used[s]
      BY <2>1, <2>2, OpenWithinUsed DEF UsedInv
    <2> QED BY <2>2 DEF QuotaAccounts, FirstOf, ClosedOf, OpenOf
  <1> QED BY <1>1, TrackingInvariant, PTL

(* A delivery is known to the source or its report is on the way, and nothing  *)
(* else is reported.                                                           *)
THEOREM ReportsCorrect == Spec => []ReportedIffDelivered
  <1>1. TrackingInv => ReportedIffDelivered
    BY DEF TrackingInv, ReportInv
  <1> QED BY <1>1, TrackingInvariant, PTL
=============================================================================
