------------------------- MODULE OrderNotifications -------------------------
(* NotificationConsumer: the notification of an order's outcome.  A record of  *)
(* a stock topic is checked against the history, the notification is sent to   *)
(* an outside gateway, and the history row commits after that; the offset is   *)
(* committed last.                                                             *)
EXTENDS Integers, FiniteSets

CONSTANTS
  Events,        \* the stock events, one per decided order
  Consumers,     \* consumer threads of notification-group
  Retries,       \* retries before a record goes to its dead letter topic
  MaxCopies,     \* bound: how often the inventory relay publishes an event
  Faults,        \* which kinds of fault may happen
  MaxFaults,     \* bound: how many faults may happen
  None           \* no event

FaultKinds == {"crash", "rebalance", "database", "send"}

ASSUME NotificationAssumption ==
  /\ {Retries, MaxFaults} \subseteq Nat /\ MaxCopies \in Nat \ {0}
  /\ Faults \subseteq FaultKinds
  /\ None \notin Events /\ IsFiniteSet(Consumers)

VARIABLES
  published,     \* per event: how often it was published
  topic,         \* per event: copies that are not acknowledged
  tx,            \* per consumer: the record and its transaction
  history,       \* table notification_history: rows per event
  sends,         \* per event: notifications the gateway has accepted
  deadLetters,   \* the events in dead letter topics
  faults         \* how many faults have happened

vars == <<published, topic, tx, history, sends, deadLetters, faults>>

Transaction == [phase : {"idle", "open", "sent", "retry"}, event : Events \cup {None},
                tries : 0 .. Retries, owns : BOOLEAN, known : BOOLEAN]
Idle == [phase |-> "idle", event |-> None, tries |-> 0, owns |-> FALSE, known |-> FALSE]

(* Tables, topics and threads hold what their declarations say; a record is    *)
(* tried no more often than the error handler allows.                          *)
TypeOK ==
  /\ published \in [Events -> 0 .. MaxCopies]
  /\ topic \in [Events -> 0 .. MaxCopies]
  /\ tx \in [Consumers -> Transaction]
  /\ history \in [Events -> Nat]
  /\ sends \in [Events -> Nat]
  /\ deadLetters \in SUBSET Events
  /\ faults \in 0 .. MaxFaults

Init ==
  /\ published = [e \in Events |-> 0]
  /\ topic = [e \in Events |-> 0]
  /\ tx = [c \in Consumers |-> Idle]
  /\ history = [e \in Events |-> 0]
  /\ sends = [e \in Events |-> 0]
  /\ deadLetters = {}
  /\ faults = 0

Fault(kind) == kind \in Faults /\ faults < MaxFaults /\ faults' = faults + 1

-----------------------------------------------------------------------------
(* The inventory service's relay publishes at least once.                      *)
Publish(e) ==
  /\ published[e] < MaxCopies
  /\ published' = [published EXCEPT ![e] = @ + 1]
  /\ topic' = [topic EXCEPT ![e] = @ + 1]
  /\ UNCHANGED <<tx, history, sends, deadLetters, faults>>

HeldBy(e) == {c \in Consumers : tx[c].event = e /\ tx[c].owns}

(* existsByEventId, the first read of the transaction.                         *)
Open(c, e, n) ==
  tx' = [tx EXCEPT ![c] = [phase |-> "open", event |-> e, tries |-> n, owns |-> TRUE,
                           known |-> history[e] > 0]]

(* A consumer is handed a record; copies of one event share a partition.       *)
Receive(c, e) ==
  /\ tx[c].phase = "idle" /\ topic[e] > 0 /\ HeldBy(e) = {}
  /\ Open(c, e, 0)
  /\ UNCHANGED <<published, topic, history, sends, deadLetters, faults>>

(* The container hands it the failed record again.                             *)
Redeliver(c) ==
  /\ tx[c].phase = "retry"
  /\ Open(c, tx[c].event, tx[c].tries)
  /\ UNCHANGED <<published, topic, history, sends, deadLetters, faults>>

(* The offset is committed, unless the partition has moved on.                 *)
Acknowledge(c) ==
  /\ topic' = [topic EXCEPT ![tx[c].event] = IF tx[c].owns THEN @ - 1 ELSE @]
  /\ tx' = [tx EXCEPT ![c] = Idle]

(* The commit stands, but the process dies before the acknowledgement.         *)
Leave(c) == \/ Acknowledge(c) /\ UNCHANGED faults
            \/ Fault("crash") /\ tx' = [tx EXCEPT ![c] = Idle] /\ UNCHANGED topic

(* The event is in the history: nothing is sent.                               *)
SkipDuplicate(c) ==
  /\ tx[c].phase = "open" /\ tx[c].known
  /\ Leave(c)
  /\ UNCHANGED <<published, history, sends, deadLetters>>

(* A faulty Send: the history is not asked.                                    *)
SendAlways(c) ==
  /\ tx[c].phase = "open"
  /\ sends' = [sends EXCEPT ![tx[c].event] = @ + 1]
  /\ tx' = [tx EXCEPT ![c].phase = "sent"]
  /\ UNCHANGED <<published, topic, history, deadLetters, faults>>

(* notificationSender.send: nothing takes this back.                           *)
Send(c) ==
  /\ tx[c].phase = "open" /\ ~tx[c].known
  /\ sends' = [sends EXCEPT ![tx[c].event] = @ + 1]
  /\ tx' = [tx EXCEPT ![c].phase = "sent"]
  /\ UNCHANGED <<published, topic, history, deadLetters, faults>>

(* The history row is saved and the transaction commits; event_id is not       *)
(* UNIQUE in this table.                                                       *)
Save(c) ==
  /\ tx[c].phase = "sent"
  /\ history' = [history EXCEPT ![tx[c].event] = @ + 1]
  /\ Leave(c)
  /\ UNCHANGED <<published, sends, deadLetters>>

(* A faulty RollBack: the failed record is acknowledged.                       *)
RollBackAcknowledged(c) ==
  /\ Acknowledge(c)
  /\ UNCHANGED <<published, history, sends, deadLetters>>

(* A faulty RollBack: the container moves on without seeking back to it.       *)
RollBackLeftBehind(c) ==
  /\ tx' = [tx EXCEPT ![c] = [Idle EXCEPT !.event = tx[c].event, !.owns = TRUE]]
  /\ UNCHANGED <<topic, deadLetters, published, history, sends>>

(* The container tries the record again, and gives it to the dead letter topic *)
(* after the last retry.                                                       *)
RollBack(c) ==
  /\ IF tx[c].tries < Retries
     THEN /\ tx' = [tx EXCEPT ![c] = IF tx[c].owns
                                     THEN [Idle EXCEPT !.phase = "retry", !.event = tx[c].event,
                                                       !.tries = tx[c].tries + 1, !.owns = TRUE]
                                     ELSE Idle]
          /\ UNCHANGED <<topic, deadLetters>>
     ELSE /\ Acknowledge(c)
          /\ deadLetters' = deadLetters \cup {tx[c].event}
  /\ UNCHANGED <<published, history, sends>>

(* The gateway refuses.                                                        *)
SendFails(c) ==
  /\ tx[c].phase = "open" /\ ~tx[c].known
  /\ Fault("send")
  /\ RollBack(c)

(* A statement or the commit fails, before or after the notification is sent.  *)
DatabaseError(c) ==
  /\ tx[c].phase \in {"open", "sent"}
  /\ Fault("database")
  /\ RollBack(c)

(* The process dies in the middle, or the group takes its partition.           *)
Crash(c) ==
  /\ tx[c].phase # "idle"
  /\ Fault("crash")
  /\ tx' = [tx EXCEPT ![c] = Idle]
  /\ UNCHANGED <<published, topic, history, sends, deadLetters>>

Rebalance(c) ==
  /\ tx[c].owns
  /\ Fault("rebalance")
  /\ tx' = [tx EXCEPT ![c] = IF @.phase = "retry" THEN Idle ELSE [@ EXCEPT !.owns = FALSE]]
  /\ UNCHANGED <<published, topic, history, sends, deadLetters>>

-----------------------------------------------------------------------------
Consume(c) == \/ \E e \in Events : Receive(c, e)
              \/ Redeliver(c) \/ SkipDuplicate(c) \/ Send(c) \/ Save(c)

Next ==
  \/ \E e \in Events : Publish(e)
  \/ \E c \in Consumers : \/ Consume(c) \/ SendFails(c) \/ DatabaseError(c)
                          \/ Crash(c) \/ Rebalance(c)

Spec == Init /\ [][Next]_vars

(* Listener threads keep polling; nothing is assumed of the relay or of faults.*)
Fairness == \A c \in Consumers : WF_vars(Consume(c))
FairSpec == Spec /\ Fairness

-----------------------------------------------------------------------------
(* Properties *)

(* No outcome is swallowed: an event whose copies are all acknowledged was     *)
(* sent, or is in a dead letter topic.                                         *)
NoOutcomeSwallowed ==
  \A e \in Events : published[e] > 0 /\ topic[e] = 0 => sends[e] > 0 \/ e \in deadLetters

(* "Redelivery does not send the same notification twice", as far as the code  *)
(* keeps it: however often the relay publishes an event it is sent once; every *)
(* further notification takes a failure between sending and committing.        *)
DuplicatesNeedFailures == \A e \in Events : sends[e] <= 1 + faults

(* Every published event is notified in the end, or given to a person through  *)
(* its dead letter topic; no failure leaves it waiting for ever.               *)
EveryOutcomeSettled == \A e \in Events : published[e] > 0 ~> (sends[e] > 0 \/ e \in deadLetters)
=============================================================================
