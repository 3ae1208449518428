------------------------------ MODULE OrderSaga ------------------------------
(* Orders from their creation to the partner's topic: the order service, the   *)
(* inventory service and the topics between them.                              *)
(*                                                                             *)
(* An order is stored PENDING together with its first outbox row; a relay      *)
(* publishes the outbox; the inventory service deducts the stock and answers   *)
(* through an outbox of its own; the answer confirms or cancels the order.  A  *)
(* confirmed order sends CREATE, CHANGE and CANCEL operations to the partner.  *)
(*                                                                             *)
(* Both databases run at REPEATABLE READ.  A transaction of the order service  *)
(* locks before it reads, so it is one action.  A transaction of the inventory *)
(* service reads its snapshot first and writes later: two actions.  Only the   *)
(* relay reads whether a row is SENT, so sending and marking are one action.   *)
EXTENDS Integers, Sequences, FiniteSets

CONSTANTS
  Orders,         \* the orders customers may create
  Products,       \* the products that have a row in inventories
  ProductOf,      \* ProductOf[o]: the product of an order, None if it is unknown
  Quantity,       \* Quantity[o]: how much of it
  InitialStock,   \* InitialStock[p]: stock before the first order
  Consumers,      \* threads of the inventory service that consume order-created
  Retries,        \* retries before a record goes to its dead letter topic
  OutboxLimit,    \* rows the order service's outbox may retain
  BusinessLimit,  \* unfinished orders and operations the service may admit
  AnswerLimit,    \* rows the inventory service's outbox may retain
  BatchSize,      \* rows one pass of the relay reads
  Retention,      \* whether SENT rows are purged (app.outbox-retention-ms > 0)
  MaxSequence,    \* bound: operations of one order
  Faults,         \* which kinds of fault may happen
  MaxFaults,      \* bound: how many faults may happen
  None            \* no order, no product

FaultKinds == {"relay", "answerRelay", "database", "redelivery", "rebalance"}

ASSUME SagaAssumption ==
  /\ None \notin Orders /\ None \notin Products
  /\ ProductOf \in [Orders -> Products \cup {None}]
  /\ Quantity \in [Orders -> Nat \ {0}]
  /\ InitialStock \in [Products -> Nat]
  /\ {OutboxLimit, BusinessLimit, AnswerLimit, BatchSize} \subseteq Nat \ {0}
  /\ MaxSequence \in Nat \ {0} /\ {Retries, MaxFaults} \subseteq Nat
  /\ Retention \in BOOLEAN
  /\ Faults \subseteq FaultKinds
  /\ IsFiniteSet(Orders)

VARIABLES
  order,          \* table orders: status and partner sequence
  outbox,         \* table order_db.outbox_event, by id; a deleted row is PURGED
  created,        \* copies in topic order-created that are not acknowledged
  partnerTopic,   \* per order: the outbox rows each pass of the relay published to
                  \* the partner topic, within a pass in the order of their ids
  delivered,      \* per order: the operations in partner_effect
  stock,          \* table inventories: stock_quantity and version
  history,        \* table stock_history: the orders handled
  deducted,       \* the orders whose history row has a delta
  answerBox,      \* table inventory_db.outbox_event, by id
  answersSent,    \* how many of its rows are SENT
  answers,        \* copies in the two stock topics that are not acknowledged
  tries,          \* per order: failed attempts at the answer being consumed
  tx,             \* per inventory consumer: the record and its transaction
  deadLetters,    \* the records in dead letter topics
  faults          \* how many faults have happened

orderVars  == <<order, outbox, tries>>
stockVars  == <<stock, history, deducted, answerBox, answersSent, tx>>
topicVars  == <<created, partnerTopic, answers, deadLetters>>
vars == <<orderVars, stockVars, topicVars, delivered, faults>>

-----------------------------------------------------------------------------
Operations == {"CREATE", "CHANGE", "CANCEL"}
Answers    == {"updated", "failed"}
Statuses   == {"ABSENT", "PENDING", "CONFIRMED", "CANCELLED"}
OutboxRow  == [order : Orders, seq : 0 .. MaxSequence, op : Operations \cup {"ORDER"},
               status : {"PENDING", "SENT", "PURGED"}]
AnswerRow  == [order : Orders, answer : Answers]
Stock      == [quantity : Int, version : Nat]
Transaction == [phase : {"idle", "open", "retry"}, order : Orders \cup {None},
                tries : 0 .. Retries, owns : BOOLEAN,
                known : BOOLEAN, stock : Stock, rows : Nat]

NoStock == [quantity |-> 0, version |-> 0]
Idle    == [phase |-> "idle", order |-> None, tries |-> 0, owns |-> FALSE,
            known |-> FALSE, stock |-> NoStock, rows |-> 0]

(* The container keeps a failed record to hand it out again.                   *)
Retrying(o, n) == [phase |-> "retry", order |-> o, tries |-> n, owns |-> TRUE,
                   known |-> FALSE, stock |-> NoStock, rows |-> 0]

(* Every table, topic and consumer holds what its declaration says; a relay    *)
(* never publishes, and no row ever carries, an operation beyond the bound.    *)
TypeOK ==
  /\ order \in [Orders -> [status : Statuses, seq : 0 .. MaxSequence]]
  /\ outbox \in Seq(OutboxRow)
  /\ created \in [Orders -> Nat]
  /\ partnerTopic \in [Orders -> Seq(SUBSET (DOMAIN outbox))]
  /\ delivered \in [Orders -> 0 .. MaxSequence]
  /\ stock \in [Products -> Stock]
  /\ history \in SUBSET Orders /\ deducted \in SUBSET Orders
  /\ answerBox \in Seq(AnswerRow) /\ answersSent \in Nat
  /\ answers \in [Orders -> [Answers -> Nat]]
  /\ tries \in [Orders -> 0 .. Retries]
  /\ tx \in [Consumers -> Transaction]
  /\ deadLetters \in SUBSET [order : Orders, record : Answers \cup {"created"}]
  /\ faults \in 0 .. MaxFaults

Init ==
  /\ order = [o \in Orders |-> [status |-> "ABSENT", seq |-> 0]]
  /\ outbox = <<>>
  /\ created = [o \in Orders |-> 0]
  /\ partnerTopic = [o \in Orders |-> <<>>]
  /\ delivered = [o \in Orders |-> 0]
  /\ stock = [p \in Products |-> [quantity |-> InitialStock[p], version |-> 0]]
  /\ history = {} /\ deducted = {}
  /\ answerBox = <<>> /\ answersSent = 0
  /\ answers = [o \in Orders |-> [a \in Answers |-> 0]]
  /\ tries = [o \in Orders |-> 0]
  /\ tx = [c \in Consumers |-> Idle]
  /\ deadLetters = {}
  /\ faults = 0

Fault(kind) == kind \in Faults /\ faults < MaxFaults /\ faults' = faults + 1

-----------------------------------------------------------------------------
(* OrderService: creation, change and cancellation by the customer             *)

Retained == {k \in DOMAIN outbox : outbox[k].status # "PURGED"}
OutboxHasRoom == Cardinality(Retained) < OutboxLimit

NewRow(o, n, op) == [order |-> o, seq |-> n, op |-> op, status |-> "PENDING"]

(* countUnfinishedBusiness: pending orders, and partner rows in the outbox     *)
(* whose event is not in partner_effect.                                       *)
PendingOrders == {o \in Orders : order[o].status = "PENDING"}
Undelivered   == {k \in Retained : /\ outbox[k].op # "ORDER"
                                   /\ outbox[k].seq > delivered[outbox[k].order]}
BusinessHasRoom == Cardinality(PendingOrders) + Cardinality(Undelivered) < BusinessLimit

(* createWithOutbox: the order and its event in one transaction.               *)
CreateOrder(o) ==
  /\ order[o].status = "ABSENT"
  /\ OutboxHasRoom /\ BusinessHasRoom
  /\ order' = [order EXCEPT ![o].status = "PENDING"]
  /\ outbox' = Append(outbox, NewRow(o, 0, "ORDER"))
  /\ UNCHANGED <<tries, stockVars, topicVars, delivered, faults>>

(* enqueuePartner for an order whose status becomes the given one.  CREATE was *)
(* admitted with the order and is not counted against the budget again.        *)
EnqueuePartner(o, op, status) ==
  LET n == order[o].seq + 1
  IN /\ n <= MaxSequence
     /\ OutboxHasRoom
     /\ op # "CREATE" => BusinessHasRoom
     /\ order' = [order EXCEPT ![o] = [status |-> status, seq |-> n]]
     /\ outbox' = Append(outbox, NewRow(o, n, op))

(* A faulty Mutate: the order may be in any state that was ever confirmed.     *)
MutateAnyState(o) ==
  /\ order[o].seq # 0
  /\ \/ EnqueuePartner(o, "CHANGE", order[o].status)
     \/ EnqueuePartner(o, "CANCEL", "CANCELLED")
  /\ UNCHANGED <<tries, stockVars, topicVars, delivered, faults>>

(* mutate: only an order whose CREATE is enqueued, and only while CONFIRMED.   *)
Mutate(o) ==
  /\ order[o].seq # 0 /\ order[o].status = "CONFIRMED"
  /\ \/ EnqueuePartner(o, "CHANGE", "CONFIRMED")
     \/ EnqueuePartner(o, "CANCEL", "CANCELLED")
  /\ UNCHANGED <<tries, stockVars, topicVars, delivered, faults>>

-----------------------------------------------------------------------------
(* OutboxRelay of the order service *)

Pending == {k \in DOMAIN outbox : outbox[k].status = "PENDING"}

(* findTop500ByStatusOrderByIdAsc *)
Batch == {k \in Pending : Cardinality({j \in Pending : j < k}) < BatchSize}

(* The operations of the order among the rows the broker stores.               *)
Published(o, stored) == {k \in stored : outbox[k].order = o /\ outbox[k].op # "ORDER"}

(* purgeSent at the end of a pass deletes rows SENT before this pass.          *)
Purgeable == IF Retention THEN {k \in DOMAIN outbox : outbox[k].status = "SENT"} ELSE {}

Mark(marked, gone) ==
  outbox' = [k \in DOMAIN outbox |->
               IF k \in gone THEN [outbox[k] EXCEPT !.status = "PURGED"]
               ELSE IF k \in marked THEN [outbox[k] EXCEPT !.status = "SENT"]
               ELSE outbox[k]]

(* A pass in which the broker stores some rows of the batch and some of those  *)
(* are marked SENT.                                                            *)
RelayPass(stored, marked) ==
  /\ created' = [o \in Orders |-> created[o] +
       (IF \E k \in stored : outbox[k].order = o /\ outbox[k].op = "ORDER" THEN 1 ELSE 0)]
  /\ partnerTopic' = [o \in Orders |->
       IF Published(o, stored) = {} THEN partnerTopic[o]
       ELSE Append(partnerTopic[o], Published(o, stored))]
  /\ \E gone \in SUBSET Purgeable : Mark(marked, gone)
  /\ UNCHANGED <<order, tries, stockVars, answers, deadLetters, delivered>>

(* relayPendingEvents: the whole batch is sent, acknowledged and marked.       *)
RelayPendingEvents ==
  /\ Batch # {}
  /\ RelayPass(Batch, Batch)
  /\ UNCHANGED faults

(* A pass that finds nothing to send still purges.                             *)
RelayPurges ==
  /\ Batch = {}
  /\ \E gone \in SUBSET Purgeable : gone # {} /\ Mark({}, gone)
  /\ UNCHANGED <<order, tries, stockVars, topicVars, delivered, faults>>

(* A faulty RelayInterrupted: rows are marked without an acknowledgement.      *)
RelayInterruptedMarksAll ==
  /\ Batch # {}
  /\ Fault("relay")
  /\ \E stored, marked \in SUBSET Batch : RelayPass(stored, marked)

(* Some sends fail or their acknowledgement is lost, or the process dies: what *)
(* is marked is an acknowledged prefix of the batch.                           *)
RelayInterrupted ==
  /\ Batch # {}
  /\ Fault("relay")
  /\ \E stored \in SUBSET Batch : \E marked \in SUBSET stored :
       /\ marked # Batch
       /\ \A k \in marked, j \in Batch : j < k => j \in marked
       /\ RelayPass(stored, marked)

(* The partner integration service delivers the next operation of an order     *)
(* once it is published (PartnerInbox).                                        *)
Deliver(o) ==
  /\ \E p \in DOMAIN partnerTopic[o] : \E k \in partnerTopic[o][p] : outbox[k].seq = delivered[o] + 1
  /\ delivered' = [delivered EXCEPT ![o] = @ + 1]
  /\ UNCHANGED <<orderVars, stockVars, topicVars, faults>>

-----------------------------------------------------------------------------
(* InventoryConsumer: one transaction per order-created record                 *)

HeldBy(o) == {c \in Consumers : tx[c].order = o /\ tx[c].owns}

(* The snapshot: is the event handled, what is the stock, how full is the      *)
(* outbox.  Every later plain read of the transaction sees this state.         *)
Snapshot(o) ==
  [known |-> o \in history, rows |-> Len(answerBox),
   stock |-> IF ProductOf[o] = None THEN NoStock ELSE stock[ProductOf[o]]]

Open(c, o, n, owner) ==
  LET s == Snapshot(o)
  IN tx' = [tx EXCEPT ![c] = [phase |-> "open", order |-> o, tries |-> n, owns |-> owner,
                              known |-> s.known, stock |-> s.stock, rows |-> s.rows]]

(* A consumer is handed a record of a partition nobody else of the group owns; *)
(* copies of one event are in one partition.                                   *)
Receive(c, o) ==
  /\ tx[c].phase = "idle" /\ created[o] > 0 /\ HeldBy(o) = {}
  /\ Open(c, o, 0, TRUE)
  /\ UNCHANGED <<stock, history, deducted, answerBox, answersSent, orderVars, topicVars,
                 delivered, faults>>

(* The container hands it the failed record again.                             *)
Redeliver(c) ==
  /\ tx[c].phase = "retry"
  /\ Open(c, tx[c].order, tx[c].tries, TRUE)
  /\ UNCHANGED <<stock, history, deducted, answerBox, answersSent, orderVars, topicVars,
                 delivered, faults>>

(* The consumer is done with its record: the offset is committed, unless the   *)
(* partition has moved on.                                                     *)
Acknowledge(c) ==
  /\ created' = [created EXCEPT ![tx[c].order] = IF tx[c].owns THEN @ - 1 ELSE @]
  /\ tx' = [tx EXCEPT ![c] = Idle]

(* The process dies between the commit and the acknowledgement.                *)
NotAcknowledged(c) ==
  /\ Fault("redelivery")
  /\ tx' = [tx EXCEPT ![c] = Idle]
  /\ UNCHANGED created

Leave(c) == \/ Acknowledge(c) /\ UNCHANGED faults
            \/ NotAcknowledged(c)

(* The event is in the history: skip it.                                       *)
SkipDuplicate(c) ==
  /\ tx[c].phase = "open" /\ tx[c].known
  /\ Leave(c)
  /\ UNCHANGED <<stock, history, deducted, answerBox, answersSent, orderVars,
                 partnerTopic, answers, deadLetters, delivered>>

(* event_id is UNIQUE, and the outbox must have had room in the snapshot.      *)
CanAnswer(c) == tx[c].order \notin history /\ tx[c].rows < AnswerLimit

Enough(c) == /\ ProductOf[tx[c].order] # None
             /\ tx[c].stock.quantity >= Quantity[tx[c].order]

Answer(c, a) ==
  /\ history' = history \cup {tx[c].order}
  /\ answerBox' = Append(answerBox, [order |-> tx[c].order, answer |-> a])
  /\ Leave(c)
  /\ UNCHANGED <<answersSent, orderVars, partnerTopic, answers, deadLetters, delivered>>

(* The product is unknown or there is not enough of it.                        *)
Refuse(c) ==
  /\ tx[c].phase = "open" /\ ~tx[c].known /\ CanAnswer(c) /\ ~Enough(c)
  /\ Answer(c, "failed")
  /\ UNCHANGED <<stock, deducted>>

Deduct(c, p) ==
  /\ stock' = [stock EXCEPT ![p] = [quantity |-> tx[c].stock.quantity - Quantity[tx[c].order],
                                    version |-> @.version + 1]]
  /\ deducted' = deducted \cup {tx[c].order}
  /\ Answer(c, "updated")

(* @Version: the row is written only if nobody has written it since the        *)
(* snapshot.                                                                   *)
Unchanged(c) == stock[ProductOf[tx[c].order]].version = tx[c].stock.version

(* A faulty Reserve: the inventory row has no version.                         *)
ReserveUnversioned(c) ==
  /\ tx[c].phase = "open" /\ ~tx[c].known /\ CanAnswer(c) /\ Enough(c)
  /\ Deduct(c, ProductOf[tx[c].order])

(* The stock is deducted and the answer written in the same transaction.       *)
Reserve(c) ==
  /\ tx[c].phase = "open" /\ ~tx[c].known /\ CanAnswer(c) /\ Enough(c)
  /\ Unchanged(c)
  /\ Deduct(c, ProductOf[tx[c].order])

(* A faulty RollBack: no retries.                                              *)
RollBackForGood(c) ==
  /\ deadLetters' = deadLetters \cup {[order |-> tx[c].order, record |-> "created"]}
  /\ Acknowledge(c)
  /\ UNCHANGED <<stock, history, deducted, answerBox, answersSent, orderVars,
                 partnerTopic, answers, delivered>>

(* The transaction rolls back.  The container tries the record again, and      *)
(* gives it to the dead letter topic after the last retry.                     *)
RollBack(c) ==
  LET o == tx[c].order
  IN /\ IF tx[c].tries < Retries
        THEN /\ tx' = [tx EXCEPT ![c] = IF tx[c].owns THEN Retrying(o, tx[c].tries + 1)
                                                      ELSE Idle]
             /\ UNCHANGED <<created, deadLetters>>
        ELSE /\ Acknowledge(c)
             /\ deadLetters' = deadLetters \cup {[order |-> o, record |-> "created"]}
     /\ UNCHANGED <<stock, history, deducted, answerBox, answersSent, orderVars,
                    partnerTopic, answers, delivered>>

(* A duplicate event_id, a full outbox or a lost race for the inventory row.   *)
Conflict(c) ==
  /\ tx[c].phase = "open" /\ ~tx[c].known
  /\ ~CanAnswer(c) \/ (Enough(c) /\ ~Unchanged(c))
  /\ RollBack(c)
  /\ UNCHANGED faults

(* A faulty InventoryDatabaseError: the answer is sent outside the transaction *)
(* that fails.                                                                 *)
InventoryDualWrite(c) ==
  /\ tx[c].phase = "open" /\ ~tx[c].known /\ Enough(c)
  /\ Fault("database")
  /\ answers' = [answers EXCEPT ![tx[c].order]["updated"] = @ + 1]
  /\ tx' = [tx EXCEPT ![c] = Idle]
  /\ UNCHANGED <<stock, history, deducted, answerBox, answersSent, orderVars, created,
                 partnerTopic, deadLetters, delivered>>

(* Any other failure rolls the whole transaction back too.                     *)
InventoryDatabaseError(c) ==
  /\ tx[c].phase = "open"
  /\ Fault("database")
  /\ RollBack(c)

(* The group takes the partition from a consumer that still works on it.       *)
Rebalance(c) ==
  /\ tx[c].owns
  /\ Fault("rebalance")
  /\ tx' = [tx EXCEPT ![c] = IF @.phase = "retry" THEN Idle ELSE [@ EXCEPT !.owns = FALSE]]
  /\ UNCHANGED <<stock, history, deducted, answerBox, answersSent, orderVars, topicVars, delivered>>

-----------------------------------------------------------------------------
(* OutboxRelay of the inventory service: row by row *)

Publish(r) == answers' = [answers EXCEPT ![r.order][r.answer] = @ + 1]

RelayAnswer ==
  /\ answersSent < Len(answerBox)
  /\ Publish(answerBox[answersSent + 1])
  /\ answersSent' = answersSent + 1
  /\ UNCHANGED <<stock, history, deducted, answerBox, tx, orderVars, created, partnerTopic,
                 deadLetters, delivered, faults>>

(* The broker has the record, but the row stays PENDING.                       *)
RelayAnswerInterrupted ==
  /\ answersSent < Len(answerBox)
  /\ Fault("answerRelay")
  /\ Publish(answerBox[answersSent + 1])
  /\ UNCHANGED <<stockVars, orderVars, created, partnerTopic, deadLetters, delivered>>

-----------------------------------------------------------------------------
(* OrderConsumer: the answer decides the order *)

AcknowledgeAnswer(o, a) ==
  \/ answers' = [answers EXCEPT ![o][a] = @ - 1] /\ UNCHANGED faults
  \/ Fault("redelivery") /\ UNCHANGED answers

(* A faulty HandleStockUpdatedEvent: the order is not checked to be PENDING.   *)
HandleStockUpdatedAlways(o) ==
  /\ answers[o]["updated"] > 0
  /\ EnqueuePartner(o, "CREATE", "CONFIRMED")
  /\ tries' = [tries EXCEPT ![o] = 0]
  /\ AcknowledgeAnswer(o, "updated")
  /\ UNCHANGED <<stockVars, created, partnerTopic, deadLetters, delivered>>

(* handleStockUpdatedEvent: confirm and enqueue CREATE, or skip a duplicate.   *)
HandleStockUpdatedEvent(o) ==
  /\ answers[o]["updated"] > 0
  /\ IF order[o].status = "PENDING"
     THEN EnqueuePartner(o, "CREATE", "CONFIRMED")
     ELSE UNCHANGED <<order, outbox>>
  /\ tries' = [tries EXCEPT ![o] = 0]
  /\ AcknowledgeAnswer(o, "updated")
  /\ UNCHANGED <<stockVars, created, partnerTopic, deadLetters, delivered>>

(* handleStockUpdateFailedEvent: cancel, or skip a duplicate.                  *)
HandleStockUpdateFailedEvent(o) ==
  /\ answers[o]["failed"] > 0
  /\ order' = IF order[o].status = "PENDING"
              THEN [order EXCEPT ![o].status = "CANCELLED"]
              ELSE order
  /\ tries' = [tries EXCEPT ![o] = 0]
  /\ AcknowledgeAnswer(o, "failed")
  /\ UNCHANGED <<outbox, stockVars, created, partnerTopic, deadLetters, delivered>>

(* A faulty AnswerFails: retries without end.                                  *)
AnswerFailsForever(o, a) ==
  /\ answers[o][a] > 0
  /\ tries' = [tries EXCEPT ![o] = @ + 1]
  /\ UNCHANGED <<answers, deadLetters, order, outbox, stockVars, created, partnerTopic,
                 delivered>>

(* The handler throws: the record is tried again or dead-lettered.             *)
AnswerFails(o, a) ==
  /\ answers[o][a] > 0
  /\ IF tries[o] < Retries
     THEN tries' = [tries EXCEPT ![o] = @ + 1] /\ UNCHANGED <<answers, deadLetters>>
     ELSE /\ tries' = [tries EXCEPT ![o] = 0]
          /\ answers' = [answers EXCEPT ![o][a] = @ - 1]
          /\ deadLetters' = deadLetters \cup {[order |-> o, record |-> a]}
  /\ UNCHANGED <<order, outbox, stockVars, created, partnerTopic, delivered>>

(* requireOutboxCapacity refuses the CREATE of an order that is admitted.      *)
OutboxFull(o) ==
  /\ order[o].status = "PENDING" /\ ~OutboxHasRoom
  /\ AnswerFails(o, "updated")
  /\ UNCHANGED faults

AnswerDatabaseError(o) ==
  /\ Fault("database")
  /\ \E a \in Answers : AnswerFails(o, a)

-----------------------------------------------------------------------------
Customer(o) == CreateOrder(o) \/ Mutate(o)
OrderHandlers(o) == HandleStockUpdatedEvent(o) \/ HandleStockUpdateFailedEvent(o)
Inventory(c) == \/ \E o \in Orders : Receive(c, o)
                \/ Redeliver(c) \/ SkipDuplicate(c) \/ Refuse(c) \/ Reserve(c) \/ Conflict(c)

Next ==
  \/ \E o \in Orders : Customer(o) \/ Deliver(o) \/ OrderHandlers(o)
                       \/ OutboxFull(o) \/ AnswerDatabaseError(o)
  \/ \E c \in Consumers : Inventory(c) \/ InventoryDatabaseError(c) \/ Rebalance(c)
  \/ RelayPendingEvents \/ RelayPurges \/ RelayInterrupted
  \/ RelayAnswer \/ RelayAnswerInterrupted

Spec == Init /\ [][Next]_vars

(* The relays are scheduled again and again, the listener threads of both      *)
(* services keep polling and the partner service delivers.  Nothing is assumed *)
(* of customers or of faults.                                                  *)
Fairness ==
  /\ WF_vars(RelayPendingEvents) /\ WF_vars(RelayAnswer)
  /\ \A c \in Consumers : WF_vars(Inventory(c))
  /\ \A o \in Orders : WF_vars(OrderHandlers(o) \/ OutboxFull(o)) /\ WF_vars(Deliver(o))

FairSpec == Spec /\ Fairness

-----------------------------------------------------------------------------
(* Properties *)

DeductedFrom(p) == {o \in deducted : ProductOf[o] = p}

(* What the deducted orders have taken from a product, unit by unit.           *)
TakenFrom(p) == UNION {{o} \X (1 .. Quantity[o]) : o \in DeductedFrom(p)}

(* "The history keeps the same event from being deducted twice": what is gone  *)
(* from the stock of a product is what its deducted orders asked for, under    *)
(* redelivery, duplicate publication and racing consumers; it is never more    *)
(* than there was.                                                             *)
StockConserved ==
  \A p \in Products :
    /\ stock[p].quantity >= 0
    /\ stock[p].quantity = InitialStock[p] - Cardinality(TakenFrom(p))

(* The order and its stock agree: an order that reached the partner has its    *)
(* stock, and an order that holds stock was never cancelled for lack of it.    *)
DecisionMatchesStock ==
  \A o \in Orders :
    /\ order[o].seq > 0 => o \in deducted
    /\ o \in deducted => order[o].status # "CANCELLED" \/ order[o].seq > 1

UnsentOrder(o)  == \E k \in Pending : outbox[k].order = o /\ outbox[k].op = "ORDER"
UnsentAnswer(o) == \E k \in answersSent + 1 .. Len(answerBox) : answerBox[k].order = o
InFlight(o) ==
  \/ UnsentOrder(o) \/ created[o] > 0
  \/ UnsentAnswer(o) \/ \E a \in Answers : answers[o][a] > 0
DeadLettered(o) == \E d \in deadLetters : d.order = o

(* No event is lost between the two services, whoever crashes when: a PENDING  *)
(* order always has a row to be published, a record to be consumed, or a       *)
(* record in a dead letter topic.                                              *)
PendingIsInFlight == \A o \in PendingOrders : InFlight(o) \/ DeadLettered(o)

(* The partner topic holds the operations of an order in sequence, although a  *)
(* failed send may leave copies out of order: a SENT operation follows a copy  *)
(* of its predecessor, and CANCEL is the last one.                             *)
PublishedInSequence ==
  \A k \in DOMAIN outbox :
    outbox[k].status = "SENT" /\ outbox[k].op # "ORDER" =>
      LET r == outbox[k]
          topic == partnerTopic[r.order]
      IN /\ \E p \in DOMAIN topic :
              /\ k \in topic[p]
              /\ r.seq > 1 => \E q \in 1 .. p : \E j \in topic[q] :
                               /\ outbox[j].seq = r.seq - 1
                               /\ q < p \/ j < k
         /\ r.op = "CREATE" <=> r.seq = 1
         /\ r.op = "CANCEL" => r.seq = order[r.order].seq

UndeliveredOps == {w \in Orders \X (1 .. MaxSequence) :
                     delivered[w[1]] < w[2] /\ w[2] <= order[w[1]].seq}

(* "Global unfinished business budget": pending orders and operations that are *)
(* not delivered never exceed the budget, although CREATE is not checked.      *)
BusinessWithinBudget == Cardinality(PendingOrders) + Cardinality(UndeliveredOps) <= BusinessLimit

(* Every order is decided and each of its operations delivered in the end, if  *)
(* there are no more faults than a record has retries.                         *)
EveryOrderDecided ==
  \A o \in Orders :
    /\ order[o].status = "PENDING" ~> order[o].status \in {"CONFIRMED", "CANCELLED"}
    /\ \A n \in 1 .. MaxSequence : order[o].seq = n ~> delivered[o] >= n

(* "Inventory Outbox retained-row limit reached": the outbox stays within it.  *)
AnswersWithinLimit == Len(answerBox) <= AnswerLimit
=============================================================================
