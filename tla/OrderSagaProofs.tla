--------------------------- MODULE OrderSagaProofs ---------------------------
(* Safety of the order saga, for any number of orders, products and consumers, *)
(* any faults and any limits: types, stock, decisions, events in flight, the   *)
(* order on the partner topic and the business budget.                         *)
EXTENDS OrderSaga, FiniteSetTheorems, SequenceTheorems, TLAPS

-----------------------------------------------------------------------------
(* Operators of the model *)

(* Constants.                                                                  *)
LEMMA SagaTypes ==
  /\ None \notin Orders /\ None \notin Products
  /\ ProductOf \in [Orders -> Products \cup {None}]
  /\ Quantity \in [Orders -> Nat \ {0}]
  /\ InitialStock \in [Products -> Nat]
  /\ Retries \in Nat /\ MaxFaults \in Nat /\ MaxSequence \in Nat \ {0} /\ BatchSize \in Nat \ {0}
  /\ BusinessLimit \in Nat \ {0}
  /\ IsFiniteSet(Orders)
  BY SagaAssumption DEF SagaAssumption

(* A consumer without a record, and one that waits for its record again.       *)
LEMMA IdleTypes ==
  /\ Idle \in Transaction /\ Idle.phase = "idle" /\ ~Idle.owns /\ Idle.order = None
  /\ \A o \in Orders, n \in 0 .. Retries :
       /\ Retrying(o, n) \in Transaction /\ Retrying(o, n).phase = "retry"
       /\ Retrying(o, n).order = o /\ Retrying(o, n).owns
  <1>1. NoStock \in Stock
    BY DEF NoStock, Stock
  <1> QED BY <1>1, SagaTypes DEF Idle, Retrying, Transaction

(* A row is inserted at the end of the outbox.                                 *)
LEMMA AppendRow ==
  ASSUME outbox \in Seq(OutboxRow), NEW r \in OutboxRow, outbox' = Append(outbox, r)
  PROVE /\ outbox' \in Seq(OutboxRow) /\ Len(outbox') = Len(outbox) + 1 /\ Len(outbox) \in Nat
        /\ DOMAIN outbox = 1 .. Len(outbox) /\ DOMAIN outbox' = 1 .. Len(outbox) + 1
        /\ \A k \in DOMAIN outbox : k \in DOMAIN outbox' /\ outbox'[k] = outbox[k]
        /\ outbox'[Len(outbox) + 1] = r
  OBVIOUS

(* markSent and deleteSentBefore change the status of rows and nothing else.   *)
LEMMA MarkRows ==
  ASSUME outbox \in Seq(OutboxRow), NEW marked, NEW gone, Mark(marked, gone)
  PROVE /\ outbox' \in Seq(OutboxRow) /\ Len(outbox') = Len(outbox)
        /\ DOMAIN outbox' = DOMAIN outbox
        /\ \A k \in DOMAIN outbox :
             /\ outbox'[k].order = outbox[k].order
             /\ outbox'[k].seq = outbox[k].seq
             /\ outbox'[k].op = outbox[k].op
             /\ outbox'[k].status = IF k \in gone THEN "PURGED"
                                    ELSE IF k \in marked THEN "SENT" ELSE outbox[k].status
  <1> DEFINE row(k) == IF k \in gone THEN [outbox[k] EXCEPT !.status = "PURGED"]
                       ELSE IF k \in marked THEN [outbox[k] EXCEPT !.status = "SENT"]
                       ELSE outbox[k]
  <1>1. /\ Len(outbox) \in Nat /\ DOMAIN outbox = 1 .. Len(outbox)
        /\ \A k \in 1 .. Len(outbox) : outbox[k] \in OutboxRow
    BY LenProperties, ElementOfSeq
  <1>2. \A k \in 1 .. Len(outbox) :
          /\ row(k) \in OutboxRow
          /\ row(k).order = outbox[k].order /\ row(k).seq = outbox[k].seq /\ row(k).op = outbox[k].op
          /\ row(k).status = IF k \in gone THEN "PURGED"
                             ELSE IF k \in marked THEN "SENT" ELSE outbox[k].status
    BY <1>1 DEF OutboxRow
  <1>3. outbox' = [k \in 1 .. Len(outbox) |-> row(k)]
    BY <1>1 DEF Mark
  <1> HIDE DEF row
  <1>4. outbox' \in [1 .. Len(outbox) -> OutboxRow]
    BY <1>2, <1>3
  <1>5. outbox' \in Seq(OutboxRow)
    BY <1>1, <1>4, SeqDef
  <1>6. Len(outbox') = Len(outbox)
    BY <1>1, <1>4, <1>5, LenProperties
  <1> QED BY <1>1, <1>2, <1>3, <1>5, <1>6

(* One more or one less copy of an answer.                                     *)
LEMMA AnswerCounts ==
  ASSUME TypeOK, NEW o \in Orders, NEW a \in Answers
  PROVE /\ answers' = [answers EXCEPT ![o][a] = @ + 1] =>
             /\ answers' \in [Orders -> [Answers -> Nat]]
             /\ \A q \in Orders, b \in Answers :
                  answers'[q][b] = IF q = o /\ b = a THEN answers[q][b] + 1 ELSE answers[q][b]
        /\ answers[o][a] > 0 /\ answers' = [answers EXCEPT ![o][a] = @ - 1] =>
             /\ answers' \in [Orders -> [Answers -> Nat]]
             /\ \A q \in Orders, b \in Answers :
                  answers'[q][b] = IF q = o /\ b = a THEN answers[q][b] - 1 ELSE answers[q][b]
  <1>1. answers \in [Orders -> [Answers -> Nat]] /\ answers[o] \in [Answers -> Nat] /\ answers[o][a] \in Nat
    BY DEF TypeOK
  <1>2. ASSUME NEW n \in Nat, answers' = [answers EXCEPT ![o] = [answers[o] EXCEPT ![a] = n]]
        PROVE /\ answers' \in [Orders -> [Answers -> Nat]]
              /\ \A q \in Orders, b \in Answers :
                   answers'[q][b] = IF q = o /\ b = a THEN n ELSE answers[q][b]
    <2> DEFINE row == [answers[o] EXCEPT ![a] = n]
    <2>1. row \in [Answers -> Nat] /\ \A b \in Answers : row[b] = IF b = a THEN n ELSE answers[o][b]
      BY <1>1
    <2>2. answers' = [answers EXCEPT ![o] = row]
      BY <1>2
    <2> HIDE DEF row
    <2> QED BY <1>1, <2>1, <2>2
  <1>3. answers[o][a] + 1 \in Nat /\ (answers[o][a] > 0 => answers[o][a] - 1 \in Nat)
    BY <1>1
  <1> QED BY <1>1, <1>2, <1>3

-----------------------------------------------------------------------------
(* Types and ownership *)

(* Who works on which record: only the owner of the partition acknowledges or  *)
(* retries, so a record is never acknowledged more often than it was stored.   *)
OwnerInv ==
  /\ \A c \in Consumers :
       /\ tx[c].phase # "idle" => tx[c].order \in Orders
       /\ tx[c].phase = "idle" => ~tx[c].owns
       /\ tx[c].phase = "retry" => tx[c].owns
       /\ tx[c].owns => created[tx[c].order] > 0
  /\ \A c, d \in Consumers : tx[c].owns /\ tx[d].owns /\ tx[c].order = tx[d].order => c = d

(* The transaction of a consumer ends: it is done, with or without the         *)
(* acknowledgement, or keeps the record for a retry.                           *)
Ends(c) ==
  /\ tx[c].phase = "open"
  /\ \/ tx' = [tx EXCEPT ![c] = Idle] /\ UNCHANGED created
     \/ /\ tx[c].owns /\ tx' = [tx EXCEPT ![c] = Idle]
        /\ created' = [created EXCEPT ![tx[c].order] = @ - 1]
     \/ /\ tx[c].owns /\ tx[c].tries < Retries
        /\ tx' = [tx EXCEPT ![c] = Retrying(tx[c].order, tx[c].tries + 1)]
        /\ UNCHANGED created

EndingStep(c) == SkipDuplicate(c) \/ Refuse(c) \/ Reserve(c) \/ Conflict(c) \/ InventoryDatabaseError(c)

(* Each way through handleOrderCreatedEvent ends in one of these.              *)
LEMMA StepEnds ==
  ASSUME TypeOK, OwnerInv, NEW c \in Consumers, EndingStep(c)
  PROVE Ends(c)
  <1>0. tx[c].phase = "open"
    BY DEF EndingStep, SkipDuplicate, Refuse, Reserve, Conflict, InventoryDatabaseError
  <1>1. tx[c].order \in Orders /\ created \in [Orders -> Nat]
    BY <1>0 DEF OwnerInv, TypeOK
  <1>2. ASSUME Acknowledge(c) PROVE Ends(c)
    <2>1. CASE tx[c].owns
      BY <1>0, <1>1, <1>2, <2>1 DEF Acknowledge, Ends
    <2>2. CASE ~tx[c].owns
      <3>1. created' = created
        BY <1>1, <1>2, <2>2 DEF Acknowledge
      <3> QED BY <1>0, <1>2, <3>1 DEF Acknowledge, Ends
    <2> QED BY <2>1, <2>2
  <1>3. ASSUME NotAcknowledged(c) PROVE Ends(c)
    BY <1>0, <1>3 DEF NotAcknowledged, Ends
  <1>4. ASSUME RollBack(c) PROVE Ends(c)
    BY <1>0, <1>2, <1>4 DEF RollBack, Ends
  <1> QED BY <1>2, <1>3, <1>4
          DEF EndingStep, SkipDuplicate, Refuse, Reserve, Deduct, Answer, Leave, Conflict, InventoryDatabaseError

(* Ownership through the steps of one consumer.                                *)
LEMMA OwnerStep == TypeOK /\ OwnerInv /\ [Next]_vars => OwnerInv' /\ created' \in [Orders -> Nat]
  <1> SUFFICES ASSUME TypeOK, OwnerInv, [Next]_vars PROVE OwnerInv' /\ created' \in [Orders -> Nat]
    OBVIOUS
  <1>t. tx \in [Consumers -> Transaction] /\ created \in [Orders -> Nat]
    BY DEF TypeOK
  <1>0. ASSUME UNCHANGED <<tx, created>> PROVE OwnerInv' /\ created' \in [Orders -> Nat]
    BY <1>0, <1>t DEF OwnerInv
  <1>1. ASSUME NEW c \in Consumers, NEW o \in Orders, Receive(c, o)
        PROVE OwnerInv' /\ created' \in [Orders -> Nat]
    <2>1. /\ tx'[c].phase = "open" /\ tx'[c].order = o /\ tx'[c].owns
          /\ \A d \in Consumers \ {c} : tx'[d] = tx[d]
          /\ UNCHANGED created /\ created[o] > 0 /\ HeldBy(o) = {}
      BY <1>1, <1>t DEF Receive, Open, topicVars
    <2> QED BY <1>t, <2>1 DEF OwnerInv, HeldBy
  <1>2. ASSUME NEW c \in Consumers, Redeliver(c) PROVE OwnerInv' /\ created' \in [Orders -> Nat]
    <2>1. /\ tx'[c].phase = "open" /\ tx'[c].order = tx[c].order /\ tx'[c].owns
          /\ tx[c].phase = "retry" /\ UNCHANGED created
          /\ \A d \in Consumers \ {c} : tx'[d] = tx[d]
      BY <1>2, <1>t DEF Redeliver, Open, topicVars
    <2> QED BY <1>t, <2>1 DEF OwnerInv
  <1>3. ASSUME NEW c \in Consumers, Ends(c) PROVE OwnerInv' /\ created' \in [Orders -> Nat]
    <2>1. PICK o \in Orders : o = tx[c].order
      BY <1>3 DEF Ends, OwnerInv
    <2>2. \A d \in Consumers \ {c} : tx'[d] = tx[d]
      BY <1>3, <1>t DEF Ends
    <2>3. CASE tx' = [tx EXCEPT ![c] = Idle] /\ UNCHANGED created
      <3>1. tx'[c].phase = "idle" /\ ~tx'[c].owns
        BY <1>t, <2>3, IdleTypes
      <3> QED BY <1>t, <2>2, <2>3, <3>1 DEF OwnerInv
    <2>4. CASE /\ tx[c].owns /\ tx' = [tx EXCEPT ![c] = Idle]
               /\ created' = [created EXCEPT ![tx[c].order] = @ - 1]
      <3>1. tx'[c].phase = "idle" /\ ~tx'[c].owns
        BY <1>t, <2>4, IdleTypes
      <3>2. created' = [created EXCEPT ![o] = @ - 1] /\ created[o] > 0
        BY <2>1, <2>4 DEF OwnerInv
      <3>3. \A d \in Consumers \ {c} : tx[d].owns => tx[d].order # o
        BY <2>1, <2>4 DEF OwnerInv
      <3> QED BY <1>t, <2>2, <3>1, <3>2, <3>3 DEF OwnerInv
    <2>5. CASE /\ tx[c].owns /\ tx[c].tries < Retries
               /\ tx' = [tx EXCEPT ![c] = Retrying(tx[c].order, tx[c].tries + 1)]
               /\ UNCHANGED created
      <3>1. tx[c].tries + 1 \in 0 .. Retries
        BY <1>t, <2>5, SagaTypes DEF Transaction
      <3>2. tx'[c].phase = "retry" /\ tx'[c].owns /\ tx'[c].order = o
        BY <1>t, <2>1, <2>5, <3>1, IdleTypes
      <3> QED BY <1>t, <2>1, <2>2, <2>5, <3>2 DEF OwnerInv
    <2> QED BY <1>3, <2>3, <2>4, <2>5 DEF Ends
  <1>4. ASSUME NEW c \in Consumers, Rebalance(c) PROVE OwnerInv' /\ created' \in [Orders -> Nat]
    <2>1. /\ \A d \in Consumers \ {c} : tx'[d] = tx[d]
          /\ UNCHANGED created
          /\ \/ tx'[c] = Idle
             \/ tx'[c] = [tx[c] EXCEPT !.owns = FALSE] /\ tx[c].phase # "retry"
      BY <1>4, <1>t DEF Rebalance, topicVars
    <2>2. ~tx'[c].owns /\ tx'[c].phase # "retry" /\ (tx'[c].phase # "idle" => tx'[c].order \in Orders)
      BY <1>t, <2>1, IdleTypes DEF OwnerInv, Transaction
    <2> QED BY <1>t, <2>1, <2>2 DEF OwnerInv
  <1>5. ASSUME NEW stored, NEW marked, RelayPass(stored, marked)
        PROVE OwnerInv' /\ created' \in [Orders -> Nat]
    <2>1. created' \in [Orders -> Nat] /\ \A o \in Orders : created[o] > 0 => created'[o] > 0
      BY <1>5, <1>t DEF RelayPass
    <2>2. UNCHANGED tx /\ \A c \in Consumers : tx[c].owns => tx[c].order \in Orders
      BY <1>5, <1>t DEF RelayPass, stockVars, OwnerInv, Transaction
    <2> QED BY <1>t, <2>1, <2>2 DEF OwnerInv
  <1>6. ASSUME NEW o \in Orders,
               \/ Customer(o) \/ Deliver(o) \/ OrderHandlers(o) \/ OutboxFull(o) \/ AnswerDatabaseError(o)
               \/ RelayPurges \/ RelayAnswer \/ RelayAnswerInterrupted
        PROVE UNCHANGED <<tx, created>>
    BY <1>6 DEF Customer, CreateOrder, Mutate, Deliver, OrderHandlers, HandleStockUpdatedEvent,
                HandleStockUpdateFailedEvent, OutboxFull, AnswerDatabaseError, AnswerFails,
                RelayPurges, RelayAnswer, RelayAnswerInterrupted, stockVars, topicVars
  <1>7. RelayPurges \/ RelayAnswer \/ RelayAnswerInterrupted \/ UNCHANGED vars => UNCHANGED <<tx, created>>
    BY DEF RelayPurges, RelayAnswer, RelayAnswerInterrupted, vars, stockVars, topicVars
  <1> QED BY <1>0, <1>1, <1>2, <1>3, <1>4, <1>5, <1>6, <1>7, StepEnds
          DEF Next, Inventory, EndingStep, RelayPendingEvents, RelayInterrupted

(* What the partner topic names stays in the outbox.                           *)
LEMMA TopicGrows ==
  ASSUME TypeOK, NEW r \in OutboxRow, outbox' = Append(outbox, r), UNCHANGED partnerTopic
  PROVE outbox' \in Seq(OutboxRow) /\ partnerTopic' \in [Orders -> Seq(SUBSET (DOMAIN outbox'))]
  <1>1. outbox' \in Seq(OutboxRow) /\ SUBSET (DOMAIN outbox) \subseteq SUBSET (DOMAIN outbox')
    BY AppendRow DEF TypeOK
  <1>2. \A o \in Orders : partnerTopic[o] \in Seq(SUBSET (DOMAIN outbox'))
    BY <1>1, SeqMonotonic DEF TypeOK
  <1> QED BY <1>1, <1>2 DEF TypeOK

(* A row of the partner is enqueued within the bound.                          *)
LEMMA EnqueueTypes ==
  ASSUME TypeOK, NEW o \in Orders, NEW op \in Operations, NEW status \in Statuses,
         EnqueuePartner(o, op, status), UNCHANGED partnerTopic
  PROVE /\ order' \in [Orders -> [status : Statuses, seq : 0 .. MaxSequence]]
        /\ outbox' \in Seq(OutboxRow)
        /\ partnerTopic' \in [Orders -> Seq(SUBSET (DOMAIN outbox'))]
        /\ order[o].seq + 1 \in 1 .. MaxSequence
        /\ NewRow(o, order[o].seq + 1, op) \in OutboxRow
        /\ outbox' = Append(outbox, NewRow(o, order[o].seq + 1, op))
  <1>1. order[o].seq + 1 \in 1 .. MaxSequence
    BY SagaTypes DEF EnqueuePartner, TypeOK
  <1>2. /\ order' = [order EXCEPT ![o] = [status |-> status, seq |-> order[o].seq + 1]]
        /\ outbox' = Append(outbox, NewRow(o, order[o].seq + 1, op))
    BY DEF EnqueuePartner
  <1>3. NewRow(o, order[o].seq + 1, op) \in OutboxRow
    BY <1>1, SagaTypes DEF NewRow, OutboxRow
  <1>4. order' \in [Orders -> [status : Statuses, seq : 0 .. MaxSequence]]
    BY <1>1, <1>2, SagaTypes DEF TypeOK
  <1> QED BY <1>1, <1>2, <1>3, <1>4, TopicGrows

(* A pass publishes rows of the outbox.                                        *)
LEMMA RelayTypes ==
  ASSUME TypeOK, NEW stored \in SUBSET (DOMAIN outbox), NEW marked, RelayPass(stored, marked)
  PROVE /\ outbox' \in Seq(OutboxRow) /\ DOMAIN outbox' = DOMAIN outbox
        /\ partnerTopic' \in [Orders -> Seq(SUBSET (DOMAIN outbox'))]
  <1>1. outbox' \in Seq(OutboxRow) /\ DOMAIN outbox' = DOMAIN outbox
    BY MarkRows DEF RelayPass, TypeOK
  <1>2. \A o \in Orders : Published(o, stored) \in SUBSET (DOMAIN outbox)
    BY DEF Published
  <1>3. \A o \in Orders : Append(partnerTopic[o], Published(o, stored)) \in Seq(SUBSET (DOMAIN outbox))
    BY <1>2 DEF TypeOK
  <1>4. partnerTopic' = [o \in Orders |-> IF Published(o, stored) = {} THEN partnerTopic[o]
                                          ELSE Append(partnerTopic[o], Published(o, stored))]
    BY DEF RelayPass
  <1> QED BY <1>1, <1>3, <1>4 DEF TypeOK

(* A snapshot is of its types.                                                 *)
LEMMA OpenTypes ==
  ASSUME TypeOK, NEW c \in Consumers, NEW o \in Orders, NEW n \in 0 .. Retries, Open(c, o, n, TRUE)
  PROVE tx' \in [Consumers -> Transaction]
  <1> DEFINE s == Snapshot(o)
             t == [phase |-> "open", order |-> o, tries |-> n, owns |-> TRUE,
                   known |-> s.known, stock |-> s.stock, rows |-> s.rows]
  <1>1. s.known \in BOOLEAN /\ s.rows \in Nat /\ s.stock \in Stock
    <2>1. NoStock \in Stock
      BY DEF NoStock, Stock
    <2> QED BY <2>1, SagaTypes DEF TypeOK, Snapshot
  <1> HIDE DEF s
  <1>2. t \in Transaction
    BY <1>1 DEF Transaction
  <1>3. tx' = [tx EXCEPT ![c] = t]
    BY DEF Open, s
  <1> HIDE DEF t
  <1> QED BY <1>2, <1>3 DEF TypeOK

(* Types through the end of a transaction.                                     *)
LEMMA EndTypes ==
  ASSUME TypeOK, OwnerInv, NEW c \in Consumers, Ends(c)
  PROVE tx' \in [Consumers -> Transaction]
  <1>1. tx[c].order \in Orders /\ tx \in [Consumers -> Transaction] /\ tx[c].tries \in 0 .. Retries
    BY DEF Ends, OwnerInv, TypeOK, Transaction
  <1>2. tx[c].tries < Retries => Retrying(tx[c].order, tx[c].tries + 1) \in Transaction
    BY <1>1, IdleTypes, SagaTypes
  <1> QED BY <1>1, <1>2, IdleTypes DEF Ends

(* Types, action by action.                                                    *)
LEMMA TypeStep == TypeOK /\ OwnerInv /\ [Next]_vars => TypeOK'
  <1> SUFFICES ASSUME TypeOK, OwnerInv, [Next]_vars PROVE TypeOK'
    OBVIOUS
  <1>c. created' \in [Orders -> Nat]
    BY OwnerStep
  <1> USE SagaTypes DEF stockVars, topicVars, orderVars
  <1>f. ASSUME NEW kind, Fault(kind) PROVE faults' \in 0 .. MaxFaults
    BY <1>f DEF Fault, TypeOK
  <1>1. ASSUME NEW o \in Orders, CreateOrder(o) PROVE TypeOK'
    <2>1. NewRow(o, 0, "ORDER") \in OutboxRow
      BY DEF NewRow, OutboxRow
    <2>2. outbox' \in Seq(OutboxRow) /\ partnerTopic' \in [Orders -> Seq(SUBSET (DOMAIN outbox'))]
      BY <1>1, <2>1, TopicGrows DEF CreateOrder
    <2>3. order' \in [Orders -> [status : Statuses, seq : 0 .. MaxSequence]]
      BY <1>1 DEF CreateOrder, TypeOK, Statuses
    <2> QED BY <1>1, <2>2, <2>3 DEF CreateOrder, TypeOK
  <1>2. ASSUME NEW o \in Orders, Mutate(o) PROVE TypeOK'
    <2>1. /\ order' \in [Orders -> [status : Statuses, seq : 0 .. MaxSequence]]
          /\ outbox' \in Seq(OutboxRow)
          /\ partnerTopic' \in [Orders -> Seq(SUBSET (DOMAIN outbox'))]
      BY <1>2, EnqueueTypes DEF Mutate, Operations, Statuses
    <2> QED BY <1>2, <2>1 DEF Mutate, TypeOK
  <1>3. ASSUME NEW o \in Orders, Deliver(o) PROVE TypeOK'
    <2>1. PICK p \in DOMAIN partnerTopic[o], k \in DOMAIN outbox : outbox[k].seq = delivered[o] + 1
      <3>1. PICK p \in DOMAIN partnerTopic[o] : \E k \in partnerTopic[o][p] : outbox[k].seq = delivered[o] + 1
        BY <1>3 DEF Deliver
      <3>2. partnerTopic[o][p] \in SUBSET (DOMAIN outbox)
        BY <3>1 DEF TypeOK
      <3> QED BY <3>1, <3>2
    <2>2. outbox[k] \in OutboxRow /\ delivered[o] \in 0 .. MaxSequence
      BY <2>1, ElementOfSeq, LenProperties DEF TypeOK
    <2>3. outbox[k].seq \in 0 .. MaxSequence
      BY <2>2 DEF OutboxRow
    <2>4. delivered[o] + 1 \in 0 .. MaxSequence
      BY <2>1, <2>2, <2>3
    <2> QED BY <1>3, <2>4 DEF Deliver, TypeOK
  <1>4. ASSUME NEW o \in Orders, NEW a \in Answers, AnswerFails(o, a), faults' \in 0 .. MaxFaults PROVE TypeOK'
    <2>1. tries' \in [Orders -> 0 .. Retries]
      <3>1. \/ tries[o] < Retries /\ tries' = [tries EXCEPT ![o] = tries[o] + 1]
            \/ tries' = [tries EXCEPT ![o] = 0]
        BY <1>4 DEF AnswerFails
      <3>2. tries \in [Orders -> 0 .. Retries] /\ tries[o] \in 0 .. Retries
        BY DEF TypeOK
      <3>3. 0 \in 0 .. Retries /\ (tries[o] < Retries => tries[o] + 1 \in 0 .. Retries)
        BY <3>2
      <3> QED BY <3>1, <3>2, <3>3
    <2>2. answers' \in [Orders -> [Answers -> Nat]]
      BY <1>4, AnswerCounts DEF AnswerFails, TypeOK
    <2>3. deadLetters' \in SUBSET [order : Orders, record : Answers \cup {"created"}]
      BY <1>4 DEF AnswerFails, TypeOK
    <2> QED BY <1>4, <2>1, <2>2, <2>3 DEF AnswerFails, TypeOK
  <1>5. ASSUME NEW o \in Orders, NEW a \in Answers, AcknowledgeAnswer(o, a), answers[o][a] > 0
        PROVE answers' \in [Orders -> [Answers -> Nat]] /\ faults' \in 0 .. MaxFaults
    BY <1>5, <1>f, AnswerCounts DEF AcknowledgeAnswer, TypeOK
  <1>6. ASSUME NEW o \in Orders, HandleStockUpdatedEvent(o) PROVE TypeOK'
    <2>1. /\ order' \in [Orders -> [status : Statuses, seq : 0 .. MaxSequence]]
          /\ outbox' \in Seq(OutboxRow)
          /\ partnerTopic' \in [Orders -> Seq(SUBSET (DOMAIN outbox'))]
      <3>1. CASE order[o].status = "PENDING"
        BY <1>6, <3>1, EnqueueTypes DEF HandleStockUpdatedEvent, Operations, Statuses
      <3>2. CASE order[o].status # "PENDING"
        BY <1>6, <3>2 DEF HandleStockUpdatedEvent, TypeOK
      <3> QED BY <3>1, <3>2
    <2>2. answers' \in [Orders -> [Answers -> Nat]] /\ faults' \in 0 .. MaxFaults
      BY <1>5, <1>6 DEF HandleStockUpdatedEvent, Answers
    <2>3. tries' \in [Orders -> 0 .. Retries]
      BY <1>6 DEF HandleStockUpdatedEvent, TypeOK
    <2> QED BY <1>6, <2>1, <2>2, <2>3 DEF HandleStockUpdatedEvent, TypeOK
  <1>7. ASSUME NEW o \in Orders, HandleStockUpdateFailedEvent(o) PROVE TypeOK'
    <2>1. answers' \in [Orders -> [Answers -> Nat]] /\ faults' \in 0 .. MaxFaults
      BY <1>5, <1>7 DEF HandleStockUpdateFailedEvent, Answers
    <2>2. order' \in [Orders -> [status : Statuses, seq : 0 .. MaxSequence]]
      BY <1>7 DEF HandleStockUpdateFailedEvent, TypeOK, Statuses
    <2>3. tries' \in [Orders -> 0 .. Retries]
      BY <1>7 DEF HandleStockUpdateFailedEvent, TypeOK
    <2> QED BY <1>7, <2>1, <2>2, <2>3 DEF HandleStockUpdateFailedEvent, TypeOK
  <1>8. ASSUME NEW o \in Orders, OutboxFull(o) \/ AnswerDatabaseError(o) PROVE TypeOK'
    <2>1. faults' \in 0 .. MaxFaults
      BY <1>8, <1>f DEF OutboxFull, AnswerDatabaseError, TypeOK
    <2> QED BY <1>4, <1>8, <2>1 DEF OutboxFull, AnswerDatabaseError, Answers
  <1>9. ASSUME NEW c \in Consumers, NEW o \in Orders, Receive(c, o) PROVE TypeOK'
    <2>1. tx' \in [Consumers -> Transaction]
      <3>1. 0 \in 0 .. Retries
        OBVIOUS
      <3> QED BY <1>9, <3>1, OpenTypes DEF Receive
    <2> QED BY <1>9, <2>1 DEF Receive, TypeOK
  <1>10. ASSUME NEW c \in Consumers, Redeliver(c) PROVE TypeOK'
    <2>1. tx[c].order \in Orders /\ tx[c].tries \in 0 .. Retries
      BY <1>10 DEF Redeliver, OwnerInv, TypeOK, Transaction
    <2>2. tx' \in [Consumers -> Transaction]
      BY <1>10, <2>1, OpenTypes DEF Redeliver
    <2> QED BY <1>10, <2>2 DEF Redeliver, TypeOK
  <1>11. ASSUME NEW c \in Consumers, EndingStep(c) PROVE TypeOK'
    <2>0. tx' \in [Consumers -> Transaction] /\ tx[c].order \in Orders /\ tx[c] \in Transaction
      BY <1>11, StepEnds, EndTypes DEF Ends, OwnerInv, TypeOK
    <2>1. ASSUME Leave(c) PROVE faults' \in 0 .. MaxFaults
      BY <2>1, <1>f DEF Leave, NotAcknowledged, TypeOK
    <2>2. ASSUME NEW a \in Answers, Answer(c, a)
          PROVE history' \in SUBSET Orders /\ answerBox' \in Seq(AnswerRow) /\ faults' \in 0 .. MaxFaults
      <3>1. [order |-> tx[c].order, answer |-> a] \in AnswerRow
        BY <2>0 DEF AnswerRow
      <3> QED BY <2>0, <2>1, <2>2, <3>1 DEF Answer, TypeOK
    <2>3. CASE SkipDuplicate(c)
      BY <1>c, <2>0, <2>1, <2>3 DEF SkipDuplicate, TypeOK
    <2>4. CASE Refuse(c)
      <3>1. history' \in SUBSET Orders /\ answerBox' \in Seq(AnswerRow) /\ faults' \in 0 .. MaxFaults
        BY <2>2, <2>4 DEF Refuse, Answers
      <3> QED BY <1>c, <2>0, <2>4, <3>1 DEF Refuse, Answer, TypeOK
    <2>5. CASE Reserve(c)
      <3>1. history' \in SUBSET Orders /\ answerBox' \in Seq(AnswerRow) /\ faults' \in 0 .. MaxFaults
        BY <2>2, <2>5 DEF Reserve, Deduct, Answers
      <3>2. stock' \in [Products -> Stock]
        <4>1. ProductOf[tx[c].order] \in Products /\ Quantity[tx[c].order] \in Nat
          BY <2>0, <2>5 DEF Reserve, Enough
        <4>2. tx[c].stock.quantity \in Int
          BY <2>0 DEF Transaction, Stock
        <4>3. stock[ProductOf[tx[c].order]].version \in Nat
          BY <4>1 DEF TypeOK, Stock
        <4>4. [quantity |-> tx[c].stock.quantity - Quantity[tx[c].order],
               version |-> stock[ProductOf[tx[c].order]].version + 1] \in Stock
          BY <4>1, <4>2, <4>3 DEF Stock
        <4> QED BY <2>5, <4>1, <4>4 DEF Reserve, Deduct, TypeOK
      <3>3. deducted' \in SUBSET Orders
        BY <2>0, <2>5 DEF Reserve, Deduct, TypeOK
      <3> QED BY <1>c, <2>0, <2>5, <3>1, <3>2, <3>3 DEF Reserve, Deduct, Answer, TypeOK
    <2>6. CASE RollBack(c) /\ faults' \in 0 .. MaxFaults
      <3>1. deadLetters' \in SUBSET [order : Orders, record : Answers \cup {"created"}]
        BY <2>0, <2>6 DEF RollBack, TypeOK
      <3> QED BY <1>c, <2>0, <2>6, <3>1 DEF RollBack, TypeOK
    <2>7. CASE Conflict(c) \/ InventoryDatabaseError(c)
      <3>1. faults' \in 0 .. MaxFaults
        BY <2>7, <1>f DEF Conflict, InventoryDatabaseError, TypeOK
      <3> QED BY <2>6, <2>7, <3>1 DEF Conflict, InventoryDatabaseError
    <2> QED BY <1>11, <2>3, <2>4, <2>5, <2>7 DEF EndingStep
  <1>12. ASSUME NEW c \in Consumers, Rebalance(c) PROVE TypeOK'
    <2>1. [tx[c] EXCEPT !.owns = FALSE] \in Transaction
      <3>1. tx[c] \in Transaction
        BY DEF TypeOK
      <3> QED BY <3>1 DEF Transaction
    <2>2. tx' \in [Consumers -> Transaction]
      BY <1>12, <2>1, IdleTypes DEF Rebalance, TypeOK
    <2> QED BY <1>12, <1>f, <2>2 DEF Rebalance, TypeOK
  <1>13. CASE RelayPendingEvents \/ RelayInterrupted
    <2>1. Batch \in SUBSET (DOMAIN outbox)
      BY DEF Batch, Pending
    <2>2. PICK stored \in SUBSET (DOMAIN outbox), marked \in SUBSET (DOMAIN outbox) : RelayPass(stored, marked)
      BY <1>13, <2>1 DEF RelayPendingEvents, RelayInterrupted
    <2>3. /\ outbox' \in Seq(OutboxRow) /\ DOMAIN outbox' = DOMAIN outbox
          /\ partnerTopic' \in [Orders -> Seq(SUBSET (DOMAIN outbox'))]
      BY <2>2, RelayTypes
    <2>4. faults' \in 0 .. MaxFaults
      BY <1>13, <1>f DEF RelayPendingEvents, RelayInterrupted, TypeOK
    <2> QED BY <1>c, <2>2, <2>3, <2>4 DEF RelayPass, TypeOK
  <1>14. CASE RelayPurges
    <2>1. PICK gone : Mark({}, gone)
      BY <1>14 DEF RelayPurges
    <2>2. outbox' \in Seq(OutboxRow) /\ DOMAIN outbox' = DOMAIN outbox
      BY <2>1, MarkRows DEF TypeOK
    <2> QED BY <1>14, <2>2 DEF RelayPurges, TypeOK
  <1>15. CASE RelayAnswer \/ RelayAnswerInterrupted
    <2>1. answerBox[answersSent + 1] \in AnswerRow
      BY <1>15 DEF RelayAnswer, RelayAnswerInterrupted, TypeOK
    <2>2. answers' \in [Orders -> [Answers -> Nat]]
      <3>1. answerBox[answersSent + 1].order \in Orders /\ answerBox[answersSent + 1].answer \in Answers
        BY <2>1 DEF AnswerRow
      <3> QED BY <1>15, <3>1, AnswerCounts DEF RelayAnswer, RelayAnswerInterrupted, Publish
    <2>3. answersSent' \in Nat /\ faults' \in 0 .. MaxFaults
      BY <1>15, <1>f DEF RelayAnswer, RelayAnswerInterrupted, TypeOK
    <2> QED BY <1>15, <2>2, <2>3 DEF RelayAnswer, RelayAnswerInterrupted, TypeOK
  <1>16. CASE UNCHANGED vars
    BY <1>16 DEF vars, TypeOK
  <1> QED BY <1>1, <1>2, <1>3, <1>6, <1>7, <1>8, <1>9, <1>10, <1>11, <1>12, <1>13, <1>14, <1>15, <1>16
          DEF Next, Customer, OrderHandlers, Inventory, EndingStep

-----------------------------------------------------------------------------
(* Stock and decisions *)

(* Why stock is conserved: a snapshot whose version is still current shows the *)
(* current quantity, and only events outside the history deduct.               *)
StockInv ==
  /\ deducted \subseteq history
  /\ \A p \in Products : IsFiniteSet(TakenFrom(p))
  /\ StockConserved
  /\ \A c \in Consumers : \A p \in Products :
       tx[c].phase = "open" /\ ProductOf[tx[c].order] = p =>
         /\ tx[c].stock.version <= stock[p].version
         /\ tx[c].stock.version = stock[p].version => tx[c].stock.quantity = stock[p].quantity

(* An order takes as many units as it asks for, from its product alone.        *)
LEMMA TakenGrows ==
  ASSUME NEW o \in Orders, o \notin deducted, deducted' = deducted \cup {o},
         NEW p \in Products, IsFiniteSet(TakenFrom(p))
  PROVE /\ IsFiniteSet(TakenFrom(p)')
        /\ Cardinality(TakenFrom(p)) \in Nat
        /\ Cardinality(TakenFrom(p)') = IF ProductOf[o] = p
                                        THEN Cardinality(TakenFrom(p)) + Quantity[o]
                                        ELSE Cardinality(TakenFrom(p))
  <1> DEFINE units == {o} \X (1 .. Quantity[o])
  <1>0. Quantity[o] \in Nat /\ Cardinality(TakenFrom(p)) \in Nat
    BY SagaTypes, FS_CardinalityType
  <1>1. IsFiniteSet(units) /\ Cardinality(units) = Quantity[o]
    <2>1. IsFiniteSet(1 .. Quantity[o]) /\ Cardinality(1 .. Quantity[o]) = Quantity[o]
      <3>1. \A a, b \in Int : IsFiniteSet(a .. b) /\ Cardinality(a .. b) = IF a > b THEN 0 ELSE b - a + 1
        BY FS_Interval
      <3>2. 1 \in Int /\ Quantity[o] \in Int /\ Quantity[o] >= 0
        BY <1>0
      <3>3. /\ IsFiniteSet(1 .. Quantity[o])
            /\ Cardinality(1 .. Quantity[o]) = IF 1 > Quantity[o] THEN 0 ELSE Quantity[o] - 1 + 1
        BY <3>1, <3>2
      <3>4. (IF 1 > Quantity[o] THEN 0 ELSE Quantity[o] - 1 + 1) = Quantity[o]
        BY <3>2
      <3> QED BY <3>3, <3>4
    <2>2. IsFiniteSet({o}) /\ Cardinality({o}) = 1
      BY FS_Singleton
    <2>3. IsFiniteSet(units) /\ Cardinality(units) = Cardinality({o}) * Cardinality(1 .. Quantity[o])
      BY <2>1, <2>2, FS_Product
    <2> QED BY <1>0, <2>1, <2>2, <2>3
  <1>2. CASE ProductOf[o] = p
    <2>1. DeductedFrom(p)' = DeductedFrom(p) \cup {o} /\ o \notin DeductedFrom(p)
      BY <1>2 DEF DeductedFrom
    <2>2. TakenFrom(p)' = TakenFrom(p) \cup units
      <3>1. TakenFrom(p)' = UNION {{q} \X (1 .. Quantity[q]) : q \in DeductedFrom(p)'}
        BY DEF TakenFrom
      <3>2. \A x : x \in UNION {{q} \X (1 .. Quantity[q]) : q \in DeductedFrom(p)'}
                   <=> x \in UNION {{q} \X (1 .. Quantity[q]) : q \in DeductedFrom(p)} \/ x \in units
        BY <2>1, Zenon
      <3> QED BY <3>1, <3>2 DEF TakenFrom
    <2>3. TakenFrom(p) \cap units = {}
      BY <2>1 DEF TakenFrom
    <2> HIDE DEF units
    <2>4. /\ IsFiniteSet(TakenFrom(p) \cup units)
          /\ Cardinality(TakenFrom(p) \cup units)
               = Cardinality(TakenFrom(p)) + Cardinality(units) - Cardinality({})
      BY <1>1, <2>3, FS_Union
    <2>5. Cardinality({}) = 0
      BY FS_EmptySet
    <2> QED BY <1>0, <1>1, <1>2, <2>2, <2>4, <2>5
  <1>3. CASE ProductOf[o] # p
    <2>1. DeductedFrom(p)' = DeductedFrom(p)
      BY <1>3 DEF DeductedFrom
    <2>2. TakenFrom(p)' = TakenFrom(p)
      BY <2>1 DEF TakenFrom
    <2> QED BY <1>0, <1>3, <2>2
  <1> QED BY <1>2, <1>3

(* What a new snapshot shows.                                                  *)
LEMMA OpenShows ==
  ASSUME TypeOK, NEW c \in Consumers, NEW o \in Orders, NEW n, Open(c, o, n, TRUE)
  PROVE /\ tx'[c].phase = "open" /\ tx'[c].order = o /\ tx'[c].known = (o \in history)
        /\ \A p \in Products : ProductOf[o] = p => tx'[c].stock = stock[p]
        /\ \A d \in Consumers \ {c} : tx'[d] = tx[d]
  BY SagaTypes DEF Open, Snapshot, TypeOK

(* What the end of a transaction leaves of it.                                 *)
LEMMA EndLeaves ==
  ASSUME TypeOK, OwnerInv, NEW c \in Consumers, Ends(c)
  PROVE /\ tx'[c].phase # "open" /\ tx'[c].order \in {None, tx[c].order}
        /\ \A d \in Consumers \ {c} : tx'[d] = tx[d]
        /\ tx[c].order \in Orders /\ tx[c] \in Transaction
  <1>1. tx[c].order \in Orders /\ tx \in [Consumers -> Transaction] /\ tx[c].tries \in 0 .. Retries
    BY DEF Ends, OwnerInv, TypeOK, Transaction
  <1>2. tx[c].tries < Retries => /\ Retrying(tx[c].order, tx[c].tries + 1).phase = "retry"
                                 /\ Retrying(tx[c].order, tx[c].tries + 1).order = tx[c].order
    BY <1>1, IdleTypes, SagaTypes
  <1> QED BY <1>1, <1>2, IdleTypes DEF Ends

(* A rebalance changes nothing of a transaction but its owner.                 *)
LEMMA RebalanceLeaves ==
  ASSUME TypeOK, NEW c \in Consumers, Rebalance(c)
  PROVE /\ \/ tx'[c].phase = "idle" /\ tx'[c].order = None
           \/ /\ tx'[c].phase = tx[c].phase /\ tx'[c].order = tx[c].order
              /\ tx'[c].stock = tx[c].stock /\ tx'[c].known = tx[c].known
        /\ \A d \in Consumers \ {c} : tx'[d] = tx[d]
  <1>1. tx \in [Consumers -> Transaction] /\ tx[c] \in Transaction
    BY DEF TypeOK
  <1>2. /\ tx'[c] = Idle \/ tx'[c] = [tx[c] EXCEPT !.owns = FALSE]
        /\ \A d \in Consumers \ {c} : tx'[d] = tx[d]
    BY <1>1 DEF Rebalance
  <1> QED BY <1>1, <1>2, IdleTypes DEF Transaction

(* Only the inventory service's own steps touch its tables.                    *)
LEMMA OutsideInventory ==
  ASSUME [Next]_vars,
         \A c \in Consumers : ~Inventory(c) /\ ~InventoryDatabaseError(c) /\ ~Rebalance(c)
  PROVE UNCHANGED <<stock, history, deducted, tx, answerBox>>
  BY DEF Next, Customer, CreateOrder, Mutate, Deliver, OrderHandlers, HandleStockUpdatedEvent,
         HandleStockUpdateFailedEvent, OutboxFull, AnswerDatabaseError, AnswerFails,
         RelayPendingEvents, RelayInterrupted, RelayPass, RelayPurges, RelayAnswer,
         RelayAnswerInterrupted, stockVars, topicVars, orderVars, vars

(* The accounting of the stock, action by action.                              *)
LEMMA StockStep == TypeOK /\ OwnerInv /\ StockInv /\ [Next]_vars => StockInv'
  <1> SUFFICES ASSUME TypeOK, OwnerInv, StockInv, [Next]_vars PROVE StockInv'
    OBVIOUS
  <1>t. /\ stock \in [Products -> Stock] /\ tx \in [Consumers -> Transaction]
        /\ \A p \in Products : stock[p] \in Stock /\ stock[p].version \in Nat /\ stock[p].quantity \in Int
    BY DEF TypeOK, Stock
  <1>0. ASSUME UNCHANGED <<stock, deducted>>, deducted \subseteq history',
               \A c \in Consumers : tx'[c].phase = "open" =>
                 \A p \in Products : ProductOf[tx'[c].order] = p =>
                   \/ tx'[c].stock = stock[p]
                   \/ tx[c].phase = "open" /\ tx'[c].order = tx[c].order /\ tx'[c].stock = tx[c].stock
        PROVE StockInv'
    <2>1. \A p \in Products : TakenFrom(p)' = TakenFrom(p)
      BY <1>0 DEF TakenFrom, DeductedFrom
    <2>2. StockConserved'
      BY <1>0, <2>1 DEF StockInv, StockConserved
    <2>3. \A c \in Consumers : \A p \in Products :
            tx'[c].phase = "open" /\ ProductOf[tx'[c].order] = p =>
              /\ tx'[c].stock.version <= stock[p].version
              /\ tx'[c].stock.version = stock[p].version => tx'[c].stock.quantity = stock[p].quantity
      BY <1>t, <1>0 DEF StockInv
    <2> QED BY <1>0, <2>1, <2>2, <2>3 DEF StockInv
  <1>n. ASSUME NEW c \in Consumers, NEW o \in Orders, NEW n, Open(c, o, n, TRUE),
               UNCHANGED <<stock, history, deducted>>
        PROVE StockInv'
    <2>1. /\ tx'[c].order = o /\ \A p \in Products : ProductOf[o] = p => tx'[c].stock = stock[p]
          /\ \A d \in Consumers \ {c} : tx'[d] = tx[d]
      BY <1>n, OpenShows
    <2>2. \A d \in Consumers : tx'[d].phase = "open" =>
            \A p \in Products : ProductOf[tx'[d].order] = p =>
              \/ tx'[d].stock = stock[p]
              \/ tx[d].phase = "open" /\ tx'[d].order = tx[d].order /\ tx'[d].stock = tx[d].stock
      BY <2>1
    <2>3. deducted \subseteq history'
      BY <1>n DEF StockInv
    <2> QED BY <1>n, <1>0, <2>2, <2>3
  <1>1. ASSUME NEW c \in Consumers, NEW o \in Orders, Receive(c, o) PROVE StockInv'
    BY <1>1, <1>n DEF Receive
  <1>2. ASSUME NEW c \in Consumers, Redeliver(c) PROVE StockInv'
    <2>1. tx[c].order \in Orders
      BY <1>2 DEF Redeliver, OwnerInv
    <2> QED BY <1>2, <1>n, <2>1 DEF Redeliver
  <1>3. ASSUME NEW c \in Consumers, EndingStep(c), ~Reserve(c) PROVE StockInv'
    <2>1. UNCHANGED <<stock, deducted>> /\ history \subseteq history'
      BY <1>3 DEF EndingStep, SkipDuplicate, Refuse, Answer, Conflict, InventoryDatabaseError, RollBack
    <2>2. tx'[c].phase # "open" /\ \A d \in Consumers \ {c} : tx'[d] = tx[d]
      BY <1>3, StepEnds, EndLeaves
    <2> QED BY <1>0, <2>1, <2>2 DEF StockInv
  <1>4. ASSUME NEW c \in Consumers, Reserve(c) PROVE StockInv'
    <2>1. PICK o \in Orders : o = tx[c].order
      BY <1>4 DEF Reserve, OwnerInv
    <2>2. PICK p \in Products : p = ProductOf[o]
      BY <1>4, <2>1, SagaTypes DEF Reserve, Enough
    <2>3. /\ tx[c].stock.version = stock[p].version /\ tx[c].stock.quantity = stock[p].quantity
          /\ stock[p].quantity >= Quantity[o] /\ Quantity[o] \in Nat
      BY <1>4, <2>1, <2>2, SagaTypes DEF Reserve, Unchanged, Enough, StockInv
    <2>4. /\ stock' = [stock EXCEPT ![p] = [quantity |-> stock[p].quantity - Quantity[o],
                                            version |-> stock[p].version + 1]]
          /\ deducted' = deducted \cup {o} /\ history' = history \cup {o} /\ o \notin deducted
      BY <1>4, <2>1, <2>2, <2>3 DEF Reserve, CanAnswer, Deduct, Answer, StockInv
    <2>5. /\ stock'[p].quantity = stock[p].quantity - Quantity[o]
          /\ stock'[p].version = stock[p].version + 1
          /\ \A q \in Products \ {p} : stock'[q] = stock[q]
      BY <1>t, <2>4
    <2>6. \A q \in Products : /\ IsFiniteSet(TakenFrom(q)')
                              /\ Cardinality(TakenFrom(q)) \in Nat
                              /\ Cardinality(TakenFrom(q)') = IF q = p THEN Cardinality(TakenFrom(q)) + Quantity[o]
                                                              ELSE Cardinality(TakenFrom(q))
      BY <2>2, <2>4, TakenGrows DEF StockInv
    <2>7. StockConserved'
      <3>1. \A q \in Products : stock[q].quantity >= 0 /\ InitialStock[q] \in Nat
                                /\ stock[q].quantity = InitialStock[q] - Cardinality(TakenFrom(q))
        BY SagaTypes DEF StockInv, StockConserved
      <3>2. \A q \in Products : stock'[q].quantity >= 0
                                /\ stock'[q].quantity = InitialStock[q] - Cardinality(TakenFrom(q)')
        BY <1>t, <2>3, <2>5, <2>6, <3>1
      <3> QED BY <3>2 DEF StockConserved
    <2>8. tx'[c].phase # "open" /\ \A d \in Consumers \ {c} : tx'[d] = tx[d]
      BY <1>4, StepEnds, EndLeaves DEF EndingStep
    <2>9. ASSUME NEW d \in Consumers, NEW q \in Products, tx'[d].phase = "open", ProductOf[tx'[d].order] = q
          PROVE /\ tx'[d].stock.version <= stock'[q].version
                /\ tx'[d].stock.version = stock'[q].version => tx'[d].stock.quantity = stock'[q].quantity
      <3>1. /\ tx'[d] = tx[d] /\ tx[d].stock.version <= stock[q].version
            /\ tx[d].stock.version = stock[q].version => tx[d].stock.quantity = stock[q].quantity
        BY <2>8, <2>9 DEF StockInv
      <3>2. tx[d].stock.version \in Nat
        BY <1>t DEF Transaction, Stock
      <3> QED BY <1>t, <2>5, <3>1, <3>2
    <2> QED BY <2>4, <2>6, <2>7, <2>9 DEF StockInv
  <1>5. ASSUME NEW c \in Consumers, Rebalance(c) PROVE StockInv'
    <2>1. UNCHANGED <<stock, history, deducted>> /\ deducted \subseteq history'
      BY <1>5 DEF Rebalance, StockInv
    <2>2. \A d \in Consumers : tx'[d].phase = "open" =>
            tx[d].phase = "open" /\ tx'[d].order = tx[d].order /\ tx'[d].stock = tx[d].stock
      BY <1>5, RebalanceLeaves
    <2> QED BY <1>0, <2>1, <2>2
  <1>6. ASSUME \A c \in Consumers : ~Inventory(c) /\ ~InventoryDatabaseError(c) /\ ~Rebalance(c)
        PROVE StockInv'
    BY <1>6, <1>0, OutsideInventory DEF StockInv
  <1> QED BY <1>1, <1>2, <1>3, <1>4, <1>5, <1>6 DEF Inventory, EndingStep

(* Why decisions match: every answer says what the history says, wherever it   *)
(* is, and an order is cancelled by an answer or by its customer.              *)
DecisionInv ==
  /\ \A k \in DOMAIN answerBox :
       LET r == answerBox[k]
       IN r.order \in history /\ (r.answer = "updated" <=> r.order \in deducted)
  /\ \A o \in Orders :
       /\ answers[o]["updated"] > 0 => o \in deducted
       /\ answers[o]["failed"] > 0 => o \in history \ deducted
       /\ order[o].seq > 0 => o \in deducted
       /\ order[o].status \in {"ABSENT", "PENDING"} => order[o].seq = 0
       /\ order[o].status = "CONFIRMED" => order[o].seq > 0
       /\ order[o].status = "CANCELLED" =>
            order[o].seq > 1 \/ (order[o].seq = 0 /\ o \in history \ deducted)

(* A handler takes at most one copy of an answer from the topic.               *)
LEMMA AnswersShrink ==
  ASSUME TypeOK, NEW o \in Orders, NEW a \in Answers, answers[o][a] > 0,
         \/ UNCHANGED answers
         \/ answers' = [answers EXCEPT ![o][a] = @ - 1]
  PROVE \A q \in Orders, b \in Answers :
          /\ answers'[q][b] > 0 => answers[q][b] > 0
          /\ q # o => answers'[q][b] = answers[q][b]
  <1>1. answers \in [Orders -> [Answers -> Nat]] /\ \A q \in Orders, b \in Answers : answers[q][b] \in Nat
    BY DEF TypeOK
  <1>2. CASE UNCHANGED answers
    BY <1>2
  <1>3. CASE answers' = [answers EXCEPT ![o][a] = @ - 1]
    BY <1>1, <1>3, AnswerCounts
  <1> QED BY <1>2, <1>3

(* Handlers and customers move an order along; the history only grows, and an  *)
(* event enters it with its answer.                                            *)
LEMMA DecisionStep == TypeOK /\ OwnerInv /\ StockInv /\ DecisionInv /\ [Next]_vars => DecisionInv'
  <1> SUFFICES ASSUME TypeOK, OwnerInv, StockInv, DecisionInv, [Next]_vars PROVE DecisionInv'
    OBVIOUS
  <1>t. /\ order \in [Orders -> [status : Statuses, seq : 0 .. MaxSequence]]
        /\ \A o \in Orders : order[o].seq \in Nat
        /\ answerBox \in Seq(AnswerRow)
    BY SagaTypes DEF TypeOK
  <1>0. ASSUME UNCHANGED <<order, answerBox, history, deducted, answers>> PROVE DecisionInv'
    BY <1>0 DEF DecisionInv
  <1>h. ASSUME UNCHANGED <<answerBox, history, deducted>>, NEW o \in Orders, NEW a \in Answers,
               answers[o][a] > 0, UNCHANGED answers \/ answers' = [answers EXCEPT ![o][a] = @ - 1],
               \/ UNCHANGED order
               \/ /\ order[o].status = "PENDING" /\ a = "updated"
                  /\ order' = [order EXCEPT ![o] = [status |-> "CONFIRMED", seq |-> order[o].seq + 1]]
               \/ /\ order[o].status = "PENDING" /\ a = "failed"
                  /\ order' = [order EXCEPT ![o].status = "CANCELLED"]
        PROVE DecisionInv'
    <2>1. \A q \in Orders, b \in Answers : answers'[q][b] > 0 => answers[q][b] > 0
      BY <1>h, AnswersShrink
    <2>2. \A q \in Orders : /\ answers'[q]["updated"] > 0 => q \in deducted
                            /\ answers'[q]["failed"] > 0 => q \in history \ deducted
      BY <2>1 DEF DecisionInv, Answers
    <2>3. /\ order[o].status = "PENDING" => order[o].seq = 0
          /\ a = "updated" => o \in deducted
          /\ a = "failed" => o \in history \ deducted
      BY <1>h DEF DecisionInv
    <2>4. \A q \in Orders \ {o} : order'[q] = order[q]
      BY <1>h, <1>t
    <2>5. \/ order'[o] = order[o]
          \/ order'[o].status = "CONFIRMED" /\ order'[o].seq = 1 /\ o \in deducted
          \/ order'[o].status = "CANCELLED" /\ order'[o].seq = 0 /\ o \in history \ deducted
      BY <1>h, <1>t, <2>3
    <2> QED BY <1>h, <2>2, <2>4, <2>5 DEF DecisionInv
  <1>1. ASSUME NEW o \in Orders, CreateOrder(o) PROVE DecisionInv'
    <2>1. /\ order[o].status = "ABSENT" /\ order'[o].status = "PENDING" /\ order'[o].seq = order[o].seq
          /\ \A q \in Orders \ {o} : order'[q] = order[q]
          /\ UNCHANGED <<answerBox, history, deducted, answers>>
      BY <1>1, <1>t DEF CreateOrder, stockVars, topicVars
    <2> QED BY <2>1 DEF DecisionInv
  <1>2. ASSUME NEW o \in Orders, Mutate(o) PROVE DecisionInv'
    <2>1. /\ order[o].seq > 0 /\ order'[o].seq = order[o].seq + 1
          /\ order'[o].status \in {"CONFIRMED", "CANCELLED"}
          /\ \A q \in Orders \ {o} : order'[q] = order[q]
          /\ UNCHANGED <<answerBox, history, deducted, answers>>
      BY <1>2, <1>t DEF Mutate, EnqueuePartner, stockVars, topicVars
    <2>2. order'[o].seq > 1
      BY <1>t, <2>1
    <2> QED BY <1>t, <2>1, <2>2 DEF DecisionInv
  <1>3. ASSUME NEW o \in Orders, HandleStockUpdatedEvent(o) PROVE DecisionInv'
    <2>1. /\ UNCHANGED <<answerBox, history, deducted>> /\ answers[o]["updated"] > 0 /\ "updated" \in Answers
          /\ UNCHANGED answers \/ answers' = [answers EXCEPT ![o]["updated"] = @ - 1]
          /\ \/ UNCHANGED order
             \/ /\ order[o].status = "PENDING"
                /\ order' = [order EXCEPT ![o] = [status |-> "CONFIRMED", seq |-> order[o].seq + 1]]
      BY <1>3 DEF HandleStockUpdatedEvent, EnqueuePartner, AcknowledgeAnswer, stockVars, Answers
    <2> QED BY <1>h, <2>1
  <1>4. ASSUME NEW o \in Orders, HandleStockUpdateFailedEvent(o) PROVE DecisionInv'
    <2>1. /\ UNCHANGED <<answerBox, history, deducted>> /\ answers[o]["failed"] > 0 /\ "failed" \in Answers
          /\ UNCHANGED answers \/ answers' = [answers EXCEPT ![o]["failed"] = @ - 1]
          /\ \/ UNCHANGED order
             \/ /\ order[o].status = "PENDING"
                /\ order' = [order EXCEPT ![o].status = "CANCELLED"]
      BY <1>4 DEF HandleStockUpdateFailedEvent, AcknowledgeAnswer, stockVars, Answers
    <2> QED BY <1>h, <2>1
  <1>5. ASSUME NEW o \in Orders, NEW a \in Answers, AnswerFails(o, a) PROVE DecisionInv'
    <2>1. /\ UNCHANGED <<answerBox, history, deducted, order>> /\ answers[o][a] > 0
          /\ UNCHANGED answers \/ answers' = [answers EXCEPT ![o][a] = @ - 1]
      BY <1>5 DEF AnswerFails, stockVars
    <2> QED BY <1>h, <2>1
  <1>6. CASE RelayAnswer \/ RelayAnswerInterrupted
    <2>1. PICK k \in DOMAIN answerBox : /\ answers' = [answers EXCEPT ![answerBox[k].order][answerBox[k].answer] = @ + 1]
                                        /\ UNCHANGED <<order, answerBox, history, deducted>>
      <3>1. answersSent + 1 \in DOMAIN answerBox
        BY <1>6, <1>t DEF RelayAnswer, RelayAnswerInterrupted, TypeOK
      <3> QED BY <1>6, <3>1 DEF RelayAnswer, RelayAnswerInterrupted, Publish, stockVars, orderVars
    <2>2. answerBox[k] \in AnswerRow
      BY <1>t, ElementOfSeq, LenProperties
    <2>3. answerBox[k].order \in Orders /\ answerBox[k].answer \in Answers
      BY <2>2 DEF AnswerRow
    <2>4. \A q \in Orders, b \in Answers :
            answers'[q][b] = IF q = answerBox[k].order /\ b = answerBox[k].answer
                             THEN answers[q][b] + 1 ELSE answers[q][b]
      BY <2>1, <2>3, AnswerCounts
    <2>5. \A q \in Orders : /\ answers'[q]["updated"] > 0 => q \in deducted
                            /\ answers'[q]["failed"] > 0 => q \in history \ deducted
      BY <2>4 DEF DecisionInv, Answers
    <2> QED BY <2>1, <2>5 DEF DecisionInv
  <1>7. ASSUME NEW c \in Consumers, NEW a \in Answers, Answer(c, a), tx[c].order \in Orders,
               tx[c].order \notin history,
               deducted' = IF a = "updated" THEN deducted \cup {tx[c].order} ELSE deducted
        PROVE DecisionInv'
    <2>1. PICK o \in Orders : o = tx[c].order /\ o \notin history /\ o \notin deducted
      BY <1>7 DEF StockInv
    <2>2. /\ history' = history \cup {o} /\ answerBox' = Append(answerBox, [order |-> o, answer |-> a])
          /\ UNCHANGED <<order, answers>>
      BY <1>7, <2>1 DEF Answer, orderVars
    <2>3. [order |-> o, answer |-> a] \in AnswerRow
      BY DEF AnswerRow
    <2>4. \A k \in DOMAIN answerBox' :
            IF k \in DOMAIN answerBox THEN answerBox'[k] = answerBox[k]
            ELSE answerBox'[k].order = o /\ answerBox'[k].answer = a
      BY <1>t, <2>2, <2>3
    <2>5. \A k \in DOMAIN answerBox' :
            LET r == answerBox'[k]
            IN r.order \in history' /\ (r.answer = "updated" <=> r.order \in deducted')
      BY <1>7, <2>1, <2>2, <2>4 DEF DecisionInv
    <2>6. \A q \in Orders : /\ q \in deducted => q \in deducted'
                            /\ q \in history \ deducted => q \in history' \ deducted'
      BY <1>7, <2>1, <2>2
    <2> QED BY <2>2, <2>5, <2>6 DEF DecisionInv
  <1>8. ASSUME NEW c \in Consumers, EndingStep(c) PROVE DecisionInv'
    <2>0. tx[c].order \in Orders
      BY <1>8, StepEnds, EndLeaves
    <2>1. CASE Refuse(c)
      BY <1>7, <2>0, <2>1 DEF Refuse, CanAnswer, Answers
    <2>2. CASE Reserve(c)
      BY <1>7, <2>0, <2>2 DEF Reserve, Deduct, CanAnswer, Answers
    <2>3. CASE SkipDuplicate(c) \/ Conflict(c) \/ InventoryDatabaseError(c)
      BY <1>0, <2>3 DEF SkipDuplicate, Conflict, InventoryDatabaseError, RollBack, orderVars
    <2> QED BY <1>8, <2>1, <2>2, <2>3 DEF EndingStep
  <1>9. ASSUME NEW c \in Consumers, (\E o \in Orders : Receive(c, o)) \/ Redeliver(c) \/ Rebalance(c)
        PROVE DecisionInv'
    BY <1>9, <1>0 DEF Receive, Redeliver, Rebalance, orderVars, topicVars
  <1>10. ASSUME NEW o \in Orders, Deliver(o) PROVE DecisionInv'
    BY <1>10, <1>0 DEF Deliver, orderVars, stockVars, topicVars
  <1>11. CASE RelayPendingEvents \/ RelayPurges \/ RelayInterrupted \/ UNCHANGED vars
    BY <1>11, <1>0 DEF RelayPendingEvents, RelayPurges, RelayInterrupted, RelayPass,
                       vars, orderVars, stockVars, topicVars
  <1> QED BY <1>1, <1>2, <1>3, <1>4, <1>5, <1>6, <1>8, <1>9, <1>10, <1>11
          DEF Next, Customer, OrderHandlers, OutboxFull, AnswerDatabaseError, Answers, Inventory, EndingStep

-----------------------------------------------------------------------------
(* Events in flight *)

Answered(o) == UnsentAnswer(o) \/ \E a \in Answers : answers[o][a] > 0

Tracked(o) ==
  \/ o \in history /\ Answered(o)
  \/ o \notin history /\ (UnsentOrder(o) \/ created[o] > 0)
  \/ DeadLettered(o)

(* Why nothing is lost: until its order is handled the event is in the outbox  *)
(* or in the topic, and until the order is decided so is the answer.           *)
FlightInv ==
  /\ answersSent <= Len(answerBox)
  /\ \A c \in Consumers : tx[c].phase = "open" /\ tx[c].known => tx[c].order \in history
  /\ \A o \in PendingOrders : Tracked(o)

(* There is nothing of an order before it is created.                          *)
ExistInv ==
  \A o \in Orders : order[o].status = "ABSENT" =>
    /\ created[o] = 0 /\ o \notin history
    /\ \A k \in DOMAIN outbox : outbox[k].order # o
    /\ \A c \in Consumers : tx[c].order # o

(* The order service's own steps on an order that is there.                    *)
OrderStep(o) ==
  \/ Mutate(o) \/ HandleStockUpdatedEvent(o) \/ HandleStockUpdateFailedEvent(o)
  \/ OutboxFull(o) \/ AnswerDatabaseError(o)

(* They leave its events alone, but for a new row of the partner.              *)
LEMMA OrderStepRows ==
  ASSUME TypeOK, NEW o \in Orders, OrderStep(o)
  PROVE /\ UNCHANGED <<created, history, tx, answerBox, answersSent>>
        /\ \A q \in Orders \ {o} : order'[q] = order[q]
        /\ order'[o].status = "ABSENT" => order[o].status = "ABSENT"
        /\ order'[o].status = "PENDING" => order[o].status = "PENDING"
        /\ \/ UNCHANGED outbox
           \/ /\ order'[o].status # "ABSENT"
              /\ DOMAIN outbox \subseteq DOMAIN outbox'
              /\ \A k \in DOMAIN outbox : outbox'[k] = outbox[k]
              /\ \A k \in DOMAIN outbox' \ DOMAIN outbox : outbox'[k].order = o /\ outbox'[k].op # "ORDER"
  <1>0. order \in [Orders -> [status : Statuses, seq : 0 .. MaxSequence]] /\ UNCHANGED partnerTopic
    BY DEF TypeOK, OrderStep, Mutate, HandleStockUpdatedEvent, HandleStockUpdateFailedEvent, OutboxFull,
           AnswerDatabaseError, AnswerFails, topicVars
  <1>1. UNCHANGED <<created, history, tx, answerBox, answersSent>>
    BY DEF OrderStep, Mutate, HandleStockUpdatedEvent, HandleStockUpdateFailedEvent, OutboxFull,
           AnswerDatabaseError, AnswerFails, stockVars, topicVars
  <1>2. ASSUME NEW op \in Operations, NEW status \in {"CONFIRMED", "CANCELLED"}, EnqueuePartner(o, op, status)
        PROVE /\ \A q \in Orders \ {o} : order'[q] = order[q]
              /\ order'[o].status = status
              /\ DOMAIN outbox \subseteq DOMAIN outbox'
              /\ \A k \in DOMAIN outbox : outbox'[k] = outbox[k]
              /\ \A k \in DOMAIN outbox' \ DOMAIN outbox : outbox'[k].order = o /\ outbox'[k].op # "ORDER"
    <2>1. /\ NewRow(o, order[o].seq + 1, op) \in OutboxRow
          /\ outbox' = Append(outbox, NewRow(o, order[o].seq + 1, op))
      BY <1>0, <1>2, EnqueueTypes DEF Statuses
    <2>2. /\ DOMAIN outbox = 1 .. Len(outbox) /\ DOMAIN outbox' = 1 .. Len(outbox) + 1 /\ Len(outbox) \in Nat
          /\ \A k \in DOMAIN outbox : k \in DOMAIN outbox' /\ outbox'[k] = outbox[k]
          /\ outbox'[Len(outbox) + 1] = NewRow(o, order[o].seq + 1, op)
      BY <2>1, AppendRow DEF TypeOK
    <2>3. \A k \in DOMAIN outbox' \ DOMAIN outbox : outbox'[k].order = o /\ outbox'[k].op # "ORDER"
      BY <2>2 DEF NewRow, Operations
    <2>4. (\A q \in Orders \ {o} : order'[q] = order[q]) /\ order'[o].status = status
      BY <1>0, <1>2 DEF EnqueuePartner
    <2> QED BY <2>2, <2>3, <2>4
  <1>3. CASE Mutate(o)
    BY <1>1, <1>2, <1>3 DEF Mutate, Operations
  <1>4. CASE HandleStockUpdatedEvent(o)
    BY <1>1, <1>2, <1>4 DEF HandleStockUpdatedEvent, Operations
  <1>5. CASE HandleStockUpdateFailedEvent(o)
    BY <1>0, <1>1, <1>5 DEF HandleStockUpdateFailedEvent
  <1>6. CASE OutboxFull(o) \/ AnswerDatabaseError(o)
    BY <1>1, <1>6 DEF OutboxFull, AnswerDatabaseError, AnswerFails
  <1> QED BY <1>3, <1>4, <1>5, <1>6 DEF OrderStep

(* A new order.                                                                *)
LEMMA CreateRows ==
  ASSUME TypeOK, NEW o \in Orders, CreateOrder(o)
  PROVE /\ UNCHANGED <<created, history, tx, answerBox, answersSent, answers, deadLetters>>
        /\ \A q \in Orders \ {o} : order'[q] = order[q]
        /\ order[o].status = "ABSENT" /\ order'[o].status = "PENDING" /\ order'[o].seq = order[o].seq
        /\ DOMAIN outbox = 1 .. Len(outbox) /\ DOMAIN outbox' = 1 .. Len(outbox) + 1 /\ Len(outbox) \in Nat
        /\ \A k \in DOMAIN outbox : k \in DOMAIN outbox' /\ outbox'[k] = outbox[k]
        /\ outbox'[Len(outbox) + 1] = NewRow(o, 0, "ORDER")
  <1>1. NewRow(o, 0, "ORDER") \in OutboxRow /\ outbox' = Append(outbox, NewRow(o, 0, "ORDER"))
    BY SagaTypes DEF CreateOrder, NewRow, OutboxRow
  <1>2. /\ DOMAIN outbox = 1 .. Len(outbox) /\ DOMAIN outbox' = 1 .. Len(outbox) + 1 /\ Len(outbox) \in Nat
        /\ \A k \in DOMAIN outbox : k \in DOMAIN outbox' /\ outbox'[k] = outbox[k]
        /\ outbox'[Len(outbox) + 1] = NewRow(o, 0, "ORDER")
    BY <1>1, AppendRow DEF TypeOK
  <1>3. order \in [Orders -> [status : Statuses, seq : 0 .. MaxSequence]]
    BY DEF TypeOK
  <1> QED BY <1>2, <1>3 DEF CreateOrder, stockVars, topicVars

(* What a pass of the relay does to the outbox and to the topics.              *)
Relays(stored, marked, gone) ==
  /\ stored \subseteq Batch /\ marked \subseteq stored /\ gone \subseteq Purgeable
  /\ \A k \in marked, j \in Batch : j < k => j \in marked
  /\ Mark(marked, gone)
  /\ created' = [o \in Orders |-> created[o] +
       (IF \E k \in stored : outbox[k].order = o /\ outbox[k].op = "ORDER" THEN 1 ELSE 0)]
  /\ partnerTopic' = [o \in Orders |->
       IF Published(o, stored) = {} THEN partnerTopic[o]
       ELSE Append(partnerTopic[o], Published(o, stored))]
  /\ UNCHANGED <<order, stockVars, answers, deadLetters, delivered>>

(* A pass of the relay, whole, interrupted or without rows, in one form.       *)
LEMMA RelayStep ==
  ASSUME TypeOK, RelayPendingEvents \/ RelayInterrupted \/ RelayPurges
  PROVE \E stored, marked, gone : Relays(stored, marked, gone)
  <1>1. CASE RelayPendingEvents
    <2>1. PICK gone \in SUBSET Purgeable : Mark(Batch, gone)
      BY <1>1 DEF RelayPendingEvents, RelayPass
    <2>2. Relays(Batch, Batch, gone)
      BY <1>1, <2>1 DEF RelayPendingEvents, RelayPass, Relays
    <2> QED BY <2>2
  <1>2. CASE RelayInterrupted
    <2>1. PICK stored \in SUBSET Batch : \E marked \in SUBSET stored :
            (\A k \in marked, j \in Batch : j < k => j \in marked) /\ RelayPass(stored, marked)
      BY <1>2 DEF RelayInterrupted
    <2>2. PICK marked \in SUBSET stored :
            (\A k \in marked, j \in Batch : j < k => j \in marked) /\ RelayPass(stored, marked)
      BY <2>1
    <2>3. PICK gone \in SUBSET Purgeable : Mark(marked, gone)
      BY <2>2 DEF RelayPass
    <2>4. Relays(stored, marked, gone)
      BY <2>2, <2>3 DEF RelayPass, Relays
    <2> QED BY <2>4
  <1>3. CASE RelayPurges
    <2>1. PICK gone \in SUBSET Purgeable : Mark({}, gone)
      BY <1>3 DEF RelayPurges
    <2>2. UNCHANGED <<created, partnerTopic, order, stockVars, answers, deadLetters, delivered>>
      BY <1>3 DEF RelayPurges, topicVars
    <2>3. created' = [o \in Orders |-> created[o] +
            (IF \E k \in {} : outbox[k].order = o /\ outbox[k].op = "ORDER" THEN 1 ELSE 0)]
      BY <2>2 DEF TypeOK
    <2>4. \A o \in Orders : Published(o, {}) = {}
      BY DEF Published
    <2>5. partnerTopic' = [o \in Orders |-> IF Published(o, {}) = {} THEN partnerTopic[o]
                                            ELSE Append(partnerTopic[o], Published(o, {}))]
      BY <2>2, <2>4 DEF TypeOK
    <2>6. Relays({}, {}, gone)
      BY <2>1, <2>2, <2>3, <2>5 DEF Relays
    <2> QED BY <2>6
  <1> QED BY <1>1, <1>2, <1>3

(* Nothing is there before its order, action by action.                        *)
LEMMA ExistStep == TypeOK /\ OwnerInv /\ ExistInv /\ [Next]_vars => ExistInv'
  <1> SUFFICES ASSUME TypeOK, OwnerInv, ExistInv, [Next]_vars PROVE ExistInv'
    OBVIOUS
  <1>t. tx \in [Consumers -> Transaction] /\ created \in [Orders -> Nat]
    BY DEF TypeOK
  <1>0. ASSUME UNCHANGED <<order, created, history, outbox, tx>> PROVE ExistInv'
    BY <1>0 DEF ExistInv
  <1>1. ASSUME NEW o \in Orders, CreateOrder(o) PROVE ExistInv'
    <2>0. /\ DOMAIN outbox = 1 .. Len(outbox) /\ DOMAIN outbox' = 1 .. Len(outbox) + 1 /\ Len(outbox) \in Nat
          /\ outbox'[Len(outbox) + 1] = NewRow(o, 0, "ORDER")
      BY <1>1, CreateRows
    <2>1. outbox'[Len(outbox) + 1].order = o
      BY <2>0 DEF NewRow
    <2>2. \A k \in DOMAIN outbox' : k \in DOMAIN outbox \/ outbox'[k].order = o
      BY <2>0, <2>1
    <2> QED BY <1>1, <2>2, CreateRows DEF ExistInv
  <1>2. ASSUME NEW o \in Orders, OrderStep(o) PROVE ExistInv'
    BY <1>2, OrderStepRows DEF ExistInv
  <1>3. ASSUME NEW c \in Consumers, NEW o \in Orders, NEW n, Open(c, o, n, TRUE),
               order[o].status # "ABSENT", UNCHANGED <<order, created, history, outbox>>
        PROVE ExistInv'
    <2>1. tx'[c].order = o /\ \A d \in Consumers \ {c} : tx'[d] = tx[d]
      BY <1>3, OpenShows
    <2> QED BY <1>3, <2>1 DEF ExistInv
  <1>4. ASSUME NEW c \in Consumers, (\E o \in Orders : Receive(c, o)) \/ Redeliver(c) PROVE ExistInv'
    <2>1. ASSUME NEW o \in Orders, Receive(c, o) PROVE ExistInv'
      <3>1. order[o].status # "ABSENT"
        BY <1>t, <2>1 DEF Receive, ExistInv
      <3> QED BY <1>3, <2>1, <3>1 DEF Receive, orderVars, topicVars
    <2>2. CASE Redeliver(c)
      <3>1. tx[c].order \in Orders /\ order[tx[c].order].status # "ABSENT"
        BY <2>2 DEF Redeliver, ExistInv, OwnerInv
      <3> QED BY <1>3, <2>2, <3>1 DEF Redeliver, orderVars, topicVars
    <2> QED BY <1>4, <2>1, <2>2
  <1>5. ASSUME NEW c \in Consumers, EndingStep(c) PROVE ExistInv'
    <2>1. /\ tx'[c].order \in {None, tx[c].order} /\ \A d \in Consumers \ {c} : tx'[d] = tx[d]
          /\ tx[c].order \in Orders
      BY <1>5, StepEnds, EndLeaves
    <2>2. PICK o \in Orders : o = tx[c].order /\ order[o].status # "ABSENT"
      BY <2>1 DEF ExistInv
    <2>3. \A q \in Orders \ {o} : created'[q] = created[q]
      BY <1>5, <1>t, <2>2, StepEnds DEF Ends
    <2>4. UNCHANGED <<order, outbox>> /\ history' \subseteq history \cup {o}
      BY <1>5, <2>2 DEF EndingStep, SkipDuplicate, Refuse, Reserve, Deduct, Answer, Conflict,
                        InventoryDatabaseError, RollBack, orderVars
    <2> QED BY <2>1, <2>2, <2>3, <2>4, SagaTypes DEF ExistInv
  <1>6. ASSUME NEW c \in Consumers, Rebalance(c) PROVE ExistInv'
    <2>1. UNCHANGED <<order, outbox, history, created>>
      BY <1>6 DEF Rebalance, orderVars, topicVars
    <2> QED BY <1>6, <2>1, RebalanceLeaves, SagaTypes DEF ExistInv
  <1>7. CASE RelayPendingEvents \/ RelayInterrupted \/ RelayPurges
    <2>1. PICK stored, marked, gone : Relays(stored, marked, gone)
      BY <1>7, RelayStep
    <2>2. stored \subseteq DOMAIN outbox
      BY <2>1 DEF Relays, Batch, Pending
    <2>3. DOMAIN outbox' = DOMAIN outbox /\ \A k \in DOMAIN outbox : outbox'[k].order = outbox[k].order
      BY <2>1, MarkRows DEF Relays, TypeOK
    <2>4. UNCHANGED <<order, history, tx>>
      BY <2>1 DEF Relays, stockVars
    <2>5. ASSUME NEW o \in Orders, order[o].status = "ABSENT" PROVE created'[o] = 0
      <3>1. ~\E k \in stored : outbox[k].order = o /\ outbox[k].op = "ORDER"
        BY <2>2, <2>5 DEF ExistInv
      <3>2. created[o] = 0
        BY <2>5 DEF ExistInv
      <3> QED BY <2>1, <3>1, <3>2 DEF Relays
    <2> QED BY <2>3, <2>4, <2>5 DEF ExistInv
  <1>8. ASSUME NEW o \in Orders, Deliver(o) PROVE ExistInv'
    BY <1>8, <1>0 DEF Deliver, orderVars, stockVars, topicVars
  <1>9. CASE RelayAnswer \/ RelayAnswerInterrupted \/ UNCHANGED vars
    BY <1>9, <1>0 DEF RelayAnswer, RelayAnswerInterrupted, vars, orderVars, stockVars, topicVars
  <1> QED BY <1>1, <1>2, <1>4, <1>5, <1>6, <1>7, <1>8, <1>9
          DEF Next, Customer, OrderHandlers, OrderStep, Inventory, EndingStep

(* A step that keeps what there is of an order keeps it tracked.               *)
LEMMA StaysTracked ==
  ASSUME TypeOK, NEW o \in Orders, Tracked(o), deadLetters \subseteq deadLetters',
         o \in history' <=> o \in history,
         Answered(o) => Answered(o)', UnsentOrder(o) => UnsentOrder(o)', created[o] > 0 => created'[o] > 0
  PROVE Tracked(o)'
  BY DEF Tracked, DeadLettered

(* Rows that stay PENDING keep their order in flight.                          *)
LEMMA UnsentStays ==
  ASSUME NEW o, DOMAIN outbox \subseteq DOMAIN outbox', \A k \in DOMAIN outbox : outbox'[k] = outbox[k]
  PROVE UnsentOrder(o) => UnsentOrder(o)'
  BY DEF UnsentOrder, Pending

(* So do unsent answers.                                                       *)
LEMMA AnsweredStays ==
  ASSUME TypeOK, NEW o \in Orders, answersSent' = answersSent,
         \/ UNCHANGED answerBox
         \/ \E r \in AnswerRow : answerBox' = Append(answerBox, r),
         \A a \in Answers : answers'[o][a] = answers[o][a]
  PROVE Answered(o) => Answered(o)'
  <1>1. UnsentAnswer(o) => UnsentAnswer(o)'
    <2>1. CASE UNCHANGED answerBox
      BY <2>1 DEF UnsentAnswer
    <2>2. ASSUME NEW r \in AnswerRow, answerBox' = Append(answerBox, r)
          PROVE UnsentAnswer(o) => UnsentAnswer(o)'
      <3>1. /\ answerBox \in Seq(AnswerRow) /\ answersSent \in Nat /\ Len(answerBox) \in Nat
            /\ Len(answerBox') = Len(answerBox) + 1
            /\ \A k \in 1 .. Len(answerBox) : answerBox'[k] = answerBox[k]
        BY <2>2 DEF TypeOK
      <3> QED BY <3>1 DEF UnsentAnswer
    <2> QED BY <2>1, <2>2
  <1> QED BY <1>1 DEF Answered

(* A record given up is in a dead letter topic.                                *)
LEMMA GivenUp ==
  ASSUME NEW o, NEW a, deadLetters' = deadLetters \cup {[order |-> o, record |-> a]}
  PROVE DeadLettered(o)' /\ deadLetters \subseteq deadLetters'
  <1>1. [order |-> o, record |-> a] \in deadLetters' /\ [order |-> o, record |-> a].order = o
    OBVIOUS
  <1> QED BY <1>1 DEF DeadLettered

(* A handler that leaves an order PENDING leaves its answers or gives one to   *)
(* the dead letter topic.                                                      *)
LEMMA HandlersTrack ==
  ASSUME TypeOK, NEW o \in Orders, OrderStep(o)
  PROVE /\ deadLetters \subseteq deadLetters'
        /\ \A q \in Orders \ {o} : \A a \in Answers : answers'[q][a] = answers[q][a]
        /\ order'[o].status = "PENDING" => UNCHANGED answers \/ DeadLettered(o)'
  <1>0. order \in [Orders -> [status : Statuses, seq : 0 .. MaxSequence]]
    BY DEF TypeOK
  <1>1. CASE Mutate(o)
    BY <1>0, <1>1 DEF Mutate, EnqueuePartner, topicVars
  <1>2. CASE HandleStockUpdatedEvent(o)
    <2>1. /\ answers[o]["updated"] > 0 /\ "updated" \in Answers /\ UNCHANGED deadLetters
          /\ UNCHANGED answers \/ answers' = [answers EXCEPT ![o]["updated"] = @ - 1]
      BY <1>2 DEF HandleStockUpdatedEvent, AcknowledgeAnswer, Answers
    <2>2. order'[o].status # "PENDING"
      BY <1>0, <1>2 DEF HandleStockUpdatedEvent, EnqueuePartner
    <2> QED BY <2>1, <2>2, AnswersShrink
  <1>3. CASE HandleStockUpdateFailedEvent(o)
    <2>1. /\ answers[o]["failed"] > 0 /\ "failed" \in Answers /\ UNCHANGED deadLetters
          /\ UNCHANGED answers \/ answers' = [answers EXCEPT ![o]["failed"] = @ - 1]
      BY <1>3 DEF HandleStockUpdateFailedEvent, AcknowledgeAnswer, Answers
    <2>2. order'[o].status # "PENDING"
      BY <1>0, <1>3 DEF HandleStockUpdateFailedEvent
    <2> QED BY <2>1, <2>2, AnswersShrink
  <1>4. ASSUME NEW a \in Answers, AnswerFails(o, a)
        PROVE /\ deadLetters \subseteq deadLetters'
              /\ \A q \in Orders \ {o} : \A b \in Answers : answers'[q][b] = answers[q][b]
              /\ UNCHANGED answers \/ DeadLettered(o)'
    <2>1. /\ answers[o][a] > 0
          /\ \/ UNCHANGED <<answers, deadLetters>>
             \/ /\ answers' = [answers EXCEPT ![o][a] = @ - 1]
                /\ deadLetters' = deadLetters \cup {[order |-> o, record |-> a]}
      BY <1>4 DEF AnswerFails
    <2> QED BY <2>1, AnswersShrink, GivenUp
  <1>5. CASE OutboxFull(o) \/ AnswerDatabaseError(o)
    BY <1>4, <1>5 DEF OutboxFull, AnswerDatabaseError, Answers
  <1> QED BY <1>1, <1>2, <1>3, <1>5 DEF OrderStep

(* An inventory transaction acknowledges an event it has answered, has found   *)
(* answered, or has given to the dead letter topic.                            *)
LEMMA InventoryTracks ==
  ASSUME TypeOK, OwnerInv, FlightInv, NEW c \in Consumers, EndingStep(c), NEW o \in Orders, Tracked(o)
  PROVE Tracked(o)'
  <1>0. /\ tx[c].order \in Orders /\ Ends(c)
        /\ created \in [Orders -> Nat] /\ answerBox \in Seq(AnswerRow) /\ answersSent \in Nat
    BY StepEnds, EndLeaves DEF TypeOK
  <1>1. /\ UNCHANGED <<outbox, answers, answersSent>> /\ deadLetters \subseteq deadLetters'
        /\ history \subseteq history' /\ history' \subseteq history \cup {tx[c].order}
    BY DEF EndingStep, SkipDuplicate, Refuse, Reserve, Deduct, Answer, Conflict, InventoryDatabaseError,
           RollBack, orderVars
  <1>2. \/ UNCHANGED answerBox
        \/ \E r \in AnswerRow : answerBox' = Append(answerBox, r)
    <2>1. ASSUME NEW a \in Answers, Answer(c, a) PROVE \E r \in AnswerRow : answerBox' = Append(answerBox, r)
      <3>1. [order |-> tx[c].order, answer |-> a] \in AnswerRow
        BY <1>0 DEF AnswerRow
      <3> QED BY <2>1, <3>1 DEF Answer
    <2> QED BY <2>1 DEF EndingStep, SkipDuplicate, Refuse, Reserve, Deduct, Conflict, InventoryDatabaseError,
                        RollBack, Answers
  <1>3. Answered(o) => Answered(o)'
    BY <1>1, <1>2, AnsweredStays
  <1>4. UnsentOrder(o) => UnsentOrder(o)'
    BY <1>1 DEF UnsentOrder, Pending
  <1>5. CASE o # tx[c].order
    <2>1. created'[o] = created[o]
      BY <1>0, <1>5 DEF Ends
    <2> QED BY <1>1, <1>3, <1>4, <1>5, <2>1, StaysTracked
  <1>6. CASE o = tx[c].order /\ SkipDuplicate(c)
    <2>1. o \in history
      BY <1>6 DEF SkipDuplicate, FlightInv
    <2> QED BY <1>1, <1>3, <2>1 DEF Tracked, DeadLettered
  <1>7. ASSUME o = tx[c].order, NEW a \in Answers, Answer(c, a) PROVE Tracked(o)'
    <2>1. [order |-> o, answer |-> a] \in AnswerRow
      BY DEF AnswerRow
    <2>2. answerBox' = Append(answerBox, [order |-> o, answer |-> a]) /\ o \in history'
      BY <1>7 DEF Answer
    <2>3. /\ Len(answerBox') = Len(answerBox) + 1 /\ Len(answerBox) \in Nat
          /\ answerBox'[Len(answerBox) + 1] = [order |-> o, answer |-> a]
      BY <1>0, <2>1, <2>2
    <2>4. answersSent <= Len(answerBox)
      BY DEF FlightInv
    <2>5. UnsentAnswer(o)'
      BY <1>0, <1>1, <2>3, <2>4 DEF UnsentAnswer
    <2> QED BY <2>2, <2>5 DEF Tracked, Answered
  <1>8. ASSUME o = tx[c].order, RollBack(c) PROVE Tracked(o)'
    <2>1. UNCHANGED <<created, history>> \/ DeadLettered(o)'
      <3>1. CASE tx[c].tries < Retries
        BY <1>8, <3>1 DEF RollBack
      <3>2. CASE ~(tx[c].tries < Retries)
        BY <1>8, <3>2, GivenUp DEF RollBack
      <3> QED BY <3>1, <3>2
    <2> QED BY <1>1, <1>3, <1>4, <2>1, StaysTracked DEF Tracked
  <1> QED BY <1>5, <1>6, <1>7, <1>8
          DEF EndingStep, Refuse, Reserve, Deduct, Conflict, InventoryDatabaseError, Answers

(* An open order is in flight, action by action.                               *)
LEMMA FlightStep == TypeOK /\ OwnerInv /\ FlightInv /\ ExistInv /\ [Next]_vars => FlightInv'
  <1> SUFFICES ASSUME TypeOK, OwnerInv, FlightInv, ExistInv, [Next]_vars PROVE FlightInv'
    OBVIOUS
  <1>t. /\ created \in [Orders -> Nat] /\ answerBox \in Seq(AnswerRow) /\ answersSent \in Nat
        /\ Len(answerBox) \in Nat
        /\ answers \in [Orders -> [Answers -> Nat]] /\ outbox \in Seq(OutboxRow)
    BY DEF TypeOK
  <1>s. answersSent <= Len(answerBox) /\ \A o \in PendingOrders : Tracked(o)
    BY DEF FlightInv
  <1>k. ASSUME UNCHANGED <<tx, history>>
        PROVE \A c \in Consumers : tx'[c].phase = "open" /\ tx'[c].known => tx'[c].order \in history'
    BY <1>k DEF FlightInv
  <1>0. ASSUME UNCHANGED <<order, outbox, created, history, answers, answerBox, answersSent, deadLetters>>,
               \A c \in Consumers : tx'[c].phase = "open" /\ tx'[c].known => tx'[c].order \in history
        PROVE FlightInv'
    BY <1>0 DEF FlightInv, PendingOrders, Tracked, Answered, UnsentAnswer, UnsentOrder, Pending, DeadLettered
  <1>1. ASSUME NEW o \in Orders, CreateOrder(o) PROVE FlightInv'
    <2>0. /\ UNCHANGED <<created, history, tx, answerBox, answersSent, answers, deadLetters>>
          /\ \A q \in Orders \ {o} : order'[q] = order[q]
          /\ order[o].status = "ABSENT"
          /\ DOMAIN outbox = 1 .. Len(outbox) /\ DOMAIN outbox' = 1 .. Len(outbox) + 1 /\ Len(outbox) \in Nat
          /\ \A k \in DOMAIN outbox : k \in DOMAIN outbox' /\ outbox'[k] = outbox[k]
          /\ outbox'[Len(outbox) + 1] = NewRow(o, 0, "ORDER")
      BY <1>1, CreateRows
    <2>1. UnsentOrder(o)'
      <3>1. Len(outbox) + 1 \in DOMAIN outbox'
        BY <2>0
      <3>2. /\ outbox'[Len(outbox) + 1].order = o /\ outbox'[Len(outbox) + 1].op = "ORDER"
            /\ outbox'[Len(outbox) + 1].status = "PENDING"
        BY <2>0 DEF NewRow
      <3> QED BY <3>1, <3>2 DEF UnsentOrder, Pending
    <2>2. Tracked(o)'
      <3>1. o \notin history'
        BY <2>0 DEF ExistInv
      <3> QED BY <2>1, <3>1 DEF Tracked
    <2>3. ASSUME NEW q \in Orders, q # o, Tracked(q) PROVE Tracked(q)'
      <3>1. UnsentOrder(q) => UnsentOrder(q)'
        BY <2>0, UnsentStays
      <3>2. Answered(q) => Answered(q)'
        BY <2>0 DEF Answered, UnsentAnswer
      <3> QED BY <2>0, <2>3, <3>1, <3>2, StaysTracked
    <2>4. \A q \in PendingOrders' : q = o \/ q \in PendingOrders
      BY <2>0 DEF PendingOrders
    <2>5. \A q \in PendingOrders' : Tracked(q)'
      BY <1>s, <2>2, <2>3, <2>4 DEF PendingOrders
    <2> QED BY <1>k, <1>s, <2>0, <2>5 DEF FlightInv
  <1>2. ASSUME NEW o \in Orders, OrderStep(o) PROVE FlightInv'
    <2>0. UNCHANGED <<created, history, tx, answerBox, answersSent>>
      BY <1>2, OrderStepRows
    <2>1. \A q \in PendingOrders' : q \in PendingOrders
      BY <1>2, OrderStepRows DEF PendingOrders
    <2>2. \A q \in Orders : UnsentOrder(q) => UnsentOrder(q)'
      <3>1. DOMAIN outbox \subseteq DOMAIN outbox' /\ \A k \in DOMAIN outbox : outbox'[k] = outbox[k]
        BY <1>2, OrderStepRows
      <3> QED BY <3>1, UnsentStays
    <2>3. ASSUME NEW q \in PendingOrders', q # o PROVE Tracked(q)'
      <3>1. q \in Orders /\ Tracked(q)
        BY <1>s, <2>1, <2>3 DEF PendingOrders
      <3>2. deadLetters \subseteq deadLetters' /\ \A a \in Answers : answers'[q][a] = answers[q][a]
        BY <1>2, <2>3, <3>1, HandlersTrack
      <3>3. Answered(q) => Answered(q)'
        BY <2>0, <3>1, <3>2, AnsweredStays
      <3> QED BY <2>0, <2>2, <3>1, <3>2, <3>3, StaysTracked
    <2>4. ASSUME o \in PendingOrders' PROVE Tracked(o)'
      <3>1. Tracked(o) /\ order'[o].status = "PENDING"
        BY <1>s, <2>1, <2>4 DEF PendingOrders
      <3>2. deadLetters \subseteq deadLetters' /\ (UNCHANGED answers \/ DeadLettered(o)')
        BY <1>2, <3>1, HandlersTrack
      <3>3. CASE DeadLettered(o)'
        BY <3>3 DEF Tracked
      <3>4. CASE UNCHANGED answers
        <4>1. Answered(o) => Answered(o)'
          BY <2>0, <3>4 DEF Answered, UnsentAnswer
        <4> QED BY <2>0, <2>2, <3>1, <3>2, <4>1, StaysTracked
      <3> QED BY <3>2, <3>3, <3>4
    <2> QED BY <1>k, <1>s, <2>0, <2>3, <2>4 DEF FlightInv
  <1>3. ASSUME NEW c \in Consumers, (\E o \in Orders : Receive(c, o)) \/ Redeliver(c) PROVE FlightInv'
    <2>1. /\ UNCHANGED <<order, outbox, created, history, answers, answerBox, answersSent, deadLetters>>
      BY <1>3 DEF Receive, Redeliver, orderVars, topicVars
    <2>2. PICK o \in Orders, n \in Nat : Open(c, o, n, TRUE)
      <3>1. tx[c].phase = "retry" => tx[c].order \in Orders
        BY DEF OwnerInv
      <3>2. tx[c].tries \in Nat /\ 0 \in Nat
        BY SagaTypes DEF TypeOK, Transaction
      <3> QED BY <1>3, <3>1, <3>2 DEF Receive, Redeliver
    <2>3. \A d \in Consumers : tx'[d].phase = "open" /\ tx'[d].known => tx'[d].order \in history
      BY <2>2, OpenShows DEF FlightInv
    <2> QED BY <1>0, <2>1, <2>3
  <1>4. ASSUME NEW c \in Consumers, EndingStep(c) PROVE FlightInv'
    <2>1. UNCHANGED <<order, answersSent>> /\ history \subseteq history'
      BY <1>4 DEF EndingStep, SkipDuplicate, Refuse, Reserve, Deduct, Answer, Conflict, InventoryDatabaseError,
                  RollBack, orderVars
    <2>2. Len(answerBox) <= Len(answerBox') /\ Len(answerBox') \in Nat
      <3>1. UNCHANGED answerBox \/ \E r : answerBox' = Append(answerBox, r)
        BY <1>4 DEF EndingStep, SkipDuplicate, Refuse, Reserve, Deduct, Answer, Conflict,
                    InventoryDatabaseError, RollBack
      <3>2. answerBox' \in Seq(AnswerRow)
        BY TypeStep DEF TypeOK
      <3> QED BY <1>t, <3>1, <3>2
    <2>3. tx'[c].phase # "open" /\ \A d \in Consumers \ {c} : tx'[d] = tx[d]
      BY <1>4, StepEnds, EndLeaves
    <2>4. \A o \in Orders : Tracked(o) => Tracked(o)'
      BY <1>4, InventoryTracks
    <2> QED BY <1>t, <1>s, <2>1, <2>2, <2>3, <2>4 DEF FlightInv, PendingOrders
  <1>5. ASSUME NEW c \in Consumers, Rebalance(c) PROVE FlightInv'
    <2>1. UNCHANGED <<order, outbox, created, history, answers, answerBox, answersSent, deadLetters>>
      BY <1>5 DEF Rebalance, orderVars, topicVars
    <2>2. \A d \in Consumers : tx'[d].phase = "open" /\ tx'[d].known => tx'[d].order \in history
      BY <1>5, RebalanceLeaves DEF FlightInv
    <2> QED BY <1>0, <2>1, <2>2
  <1>6. CASE RelayPendingEvents \/ RelayInterrupted \/ RelayPurges
    <2>1. PICK stored, marked, gone : Relays(stored, marked, gone)
      BY <1>6, RelayStep
    <2>2. UNCHANGED <<order, history, tx, answers, answerBox, answersSent, deadLetters>>
      BY <2>1 DEF Relays, stockVars
    <2>3. /\ DOMAIN outbox' = DOMAIN outbox
          /\ \A k \in DOMAIN outbox :
               /\ outbox'[k].order = outbox[k].order /\ outbox'[k].op = outbox[k].op
               /\ outbox'[k].status = IF k \in gone THEN "PURGED"
                                      ELSE IF k \in marked THEN "SENT" ELSE outbox[k].status
      BY <1>t, <2>1, MarkRows DEF Relays
    <2>4. ASSUME NEW o \in Orders, Tracked(o) PROVE Tracked(o)'
      <3>1. created[o] > 0 => created'[o] > 0
        BY <1>t, <2>1 DEF Relays
      <3>2. UnsentOrder(o) => UnsentOrder(o)' \/ created'[o] > 0
        <4> SUFFICES ASSUME NEW k \in Pending, outbox[k].order = o, outbox[k].op = "ORDER", k \in marked
                     PROVE created'[o] > 0
          BY <2>1, <2>3 DEF UnsentOrder, Pending, Relays, Purgeable
        <4>1. k \in stored
          BY <2>1 DEF Relays
        <4> QED BY <1>t, <2>1, <4>1 DEF Relays
      <3>3. Answered(o) => Answered(o)'
        BY <2>2 DEF Answered, UnsentAnswer
      <3> QED BY <2>2, <2>4, <3>1, <3>2, <3>3 DEF Tracked, DeadLettered
    <2> QED BY <1>k, <1>s, <2>2, <2>4 DEF FlightInv, PendingOrders
  <1>7. CASE RelayAnswer \/ RelayAnswerInterrupted
    <2> DEFINE r == answerBox[answersSent + 1]
    <2>1. /\ UNCHANGED <<order, outbox, created, history, tx, answerBox, deadLetters>>
          /\ answersSent' \in {answersSent, answersSent + 1} /\ answersSent + 1 \in 1 .. Len(answerBox)
          /\ answers' = [answers EXCEPT ![r.order][r.answer] = @ + 1]
      BY <1>7, <1>t DEF RelayAnswer, RelayAnswerInterrupted, Publish, orderVars, stockVars
    <2>2. r.order \in Orders /\ r.answer \in Answers
      <3>1. r \in AnswerRow
        BY <1>t, <2>1
      <3> QED BY <3>1 DEF AnswerRow
    <2> HIDE DEF r
    <2>3. \A q \in Orders, b \in Answers :
            answers'[q][b] = IF q = r.order /\ b = r.answer THEN answers[q][b] + 1 ELSE answers[q][b]
      BY <2>1, <2>2, AnswerCounts
    <2>4. ASSUME NEW o \in Orders, Answered(o) PROVE Answered(o)'
      <3>1. CASE o = r.order
        <4>1. answers'[o][r.answer] > 0
          BY <1>t, <2>2, <2>3, <3>1
        <4> QED BY <2>2, <4>1 DEF Answered
      <3>2. CASE o # r.order
        <4>1. \A b \in Answers : answers'[o][b] = answers[o][b]
          BY <2>3, <3>2
        <4>2. UnsentAnswer(o) => UnsentAnswer(o)'
          <5> SUFFICES ASSUME NEW k \in answersSent + 1 .. Len(answerBox), answerBox[k].order = o
                       PROVE k \in answersSent' + 1 .. Len(answerBox')
            BY <2>1 DEF UnsentAnswer
          <5>1. k # answersSent + 1
            BY <3>2 DEF r
          <5>2. Len(answerBox') = Len(answerBox) /\ Len(answerBox) \in Nat /\ answersSent \in Nat
            BY <1>t, <2>1
          <5>3. answersSent' = answersSent \/ answersSent' = answersSent + 1
            BY <2>1
          <5> QED BY <5>1, <5>2, <5>3
        <4> QED BY <2>4, <4>1, <4>2 DEF Answered
      <3> QED BY <3>1, <3>2
    <2>5. \A o \in Orders : UnsentOrder(o) => UnsentOrder(o)'
      BY <2>1 DEF UnsentOrder, Pending
    <2>6. \A o \in Orders : Tracked(o) => Tracked(o)'
      BY <2>1, <2>4, <2>5, StaysTracked
    <2> QED BY <1>k, <1>s, <1>t, <2>1, <2>6 DEF FlightInv, PendingOrders
  <1>8. ASSUME NEW o \in Orders, Deliver(o) PROVE FlightInv'
    BY <1>8, <1>0, <1>k DEF Deliver, orderVars, stockVars, topicVars
  <1>9. CASE UNCHANGED vars
    BY <1>9, <1>0, <1>k DEF vars, orderVars, stockVars, topicVars
  <1> QED BY <1>1, <1>2, <1>3, <1>4, <1>5, <1>6, <1>7, <1>8, <1>9
          DEF Next, Customer, OrderHandlers, OrderStep, Inventory, EndingStep

-----------------------------------------------------------------------------
SagaInv == TypeOK /\ OwnerInv /\ StockInv /\ DecisionInv /\ FlightInv /\ ExistInv

(* At the start there are no orders, and the stock is untouched.               *)
LEMMA SagaStarts == Init => SagaInv
  <1> SUFFICES ASSUME Init PROVE SagaInv
    OBVIOUS
  <1> USE SagaTypes, IdleTypes DEF Init
  <1>1. TypeOK
    <2>1. 0 \in 0 .. MaxSequence /\ 0 \in 0 .. MaxFaults /\ 0 \in 0 .. Retries /\ "ABSENT" \in Statuses
      BY DEF Statuses
    <2>2. \A p \in Products : [quantity |-> InitialStock[p], version |-> 0] \in Stock
      BY DEF Stock
    <2> QED BY <2>1, <2>2 DEF TypeOK
  <1>2. OwnerInv
    BY DEF OwnerInv
  <1>3. StockInv
    <2>1. \A p \in Products : TakenFrom(p) = {}
      BY DEF TakenFrom, DeductedFrom
    <2>2. \A p \in Products : IsFiniteSet(TakenFrom(p)) /\ Cardinality(TakenFrom(p)) = 0
      BY <2>1, FS_EmptySet
    <2>3. \A p \in Products : stock[p].quantity = InitialStock[p] /\ InitialStock[p] \in Nat
      OBVIOUS
    <2>4. StockConserved
      BY <2>2, <2>3 DEF StockConserved
    <2> QED BY <2>2, <2>4 DEF StockInv
  <1>4. DecisionInv
    BY DEF DecisionInv, Answers
  <1>5. FlightInv /\ ExistInv
    BY DEF FlightInv, PendingOrders, ExistInv
  <1> QED BY <1>1, <1>2, <1>3, <1>4, <1>5 DEF SagaInv

(* The parts of the invariant together are inductive.                          *)
LEMMA SagaInvariant == Spec => []SagaInv
  <1>1. SagaInv /\ [Next]_vars => SagaInv'
    BY TypeStep, OwnerStep, StockStep, DecisionStep, FlightStep, ExistStep DEF SagaInv
  <1> QED BY SagaStarts, <1>1, PTL DEF Spec

(* Whatever is published twice, redelivered, rolled back or taken over by      *)
(* another consumer: the stock that is gone is what the deducted orders asked  *)
(* for, and it was there.                                                      *)
THEOREM StockCorrect == Spec => [](TypeOK /\ StockConserved)
  <1>1. SagaInv => TypeOK /\ StockConserved
    BY DEF SagaInv, StockInv
  <1> QED BY <1>1, SagaInvariant, PTL

(* An order that reached the partner has its stock, and an order that has its  *)
(* stock was not cancelled for lack of it.                                     *)
THEOREM DecisionsCorrect == Spec => []DecisionMatchesStock
  <1>1. SagaInv => DecisionMatchesStock
    <2> SUFFICES ASSUME SagaInv, NEW o \in Orders
                 PROVE /\ order[o].seq > 0 => o \in deducted
                       /\ o \in deducted => order[o].status # "CANCELLED" \/ order[o].seq > 1
      BY DEF DecisionMatchesStock
    <2> QED BY DEF SagaInv, DecisionInv
  <1> QED BY <1>1, SagaInvariant, PTL

(* No event between the two services is lost, whichever process dies when.     *)
THEOREM NothingLost == Spec => []PendingIsInFlight
  <1>1. SagaInv => PendingIsInFlight
    BY DEF SagaInv, FlightInv, PendingIsInFlight, Tracked, Answered, InFlight
  <1> QED BY <1>1, SagaInvariant, PTL

-----------------------------------------------------------------------------
(* The order service's outbox, for any number of orders and operations, any    *)
(* batch size and any part of a batch that fails: operations are published in  *)
(* sequence, and admission keeps unfinished business within its budget.        *)

(* What a row of the outbox says of its order, and that the row before it was  *)
(* inserted before it.                                                         *)
RowInv ==
  \A k \in DOMAIN outbox :
    LET r == outbox[k]
    IN /\ r.op = "ORDER" <=> r.seq = 0
       /\ r.op = "CREATE" <=> r.seq = 1
       /\ r.seq <= order[r.order].seq
       /\ r.op = "CANCEL" => order[r.order].status = "CANCELLED" /\ r.seq = order[r.order].seq
       /\ r.seq > 1 => \E j \in DOMAIN outbox :
                         j < k /\ outbox[j].order = r.order /\ outbox[j].seq = r.seq - 1

(* Every operation of an order has its row, and only retention deletes rows.   *)
EnqueuedInv ==
  /\ \A o \in Orders : \A n \in 1 .. order[o].seq :
       \E k \in DOMAIN outbox : outbox[k].order = o /\ outbox[k].seq = n
  /\ ~Retention => \A k \in DOMAIN outbox : outbox[k].status # "PURGED"

(* A copy of the row is in the topic, after a copy of its predecessor.         *)
Follows(k) ==
  LET topic == partnerTopic[outbox[k].order]
  IN \E p \in DOMAIN topic :
       /\ k \in topic[p]
       /\ outbox[k].seq > 1 => \E q \in 1 .. p : \E j \in topic[q] :
                                 outbox[j].seq = outbox[k].seq - 1 /\ (q < p \/ j < k)

(* Rows that are SENT or deleted were published in sequence.                   *)
TopicInv ==
  \A k \in DOMAIN outbox : outbox[k].status # "PENDING" /\ outbox[k].op # "ORDER" => Follows(k)

(* Without retention the count of admission is the true one.                   *)
BudgetInv == ~Retention => BusinessWithinBudget

-----------------------------------------------------------------------------
(* The steps as the outbox sees them *)

(* A row of the partner is enqueued: CREATE first, and nothing after CANCEL.   *)
Enqueues(o, op) ==
  /\ op \in Operations /\ (op = "CREATE" <=> order[o].seq = 0)
  /\ order[o].status = IF op = "CREATE" THEN "PENDING" ELSE "CONFIRMED"
  /\ op # "CREATE" => BusinessHasRoom
  /\ order' = [order EXCEPT ![o] = [status |-> IF op = "CANCEL" THEN "CANCELLED" ELSE "CONFIRMED",
                                    seq |-> order[o].seq + 1]]
  /\ NewRow(o, order[o].seq + 1, op) \in OutboxRow
  /\ outbox' = Append(outbox, NewRow(o, order[o].seq + 1, op))
  /\ UNCHANGED <<partnerTopic, delivered>>

(* Nothing is enqueued or published; an order may be cancelled or an operation *)
(* delivered.                                                                  *)
Rests ==
  /\ UNCHANGED <<outbox, partnerTopic>>
  /\ \A o \in Orders : /\ order'[o].seq = order[o].seq
                       /\ order[o].status = "CANCELLED" => order'[o].status = "CANCELLED"
                       /\ order'[o].status = "PENDING" => order[o].status = "PENDING"
                       /\ delivered'[o] >= delivered[o]

(* Every step creates an order, enqueues one operation, is a pass of the relay *)
(* or leaves outbox and topic alone.                                           *)
LEMMA OutboxSteps ==
  ASSUME TypeOK, OwnerInv, DecisionInv, [Next]_vars
  PROVE \/ \E o \in Orders : CreateOrder(o)
        \/ \E o \in Orders, op \in Operations : Enqueues(o, op)
        \/ RelayPendingEvents \/ RelayInterrupted \/ RelayPurges
        \/ Rests
  <1>t. /\ order \in [Orders -> [status : Statuses, seq : 0 .. MaxSequence]]
        /\ delivered \in [Orders -> 0 .. MaxSequence] /\ \A o \in Orders : delivered[o] \in Nat
    BY SagaTypes DEF TypeOK
  <1>0. UNCHANGED <<order, outbox, partnerTopic, delivered>> => Rests
    BY <1>t DEF Rests
  <1>1. ASSUME NEW o \in Orders, Mutate(o) PROVE \E op \in Operations : Enqueues(o, op)
    <2>1. order[o].seq # 0 /\ order[o].status = "CONFIRMED" /\ UNCHANGED <<partnerTopic, delivered>>
      BY <1>1 DEF Mutate, topicVars
    <2>2. CASE EnqueuePartner(o, "CHANGE", "CONFIRMED")
      <3>1. /\ NewRow(o, order[o].seq + 1, "CHANGE") \in OutboxRow
            /\ outbox' = Append(outbox, NewRow(o, order[o].seq + 1, "CHANGE"))
        BY <2>1, <2>2, EnqueueTypes DEF Operations, Statuses
      <3>2. Enqueues(o, "CHANGE")
        BY <2>1, <2>2, <3>1 DEF Enqueues, EnqueuePartner, Operations
      <3> QED BY <3>2 DEF Operations
    <2>3. CASE EnqueuePartner(o, "CANCEL", "CANCELLED")
      <3>1. /\ NewRow(o, order[o].seq + 1, "CANCEL") \in OutboxRow
            /\ outbox' = Append(outbox, NewRow(o, order[o].seq + 1, "CANCEL"))
        BY <2>1, <2>3, EnqueueTypes DEF Operations, Statuses
      <3>2. Enqueues(o, "CANCEL")
        BY <2>1, <2>3, <3>1 DEF Enqueues, EnqueuePartner, Operations
      <3> QED BY <3>2 DEF Operations
    <2> QED BY <1>1, <2>2, <2>3 DEF Mutate
  <1>2. ASSUME NEW o \in Orders, HandleStockUpdatedEvent(o)
        PROVE Rests \/ \E op \in Operations : Enqueues(o, op)
    <2>1. UNCHANGED <<partnerTopic, delivered>>
      BY <1>2 DEF HandleStockUpdatedEvent
    <2>2. CASE order[o].status = "PENDING"
      <3>1. order[o].seq = 0 /\ EnqueuePartner(o, "CREATE", "CONFIRMED")
        BY <1>2, <2>2 DEF HandleStockUpdatedEvent, DecisionInv
      <3>2. /\ NewRow(o, order[o].seq + 1, "CREATE") \in OutboxRow
            /\ outbox' = Append(outbox, NewRow(o, order[o].seq + 1, "CREATE"))
        BY <2>1, <3>1, EnqueueTypes DEF Operations, Statuses
      <3>3. Enqueues(o, "CREATE")
        BY <2>1, <2>2, <3>1, <3>2 DEF Enqueues, EnqueuePartner, Operations
      <3> QED BY <3>3 DEF Operations
    <2>3. CASE order[o].status # "PENDING"
      BY <1>0, <1>2, <2>1, <2>3 DEF HandleStockUpdatedEvent
    <2> QED BY <2>2, <2>3
  <1>3. ASSUME NEW o \in Orders, HandleStockUpdateFailedEvent(o) PROVE Rests
    <2>1. UNCHANGED <<outbox, partnerTopic, delivered>>
      BY <1>3 DEF HandleStockUpdateFailedEvent
    <2>2. order' = order \/ order' = [order EXCEPT ![o].status = "CANCELLED"]
      BY <1>3 DEF HandleStockUpdateFailedEvent
    <2> QED BY <1>t, <2>1, <2>2 DEF Rests
  <1>4. ASSUME NEW o \in Orders, Deliver(o) PROVE Rests
    <2>1. UNCHANGED <<order, outbox, partnerTopic>> /\ delivered' = [delivered EXCEPT ![o] = @ + 1]
      BY <1>4 DEF Deliver, orderVars, topicVars
    <2> QED BY <1>t, <2>1 DEF Rests
  <1>5. ASSUME NEW o \in Orders, OutboxFull(o) \/ AnswerDatabaseError(o) PROVE Rests
    BY <1>5, <1>0 DEF OutboxFull, AnswerDatabaseError, AnswerFails
  <1>6. ASSUME NEW c \in Consumers, Inventory(c) \/ InventoryDatabaseError(c) \/ Rebalance(c) PROVE Rests
    BY <1>6, <1>0 DEF Inventory, Receive, Redeliver, SkipDuplicate, Refuse, Reserve, Deduct, Answer, Conflict,
                      InventoryDatabaseError, Rebalance, RollBack, orderVars, topicVars
  <1>7. RelayAnswer \/ RelayAnswerInterrupted \/ UNCHANGED vars => Rests
    BY <1>0 DEF RelayAnswer, RelayAnswerInterrupted, vars, orderVars, topicVars
  <1> QED BY <1>1, <1>2, <1>3, <1>4, <1>5, <1>6, <1>7 DEF Next, Customer, OrderHandlers

(* The rows after one is enqueued.                                             *)
LEMMA EnqueueRows ==
  ASSUME TypeOK, NEW o \in Orders, NEW op \in Operations, Enqueues(o, op)
  PROVE LET e == Len(outbox) + 1
        IN /\ DOMAIN outbox = 1 .. Len(outbox) /\ DOMAIN outbox' = 1 .. e /\ Len(outbox) \in Nat
           /\ \A k \in DOMAIN outbox : k \in DOMAIN outbox' /\ outbox'[k] = outbox[k]
           /\ outbox'[e].order = o /\ outbox'[e].seq = order[o].seq + 1 /\ outbox'[e].op = op
           /\ outbox'[e].status = "PENDING"
           /\ \A q \in Orders \ {o} : order'[q] = order[q]
           /\ order'[o].seq = order[o].seq + 1
           /\ order'[o].status = IF op = "CANCEL" THEN "CANCELLED" ELSE "CONFIRMED"
           /\ order[o].seq \in Nat
  <1> DEFINE e == Len(outbox) + 1
  <1>1. /\ DOMAIN outbox = 1 .. Len(outbox) /\ DOMAIN outbox' = 1 .. e /\ Len(outbox) \in Nat
        /\ \A k \in DOMAIN outbox : k \in DOMAIN outbox' /\ outbox'[k] = outbox[k]
        /\ outbox'[e] = NewRow(o, order[o].seq + 1, op)
    BY AppendRow DEF TypeOK, Enqueues
  <1>2. order \in [Orders -> [status : Statuses, seq : 0 .. MaxSequence]] /\ order[o].seq \in Nat
    BY SagaTypes DEF TypeOK
  <1>3. /\ \A q \in Orders \ {o} : order'[q] = order[q]
        /\ order'[o].seq = order[o].seq + 1
        /\ order'[o].status = IF op = "CANCEL" THEN "CANCELLED" ELSE "CONFIRMED"
    BY <1>2 DEF Enqueues
  <1> QED BY <1>1, <1>2, <1>3 DEF NewRow

(* Types of a row.                                                             *)
LEMMA RowTypes ==
  ASSUME TypeOK
  PROVE /\ \A k \in DOMAIN outbox : outbox[k].order \in Orders /\ outbox[k].seq \in Nat
        /\ DOMAIN outbox = 1 .. Len(outbox) /\ Len(outbox) \in Nat
        /\ \A o \in Orders : order[o].seq \in Nat /\ order[o].seq \in 0 .. MaxSequence
  <1>1. DOMAIN outbox = 1 .. Len(outbox) /\ Len(outbox) \in Nat /\ \A k \in DOMAIN outbox : outbox[k] \in OutboxRow
    BY LenProperties, ElementOfSeq DEF TypeOK
  <1>2. \A k \in DOMAIN outbox : outbox[k].order \in Orders /\ outbox[k].seq \in 0 .. MaxSequence
    BY <1>1 DEF OutboxRow
  <1>3. \A o \in Orders : order[o].seq \in 0 .. MaxSequence
    BY DEF TypeOK
  <1>4. \A n \in 0 .. MaxSequence : n \in Nat
    BY SagaTypes
  <1> QED BY <1>1, <1>2, <1>3, <1>4

-----------------------------------------------------------------------------
(* Rows *)

(* The rows and the sequence numbers of their orders, action by action.        *)
LEMMA RowStep ==
  ASSUME TypeOK, OwnerInv, DecisionInv, ExistInv, RowInv, EnqueuedInv, [Next]_vars
  PROVE RowInv' /\ EnqueuedInv'
  <1>1. ASSUME NEW o \in Orders, CreateOrder(o) PROVE RowInv' /\ EnqueuedInv'
    <2> DEFINE e == Len(outbox) + 1
    <2>1. /\ DOMAIN outbox = 1 .. Len(outbox) /\ DOMAIN outbox' = 1 .. e /\ Len(outbox) \in Nat
          /\ \A k \in DOMAIN outbox : k \in DOMAIN outbox' /\ outbox'[k] = outbox[k]
          /\ outbox'[e] = NewRow(o, 0, "ORDER")
          /\ \A q \in Orders \ {o} : order'[q] = order[q]
          /\ order[o].status = "ABSENT" /\ order'[o].seq = order[o].seq
      BY <1>1, CreateRows
    <2>2. outbox'[e].op = "ORDER" /\ outbox'[e].seq = 0 /\ outbox'[e].order = o /\ outbox'[e].status = "PENDING"
      BY <2>1 DEF NewRow
    <2>3. \A k \in DOMAIN outbox' : k \in DOMAIN outbox \/ k = e
      BY <2>1
    <2>4. \A k \in DOMAIN outbox : outbox[k].order \in Orders \ {o} /\ order'[outbox[k].order] = order[outbox[k].order]
      BY <2>1, RowTypes DEF ExistInv
    <2>5. order'[o].seq >= 0
      BY <2>1, RowTypes
    <2> HIDE DEF e
    <2>6. RowInv'
      BY <2>1, <2>2, <2>3, <2>4, <2>5 DEF RowInv
    <2>7. EnqueuedInv'
      BY <2>1, <2>2, <2>3 DEF EnqueuedInv
    <2> QED BY <2>6, <2>7
  <1>2. ASSUME NEW o \in Orders, NEW op \in Operations, Enqueues(o, op) PROVE RowInv' /\ EnqueuedInv'
    <2> DEFINE e == Len(outbox) + 1
               n == order[o].seq + 1
    <2>1. /\ DOMAIN outbox = 1 .. Len(outbox) /\ DOMAIN outbox' = 1 .. e /\ Len(outbox) \in Nat
          /\ \A k \in DOMAIN outbox : k \in DOMAIN outbox' /\ outbox'[k] = outbox[k]
          /\ outbox'[e].order = o /\ outbox'[e].seq = n /\ outbox'[e].op = op
          /\ outbox'[e].status = "PENDING"
          /\ \A q \in Orders \ {o} : order'[q] = order[q]
          /\ order'[o].seq = n /\ order[o].seq \in Nat
          /\ order'[o].status = IF op = "CANCEL" THEN "CANCELLED" ELSE "CONFIRMED"
      BY <1>2, EnqueueRows
    <2>2. \A k \in DOMAIN outbox' : k \in DOMAIN outbox \/ k = e
      BY <2>1
    <2>3. order[o].status # "CANCELLED" /\ (op = "CREATE" <=> order[o].seq = 0) /\ op # "ORDER"
      BY <1>2 DEF Enqueues, Operations
    <2>4. n \in Nat /\ n >= 1 /\ (n = 1 <=> order[o].seq = 0) /\ n - 1 = order[o].seq
      BY <2>1
    <2>5. n > 1 => \E j \in DOMAIN outbox : outbox[j].order = o /\ outbox[j].seq = n - 1
      <3> SUFFICES ASSUME n > 1 PROVE \E j \in DOMAIN outbox : outbox[j].order = o /\ outbox[j].seq = n - 1
        OBVIOUS
      <3>1. n - 1 \in 1 .. order[o].seq
        BY <2>1, <2>4
      <3> QED BY <3>1 DEF EnqueuedInv
    <2>6. \A j \in DOMAIN outbox : j < e
      BY <2>1
    <2>7. \A k \in DOMAIN outbox :
            /\ outbox[k].order \in Orders /\ outbox[k].seq \in Nat
            /\ outbox[k].seq <= order'[outbox[k].order].seq
            /\ outbox[k].op = "CANCEL" => outbox[k].order # o
      <3> SUFFICES ASSUME NEW k \in DOMAIN outbox
                   PROVE /\ outbox[k].order \in Orders /\ outbox[k].seq \in Nat
                         /\ outbox[k].seq <= order'[outbox[k].order].seq
                         /\ outbox[k].op = "CANCEL" => outbox[k].order # o
        OBVIOUS
      <3>1. /\ outbox[k].order \in Orders /\ outbox[k].seq \in Nat
            /\ outbox[k].seq <= order[outbox[k].order].seq
            /\ outbox[k].op = "CANCEL" => order[outbox[k].order].status = "CANCELLED"
        BY RowTypes DEF RowInv
      <3> QED BY <2>1, <2>3, <3>1
    <2> HIDE DEF e, n
    <2>8. RowInv'
      <3> SUFFICES ASSUME NEW k \in DOMAIN outbox'
                   PROVE LET r == outbox'[k]
                         IN /\ r.op = "ORDER" <=> r.seq = 0
                            /\ r.op = "CREATE" <=> r.seq = 1
                            /\ r.seq <= order'[r.order].seq
                            /\ r.op = "CANCEL" => order'[r.order].status = "CANCELLED" /\ r.seq = order'[r.order].seq
                            /\ r.seq > 1 => \E j \in DOMAIN outbox' :
                                 j < k /\ outbox'[j].order = r.order /\ outbox'[j].seq = r.seq - 1
        BY DEF RowInv
      <3>1. CASE k \in DOMAIN outbox
        BY <2>1, <2>7, <3>1 DEF RowInv
      <3>2. CASE k = e
        BY <2>1, <2>3, <2>4, <2>5, <2>6, <3>2
      <3> QED BY <2>2, <3>1, <3>2
    <2>9. EnqueuedInv'
      <3>1. ASSUME NEW q \in Orders, NEW m \in 1 .. order'[q].seq
            PROVE \E k \in DOMAIN outbox' : outbox'[k].order = q /\ outbox'[k].seq = m
        <4>1. CASE q = o /\ m = n
          <5>1. e \in DOMAIN outbox'
            BY <2>1 DEF e
          <5> QED BY <2>1, <4>1, <5>1
        <4>2. CASE ~(q = o /\ m = n)
          <5>1. m \in 1 .. order[q].seq
            BY <2>1, <2>4, <3>1, <4>2
          <5> QED BY <2>1, <5>1 DEF EnqueuedInv
        <4> QED BY <4>1, <4>2
      <3>2. ~Retention => \A k \in DOMAIN outbox' : outbox'[k].status # "PURGED"
        BY <2>1, <2>2 DEF EnqueuedInv
      <3> QED BY <3>1, <3>2 DEF EnqueuedInv
    <2> QED BY <2>8, <2>9
  <1>3. CASE RelayPendingEvents \/ RelayInterrupted \/ RelayPurges
    <2>1. PICK stored, marked, gone : Relays(stored, marked, gone)
      BY <1>3, RelayStep
    <2>2. /\ DOMAIN outbox' = DOMAIN outbox
          /\ \A k \in DOMAIN outbox :
               /\ outbox'[k].order = outbox[k].order
               /\ outbox'[k].seq = outbox[k].seq
               /\ outbox'[k].op = outbox[k].op
               /\ outbox'[k].status = IF k \in gone THEN "PURGED"
                                      ELSE IF k \in marked THEN "SENT" ELSE outbox[k].status
      BY <2>1, MarkRows DEF Relays, TypeOK
    <2>3. UNCHANGED order /\ (~Retention => gone = {})
      BY <2>1 DEF Relays, Purgeable
    <2>4. RowInv'
      BY <2>2, <2>3 DEF RowInv
    <2>5. EnqueuedInv'
      BY <2>2, <2>3 DEF EnqueuedInv
    <2> QED BY <2>4, <2>5
  <1>4. CASE Rests
    <2>1. UNCHANGED outbox /\ \A o \in Orders : /\ order'[o].seq = order[o].seq
                                                /\ order[o].status = "CANCELLED" => order'[o].status = "CANCELLED"
      BY <1>4 DEF Rests
    <2>2. \A k \in DOMAIN outbox : outbox[k].order \in Orders
      BY RowTypes
    <2> QED BY <2>1, <2>2 DEF RowInv, EnqueuedInv
  <1> QED BY <1>1, <1>2, <1>3, <1>4, OutboxSteps

-----------------------------------------------------------------------------
(* Publication *)

(* A batch leaves out no PENDING row before one it has.                        *)
LEMMA BatchClosed ==
  ASSUME TypeOK, NEW k \in Batch, NEW j \in Pending, j < k
  PROVE j \in Batch
  <1> DEFINE below(i) == {m \in Pending : m < i}
  <1>0. k \in Nat /\ j \in Nat /\ Pending \subseteq 1 .. Len(outbox) /\ Len(outbox) \in Nat
    BY RowTypes DEF Batch, Pending
  <1>1. IsFiniteSet(1 .. Len(outbox))
    <2>1. 1 \in Int /\ Len(outbox) \in Int
      BY <1>0
    <2> QED BY <2>1, FS_Interval
  <1>2. IsFiniteSet(below(k))
    <2>1. below(k) \in SUBSET (1 .. Len(outbox))
      BY <1>0
    <2> QED BY <1>1, <2>1, FS_Subset
  <1>3. below(j) \in SUBSET below(k)
    <2>1. \A m \in Pending : m \in Nat /\ (m < j => m < k)
      BY <1>0
    <2> QED BY <2>1
  <1>4. Cardinality(below(j)) <= Cardinality(below(k)) /\ IsFiniteSet(below(j))
    BY <1>2, <1>3, FS_Subset
  <1>5. Cardinality(below(j)) \in Nat /\ Cardinality(below(k)) \in Nat
    BY <1>2, <1>4, FS_CardinalityType
  <1>6. Cardinality(below(k)) < BatchSize
    BY DEF Batch
  <1> HIDE DEF below
  <1>7. Cardinality(below(j)) < BatchSize
    BY <1>4, <1>5, <1>6, SagaTypes
  <1> QED BY <1>7 DEF Batch, below

(* What is in the topic stays where it is.                                     *)
LEMMA FollowsStays ==
  ASSUME TypeOK, NEW k \in DOMAIN outbox, Follows(k),
         \A j \in DOMAIN outbox : outbox'[j].order = outbox[j].order /\ outbox'[j].seq = outbox[j].seq,
         \A o \in Orders : /\ Len(partnerTopic[o]) <= Len(partnerTopic'[o]) /\ Len(partnerTopic'[o]) \in Nat
                           /\ DOMAIN partnerTopic'[o] = 1 .. Len(partnerTopic'[o])
                           /\ \A p \in 1 .. Len(partnerTopic[o]) : partnerTopic'[o][p] = partnerTopic[o][p]
  PROVE Follows(k)'
  <1>0. PICK o \in Orders : o = outbox[k].order
    BY RowTypes
  <1>1. /\ Len(partnerTopic[o]) \in Nat /\ DOMAIN partnerTopic[o] = 1 .. Len(partnerTopic[o])
        /\ \A p \in DOMAIN partnerTopic[o] : partnerTopic[o][p] \in SUBSET (DOMAIN outbox)
    <2>1. partnerTopic[o] \in Seq(SUBSET (DOMAIN outbox))
      BY DEF TypeOK
    <2> QED BY <2>1, LenProperties, ElementOfSeq
  <1>2. PICK p \in DOMAIN partnerTopic[o] :
          /\ k \in partnerTopic[o][p]
          /\ outbox[k].seq > 1 => \E q \in 1 .. p : \E j \in partnerTopic[o][q] :
                                    outbox[j].seq = outbox[k].seq - 1 /\ (q < p \/ j < k)
    BY <1>0 DEF Follows
  <1>3. p \in DOMAIN partnerTopic'[o] /\ k \in partnerTopic'[o][p]
    BY <1>1, <1>2
  <1>4. ASSUME outbox[k].seq > 1
        PROVE \E q \in 1 .. p : \E j \in partnerTopic'[o][q] :
                outbox'[j].seq = outbox[k].seq - 1 /\ (q < p \/ j < k)
    <2>1. PICK q \in 1 .. p : \E j \in partnerTopic[o][q] :
                outbox[j].seq = outbox[k].seq - 1 /\ (q < p \/ j < k)
      BY <1>2, <1>4
    <2>2. q \in 1 .. Len(partnerTopic[o])
      BY <1>1, <1>2, <2>1
    <2> QED BY <1>1, <2>1, <2>2
  <1> QED BY <1>0, <1>3, <1>4 DEF Follows

(* A row becomes SENT in a pass that has published it; its predecessor was     *)
(* published by an earlier pass or goes before it in this one.                 *)
LEMMA TopicStep ==
  ASSUME TypeOK, OwnerInv, DecisionInv, RowInv, TopicInv, [Next]_vars
  PROVE TopicInv'
  <1>t. \A o \in Orders : /\ Len(partnerTopic[o]) \in Nat
                          /\ DOMAIN partnerTopic[o] = 1 .. Len(partnerTopic[o])
                          /\ partnerTopic[o] \in Seq(SUBSET (DOMAIN outbox))
    BY LenProperties DEF TypeOK
  <1>0. ASSUME UNCHANGED partnerTopic, DOMAIN outbox \subseteq DOMAIN outbox',
               \A k \in DOMAIN outbox : outbox'[k] = outbox[k],
               \A k \in DOMAIN outbox' \ DOMAIN outbox : outbox'[k].status = "PENDING"
        PROVE TopicInv'
    <2> SUFFICES ASSUME NEW k \in DOMAIN outbox', outbox'[k].status # "PENDING", outbox'[k].op # "ORDER"
                 PROVE Follows(k)'
      BY DEF TopicInv
    <2>1. k \in DOMAIN outbox /\ outbox'[k] = outbox[k]
      BY <1>0
    <2>2. Follows(k)
      BY <2>1 DEF TopicInv
    <2>3. /\ \A j \in DOMAIN outbox : outbox'[j].order = outbox[j].order /\ outbox'[j].seq = outbox[j].seq
          /\ \A o \in Orders : /\ Len(partnerTopic[o]) <= Len(partnerTopic'[o]) /\ Len(partnerTopic'[o]) \in Nat
                               /\ DOMAIN partnerTopic'[o] = 1 .. Len(partnerTopic'[o])
                               /\ \A p \in 1 .. Len(partnerTopic[o]) : partnerTopic'[o][p] = partnerTopic[o][p]
      BY <1>0, <1>t
    <2> QED BY <2>1, <2>2, <2>3, FollowsStays
  <1>1. ASSUME NEW o \in Orders, CreateOrder(o) PROVE TopicInv'
    <2> DEFINE e == Len(outbox) + 1
    <2>1. /\ DOMAIN outbox = 1 .. Len(outbox) /\ DOMAIN outbox' = 1 .. e /\ Len(outbox) \in Nat
          /\ \A k \in DOMAIN outbox : k \in DOMAIN outbox' /\ outbox'[k] = outbox[k]
          /\ outbox'[e] = NewRow(o, 0, "ORDER")
      BY <1>1, CreateRows
    <2>2. outbox'[e].status = "PENDING"
      BY <2>1 DEF NewRow
    <2>3. \A k \in DOMAIN outbox' \ DOMAIN outbox : k = e
      BY <2>1
    <2>4. UNCHANGED partnerTopic
      BY <1>1 DEF CreateOrder, topicVars
    <2> HIDE DEF e
    <2> QED BY <1>0, <2>1, <2>2, <2>3, <2>4
  <1>2. ASSUME NEW o \in Orders, NEW op \in Operations, Enqueues(o, op) PROVE TopicInv'
    <2> DEFINE e == Len(outbox) + 1
    <2>1. /\ DOMAIN outbox = 1 .. Len(outbox) /\ DOMAIN outbox' = 1 .. e /\ Len(outbox) \in Nat
          /\ \A k \in DOMAIN outbox : k \in DOMAIN outbox' /\ outbox'[k] = outbox[k]
          /\ outbox'[e].status = "PENDING"
      BY <1>2, EnqueueRows
    <2>2. \A k \in DOMAIN outbox' \ DOMAIN outbox : k = e
      BY <2>1
    <2>3. UNCHANGED partnerTopic
      BY <1>2 DEF Enqueues
    <2> HIDE DEF e
    <2> QED BY <1>0, <2>1, <2>2, <2>3
  <1>3. CASE RelayPendingEvents \/ RelayInterrupted \/ RelayPurges
    <2>1. PICK stored, marked, gone : Relays(stored, marked, gone)
      BY <1>3, RelayStep
    <2>2. /\ DOMAIN outbox' = DOMAIN outbox
          /\ \A k \in DOMAIN outbox :
               /\ outbox'[k].order = outbox[k].order
               /\ outbox'[k].seq = outbox[k].seq
               /\ outbox'[k].op = outbox[k].op
               /\ outbox'[k].status = IF k \in gone THEN "PURGED"
                                      ELSE IF k \in marked THEN "SENT" ELSE outbox[k].status
      BY <2>1, MarkRows DEF Relays, TypeOK
    <2>3. stored \subseteq Batch /\ Batch \subseteq Pending /\ marked \subseteq stored /\ Pending \subseteq DOMAIN outbox
      BY <2>1 DEF Relays, Batch, Pending
    <2>4. \A o \in Orders : partnerTopic'[o] = IF Published(o, stored) = {} THEN partnerTopic[o]
                                               ELSE Append(partnerTopic[o], Published(o, stored))
      BY <2>1 DEF Relays
    <2>5. ASSUME NEW o \in Orders
          PROVE /\ Len(partnerTopic[o]) <= Len(partnerTopic'[o]) /\ Len(partnerTopic'[o]) \in Nat
                /\ DOMAIN partnerTopic'[o] = 1 .. Len(partnerTopic'[o])
                /\ \A p \in 1 .. Len(partnerTopic[o]) : partnerTopic'[o][p] = partnerTopic[o][p]
                /\ Published(o, stored) # {} =>
                     /\ Len(partnerTopic'[o]) = Len(partnerTopic[o]) + 1
                     /\ partnerTopic'[o][Len(partnerTopic[o]) + 1] = Published(o, stored)
      <3>1. Published(o, stored) \in SUBSET (DOMAIN outbox)
        BY <2>3 DEF Published
      <3>2. partnerTopic[o] \in Seq(SUBSET (DOMAIN outbox)) /\ Len(partnerTopic[o]) \in Nat
        BY <1>t
      <3>3. CASE Published(o, stored) = {}
        BY <1>t, <2>4, <3>3
      <3>4. CASE Published(o, stored) # {}
        <4>1. partnerTopic'[o] = Append(partnerTopic[o], Published(o, stored))
          BY <2>4, <3>4
        <4> QED BY <3>1, <3>2, <4>1
      <3> QED BY <3>3, <3>4
    <2>6. ASSUME NEW k \in DOMAIN outbox, Follows(k) PROVE Follows(k)'
      BY <2>2, <2>5, <2>6, FollowsStays
    <2>7. ASSUME NEW k \in marked, outbox[k].op # "ORDER" PROVE Follows(k)'
      <3>0. k \in DOMAIN outbox /\ k \in stored /\ k \in Batch /\ k \in Nat
        BY <2>3, RowTypes
      <3>1. PICK o \in Orders : o = outbox[k].order
        BY <3>0, RowTypes
      <3>2. k \in Published(o, stored)
        BY <2>7, <3>0, <3>1 DEF Published
      <3>3. PICK p : /\ p = Len(partnerTopic[o]) + 1 /\ p = Len(partnerTopic'[o])
                     /\ partnerTopic'[o][p] = Published(o, stored)
        BY <2>5, <3>2
      <3>4. p \in DOMAIN partnerTopic'[o] /\ p \in Nat \ {0} /\ k \in partnerTopic'[o][p]
        BY <1>t, <2>5, <3>2, <3>3
      <3>5. ASSUME outbox[k].seq > 1
            PROVE \E q \in 1 .. p : \E j \in partnerTopic'[o][q] :
                    outbox'[j].seq = outbox[k].seq - 1 /\ (q < p \/ j < k)
        <4>1. PICK j \in DOMAIN outbox : j < k /\ outbox[j].order = o /\ outbox[j].seq = outbox[k].seq - 1
          BY <3>0, <3>1, <3>5 DEF RowInv
        <4>2. outbox[j].op # "ORDER" /\ outbox[j].seq \in Nat
          <5>1. outbox[k].seq \in Nat /\ outbox[j].seq # 0
            BY <3>0, <3>5, <4>1, RowTypes
          <5> QED BY <4>1, <5>1, RowTypes DEF RowInv
        <4>3. CASE outbox[j].status = "PENDING"
          <5>1. j \in Pending
            BY <4>3 DEF Pending
          <5>2. j \in Batch
            BY <3>0, <4>1, <5>1, BatchClosed
          <5>3. j \in stored
            BY <2>1, <2>3, <4>1, <5>2 DEF Relays
          <5>4. j \in Published(o, stored)
            BY <4>1, <4>2, <5>3 DEF Published
          <5> QED BY <2>2, <3>3, <3>4, <4>1, <5>4
        <4>4. CASE outbox[j].status # "PENDING"
          <5>1. PICK q \in DOMAIN partnerTopic[o] : j \in partnerTopic[o][q]
            BY <4>1, <4>2, <4>4 DEF TopicInv, Follows
          <5>2. q \in 1 .. p /\ q < p /\ partnerTopic'[o][q] = partnerTopic[o][q]
            BY <1>t, <2>5, <3>3, <5>1
          <5> QED BY <2>2, <4>1, <5>1, <5>2
        <4> QED BY <4>3, <4>4
      <3>6. outbox'[k].order = o /\ outbox'[k].seq = outbox[k].seq
        BY <2>2, <3>0, <3>1
      <3> QED BY <3>4, <3>5, <3>6 DEF Follows
    <2>8. ASSUME NEW k \in DOMAIN outbox', outbox'[k].status # "PENDING", outbox'[k].op # "ORDER"
          PROVE Follows(k)'
      <3>1. k \in DOMAIN outbox /\ outbox[k].op # "ORDER"
        BY <2>2, <2>8
      <3>2. CASE k \in marked
        BY <2>7, <3>1, <3>2
      <3>3. CASE k \notin marked
        <4>1. k \in gone => outbox[k].status = "SENT"
          BY <2>1 DEF Relays, Purgeable
        <4>2. outbox[k].status # "PENDING"
          BY <2>2, <2>8, <3>1, <3>3, <4>1
        <4> QED BY <2>6, <3>1, <4>2 DEF TopicInv
      <3> QED BY <3>2, <3>3
    <2> QED BY <2>8 DEF TopicInv
  <1>4. CASE Rests
    BY <1>4, <1>0 DEF Rests
  <1> QED BY <1>1, <1>2, <1>3, <1>4, OutboxSteps

-----------------------------------------------------------------------------
(* Budget *)

(* What is counted is finite.                                                  *)
LEMMA BudgetSets ==
  ASSUME TypeOK
  PROVE /\ IsFiniteSet(PendingOrders) /\ Cardinality(PendingOrders) \in Nat
        /\ IsFiniteSet(Undelivered) /\ Cardinality(Undelivered) \in Nat
        /\ IsFiniteSet(UndeliveredOps) /\ Cardinality(UndeliveredOps) \in Nat
  <1>1. IsFiniteSet(PendingOrders)
    <2>1. PendingOrders \in SUBSET Orders
      BY DEF PendingOrders
    <2> QED BY <2>1, FS_Subset, SagaTypes
  <1>2. IsFiniteSet(Undelivered)
    <2>1. Undelivered \in SUBSET (1 .. Len(outbox)) /\ 1 \in Int /\ Len(outbox) \in Int
      BY RowTypes DEF Undelivered, Retained
    <2>2. IsFiniteSet(1 .. Len(outbox))
      BY <2>1, FS_Interval
    <2> QED BY <2>1, <2>2, FS_Subset
  <1>3. IsFiniteSet(UndeliveredOps)
    <2>1. UndeliveredOps \in SUBSET (Orders \X (1 .. MaxSequence)) /\ 1 \in Int /\ MaxSequence \in Int
      BY SagaTypes DEF UndeliveredOps
    <2>2. IsFiniteSet(1 .. MaxSequence)
      BY <2>1, FS_Interval
    <2>3. IsFiniteSet(Orders \X (1 .. MaxSequence))
      BY <2>2, FS_Product, SagaTypes
    <2> QED BY <2>1, <2>3, FS_Subset
  <1> QED BY <1>1, <1>2, <1>3, FS_CardinalityType

(* And is so after a step.                                                     *)
LEMMA BudgetSetsNext ==
  ASSUME TypeOK'
  PROVE Cardinality(PendingOrders') \in Nat /\ Cardinality(UndeliveredOps') \in Nat
  <1>1. IsFiniteSet(PendingOrders')
    <2>1. PendingOrders' \in SUBSET Orders
      BY DEF PendingOrders
    <2> QED BY <2>1, FS_Subset, SagaTypes
  <1>2. IsFiniteSet(UndeliveredOps')
    <2>1. UndeliveredOps' \in SUBSET (Orders \X (1 .. MaxSequence)) /\ 1 \in Int /\ MaxSequence \in Int
      BY SagaTypes DEF UndeliveredOps
    <2>2. IsFiniteSet(1 .. MaxSequence)
      BY <2>1, FS_Interval
    <2>3. IsFiniteSet(Orders \X (1 .. MaxSequence))
      BY <2>2, FS_Product, SagaTypes
    <2> QED BY <2>1, <2>3, FS_Subset
  <1> QED BY <1>1, <1>2, FS_CardinalityType

(* countUnfinishedBusiness counts every operation that is not delivered, each  *)
(* by a row of its own.                                                        *)
LEMMA AllCounted ==
  ASSUME TypeOK, RowInv, EnqueuedInv, ~Retention
  PROVE Cardinality(UndeliveredOps) <= Cardinality(Undelivered)
  <1> DEFINE row(w) == CHOOSE k \in DOMAIN outbox : outbox[k].order = w[1] /\ outbox[k].seq = w[2]
             f == [w \in UndeliveredOps |-> row(w)]
  <1>1. \A w \in UndeliveredOps :
          /\ row(w) \in Undelivered
          /\ outbox[row(w)].order = w[1] /\ outbox[row(w)].seq = w[2] /\ w = <<w[1], w[2]>>
    <2> SUFFICES ASSUME NEW w \in UndeliveredOps
                 PROVE /\ row(w) \in Undelivered
                       /\ outbox[row(w)].order = w[1] /\ outbox[row(w)].seq = w[2] /\ w = <<w[1], w[2]>>
      OBVIOUS
    <2>1. /\ w[1] \in Orders /\ w[2] \in 1 .. MaxSequence /\ w = <<w[1], w[2]>>
          /\ delivered[w[1]] < w[2] /\ w[2] <= order[w[1]].seq
      BY DEF UndeliveredOps
    <2>2. w[2] \in 1 .. order[w[1]].seq /\ w[2] \in Nat /\ w[2] > 0
      BY <2>1, RowTypes, SagaTypes
    <2>3. \E k \in DOMAIN outbox : outbox[k].order = w[1] /\ outbox[k].seq = w[2]
      BY <2>1, <2>2 DEF EnqueuedInv
    <2>4. row(w) \in DOMAIN outbox /\ outbox[row(w)].order = w[1] /\ outbox[row(w)].seq = w[2]
      BY <2>3
    <2> HIDE DEF row
    <2>5. row(w) \in Retained
      BY <2>4 DEF Retained, EnqueuedInv
    <2>6. outbox[row(w)].op # "ORDER"
      BY <2>2, <2>4 DEF RowInv
    <2>7. outbox[row(w)].seq > delivered[outbox[row(w)].order]
      <3>1. delivered[w[1]] \in Nat
        BY <2>1, SagaTypes DEF TypeOK
      <3> QED BY <2>1, <2>2, <2>4, <3>1
    <2> QED BY <2>1, <2>4, <2>5, <2>6, <2>7 DEF Undelivered
  <1> HIDE DEF row
  <1>2. f \in [UndeliveredOps -> Undelivered]
    BY <1>1
  <1>3. \A v, w \in UndeliveredOps : f[v] = f[w] => v = w
    <2> SUFFICES ASSUME NEW v \in UndeliveredOps, NEW w \in UndeliveredOps, f[v] = f[w] PROVE v = w
      OBVIOUS
    <2>1. row(v) = row(w)
      OBVIOUS
    <2> QED BY <1>1, <2>1
  <1>4. f \in Injection(UndeliveredOps, Undelivered)
    BY <1>2, <1>3 DEF Injection, IsInjective
  <1> HIDE DEF f
  <1> QED BY <1>4, BudgetSets, FS_Injection

(* Admission leaves room for one more, confirmation turns a pending order into *)
(* its CREATE, and everything else only finishes business.                     *)
LEMMA BudgetStep ==
  ASSUME TypeOK, OwnerInv, DecisionInv, RowInv, EnqueuedInv, BudgetInv, [Next]_vars, TypeOK'
  PROVE BudgetInv'
  <1> SUFFICES ASSUME ~Retention PROVE BusinessWithinBudget'
    BY DEF BudgetInv
  <1> DEFINE P == Cardinality(PendingOrders)
             Q == Cardinality(PendingOrders')
             U == Cardinality(UndeliveredOps)
             V == Cardinality(UndeliveredOps')
  <1>b. P + U <= BusinessLimit /\ BusinessLimit \in Nat
    BY SagaTypes DEF BudgetInv, BusinessWithinBudget
  <1>n. /\ P \in Nat /\ U \in Nat /\ Q \in Nat /\ V \in Nat
        /\ IsFiniteSet(PendingOrders) /\ IsFiniteSet(UndeliveredOps)
    BY BudgetSets, BudgetSetsNext
  <1>r. ASSUME BusinessHasRoom PROVE P + U < BusinessLimit
    <2>1. U <= Cardinality(Undelivered) /\ Cardinality(Undelivered) \in Nat
      BY AllCounted, BudgetSets
    <2>2. P + Cardinality(Undelivered) < BusinessLimit
      BY <1>r DEF BusinessHasRoom
    <2> HIDE DEF P, U
    <2> QED BY <1>n, <1>b, <2>1, <2>2
  <1>g. ASSUME Q + V <= BusinessLimit PROVE BusinessWithinBudget'
    BY <1>g DEF BusinessWithinBudget
  <1>s. ASSUME PendingOrders' \subseteq PendingOrders, UndeliveredOps' \subseteq UndeliveredOps
        PROVE BusinessWithinBudget'
    <2>1. Q <= P /\ V <= U
      BY <1>n, <1>s, FS_Subset
    <2> HIDE DEF P, Q, U, V
    <2> QED BY <1>b, <1>n, <1>g, <2>1
  <1>t. /\ order \in [Orders -> [status : Statuses, seq : 0 .. MaxSequence]]
        /\ delivered \in [Orders -> 0 .. MaxSequence]
        /\ \A o \in Orders : delivered[o] \in Nat /\ order[o].seq \in Nat
    BY SagaTypes DEF TypeOK
  <1>1. ASSUME NEW o \in Orders, CreateOrder(o) PROVE BusinessWithinBudget'
    <2>1. /\ \A q \in Orders \ {o} : order'[q] = order[q]
          /\ order[o].status = "ABSENT" /\ order'[o].status = "PENDING" /\ order'[o].seq = order[o].seq
          /\ UNCHANGED delivered /\ BusinessHasRoom
      BY <1>1, CreateRows DEF CreateOrder
    <2>2. PendingOrders' = PendingOrders \cup {o} /\ o \notin PendingOrders
      BY <2>1 DEF PendingOrders
    <2>3. UndeliveredOps' = UndeliveredOps
      BY <2>1 DEF UndeliveredOps
    <2>4. Q = P + 1 /\ V = U
      BY <1>n, <2>2, <2>3, FS_AddElement
    <2>5. P + U < BusinessLimit
      BY <1>r, <2>1
    <2> HIDE DEF P, Q, U, V
    <2> QED BY <1>b, <1>n, <1>g, <2>4, <2>5
  <1>2. ASSUME NEW o \in Orders, NEW op \in Operations, Enqueues(o, op) PROVE BusinessWithinBudget'
    <2>1. /\ \A q \in Orders \ {o} : order'[q] = order[q]
          /\ order'[o].seq = order[o].seq + 1 /\ order'[o].status # "PENDING"
      BY <1>2, EnqueueRows
    <2>2. UNCHANGED delivered
      BY <1>2 DEF Enqueues
    <2> DEFINE new == <<o, order[o].seq + 1>>
    <2>3. UndeliveredOps' \in SUBSET (UndeliveredOps \cup {new})
      <3> SUFFICES ASSUME NEW w \in UndeliveredOps', w # new PROVE w \in UndeliveredOps
        OBVIOUS
      <3>1. /\ w \in Orders \X (1 .. MaxSequence) /\ w = <<w[1], w[2]>> /\ w[1] \in Orders /\ w[2] \in Nat
            /\ delivered[w[1]] < w[2] /\ w[2] <= order'[w[1]].seq
        BY <2>2, SagaTypes DEF UndeliveredOps
      <3>2. w[2] <= order[w[1]].seq
        <4>1. CASE w[1] # o
          BY <2>1, <3>1, <4>1
        <4>2. CASE w[1] = o
          <5>1. w[2] # order[o].seq + 1
            BY <3>1, <4>2
          <5>2. w[2] <= order[o].seq + 1
            BY <2>1, <3>1, <4>2
          <5>3. order[o].seq \in Nat
            BY <1>t
          <5>4. w[2] <= order[o].seq
            BY <3>1, <5>1, <5>2, <5>3
          <5> QED BY <4>2, <5>4
        <4> QED BY <4>1, <4>2
      <3> QED BY <3>1, <3>2 DEF UndeliveredOps
    <2> HIDE DEF new
    <2>4. V <= U + 1
      <3>1. /\ IsFiniteSet(UndeliveredOps \cup {new})
            /\ Cardinality(UndeliveredOps \cup {new}) = IF new \in UndeliveredOps THEN U ELSE U + 1
        BY <1>n, FS_AddElement
      <3>2. V <= Cardinality(UndeliveredOps \cup {new})
        BY <2>3, <3>1, FS_Subset
      <3> HIDE DEF U, V
      <3> QED BY <1>n, <3>1, <3>2
    <2>5. CASE op = "CREATE"
      <3>1. order[o].status = "PENDING"
        BY <1>2, <2>5 DEF Enqueues
      <3>2. PendingOrders' = PendingOrders \ {o} /\ o \in PendingOrders
        BY <2>1, <3>1 DEF PendingOrders
      <3>3. Q = P - 1
        BY <1>n, <3>2, FS_RemoveElement
      <3> HIDE DEF P, Q, U, V
      <3> QED BY <1>b, <1>n, <1>g, <2>4, <3>3
    <2>6. CASE op # "CREATE"
      <3>1. order[o].status = "CONFIRMED" /\ BusinessHasRoom
        BY <1>2, <2>6 DEF Enqueues
      <3>2. PendingOrders' = PendingOrders
        BY <2>1, <3>1 DEF PendingOrders
      <3>3. Q = P /\ P + U < BusinessLimit
        BY <1>r, <3>1, <3>2
      <3> HIDE DEF P, Q, U, V
      <3> QED BY <1>b, <1>n, <1>g, <2>4, <3>3
    <2> QED BY <2>5, <2>6
  <1>3. CASE RelayPendingEvents \/ RelayInterrupted \/ RelayPurges
    <2>1. UNCHANGED <<order, delivered>>
      BY <1>3 DEF RelayPendingEvents, RelayInterrupted, RelayPurges, RelayPass
    <2> QED BY <1>s, <2>1 DEF PendingOrders, UndeliveredOps
  <1>4. CASE Rests
    <2>1. PendingOrders' \subseteq PendingOrders
      BY <1>4 DEF Rests, PendingOrders
    <2>2. \A o \in Orders : delivered'[o] \in Nat /\ delivered'[o] >= delivered[o] /\ order'[o].seq = order[o].seq
      BY <1>4, SagaTypes DEF Rests, TypeOK
    <2>3. UndeliveredOps' \subseteq UndeliveredOps
      BY <1>t, <2>2, SagaTypes DEF UndeliveredOps
    <2> QED BY <1>s, <2>1, <2>3
  <1> QED BY <1>1, <1>2, <1>3, <1>4, OutboxSteps

-----------------------------------------------------------------------------
OutboxInv == RowInv /\ EnqueuedInv /\ TopicInv /\ BudgetInv

(* Without an order there is no row and no business.                           *)
LEMMA OutboxStarts == Init => OutboxInv
  <1> SUFFICES ASSUME Init PROVE OutboxInv
    OBVIOUS
  <1>1. DOMAIN outbox = {} /\ \A o \in Orders : order[o].seq = 0 /\ order[o].status = "ABSENT" /\ delivered[o] = 0
    BY DEF Init
  <1>2. RowInv /\ EnqueuedInv /\ TopicInv
    BY <1>1 DEF RowInv, EnqueuedInv, TopicInv
  <1>3. PendingOrders = {} /\ UndeliveredOps = {}
    <2>1. \A n \in 1 .. MaxSequence : ~(0 < n /\ n <= 0)
      BY SagaTypes
    <2> QED BY <1>1, <2>1 DEF PendingOrders, UndeliveredOps
  <1>4. BusinessLimit \in Nat /\ Cardinality({}) = 0
    BY SagaTypes, FS_EmptySet
  <1>5. BusinessWithinBudget
    BY <1>3, <1>4 DEF BusinessWithinBudget
  <1> QED BY <1>2, <1>5 DEF OutboxInv, BudgetInv

(* The outbox part of the invariant, beside the saga's.                        *)
LEMMA OutboxInvariant == Spec => []OutboxInv
  <1>1. SagaInv /\ SagaInv' /\ OutboxInv /\ [Next]_vars => OutboxInv'
    <2> SUFFICES ASSUME SagaInv, SagaInv', OutboxInv, [Next]_vars PROVE OutboxInv'
      OBVIOUS
    <2>1. TypeOK /\ OwnerInv /\ DecisionInv /\ ExistInv /\ TypeOK'
      BY DEF SagaInv
    <2>2. RowInv /\ EnqueuedInv /\ TopicInv /\ BudgetInv
      BY DEF OutboxInv
    <2>3. RowInv' /\ EnqueuedInv'
      BY <2>1, <2>2, RowStep
    <2>4. TopicInv'
      BY <2>1, <2>2, TopicStep
    <2>5. BudgetInv'
      BY <2>1, <2>2, BudgetStep
    <2> QED BY <2>3, <2>4, <2>5 DEF OutboxInv
  <1> QED BY <1>1, SagaInvariant, OutboxStarts, PTL DEF Spec

(* The partner topic holds the operations of an order in sequence: every one   *)
(* the relay has marked SENT follows a copy of its predecessor, CREATE is the  *)
(* first and CANCEL the last, whatever part of which batches fails.            *)
THEOREM SequenceCorrect == Spec => []PublishedInSequence
  <1>1. OutboxInv => PublishedInSequence
    <2> SUFFICES ASSUME RowInv, TopicInv PROVE PublishedInSequence
      BY DEF OutboxInv
    <2> QED BY DEF RowInv, TopicInv, Follows, PublishedInSequence
  <1> QED BY <1>1, OutboxInvariant, PTL

(* While SENT rows are kept, pending orders and undelivered operations stay    *)
(* within the budget of order-service, although only CreateOrder and Mutate    *)
(* look at it and a confirmation enqueues its CREATE unchecked.                *)
THEOREM BudgetCorrect == Spec => [](~Retention => BusinessWithinBudget)
  <1>1. OutboxInv => (~Retention => BusinessWithinBudget)
    BY DEF OutboxInv, BudgetInv
  <1> QED BY <1>1, OutboxInvariant, PTL
=============================================================================
