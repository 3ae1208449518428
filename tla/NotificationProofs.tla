-------------------------- MODULE NotificationProofs --------------------------
(* Safety of the notification service, for any number of threads, consumers    *)
(* and events: the limiter its two lanes share, and the consumer of outcomes.  *)
EXTENDS MCNotifications, FiniteSetTheorems, TLAPS

-----------------------------------------------------------------------------
(* NotificationDispatchLimiter *)

(* Bulk requests that have passed their check of the waiters and have no slot. *)
Past == {b \in Bulk : pc[b] \in {"read", "cas"}}

(* Realtime requests between their registration and their slot.                *)
Waiting == {t \in Realtime : pc[t] # "idle"}

(* Why slots stay apart: a thread about to compareAndSet will reserve a slot   *)
(* no earlier than the value it compares with.                                 *)
SlotsInv ==
  /\ SlotsApart
  /\ \A t \in Threads : pc[t] = "cas" => current[t] <= reserved[t]

(* Why the window does not repeat: while a realtime request waits no bulk      *)
(* request passes its check, so each one that overtakes uses up one of those   *)
(* that were past it.                                                          *)
WindowInv ==
  \A t \in Realtime :
    /\ overtaken[t] <= Cardinality(Bulk)
    /\ pc[t] # "idle" => overtaken[t] + Cardinality(Past) <= Cardinality(Bulk)

LimiterInv == LimiterTypeOK /\ SlotsInv /\ WindowInv

(* The realtime threads that wait, and the bulk threads past their check.      *)
LEMMA LimiterSets ==
  /\ IsFiniteSet(Waiting)
  /\ IsFiniteSet(Past) /\ Cardinality(Past) \in Nat /\ Cardinality(Past) <= Cardinality(Bulk)
  /\ Cardinality(Bulk) \in Nat
  /\ Cardinality(Waiting) \in Nat
  <1>1. Waiting \in SUBSET Realtime /\ Past \in SUBSET Bulk
    BY DEF Past, Waiting
  <1>2. IsFiniteSet(Realtime) /\ IsFiniteSet(Bulk)
    BY LimiterAssumption DEF LimiterAssumption
  <1>3. IsFiniteSet(Waiting)
    BY <1>1, <1>2, FS_Subset
  <1>4. IsFiniteSet(Past) /\ Cardinality(Past) <= Cardinality(Bulk)
    BY <1>1, <1>2, FS_Subset
  <1> QED BY <1>2, <1>3, <1>4, FS_CardinalityType

(* The same in the next state.                                                 *)
LEMMA LimiterSetsNext ==
  /\ IsFiniteSet(Waiting')
  /\ IsFiniteSet(Past') /\ Cardinality(Past') \in Nat /\ Cardinality(Past') <= Cardinality(Bulk)
  <1>1. Waiting' \in SUBSET Realtime /\ Past' \in SUBSET Bulk
    BY DEF Past, Waiting
  <1>2. IsFiniteSet(Realtime) /\ IsFiniteSet(Bulk)
    BY LimiterAssumption DEF LimiterAssumption
  <1>3. IsFiniteSet(Waiting')
    BY <1>1, <1>2, FS_Subset
  <1>4. IsFiniteSet(Past') /\ Cardinality(Past') <= Cardinality(Bulk)
    BY <1>1, <1>2, FS_Subset
  <1> QED BY <1>2, <1>3, <1>4, FS_CardinalityType

(* The count of waiters is zero only if no realtime request waits.             *)
LEMMA NoWaiters == LimiterTypeOK /\ waiters = 0 => \A t \in Realtime : pc[t] = "idle"
  <1> SUFFICES ASSUME LimiterTypeOK, waiters = 0 PROVE Waiting = {}
    BY DEF Waiting
  <1> QED BY LimiterSets, FS_EmptySet DEF LimiterTypeOK, Waiting

(* At the start nobody waits and nothing is reserved.                          *)
LEMMA LimiterStarts == LimiterInit => LimiterInv
  <1> SUFFICES ASSUME LimiterInit PROVE LimiterInv
    OBVIOUS
  <1> USE LimiterAssumption DEF LimiterAssumption, LimiterInit, Threads
  <1>1. Waiting = {} /\ Past = {}
    BY DEF Past, Waiting
  <1>2. Cardinality({}) = 0
    BY FS_EmptySet
  <1>3. LimiterTypeOK
    BY <1>1, <1>2 DEF LimiterTypeOK, Waiting
  <1>4. SlotsInv
    BY DEF SlotsInv, SlotsApart
  <1>5. WindowInv
    BY <1>1, <1>2, LimiterSets DEF WindowInv
  <1> QED BY <1>3, <1>4, <1>5 DEF LimiterInv

(* Types, and the count of the waiters.                                        *)
LEMMA LimiterTypeStep == LimiterTypeOK /\ [LimiterNext]_limiterVars => LimiterTypeOK'
  <1> SUFFICES ASSUME LimiterTypeOK, [LimiterNext]_limiterVars PROVE LimiterTypeOK'
    OBVIOUS
  <1> USE LimiterAssumption DEF LimiterAssumption, LimiterTypeOK, Threads
  <1>w. waiters = Cardinality(Waiting) /\ IsFiniteSet(Waiting) /\ waiters \in Nat
    BY LimiterSets DEF Waiting
  <1>s. ASSUME Waiting' = Waiting PROVE Cardinality(Waiting') = waiters
    BY <1>s, <1>w
  <1>1. ASSUME NEW t \in Realtime, AcquireRealtime(t) PROVE LimiterTypeOK'
    <2>1. Waiting' = Waiting \cup {t} /\ t \notin Waiting
      BY <1>1 DEF AcquireRealtime, Waiting
    <2>2. waiters' = Cardinality(Waiting')
      BY <1>1, <1>w, <2>1, FS_AddElement DEF AcquireRealtime
    <2> QED BY <1>1, <2>2 DEF AcquireRealtime, Waiting
  <1>2. ASSUME NEW t \in Bulk, AcquireBulk(t) \/ CheckWaiters(t) PROVE LimiterTypeOK'
    <2>1. Waiting' = Waiting
      BY <1>2 DEF AcquireBulk, CheckWaiters, Waiting
    <2> QED BY <1>2, <1>s, <2>1 DEF AcquireBulk, CheckWaiters, Waiting
  <1>3. ASSUME NEW t \in Threads, ReadSlot(t) PROVE LimiterTypeOK'
    <2>1. Waiting' = Waiting
      BY <1>3 DEF ReadSlot, Waiting
    <2> QED BY <1>3, <1>s, <2>1 DEF ReadSlot, Waiting
  <1>4. ASSUME NEW t \in Threads, ReserveSlot(t) PROVE LimiterTypeOK'
    <2>1. Waiting' = Waiting
      BY <1>4 DEF ReserveSlot, Waiting
    <2> QED BY <1>4, <1>s, <2>1 DEF ReserveSlot, Waiting, Overtake
  <1>5. ASSUME NEW t \in Threads, Dispatch(t) PROVE LimiterTypeOK'
    <2>1. IF t \in Realtime THEN Waiting' = Waiting \ {t} /\ t \in Waiting ELSE Waiting' = Waiting
      BY <1>5 DEF Dispatch, Waiting
    <2>2. waiters' = Cardinality(Waiting')
      BY <1>5, <1>w, <2>1, FS_RemoveElement DEF Dispatch
    <2> QED BY <1>5, <2>2 DEF Dispatch, Waiting
  <1>6. CASE Tick
    BY <1>6 DEF Tick
  <1>7. CASE UNCHANGED limiterVars
    BY <1>7 DEF limiterVars
  <1> QED BY <1>1, <1>2, <1>3, <1>4, <1>5, <1>6, <1>7 DEF LimiterNext

(* Slots are reserved past all those that were.                                *)
LEMMA SlotsStep == LimiterTypeOK /\ SlotsInv /\ [LimiterNext]_limiterVars => SlotsInv'
  <1> SUFFICES ASSUME LimiterTypeOK, SlotsInv, [LimiterNext]_limiterVars PROVE SlotsInv'
    OBVIOUS
  <1> USE LimiterAssumption DEF LimiterAssumption, LimiterTypeOK, Threads, SlotsInv, SlotsApart
  <1>1. ASSUME NEW t \in Realtime, AcquireRealtime(t) PROVE SlotsInv'
    BY <1>1 DEF AcquireRealtime
  <1>2. ASSUME NEW t \in Bulk, AcquireBulk(t) \/ CheckWaiters(t) PROVE SlotsInv'
    BY <1>2 DEF AcquireBulk, CheckWaiters
  <1>3. ASSUME NEW t \in Threads, ReadSlot(t) PROVE SlotsInv'
    BY <1>3 DEF ReadSlot
  <1>4. ASSUME NEW t \in Threads, ReserveSlot(t) PROVE SlotsInv'
    BY <1>4 DEF ReserveSlot
  <1>5. ASSUME NEW t \in Threads, Dispatch(t) PROVE SlotsInv'
    BY <1>5 DEF Dispatch
  <1>6. CASE Tick
    BY <1>6 DEF Tick
  <1>7. CASE UNCHANGED limiterVars
    BY <1>7 DEF limiterVars
  <1> QED BY <1>1, <1>2, <1>3, <1>4, <1>5, <1>6, <1>7 DEF LimiterNext

(* A bulk request overtakes only out of the window it was in already.          *)
LEMMA WindowStep == LimiterTypeOK /\ WindowInv /\ [LimiterNext]_limiterVars => WindowInv'
  <1> SUFFICES ASSUME LimiterTypeOK, WindowInv, [LimiterNext]_limiterVars PROVE WindowInv'
    OBVIOUS
  <1> USE LimiterAssumption, LimiterSets, LimiterSetsNext
      DEF LimiterAssumption, LimiterTypeOK, Threads, WindowInv
  <1>1. ASSUME NEW t \in Realtime, AcquireRealtime(t) PROVE WindowInv'
    <2>1. Past' = Past
      BY <1>1 DEF AcquireRealtime, Past
    <2> QED BY <1>1, <2>1 DEF AcquireRealtime
  <1>2. ASSUME NEW t \in Bulk, AcquireBulk(t) PROVE WindowInv'
    <2>1. Past' = Past
      BY <1>2 DEF AcquireBulk, Past
    <2> QED BY <1>2, <2>1 DEF AcquireBulk
  <1>3. ASSUME NEW t \in Bulk, CheckWaiters(t) PROVE WindowInv'
    BY <1>3, NoWaiters DEF CheckWaiters
  <1>4. ASSUME NEW t \in Threads, ReadSlot(t) PROVE WindowInv'
    <2>1. Past' = Past
      BY <1>4 DEF ReadSlot, Past
    <2> QED BY <1>4, <2>1 DEF ReadSlot
  <1>5. ASSUME NEW t \in Threads, ReserveSlot(t) PROVE WindowInv'
    <2>1. CASE nextSlot # current[t]
      <3>1. Past' = Past
        BY <1>5, <2>1 DEF ReserveSlot, Past
      <3> QED BY <1>5, <2>1, <3>1 DEF ReserveSlot
    <2>2. CASE nextSlot = current[t] /\ t \in Bulk
      <3>1. Past' = Past \ {t} /\ t \in Past
        BY <1>5, <2>2 DEF ReserveSlot, Past
      <3>2. Cardinality(Past') = Cardinality(Past) - 1
        BY <3>1, FS_RemoveElement
      <3>3. \A u \in Realtime : /\ pc'[u] = pc[u]
                                /\ overtaken'[u] \in {overtaken[u], overtaken[u] + 1}
                                /\ overtaken'[u] # overtaken[u] => pc[u] # "idle"
        BY <1>5, <2>2 DEF ReserveSlot, Overtake
      <3> QED BY <3>2, <3>3
    <2>3. CASE nextSlot = current[t] /\ t \notin Bulk
      <3>1. Past' = Past
        BY <1>5, <2>3 DEF ReserveSlot, Past
      <3> QED BY <1>5, <2>3, <3>1 DEF ReserveSlot, Overtake
    <2> QED BY <2>1, <2>2, <2>3
  <1>6. ASSUME NEW t \in Threads, Dispatch(t) PROVE WindowInv'
    <2>1. Past' = Past
      BY <1>6 DEF Dispatch, Past
    <2> QED BY <1>6, <2>1 DEF Dispatch
  <1>7. CASE Tick \/ UNCHANGED limiterVars
    <2>1. Past' = Past
      BY <1>7 DEF Tick, limiterVars, Past
    <2> QED BY <1>7, <2>1 DEF Tick, limiterVars
  <1> QED BY <1>1, <1>2, <1>3, <1>4, <1>5, <1>6, <1>7 DEF LimiterNext

(* For any number of threads in the two lanes: the slots handed out are an     *)
(* interval apart, and a realtime request is overtaken by each bulk thread at  *)
(* most once; realtimeWaiters is the number of realtime requests that wait.    *)
THEOREM LimiterCorrect == LimiterSpec => [](LimiterTypeOK /\ SlotsApart /\ OvertakenOnce)
  <1>1. LimiterInv /\ [LimiterNext]_limiterVars => LimiterInv'
    BY LimiterTypeStep, SlotsStep, WindowStep DEF LimiterInv
  <1>2. LimiterInv => LimiterTypeOK /\ SlotsApart /\ OvertakenOnce
    BY DEF LimiterInv, SlotsInv, WindowInv, OvertakenOnce
  <1> QED BY LimiterStarts, <1>1, <1>2, PTL DEF LimiterSpec

-----------------------------------------------------------------------------
(* NotificationConsumer *)

(* A busy consumer has an event; an owner is busy, has a copy of its event to  *)
(* acknowledge and is the only one; a record to be tried again has an owner.   *)
(* No more copies are unacknowledged than were published.                      *)
OwnerInv ==
  /\ \A c \in Consumers :
       /\ tx[c].phase # "idle" => tx[c].event \in Events
       /\ tx[c].owns => tx[c].phase # "idle" /\ topic[tx[c].event] > 0
       /\ tx[c].phase = "retry" => tx[c].owns
  /\ \A c, d \in Consumers : tx[c].owns /\ tx[d].owns /\ tx[c].event = tx[d].event => c = d
  /\ \A e \in Events : topic[e] <= published[e]

(* What a consumer believes of its event is true: a known one was sent, and so *)
(* was one whose notification it has just handed to the gateway.               *)
SentInv ==
  /\ \A e \in Events : history[e] > 0 => sends[e] > 0
  /\ \A c \in Consumers :
       /\ tx[c].phase = "open" /\ tx[c].known => history[tx[c].event] > 0
       /\ tx[c].phase = "sent" => sends[tx[c].event] > 0
  /\ NoOutcomeSwallowed

(* The consumers that are going to send the notification of an event.          *)
Senders(e) == {c \in Consumers : tx[c].phase = "open" /\ ~tx[c].known /\ tx[c].event = e}

(* Somebody owns the event and works on it, or it is in the history: either    *)
(* way nobody else starts to send it without a failure.                        *)
Guarded(e) ==
  \/ history[e] > 0
  \/ \E c \in Consumers : tx[c].owns /\ tx[c].event = e /\ tx[c].phase # "retry"

(* Why duplicates need failures: those sent and those about to be are one more *)
(* than there were failures, and the one more only while the event is guarded. *)
SentOrAbout(e) == sends[e] + Cardinality(Senders(e))

CountInv ==
  \A e \in Events :
    /\ SentOrAbout(e) <= 1 + faults
    /\ ~Guarded(e) => SentOrAbout(e) <= faults

OutcomeInv == TypeOK /\ OwnerInv /\ SentInv /\ CountInv

(* The records of a transaction.                                               *)
LEMMA TransactionFields ==
  /\ Idle \in Transaction /\ Idle.phase = "idle" /\ Idle.owns = FALSE /\ Idle.event = None
  /\ \A x \in Transaction :
       /\ x.phase \in {"idle", "open", "sent", "retry"} /\ x.event \in Events \cup {None}
       /\ x.tries \in 0 .. Retries /\ x.owns \in BOOLEAN /\ x.known \in BOOLEAN
  /\ \A x \in Transaction : [x EXCEPT !.phase = "sent"] \in Transaction
  /\ \A x \in Transaction : [x EXCEPT !.owns = FALSE] \in Transaction
  <1> USE NotificationAssumption DEF NotificationAssumption, Transaction
  <1>1. Idle \in Transaction /\ Idle.phase = "idle" /\ Idle.owns = FALSE /\ Idle.event = None
    BY DEF Idle
  <1>2. \A x \in Transaction :
          /\ x.phase \in {"idle", "open", "sent", "retry"} /\ x.event \in Events \cup {None}
          /\ x.tries \in 0 .. Retries /\ x.owns \in BOOLEAN /\ x.known \in BOOLEAN
    OBVIOUS
  <1>3. \A x \in Transaction : [x EXCEPT !.phase = "sent"] \in Transaction
    OBVIOUS
  <1>4. \A x \in Transaction : [x EXCEPT !.owns = FALSE] \in Transaction
    OBVIOUS
  <1> QED BY <1>1, <1>2, <1>3, <1>4

(* What the container hands out again after a rollback.                        *)
RetryRecord(c) == [Idle EXCEPT !.phase = "retry", !.event = tx[c].event,
                               !.tries = tx[c].tries + 1, !.owns = TRUE]

(* Its fields.                                                                 *)
LEMMA RetryRecordFields ==
  ASSUME NEW c \in Consumers, tx[c] \in Transaction, tx[c].tries < Retries
  PROVE /\ RetryRecord(c) \in Transaction
        /\ RetryRecord(c).phase = "retry" /\ RetryRecord(c).event = tx[c].event
        /\ RetryRecord(c).owns = TRUE
  <1> DEFINE a == [Idle EXCEPT !.phase = "retry"]
             b == [a EXCEPT !.event = tx[c].event]
             d == [b EXCEPT !.tries = tx[c].tries + 1]
  <1> USE TransactionFields, NotificationAssumption DEF NotificationAssumption
  <1>1. a \in Transaction /\ a.phase = "retry"
    BY DEF Transaction
  <1> HIDE DEF a
  <1>2. b \in Transaction /\ b.phase = "retry" /\ b.event = tx[c].event
    BY <1>1 DEF Transaction
  <1> HIDE DEF b
  <1>3. d \in Transaction /\ d.phase = "retry" /\ d.event = tx[c].event
    BY <1>2 DEF Transaction
  <1> HIDE DEF d
  <1>4. /\ [d EXCEPT !.owns = TRUE] \in Transaction /\ [d EXCEPT !.owns = TRUE].phase = "retry"
        /\ [d EXCEPT !.owns = TRUE].event = tx[c].event /\ [d EXCEPT !.owns = TRUE].owns = TRUE
    BY <1>3 DEF Transaction
  <1> QED BY <1>4 DEF RetryRecord, a, b, d

(* A rollback: the owner keeps the record for another try, anybody else drops  *)
(* it, and after the last try the owner acknowledges it as a dead letter.      *)
LEMMA RollBackCases ==
  ASSUME NEW c \in Consumers, TypeOK, RollBack(c), tx[c].phase # "idle", OwnerInv
  PROVE /\ UNCHANGED <<published, history, sends>>
        /\ \E x \in Transaction :
             /\ tx' = [tx EXCEPT ![c] = x]
             /\ \/ /\ tx[c].owns /\ x.owns /\ x.phase = "retry" /\ x.event = tx[c].event
                   /\ UNCHANGED <<topic, deadLetters>>
                \/ /\ ~tx[c].owns /\ x = Idle
                   /\ UNCHANGED topic /\ deadLetters \subseteq deadLetters'
                   /\ deadLetters' \subseteq deadLetters \cup {tx[c].event}
                \/ /\ tx[c].owns /\ x = Idle
                   /\ topic' = [topic EXCEPT ![tx[c].event] = @ - 1]
                   /\ deadLetters' = deadLetters \cup {tx[c].event}
  <1> USE TransactionFields, NotificationAssumption DEF NotificationAssumption, TypeOK, OwnerInv
  <1>1. UNCHANGED <<published, history, sends>>
    BY DEF RollBack
  <1>2. CASE tx[c].tries < Retries /\ tx[c].owns
    <2>1. tx' = [tx EXCEPT ![c] = RetryRecord(c)] /\ UNCHANGED <<topic, deadLetters>>
      BY <1>2 DEF RollBack, RetryRecord
    <2> QED BY <1>1, <1>2, <2>1, RetryRecordFields
  <1>3. CASE tx[c].tries < Retries /\ ~tx[c].owns
    BY <1>1, <1>3 DEF RollBack
  <1>4. CASE ~(tx[c].tries < Retries) /\ tx[c].owns
    BY <1>1, <1>4 DEF RollBack, Acknowledge
  <1>5. CASE ~(tx[c].tries < Retries) /\ ~tx[c].owns
    <2>1. tx' = [tx EXCEPT ![c] = Idle] /\ deadLetters' = deadLetters \cup {tx[c].event}
      BY <1>5 DEF RollBack, Acknowledge
    <2>2. topic' = topic
      BY <1>5 DEF RollBack, Acknowledge
    <2> QED BY <1>1, <1>5, <2>1, <2>2
  <1> QED BY <1>2, <1>3, <1>4, <1>5

(* Types and ownership.                                                        *)
LEMMA OwnerStep == TypeOK /\ OwnerInv /\ [Next]_vars => OwnerInv'
  <1> SUFFICES ASSUME TypeOK, OwnerInv, [Next]_vars PROVE OwnerInv'
    OBVIOUS
  <1> USE NotificationAssumption, TransactionFields DEF NotificationAssumption, TypeOK, OwnerInv
  <1>1. ASSUME NEW e \in Events, Publish(e) PROVE OwnerInv'
    BY <1>1 DEF Publish
  <1>2. ASSUME NEW c \in Consumers, NEW e \in Events, Receive(c, e) PROVE OwnerInv'
    BY <1>2 DEF Receive, Open, HeldBy
  <1>3. ASSUME NEW c \in Consumers, Redeliver(c) PROVE OwnerInv'
    BY <1>3 DEF Redeliver, Open
  <1>4. ASSUME NEW c \in Consumers, SkipDuplicate(c) PROVE OwnerInv'
    BY <1>4 DEF SkipDuplicate, Leave, Acknowledge, Fault
  <1>5. ASSUME NEW c \in Consumers, Send(c) PROVE OwnerInv'
    BY <1>5 DEF Send
  <1>6. ASSUME NEW c \in Consumers, Save(c) PROVE OwnerInv'
    BY <1>6 DEF Save, Leave, Acknowledge, Fault
  <1>7. ASSUME NEW c \in Consumers, SendFails(c) \/ DatabaseError(c) PROVE OwnerInv'
    <2>1. RollBack(c) /\ tx[c].phase # "idle"
      BY <1>7 DEF SendFails, DatabaseError
    <2>2. PICK x \in Transaction :
            /\ tx' = [tx EXCEPT ![c] = x]
            /\ \/ /\ tx[c].owns /\ x.owns /\ x.phase = "retry" /\ x.event = tx[c].event
                  /\ UNCHANGED topic
               \/ ~tx[c].owns /\ x = Idle /\ UNCHANGED topic
               \/ tx[c].owns /\ x = Idle /\ topic' = [topic EXCEPT ![tx[c].event] = @ - 1]
      BY <2>1, RollBackCases
    <2>3. UNCHANGED published
      BY <2>1, RollBackCases
    <2>4. \A d \in Consumers : tx'[d] = IF d = c THEN x ELSE tx[d]
      BY <2>2
    <2>5. tx[c].event \in Events /\ (tx[c].owns => topic[tx[c].event] > 0)
      BY <2>1
    <2>6. \A e \in Events : topic'[e] <= published'[e]
      BY <2>2, <2>3, <2>5
    <2>7. \A d \in Consumers \ {c} : tx[d].owns => topic'[tx[d].event] = topic[tx[d].event]
      BY <2>2, <2>5
    <2> QED BY <2>2, <2>3, <2>4, <2>5, <2>6, <2>7
  <1>8. ASSUME NEW c \in Consumers, Crash(c) PROVE OwnerInv'
    BY <1>8 DEF Crash, Fault
  <1>9. ASSUME NEW c \in Consumers, Rebalance(c) PROVE OwnerInv'
    BY <1>9 DEF Rebalance, Fault
  <1>10. CASE UNCHANGED vars
    BY <1>10 DEF vars
  <1> QED BY <1>1, <1>2, <1>3, <1>4, <1>5, <1>6, <1>7, <1>8, <1>9, <1>10 DEF Next, Consume

(* A consumer that opens a transaction keeps its type.                         *)
LEMMA OpenType ==
  ASSUME TypeOK, NEW c \in Consumers, NEW e \in Events, NEW n \in 0 .. Retries, Open(c, e, n)
  PROVE tx' \in [Consumers -> Transaction]
  <1> DEFINE x == [phase |-> "open", event |-> e, tries |-> n, owns |-> TRUE, known |-> history[e] > 0]
  <1>1. x \in Transaction
    BY DEF Transaction
  <1> HIDE DEF x
  <1>2. tx' = [tx EXCEPT ![c] = x]
    BY DEF Open, x
  <1> QED BY <1>1, <1>2 DEF TypeOK

(* Types: an owner has a copy to acknowledge, so the count of copies stays one.*)
LEMMA OutcomeTypeStep == TypeOK /\ OwnerInv /\ [Next]_vars => TypeOK'
  <1> SUFFICES ASSUME TypeOK, OwnerInv, [Next]_vars PROVE TypeOK'
    OBVIOUS
  <1> USE NotificationAssumption, TransactionFields DEF NotificationAssumption, TypeOK, OwnerInv
  <1>1. ASSUME NEW e \in Events, Publish(e) PROVE TypeOK'
    BY <1>1 DEF Publish
  <1>2. ASSUME NEW c \in Consumers, NEW e \in Events, Receive(c, e) PROVE TypeOK'
    <2>1. tx' \in [Consumers -> Transaction]
      BY <1>2, OpenType DEF Receive
    <2> QED BY <1>2, <2>1 DEF Receive
  <1>3. ASSUME NEW c \in Consumers, Redeliver(c) PROVE TypeOK'
    <2>1. tx' \in [Consumers -> Transaction]
      BY <1>3, OpenType DEF Redeliver
    <2> QED BY <1>3, <2>1 DEF Redeliver
  <1>4. ASSUME NEW c \in Consumers, SkipDuplicate(c) PROVE TypeOK'
    BY <1>4 DEF SkipDuplicate, Leave, Acknowledge, Fault
  <1>5. ASSUME NEW c \in Consumers, Send(c) PROVE TypeOK'
    BY <1>5 DEF Send
  <1>6. ASSUME NEW c \in Consumers, Save(c) PROVE TypeOK'
    BY <1>6 DEF Save, Leave, Acknowledge, Fault
  <1>7. ASSUME NEW c \in Consumers, SendFails(c) \/ DatabaseError(c) PROVE TypeOK'
    <2>1. RollBack(c) /\ tx[c].phase # "idle" /\ faults' \in 0 .. MaxFaults
      BY <1>7 DEF SendFails, DatabaseError, Fault
    <2>2. PICK x \in Transaction :
            /\ tx' = [tx EXCEPT ![c] = x]
            /\ \/ UNCHANGED topic
               \/ tx[c].owns /\ topic' = [topic EXCEPT ![tx[c].event] = @ - 1]
      BY <2>1, RollBackCases
    <2>3. UNCHANGED <<published, history, sends>> /\ deadLetters' \subseteq deadLetters \cup {tx[c].event}
      BY <2>1, RollBackCases
    <2> QED BY <2>1, <2>2, <2>3 DEF OwnerInv
  <1>8. ASSUME NEW c \in Consumers, Crash(c) PROVE TypeOK'
    BY <1>8 DEF Crash, Fault
  <1>9. ASSUME NEW c \in Consumers, Rebalance(c) PROVE TypeOK'
    BY <1>9 DEF Rebalance, Fault
  <1>10. CASE UNCHANGED vars
    BY <1>10 DEF vars
  <1> QED BY <1>1, <1>2, <1>3, <1>4, <1>5, <1>6, <1>7, <1>8, <1>9, <1>10 DEF Next, Consume

(* Nothing is acknowledged that was not sent and is no dead letter.            *)
LEMMA SentStep == TypeOK /\ OwnerInv /\ SentInv /\ [Next]_vars => SentInv'
  <1> SUFFICES ASSUME TypeOK, OwnerInv, SentInv, [Next]_vars PROVE SentInv'
    OBVIOUS
  <1> USE NotificationAssumption, TransactionFields
      DEF NotificationAssumption, TypeOK, OwnerInv, SentInv, NoOutcomeSwallowed
  <1>1. ASSUME NEW e \in Events, Publish(e) PROVE SentInv'
    BY <1>1 DEF Publish
  <1>2. ASSUME NEW c \in Consumers, NEW e \in Events, Receive(c, e) PROVE SentInv'
    BY <1>2 DEF Receive, Open, HeldBy
  <1>3. ASSUME NEW c \in Consumers, Redeliver(c) PROVE SentInv'
    BY <1>3 DEF Redeliver, Open
  <1>4. ASSUME NEW c \in Consumers, SkipDuplicate(c) PROVE SentInv'
    BY <1>4 DEF SkipDuplicate, Leave, Acknowledge, Fault
  <1>5. ASSUME NEW c \in Consumers, Send(c) PROVE SentInv'
    BY <1>5 DEF Send
  <1>6. ASSUME NEW c \in Consumers, Save(c) PROVE SentInv'
    BY <1>6 DEF Save, Leave, Acknowledge, Fault
  <1>7. ASSUME NEW c \in Consumers, SendFails(c) \/ DatabaseError(c) PROVE SentInv'
    <2>1. RollBack(c) /\ tx[c].phase # "idle"
      BY <1>7 DEF SendFails, DatabaseError
    <2>2. PICK x \in Transaction :
            /\ tx' = [tx EXCEPT ![c] = x]
            /\ x.phase = "retry" \/ x = Idle
            /\ deadLetters \subseteq deadLetters'
            /\ \/ UNCHANGED topic
               \/ /\ topic' = [topic EXCEPT ![tx[c].event] = @ - 1]
                  /\ tx[c].event \in deadLetters'
      BY <2>1, RollBackCases
    <2>3. UNCHANGED <<published, history, sends>> /\ tx[c].event \in Events
      BY <2>1, RollBackCases
    <2> QED BY <2>1, <2>2, <2>3
  <1>8. ASSUME NEW c \in Consumers, Crash(c) PROVE SentInv'
    BY <1>8 DEF Crash, Fault
  <1>9. ASSUME NEW c \in Consumers, Rebalance(c) PROVE SentInv'
    BY <1>9 DEF Rebalance, Fault
  <1>10. CASE UNCHANGED vars
    BY <1>10 DEF vars
  <1> QED BY <1>1, <1>2, <1>3, <1>4, <1>5, <1>6, <1>7, <1>8, <1>9, <1>10 DEF Next, Consume

(* Whether a transaction is going to send the notification of an event.        *)
SendsOf(x, e) == IF x.phase = "open" /\ ~x.known /\ x.event = e THEN 1 ELSE 0

(* The senders of an event are a finite set.                                   *)
LEMMA SendersFinite ==
  \A e \in Events : IsFiniteSet(Senders(e)) /\ Cardinality(Senders(e)) \in Nat
  <1>1. \A e \in Events : Senders(e) \in SUBSET Consumers
    BY DEF Senders
  <1>2. \A e \in Events : IsFiniteSet(Senders(e))
    BY <1>1, FS_Subset, NotificationAssumption DEF NotificationAssumption
  <1> QED BY <1>2, FS_CardinalityType

(* How the count of an event changes when one consumer moves.                  *)
LEMMA SendersStep ==
  ASSUME TypeOK, NEW c \in Consumers, NEW x, tx' = [tx EXCEPT ![c] = x], NEW e \in Events,
         sends' \in [Events -> Nat]
  PROVE /\ SentOrAbout(e) \in Nat /\ SentOrAbout(e)' \in Int
        /\ SentOrAbout(e)' - sends'[e] = SentOrAbout(e) - sends[e] + SendsOf(x, e) - SendsOf(tx[c], e)
  <1> DEFINE S == Senders(e)
             T == Senders(e)'
  <1>0. IsFiniteSet(S) /\ Cardinality(S) \in Nat
    BY SendersFinite
  <1>1. c \in S <=> SendsOf(tx[c], e) = 1
    BY DEF Senders, SendsOf
  <1>2. SendsOf(x, e) \in {0, 1} /\ SendsOf(tx[c], e) \in {0, 1}
    BY DEF SendsOf
  <1>3. Cardinality(T) = Cardinality(S) + SendsOf(x, e) - SendsOf(tx[c], e)
    <2>1. CASE SendsOf(x, e) = 1
      <3>1. T = S \cup {c}
        BY <2>1 DEF Senders, SendsOf, TypeOK
      <3> HIDE DEF S, T
      <3>2. Cardinality(T) = IF c \in S THEN Cardinality(S) ELSE Cardinality(S) + 1
        BY <1>0, <3>1, FS_AddElement
      <3> QED BY <1>0, <1>1, <1>2, <2>1, <3>2
    <2>2. CASE SendsOf(x, e) = 0
      <3>1. T = S \ {c}
        BY <2>2 DEF Senders, SendsOf, TypeOK
      <3> HIDE DEF S, T
      <3>2. Cardinality(T) = IF c \in S THEN Cardinality(S) - 1 ELSE Cardinality(S)
        BY <1>0, <3>1, FS_RemoveElement
      <3> QED BY <1>0, <1>1, <1>2, <2>2, <3>2
    <2> QED BY <1>2, <2>1, <2>2
  <1>4. SentOrAbout(e) = sends[e] + Cardinality(S) /\ SentOrAbout(e)' = sends'[e] + Cardinality(T)
    BY DEF SentOrAbout
  <1>5. sends[e] \in Nat /\ sends'[e] \in Nat
    BY DEF TypeOK
  <1> HIDE DEF S, T
  <1> QED BY <1>0, <1>2, <1>3, <1>4, <1>5

(* A failure that starts nothing keeps the count.                              *)
LEMMA CountPaid ==
  ASSUME TypeOK, CountInv, NEW c \in Consumers, NEW x, tx' = [tx EXCEPT ![c] = x],
         faults' = faults + 1, UNCHANGED sends,
         \A e \in Events : SendsOf(x, e) = 0 \/ SendsOf(x, e) = SendsOf(tx[c], e)
  PROVE CountInv'
  <1> SUFFICES ASSUME NEW e \in Events PROVE SentOrAbout(e)' <= faults'
    <2>1. \A e \in Events : SentOrAbout(e)' \in Int
      BY SendersStep DEF TypeOK
    <2> QED BY <2>1 DEF CountInv, TypeOK
  <1>1. SendsOf(tx[c], e) \in {0, 1} /\ SendsOf(x, e) \in {0, 1}
    BY DEF SendsOf
  <1>2. SentOrAbout(e) \in Nat /\ SentOrAbout(e)' \in Int
        /\ SentOrAbout(e)' - sends'[e] = SentOrAbout(e) - sends[e] + SendsOf(x, e) - SendsOf(tx[c], e)
    BY SendersStep DEF TypeOK
  <1>3. sends'[e] = sends[e] /\ sends[e] \in Nat /\ faults \in Nat
    BY DEF TypeOK
  <1>4. SentOrAbout(e) <= 1 + faults
    BY DEF CountInv
  <1> QED BY <1>1, <1>2, <1>3, <1>4

(* So does a step that starts nothing and leaves every event guarded that was. *)
LEMMA CountKept ==
  ASSUME TypeOK, CountInv, NEW c \in Consumers, NEW x, tx' = [tx EXCEPT ![c] = x],
         UNCHANGED faults, sends' \in [Events -> Nat],
         \A e \in Events : sends'[e] + SendsOf(x, e) <= sends[e] + SendsOf(tx[c], e),
         \A e \in Events : Guarded(e) => Guarded(e)'
  PROVE CountInv'
  <1> SUFFICES ASSUME NEW e \in Events PROVE SentOrAbout(e)' <= SentOrAbout(e)
    <2>1. \A e \in Events : SentOrAbout(e) \in Nat /\ SentOrAbout(e)' \in Int
      BY SendersStep
    <2> QED BY <2>1 DEF CountInv, TypeOK
  <1>1. SendsOf(tx[c], e) \in {0, 1} /\ SendsOf(x, e) \in {0, 1}
    BY DEF SendsOf
  <1>2. SentOrAbout(e) \in Nat /\ SentOrAbout(e)' \in Int
        /\ SentOrAbout(e)' - sends'[e] = SentOrAbout(e) - sends[e] + SendsOf(x, e) - SendsOf(tx[c], e)
    BY SendersStep
  <1>3. sends'[e] \in Nat /\ sends[e] \in Nat
    BY DEF TypeOK
  <1> QED BY <1>1, <1>2, <1>3

(* A consumer that opens an event as its owner guards it.                      *)
LEMMA CountOpened ==
  ASSUME TypeOK, CountInv, NEW c \in Consumers, NEW x \in Transaction, NEW d \in Events,
         tx' = [tx EXCEPT ![c] = x], UNCHANGED <<faults, sends, history>>,
         x.owns, x.phase = "open", x.event = d, x.known = (history[d] > 0),
         \A e \in Events : SendsOf(tx[c], e) = 0,
         \A b \in Consumers : tx[b].owns /\ tx[b].event = d => tx[b].phase = "retry",
         tx[c].owns => tx[c].event = d
  PROVE CountInv'
  <1> SUFFICES ASSUME NEW e \in Events
               PROVE SentOrAbout(e)' <= 1 + faults /\ (~Guarded(e)' => SentOrAbout(e)' <= faults)
    BY DEF CountInv
  <1>1. /\ SentOrAbout(e) \in Nat /\ SentOrAbout(e)' \in Int
        /\ SentOrAbout(e)' - sends'[e] = SentOrAbout(e) - sends[e] + SendsOf(x, e) - SendsOf(tx[c], e)
    BY SendersStep DEF TypeOK
  <1>2. sends'[e] = sends[e] /\ sends[e] \in Nat /\ faults \in Nat /\ SendsOf(tx[c], e) = 0
    BY DEF TypeOK
  <1>3. CASE e = d
    <2>1. Guarded(e)'
      BY <1>3 DEF Guarded, TypeOK
    <2>2. CASE history[e] > 0
      <3>1. SendsOf(x, e) = 0
        BY <1>3, <2>2 DEF SendsOf
      <3> QED BY <1>1, <1>2, <2>1, <3>1 DEF CountInv
    <2>3. CASE ~(history[e] > 0)
      <3>1. ~Guarded(e)
        BY <1>3, <2>3 DEF Guarded
      <3>2. SendsOf(x, e) \in {0, 1} /\ SentOrAbout(e) <= faults
        BY <3>1 DEF SendsOf, CountInv
      <3> QED BY <1>1, <1>2, <2>1, <3>2
    <2> QED BY <2>2, <2>3
  <1>4. CASE e # d
    <2>1. SendsOf(x, e) = 0
      BY <1>4 DEF SendsOf
    <2>2. Guarded(e) => Guarded(e)'
      BY <1>4 DEF Guarded, TypeOK
    <2> QED BY <1>1, <1>2, <2>1, <2>2 DEF CountInv
  <1> QED BY <1>3, <1>4

(* Every notification beyond the first is paid for with a failure.             *)
LEMMA CountStep == TypeOK /\ OwnerInv /\ SentInv /\ CountInv /\ [Next]_vars => CountInv'
  <1> SUFFICES ASSUME TypeOK, OwnerInv, SentInv, CountInv, [Next]_vars PROVE CountInv'
    OBVIOUS
  <1> USE TransactionFields
  <1>0. ASSUME UNCHANGED <<tx, history, sends, faults>> PROVE CountInv'
    BY <1>0 DEF CountInv, SentOrAbout, Senders, Guarded
  <1>i. \A e \in Events : SendsOf(Idle, e) = 0
    BY DEF SendsOf
  <1>p. ASSUME NEW c \in Consumers, tx' = [tx EXCEPT ![c] = Idle], faults' = faults + 1, UNCHANGED sends
        PROVE CountInv'
    <2>1. \A e \in Events : SendsOf(Idle, e) = 0 \/ SendsOf(Idle, e) = SendsOf(tx[c], e)
      BY <1>i
    <2> QED BY <1>p, <2>1, CountPaid
  <1>l. ASSUME NEW c \in Consumers, Leave(c), history' \in [Events -> Nat], UNCHANGED sends,
               history'[tx[c].event] > 0, \A e \in Events : history'[e] >= history[e],
               tx[c].event \in Events
        PROVE CountInv'
    <2>1. tx' = [tx EXCEPT ![c] = Idle] /\ (faults' = faults \/ faults' = faults + 1)
      BY <1>l DEF Leave, Acknowledge, Fault
    <2>2. \A e \in Events : Guarded(e) => Guarded(e)'
      BY <1>l, <2>1 DEF Guarded, TypeOK
    <2>3. sends' \in [Events -> Nat] /\ \A e \in Events : sends'[e] \in Nat
      BY <1>l DEF TypeOK
    <2>4. \A e \in Events : sends'[e] + SendsOf(Idle, e) <= sends[e] + SendsOf(tx[c], e)
      BY <1>l, <1>i, <2>3 DEF SendsOf
    <2>5. CASE faults' = faults
      BY <2>1, <2>2, <2>3, <2>4, <2>5, CountKept
    <2>6. CASE faults' = faults + 1
      BY <1>l, <1>p, <2>1, <2>6
    <2> QED BY <2>1, <2>5, <2>6
  <1>1. ASSUME NEW e \in Events, Publish(e) PROVE CountInv'
    BY <1>0, <1>1 DEF Publish
  <1>2. ASSUME NEW c \in Consumers, NEW e \in Events, Receive(c, e) PROVE CountInv'
    <2> DEFINE x == [phase |-> "open", event |-> e, tries |-> 0, owns |-> TRUE, known |-> history[e] > 0]
    <2>1. x \in Transaction
      BY NotificationAssumption DEF NotificationAssumption, Transaction
    <2>2. x.owns /\ x.phase = "open" /\ x.event = e /\ x.known = (history[e] > 0)
      OBVIOUS
    <2>3. tx' = [tx EXCEPT ![c] = x] /\ UNCHANGED <<faults, sends, history>>
      BY <1>2 DEF Receive, Open
    <2> HIDE DEF x
    <2>4. /\ \A b \in Consumers : ~(tx[b].owns /\ tx[b].event = e)
          /\ tx[c].phase = "idle" /\ ~tx[c].owns
      BY <1>2 DEF Receive, HeldBy, OwnerInv
    <2>5. \A d \in Events : SendsOf(tx[c], d) = 0
      BY <2>4 DEF SendsOf
    <2> QED BY <2>1, <2>2, <2>3, <2>4, <2>5, CountOpened
  <1>3. ASSUME NEW c \in Consumers, Redeliver(c) PROVE CountInv'
    <2> DEFINE e == tx[c].event
               x == [phase |-> "open", event |-> e, tries |-> tx[c].tries, owns |-> TRUE,
                     known |-> history[e] > 0]
    <2>0. e \in Events /\ tx[c] \in Transaction /\ tx[c].owns /\ tx[c].phase = "retry"
      BY <1>3 DEF Redeliver, OwnerInv, TypeOK
    <2>1. x \in Transaction
      BY <2>0 DEF Transaction
    <2>2. x.owns /\ x.phase = "open" /\ x.event = e /\ x.known = (history[e] > 0)
      OBVIOUS
    <2>3. tx' = [tx EXCEPT ![c] = x] /\ UNCHANGED <<faults, sends, history>>
      BY <1>3 DEF Redeliver, Open
    <2> HIDE DEF x
    <2>4. \A b \in Consumers : tx[b].owns /\ tx[b].event = e => b = c
      BY <2>0 DEF OwnerInv
    <2>5. \A d \in Events : SendsOf(tx[c], d) = 0
      BY <2>0 DEF SendsOf
    <2> QED BY <2>0, <2>1, <2>2, <2>3, <2>4, <2>5, CountOpened
  <1>4. ASSUME NEW c \in Consumers, SkipDuplicate(c) PROVE CountInv'
    BY <1>4, <1>l DEF SkipDuplicate, SentInv, OwnerInv, TypeOK
  <1>5. ASSUME NEW c \in Consumers, Send(c) PROVE CountInv'
    <2> DEFINE x == [tx[c] EXCEPT !.phase = "sent"]
    <2>0. /\ tx[c] \in Transaction /\ tx[c].phase = "open" /\ ~tx[c].known
          /\ tx[c].event \in Events
      BY <1>5 DEF Send, OwnerInv, TypeOK
    <2>1. x.phase = "sent" /\ x.event = tx[c].event /\ x.owns = tx[c].owns
      BY <2>0 DEF Transaction
    <2>2. /\ tx' = [tx EXCEPT ![c] = x] /\ UNCHANGED <<faults, history>>
          /\ sends' = [sends EXCEPT ![tx[c].event] = @ + 1]
      BY <1>5 DEF Send
    <2> HIDE DEF x
    <2>3. \A e \in Events : Guarded(e) => Guarded(e)'
      BY <2>0, <2>1, <2>2 DEF Guarded, TypeOK
    <2>4. sends' \in [Events -> Nat]
      BY <2>0, <2>2 DEF TypeOK
    <2>5. \A e \in Events : sends'[e] + SendsOf(x, e) <= sends[e] + SendsOf(tx[c], e)
      BY <2>0, <2>1, <2>2 DEF SendsOf, TypeOK
    <2> QED BY <2>2, <2>3, <2>4, <2>5, CountKept
  <1>6. ASSUME NEW c \in Consumers, Save(c) PROVE CountInv'
    <2>1. /\ tx[c].event \in Events /\ Leave(c) /\ UNCHANGED sends
          /\ history' = [history EXCEPT ![tx[c].event] = @ + 1]
      BY <1>6 DEF Save, OwnerInv
    <2> QED BY <2>1, <1>l DEF TypeOK
  <1>7. ASSUME NEW c \in Consumers, SendFails(c) \/ DatabaseError(c) PROVE CountInv'
    <2>1. RollBack(c) /\ tx[c].phase # "idle" /\ faults' = faults + 1
      BY <1>7 DEF SendFails, DatabaseError, Fault
    <2>2. PICK x \in Transaction :
            /\ tx' = [tx EXCEPT ![c] = x]
            /\ x.phase = "retry" \/ x = Idle
      BY <2>1, RollBackCases
    <2>3. UNCHANGED sends
      BY <2>1, RollBackCases
    <2>4. \A e \in Events : SendsOf(x, e) = 0 \/ SendsOf(x, e) = SendsOf(tx[c], e)
      BY <2>2 DEF SendsOf
    <2> QED BY <2>1, <2>2, <2>3, <2>4, CountPaid
  <1>8. ASSUME NEW c \in Consumers, Crash(c) PROVE CountInv'
    <2>1. tx' = [tx EXCEPT ![c] = Idle] /\ faults' = faults + 1 /\ UNCHANGED sends
      BY <1>8 DEF Crash, Fault
    <2> QED BY <1>p, <2>1
  <1>9. ASSUME NEW c \in Consumers, Rebalance(c) PROVE CountInv'
    <2>1. PICK x : /\ tx' = [tx EXCEPT ![c] = x]
                   /\ x = Idle \/ x = [tx[c] EXCEPT !.owns = FALSE]
      BY <1>9 DEF Rebalance
    <2>2. tx[c] \in Transaction
      BY DEF TypeOK
    <2>3. x = Idle \/ (x.phase = tx[c].phase /\ x.known = tx[c].known /\ x.event = tx[c].event)
      BY <2>1, <2>2 DEF Transaction
    <2>4. \A e \in Events : SendsOf(x, e) = 0 \/ SendsOf(x, e) = SendsOf(tx[c], e)
      BY <1>i, <2>3 DEF SendsOf
    <2>5. faults' = faults + 1 /\ UNCHANGED sends
      BY <1>9 DEF Rebalance, Fault
    <2> QED BY <2>1, <2>4, <2>5, CountPaid
  <1>10. CASE UNCHANGED vars
    BY <1>0, <1>10 DEF vars
  <1> QED BY <1>1, <1>2, <1>3, <1>4, <1>5, <1>6, <1>7, <1>8, <1>9, <1>10 DEF Next, Consume

(* At the start nothing is published.                                          *)
LEMMA OutcomeStarts == Init => OutcomeInv
  <1> SUFFICES ASSUME Init PROVE OutcomeInv
    OBVIOUS
  <1> USE NotificationAssumption, TransactionFields DEF NotificationAssumption, Init
  <1>1. TypeOK
    BY DEF TypeOK
  <1>2. OwnerInv
    BY DEF OwnerInv
  <1>3. SentInv
    BY DEF SentInv, NoOutcomeSwallowed
  <1>4. \A e \in Events : Senders(e) = {}
    BY DEF Senders
  <1>5. CountInv
    BY <1>4, FS_EmptySet DEF CountInv, SentOrAbout
  <1> QED BY <1>1, <1>2, <1>3, <1>5 DEF OutcomeInv

(* However many consumers, copies and failures of whatever kind in whatever    *)
(* order: no outcome is acknowledged unsent except as a dead letter, and every *)
(* notification sent again is paid for with a failure.                         *)
THEOREM OutcomesCorrect == Spec => [](TypeOK /\ NoOutcomeSwallowed /\ DuplicatesNeedFailures)
  <1>1. OutcomeInv /\ [Next]_vars => OutcomeInv'
    BY OwnerStep, OutcomeTypeStep, SentStep, CountStep DEF OutcomeInv
  <1>2. OutcomeInv => TypeOK /\ NoOutcomeSwallowed /\ DuplicatesNeedFailures
    <2> SUFFICES ASSUME OutcomeInv, NEW e \in Events PROVE sends[e] <= 1 + faults
      BY DEF OutcomeInv, SentInv, DuplicatesNeedFailures
    <2>1. sends[e] + Cardinality(Senders(e)) <= 1 + faults
      BY DEF OutcomeInv, CountInv, SentOrAbout
    <2> QED BY <2>1, SendersFinite DEF OutcomeInv, TypeOK
  <1> QED BY OutcomeStarts, <1>1, <1>2, PTL DEF Spec

(* The two parts side by side, as they are model-checked: realtimeWaiters is   *)
(* exact and no record is tried more often than the error handler allows.      *)
THEOREM NotificationTypes == PartsFairSpec => []NotificationTypeOK
  <1>1. PartsInit => LimiterInit /\ Init
    BY DEF PartsInit
  <1>2. [PartsNext]_<<part, limiterVars, vars>> => [LimiterNext]_limiterVars /\ [Next]_vars
    BY DEF PartsNext
  <1>3. PartsFairSpec => LimiterSpec /\ Spec
    BY <1>1, <1>2, PTL DEF PartsFairSpec, LimiterSpec, Spec
  <1> QED BY <1>3, LimiterCorrect, OutcomesCorrect, PTL DEF NotificationTypeOK
=============================================================================
