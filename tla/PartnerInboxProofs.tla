------------------------- MODULE PartnerInboxProofs -------------------------
(* The inbox mode: type correctness, then its delivery guarantees - what the   *)
(* service records and what the partner has applied - and the refinement of    *)
(* PartnerDelivery; then what the inbox keeps (no acknowledged record is lost, *)
(* no delivered event is stranded, claims are ended only by their owners) and  *)
(* what it limits (the rows it holds, the calls of a seller that run under     *)
(* permits), for every number of instances, partitions and orders and any      *)
(* number of faults. One lemma per action; the lemmas on records and helpers   *)
(* before them are shared by several actions.                                  *)
EXTENDS PartnerInbox, FiniteSetTheorems, TLAPS

(* What the assumptions say of each constant.                                  *)
LEMMA ConstantTypes ==
  /\ SellerOf \in [Orders -> Sellers] /\ OrderOf \in [Events -> Orders]
  /\ SeqOf \in [Events -> Nat \ {0}]
  /\ Permits \in Nat \ {0} /\ RetryWindow \in Nat \ {0}
  /\ LeaseTicks \in Nat /\ MaxBackoff \in Nat /\ MaxFaults \in Nat
  /\ None \notin Instances /\ None \notin Events
  /\ Log \in [Partitions -> Seq(Events)]
  BY EventsAssumption, InboxAssumption DEF EventsAssumption, InboxAssumption

(* Every event has an order and, through it, a seller.                         *)
LEMMA EventSellerType == \A e \in Events : EventSeller(e) \in Sellers /\ OrderOf[e] \in Orders
  BY ConstantTypes DEF EventSeller

(* The records that stand for "nothing there" have their types.                *)
LEMMA NullRecordTypes ==
  /\ NoRow \in Row /\ NewRow \in Row /\ FreePermit \in Permit /\ NoRun \in Run /\ NoBatch \in Batch
  <1> USE ConstantTypes DEF Leases, Expired
  <1>1. NoRow \in Row
    BY DEF Row, NoRow
  <1>2. NewRow \in Row
    <2>1. NewRow = [state |-> "PENDING", owner |-> None, gen |-> 0, lease |-> Expired, wait |-> 0]
      BY DEF NoRow, NewRow
    <2> QED BY <2>1 DEF Row
  <1>3. FreePermit \in Permit
    BY DEF Permit, FreePermit
  <1>4. NoRun \in Run
    BY DEF Run, NoRun, Phases, Slots
  <1>5. NoBatch \in Batch
    BY DEF Batch, NoBatch, IngestPhases
  <1> QED BY <1>1, <1>2, <1>3, <1>4, <1>5

(* A fresh lease, a lapsed one and a lease one tick later are leases.          *)
LEMMA LeaseTypes ==
  LeaseTicks \in Leases /\ Expired \in Leases /\ \A l \in Leases : Less(l) \in Leases
  BY ConstantTypes DEF Leases, Expired, Less

(* The fields of a typed record.                                               *)
LEMMA FieldTypes ==
  /\ \A r \in Row : r.gen \in Nat /\ r.lease \in Leases /\ r.wait \in 0 .. MaxBackoff
  /\ \A r \in Permit : r.lease \in Leases
  /\ \A r \in Run : r.gen \in Nat /\ r.slot \in Slots
  BY DEF Row, Permit, Run

(* Renewing a lease leaves an inbox row a row.                                 *)
LEMMA RowFieldUpdate ==
  /\ \A r \in Row, x \in {"ABSENT", "PENDING", "CLAIMED", "DONE"} : [r EXCEPT !.state = x] \in Row
  /\ \A r \in Row, o \in Instances \cup {None} : [r EXCEPT !.owner = o] \in Row
  /\ \A r \in Row, l \in Leases : [r EXCEPT !.lease = l] \in Row
  /\ \A r \in Row, w \in 0 .. MaxBackoff : [r EXCEPT !.wait = w] \in Row
  <1>1. \A r \in Row, x \in {"ABSENT", "PENDING", "CLAIMED", "DONE"} : [r EXCEPT !.state = x] \in Row
    BY DEF Row
  <1>2. \A r \in Row, o \in Instances \cup {None} : [r EXCEPT !.owner = o] \in Row
    BY DEF Row
  <1>3. \A r \in Row, l \in Leases : [r EXCEPT !.lease = l] \in Row
    BY DEF Row
  <1>4. \A r \in Row, w \in 0 .. MaxBackoff : [r EXCEPT !.wait = w] \in Row
    BY DEF Row
  <1> QED BY <1>1, <1>2, <1>3, <1>4

(* complete leaves an inbox row a row.                                         *)
LEMMA RowClosed ==
  ASSUME NEW r \in Row
  PROVE [r EXCEPT !.state = "DONE", !.owner = None, !.lease = Expired] \in Row
  <1> DEFINE r1 == [r EXCEPT !.state = "DONE"]
             r2 == [r1 EXCEPT !.owner = None]
  <1>1. r1 \in Row
    BY RowFieldUpdate
  <1> HIDE DEF r1
  <1>2. r2 \in Row
    BY <1>1, RowFieldUpdate
  <1> HIDE DEF r2
  <1>3. [r2 EXCEPT !.lease = Expired] \in Row
    BY <1>2, RowFieldUpdate, LeaseTypes
  <1> QED BY <1>3 DEF r1, r2

(* giveBack leaves an inbox row a row.                                         *)
LEMMA RowGivenBack ==
  ASSUME NEW r \in Row, NEW w \in 0 .. MaxBackoff
  PROVE [r EXCEPT !.state = "PENDING", !.owner = None, !.lease = Expired, !.wait = w] \in Row
  <1> DEFINE r1 == [r EXCEPT !.state = "PENDING"]
             r2 == [r1 EXCEPT !.owner = None]
             r3 == [r2 EXCEPT !.lease = Expired]
  <1>1. r1 \in Row
    BY RowFieldUpdate
  <1> HIDE DEF r1
  <1>2. r2 \in Row
    BY <1>1, RowFieldUpdate
  <1> HIDE DEF r2
  <1>3. r3 \in Row
    BY <1>2, RowFieldUpdate, LeaseTypes
  <1> HIDE DEF r3
  <1>4. [r3 EXCEPT !.wait = w] \in Row
    BY <1>3, RowFieldUpdate
  <1> QED BY <1>4 DEF r1, r2, r3

(* The passing of time leaves an inbox row a row.                              *)
LEMMA RowAged ==
  ASSUME NEW r \in Row, NEW l \in Leases, NEW w \in 0 .. MaxBackoff
  PROVE [r EXCEPT !.lease = l, !.wait = w] \in Row
  <1> DEFINE r1 == [r EXCEPT !.lease = l]
  <1>1. r1 \in Row
    BY RowFieldUpdate
  <1> HIDE DEF r1
  <1>2. [r1 EXCEPT !.wait = w] \in Row
    BY <1>1, RowFieldUpdate
  <1> QED BY <1>2 DEF r1

(* Renewing or aging a permit leaves it a permit.                              *)
LEMMA PermitFieldUpdate == \A r \in Permit, l \in Leases : [r EXCEPT !.lease = l] \in Permit
  BY DEF Permit

(* A worker that changes phase or is no longer tracked keeps its type.         *)
LEMMA RunFieldUpdate ==
  /\ \A r \in Run, ph \in Phases : [r EXCEPT !.phase = ph] \in Run
  /\ \A r \in Run : [r EXCEPT !.tracked = FALSE] \in Run
  <1>1. \A r \in Run, ph \in Phases : [r EXCEPT !.phase = ph] \in Run
    BY DEF Run
  <1>2. \A r \in Run : [r EXCEPT !.tracked = FALSE] \in Run
    BY DEF Run
  <1> QED BY <1>1, <1>2

(* The reads of storeAll keep the type of the listener's state.                *)
LEMMA BatchUpdate ==
  ASSUME NEW r \in Batch, NEW ph \in IngestPhases, NEW known \in SUBSET Events
  PROVE [r EXCEPT !.phase = ph, !.known = known] \in Batch
  <1> DEFINE r1 == [r EXCEPT !.phase = ph]
  <1>1. r1 \in Batch
    BY DEF Batch
  <1> HIDE DEF r1
  <1>2. [r1 EXCEPT !.known = known] \in Batch
    BY <1>1 DEF Batch
  <1> QED BY <1>2 DEF r1

(* release(claim) keeps the type of the permit table.                          *)
LEMMA ReleaseType ==
  ASSUME DatabaseType, MemoryType, NEW i \in Instances, NEW e \in Events
  PROVE Release(i, e) \in [Sellers -> [Slots -> Permit]]
  BY EventSellerType, NullRecordTypes DEF DatabaseType, MemoryType, Release

(* A worker that goes to a phase keeps the type of run.                        *)
LEMMA GoToType ==
  ASSUME MemoryType, NEW i \in Instances, NEW e \in Events, NEW ph \in Phases, GoTo(i, e, ph)
  PROVE run' \in [Instances -> [Events -> Run]]
  BY RunFieldUpdate DEF MemoryType, GoTo

(* A worker that ends keeps the type of run.                                   *)
LEMMA FinishType ==
  ASSUME MemoryType, NEW i \in Instances, NEW e \in Events, Finish(i, e)
  PROVE run' \in [Instances -> [Events -> Run]]
  BY NullRecordTypes DEF MemoryType, Finish

(* What Finish and GoTo do to the phases of all workers.                       *)
LEMMA RunPhase ==
  ASSUME TypeOK, NEW i \in Instances, NEW e \in Events
  PROVE /\ Finish(i, e) =>
             \A j \in Instances, d \in Events :
               run'[j][d].phase = IF j = i /\ d = e THEN "idle" ELSE run[j][d].phase
        /\ \A ph \in Phases : GoTo(i, e, ph) =>
             \A j \in Instances, d \in Events :
               run'[j][d].phase = IF j = i /\ d = e THEN ph ELSE run[j][d].phase
  <1>1. run \in [Instances -> [Events -> Run]]
    BY DEF TypeOK, MemoryType
  <1>2. ASSUME Finish(i, e), NEW j \in Instances, NEW d \in Events
        PROVE run'[j][d].phase = IF j = i /\ d = e THEN "idle" ELSE run[j][d].phase
    BY <1>1, <1>2 DEF Finish, NoRun
  <1>3. ASSUME NEW ph \in Phases, GoTo(i, e, ph), NEW j \in Instances, NEW d \in Events
        PROVE run'[j][d].phase = IF j = i /\ d = e THEN ph ELSE run[j][d].phase
    BY <1>1, <1>3 DEF GoTo, Run
  <1> QED BY <1>2, <1>3

(* Remembering a finished event keeps the type of finished, and adds only it.   *)
LEMMA MarkFinishedType ==
  ASSUME TypeOK, NEW i \in Instances, NEW e \in Events, MarkFinished(i, e)
  PROVE /\ finished' \in [Instances -> SUBSET Events]
        /\ \A j \in Instances : finished'[j] \subseteq finished[j] \cup {e}
  <1>1. finished \in [Instances -> SUBSET Events]
    BY DEF TypeOK, MemoryType
  <1>2. \E f \in SUBSET (finished[i] \cup {e}) : finished' = [finished EXCEPT ![i] = f]
    BY DEF MarkFinished
  <1> QED BY <1>1, <1>2

(* complete(claim) keeps the types of the tables it writes.                    *)
LEMMA CompleteType ==
  ASSUME DatabaseType, MemoryType, NEW i \in Instances, NEW e \in Events, Complete(i, e)
  PROVE inbox' \in [Events -> Row] /\ permit' \in [Sellers -> [Slots -> Permit]]
  <1>1. inbox' \in [Events -> Row]
    BY RowClosed DEF DatabaseType, Complete
  <1>2. permit' \in [Sellers -> [Slots -> Permit]]
    BY ReleaseType DEF Complete
  <1> QED BY <1>1, <1>2

(* A step that changes nothing keeps every type.                               *)
LEMMA UnchangedType ==
  /\ DatabaseType /\ UNCHANGED dbVars => DatabaseType'
  /\ KafkaType /\ UNCHANGED kafkaVars => KafkaType'
  /\ MemoryType /\ UNCHANGED memoryVars => MemoryType'
  /\ PartnerType /\ UNCHANGED partnerVars => PartnerType'
  BY DEF DatabaseType, dbVars, KafkaType, kafkaVars, MemoryType, memoryVars, PartnerType, partnerVars

(* A fault keeps the count within its bound.                                   *)
LEMMA FaultType ==
  ASSUME faults \in 0 .. MaxFaults, NEW kind, Fault(kind) \/ UNCHANGED faults
  PROVE faults' \in 0 .. MaxFaults
  BY ConstantTypes DEF Fault

(* Poll keeps TypeOK.                                                          *)
LEMMA PollType ==
  ASSUME TypeOK, NEW i \in Instances, NEW p \in Partitions, Poll(i, p)
  PROVE TypeOK'
  <1>1. KafkaType'
    BY ConstantTypes DEF TypeOK, KafkaType, Poll, Batch, IngestPhases
  <1> QED BY <1>1, UnchangedType, FaultType DEF TypeOK, Poll

(* ReadInbox keeps TypeOK.                                                     *)
LEMMA ReadInboxType ==
  ASSUME TypeOK, NEW i \in Instances, ReadInbox(i)
  PROVE TypeOK'
  <1> DEFINE known == {e \in ingest[i].batch : Stored(e)}
  <1>1. ingest[i] \in Batch /\ known \in SUBSET Events
    BY DEF TypeOK, KafkaType, Batch
  <1>2. [ingest[i] EXCEPT !.phase = "inboxRead", !.known = known] \in Batch
    BY <1>1, BatchUpdate DEF IngestPhases
  <1>3. ingest' = [ingest EXCEPT ![i] = [ingest[i] EXCEPT !.phase = "inboxRead", !.known = known]]
    BY DEF TypeOK, KafkaType, ReadInbox
  <1>4. UNCHANGED <<assigned, committed>>
    BY DEF ReadInbox
  <1> HIDE DEF known
  <1>5. KafkaType'
    BY <1>2, <1>3, <1>4 DEF TypeOK, KafkaType
  <1> QED BY <1>5, UnchangedType, FaultType DEF TypeOK, ReadInbox

(* ReadEffect keeps TypeOK.                                                    *)
LEMMA ReadEffectType ==
  ASSUME TypeOK, NEW i \in Instances, ReadEffect(i)
  PROVE TypeOK'
  <1> DEFINE known == ingest[i].known \cup (ingest[i].batch \cap effect)
  <1>1. ingest[i] \in Batch /\ known \in SUBSET Events
    BY DEF TypeOK, KafkaType, Batch
  <1>2. [ingest[i] EXCEPT !.phase = "effectRead", !.known = known] \in Batch
    BY <1>1, BatchUpdate DEF IngestPhases
  <1>3. ingest' = [ingest EXCEPT ![i] = [ingest[i] EXCEPT !.phase = "effectRead", !.known = known]]
    BY DEF TypeOK, KafkaType, ReadEffect
  <1>4. UNCHANGED <<assigned, committed>>
    BY DEF ReadEffect
  <1> HIDE DEF known
  <1>5. KafkaType'
    BY <1>2, <1>3, <1>4 DEF TypeOK, KafkaType
  <1> QED BY <1>5, UnchangedType, FaultType DEF TypeOK, ReadEffect

(* StoreAll keeps TypeOK.                                                      *)
LEMMA StoreAllType ==
  ASSUME TypeOK, NEW i \in Instances, StoreAll(i)
  PROVE TypeOK'
  <1>1. DatabaseType'
    BY NullRecordTypes DEF TypeOK, DatabaseType, StoreAll
  <1>2. KafkaType'
    BY DEF TypeOK, KafkaType, StoreAll, Batch, IngestPhases
  <1> QED BY <1>1, <1>2, UnchangedType, FaultType DEF TypeOK, StoreAll

(* CheckCapacity keeps TypeOK.                                                 *)
LEMMA CheckCapacityType ==
  ASSUME TypeOK, NEW i \in Instances, CheckCapacity(i)
  PROVE TypeOK'
  <1>1. KafkaType'
    BY DEF TypeOK, KafkaType, CheckCapacity, Batch, IngestPhases
  <1> QED BY <1>1, UnchangedType, FaultType DEF TypeOK, CheckCapacity

(* InboxFull keeps TypeOK.                                                     *)
LEMMA InboxFullType ==
  ASSUME TypeOK, NEW i \in Instances, InboxFull(i)
  PROVE TypeOK'
  <1>1. KafkaType'
    BY NullRecordTypes DEF TypeOK, KafkaType, InboxFull
  <1> QED BY <1>1, UnchangedType, FaultType DEF TypeOK, InboxFull

(* IngestError keeps TypeOK.                                                   *)
LEMMA IngestErrorType ==
  ASSUME TypeOK, NEW i \in Instances, IngestError(i)
  PROVE TypeOK'
  <1>1. KafkaType'
    BY NullRecordTypes DEF TypeOK, KafkaType, IngestError
  <1> QED BY <1>1, UnchangedType, FaultType DEF TypeOK, IngestError

(* Acknowledge keeps TypeOK.                                                   *)
LEMMA AcknowledgeType ==
  ASSUME TypeOK, NEW i \in Instances, Acknowledge(i)
  PROVE TypeOK'
  <1>1. KafkaType'
    BY NullRecordTypes DEF TypeOK, KafkaType, Acknowledge, Batch, IngestPhases
  <1> QED BY <1>1, UnchangedType, FaultType DEF TypeOK, Acknowledge

(* Rebalance keeps TypeOK.                                                     *)
LEMMA RebalanceType ==
  ASSUME TypeOK, NEW p \in Partitions, NEW i \in Instances, Rebalance(p, i)
  PROVE TypeOK'
  <1>1. KafkaType'
    BY DEF TypeOK, KafkaType, Rebalance
  <1> QED BY <1>1, UnchangedType, FaultType DEF TypeOK, Rebalance

(* FindReady keeps TypeOK.                                                     *)
LEMMA FindReadyType ==
  ASSUME TypeOK, NEW i \in Instances, FindReady(i)
  PROVE TypeOK'
  <1>1. MemoryType'
    BY DEF TypeOK, MemoryType, FindReady
  <1> QED BY <1>1, UnchangedType, FaultType DEF TypeOK, FindReady

(* SkipCandidate keeps TypeOK.                                                 *)
LEMMA SkipCandidateType ==
  ASSUME TypeOK, NEW i \in Instances, NEW e \in Events, SkipCandidate(i, e)
  PROVE TypeOK'
  <1>1. MemoryType'
    BY DEF TypeOK, MemoryType, SkipCandidate, NextCandidate
  <1> QED BY <1>1, UnchangedType, FaultType DEF TypeOK, SkipCandidate

(* ClaimRefused keeps TypeOK.                                                  *)
LEMMA ClaimRefusedType ==
  ASSUME TypeOK, NEW i \in Instances, NEW e \in Events, ClaimRefused(i, e)
  PROVE TypeOK'
  <1>1. DatabaseType'
    BY EventSellerType DEF TypeOK, DatabaseType, ClaimRefused, PermitRows
  <1>2. MemoryType'
    BY EventSellerType DEF TypeOK, MemoryType, ClaimRefused, NextCandidate
  <1> QED BY <1>1, <1>2, UnchangedType, FaultType DEF TypeOK, ClaimRefused

(* ClaimRow keeps TypeOK.                                                      *)
LEMMA ClaimRowType ==
  ASSUME TypeOK, NEW i \in Instances, NEW e \in Events, ClaimRow(i, e)
  PROVE TypeOK'
  <1>1. inbox[e].gen + 1 \in Nat
    BY FieldTypes DEF TypeOK, DatabaseType
  <1>2. inbox' \in [Events -> Row]
    BY <1>1, ConstantTypes, LeaseTypes DEF TypeOK, DatabaseType, ClaimRow, Row
  <1>3. permit' \in [Sellers -> [Slots -> Permit]]
    BY <1>1, EventSellerType, LeaseTypes DEF TypeOK, DatabaseType, ClaimRow, FreeSlots, Permit
  <1>4. admission' \in SUBSET [event : Events, gen : Nat, age : 0 .. RetryWindow - 1]
    BY <1>1, ConstantTypes DEF TypeOK, DatabaseType, ClaimRow
  <1>5. DatabaseType'
    BY <1>2, <1>3, <1>4, EventSellerType DEF TypeOK, DatabaseType, ClaimRow, PermitRows
  <1>6. run' \in [Instances -> [Events -> Run]]
    BY <1>1 DEF TypeOK, MemoryType, ClaimRow, FreeSlots, Run, Phases
  <1>7. MemoryType'
    BY <1>6, EventSellerType DEF TypeOK, MemoryType, ClaimRow, NextCandidate
  <1> QED BY <1>1, <1>2, <1>3, <1>4, <1>5, <1>6, <1>7, UnchangedType, FaultType DEF TypeOK, ClaimRow

(* ClaimError keeps TypeOK.                                                    *)
LEMMA ClaimErrorType ==
  ASSUME TypeOK, NEW i \in Instances, NEW e \in Events, ClaimError(i, e)
  PROVE TypeOK'
  <1>1. MemoryType'
    BY EventSellerType DEF TypeOK, MemoryType, ClaimError, NextCandidate
  <1> QED BY <1>1, UnchangedType, FaultType DEF TypeOK, ClaimError

(* RenewRow keeps TypeOK.                                                      *)
LEMMA RenewRowType ==
  ASSUME TypeOK, NEW i \in Instances, NEW e \in Events, RenewRow(i, e)
  PROVE TypeOK'
  <1>1. inbox' \in [Events -> Row]
    <2>1. inbox[e] \in Row /\ [inbox[e] EXCEPT !.lease = LeaseTicks] \in Row
      BY RowFieldUpdate, LeaseTypes DEF TypeOK, DatabaseType
    <2>2. inbox' = inbox \/ inbox' = [inbox EXCEPT ![e] = [inbox[e] EXCEPT !.lease = LeaseTicks]]
      BY DEF RenewRow
    <2> QED BY <2>1, <2>2 DEF TypeOK, DatabaseType
  <1>2. DatabaseType'
    BY <1>1 DEF TypeOK, DatabaseType, RenewRow
  <1>3. run' \in [Instances -> [Events -> Run]]
    <2>1. run[i] \in [Events -> Run] /\ [run[i][e] EXCEPT !.tracked = FALSE] \in Run
      BY RunFieldUpdate DEF TypeOK, MemoryType
    <2>2. run' = run \/ run' = [run EXCEPT ![i][e] = [run[i][e] EXCEPT !.tracked = FALSE]]
      BY DEF RenewRow
    <2>3. [run[i] EXCEPT ![e] = [run[i][e] EXCEPT !.tracked = FALSE]] \in [Events -> Run]
      BY <2>1
    <2> QED BY <2>2, <2>3 DEF TypeOK, MemoryType
  <1>4. keeper' \in [Instances -> Claim \cup {None}]
    BY FieldTypes DEF TypeOK, MemoryType, RenewRow, Claim
  <1>5. MemoryType'
    BY <1>3, <1>4 DEF TypeOK, MemoryType, RenewRow
  <1> QED BY <1>1, <1>2, <1>3, <1>4, <1>5, UnchangedType, FaultType DEF TypeOK, RenewRow

(* RenewPermit keeps TypeOK.                                                   *)
LEMMA RenewPermitType ==
  ASSUME TypeOK, NEW i \in Instances, RenewPermit(i)
  PROVE TypeOK'
  <1>1. permit' \in [Sellers -> [Slots -> Permit]]
    BY EventSellerType, PermitFieldUpdate, LeaseTypes DEF TypeOK, DatabaseType, MemoryType, RenewPermit, Claim
  <1>2. DatabaseType'
    BY <1>1 DEF TypeOK, DatabaseType, RenewPermit
  <1>3. MemoryType'
    BY DEF TypeOK, MemoryType, RenewPermit
  <1> QED BY <1>1, <1>2, <1>3, UnchangedType, FaultType DEF TypeOK, RenewPermit

(* RenewError keeps TypeOK.                                                    *)
LEMMA RenewErrorType ==
  ASSUME TypeOK, NEW i \in Instances, RenewError(i)
  PROVE TypeOK'
  <1>1. MemoryType'
    BY DEF TypeOK, MemoryType, RenewError
  <1> QED BY <1>1, UnchangedType, FaultType DEF TypeOK, RenewError

(* CheckDelivered keeps TypeOK.                                                *)
LEMMA CheckDeliveredType ==
  ASSUME TypeOK, NEW i \in Instances, NEW e \in Events, CheckDelivered(i, e)
  PROVE TypeOK'
  <1>1. run' \in [Instances -> [Events -> Run]]
    BY GoToType DEF TypeOK, CheckDelivered, Phases
  <1>2. MemoryType'
    BY <1>1 DEF TypeOK, MemoryType, CheckDelivered
  <1> QED BY <1>1, <1>2, UnchangedType, FaultType DEF TypeOK, CheckDelivered

(* CheckOrder keeps TypeOK.                                                    *)
LEMMA CheckOrderType ==
  ASSUME TypeOK, NEW i \in Instances, NEW e \in Events, CheckOrder(i, e)
  PROVE TypeOK'
  <1>1. run' \in [Instances -> [Events -> Run]]
    BY GoToType DEF TypeOK, CheckOrder, Phases
  <1>2. MemoryType'
    BY <1>1 DEF TypeOK, MemoryType, CheckOrder
  <1> QED BY <1>1, <1>2, UnchangedType, FaultType DEF TypeOK, CheckOrder

(* CallRefused keeps TypeOK.                                                   *)
LEMMA CallRefusedType ==
  ASSUME TypeOK, NEW i \in Instances, NEW e \in Events, CallRefused(i, e)
  PROVE TypeOK'
  <1>1. run' \in [Instances -> [Events -> Run]]
    BY GoToType DEF TypeOK, CallRefused, Phases
  <1>2. MemoryType'
    BY <1>1 DEF TypeOK, MemoryType, CallRefused
  <1> QED BY <1>1, <1>2, UnchangedType, FaultType DEF TypeOK, CallRefused

(* FinishDuplicate keeps TypeOK.                                               *)
LEMMA FinishDuplicateType ==
  ASSUME TypeOK, NEW i \in Instances, NEW e \in Events, FinishDuplicate(i, e)
  PROVE TypeOK'
  <1>1. inbox' \in [Events -> Row] /\ permit' \in [Sellers -> [Slots -> Permit]]
    BY CompleteType, ReleaseType DEF TypeOK, DatabaseType, FinishDuplicate
  <1>2. DatabaseType'
    BY <1>1 DEF TypeOK, DatabaseType, FinishDuplicate
  <1>3. run' \in [Instances -> [Events -> Run]]
    BY FinishType DEF TypeOK, FinishDuplicate
  <1>4. MemoryType'
    BY <1>3, MarkFinishedType DEF TypeOK, MemoryType, FinishDuplicate
  <1> QED BY <1>1, <1>2, <1>3, <1>4, UnchangedType, FaultType DEF TypeOK, FinishDuplicate

(* RefuseStale keeps TypeOK.                                                   *)
LEMMA RefuseStaleType ==
  ASSUME TypeOK, NEW i \in Instances, NEW e \in Events, RefuseStale(i, e)
  PROVE TypeOK'
  <1>1. run' \in [Instances -> [Events -> Run]]
    BY FinishType DEF TypeOK, RefuseStale
  <1>2. MemoryType'
    BY <1>1 DEF TypeOK, MemoryType, RefuseStale
  <1> QED BY <1>1, <1>2, UnchangedType, FaultType DEF TypeOK, RefuseStale

(* RecordDelivery keeps TypeOK.                                                *)
LEMMA RecordDeliveryType ==
  ASSUME TypeOK, NEW i \in Instances, NEW e \in Events, RecordDelivery(i, e)
  PROVE TypeOK'
  <1>1. inbox' \in [Events -> Row] /\ permit' \in [Sellers -> [Slots -> Permit]]
    BY CompleteType DEF TypeOK, DatabaseType, RecordDelivery
  <1>2. effect' \in SUBSET Events /\ completion' \in SUBSET Events /\ orderSeq' \in [Orders -> Nat]
    BY ConstantTypes DEF TypeOK, DatabaseType, RecordDelivery
  <1>3. DatabaseType'
    BY <1>1, <1>2 DEF TypeOK, DatabaseType, RecordDelivery
  <1>4. run' \in [Instances -> [Events -> Run]]
    BY FinishType, GoToType DEF TypeOK, RecordDelivery, Phases
  <1>5. finished' \in [Instances -> SUBSET Events]
    BY MarkFinishedType DEF TypeOK, MemoryType, RecordDelivery
  <1>6. MemoryType'
    BY <1>4, <1>5 DEF TypeOK, MemoryType, RecordDelivery
  <1> QED BY <1>1, <1>2, <1>3, <1>4, <1>5, <1>6, UnchangedType, FaultType DEF TypeOK, RecordDelivery

(* GiveBack keeps TypeOK.                                                      *)
LEMMA GiveBackType ==
  ASSUME TypeOK, NEW i \in Instances, NEW e \in Events, GiveBack(i, e)
  PROVE TypeOK'
  <1>1. inbox' \in [Events -> Row]
    <2>1. CASE Holds(i, e, run[i][e].gen)
      <3>1. PICK delay \in 0 .. MaxBackoff :
              inbox' = [inbox EXCEPT ![e].state = "PENDING", ![e].owner = None,
                                     ![e].lease = Expired, ![e].wait = delay]
        BY <2>1 DEF GiveBack
      <3> QED BY <3>1, RowGivenBack DEF TypeOK, DatabaseType
    <2>2. CASE ~Holds(i, e, run[i][e].gen)
      BY <2>2 DEF TypeOK, DatabaseType, GiveBack
    <2> QED BY <2>1, <2>2
  <1>2. permit' \in [Sellers -> [Slots -> Permit]]
    BY ReleaseType DEF TypeOK, GiveBack
  <1>3. DatabaseType'
    BY <1>1, <1>2 DEF TypeOK, DatabaseType, GiveBack
  <1>4. run' \in [Instances -> [Events -> Run]]
    BY FinishType DEF TypeOK, GiveBack
  <1>5. MemoryType'
    BY <1>4 DEF TypeOK, MemoryType, GiveBack
  <1> QED BY <1>1, <1>2, <1>3, <1>4, <1>5, UnchangedType, FaultType DEF TypeOK, GiveBack

(* WorkerDatabaseError keeps TypeOK.                                           *)
LEMMA WorkerDatabaseErrorType ==
  ASSUME TypeOK, NEW i \in Instances, NEW e \in Events, WorkerDatabaseError(i, e)
  PROVE TypeOK'
  <1>1. run' \in [Instances -> [Events -> Run]]
    BY FinishType, GoToType DEF TypeOK, WorkerDatabaseError, Phases
  <1>2. MemoryType'
    BY <1>1 DEF TypeOK, MemoryType, WorkerDatabaseError
  <1> QED BY <1>1, <1>2, UnchangedType, FaultType DEF TypeOK, WorkerDatabaseError

(* Call keeps TypeOK.                                                          *)
LEMMA CallType ==
  ASSUME TypeOK, NEW i \in Instances, NEW e \in Events, Call(i, e)
  PROVE TypeOK'
  <1>1. run' \in [Instances -> [Events -> Run]]
    BY GoToType DEF TypeOK, Call, Phases
  <1>2. MemoryType'
    BY <1>1 DEF TypeOK, MemoryType, Call
  <1>3. PartnerType'
    BY ConstantTypes DEF TypeOK, PartnerType, Call, PartnerApply
  <1> QED BY <1>1, <1>2, <1>3, UnchangedType, FaultType DEF TypeOK, Call

(* CallAnswerLost keeps TypeOK.                                                *)
LEMMA CallAnswerLostType ==
  ASSUME TypeOK, NEW i \in Instances, NEW e \in Events, CallAnswerLost(i, e)
  PROVE TypeOK'
  <1>1. run' \in [Instances -> [Events -> Run]]
    BY GoToType DEF TypeOK, CallAnswerLost, Phases
  <1>2. MemoryType'
    BY <1>1 DEF TypeOK, MemoryType, CallAnswerLost
  <1>3. PartnerType'
    BY ConstantTypes DEF TypeOK, PartnerType, CallAnswerLost, PartnerApply
  <1> QED BY <1>1, <1>2, <1>3, UnchangedType, FaultType DEF TypeOK, CallAnswerLost

(* CallTimesOut keeps TypeOK.                                                  *)
LEMMA CallTimesOutType ==
  ASSUME TypeOK, NEW i \in Instances, NEW e \in Events, CallTimesOut(i, e)
  PROVE TypeOK'
  <1>1. run' \in [Instances -> [Events -> Run]]
    BY GoToType DEF TypeOK, CallTimesOut, Phases
  <1>2. MemoryType'
    BY <1>1 DEF TypeOK, MemoryType, CallTimesOut
  <1>3. PartnerType'
    BY DEF TypeOK, PartnerType, CallTimesOut
  <1> QED BY <1>1, <1>2, <1>3, UnchangedType, FaultType DEF TypeOK, CallTimesOut

(* LateCall keeps TypeOK.                                                      *)
LEMMA LateCallType ==
  ASSUME TypeOK, NEW e \in Events, LateCall(e)
  PROVE TypeOK'
  <1>1. PartnerType'
    BY ConstantTypes DEF TypeOK, PartnerType, LateCall, PartnerApply
  <1> QED BY <1>1, UnchangedType, FaultType DEF TypeOK, LateCall

(* Purge keeps TypeOK.                                                         *)
LEMMA PurgeType ==
  ASSUME TypeOK, NEW e \in Events, Purge(e)
  PROVE TypeOK'
  <1>1. DatabaseType'
    BY NullRecordTypes DEF TypeOK, DatabaseType, Purge
  <1> QED BY <1>1, UnchangedType, FaultType DEF TypeOK, Purge

(* The clock keeps every lease, wait and admission age within its bounds.      *)
LEMMA ElapseType ==
  ASSUME TypeOK, Elapse
  PROVE DatabaseType' /\ KafkaType' /\ MemoryType' /\ PartnerType' /\ up' \in SUBSET Instances
  <1>1. inbox' \in [Events -> Row]
    <2> SUFFICES ASSUME NEW e \in Events
                 PROVE [inbox[e] EXCEPT !.lease = Less(@), !.wait = IF @ = 0 THEN 0 ELSE @ - 1] \in Row
      BY DEF Elapse
    <2> DEFINE l == Less(inbox[e].lease)
               w == IF inbox[e].wait = 0 THEN 0 ELSE inbox[e].wait - 1
    <2>1. inbox[e] \in Row /\ l \in Leases
      BY FieldTypes, LeaseTypes DEF TypeOK, DatabaseType
    <2>2. w \in 0 .. MaxBackoff
      BY <2>1, FieldTypes, ConstantTypes
    <2>3. [inbox[e] EXCEPT !.lease = l, !.wait = w] \in Row
      BY <2>1, <2>2, RowAged
    <2> QED BY <2>3
  <1>2. permit' \in [Sellers -> [Slots -> Permit]]
    BY FieldTypes, LeaseTypes, PermitFieldUpdate DEF TypeOK, DatabaseType, Elapse
  <1>3. admission' \in SUBSET [event : Events, gen : Nat, age : 0 .. RetryWindow - 1]
    <2> SUFFICES ASSUME NEW b \in admission, b.age + 1 < RetryWindow
                 PROVE [b EXCEPT !.age = @ + 1] \in [event : Events, gen : Nat, age : 0 .. RetryWindow - 1]
      BY DEF Elapse
    <2>1. b \in [event : Events, gen : Nat, age : 0 .. RetryWindow - 1]
      BY DEF TypeOK, DatabaseType
    <2>2. b.age + 1 \in 0 .. RetryWindow - 1
      BY <2>1, ConstantTypes
    <2>3. \A x \in 0 .. RetryWindow - 1 :
            [b EXCEPT !.age = x] \in [event : Events, gen : Nat, age : 0 .. RetryWindow - 1]
      BY <2>1
    <2> QED BY <2>2, <2>3
  <1>4. DatabaseType'
    BY <1>1, <1>2, <1>3 DEF TypeOK, DatabaseType, Elapse
  <1> QED BY <1>4, UnchangedType DEF TypeOK, Elapse

(* All three clock steps keep TypeOK.                                          *)
LEMMA TimeType ==
  ASSUME TypeOK, Tick \/ Stall \/ RenewStall
  PROVE TypeOK'
  BY ElapseType, FaultType DEF TypeOK, Tick, Stall, RenewStall

(* Crash keeps TypeOK.                                                         *)
LEMMA CrashType ==
  ASSUME TypeOK, NEW i \in Instances, Crash(i)
  PROVE TypeOK'
  <1>1. KafkaType'
    BY NullRecordTypes DEF TypeOK, KafkaType, Crash
  <1>2. MemoryType'
    BY NullRecordTypes DEF TypeOK, MemoryType, Crash
  <1>3. PartnerType'
    BY DEF TypeOK, PartnerType, Crash
  <1> QED BY <1>1, <1>2, <1>3, UnchangedType, FaultType DEF TypeOK, Crash

(* Every step of the inbox mode keeps TypeOK.                                  *)
LEMMA NextType == TypeOK /\ [Next]_vars => TypeOK'
  <1> SUFFICES ASSUME TypeOK, [Next]_vars PROVE TypeOK'
    OBVIOUS
  <1>1. ASSUME NEW i \in Instances, Ingest(i) PROVE TypeOK'
    BY <1>1, PollType, RebalanceType, ReadInboxType, ReadEffectType, CheckCapacityType,
       StoreAllType, InboxFullType, IngestErrorType, AcknowledgeType DEF Ingest
  <1>2. ASSUME NEW i \in Instances, FindReady(i) \/ Renew(i) \/ Crash(i) PROVE TypeOK'
    BY <1>2, FindReadyType, RenewPermitType, RenewErrorType, RenewRowType, CrashType DEF Renew
  <1>3. ASSUME NEW i \in Instances, NEW e \in Events, Dispatch(i, e) PROVE TypeOK'
    BY <1>3, SkipCandidateType, ClaimRefusedType, ClaimRowType, ClaimErrorType DEF Dispatch
  <1>4. ASSUME NEW i \in Instances, NEW e \in Events, Work(i, e) PROVE TypeOK'
    BY <1>4, CheckDeliveredType, FinishDuplicateType, CheckOrderType, CallType, CallAnswerLostType,
       CallRefusedType, CallTimesOutType, RefuseStaleType, RecordDeliveryType, GiveBackType,
       WorkerDatabaseErrorType DEF Work
  <1>5. ASSUME NEW e \in Events, LateCall(e) \/ Purge(e) PROVE TypeOK'
    BY <1>5, LateCallType, PurgeType
  <1>6. CASE Tick \/ Stall \/ RenewStall
    BY <1>6, TimeType
  <1>7. CASE UNCHANGED vars
    BY <1>7, UnchangedType DEF TypeOK, vars
  <1> QED BY <1>1, <1>2, <1>3, <1>4, <1>5, <1>6, <1>7 DEF Next

(* The initial states have the types.                                          *)
LEMMA InitType == Init => TypeOK
  BY ConstantTypes, NullRecordTypes DEF Init, TypeOK, DatabaseType, KafkaType, MemoryType, PartnerType

(* Type correctness for every number of instances, events, sellers, permits    *)
(* and partitions: no table, listener, dispatcher, worker or lease keeper ever *)
(* leaves its declared type, and leases and waits never leave their bounds.    *)
THEOREM TypeCorrect == Spec => []TypeOK
  BY InitType, NextType, PTL DEF Spec

-----------------------------------------------------------------------------
(* The delivery guarantees                                                     *)

(* A call for the event is on its way to the partner.                          *)
OnItsWay(e) == e \in late \/ \E i \in Instances : run[i][e].phase = "call"

(* The inductive invariant. The service is at most one operation behind the    *)
(* partner, and a call on its way is for at most the operation after the last  *)
(* recorded one: so it finds its predecessors applied, and it is the only one  *)
(* the partner can still apply. An accepted worker's event is in the partner's *)
(* ledger.                                                                     *)
LedgerInv ==
  /\ LedgerInSequence
  /\ completion = effect
  /\ \A e \in Events : e \in ledger <=> SeqOf[e] <= partnerSeq[OrderOf[e]]
  /\ \A o \in Orders : orderSeq[o] <= partnerSeq[o] /\ partnerSeq[o] <= orderSeq[o] + 1
  /\ \A e \in Events : OnItsWay(e) => SeqOf[e] <= orderSeq[OrderOf[e]] + 1
  /\ \A i \in Instances, e \in Events : run[i][e].phase = "accepted" => e \in ledger

ledgerVars == <<effect, orderSeq, completion, ledger, partnerSeq>>

(* Nothing new is called or accepted *)
NoNewCall ==
  /\ late' \subseteq late \cup {e \in Events : OnItsWay(e)}
  /\ \A i \in Instances, e \in Events :
       run'[i][e].phase \in {"call", "accepted"} => run[i][e].phase = run'[i][e].phase

(* A step that touches no ledger and starts no call keeps the invariant.       *)
LEMMA QuietLedger ==
  ASSUME LedgerInv, UNCHANGED ledgerVars, NoNewCall
  PROVE LedgerInv'
  BY DEF LedgerInv, ledgerVars, NoNewCall, OnItsWay, LedgerInSequence

(* Ingestion, findReady, lease renewals and crashes are such steps.            *)
LEMMA QuietInstanceSteps ==
  ASSUME TypeOK, NEW i \in Instances, Ingest(i) \/ FindReady(i) \/ Renew(i) \/ Crash(i)
  PROVE UNCHANGED ledgerVars /\ NoNewCall
  <1> USE DEF ledgerVars, dbVars, kafkaVars, memoryVars, partnerVars
  <1>0. run \in [Instances -> [Events -> Run]]
    BY DEF TypeOK, MemoryType
  <1>1. CASE Ingest(i) 
    BY <1>1 DEF Ingest, Poll, Rebalance, ReadInbox, ReadEffect, CheckCapacity, StoreAll,
       InboxFull, IngestError, Acknowledge, NoNewCall
  <1>2. CASE FindReady(i)
    BY <1>2 DEF FindReady, NoNewCall
  <1>3. CASE Renew(i)
    <2>1. UNCHANGED ledgerVars /\ late' = late
      BY <1>3 DEF Renew, RenewPermit, RenewError, RenewRow
    <2>2. ASSUME NEW j \in Instances, NEW d \in Events PROVE run'[j][d].phase = run[j][d].phase
      <3>1. UNCHANGED run \/ \E e \in Events : run' = [run EXCEPT ![i][e].tracked = FALSE]
        BY <1>3 DEF Renew, RenewPermit, RenewError, RenewRow
      <3> QED BY <3>1, <1>0 DEF Run
    <2> QED BY <2>1, <2>2 DEF NoNewCall
  <1>4. CASE Crash(i)
    <2>1. UNCHANGED ledgerVars /\ late' \subseteq late \cup {d \in Events : OnItsWay(d)}
      BY <1>4 DEF Crash, OnItsWay
    <2>2. ASSUME NEW j \in Instances, NEW d \in Events PROVE run'[j][d].phase \in {"idle", run[j][d].phase}
      BY <1>0, <1>4 DEF Crash, NoRun
    <2> QED BY <2>1, <2>2 DEF NoNewCall
  <1> QED BY <1>1, <1>2, <1>3, <1>4

(* So are claims, refusals, time-outs, give-backs and failed transactions: a   *)
(* call that times out was on its way before.                                  *)
LEMMA QuietWorkerSteps ==
  ASSUME TypeOK, NEW i \in Instances, NEW e \in Events,
    \/ Dispatch(i, e) \/ CheckDelivered(i, e) \/ FinishDuplicate(i, e) \/ CallRefused(i, e)
    \/ CallTimesOut(i, e) \/ RefuseStale(i, e) \/ GiveBack(i, e) \/ WorkerDatabaseError(i, e)
  PROVE UNCHANGED ledgerVars /\ NoNewCall
  <1> USE DEF ledgerVars, dbVars, kafkaVars, memoryVars, partnerVars
  <1>0. run \in [Instances -> [Events -> Run]]
    BY DEF TypeOK, MemoryType
  <1>5. CASE Dispatch(i, e)
    <2>1. UNCHANGED ledgerVars /\ late' = late
      BY <1>5 DEF Dispatch, SkipCandidate, ClaimRefused, ClaimRow, ClaimError
    <2>2. ASSUME NEW j \in Instances, NEW d \in Events PROVE run'[j][d].phase \in {"begin", run[j][d].phase}
      BY <1>0, <1>5 DEF Dispatch, SkipCandidate, ClaimRefused, ClaimRow, ClaimError
    <2> QED BY <2>1, <2>2 DEF NoNewCall
  <1>6. CASE CheckDelivered(i, e)
    <2>1. UNCHANGED ledgerVars /\ late' = late
      BY <1>6 DEF CheckDelivered
    <2>2. ASSUME NEW j \in Instances, NEW d \in Events PROVE run'[j][d].phase \in {"duplicate", "order", run[j][d].phase}
      BY <1>6, RunPhase DEF CheckDelivered, Phases
    <2> QED BY <2>1, <2>2 DEF NoNewCall
  <1>7. CASE FinishDuplicate(i, e) \/ RefuseStale(i, e) \/ GiveBack(i, e)
    <2>1. UNCHANGED ledgerVars /\ late' = late
      BY <1>7 DEF FinishDuplicate, RefuseStale, GiveBack
    <2>2. ASSUME NEW j \in Instances, NEW d \in Events PROVE run'[j][d].phase \in {"idle", run[j][d].phase}
      BY <1>7, RunPhase DEF FinishDuplicate, RefuseStale, GiveBack
    <2> QED BY <2>1, <2>2 DEF NoNewCall
  <1>8. CASE CallRefused(i, e) \/ CallTimesOut(i, e)
    <2>1. UNCHANGED ledgerVars /\ late' \subseteq late \cup {d \in Events : OnItsWay(d)}
      BY <1>8 DEF CallRefused, CallTimesOut, OnItsWay, At
    <2>2. ASSUME NEW j \in Instances, NEW d \in Events PROVE run'[j][d].phase \in {"failed", run[j][d].phase}
      BY <1>8, RunPhase DEF CallRefused, CallTimesOut, Phases
    <2> QED BY <2>1, <2>2 DEF NoNewCall
  <1>9. CASE WorkerDatabaseError(i, e)
    <2>1. UNCHANGED ledgerVars /\ late' = late
      BY <1>9 DEF WorkerDatabaseError
    <2>2. ASSUME NEW j \in Instances, NEW d \in Events PROVE run'[j][d].phase \in {"idle", "failed", run[j][d].phase}
      BY <1>9, RunPhase DEF WorkerDatabaseError, Phases
    <2> QED BY <2>1, <2>2 DEF NoNewCall
  <1> QED BY <1>5, <1>6, <1>7, <1>8, <1>9

(* The order check lets a call go only for the operation after the last        *)
(* recorded.                                                                   *)
LEMMA CheckOrderLedger ==
  ASSUME TypeOK, LedgerInv, NEW i \in Instances, NEW e \in Events, CheckOrder(i, e)
  PROVE LedgerInv' /\ UNCHANGED <<orderSeq, partnerSeq>>
  <1>1. UNCHANGED ledgerVars /\ late' = late
    BY DEF CheckOrder, dbVars, partnerVars, ledgerVars
  <1>2. \A j \in Instances, d \in Events :
          /\ run'[j][d].phase = "accepted" => run[j][d].phase = "accepted"
          /\ run'[j][d].phase = "call" => run[j][d].phase = "call" \/ (d = e /\ NextInOrder(e))
    BY RunPhase DEF CheckOrder, Phases
  <1>3. \A d \in Events : OnItsWay(d)' => OnItsWay(d) \/ (d = e /\ NextInOrder(e))
    BY <1>1, <1>2 DEF OnItsWay
  <1>4. NextInOrder(e) => SeqOf[e] <= orderSeq[OrderOf[e]] + 1
    BY ConstantTypes DEF NextInOrder, TypeOK, DatabaseType
  <1> QED BY <1>1, <1>2, <1>3, <1>4 DEF LedgerInv, ledgerVars, LedgerInSequence

(* The partner handles a call that is on its way: it is an Apply step of the   *)
(* abstract specification or changes nothing, and afterwards the event is in   *)
(* the ledger.                                                                 *)
LEMMA ApplyLedger ==
  ASSUME TypeOK, LedgerInv, NEW e \in Events, OnItsWay(e), PartnerApply(e),
         UNCHANGED <<effect, orderSeq, completion>>
  PROVE /\ \A d \in Events : d \in ledger' <=> SeqOf[d] <= partnerSeq'[OrderOf[d]]
        /\ \A o \in Orders : orderSeq[o] <= partnerSeq'[o] /\ partnerSeq'[o] <= orderSeq[o] + 1
        /\ ledger \subseteq ledger'
        /\ PartnerAccepts(e) => e \in ledger'
        /\ UNCHANGED partnerSeq \/ Delivery!Apply(e)
  <1> USE ConstantTypes
  <1>1. CASE e \in ledger \/ ~PartnerAccepts(e)
    BY <1>1 DEF LedgerInv, PartnerApply, PartnerAccepts
  <1>2. CASE ~(e \in ledger \/ ~PartnerAccepts(e))
    <2>1. SeqOf[e] = partnerSeq[OrderOf[e]] + 1
      BY <1>2 DEF PartnerAccepts
    <2>2. ledger' = ledger \cup {e} /\ partnerSeq' = [partnerSeq EXCEPT ![OrderOf[e]] = SeqOf[e]]
      BY <1>2 DEF PartnerApply
    <2>3. OrderOf[e] \in Orders /\ SeqOf[e] \in Nat /\ partnerSeq \in [Orders -> Nat] /\ orderSeq \in [Orders -> Nat]
      BY DEF TypeOK, DatabaseType, PartnerType
    <2>4. partnerSeq[OrderOf[e]] = orderSeq[OrderOf[e]]
      BY <2>1, <2>3 DEF LedgerInv
    <2>5. \A d \in Events : d \in ledger' <=> SeqOf[d] <= partnerSeq'[OrderOf[d]]
      <3> SUFFICES ASSUME NEW d \in Events PROVE d \in ledger' <=> SeqOf[d] <= partnerSeq'[OrderOf[d]]
        OBVIOUS
      <3>0. OrderOf[d] \in Orders /\ SeqOf[d] \in Nat /\ partnerSeq[OrderOf[d]] \in Nat
        BY <2>3
      <3>1. CASE OrderOf[d] # OrderOf[e]
        BY <3>0, <3>1, <2>2, <2>3 DEF LedgerInv
      <3>2. CASE OrderOf[d] = OrderOf[e] /\ d # e
        <4>1. SeqOf[d] # SeqOf[e]
          BY <3>2, EventsAssumption DEF EventsAssumption
        <4>2. partnerSeq'[OrderOf[d]] = SeqOf[e] /\ (d \in ledger' <=> d \in ledger)
          BY <3>2, <2>2, <2>3
        <4>3. d \in ledger <=> SeqOf[d] <= partnerSeq[OrderOf[e]]
          BY <3>2 DEF LedgerInv
        <4> QED BY <4>1, <4>2, <4>3, <2>1, <2>3, <3>0, <3>2
      <3>3. CASE d = e
        BY <3>3, <2>2, <2>3
      <3> QED BY <3>1, <3>2, <3>3
    <2>6. \A o \in Orders : orderSeq[o] <= partnerSeq'[o] /\ partnerSeq'[o] <= orderSeq[o] + 1
      BY <2>1, <2>2, <2>3, <2>4 DEF LedgerInv
    <2>7. Delivery!Apply(e)
      BY <2>1, <2>2, <2>4 DEF Delivery!Apply
    <2> QED BY <2>2, <2>5, <2>6, <2>7
  <1> QED BY <1>1, <1>2

(* A call whose worker still waits keeps the invariant.                        *)
LEMMA CallLedger ==
  ASSUME TypeOK, LedgerInv, NEW i \in Instances, NEW e \in Events,
         Call(i, e) \/ CallAnswerLost(i, e)
  PROVE LedgerInv' /\ UNCHANGED orderSeq /\ (UNCHANGED partnerSeq \/ Delivery!Apply(e))
  <1>1. OnItsWay(e) /\ PartnerApply(e) /\ UNCHANGED <<effect, orderSeq, completion, late>>
    BY DEF Call, CallAnswerLost, At, OnItsWay, dbVars
  <1>2. \A j \in Instances, d \in Events :
          /\ run'[j][d].phase = "call" => run[j][d].phase = "call"
          /\ run'[j][d].phase = "accepted" => run[j][d].phase = "accepted" \/ (d = e /\ PartnerAccepts(e))
    BY RunPhase DEF Call, CallAnswerLost, Phases
  <1>3. \A d \in Events : OnItsWay(d)' => OnItsWay(d)
    BY <1>1, <1>2 DEF OnItsWay
  <1>4. LedgerInv'
    BY <1>1, <1>2, <1>3, ApplyLedger DEF LedgerInv, LedgerInSequence
  <1> QED BY <1>1, <1>4, ApplyLedger

(* So does a call nobody waits for any more.                                   *)
LEMMA LateCallLedger ==
  ASSUME TypeOK, LedgerInv, NEW e \in Events, LateCall(e)
  PROVE LedgerInv' /\ UNCHANGED orderSeq /\ (UNCHANGED partnerSeq \/ Delivery!Apply(e))
  <1>1. /\ OnItsWay(e) /\ PartnerApply(e) /\ UNCHANGED <<effect, orderSeq, completion, run>>
        /\ late' = late \ {e}
    BY DEF LateCall, OnItsWay, dbVars, memoryVars
  <1>2. \A d \in Events : OnItsWay(d)' => OnItsWay(d)
    BY <1>1 DEF OnItsWay
  <1>3. LedgerInv'
    BY <1>1, <1>2, ApplyLedger DEF LedgerInv, LedgerInSequence
  <1> QED BY <1>1, <1>3, ApplyLedger

(* The delivery transaction keeps the invariant and is a Record step of the    *)
(* abstract specification, or changes nothing it shows.                        *)
LEMMA RecordLedger ==
  ASSUME TypeOK, LedgerInv, NEW i \in Instances, NEW e \in Events, RecordDelivery(i, e)
  PROVE LedgerInv' /\ UNCHANGED partnerSeq /\ (UNCHANGED orderSeq \/ Delivery!Record(e))
  <1> USE ConstantTypes
  <1>1. UNCHANGED <<ledger, partnerSeq, late>>
    BY DEF RecordDelivery, partnerVars
  <1>2. \A j \in Instances, d \in Events :
          run'[j][d].phase \in {"call", "accepted"} => run[j][d].phase = run'[j][d].phase
    BY RunPhase DEF RecordDelivery, Phases
  <1>3. \A d \in Events : OnItsWay(d)' => OnItsWay(d)
    BY <1>1, <1>2 DEF OnItsWay
  <1>4. CASE UNCHANGED <<effect, orderSeq, completion>>
    BY <1>1, <1>2, <1>3, <1>4 DEF LedgerInv, LedgerInSequence
  <1>5. CASE e \notin effect /\ NextInOrder(e)
    <2>1. /\ effect' = effect \cup {e} /\ completion' = completion \cup {e}
          /\ orderSeq' = [orderSeq EXCEPT ![OrderOf[e]] = SeqOf[e]]
      BY <1>5 DEF RecordDelivery
    <2>2. OrderOf[e] \in Orders /\ SeqOf[e] \in Nat /\ partnerSeq \in [Orders -> Nat] /\ orderSeq \in [Orders -> Nat]
      BY DEF TypeOK, DatabaseType, PartnerType
    <2>3. SeqOf[e] = orderSeq[OrderOf[e]] + 1
      BY <1>5 DEF NextInOrder
    <2>4. e \in ledger /\ SeqOf[e] = partnerSeq[OrderOf[e]]
      <3>1. e \in ledger
        BY DEF RecordDelivery, At, LedgerInv
      <3>2. SeqOf[e] <= partnerSeq[OrderOf[e]] /\ partnerSeq[OrderOf[e]] <= orderSeq[OrderOf[e]] + 1
        BY <3>1, <2>2 DEF LedgerInv
      <3> QED BY <3>1, <3>2, <2>2, <2>3
    <2>5. \A d \in Events : d \in effect' <=> SeqOf[d] <= orderSeq'[OrderOf[d]]
      <3> SUFFICES ASSUME NEW d \in Events PROVE d \in effect' <=> SeqOf[d] <= orderSeq'[OrderOf[d]]
        OBVIOUS
      <3>0. OrderOf[d] \in Orders /\ SeqOf[d] \in Nat /\ orderSeq[OrderOf[d]] \in Nat
        BY <2>2
      <3>1. CASE OrderOf[d] # OrderOf[e]
        BY <3>0, <3>1, <2>1, <2>2 DEF LedgerInv, LedgerInSequence
      <3>2. CASE OrderOf[d] = OrderOf[e] /\ d # e
        <4>1. SeqOf[d] # SeqOf[e]
          BY <3>2, EventsAssumption DEF EventsAssumption
        <4>2. orderSeq'[OrderOf[d]] = SeqOf[e] /\ (d \in effect' <=> d \in effect)
          BY <3>2, <2>1, <2>2
        <4>3. d \in effect <=> SeqOf[d] <= orderSeq[OrderOf[e]]
          BY <3>2 DEF LedgerInv, LedgerInSequence
        <4> QED BY <4>1, <4>2, <4>3, <2>2, <2>3, <3>0, <3>2
      <3>3. CASE d = e
        BY <3>3, <2>1, <2>2
      <3> QED BY <3>1, <3>2, <3>3
    <2>6. \A o \in Orders : /\ orderSeq[o] <= orderSeq'[o]
                           /\ orderSeq'[o] <= partnerSeq[o] /\ partnerSeq[o] <= orderSeq'[o] + 1
      BY <2>1, <2>2, <2>3, <2>4 DEF LedgerInv
    <2>7. \A d \in Events : OnItsWay(d)' => SeqOf[d] <= orderSeq'[OrderOf[d]] + 1
      <3> SUFFICES ASSUME NEW d \in Events, OnItsWay(d)' PROVE SeqOf[d] <= orderSeq'[OrderOf[d]] + 1
        OBVIOUS
      <3>1. SeqOf[d] <= orderSeq[OrderOf[d]] + 1
        BY <1>3 DEF LedgerInv
      <3>2. OrderOf[d] \in Orders /\ orderSeq' \in [Orders -> Nat] /\ SeqOf[d] \in Nat
        BY <2>1, <2>2
      <3> QED BY <3>1, <3>2, <2>2, <2>6
    <2>8. LedgerInv'
      BY <1>1, <1>2, <2>1, <2>5, <2>6, <2>7 DEF LedgerInv, LedgerInSequence
    <2>9. Delivery!Record(e)
      BY <1>1, <2>1, <2>3, <2>4 DEF Delivery!Record
    <2> QED BY <1>1, <2>8, <2>9
  <1> QED BY <1>1, <1>4, <1>5 DEF RecordDelivery

(* Every step of the inbox keeps LedgerInv and is a step of PartnerDelivery or *)
(* a stutter of it.                                                            *)
LEMMA NextLedger ==
  ASSUME TypeOK, LedgerInv, [Next]_vars
  PROVE LedgerInv' /\ [Delivery!Next]_<<partnerSeq, orderSeq>>
  <1>0. ASSUME UNCHANGED ledgerVars, NoNewCall PROVE LedgerInv' /\ UNCHANGED <<partnerSeq, orderSeq>>
    BY <1>0, QuietLedger DEF ledgerVars
  <1>1. ASSUME NEW i \in Instances, Ingest(i) \/ FindReady(i) \/ Renew(i) \/ Crash(i)
        PROVE UNCHANGED ledgerVars /\ NoNewCall
    BY <1>1, QuietInstanceSteps
  <1>2. ASSUME NEW i \in Instances, NEW e \in Events, Dispatch(i, e)
        PROVE UNCHANGED ledgerVars /\ NoNewCall
    BY <1>2, QuietWorkerSteps
  <1>3. ASSUME NEW i \in Instances, NEW e \in Events, Work(i, e)
        PROVE LedgerInv' /\ [Delivery!Next]_<<partnerSeq, orderSeq>>
    <2>1. CASE \/ CheckDelivered(i, e) \/ FinishDuplicate(i, e) \/ CallRefused(i, e) \/ CallTimesOut(i, e)
               \/ RefuseStale(i, e) \/ GiveBack(i, e) \/ WorkerDatabaseError(i, e)
      BY <2>1, <1>0, QuietWorkerSteps
    <2>2. CASE CheckOrder(i, e)
      BY <2>2, CheckOrderLedger
    <2>3. CASE Call(i, e) \/ CallAnswerLost(i, e)
      BY <2>3, CallLedger DEF Delivery!Next
    <2>4. CASE RecordDelivery(i, e)
      BY <2>4, RecordLedger DEF Delivery!Next
    <2> QED BY <1>3, <2>1, <2>2, <2>3, <2>4 DEF Work
  <1>4. ASSUME NEW e \in Events, LateCall(e)
        PROVE LedgerInv' /\ [Delivery!Next]_<<partnerSeq, orderSeq>>
    BY <1>4, LateCallLedger DEF Delivery!Next
  <1>5. CASE (\E e \in Events : Purge(e)) \/ Tick \/ Stall \/ RenewStall \/ UNCHANGED vars
    <2>1. UNCHANGED ledgerVars /\ NoNewCall
      BY <1>5 DEF Purge, Tick, Stall, RenewStall, Elapse, NoNewCall, ledgerVars, vars, dbVars, memoryVars, partnerVars
    <2> QED BY <2>1, <1>0
  <1> QED BY <1>0, <1>1, <1>2, <1>3, <1>4, <1>5 DEF Next

(* The initial states satisfy the invariant and map to initial states.         *)
LEMMA InitLedger == Init => LedgerInv /\ Delivery!Init
  BY ConstantTypes DEF Init, LedgerInv, LedgerInSequence, OnItsWay, NoRun, Delivery!Init

(* The ledger invariant holds in every reachable state.                        *)
THEOREM LedgerInvariant == Spec => []LedgerInv
  BY InitLedger, NextLedger, TypeCorrect, PTL DEF Spec

(* For every number of instances, whatever crashes, rebalances, lost answers,  *)
(* late calls and lapsed leases happen: the service's ledger has no gap        *)
(* (recordDelivery), it never runs ahead of the partner's                      *)
(* (PartnerOrderProcessor.process), and no call goes out before its            *)
(* predecessor is applied (the order check of process).                        *)
THEOREM LedgerCorrect == Spec => [](LedgerInSequence /\ RecordedWasApplied /\ PredecessorFirst)
  <1>1. ASSUME TypeOK, LedgerInv PROVE LedgerInSequence /\ RecordedWasApplied /\ PredecessorFirst
    <2>0. /\ orderSeq \in [Orders -> Nat] /\ partnerSeq \in [Orders -> Nat] /\ effect \subseteq Events
          /\ OrderOf \in [Events -> Orders] /\ SeqOf \in [Events -> Nat]
      BY <1>1, ConstantTypes DEF TypeOK, DatabaseType, PartnerType
    <2>1. ASSUME NEW d \in Events, SeqOf[d] <= orderSeq[OrderOf[d]] PROVE d \in ledger
      BY <1>1, <2>0, <2>1 DEF LedgerInv
    <2>2. RecordedWasApplied
      BY <1>1, <2>0, <2>1 DEF LedgerInv, LedgerInSequence, RecordedWasApplied
    <2>3. PredecessorFirst
      BY <1>1, <2>0, <2>1 DEF LedgerInv, OnItsWay, PredecessorFirst
    <2> QED BY <1>1, <2>2, <2>3 DEF LedgerInv
  <1> QED BY <1>1, TypeCorrect, LedgerInvariant, PTL

(* Refinement: with the partner's and the service's sequence numbers as the    *)
(* abstract state, the inbox mode implements PartnerDelivery.                  *)
THEOREM ImplementsDelivery == Spec => DeliverySpec
  <1>1. Init => Delivery!Init
    BY InitLedger
  <1>2. TypeOK /\ LedgerInv /\ [Next]_vars => [Delivery!Next]_<<partnerSeq, orderSeq>>
    BY NextLedger
  <1> QED BY <1>1, <1>2, TypeCorrect, LedgerInvariant, PTL DEF Spec, DeliverySpec, Delivery!Spec

-----------------------------------------------------------------------------
(* What the inbox keeps and what it limits                                     *)

(* The inbox or the ledger knows the event.                                    *)
Kept(e) == Stored(e) \/ e \in effect
(* At most one instance is inside storeAll.                                    *)
LockExclusive == \A i, j \in Instances : HoldsCapacityLock(i) /\ HoldsCapacityLock(j) => i = j
(* Only a delivered row is DONE.                                               *)
DoneIsDelivered == \A e \in Events : inbox[e].state = "DONE" => e \in effect
(* What an instance knows of its batch: inside storeAll what it has read still *)
(* holds, because only storeAll adds rows and it holds the lock; what is       *)
(* delivered but not known was still stored when the inbox was read; a stored  *)
(* batch is kept; and the offset about to be committed passes only this batch. *)
BatchInv(i) ==
  /\ ingest[i].phase # "idle" => /\ ingest[i].partition \in Partitions
                                 /\ ingest[i].next <= Len(Log[ingest[i].partition])
  /\ HoldsCapacityLock(i) => \A e \in ingest[i].batch :
       IF e \in ingest[i].known THEN Kept(e) ELSE ~Stored(e)
  /\ ingest[i].phase \in {"effectRead", "counted"} => ingest[i].batch \cap effect \subseteq ingest[i].known
  /\ ingest[i].phase = "stored" => \A e \in ingest[i].batch : Kept(e)
  /\ ingest[i].phase # "idle" /\ assigned[ingest[i].partition] = i =>
       \A n \in 1 .. ingest[i].next : \/ n <= committed[ingest[i].partition]
                                      \/ Log[ingest[i].partition][n] \in ingest[i].batch
(* Offsets stay within their partition.                                        *)
OffsetsInLog == \A p \in Partitions : committed[p] <= Len(Log[p])
(* A worker that found its event delivered is right for good.                  *)
DuplicateIsDelivered ==
  \A i \in Instances, e \in Events : run[i][e].phase = "duplicate" => e \in effect

(* The inductive invariant.                                                    *)
StoreInv ==
  /\ LockExclusive
  /\ \A i \in Instances : BatchInv(i)
  /\ OffsetsInLog
  /\ DoneIsDelivered
  /\ NothingStranded
  /\ NothingLost
  /\ FinishedIsDelivered
  /\ DuplicateIsDelivered

(* A step that adds no row, drops no event that is stored or delivered, and     *)
(* lets exactly the delivered rows be finished.                                *)
RowsMove ==
  /\ UNCHANGED <<ingest, assigned, committed>>
  /\ \A e \in Events :
       /\ inbox[e].state = "ABSENT" => inbox'[e].state = "ABSENT" /\ (e \in effect' => e \in effect)
       /\ Kept(e) => Kept(e)'
       /\ inbox'[e].state = "DONE" => e \in effect'
       /\ e \in effect' => inbox'[e].state \in {"ABSENT", "DONE"}
  /\ \A i \in Instances : finished'[i] \subseteq effect'
  /\ \A i \in Instances, e \in Events : run'[i][e].phase = "duplicate" => e \in effect'

(* A committed offset names an event of the log.                               *)
LEMMA LoggedEvents ==
  ASSUME TypeOK, OffsetsInLog, NEW p \in Partitions, NEW n \in 1 .. committed[p]
  PROVE Log[p][n] \in Events
  <1>1. committed[p] \in Nat /\ Log[p] \in Seq(Events)
    BY ConstantTypes DEF TypeOK, KafkaType
  <1> QED BY <1>1 DEF OffsetsInLog

(* Such a step keeps the store invariant.                                      *)
LEMMA RowsMoveStore ==
  ASSUME TypeOK, TypeOK', StoreInv, RowsMove
  PROVE StoreInv'
  <1>1. effect' \subseteq Events /\ \A i \in Instances : ingest[i].batch \subseteq Events
    BY DEF TypeOK, DatabaseType, KafkaType, Batch
  <1>2. LockExclusive' /\ OffsetsInLog'
    BY DEF StoreInv, LockExclusive, OffsetsInLog, HoldsCapacityLock, RowsMove
  <1>3. ASSUME NEW i \in Instances PROVE BatchInv(i)'
    <2>1. BatchInv(i)
      BY DEF StoreInv
    <2>2. \A e \in Events : (Kept(e) => Kept(e)') /\ (~Stored(e) => ~Stored(e)' /\ (e \in effect' => e \in effect))
      BY DEF RowsMove, Stored
    <2> QED BY <1>1, <2>1, <2>2 DEF BatchInv, HoldsCapacityLock, RowsMove
  <1>4. DoneIsDelivered' /\ NothingStranded'
    BY <1>1 DEF DoneIsDelivered, NothingStranded, RowsMove
  <1>5. NothingLost'
    <2> SUFFICES ASSUME NEW p \in Partitions, NEW n \in 1 .. committed[p]
                 PROVE Stored(Log[p][n])' \/ Log[p][n] \in effect'
      BY DEF NothingLost, RowsMove
    <2>1. Log[p][n] \in Events /\ Kept(Log[p][n])
      BY LoggedEvents DEF StoreInv, NothingLost, Kept
    <2>2. Kept(Log[p][n])'
      BY <2>1 DEF RowsMove
    <2> QED BY <2>2 DEF Kept
  <1>6. FinishedIsDelivered' /\ DuplicateIsDelivered'
    BY DEF FinishedIsDelivered, DuplicateIsDelivered, RowsMove
  <1> QED BY <1>2, <1>3, <1>4, <1>5, <1>6 DEF StoreInv

(* The frequent case: no row is added, finished or removed, nothing delivered. *)
LEMMA RowsStay ==
  ASSUME TypeOK, StoreInv, UNCHANGED <<effect, ingest, assigned, committed, finished>>,
         \A e \in Events : /\ inbox'[e].state = "ABSENT" <=> inbox[e].state = "ABSENT"
                           /\ inbox'[e].state = "DONE" <=> inbox[e].state = "DONE",
         \A i \in Instances, e \in Events :
           run'[i][e].phase = "duplicate" => run[i][e].phase = "duplicate" \/ e \in effect
  PROVE RowsMove
  <1>1. ASSUME NEW e \in Events
        PROVE /\ inbox[e].state = "ABSENT" => inbox'[e].state = "ABSENT" /\ (e \in effect' => e \in effect)
              /\ Kept(e) => Kept(e)'
              /\ inbox'[e].state = "DONE" => e \in effect'
              /\ e \in effect' => inbox'[e].state \in {"ABSENT", "DONE"}
    <2>0. effect' = effect
      OBVIOUS
    <2>1. Kept(e) => Kept(e)'
      BY <2>0 DEF Kept, Stored
    <2>2. inbox'[e].state = "DONE" => e \in effect'
      BY <2>0 DEF StoreInv, DoneIsDelivered
    <2>3. e \in effect' => inbox'[e].state \in {"ABSENT", "DONE"}
      BY <2>0 DEF StoreInv, NothingStranded
    <2> QED BY <2>0, <2>1, <2>2, <2>3
  <1>2. \A i \in Instances : finished'[i] \subseteq effect'
    BY DEF StoreInv, FinishedIsDelivered
  <1>3. \A i \in Instances, e \in Events : run'[i][e].phase = "duplicate" => e \in effect'
    BY DEF StoreInv, DuplicateIsDelivered
  <1> QED BY <1>1, <1>2, <1>3 DEF RowsMove

(* complete(claim) makes this row DONE and no other.                           *)
LEMMA CompleteRows ==
  ASSUME TypeOK, NEW i \in Instances, NEW e \in Events, Complete(i, e)
  PROVE \A d \in Events : inbox'[d].state = IF d = e THEN "DONE" ELSE inbox[d].state
  BY DEF TypeOK, DatabaseType, Complete, Row

(* findReady and lease renewals move no row.                                   *)
LEMMA InstanceRows ==
  ASSUME TypeOK, StoreInv, NEW i \in Instances, FindReady(i) \/ Renew(i)
  PROVE RowsMove
  <1> USE DEF dbVars, kafkaVars, memoryVars, partnerVars
  <1>1. CASE FindReady(i)
    BY <1>1, RowsStay DEF FindReady
  <1>2. CASE Renew(i)
    <2>1. UNCHANGED <<effect, ingest, assigned, committed, finished>>
      BY <1>2 DEF Renew, RenewPermit, RenewError, RenewRow
    <2>2. UNCHANGED inbox \/ \E e \in Events : inbox' = [inbox EXCEPT ![e].lease = LeaseTicks]
      BY <1>2 DEF Renew, RenewPermit, RenewError, RenewRow
    <2>3. UNCHANGED run \/ \E e \in Events : run' = [run EXCEPT ![i][e].tracked = FALSE]
      BY <1>2 DEF Renew, RenewPermit, RenewError, RenewRow
    <2>4. \A e \in Events : inbox'[e].state = inbox[e].state
      BY <2>2 DEF TypeOK, DatabaseType, Row
    <2>5. ASSUME NEW j \in Instances, NEW d \in Events PROVE run'[j][d].phase = run[j][d].phase
      <3>1. run \in [Instances -> [Events -> Run]]
        BY DEF TypeOK, MemoryType
      <3>2. ASSUME NEW e \in Events, run' = [run EXCEPT ![i][e].tracked = FALSE]
            PROVE run'[j][d].phase = run[j][d].phase
        BY <3>1, <3>2 DEF Run
      <3> QED BY <2>3, <3>2
    <2> QED BY <2>1, <2>4, <2>5, RowsStay
  <1> QED BY <1>1, <1>2

(* Claims and workers: rows become CLAIMED, PENDING again, or DONE together    *)
(* with their delivery.                                                        *)
LEMMA WorkerRows ==
  ASSUME TypeOK, StoreInv, NEW i \in Instances, NEW e \in Events, Dispatch(i, e) \/ Work(i, e)
  PROVE RowsMove
  <1> USE DEF dbVars, kafkaVars, memoryVars, partnerVars
  <1>1. CASE Dispatch(i, e)
    <2>1. UNCHANGED <<effect, ingest, assigned, committed, finished>>
      BY <1>1 DEF Dispatch, SkipCandidate, ClaimRefused, ClaimRow, ClaimError
    <2>2. \A d \in Events : /\ inbox'[d].state = "ABSENT" <=> inbox[d].state = "ABSENT"
                            /\ inbox'[d].state = "DONE" <=> inbox[d].state = "DONE"
      <3>1. CASE UNCHANGED inbox
        BY <3>1
      <3>2. CASE ClaimRow(i, e)
        <4>1. inbox[e].state \in {"PENDING", "CLAIMED"}
          BY <3>2 DEF ClaimRow, CanClaim, Ready, Due
        <4>2. \A d \in Events : inbox'[d].state = IF d = e THEN "CLAIMED" ELSE inbox[d].state
          BY <3>2 DEF ClaimRow, TypeOK, DatabaseType
        <4> QED BY <4>1, <4>2
      <3> QED BY <1>1, <3>1, <3>2 DEF Dispatch, SkipCandidate, ClaimRefused, ClaimError
    <2>3. ASSUME NEW j \in Instances, NEW d \in Events PROVE run'[j][d].phase \in {"begin", run[j][d].phase}
      <3>1. run \in [Instances -> [Events -> Run]]
        BY DEF TypeOK, MemoryType
      <3> QED BY <1>1, <3>1 DEF Dispatch, SkipCandidate, ClaimRefused, ClaimRow, ClaimError
    <2> QED BY <2>1, <2>2, <2>3, RowsStay
  <1>2. CASE \/ CheckDelivered(i, e) \/ CheckOrder(i, e) \/ Call(i, e) \/ CallAnswerLost(i, e)
             \/ CallRefused(i, e) \/ CallTimesOut(i, e) \/ RefuseStale(i, e) \/ WorkerDatabaseError(i, e)
    <2>1. UNCHANGED <<effect, ingest, assigned, committed, finished, inbox>>
      BY <1>2 DEF CheckDelivered, CheckOrder, Call, CallAnswerLost, CallRefused, CallTimesOut, RefuseStale, WorkerDatabaseError
    <2>2. \A j \in Instances, d \in Events :
           run'[j][d].phase = "duplicate" => run[j][d].phase = "duplicate" \/ d \in effect
      BY <1>2, RunPhase DEF CheckDelivered, CheckOrder, Call, CallAnswerLost, CallRefused, CallTimesOut, RefuseStale, WorkerDatabaseError, Phases
    <2> QED BY <2>1, <2>2, RowsStay
  <1>3. CASE GiveBack(i, e)
    <2>1. UNCHANGED <<effect, ingest, assigned, committed, finished>>
      BY <1>3 DEF GiveBack
    <2>2. \A d \in Events : /\ inbox'[d].state = "ABSENT" <=> inbox[d].state = "ABSENT"
                            /\ inbox'[d].state = "DONE" <=> inbox[d].state = "DONE"
      <3>1. CASE Holds(i, e, run[i][e].gen)
        <4>1. PICK w \in 0 .. MaxBackoff :
                inbox' = [inbox EXCEPT ![e].state = "PENDING", ![e].owner = None,
                                       ![e].lease = Expired, ![e].wait = w]
          BY <1>3, <3>1 DEF GiveBack
        <4>2. \A d \in Events : inbox'[d].state = IF d = e THEN "PENDING" ELSE inbox[d].state
          BY <4>1 DEF TypeOK, DatabaseType, Row
        <4> QED BY <3>1, <4>2 DEF Holds
      <3>2. CASE ~Holds(i, e, run[i][e].gen)
        BY <1>3, <3>2 DEF GiveBack
      <3> QED BY <3>1, <3>2
    <2>3. \A j \in Instances, d \in Events : run'[j][d].phase \in {"idle", run[j][d].phase}
      BY <1>3, RunPhase DEF GiveBack
    <2> QED BY <2>1, <2>2, <2>3, RowsStay
  <1>4. CASE FinishDuplicate(i, e)
    <2>1. UNCHANGED <<effect, ingest, assigned, committed>> /\ e \in effect
      BY <1>4 DEF FinishDuplicate, At, StoreInv, DuplicateIsDelivered
    <2>2. UNCHANGED inbox \/ \A d \in Events : inbox'[d].state = IF d = e THEN "DONE" ELSE inbox[d].state
      BY <1>4, CompleteRows DEF FinishDuplicate
    <2>3. Holds(i, e, run[i][e].gen) \/ UNCHANGED inbox
      BY <1>4 DEF FinishDuplicate
    <2>4. \A j \in Instances : finished'[j] \subseteq finished[j] \cup {e}
      BY <1>4, MarkFinishedType DEF FinishDuplicate
    <2>5. \A j \in Instances, d \in Events : run'[j][d].phase \in {"idle", run[j][d].phase}
      BY <1>4, RunPhase DEF FinishDuplicate
    <2> QED BY <2>1, <2>2, <2>3, <2>4, <2>5 DEF RowsMove, StoreInv, DoneIsDelivered, NothingStranded,
           FinishedIsDelivered, DuplicateIsDelivered, Kept, Stored, Holds
  <1>5. CASE RecordDelivery(i, e)
    <2>1. UNCHANGED <<ingest, assigned, committed>> /\ inbox[e].state = "CLAIMED"
      BY <1>5 DEF RecordDelivery, Holds
    <2>2. CASE e \in effect \/ NextInOrder(e)
      <3>1. effect' = effect \cup {e}
        BY <1>5, <2>2 DEF RecordDelivery
      <3>2. \A d \in Events : inbox'[d].state = IF d = e THEN "DONE" ELSE inbox[d].state
        BY <1>5, <2>2, CompleteRows DEF RecordDelivery
      <3>3. \A j \in Instances : finished'[j] \subseteq finished[j] \cup {e}
        BY <1>5, <2>2, MarkFinishedType DEF RecordDelivery
      <3>4. \A j \in Instances, d \in Events : run'[j][d].phase \in {"idle", run[j][d].phase}
        BY <1>5, <2>2, RunPhase DEF RecordDelivery
      <3> QED BY <2>1, <3>1, <3>2, <3>3, <3>4 DEF RowsMove, StoreInv, DoneIsDelivered, NothingStranded,
           FinishedIsDelivered, DuplicateIsDelivered, Kept, Stored
    <2>3. CASE ~(e \in effect \/ NextInOrder(e))
      <3>1. UNCHANGED <<effect, finished, inbox>>
        BY <1>5, <2>3 DEF RecordDelivery
      <3>2. \A j \in Instances, d \in Events : run'[j][d].phase \in {"failed", run[j][d].phase}
        BY <1>5, <2>3, RunPhase DEF RecordDelivery, Phases
      <3> QED BY <2>1, <3>1, <3>2, RowsStay
    <2> QED BY <2>2, <2>3
  <1> QED BY <1>1, <1>2, <1>3, <1>4, <1>5 DEF Work

(* Late calls, the clock and the janitor; a purged row is a delivered one.     *)
LEMMA OtherRows ==
  ASSUME TypeOK, StoreInv,
         (\E e \in Events : LateCall(e) \/ Purge(e)) \/ Tick \/ Stall \/ RenewStall \/ UNCHANGED vars
  PROVE RowsMove
  <1> USE DEF dbVars, kafkaVars, memoryVars, partnerVars
  <1>1. CASE (\E e \in Events : LateCall(e)) \/ UNCHANGED vars
    BY <1>1, RowsStay DEF LateCall, vars
  <1>2. ASSUME NEW e \in Events, Purge(e) PROVE RowsMove
    <2>1. UNCHANGED <<effect, ingest, assigned, committed, finished, run>> /\ inbox[e].state = "DONE" /\ e \in effect
      BY <1>2 DEF Purge, StoreInv, DoneIsDelivered
    <2>2. \A d \in Events : inbox'[d].state = IF d = e THEN "ABSENT" ELSE inbox[d].state
      BY <1>2 DEF Purge, TypeOK, DatabaseType, NoRow
    <2> QED BY <2>1, <2>2 DEF RowsMove, StoreInv, DoneIsDelivered, NothingStranded,
           FinishedIsDelivered, DuplicateIsDelivered, Kept, Stored
  <1>3. CASE Tick \/ Stall \/ RenewStall
    <2>1. UNCHANGED <<effect, ingest, assigned, committed, finished, run>>
      BY <1>3 DEF Tick, Stall, RenewStall, Elapse
    <2>2. ASSUME NEW d \in Events PROVE inbox'[d].state = inbox[d].state
      <3>1. inbox[d] \in Row
        BY DEF TypeOK, DatabaseType
      <3>2. inbox' = [e \in Events |->
                       [inbox[e] EXCEPT !.lease = Less(@), !.wait = IF @ = 0 THEN 0 ELSE @ - 1]]
        BY <1>3 DEF Tick, Stall, RenewStall, Elapse
      <3> QED BY <3>1, <3>2 DEF Row
    <2> QED BY <2>1, <2>2, RowsStay
  <1> QED BY <1>1, <1>2, <1>3

(* A step of one listener that leaves tables and offsets alone.                *)
LEMMA ListenerStep ==
  ASSUME TypeOK, StoreInv, NEW i \in Instances, NEW b \in Batch,
         ingest' = [ingest EXCEPT ![i] = b],
         UNCHANGED <<inbox, effect, assigned, committed, finished, run>>,
         BatchInv(i)',
         HoldsCapacityLock(i)' => \A j \in Instances : HoldsCapacityLock(j) => j = i
  PROVE StoreInv'
  <1>1. ingest \in [Instances -> Batch]
    BY DEF TypeOK, KafkaType
  <1>2. \A j \in Instances : j # i => ingest'[j] = ingest[j]
    BY <1>1
  <1>3. ASSUME NEW j \in Instances PROVE BatchInv(j)'
    <2>1. CASE j = i
      BY <2>1
    <2>2. CASE j # i
      <3>1. BatchInv(j)
        BY DEF StoreInv
      <3> QED BY <1>2, <2>2, <3>1 DEF BatchInv, HoldsCapacityLock, Kept, Stored
    <2> QED BY <2>1, <2>2
  <1>4. LockExclusive'
    BY <1>2 DEF StoreInv, LockExclusive, HoldsCapacityLock
  <1>5. OffsetsInLog' /\ DoneIsDelivered' /\ NothingStranded' /\ FinishedIsDelivered'
    BY DEF StoreInv, OffsetsInLog, DoneIsDelivered, NothingStranded, FinishedIsDelivered
  <1>6. NothingLost' /\ DuplicateIsDelivered'
    BY DEF StoreInv, NothingLost, DuplicateIsDelivered, Stored
  <1> QED BY <1>3, <1>4, <1>5, <1>6 DEF StoreInv

(* Polling and the two reads of storeAll, and its failures, keep the           *)
(* invariant.                                                                  *)
LEMMA ReadStore ==
  ASSUME TypeOK, TypeOK', StoreInv, NEW i \in Instances,
         \/ \E p \in Partitions : Poll(i, p)
         \/ ReadInbox(i) \/ ReadEffect(i) \/ CheckCapacity(i) \/ InboxFull(i) \/ IngestError(i)
  PROVE StoreInv'
  <1> USE DEF dbVars, kafkaVars, memoryVars, partnerVars
  <1>0. /\ ingest \in [Instances -> Batch] /\ ingest' \in [Instances -> Batch]
        /\ BatchInv(i)
    BY DEF TypeOK, KafkaType, StoreInv
  <1>a. UNCHANGED <<inbox, effect, assigned, committed, finished, run>>
    BY DEF Poll, ReadInbox, ReadEffect, CheckCapacity, InboxFull, IngestError
  <1>1. ingest' = [ingest EXCEPT ![i] = ingest'[i]] /\ ingest'[i] \in Batch
    <2>1. \A j \in Instances : j # i => ingest'[j] = ingest[j]
      BY <1>0 DEF Poll, ReadInbox, ReadEffect, CheckCapacity, InboxFull, IngestError
    <2> QED BY <1>0, <2>1
  <1>2. ASSUME NEW p \in Partitions, Poll(i, p) PROVE StoreInv'
    <2>1. PICK n \in 1 .. MaxPoll :
            /\ committed[p] + n <= Len(Log[p])
            /\ ingest'[i] = [phase |-> "polled", partition |-> p, next |-> committed[p] + n,
                 batch |-> {Log[p][k] : k \in committed[p] + 1 .. committed[p] + n},
                 known |-> {}]
      BY <1>0, <1>2 DEF Poll
    <2>2. MaxPoll \in Nat /\ committed[p] \in Nat
      BY InboxAssumption DEF TypeOK, KafkaType
    <2>3. \A m \in 1 .. committed[p] + n :
            m <= committed[p] \/ Log[p][m] \in {Log[p][k] : k \in committed[p] + 1 .. committed[p] + n}
      BY <2>2
    <2>4. BatchInv(i)'
      BY <1>a, <2>1, <2>3 DEF BatchInv, HoldsCapacityLock
    <2> QED BY <1>1, <1>a, <2>1, <2>4, ListenerStep DEF HoldsCapacityLock
  <1>3. CASE ReadInbox(i)
    <2>1. ingest'[i] = [ingest[i] EXCEPT !.phase = "inboxRead",
                                        !.known = {e \in ingest[i].batch : Stored(e)}]
      BY <1>0, <1>3 DEF ReadInbox
    <2>2. /\ ingest'[i].phase = "inboxRead" /\ ingest'[i].partition = ingest[i].partition
          /\ ingest'[i].next = ingest[i].next /\ ingest'[i].batch = ingest[i].batch
          /\ ingest'[i].known = {e \in ingest[i].batch : Stored(e)}
      BY <1>0, <2>1 DEF Batch
    <2>3. ingest[i].phase = "polled" /\ \A j \in Instances : ~HoldsCapacityLock(j)
      BY <1>3 DEF ReadInbox
    <2>4. BatchInv(i)'
      BY <1>0, <1>a, <2>2, <2>3 DEF BatchInv, HoldsCapacityLock, Kept, Stored
    <2> QED BY <1>1, <1>a, <2>3, <2>4, ListenerStep
  <1>4. CASE ReadEffect(i)
    <2>1. ingest'[i] = [ingest[i] EXCEPT !.phase = "effectRead",
                                        !.known = @ \cup (ingest[i].batch \cap effect)]
      BY <1>0, <1>4 DEF ReadEffect
    <2>2. /\ ingest'[i].phase = "effectRead" /\ ingest'[i].partition = ingest[i].partition
          /\ ingest'[i].next = ingest[i].next /\ ingest'[i].batch = ingest[i].batch
          /\ ingest'[i].known = ingest[i].known \cup (ingest[i].batch \cap effect)
      BY <1>0, <2>1 DEF Batch
    <2>3. ingest[i].phase = "inboxRead" /\ HoldsCapacityLock(i)
      BY <1>4 DEF ReadEffect, HoldsCapacityLock
    <2>4. BatchInv(i)'
      BY <1>0, <1>a, <2>2, <2>3 DEF BatchInv, HoldsCapacityLock, Kept, Stored
    <2>5. \A j \in Instances : HoldsCapacityLock(j) => j = i
      BY <2>3 DEF StoreInv, LockExclusive
    <2> QED BY <1>1, <1>a, <2>4, <2>5, ListenerStep
  <1>5. CASE InboxFull(i) \/ IngestError(i)
    <2>1. ingest'[i].phase = "idle"
      BY <1>0, <1>5 DEF InboxFull, IngestError, NoBatch
    <2>2. BatchInv(i)'
      BY <2>1 DEF BatchInv, HoldsCapacityLock
    <2> QED BY <1>1, <1>a, <2>1, <2>2, ListenerStep DEF HoldsCapacityLock
  <1>6. CASE CheckCapacity(i)
    <2>1. ingest'[i] = [ingest[i] EXCEPT !.phase = "counted"]
      BY <1>0, <1>6 DEF CheckCapacity
    <2>2. /\ ingest'[i].phase = "counted" /\ ingest'[i].partition = ingest[i].partition
          /\ ingest'[i].next = ingest[i].next /\ ingest'[i].batch = ingest[i].batch
          /\ ingest'[i].known = ingest[i].known
      BY <1>0, <2>1 DEF Batch
    <2>3. ingest[i].phase = "effectRead" /\ HoldsCapacityLock(i)
      BY <1>6 DEF CheckCapacity, HoldsCapacityLock
    <2>4. BatchInv(i)'
      BY <1>0, <1>a, <2>2, <2>3 DEF BatchInv, HoldsCapacityLock, Kept, Stored
    <2>5. \A j \in Instances : HoldsCapacityLock(j) => j = i
      BY <2>3 DEF StoreInv, LockExclusive
    <2> QED BY <1>1, <1>a, <2>4, <2>5, ListenerStep
  <1> QED BY <1>2, <1>3, <1>4, <1>5, <1>6

(* Inserting the new rows strands no delivered event: what was delivered and   *)
(* purged between the two reads of storeAll is seen by the second.             *)
LEMMA StoreAllStore ==
  ASSUME TypeOK, TypeOK', StoreInv, NEW i \in Instances, StoreAll(i)
  PROVE StoreInv'
  <1> USE DEF dbVars, kafkaVars, memoryVars, partnerVars
  <1>0. ingest \in [Instances -> Batch] /\ inbox \in [Events -> Row] /\ effect \subseteq Events
    BY DEF TypeOK, KafkaType, DatabaseType
  <1>1. /\ BatchInv(i) /\ ingest[i].phase = "counted" /\ HoldsCapacityLock(i)
        /\ UNCHANGED <<effect, assigned, committed, finished, run>>
    BY DEF StoreAll, StoreInv, HoldsCapacityLock
  <1>2. \A e \in Events : inbox'[e] = IF e \in NewRows(i) THEN NewRow ELSE inbox[e]
    BY DEF StoreAll
  <1>3. \A e \in Events : inbox'[e].state = IF e \in NewRows(i) THEN "PENDING" ELSE inbox[e].state
    BY <1>2 DEF NewRow, NoRow
  <1>4. \A e \in NewRows(i) : ~Stored(e) /\ e \notin effect
    BY <1>1 DEF NewRows, BatchInv
  <1>5. \A e \in Events : Kept(e) => Kept(e)'
    BY <1>1, <1>3 DEF Kept, Stored
  <1>6. \A j \in Instances : j # i => ingest'[j] = ingest[j]
    BY <1>0 DEF StoreAll
  <1>7. /\ ingest'[i].phase = "stored" /\ ingest'[i].partition = ingest[i].partition
        /\ ingest'[i].next = ingest[i].next /\ ingest'[i].batch = ingest[i].batch
    BY <1>0 DEF StoreAll, Batch
  <1>8. \A j \in Instances : ~HoldsCapacityLock(j)'
    BY <1>1, <1>6, <1>7 DEF StoreInv, LockExclusive, HoldsCapacityLock
  <1>9. \A j \in Instances : ingest[j].batch \subseteq Events
    BY <1>0 DEF Batch
  <1>10. ASSUME NEW j \in Instances PROVE BatchInv(j)'
    <2>1. CASE j = i
      <3>1. \A e \in ingest[i].batch : Kept(e)'
        BY <1>1, <1>3, <1>5, <1>9 DEF BatchInv, NewRows, Kept, Stored
      <3> QED BY <1>1, <1>7, <2>1, <3>1 DEF BatchInv, HoldsCapacityLock
    <2>2. CASE j # i
      <3>1. BatchInv(j) /\ ~HoldsCapacityLock(j)'
        BY <1>8 DEF StoreInv
      <3>2. ingest'[j].phase \notin {"effectRead", "counted"}
        BY <1>8 DEF HoldsCapacityLock
      <3> QED BY <1>1, <1>5, <1>6, <1>9, <2>2, <3>1, <3>2 DEF BatchInv
    <2> QED BY <2>1, <2>2
  <1>11. LockExclusive'
    BY <1>8 DEF LockExclusive
  <1>12. DoneIsDelivered' /\ NothingStranded'
    BY <1>0, <1>1, <1>3, <1>4 DEF StoreInv, DoneIsDelivered, NothingStranded
  <1>13. OffsetsInLog' /\ FinishedIsDelivered' /\ DuplicateIsDelivered'
    BY <1>1 DEF StoreInv, OffsetsInLog, FinishedIsDelivered, DuplicateIsDelivered
  <1>14. NothingLost'
    <2> SUFFICES ASSUME NEW p \in Partitions, NEW n \in 1 .. committed[p]
                 PROVE Stored(Log[p][n])' \/ Log[p][n] \in effect'
      BY <1>1 DEF NothingLost
    <2>1. Log[p][n] \in Events /\ Kept(Log[p][n])
      BY LoggedEvents DEF StoreInv, NothingLost, Kept
    <2> QED BY <1>5, <2>1 DEF Kept
  <1> QED BY <1>10, <1>11, <1>12, <1>13, <1>14 DEF StoreInv

(* The offset passes only records that are stored or delivered.                *)
LEMMA AcknowledgeStore ==
  ASSUME TypeOK, TypeOK', StoreInv, NEW i \in Instances, Acknowledge(i)
  PROVE StoreInv'
  <1> USE DEF dbVars, kafkaVars, memoryVars, partnerVars
  <1> DEFINE p == ingest[i].partition
  <1>0. /\ ingest \in [Instances -> Batch] /\ committed \in [Partitions -> Nat]
        /\ p \in Partitions /\ BatchInv(i) /\ ingest[i].phase = "stored"
    BY DEF TypeOK, KafkaType, StoreInv, BatchInv, Acknowledge
  <1>1. UNCHANGED <<inbox, effect, assigned, finished, run>>
    BY DEF Acknowledge
  <1>2. /\ \A j \in Instances : j # i => ingest'[j] = ingest[j]
        /\ ingest'[i].phase = "idle"
    BY <1>0 DEF Acknowledge, NoBatch
  <1>3. \A q \in Partitions :
          committed'[q] = IF q = p /\ assigned[p] = i THEN ingest[i].next ELSE committed[q]
    BY <1>0 DEF Acknowledge
  <1>4. ASSUME NEW j \in Instances PROVE BatchInv(j)'
    <2>1. CASE j = i
      BY <1>2, <2>1 DEF BatchInv, HoldsCapacityLock
    <2>2. CASE j # i
      <3>1. BatchInv(j)
        BY DEF StoreInv
      <3>2. ingest[j].phase # "idle" /\ assigned[ingest[j].partition] = j
              => committed'[ingest[j].partition] = committed[ingest[j].partition]
        BY <1>3, <2>2, <3>1 DEF BatchInv
      <3> QED BY <1>1, <1>2, <2>2, <3>1, <3>2 DEF BatchInv, HoldsCapacityLock, Kept, Stored
    <2> QED BY <2>1, <2>2
  <1>5. LockExclusive'
    BY <1>2 DEF StoreInv, LockExclusive, HoldsCapacityLock
  <1>6. DoneIsDelivered' /\ NothingStranded' /\ FinishedIsDelivered' /\ DuplicateIsDelivered'
    BY <1>1 DEF StoreInv, DoneIsDelivered, NothingStranded, FinishedIsDelivered, DuplicateIsDelivered
  <1>7. OffsetsInLog'
    BY <1>0, <1>3 DEF StoreInv, OffsetsInLog, BatchInv
  <1>8. NothingLost'
    <2> SUFFICES ASSUME NEW q \in Partitions, NEW n \in 1 .. committed'[q]
                 PROVE Stored(Log[q][n]) \/ Log[q][n] \in effect
      BY <1>1 DEF NothingLost, Stored
    <2>1. CASE committed'[q] = committed[q]
      BY <2>1 DEF StoreInv, NothingLost
    <2>2. CASE q = p /\ assigned[p] = i /\ committed'[q] = ingest[i].next
      <3>1. n <= committed[p] \/ Log[p][n] \in ingest[i].batch
        BY <1>0, <2>2 DEF BatchInv
      <3>2. CASE Log[p][n] \in ingest[i].batch
        BY <1>0, <2>2, <3>2 DEF BatchInv, Kept
      <3>3. CASE n <= committed[p]
        <4>1. n \in 1 .. committed[p]
          BY <1>0, <2>2, <3>3 DEF Batch
        <4> QED BY <2>2, <4>1 DEF StoreInv, NothingLost
      <3> QED BY <3>1, <3>2, <3>3
    <2> QED BY <1>3, <2>1, <2>2
  <1> QED BY <1>4, <1>5, <1>6, <1>7, <1>8 DEF StoreInv

(* A partition changes hands only to a consumer between two polls.             *)
LEMMA RebalanceStore ==
  ASSUME TypeOK, StoreInv, NEW i \in Instances, NEW p \in Partitions, Rebalance(p, i)
  PROVE StoreInv'
  <1> USE DEF dbVars, kafkaVars, memoryVars, partnerVars
  <1>1. UNCHANGED <<inbox, effect, ingest, committed, finished, run>> /\ ingest[i].phase = "idle"
    BY DEF Rebalance
  <1>2. \A q \in Partitions : assigned'[q] = IF q = p THEN i ELSE assigned[q]
    BY DEF Rebalance, TypeOK, KafkaType
  <1>3. ASSUME NEW j \in Instances PROVE BatchInv(j)'
    <2>1. BatchInv(j)
      BY DEF StoreInv
    <2>2. ingest[j].phase # "idle" /\ assigned'[ingest[j].partition] = j
            => assigned[ingest[j].partition] = j
      BY <1>1, <1>2, <2>1 DEF BatchInv
    <2> QED BY <1>1, <2>1, <2>2 DEF BatchInv, HoldsCapacityLock, Kept, Stored
  <1>4. LockExclusive' /\ OffsetsInLog' /\ NothingLost'
    BY <1>1 DEF StoreInv, LockExclusive, OffsetsInLog, NothingLost, HoldsCapacityLock, Stored
  <1>5. DoneIsDelivered' /\ NothingStranded' /\ FinishedIsDelivered' /\ DuplicateIsDelivered'
    BY <1>1 DEF StoreInv, DoneIsDelivered, NothingStranded, FinishedIsDelivered, DuplicateIsDelivered
  <1> QED BY <1>3, <1>4, <1>5 DEF StoreInv

(* A crash forgets the batch before its offset is committed.                   *)
LEMMA CrashStore ==
  ASSUME TypeOK, StoreInv, NEW i \in Instances, Crash(i)
  PROVE StoreInv'
  <1> USE DEF dbVars, kafkaVars, memoryVars, partnerVars
  <1>0. /\ ingest \in [Instances -> Batch] /\ run \in [Instances -> [Events -> Run]]
        /\ finished \in [Instances -> SUBSET Events]
    BY DEF TypeOK, KafkaType, MemoryType
  <1>1. UNCHANGED <<inbox, effect, assigned, committed>>
    BY DEF Crash
  <1>2. /\ \A j \in Instances : j # i => ingest'[j] = ingest[j]
        /\ ingest'[i].phase = "idle"
    BY <1>0 DEF Crash, NoBatch
  <1>3. \A j \in Instances : finished'[j] \subseteq finished[j]
    BY <1>0 DEF Crash
  <1>4. ASSUME NEW j \in Instances, NEW d \in Events
        PROVE run'[j][d].phase \in {"idle", run[j][d].phase}
    BY <1>0 DEF Crash, NoRun
  <1>5. ASSUME NEW j \in Instances PROVE BatchInv(j)'
    <2>1. BatchInv(j)
      BY DEF StoreInv
    <2>2. CASE j = i
      BY <1>2, <2>2 DEF BatchInv, HoldsCapacityLock
    <2>3. CASE j # i
      BY <1>1, <1>2, <2>1, <2>3 DEF BatchInv, HoldsCapacityLock, Kept, Stored
    <2> QED BY <2>2, <2>3
  <1>6. LockExclusive'
    BY <1>2 DEF StoreInv, LockExclusive, HoldsCapacityLock
  <1>7. OffsetsInLog' /\ NothingLost' /\ DoneIsDelivered' /\ NothingStranded'
    BY <1>1 DEF StoreInv, OffsetsInLog, NothingLost, DoneIsDelivered, NothingStranded, Stored
  <1>8. FinishedIsDelivered' /\ DuplicateIsDelivered'
    BY <1>1, <1>3, <1>4 DEF StoreInv, FinishedIsDelivered, DuplicateIsDelivered
  <1> QED BY <1>5, <1>6, <1>7, <1>8 DEF StoreInv

(* Every step keeps the store invariant.                                       *)
LEMMA NextStore ==
  ASSUME TypeOK, TypeOK', StoreInv, [Next]_vars
  PROVE StoreInv'
  <1>1. ASSUME NEW i \in Instances, Ingest(i) PROVE StoreInv'
    BY <1>1, ReadStore, StoreAllStore, AcknowledgeStore, RebalanceStore DEF Ingest
  <1>2. ASSUME NEW i \in Instances, FindReady(i) \/ Renew(i) PROVE StoreInv'
    BY <1>2, InstanceRows, RowsMoveStore
  <1>3. ASSUME NEW i \in Instances, Crash(i) PROVE StoreInv'
    BY <1>3, CrashStore
  <1>4. ASSUME NEW i \in Instances, NEW e \in Events, Dispatch(i, e) \/ Work(i, e) PROVE StoreInv'
    BY <1>4, WorkerRows, RowsMoveStore
  <1>5. CASE (\E e \in Events : LateCall(e) \/ Purge(e)) \/ Tick \/ Stall \/ RenewStall \/ UNCHANGED vars
    BY <1>5, OtherRows, RowsMoveStore
  <1> QED BY <1>1, <1>2, <1>3, <1>4, <1>5 DEF Next

(* It holds initially.                                                         *)
LEMMA InitStore ==
  ASSUME Init PROVE StoreInv
  <1>1. \A i \in Instances : ingest[i].phase = "idle" /\ finished[i] = {}
    BY DEF Init, NoBatch
  <1>2. \A i \in Instances, e \in Events : run[i][e].phase = "idle"
    BY DEF Init, NoRun
  <1>3. \A e \in Events : inbox[e].state = "ABSENT"
    BY DEF Init, NoRow
  <1>4. \A p \in Partitions : committed[p] = 0 /\ Len(Log[p]) \in Nat
    BY ConstantTypes DEF Init
  <1>5. effect = {}
    BY DEF Init
  <1>6. NothingLost /\ OffsetsInLog
    BY <1>4 DEF NothingLost, OffsetsInLog
  <1>7. LockExclusive /\ \A i \in Instances : BatchInv(i)
    BY <1>1 DEF LockExclusive, BatchInv, HoldsCapacityLock
  <1>8. FinishedIsDelivered /\ DuplicateIsDelivered /\ DoneIsDelivered /\ NothingStranded
    BY <1>1, <1>2, <1>3, <1>5 DEF FinishedIsDelivered, DuplicateIsDelivered, DoneIsDelivered, NothingStranded
  <1> QED BY <1>6, <1>7, <1>8 DEF StoreInv

(* The store invariant holds in every reachable state.                         *)
THEOREM StoreInvariant == Spec => []StoreInv
  <1>1. Init => StoreInv
    BY InitStore
  <1>2. TypeOK /\ TypeOK' /\ StoreInv /\ [Next]_vars => StoreInv'
    BY NextStore
  <1> QED BY <1>1, <1>2, TypeCorrect, PTL DEF Spec

(* For every number of instances and partitions: storeAll never strands a      *)
(* delivered event in the inbox, an acknowledged record is never lost, and an  *)
(* instance refuses only events that are delivered                             *)
(* (AdmissionPolicy.markFinished).                                             *)
THEOREM StoreCorrect == Spec => [](NothingStranded /\ NothingLost /\ FinishedIsDelivered)
  <1>1. StoreInv => NothingStranded /\ NothingLost /\ FinishedIsDelivered
    BY DEF StoreInv
  <1> QED BY <1>1, StoreInvariant, PTL

(* The token of a row changes under a valid lease only in the last step of the *)
(* worker that holds the token.                                                *)
LEMMA NextEndsClaim ==
  ASSUME TypeOK, StoreInv, [Next]_vars, NEW e \in Events
  PROVE ClaimEndsByOwner(e)
  <1> USE DEF dbVars, kafkaVars, memoryVars, partnerVars
  <1>0. /\ inbox \in [Events -> Row] /\ run \in [Instances -> [Events -> Run]]
    BY DEF TypeOK, DatabaseType, MemoryType
  <1> SUFFICES ASSUME inbox[e].state = "CLAIMED", inbox[e].lease # Expired, Token(e)' # Token(e)
               PROVE \E i \in Instances : /\ inbox[e].owner = i
                                         /\ run[i][e].gen = inbox[e].gen
                                         /\ run'[i][e].phase = "idle"
    BY DEF ClaimEndsByOwner
  <1>1. inbox'[e] # inbox[e]
    BY DEF Token
  <1>2. ASSUME NEW i \in Instances, StoreAll(i) PROVE FALSE
    <2>1. e \notin NewRows(i)
      BY <1>2 DEF StoreAll, StoreInv, BatchInv, HoldsCapacityLock, NewRows, Stored
    <2> QED BY <1>1, <1>2, <2>1 DEF StoreAll
  <1>3. ASSUME NEW i \in Instances, Ingest(i) \/ FindReady(i) \/ Crash(i) PROVE FALSE
    BY <1>1, <1>2, <1>3 DEF Ingest, Poll, Rebalance, ReadInbox, ReadEffect, CheckCapacity,
       InboxFull, IngestError, Acknowledge, FindReady, Crash
  <1>4. ASSUME NEW i \in Instances, Renew(i) PROVE FALSE
    <2>1. UNCHANGED inbox \/ \E d \in Events : inbox' = [inbox EXCEPT ![d].lease = LeaseTicks]
      BY <1>4 DEF Renew, RenewPermit, RenewError, RenewRow
    <2>2. ASSUME NEW d \in Events, inbox' = [inbox EXCEPT ![d].lease = LeaseTicks]
          PROVE Token(e)' = Token(e)
      BY <1>0, <2>2 DEF Token, Row
    <2> QED BY <1>1, <2>1, <2>2
  <1>5. CASE Tick \/ Stall \/ RenewStall
    <2>1. inbox[e] \in Row
      BY <1>0
    <2>2. inbox' = [d \in Events |->
                     [inbox[d] EXCEPT !.lease = Less(@), !.wait = IF @ = 0 THEN 0 ELSE @ - 1]]
      BY <1>5 DEF Tick, Stall, RenewStall, Elapse
    <2>3. Token(e)' = Token(e)
      BY <2>1, <2>2 DEF Token, Row
    <2> QED BY <2>3
  <1>6. ASSUME NEW d \in Events, LateCall(d) \/ Purge(d) PROVE FALSE
    BY <1>0, <1>1, <1>6 DEF LateCall, Purge
  <1>7. ASSUME NEW i \in Instances, NEW d \in Events, Dispatch(i, d) PROVE FALSE
    <2>1. ClaimRow(i, d) => d # e
      BY DEF ClaimRow, CanClaim, Ready, Due
    <2> QED BY <1>0, <1>1, <1>7, <2>1
            DEF Dispatch, SkipCandidate, ClaimRefused, ClaimRow, ClaimError
  <1>8. ASSUME NEW i \in Instances, NEW d \in Events, Work(i, d)
        PROVE /\ inbox[e].owner = i
              /\ run[i][e].gen = inbox[e].gen
              /\ run'[i][e].phase = "idle"
    <2>1. d = e
      <3>1. d # e => inbox'[e] = inbox[e]
        BY <1>0, <1>8 DEF Work, CheckDelivered, FinishDuplicate, CheckOrder, Call, CallAnswerLost,
           CallRefused, CallTimesOut, RefuseStale, RecordDelivery, GiveBack, WorkerDatabaseError, Complete
      <3> QED BY <1>1, <3>1
    <2>2. Holds(i, e, run[i][e].gen) /\ Finish(i, e)
      BY <1>1, <1>8, <2>1 DEF Work, CheckDelivered, FinishDuplicate, CheckOrder, Call, CallAnswerLost,
         CallRefused, CallTimesOut, RefuseStale, RecordDelivery, GiveBack, WorkerDatabaseError, Complete
    <2>3. run'[i][e].phase = "idle"
      BY <2>2, RunPhase
    <2> QED BY <2>2, <2>3 DEF Holds
  <1>9. CASE UNCHANGED vars
    BY <1>1, <1>9 DEF vars
  <1> QED BY <1>3, <1>4, <1>5, <1>6, <1>7, <1>8, <1>9 DEF Next

(* No action of another instance, and none of a worker whose claim was taken   *)
(* over, ends a claim under a valid lease.                                     *)
THEOREM ClaimsEndByOwner == Spec => OnlyOwnerEndsClaim
  <1>1. TypeOK /\ StoreInv /\ [Next]_vars => [\A e \in Events : ClaimEndsByOwner(e)]_vars
    BY NextEndsClaim
  <1> QED BY <1>1, TypeCorrect, StoreInvariant, PTL DEF Spec, OnlyOwnerEndsClaim

-----------------------------------------------------------------------------
(* The limits of the inbox.  What storeAll counted still fits when it inserts, *)
(* because in between rows are only finished and purged.                       *)

FitInv ==
  /\ WithinCapacity
  /\ \A i \in Instances : ingest[i].phase = "counted" => Fits(NewRows(i))

(* What is counted is finite, and so are the limits.                           *)
LEMMA CountedSets ==
  /\ PendingLimit \in Nat /\ RetainedLimit \in Nat
  /\ IsFiniteSet(Pending) /\ Cardinality(Pending) \in Nat
  /\ IsFiniteSet(Retained) /\ Cardinality(Retained) \in Nat
  /\ \A S \in SUBSET Events : IsFiniteSet(S) /\ Cardinality(S) \in Nat
  <1>1. IsFiniteSet(Events) /\ PendingLimit \in Nat /\ RetainedLimit \in Nat
    BY InboxAssumption DEF InboxAssumption
  <1>2. \A S \in SUBSET Events : IsFiniteSet(S) /\ Cardinality(S) \in Nat
    BY <1>1, FS_Subset, FS_CardinalityType
  <1>3. Pending \in SUBSET Events /\ Retained \in SUBSET Events
    BY DEF Pending, Retained
  <1> QED BY <1>1, <1>2, <1>3

(* Where no row is added, what fitted fits.                                    *)
LEMMA FewerRows ==
  ASSUME \A e \in Events : inbox[e].state = "ABSENT" => inbox'[e].state = "ABSENT",
         \A e \in Events : inbox'[e].state \in {"PENDING", "CLAIMED"} => inbox[e].state \in {"PENDING", "CLAIMED"}
  PROVE /\ Cardinality(Pending') <= Cardinality(Pending) /\ Cardinality(Pending') \in Nat
        /\ Cardinality(Retained') <= Cardinality(Retained) /\ Cardinality(Retained') \in Nat
  <1>1. Pending' \in SUBSET Pending
    BY DEF Pending
  <1>2. Retained' \in SUBSET Retained
    BY DEF Retained, Stored
  <1>3. Pending' \in SUBSET Events /\ Retained' \in SUBSET Events
    BY DEF Pending, Retained
  <1> QED BY <1>1, <1>2, <1>3, CountedSets, FS_Subset

(* And the limits hold, and stay prepared for.                                 *)
LEMMA FitStays ==
  ASSUME TypeOK, FitInv,
         \A e \in Events : inbox[e].state = "ABSENT" => inbox'[e].state = "ABSENT",
         \A e \in Events : inbox'[e].state \in {"PENDING", "CLAIMED"} => inbox[e].state \in {"PENDING", "CLAIMED"},
         \A i \in Instances : ingest'[i].phase = "counted" =>
           /\ ingest'[i].batch = ingest[i].batch /\ ingest'[i].known = ingest[i].known
           /\ Fits(NewRows(i))
  PROVE FitInv'
  <1>0. /\ Cardinality(Pending') <= Cardinality(Pending) /\ Cardinality(Pending') \in Nat
        /\ Cardinality(Retained') <= Cardinality(Retained) /\ Cardinality(Retained') \in Nat
        /\ Cardinality(Pending) \in Nat /\ Cardinality(Retained) \in Nat
        /\ PendingLimit \in Nat /\ RetainedLimit \in Nat
    BY FewerRows, CountedSets
  <1>1. WithinCapacity'
    BY <1>0 DEF FitInv, WithinCapacity
  <1>2. ASSUME NEW i \in Instances, ingest'[i].phase = "counted" PROVE Fits(NewRows(i))'
    <2>1. NewRows(i)' = NewRows(i) /\ Fits(NewRows(i))
      BY <1>2 DEF NewRows
    <2>2. Cardinality(NewRows(i)) \in Nat
      <3>1. NewRows(i) \in SUBSET Events
        BY DEF NewRows, TypeOK, KafkaType, Batch
      <3> QED BY <3>1, CountedSets
    <2> QED BY <1>0, <2>1, <2>2 DEF Fits
  <1> QED BY <1>1, <1>2 DEF FitInv

(* The rows that fit are inserted while nobody else counts.                    *)
LEMMA StoreAllFits ==
  ASSUME TypeOK, TypeOK', StoreInv, FitInv, NEW i \in Instances, StoreAll(i)
  PROVE FitInv'
  <1> DEFINE rows == NewRows(i)
  <1>1. ingest[i].phase = "counted" /\ Fits(rows) /\ rows \in SUBSET Events
    BY DEF StoreAll, FitInv, NewRows, TypeOK, KafkaType, Batch
  <1>2. \A e \in Events : inbox'[e].state = IF e \in rows THEN "PENDING" ELSE inbox[e].state
    BY DEF StoreAll, NewRow, NoRow
  <1>3. Pending' = Pending \cup rows
    BY <1>1, <1>2 DEF Pending
  <1>4. Retained' = Retained \cup rows
    BY <1>1, <1>2 DEF Retained, Stored
  <1> HIDE DEF rows
  <1>5. /\ Cardinality(Pending') <= Cardinality(Pending) + Cardinality(rows)
        /\ Cardinality(Retained') <= Cardinality(Retained) + Cardinality(rows)
    <2>0. IsFiniteSet(rows) /\ Cardinality(rows) \in Nat
      BY <1>1, CountedSets
    <2>1. ASSUME NEW S \in SUBSET Events PROVE Cardinality(S \cup rows) <= Cardinality(S) + Cardinality(rows)
      <3>1. IsFiniteSet(S) /\ Cardinality(S) \in Nat /\ Cardinality(S \cap rows) \in Nat
        BY CountedSets
      <3>2. Cardinality(S \cup rows) = Cardinality(S) + Cardinality(rows) - Cardinality(S \cap rows)
        BY <2>0, <3>1, FS_Union
      <3> QED BY <2>0, <3>1, <3>2
    <2>2. Pending \in SUBSET Events /\ Retained \in SUBSET Events
      BY DEF Pending, Retained
    <2> QED BY <1>3, <1>4, <2>1, <2>2
  <1>6. /\ Cardinality(Pending') \in Nat /\ Cardinality(Retained') \in Nat
        /\ Cardinality(Pending) \in Nat /\ Cardinality(Retained) \in Nat /\ Cardinality(rows) \in Nat
        /\ PendingLimit \in Nat /\ RetainedLimit \in Nat
    <2>1. Pending' \in SUBSET Events /\ Retained' \in SUBSET Events
      BY DEF Pending, Retained
    <2> QED BY <1>1, <2>1, CountedSets
  <1>7. WithinCapacity'
    <2>1. CASE rows = {}
      BY <1>3, <1>4, <2>1 DEF FitInv, WithinCapacity
    <2>2. CASE rows # {}
      BY <1>1, <1>5, <1>6, <2>2 DEF Fits, WithinCapacity
    <2> QED BY <2>1, <2>2
  <1>8. ASSUME NEW j \in Instances, ingest'[j].phase = "counted" PROVE FALSE
    <2>1. ingest \in [Instances -> Batch]
      BY DEF TypeOK, KafkaType
    <2>2. j # i /\ ingest[j].phase = "counted"
      BY <1>8, <2>1 DEF StoreAll, Batch
    <2> QED BY <1>1, <2>2 DEF StoreInv, LockExclusive, HoldsCapacityLock
  <1> QED BY <1>7, <1>8 DEF FitInv

(* The other steps of a listener insert nothing, and only CheckCapacity counts.*)
LEMMA ListenerFits ==
  ASSUME TypeOK, StoreInv, FitInv, NEW i \in Instances, Ingest(i), ~StoreAll(i)
  PROVE FitInv'
  <1> USE DEF dbVars, kafkaVars, memoryVars, partnerVars
  <1>0. ingest \in [Instances -> Batch] /\ UNCHANGED inbox
    BY DEF TypeOK, KafkaType, Ingest, Poll, Rebalance, ReadInbox, ReadEffect, CheckCapacity,
           InboxFull, IngestError, Acknowledge
  <1>1. \A j \in Instances : j # i => ingest'[j] = ingest[j]
    BY <1>0 DEF Ingest, Poll, Rebalance, ReadInbox, ReadEffect, CheckCapacity, InboxFull, IngestError, Acknowledge
  <1>2. ingest'[i].phase = "counted" => \/ ingest'[i] = ingest[i]
                                        \/ CheckCapacity(i)
    <2>1. ASSUME NEW p \in Partitions, Poll(i, p) PROVE ingest'[i].phase = "polled"
      BY <1>0, <2>1 DEF Poll
    <2>2. ReadInbox(i) => ingest'[i].phase = "inboxRead"
      BY <1>0 DEF ReadInbox, Batch
    <2>3. ReadEffect(i) => ingest'[i].phase = "effectRead"
      BY <1>0 DEF ReadEffect, Batch
    <2>4. InboxFull(i) \/ IngestError(i) \/ Acknowledge(i) => ingest'[i].phase = "idle"
      BY <1>0 DEF InboxFull, IngestError, Acknowledge, NoBatch
    <2>5. ASSUME NEW p \in Partitions, Rebalance(p, i) PROVE ingest' = ingest
      BY <2>5 DEF Rebalance
    <2> QED BY <2>1, <2>2, <2>3, <2>4, <2>5 DEF Ingest
  <1>3. CheckCapacity(i) => /\ ingest'[i].batch = ingest[i].batch /\ ingest'[i].known = ingest[i].known
                            /\ Fits(NewRows(i))
    BY <1>0 DEF CheckCapacity, Batch
  <1>4. \A j \in Instances : ingest'[j].phase = "counted" =>
          /\ ingest'[j].batch = ingest[j].batch /\ ingest'[j].known = ingest[j].known
          /\ Fits(NewRows(j))
    <2> SUFFICES ASSUME NEW j \in Instances, ingest'[j].phase = "counted"
                 PROVE /\ ingest'[j].batch = ingest[j].batch /\ ingest'[j].known = ingest[j].known
                       /\ Fits(NewRows(j))
      OBVIOUS
    <2>1. CASE ingest'[j] = ingest[j]
      BY <2>1 DEF FitInv
    <2>2. CASE ingest'[j] # ingest[j]
      BY <1>1, <1>2, <1>3, <2>2
    <2> QED BY <2>1, <2>2
  <1> QED BY <1>0, <1>4, FitStays

(* Elsewhere rows are claimed, given back, finished or purged: a finished row  *)
(* is delivered, and a delivered one is not pending again.                     *)
LEMMA RowsMoveFits ==
  ASSUME TypeOK, TypeOK', StoreInv, FitInv, RowsMove, effect \subseteq effect'
  PROVE FitInv'
  <1>1. \A e \in Events : inbox[e].state = "ABSENT" => inbox'[e].state = "ABSENT"
    BY DEF RowsMove
  <1>2. \A e \in Events : inbox'[e].state \in {"PENDING", "CLAIMED"} => inbox[e].state \in {"PENDING", "CLAIMED"}
    <2> SUFFICES ASSUME NEW e \in Events, inbox[e].state \notin {"PENDING", "CLAIMED"}
                 PROVE inbox'[e].state \notin {"PENDING", "CLAIMED"}
      OBVIOUS
    <2>1. inbox[e].state \in {"ABSENT", "PENDING", "CLAIMED", "DONE"}
      BY DEF TypeOK, DatabaseType, Row
    <2>2. inbox[e].state = "DONE" => e \in effect'
      BY DEF StoreInv, DoneIsDelivered
    <2> QED BY <1>1, <2>1, <2>2 DEF RowsMove
  <1>3. \A i \in Instances : ingest'[i].phase = "counted" =>
          /\ ingest'[i].batch = ingest[i].batch /\ ingest'[i].known = ingest[i].known
          /\ Fits(NewRows(i))
    BY DEF RowsMove, FitInv
  <1> QED BY <1>1, <1>2, <1>3, FitStays

(* A delivery is never taken back.                                             *)
LEMMA EffectGrows ==
  ASSUME [Next]_vars
  PROVE effect \subseteq effect'
  <1> USE DEF dbVars
  <1>1. ASSUME NEW i \in Instances, Ingest(i) \/ FindReady(i) \/ Renew(i) \/ Crash(i) PROVE effect' = effect
    BY <1>1 DEF Ingest, Poll, Rebalance, ReadInbox, ReadEffect, CheckCapacity, StoreAll, InboxFull, IngestError,
       Acknowledge, FindReady, Renew, RenewPermit, RenewError, RenewRow, Crash
  <1>2. ASSUME NEW i \in Instances, NEW e \in Events, Dispatch(i, e) PROVE effect' = effect
    BY <1>2 DEF Dispatch, SkipCandidate, ClaimRefused, ClaimRow, ClaimError
  <1>3. ASSUME NEW i \in Instances, NEW e \in Events, Work(i, e) PROVE effect \subseteq effect'
    BY <1>3 DEF Work, CheckDelivered, FinishDuplicate, CheckOrder, Call, CallAnswerLost,
       CallRefused, CallTimesOut, RefuseStale, RecordDelivery, GiveBack, WorkerDatabaseError
  <1>4. ASSUME NEW e \in Events, LateCall(e) \/ Purge(e) PROVE effect' = effect
    BY <1>4 DEF LateCall, Purge
  <1>5. CASE Tick \/ Stall \/ RenewStall \/ UNCHANGED vars
    <2>1. effect' = effect
      BY <1>5 DEF Tick, Stall, RenewStall, Elapse, vars
    <2> QED BY <2>1
  <1> QED BY <1>1, <1>2, <1>3, <1>4, <1>5 DEF Next

(* No action makes the inbox outgrow its capacity.                             *)
LEMMA NextFits ==
  ASSUME TypeOK, TypeOK', StoreInv, FitInv, [Next]_vars
  PROVE FitInv'
  <1>0. effect \subseteq effect'
    BY EffectGrows
  <1>1. ASSUME NEW i \in Instances, Ingest(i) PROVE FitInv'
    BY <1>1, StoreAllFits, ListenerFits
  <1>2. ASSUME NEW i \in Instances, FindReady(i) \/ Renew(i) PROVE FitInv'
    BY <1>0, <1>2, InstanceRows, RowsMoveFits
  <1>3. ASSUME NEW i \in Instances, Crash(i) PROVE FitInv'
    <2>1. /\ UNCHANGED inbox /\ ingest \in [Instances -> Batch] /\ ingest' = [ingest EXCEPT ![i] = NoBatch]
      BY <1>3 DEF Crash, dbVars, TypeOK, KafkaType
    <2>2. \A j \in Instances : ingest'[j].phase = "counted" => ingest'[j] = ingest[j]
      BY <2>1 DEF NoBatch
    <2>3. \A j \in Instances : ingest'[j].phase = "counted" =>
            /\ ingest'[j].batch = ingest[j].batch /\ ingest'[j].known = ingest[j].known
            /\ Fits(NewRows(j))
      BY <2>2 DEF FitInv
    <2> QED BY <2>1, <2>3, FitStays
  <1>4. ASSUME NEW i \in Instances, NEW e \in Events, Dispatch(i, e) \/ Work(i, e) PROVE FitInv'
    BY <1>0, <1>4, WorkerRows, RowsMoveFits
  <1>5. CASE (\E e \in Events : LateCall(e) \/ Purge(e)) \/ Tick \/ Stall \/ RenewStall \/ UNCHANGED vars
    BY <1>0, <1>5, OtherRows, RowsMoveFits
  <1> QED BY <1>1, <1>2, <1>3, <1>4, <1>5 DEF Next

(* An inbox starts empty.                                                      *)
LEMMA InitFits == Init => FitInv
  <1> SUFFICES ASSUME Init PROVE FitInv
    OBVIOUS
  <1>1. Pending = {} /\ Retained = {}
    BY DEF Init, NoRow, Pending, Retained, Stored
  <1>2. WithinCapacity
    BY <1>1, CountedSets, FS_EmptySet DEF WithinCapacity
  <1>3. \A i \in Instances : ingest[i].phase # "counted"
    BY DEF Init, NoBatch
  <1> QED BY <1>2, <1>3 DEF FitInv

(* For every number of ingesting instances, and although the rows are counted  *)
(* in one statement and inserted in another: app.backlog-limit and             *)
(* app.retained-limit hold for the inbox they share.                           *)
THEOREM CapacityCorrect == Spec => []WithinCapacity
  <1>1. Init => FitInv
    BY InitFits
  <1>2. TypeOK /\ TypeOK' /\ StoreInv /\ FitInv /\ [Next]_vars => FitInv'
    BY NextFits
  <1>3. FitInv => WithinCapacity
    BY DEF FitInv
  <1> QED BY <1>1, <1>2, <1>3, TypeCorrect, StoreInvariant, PTL DEF Spec

-----------------------------------------------------------------------------
(* The permits of a seller.  A claim that a worker runs has a permit of its    *)
(* own whose lease outlasts the row's, or is about to be renewed.              *)

Runs(i, e) == run[i][e].phase # "idle" /\ Holds(i, e, run[i][e].gen)

Covered(i, e) ==
  LET c == run[i][e]
      p == permit[EventSeller(e)][c.slot]
  IN /\ HoldsPermit(i, e, c.gen, c.slot)
     /\ p.lease # Expired
     /\ \/ inbox[e].lease <= p.lease
        \/ keeper[i] = [event |-> e, gen |-> c.gen, slot |-> c.slot]

PermitInv ==
  /\ \A i \in Instances, e \in Events : Runs(i, e) => Covered(i, e)
  /\ \A i \in Instances \ up, e \in Events : run[i][e].phase = "idle"

(* One permit is one claim's, so the claims that run are not more than the     *)
(* permits.                                                                    *)
LEMMA PermitsSuffice ==
  ASSUME TypeOK, PermitInv
  PROVE SellerLimit
  <1> SUFFICES ASSUME NEW s \in Sellers PROVE Cardinality(Working(s)) <= Permits
    BY DEF SellerLimit
  <1> DEFINE slot(e) == run[inbox[e].owner][e].slot
             f == [e \in Working(s) |-> slot(e)]
  <1>1. \A e \in Working(s) : /\ e \in Events /\ slot(e) \in Slots /\ EventSeller(e) = s
                              /\ permit[s][slot(e)].event = e
    <2> SUFFICES ASSUME NEW e \in Working(s)
                 PROVE /\ e \in Events /\ slot(e) \in Slots /\ EventSeller(e) = s
                       /\ permit[s][slot(e)].event = e
      OBVIOUS
    <2>1. e \in Events /\ EventSeller(e) = s
      BY DEF Working
    <2>2. PICK i \in Instances : e \in Active(i) /\ Holds(i, e, run[i][e].gen)
      BY DEF Working
    <2>3. inbox[e].owner = i /\ Runs(i, e)
      BY <2>2 DEF Active, Holds, Runs
    <2>4. HoldsPermit(i, e, run[i][e].gen, run[i][e].slot)
      BY <2>1, <2>3 DEF PermitInv, Covered
    <2>5. run[i][e].slot \in Slots
      BY <2>1 DEF TypeOK, MemoryType, Run
    <2> QED BY <2>1, <2>3, <2>4, <2>5 DEF HoldsPermit
  <1> HIDE DEF slot
  <1>2. f \in [Working(s) -> Slots]
    BY <1>1
  <1>3. \A d, e \in Working(s) : f[d] = f[e] => d = e
    BY <1>1
  <1>4. f \in Injection(Working(s), Slots)
    BY <1>2, <1>3 DEF Injection, IsInjective
  <1> HIDE DEF f
  <1>5. IsFiniteSet(Slots) /\ Cardinality(Slots) = Permits
    <2>1. 1 \in Int /\ Permits \in Int /\ Permits \in Nat \ {0}
      BY ConstantTypes
    <2>2. IsFiniteSet(1 .. Permits) /\ Cardinality(1 .. Permits) = Permits - 1 + 1
      BY <2>1, FS_Interval
    <2> QED BY <2>1, <2>2 DEF Slots
  <1>6. Cardinality(Working(s)) <= Cardinality(Slots)
    BY <1>4, <1>5, FS_Injection
  <1> QED BY <1>5, <1>6

(* Types of what a cover speaks of.                                            *)
LEMMA CoverTypes ==
  ASSUME TypeOK, NEW i \in Instances, NEW e \in Events
  PROVE /\ inbox[e].lease \in Leases /\ run[i][e] \in Run
        /\ run[i][e].slot \in Slots /\ run[i][e].gen \in Nat /\ EventSeller(e) \in Sellers
        /\ \A k \in Slots : permit[EventSeller(e)][k] \in Permit /\ permit[EventSeller(e)][k].lease \in Leases
  <1>1. /\ inbox[e] \in Row /\ run[i][e] \in Run /\ EventSeller(e) \in Sellers
        /\ \A k \in Slots : permit[EventSeller(e)][k] \in Permit
    BY EventSellerType DEF TypeOK, DatabaseType, MemoryType
  <1> QED BY <1>1, FieldTypes

(* A cover stays when nothing it speaks of changes.                            *)
LEMMA CoverStays ==
  ASSUME NEW i \in Instances, NEW e \in Events, Covered(i, e),
         run'[i][e].gen = run[i][e].gen, run'[i][e].slot = run[i][e].slot,
         permit'[EventSeller(e)][run[i][e].slot] = permit[EventSeller(e)][run[i][e].slot],
         inbox'[e].lease = inbox[e].lease, keeper'[i] = keeper[i]
  PROVE Covered(i, e)'
  BY DEF Covered, HoldsPermit

(* What a step of a worker does to claims and permits.                         *)
LEMMA WorkerClaims ==
  ASSUME TypeOK, NEW i \in Instances, NEW e \in Events, Work(i, e)
  PROVE /\ UNCHANGED <<keeper, up>> /\ i \in up
        /\ \/ UNCHANGED <<inbox, permit>> /\ \E ph \in Phases : GoTo(i, e, ph)
           \/ UNCHANGED permit /\ Finish(i, e)
           \/ permit' = Release(i, e) /\ Finish(i, e)
        /\ \A d \in Events : inbox'[d] = inbox[d] \/ inbox'[d].state # "CLAIMED"
  <1> USE DEF dbVars, memoryVars
  <1>0. inbox \in [Events -> Row]
    BY DEF TypeOK, DatabaseType
  <1>1. CASE CheckDelivered(i, e) \/ CheckOrder(i, e) \/ Call(i, e) \/ CallAnswerLost(i, e)
             \/ CallRefused(i, e) \/ CallTimesOut(i, e)
    BY <1>1 DEF CheckDelivered, CheckOrder, Call, CallAnswerLost, CallRefused, CallTimesOut, At, Phases
  <1>2. CASE RefuseStale(i, e)
    BY <1>2 DEF RefuseStale, At
  <1>3. CASE WorkerDatabaseError(i, e)
    BY <1>3 DEF WorkerDatabaseError, Phases
  <1>4. ASSUME Complete(i, e) PROVE \A d \in Events : inbox'[d] = inbox[d] \/ inbox'[d].state # "CLAIMED"
    BY <1>0, <1>4 DEF Complete, Row
  <1>5. CASE FinishDuplicate(i, e)
    <2>1. permit' = Release(i, e) /\ (UNCHANGED inbox \/ Complete(i, e))
      BY <1>5 DEF FinishDuplicate, Complete
    <2> QED BY <1>4, <1>5, <2>1 DEF FinishDuplicate, At
  <1>6. CASE RecordDelivery(i, e)
    <2>1. CASE e \in effect \/ NextInOrder(e)
      <3>1. permit' = Release(i, e) /\ Complete(i, e) /\ Finish(i, e)
        BY <1>6, <2>1 DEF RecordDelivery, Complete
      <3> QED BY <1>4, <1>6, <3>1 DEF RecordDelivery, At
    <2>2. CASE ~(e \in effect \/ NextInOrder(e))
      BY <1>6, <2>2 DEF RecordDelivery, At, Phases
    <2> QED BY <2>1, <2>2
  <1>7. CASE GiveBack(i, e)
    <2>1. \A d \in Events : inbox'[d] = inbox[d] \/ inbox'[d].state # "CLAIMED"
      <3>1. UNCHANGED inbox \/ \E delay \in 0 .. MaxBackoff :
              inbox' = [inbox EXCEPT ![e].state = "PENDING", ![e].owner = None,
                                     ![e].lease = Expired, ![e].wait = delay]
        BY <1>7 DEF GiveBack
      <3> QED BY <1>0, <3>1 DEF Row
    <2> QED BY <1>7, <2>1 DEF GiveBack, At
  <1> QED BY <1>1, <1>2, <1>3, <1>5, <1>6, <1>7 DEF Work

(* A worker gives back no permit but its own.                                  *)
LEMMA WorkCovers ==
  ASSUME TypeOK, PermitInv, NEW w \in Instances, NEW d \in Events, Work(w, d)
  PROVE PermitInv'
  <1>0. /\ UNCHANGED <<keeper, up>> /\ w \in up
        /\ \/ UNCHANGED <<inbox, permit>> /\ \E ph \in Phases : GoTo(w, d, ph)
           \/ UNCHANGED permit /\ Finish(w, d)
           \/ permit' = Release(w, d) /\ Finish(w, d)
        /\ \A e \in Events : inbox'[e] = inbox[e] \/ inbox'[e].state # "CLAIMED"
    BY WorkerClaims
  <1>t. run \in [Instances -> [Events -> Run]] /\ permit \in [Sellers -> [Slots -> Permit]]
    BY DEF TypeOK, MemoryType, DatabaseType
  <1>r. \A i \in Instances, e \in Events : ~(i = w /\ e = d) => run'[i][e] = run[i][e]
    BY <1>0, <1>t DEF GoTo, Finish
  <1>1. ASSUME NEW i \in Instances, NEW e \in Events, Runs(i, e)' PROVE Covered(i, e)'
    <2>1. inbox'[e] = inbox[e]
      BY <1>0, <1>1 DEF Runs, Holds
    <2>2. CASE i = w /\ e = d
      <3>1. ~Finish(w, d)
        BY <1>1, <2>2, RunPhase DEF Runs
      <3>2. PICK ph \in Phases : UNCHANGED <<inbox, permit>> /\ GoTo(w, d, ph)
        BY <1>0, <3>1
      <3>3. run'[i][e].gen = run[i][e].gen /\ run'[i][e].slot = run[i][e].slot
        BY <1>t, <2>2, <3>2 DEF GoTo, Run
      <3>4. ph # "idle" /\ run[i][e].phase # "idle"
        <4>1. run'[i][e].phase = ph
          BY <2>2, <3>2, RunPhase
        <4>2. \/ run[w][d].phase # "idle"
          BY DEF Work, CheckDelivered, FinishDuplicate, CheckOrder, Call, CallAnswerLost,
             CallRefused, CallTimesOut, RefuseStale, RecordDelivery, GiveBack, WorkerDatabaseError, At
        <4> QED BY <1>1, <2>2, <4>1, <4>2 DEF Runs
      <3>5. Runs(i, e)
        BY <1>1, <3>2, <3>3, <3>4 DEF Runs, Holds
      <3> QED BY <1>0, <2>1, <3>2, <3>3, <3>5, CoverStays DEF PermitInv
    <2>3. CASE ~(i = w /\ e = d)
      <3>1. run'[i][e] = run[i][e]
        BY <1>r, <2>3
      <3>2. Runs(i, e)
        BY <1>1, <2>1, <3>1 DEF Runs, Holds
      <3>3. Covered(i, e)
        BY <3>2 DEF PermitInv
      <3>4. permit'[EventSeller(e)][run[i][e].slot] = permit[EventSeller(e)][run[i][e].slot]
        <4>1. CASE UNCHANGED permit
          BY <4>1
        <4>2. CASE permit' = Release(w, d) /\ HoldsPermit(w, d, run[w][d].gen, run[w][d].slot)
          <5>1. ~(EventSeller(e) = EventSeller(d) /\ run[i][e].slot = run[w][d].slot)
            BY <2>3, <3>3, <4>2 DEF Covered, HoldsPermit
          <5>2. permit' = [permit EXCEPT ![EventSeller(d)][run[w][d].slot] = FreePermit]
            BY <4>2 DEF Release
          <5>3. EventSeller(e) \in Sellers /\ run[i][e].slot \in Slots /\ EventSeller(d) \in Sellers
            BY CoverTypes
          <5> QED BY <1>t, <5>1, <5>2, <5>3
        <4>3. Release(w, d) = permit \/ HoldsPermit(w, d, run[w][d].gen, run[w][d].slot)
          BY DEF Release
        <4> QED BY <1>0, <4>1, <4>2, <4>3
      <3> QED BY <1>0, <2>1, <3>1, <3>3, <3>4, CoverStays
    <2> QED BY <2>2, <2>3
  <1>2. ASSUME NEW i \in Instances \ up', NEW e \in Events PROVE run'[i][e].phase = "idle"
    BY <1>0, <1>r, <1>2 DEF PermitInv
  <1> QED BY <1>1, <1>2 DEF PermitInv

(* A claim takes a permit that covers nobody.                                  *)
LEMMA ClaimCovers ==
  ASSUME TypeOK, PermitInv, NEW w \in Instances, NEW d \in Events, ClaimRow(w, d)
  PROVE PermitInv'
  <1> DEFINE s == EventSeller(d)
             g == inbox[d].gen + 1
  <1>0. /\ w \in up /\ UNCHANGED <<keeper, up>> /\ Ready(d)
        /\ inbox' = [inbox EXCEPT ![d] = [state |-> "CLAIMED", owner |-> w, gen |-> g,
                                          lease |-> LeaseTicks, wait |-> 0]]
    BY DEF ClaimRow, CanClaim
  <1>1. PICK k \in Slots :
          /\ PermitFree(s, k)
          /\ permit' = [permit EXCEPT ![s][k] = [owner |-> w, event |-> d, gen |-> g, lease |-> LeaseTicks]]
          /\ run' = [run EXCEPT ![w][d] = [phase |-> "begin", gen |-> g, slot |-> k, tracked |-> TRUE]]
    BY DEF ClaimRow, FreeSlots
  <1>t. /\ run \in [Instances -> [Events -> Run]] /\ permit \in [Sellers -> [Slots -> Permit]]
        /\ inbox \in [Events -> Row] /\ s \in Sellers
    BY EventSellerType DEF TypeOK, MemoryType, DatabaseType
  <1> HIDE DEF s, g
  <1>2. ASSUME NEW i \in Instances, NEW e \in Events, Runs(i, e)' PROVE Covered(i, e)'
    <2>1. CASE i = w /\ e = d
      <3>1. run'[i][e].gen = g /\ run'[i][e].slot = k /\ inbox'[e].lease = LeaseTicks
        BY <1>0, <1>1, <1>t, <2>1
      <3>2. permit'[s][k] = [owner |-> w, event |-> d, gen |-> g, lease |-> LeaseTicks]
        BY <1>1, <1>t
      <3>3. LeaseTicks # Expired /\ LeaseTicks <= LeaseTicks
        BY ConstantTypes DEF Expired
      <3> QED BY <2>1, <3>1, <3>2, <3>3 DEF Covered, HoldsPermit, s
    <2>2. CASE ~(i = w /\ e = d)
      <3>1. run'[i][e] = run[i][e]
        BY <1>1, <1>t, <2>2
      <3>2. e # d
        <4>1. e = d => inbox'[e].owner = w
          BY <1>0, <1>t
        <4> QED BY <1>2, <2>2, <4>1 DEF Runs, Holds
      <3>3. inbox'[e] = inbox[e]
        BY <1>0, <1>t, <3>2
      <3>4. Covered(i, e)
        BY <1>2, <3>1, <3>3 DEF Runs, Holds, PermitInv
      <3>5. permit'[EventSeller(e)][run[i][e].slot] = permit[EventSeller(e)][run[i][e].slot]
        <4>1. ~(EventSeller(e) = s /\ run[i][e].slot = k)
          BY <1>1, <3>4, ConstantTypes DEF Covered, HoldsPermit, PermitFree
        <4>2. EventSeller(e) \in Sellers /\ run[i][e].slot \in Slots
          BY CoverTypes
        <4> QED BY <1>1, <1>t, <4>1, <4>2
      <3> QED BY <1>0, <3>1, <3>3, <3>4, <3>5, CoverStays
    <2> QED BY <2>1, <2>2
  <1>3. ASSUME NEW i \in Instances \ up', NEW e \in Events PROVE run'[i][e].phase = "idle"
    <2>1. i # w /\ i \in Instances \ up
      BY <1>0, <1>3
    <2>2. run'[i][e] = run[i][e]
      BY <1>1, <1>t, <2>1
    <2> QED BY <2>1, <2>2 DEF PermitInv
  <1> QED BY <1>2, <1>3 DEF PermitInv

(* The keeper's memory of a claim is not nothing.                              *)
LEMMA RememberedClaim ==
  ASSUME TypeOK, NEW i \in Instances, NEW e \in Events
  PROVE [event |-> e, gen |-> run[i][e].gen, slot |-> run[i][e].slot] # None
  <1>1. [event |-> e, gen |-> run[i][e].gen, slot |-> run[i][e].slot] \in [event : Events, gen : Nat, slot : 1 .. Permits]
    BY CoverTypes DEF Slots
  <1>2. None \notin [event : Events, gen : Nat, slot : 1 .. Permits]
    BY InboxAssumption DEF InboxAssumption
  <1> QED BY <1>1, <1>2

(* A renewal gives the row a longer lease before the permit, but remembers.    *)
LEMMA RenewCovers ==
  ASSUME TypeOK, PermitInv, "renew" \notin Faults, NEW w \in Instances, Renew(w)
  PROVE PermitInv'
  <1>t. /\ run \in [Instances -> [Events -> Run]] /\ permit \in [Sellers -> [Slots -> Permit]]
        /\ inbox \in [Events -> Row] /\ keeper \in [Instances -> Claim \cup {None}]
    BY DEF TypeOK, MemoryType, DatabaseType
  <1>1. ~RenewError(w)
    BY DEF RenewError, Fault
  <1>2. ASSUME NEW d \in Events, RenewRow(w, d) PROVE PermitInv'
    <2>0. keeper[w] = None /\ UNCHANGED <<permit, up>>
      BY <1>2 DEF RenewRow
    <2>1. CASE Holds(w, d, run[w][d].gen)
      <3>1. /\ inbox' = [inbox EXCEPT ![d].lease = LeaseTicks] /\ UNCHANGED run
            /\ keeper' = [keeper EXCEPT ![w] = [event |-> d, gen |-> run[w][d].gen, slot |-> run[w][d].slot]]
        BY <1>2, <2>1 DEF RenewRow
      <3>2. \A e \in Events : /\ inbox'[e].state = inbox[e].state /\ inbox'[e].owner = inbox[e].owner
                              /\ inbox'[e].gen = inbox[e].gen
                              /\ e # d => inbox'[e].lease = inbox[e].lease
        BY <1>t, <3>1 DEF Row
      <3>3. ASSUME NEW i \in Instances, NEW e \in Events, Runs(i, e)' PROVE Covered(i, e)'
        <4>1. Runs(i, e)
          BY <2>1, <3>1, <3>2, <3>3 DEF Runs, Holds
        <4>2. Covered(i, e)
          BY <4>1 DEF PermitInv
        <4>3. CASE i = w /\ e = d
          <5>1. keeper'[i] = [event |-> e, gen |-> run[i][e].gen, slot |-> run[i][e].slot]
            BY <1>t, <3>1, <4>3
          <5> QED BY <2>0, <3>1, <4>2, <5>1 DEF Covered, HoldsPermit
        <4>4. CASE i # w
          <5>1. e # d
            BY <2>1, <4>1, <4>4 DEF Runs, Holds
          <5>2. keeper'[i] = keeper[i] /\ inbox'[e].lease = inbox[e].lease
            BY <1>t, <3>1, <3>2, <4>4, <5>1
          <5> QED BY <2>0, <3>1, <4>2, <5>2, CoverStays
        <4>5. CASE i = w /\ e # d
          <5>1. inbox[e].lease <= permit[EventSeller(e)][run[i][e].slot].lease
            BY <2>0, <4>2, <4>5, RememberedClaim DEF Covered
          <5>2. inbox'[e].lease = inbox[e].lease
            BY <3>2, <4>5
          <5> QED BY <2>0, <3>1, <4>2, <5>1, <5>2 DEF Covered, HoldsPermit
        <4> QED BY <4>3, <4>4, <4>5
      <3> QED BY <2>0, <3>1, <3>3 DEF PermitInv
    <2>2. CASE ~Holds(w, d, run[w][d].gen)
      <3>1. run' = [run EXCEPT ![w][d].tracked = FALSE] /\ UNCHANGED <<inbox, keeper>>
        BY <1>2, <2>2 DEF RenewRow
      <3>2. \A i \in Instances, e \in Events : /\ run'[i][e].phase = run[i][e].phase
                                               /\ run'[i][e].gen = run[i][e].gen
                                               /\ run'[i][e].slot = run[i][e].slot
        BY <1>t, <3>1 DEF Run
      <3>3. ASSUME NEW i \in Instances, NEW e \in Events, Runs(i, e)' PROVE Covered(i, e)'
        <4>1. Runs(i, e)
          BY <3>1, <3>2, <3>3 DEF Runs, Holds
        <4> QED BY <2>0, <3>1, <3>2, <4>1, CoverStays DEF PermitInv
      <3> QED BY <2>0, <3>2, <3>3 DEF PermitInv
    <2> QED BY <2>1, <2>2
  <1>3. CASE RenewPermit(w)
    <2> DEFINE c == keeper[w]
    <2>0. UNCHANGED <<inbox, run, up>> /\ keeper' = [keeper EXCEPT ![w] = None] /\ c # None
      BY <1>3 DEF RenewPermit
    <2>1. c \in Claim /\ c.event \in Events /\ c.slot \in Slots /\ EventSeller(c.event) \in Sellers
      BY <1>t, <2>0, EventSellerType DEF Claim
    <2>2. permit' = IF HoldsPermit(w, c.event, c.gen, c.slot)
                    THEN [permit EXCEPT ![EventSeller(c.event)][c.slot].lease = LeaseTicks]
                    ELSE permit
      BY <1>3 DEF RenewPermit
    <2>3. ASSUME NEW i \in Instances, NEW e \in Events, Runs(i, e)' PROVE Covered(i, e)'
      <3> DEFINE s == EventSeller(e)
                 k == run[i][e].slot
      <3>1. Covered(i, e)
        BY <2>0, <2>3 DEF Runs, Holds, PermitInv
      <3>2. /\ s \in Sellers /\ k \in Slots /\ permit[s][k] \in Permit /\ permit[s][k].lease \in Leases
            /\ inbox[e].lease \in Leases
        BY CoverTypes
      <3>3. LeaseTicks # Expired /\ \A l \in Leases : l <= LeaseTicks
        BY ConstantTypes DEF Expired, Leases
      <3> HIDE DEF c, s, k
      <3>4. permit'[s][k] = permit[s][k] \/ permit'[s][k] = [permit[s][k] EXCEPT !.lease = LeaseTicks]
        BY <1>t, <2>1, <2>2, <3>2
      <3>5. CASE permit'[s][k] = [permit[s][k] EXCEPT !.lease = LeaseTicks]
        <4>1. /\ permit'[s][k].owner = permit[s][k].owner /\ permit'[s][k].event = permit[s][k].event
              /\ permit'[s][k].gen = permit[s][k].gen /\ permit'[s][k].lease = LeaseTicks
          BY <3>2, <3>5 DEF Permit
        <4>2. inbox'[e].lease <= LeaseTicks
          BY <2>0, <3>2, <3>3
        <4> QED BY <2>0, <3>1, <3>3, <4>1, <4>2 DEF Covered, HoldsPermit, s, k
      <3>6. CASE permit'[s][k] = permit[s][k] /\ i # w
        <4>1. keeper'[i] = keeper[i]
          BY <1>t, <2>0, <3>6
        <4> QED BY <2>0, <3>1, <3>6, <4>1, CoverStays DEF s, k
      <3>7. CASE permit'[s][k] = permit[s][k] /\ i = w
        <4>1. CASE inbox[e].lease <= permit[s][k].lease
          BY <2>0, <3>1, <3>7, <4>1 DEF Covered, HoldsPermit, s, k
        <4>2. CASE keeper[i] = [event |-> e, gen |-> run[i][e].gen, slot |-> run[i][e].slot]
          <5>1. c.event = e /\ c.slot = k /\ c.gen = run[i][e].gen
            BY <3>7, <4>2 DEF c, k
          <5>2. HoldsPermit(w, c.event, c.gen, c.slot)
            BY <3>1, <3>7, <5>1 DEF Covered, k
          <5>3. permit' = [permit EXCEPT ![s][k].lease = LeaseTicks]
            BY <2>2, <5>1, <5>2 DEF s
          <5>4. permit'[s][k].lease = LeaseTicks
            BY <1>t, <3>2, <5>3 DEF Permit
          <5>5. inbox'[e].lease <= permit[s][k].lease
            BY <2>0, <3>2, <3>3, <3>7, <5>4
          <5> QED BY <2>0, <3>1, <3>7, <5>5 DEF Covered, HoldsPermit, s, k
        <4> QED BY <3>1, <4>1, <4>2 DEF Covered, s, k
      <3> QED BY <3>4, <3>5, <3>6, <3>7
    <2> QED BY <2>0, <2>3 DEF PermitInv
  <1> QED BY <1>1, <1>2, <1>3 DEF Renew

(* Time takes as much from the row's lease as from the permit's, and no tick   *)
(* ends the permit of a claim that is being renewed.                           *)
LEMMA TimeCovers ==
  ASSUME TypeOK, PermitInv, "renew" \notin Faults, Tick \/ Stall \/ RenewStall
  PROVE PermitInv'
  <1>t. /\ permit \in [Sellers -> [Slots -> Permit]] /\ inbox \in [Events -> Row]
    BY DEF TypeOK, DatabaseType
  <1>0. Elapse /\ ~PermitLapses
    BY DEF Tick, Stall, RenewStall, Fault
  <1>1. UNCHANGED <<run, keeper, up>>
    BY <1>0 DEF Elapse, memoryVars
  <1>2. ASSUME NEW e \in Events
        PROVE /\ inbox'[e].state = inbox[e].state /\ inbox'[e].owner = inbox[e].owner
              /\ inbox'[e].gen = inbox[e].gen /\ inbox'[e].lease = Less(inbox[e].lease)
    <2>1. inbox[e] \in Row
      BY <1>t
    <2>2. inbox'[e] = [inbox[e] EXCEPT !.lease = Less(@), !.wait = IF @ = 0 THEN 0 ELSE @ - 1]
      BY <1>0 DEF Elapse
    <2> QED BY <2>1, <2>2 DEF Row
  <1>3. ASSUME NEW s \in Sellers, NEW k \in Slots
        PROVE /\ permit'[s][k].owner = permit[s][k].owner /\ permit'[s][k].event = permit[s][k].event
              /\ permit'[s][k].gen = permit[s][k].gen /\ permit'[s][k].lease = Less(permit[s][k].lease)
    <2>1. permit[s][k] \in Permit
      BY <1>t
    <2>2. permit'[s][k] = [permit[s][k] EXCEPT !.lease = Less(@)]
      BY <1>0 DEF Elapse
    <2> QED BY <2>1, <2>2 DEF Permit
  <1>4. ASSUME NEW i \in Instances, NEW e \in Events, Runs(i, e)' PROVE Covered(i, e)'
    <2> DEFINE s == EventSeller(e)
               k == run[i][e].slot
    <2>1. inbox'[e].lease # Expired
      BY <1>4 DEF Runs, Holds
    <2>2. inbox[e].lease # Expired
      BY <1>2, <2>1 DEF Less
    <2>3. Runs(i, e)
      BY <1>1, <1>2, <1>4, <2>2 DEF Runs, Holds
    <2>4. Covered(i, e) /\ i \in up
      BY <2>3 DEF PermitInv, Runs
    <2>5. /\ s \in Sellers /\ k \in Slots /\ permit[s][k].lease \in Leases /\ inbox[e].lease \in Leases
      BY CoverTypes
    <2>6. /\ HoldsPermit(i, e, run[i][e].gen, k) /\ permit[s][k].lease # Expired
          /\ \/ inbox[e].lease <= permit[s][k].lease
             \/ keeper[i] = [event |-> e, gen |-> run[i][e].gen, slot |-> k]
      BY <2>4 DEF Covered
    <2>7. /\ permit'[s][k].owner = permit[s][k].owner /\ permit'[s][k].event = permit[s][k].event
          /\ permit'[s][k].gen = permit[s][k].gen /\ permit'[s][k].lease = Less(permit[s][k].lease)
      BY <1>3, <2>5
    <2>8. HoldsPermit(i, e, run[i][e].gen, k)'
      BY <1>1, <2>6, <2>7 DEF HoldsPermit, s, k
    <2>9. CASE inbox[e].lease <= permit[s][k].lease
      <3>1. inbox'[e].lease <= permit'[s][k].lease /\ permit'[s][k].lease # Expired
        <4> HIDE DEF s, k
        <4> QED BY <1>2, <2>1, <2>2, <2>5, <2>6, <2>7, <2>9, ConstantTypes DEF Less, Expired, Leases
      <3> QED BY <1>1, <2>8, <3>1 DEF Covered, s, k
    <2>10. CASE keeper[i] = [event |-> e, gen |-> run[i][e].gen, slot |-> k]
      <3>1. permit[s][k].lease # 0
        <4>1. keeper[i] # None
          BY <2>10, RememberedClaim
        <4> QED BY <1>0, <2>4, <2>6, <2>10, <4>1 DEF PermitLapses, s, k
      <3>2. permit'[s][k].lease # Expired
        <4> HIDE DEF s, k
        <4> QED BY <2>5, <2>6, <2>7, <3>1, ConstantTypes DEF Less, Expired, Leases
      <3> QED BY <1>1, <2>8, <2>10, <3>2 DEF Covered, s, k
    <2> QED BY <2>6, <2>9, <2>10
  <1> QED BY <1>1, <1>4 DEF PermitInv

(* Steps that leave claims and permits alone, or only drop claims.             *)
LEMMA QuietCovers ==
  ASSUME TypeOK, PermitInv, UNCHANGED <<permit, run, keeper, up>>,
         \A e \in Events : inbox'[e] = inbox[e] \/ inbox'[e].state # "CLAIMED"
  PROVE PermitInv'
  <1>1. ASSUME NEW i \in Instances, NEW e \in Events, Runs(i, e)' PROVE Covered(i, e)'
    <2>1. inbox'[e] = inbox[e]
      BY <1>1 DEF Runs, Holds
    <2>2. Covered(i, e)
      BY <1>1, <2>1 DEF Runs, Holds, PermitInv
    <2> QED BY <2>1, <2>2, CoverStays
  <1> QED BY <1>1 DEF PermitInv

(* A crash drops the claims of its instance with the memory of them.           *)
LEMMA CrashCovers ==
  ASSUME TypeOK, PermitInv, NEW w \in Instances, Crash(w)
  PROVE PermitInv'
  <1>0. /\ UNCHANGED <<inbox, permit>> /\ up' = up \ {w}
        /\ run' = [run EXCEPT ![w] = [e \in Events |-> NoRun]]
        /\ keeper' = [keeper EXCEPT ![w] = None]
    BY DEF Crash, dbVars
  <1>t. run \in [Instances -> [Events -> Run]] /\ keeper \in [Instances -> Claim \cup {None}]
    BY DEF TypeOK, MemoryType
  <1>1. \A e \in Events : run'[w][e].phase = "idle"
    BY <1>0, <1>t DEF NoRun
  <1>2. \A i \in Instances : i # w => run'[i] = run[i] /\ keeper'[i] = keeper[i]
    BY <1>0, <1>t
  <1>3. ASSUME NEW i \in Instances, NEW e \in Events, Runs(i, e)' PROVE Covered(i, e)'
    <2>1. i # w
      BY <1>1, <1>3 DEF Runs
    <2>2. Covered(i, e)
      BY <1>0, <1>2, <1>3, <2>1 DEF Runs, Holds, PermitInv
    <2> QED BY <1>0, <1>2, <2>1, <2>2, CoverStays
  <1>4. ASSUME NEW i \in Instances \ up', NEW e \in Events PROVE run'[i][e].phase = "idle"
    BY <1>0, <1>1, <1>2 DEF PermitInv
  <1> QED BY <1>3, <1>4 DEF PermitInv

(* Every step keeps the claims covered, if no renewal stops half way.          *)
LEMMA NextCovers ==
  ASSUME TypeOK, PermitInv, "renew" \notin Faults, [Next]_vars
  PROVE PermitInv'
  <1> USE DEF dbVars, memoryVars
  <1>1. ASSUME NEW i \in Instances, Ingest(i) \/ FindReady(i) PROVE PermitInv'
    <2>1. UNCHANGED <<permit, run, keeper, up>>
      BY <1>1 DEF Ingest, Poll, Rebalance, ReadInbox, ReadEffect, CheckCapacity, StoreAll, InboxFull,
         IngestError, Acknowledge, FindReady
    <2>2. UNCHANGED inbox \/ StoreAll(i)
      BY <1>1 DEF Ingest, Poll, Rebalance, ReadInbox, ReadEffect, CheckCapacity, InboxFull,
         IngestError, Acknowledge, FindReady
    <2>3. StoreAll(i) => \A e \in Events : inbox'[e] = inbox[e] \/ inbox'[e].state # "CLAIMED"
      BY DEF StoreAll, NewRow, NoRow
    <2> QED BY <2>1, <2>2, <2>3, QuietCovers
  <1>2. ASSUME NEW i \in Instances, NEW e \in Events, Dispatch(i, e), ~ClaimRow(i, e) PROVE PermitInv'
    <2>1. UNCHANGED <<inbox, permit, run, keeper, up>>
      BY <1>2 DEF Dispatch, SkipCandidate, ClaimRefused, ClaimError
    <2> QED BY <2>1, QuietCovers
  <1>3. ASSUME NEW e \in Events, LateCall(e) \/ Purge(e) PROVE PermitInv'
    <2>1. UNCHANGED <<permit, run, keeper, up>>
      BY <1>3 DEF LateCall, Purge
    <2>2. UNCHANGED inbox \/ inbox' = [inbox EXCEPT ![e] = NoRow]
      BY <1>3 DEF LateCall, Purge
    <2>3. inbox \in [Events -> Row]
      BY DEF TypeOK, DatabaseType
    <2>4. \A d \in Events : inbox'[d] = inbox[d] \/ inbox'[d].state # "CLAIMED"
      BY <2>2, <2>3 DEF NoRow
    <2> QED BY <2>1, <2>4, QuietCovers
  <1>4. CASE UNCHANGED vars
    <2>1. UNCHANGED <<inbox, permit, run, keeper, up>>
      BY <1>4 DEF vars
    <2> QED BY <2>1, QuietCovers
  <1>5. ASSUME NEW i \in Instances, Ingest(i) \/ FindReady(i) \/ Renew(i) \/ Crash(i) PROVE PermitInv'
    BY <1>1, <1>5, RenewCovers, CrashCovers
  <1>6. ASSUME NEW i \in Instances, NEW e \in Events, Dispatch(i, e) \/ Work(i, e) PROVE PermitInv'
    BY <1>2, <1>6, ClaimCovers, WorkCovers
  <1>7. CASE Tick \/ Stall \/ RenewStall
    BY <1>7, TimeCovers
  <1> QED BY <1>3, <1>4, <1>5, <1>6, <1>7 DEF Next

(* For every number of instances, workers, permits and faults: the workers of  *)
(* all instances together run no more valid claims of a seller than it has     *)
(* permits, as long as LeaseKeeper gets from its first statement to its second *)
(* before the permit runs out (without that the run InboxRenewalGap has a      *)
(* counterexample).                                                            *)
THEOREM SellerLimitCorrect == Spec => []("renew" \notin Faults => SellerLimit)
  <1> DEFINE Inv == "renew" \notin Faults => PermitInv
  <1>1. Init => Inv
    <2> SUFFICES ASSUME Init PROVE PermitInv
      OBVIOUS
    <2>1. \A i \in Instances, e \in Events : run[i][e].phase = "idle"
      BY DEF Init, NoRun
    <2> QED BY <2>1 DEF PermitInv, Runs
  <1>2. TypeOK /\ Inv /\ [Next]_vars => Inv'
    BY NextCovers
  <1>3. TypeOK /\ Inv => ("renew" \notin Faults => SellerLimit)
    BY PermitsSuffice
  <1> HIDE DEF Inv
  <1> QED BY <1>1, <1>2, <1>3, TypeCorrect, PTL DEF Spec
=============================================================================
