---------------------------- MODULE PartnerInbox ----------------------------
(* The inbox mode of the partner integration service, run by several process  *)
(* instances over one database.                                                *)
(*                                                                             *)
(* A Kafka listener stores each polled batch in the inbox table and then       *)
(* commits the offset.  A dispatcher claims ready rows, each with a seller     *)
(* permit, under leases; a worker calls the partner and records the delivery  *)
(* while its claim still holds.  A lease keeper renews the leases of running   *)
(* claims, a janitor deletes delivered rows.                                   *)
(*                                                                             *)
(* Every database transaction that holds its row locks to the end is one       *)
(* action; reads and writes outside one transaction are separate actions, so  *)
(* every interleaving between them is explored.  Times are kept as what is     *)
(* left of them: a lease of n >= 0 runs out n+1 ticks from now, Expired stands *)
(* for every lease_until below NOW, a wait of 0 means next_at is due.          *)
EXTENDS PartnerEvents, Integers, Sequences, FiniteSets

CONSTANTS
  Instances,      \* process incarnations; a crashed one never comes back,
                  \* a restart is another member (its name is a fresh UUID)
  Partitions,     \* partitions of the request topic
  Log,            \* Log[p]: the events published to partition p, in order
  Permits,        \* app.seller-concurrency
  Workers,        \* app.workers
  RetryBudget,    \* app.retry-budget
  RetryWindow,    \* app.retry-window-ms, in ticks
  PendingLimit,   \* app.backlog-limit
  RetainedLimit,  \* app.retained-limit
  LeaseTicks,     \* app.ownership lease, in ticks
  MaxBackoff,     \* longest retry delay, in ticks
  MaxPoll,        \* max-poll-records
  FinishedLimit,  \* how many finished events an instance remembers
  Faults,         \* which kinds of fault may happen
  MaxFaults,      \* how many faults may happen
  None            \* SQL NULL

FaultKinds == {"crash", "rebalance", "database", "claim", "refuse", "timeout",
               "lost", "stall", "renew"}

ASSUME InboxAssumption ==
  /\ Log \in [Partitions -> Seq(Events)]
  /\ {Permits, Workers, RetryBudget, RetryWindow, PendingLimit, RetainedLimit,
      MaxPoll, FinishedLimit} \subseteq Nat \ {0}
  /\ {LeaseTicks, MaxBackoff, MaxFaults} \subseteq Nat
  /\ Faults \subseteq FaultKinds
  /\ None \notin Instances /\ None \notin Events
  /\ None \notin [event : Events, gen : Nat, slot : 1 .. Permits]
  /\ IsFiniteSet(Events)

VARIABLES
  inbox,        \* table inbox, one row per event, state "ABSENT" if there is none
  permit,       \* table seller_permit, per seller and slot
  permitRows,   \* the sellers whose rows exist in seller_permit
  admission,    \* table retry_admission: the admissions still inside the window
  effect,       \* table partner_effect: the events recorded as delivered
  orderSeq,     \* table partner_order: the last sequence recorded per order
  completion,   \* table completion_outbox: the reports written for the source
  up,           \* the instances that run
  ingest,       \* per instance: what the Kafka listener thread is doing
  assigned,     \* per partition: the consumer that owns it
  committed,    \* per partition: the committed offset
  cache,        \* per instance: InboxRepository.sellersWithPermits
  candidates,   \* per instance: the rest of the list findReady returned
  finished,     \* per instance: AdmissionPolicy.finished
  run,          \* per instance and event: the worker running a claim
  keeper,       \* per instance: the claim between the two statements of a renewal
  ledger,       \* the effects the partner has applied
  partnerSeq,   \* the partner's own last sequence per order
  late,         \* calls nobody waits for that may still reach the partner
  faults        \* how many faults have happened

dbVars      == <<inbox, permit, permitRows, admission, effect, orderSeq, completion>>
kafkaVars   == <<ingest, assigned, committed>>
memoryVars  == <<cache, candidates, finished, run, keeper>>
partnerVars == <<ledger, partnerSeq, late>>
vars == <<dbVars, kafkaVars, memoryVars, partnerVars, up, faults>>

-----------------------------------------------------------------------------
(* Types *)

Slots   == 1 .. Permits
Expired == -1
Leases  == Expired .. LeaseTicks

Row == [state : {"ABSENT", "PENDING", "CLAIMED", "DONE"},
        owner : Instances \cup {None}, gen : Nat, lease : Leases, wait : 0 .. MaxBackoff]
Permit == [owner : Instances \cup {None}, event : Events \cup {None},
           gen : Nat, lease : Leases]
Phases == {"idle", "begin", "duplicate", "order", "call", "accepted", "failed"}
Run    == [phase : Phases, gen : Nat, slot : Slots, tracked : BOOLEAN]
Claim  == [event : Events, gen : Nat, slot : Slots]
IngestPhases == {"idle", "polled", "inboxRead", "effectRead", "counted", "stored"}
Batch  == [phase : IngestPhases, partition : Partitions \cup {None},
           batch : SUBSET Events, next : Nat, known : SUBSET Events]

NoRow      == [state |-> "ABSENT", owner |-> None, gen |-> 0, lease |-> Expired, wait |-> 0]
NewRow     == [NoRow EXCEPT !.state = "PENDING"]
FreePermit == [owner |-> None, event |-> None, gen |-> 0, lease |-> Expired]
NoRun      == [phase |-> "idle", gen |-> 0, slot |-> 1, tracked |-> FALSE]
NoBatch    == [phase |-> "idle", partition |-> None, batch |-> {}, next |-> 0, known |-> {}]

DatabaseType ==
  /\ inbox \in [Events -> Row]
  /\ permit \in [Sellers -> [Slots -> Permit]]
  /\ permitRows \in SUBSET Sellers
  /\ admission \in SUBSET [event : Events, gen : Nat, age : 0 .. RetryWindow - 1]
  /\ effect \in SUBSET Events
  /\ orderSeq \in [Orders -> Nat]
  /\ completion \in SUBSET Events
KafkaType ==
  /\ ingest \in [Instances -> Batch]
  /\ assigned \in [Partitions -> Instances]
  /\ committed \in [Partitions -> Nat]
MemoryType ==
  /\ cache \in [Instances -> SUBSET Sellers]
  /\ candidates \in [Instances -> SUBSET Events]
  /\ finished \in [Instances -> SUBSET Events]
  /\ run \in [Instances -> [Events -> Run]]
  /\ keeper \in [Instances -> Claim \cup {None}]
PartnerType ==
  /\ ledger \in SUBSET Events
  /\ partnerSeq \in [Orders -> Nat]
  /\ late \in SUBSET Events

(* Every table, every field of a process's memory and the partner's state has  *)
(* the type its schema or its declaration gives it; leases, waits and fault    *)
(* counts stay within their bounds.                                            *)
TypeOK ==
  /\ DatabaseType /\ KafkaType /\ MemoryType /\ PartnerType
  /\ up \in SUBSET Instances
  /\ faults \in 0 .. MaxFaults

Init ==
  /\ inbox = [e \in Events |-> NoRow]
  /\ permit = [s \in Sellers |-> [k \in Slots |-> FreePermit]]
  /\ permitRows = {} /\ admission = {} /\ effect = {} /\ completion = {}
  /\ orderSeq = [o \in Orders |-> 0]
  /\ up = Instances
  /\ ingest = [i \in Instances |-> NoBatch]
  /\ assigned \in [Partitions -> Instances]
  /\ committed = [p \in Partitions |-> 0]
  /\ cache = [i \in Instances |-> {}]
  /\ candidates = [i \in Instances |-> {}]
  /\ finished = [i \in Instances |-> {}]
  /\ run = [i \in Instances |-> [e \in Events |-> NoRun]]
  /\ keeper = [i \in Instances |-> None]
  /\ ledger = {} /\ late = {}
  /\ partnerSeq = [o \in Orders |-> 0]
  /\ faults = 0

(* A fault of the given kind happens in this step.                             *)
Fault(kind) == kind \in Faults /\ faults < MaxFaults /\ faults' = faults + 1

-----------------------------------------------------------------------------
(* Ingestion: PartnerListener.receiveBatch and InboxRepository.storeAll *)

(* An instance inside storeAll holds the inbox_capacity row lock.             *)
HoldsCapacityLock(i) == ingest[i].phase \in {"inboxRead", "effectRead", "counted"}

Stored(e) == inbox[e].state # "ABSENT"
Pending   == {e \in Events : inbox[e].state \in {"PENDING", "CLAIMED"}}
Retained  == {e \in Events : Stored(e)}

(* The listener is handed the next records of a partition it owns.            *)
Poll(i, p) ==
  /\ i \in up /\ assigned[p] = i /\ ingest[i].phase = "idle"
  /\ \E n \in 1 .. MaxPoll :
       /\ committed[p] + n <= Len(Log[p])
       /\ ingest' = [ingest EXCEPT ![i] =
            [phase |-> "polled", partition |-> p, next |-> committed[p] + n,
             batch |-> {Log[p][k] : k \in committed[p] + 1 .. committed[p] + n},
             known |-> {}]]
  /\ UNCHANGED <<assigned, committed, dbVars, memoryVars, partnerVars, up, faults>>

(* A faulty ReadInbox: the capacity row is not locked.                         *)
ReadInboxUnlocked(i) ==
  /\ i \in up /\ ingest[i].phase = "polled"
  /\ ingest' = [ingest EXCEPT ![i].phase = "inboxRead",
                              ![i].known = {e \in ingest[i].batch : Stored(e)}]
  /\ UNCHANGED <<assigned, committed, dbVars, memoryVars, partnerVars, up, faults>>

(* storeAll takes the capacity lock and looks for the batch in the inbox.     *)
ReadInbox(i) ==
  /\ i \in up /\ ingest[i].phase = "polled"
  /\ \A j \in Instances : ~HoldsCapacityLock(j)
  /\ ingest' = [ingest EXCEPT ![i].phase = "inboxRead",
                              ![i].known = {e \in ingest[i].batch : Stored(e)}]
  /\ UNCHANGED <<assigned, committed, dbVars, memoryVars, partnerVars, up, faults>>

(* A faulty ReadEffect: deliveries whose row is purged are not recognised.     *)
ReadEffectSkipped(i) ==
  /\ i \in up /\ ingest[i].phase = "inboxRead"
  /\ ingest' = [ingest EXCEPT ![i].phase = "effectRead"]
  /\ UNCHANGED <<assigned, committed, dbVars, memoryVars, partnerVars, up, faults>>

(* Then, in a later statement, among the deliveries.                           *)
ReadEffect(i) ==
  /\ i \in up /\ ingest[i].phase = "inboxRead"
  /\ ingest' = [ingest EXCEPT ![i].phase = "effectRead",
                              ![i].known = @ \cup (ingest[i].batch \cap effect)]
  /\ UNCHANGED <<assigned, committed, dbVars, memoryVars, partnerVars, up, faults>>

(* The rows storeAll would insert, and whether they fit under both limits.     *)
NewRows(i) == ingest[i].batch \ ingest[i].known
Fits(rows) ==
  rows # {} => /\ Cardinality(Pending) + Cardinality(rows) <= PendingLimit
               /\ Cardinality(Retained) + Cardinality(rows) <= RetainedLimit

(* The rows fit, by the counts of this moment.                                 *)
CheckCapacity(i) ==
  /\ i \in up /\ ingest[i].phase = "effectRead"
  /\ Fits(NewRows(i))
  /\ ingest' = [ingest EXCEPT ![i].phase = "counted"]
  /\ UNCHANGED <<assigned, committed, dbVars, memoryVars, partnerVars, up, faults>>

(* They are inserted and the transaction commits.                              *)
StoreAll(i) ==
  /\ i \in up /\ ingest[i].phase = "counted"
  /\ inbox' = [e \in Events |-> IF e \in NewRows(i) THEN NewRow ELSE inbox[e]]
  /\ ingest' = [ingest EXCEPT ![i].phase = "stored"]
  /\ UNCHANGED <<permit, permitRows, admission, effect, orderSeq, completion,
                 assigned, committed, memoryVars, partnerVars, up, faults>>

(* InboxFullException: nothing is stored, the batch is delivered again.        *)
InboxFull(i) ==
  /\ i \in up /\ ingest[i].phase = "effectRead"
  /\ ~Fits(NewRows(i))
  /\ ingest' = [ingest EXCEPT ![i] = NoBatch]
  /\ UNCHANGED <<assigned, committed, dbVars, memoryVars, partnerVars, up, faults>>

(* A faulty IngestError: the exception is swallowed, the batch acknowledged.   *)
IngestErrorSwallowed(i) ==
  /\ i \in up /\ ingest[i].phase \in {"polled", "inboxRead", "effectRead", "counted"}
  /\ Fault("database")
  /\ ingest' = [ingest EXCEPT ![i].phase = "stored"]
  /\ UNCHANGED <<assigned, committed, dbVars, memoryVars, partnerVars, up>>

(* Any other failure of the transaction rolls it back.                         *)
IngestError(i) ==
  /\ i \in up /\ ingest[i].phase \in {"polled", "inboxRead", "effectRead", "counted"}
  /\ Fault("database")
  /\ ingest' = [ingest EXCEPT ![i] = NoBatch]
  /\ UNCHANGED <<assigned, committed, dbVars, memoryVars, partnerVars, up>>

(* The offset is committed; the commit of a consumer that lost the partition   *)
(* is refused by the broker.                                                   *)
Acknowledge(i) ==
  /\ i \in up /\ ingest[i].phase = "stored"
  /\ committed' = IF assigned[ingest[i].partition] = i
                  THEN [committed EXCEPT ![ingest[i].partition] = ingest[i].next]
                  ELSE committed
  /\ ingest' = [ingest EXCEPT ![i] = NoBatch]
  /\ UNCHANGED <<assigned, dbVars, memoryVars, partnerVars, up, faults>>

(* The group gives a partition to another consumer: at once when its consumer  *)
(* is gone, or because a live one was too slow.  A consumer joins in poll().   *)
Rebalance(p, i) ==
  /\ i \in up /\ assigned[p] # i /\ ingest[i].phase = "idle"
  /\ IF assigned[p] \in up THEN Fault("rebalance") ELSE UNCHANGED faults
  /\ assigned' = [assigned EXCEPT ![p] = i]
  /\ UNCHANGED <<ingest, committed, dbVars, memoryVars, partnerVars, up>>

-----------------------------------------------------------------------------
(* Claims: InboxRepository.findReady, claim, renew, holds, giveBack, release   *)

(* A faulty NextInOrder: any operation not delivered yet may go.               *)
NotYetDelivered(e) == SeqOf[e] > orderSeq[OrderOf[e]]

(* The order's last recorded sequence is the one before this event's.          *)
NextInOrder(e) == SeqOf[e] = orderSeq[OrderOf[e]] + 1

(* A faulty Due: a claim whose lease has run out is not taken over.            *)
DueWhenPending(e) == inbox[e].state = "PENDING" /\ inbox[e].wait = 0

(* Pending and due, or claimed under a lease that has run out.                 *)
Due(e) == \/ inbox[e].state = "PENDING" /\ inbox[e].wait = 0
          \/ inbox[e].state = "CLAIMED" /\ inbox[e].lease = Expired

Ready(e) == Due(e) /\ NextInOrder(e)

PermitFree(s, k) == permit[s][k].owner = None \/ permit[s][k].lease = Expired

(* The token check of holds: owner, generation, CLAIMED, lease not run out.    *)
Holds(i, e, g) ==
  /\ inbox[e].state = "CLAIMED"
  /\ inbox[e].owner = i
  /\ inbox[e].gen = g
  /\ inbox[e].lease # Expired

(* The permit's own token; its lease is not part of it.                        *)
HoldsPermit(i, e, g, k) ==
  LET p == permit[EventSeller(e)][k]
  IN p.owner = i /\ p.event = e /\ p.gen = g

(* The permits after release(claim) of the claim i runs for e.  The            *)
(* generation of a free permit is never read, so it goes too.                  *)
Release(i, e) ==
  LET c == run[i][e]
  IN IF HoldsPermit(i, e, c.gen, c.slot)
     THEN [permit EXCEPT ![EventSeller(e)][c.slot] = FreePermit]
     ELSE permit

Active(i) == {e \in Events : run[i][e].phase # "idle"}

(* One dispatch pass takes its candidates: ready rows of sellers with a free   *)
(* permit, at most Permits of one seller and four per free worker.  "Oldest    *)
(* first" is not modelled: which of the rows are taken is left open.           *)
FindReady(i) ==
  LET free  == Workers - Cardinality(Active(i))
      ready == {e \in Events : Ready(e) /\ \E k \in Slots : PermitFree(EventSeller(e), k)}
  IN /\ i \in up /\ candidates[i] = {} /\ free > 0
     /\ \E C \in SUBSET ready \ {{}} :
          /\ Cardinality(C) <= 4 * free
          /\ \A s \in Sellers : Cardinality({e \in C : EventSeller(e) = s}) <= Permits
          /\ candidates' = [candidates EXCEPT ![i] = C]
     /\ UNCHANGED <<cache, finished, run, keeper, dbVars, kafkaVars, partnerVars, up, faults>>

(* AdmissionPolicy.tryAdmitLocal: a free worker, one operation per order, and  *)
(* not an event this instance has finished since the list was read.            *)
AdmitLocal(i, e) ==
  /\ Cardinality(Active(i)) < Workers
  /\ \A d \in Active(i) : OrderOf[d] # OrderOf[e]
  /\ e \notin finished[i]

(* ensurePermits inserts the seller's rows unless this process remembers that  *)
(* it has; without rows there is no slot to take.                              *)
PermitRows(i, s) == IF s \in cache[i] THEN permitRows ELSE permitRows \cup {s}
FreeSlots(i, s)  == {k \in Slots : s \in PermitRows(i, s) /\ PermitFree(s, k)}

(* The admissions of a seller's retries that still count.                      *)
AdmissionsOf(s) == {a \in admission : EventSeller(a.event) = s}

(* Every earlier claim raised attempts and generation by one, so a row with a  *)
(* generation has been attempted: its next claim is a retry.                   *)
IsRetry(e) == inbox[e].gen > 0
RetryBudgetUsed(s) == Cardinality(AdmissionsOf(s)) >= RetryBudget

CanClaim(i, e) ==
  /\ FreeSlots(i, EventSeller(e)) # {}
  /\ Ready(e)
  /\ IsRetry(e) => ~RetryBudgetUsed(EventSeller(e))

NextCandidate(i, e) == candidates' = [candidates EXCEPT ![i] = @ \ {e}]

(* The candidate is not admitted locally and the pass goes on.                 *)
SkipCandidate(i, e) ==
  /\ i \in up /\ e \in candidates[i] /\ ~AdmitLocal(i, e)
  /\ NextCandidate(i, e)
  /\ UNCHANGED <<cache, finished, run, keeper, dbVars, kafkaVars, partnerVars, up, faults>>

(* claim answers SELLER_FULL, TAKEN or RETRY_BUDGET; the transaction commits,  *)
(* and with it the permit rows it may have inserted.                           *)
ClaimRefused(i, e) ==
  /\ i \in up /\ e \in candidates[i] /\ AdmitLocal(i, e) /\ ~CanClaim(i, e)
  /\ permitRows' = PermitRows(i, EventSeller(e))
  /\ cache' = [cache EXCEPT ![i] = @ \cup {EventSeller(e)}]
  /\ NextCandidate(i, e)
  /\ UNCHANGED <<inbox, permit, admission, effect, orderSeq, completion, finished,
                 run, keeper, kafkaVars, partnerVars, up, faults>>

(* claim succeeds: row and permit carry the new token, a retry is admitted     *)
(* against the budget, the lease keeper tracks the claim and a worker starts.  *)
ClaimRow(i, e) ==
  LET s == EventSeller(e)
      g == inbox[e].gen + 1
  IN /\ i \in up /\ e \in candidates[i] /\ AdmitLocal(i, e) /\ CanClaim(i, e)
     /\ permitRows' = PermitRows(i, s)
     /\ cache' = [cache EXCEPT ![i] = @ \cup {s}]
     /\ admission' = IF IsRetry(e)
                     THEN admission \cup {[event |-> e, gen |-> g, age |-> 0]}
                     ELSE admission
     /\ inbox' = [inbox EXCEPT ![e] = [state |-> "CLAIMED", owner |-> i, gen |-> g,
                                       lease |-> LeaseTicks, wait |-> 0]]
     /\ \E k \in FreeSlots(i, s) :
          /\ \A j \in FreeSlots(i, s) : k <= j
          /\ permit' = [permit EXCEPT ![s][k] = [owner |-> i, event |-> e, gen |-> g,
                                                 lease |-> LeaseTicks]]
          /\ run' = [run EXCEPT ![i][e] = [phase |-> "begin", gen |-> g, slot |-> k,
                                           tracked |-> TRUE]]
     /\ NextCandidate(i, e)
     /\ UNCHANGED <<effect, orderSeq, completion, finished, keeper, kafkaVars,
                    partnerVars, up, faults>>

(* The claim transaction fails on a lock wait or deadlock and rolls back: the  *)
(* permit rows are gone, but sellersWithPermits has been filled already.       *)
ClaimError(i, e) ==
  /\ i \in up /\ e \in candidates[i] /\ AdmitLocal(i, e)
  /\ Fault("claim")
  /\ cache' = [cache EXCEPT ![i] = @ \cup {EventSeller(e)}]
  /\ NextCandidate(i, e)
  /\ UNCHANGED <<finished, run, keeper, dbVars, kafkaVars, partnerVars, up>>

(* LeaseKeeper.renew, first statement: extend the row's lease while the token  *)
(* holds; otherwise the claim is lost and no longer tracked.                   *)
RenewRow(i, e) ==
  LET c == run[i][e]
  IN /\ i \in up /\ keeper[i] = None /\ c.tracked
     /\ IF Holds(i, e, c.gen)
        THEN /\ inbox' = [inbox EXCEPT ![e].lease = LeaseTicks]
             /\ keeper' = [keeper EXCEPT ![i] = [event |-> e, gen |-> c.gen, slot |-> c.slot]]
             /\ UNCHANGED run
        ELSE /\ run' = [run EXCEPT ![i][e].tracked = FALSE]
             /\ UNCHANGED <<inbox, keeper>>
     /\ UNCHANGED <<permit, permitRows, admission, effect, orderSeq, completion,
                    cache, candidates, finished, kafkaVars, partnerVars, up, faults>>

(* A faulty RenewPermit: only the row's lease is extended.                     *)
RenewPermitSkipped(i) ==
  /\ i \in up /\ keeper[i] # None
  /\ keeper' = [keeper EXCEPT ![i] = None]
  /\ UNCHANGED <<cache, candidates, finished, run, dbVars, kafkaVars, partnerVars, up, faults>>

(* Second statement, in a transaction of its own: extend the permit's lease.  *)
RenewPermit(i) ==
  LET c == keeper[i]
      s == EventSeller(c.event)
  IN /\ i \in up /\ c # None
     /\ permit' = IF HoldsPermit(i, c.event, c.gen, c.slot)
                  THEN [permit EXCEPT ![s][c.slot].lease = LeaseTicks]
                  ELSE permit
     /\ keeper' = [keeper EXCEPT ![i] = None]
     /\ UNCHANGED <<inbox, permitRows, admission, effect, orderSeq, completion,
                    cache, candidates, finished, run, kafkaVars, partnerVars, up, faults>>

(* The second statement fails; the pass ends and the row keeps its new lease.  *)
RenewError(i) ==
  /\ i \in up /\ keeper[i] # None
  /\ Fault("renew")
  /\ keeper' = [keeper EXCEPT ![i] = None]
  /\ UNCHANGED <<cache, candidates, finished, run, dbVars, kafkaVars, partnerVars, up>>

-----------------------------------------------------------------------------
(* A worker: WorkerDispatcher.runClaimed and PartnerOrderProcessor.process     *)

At(i, e, phase) == i \in up /\ run[i][e].phase = phase
GoTo(i, e, phase) == run' = [run EXCEPT ![i][e].phase = phase]
Finish(i, e) == run' = [run EXCEPT ![i][e] = NoRun]

(* An instance remembers the last FinishedLimit events it finished; which of   *)
(* the others is the oldest is left open.                                      *)
MarkFinished(i, e) ==
  LET now == finished[i] \cup {e}
  IN IF Cardinality(now) <= FinishedLimit
     THEN finished' = [finished EXCEPT ![i] = now]
     ELSE \E old \in finished[i] : finished' = [finished EXCEPT ![i] = now \ {old}]

(* complete(claim): the row is DONE, its permit is released.                   *)
Complete(i, e) ==
  /\ inbox' = [inbox EXCEPT ![e].state = "DONE", ![e].owner = None, ![e].lease = Expired]
  /\ permit' = Release(i, e)

(* Is the event delivered already?                                             *)
CheckDelivered(i, e) ==
  /\ At(i, e, "begin")
  /\ GoTo(i, e, IF e \in effect THEN "duplicate" ELSE "order")
  /\ UNCHANGED <<cache, candidates, finished, keeper, dbVars, kafkaVars, partnerVars, up, faults>>

(* It is: close the claim and count the event as finished.                     *)
FinishDuplicate(i, e) ==
  /\ At(i, e, "duplicate")
  /\ IF Holds(i, e, run[i][e].gen)
     THEN Complete(i, e)
     ELSE permit' = Release(i, e) /\ UNCHANGED inbox
  /\ MarkFinished(i, e) /\ Finish(i, e)
  /\ UNCHANGED <<permitRows, admission, effect, orderSeq, completion, cache, candidates,
                 keeper, kafkaVars, partnerVars, up, faults>>

(* Is its predecessor delivered?  Then the partner is called.                  *)
CheckOrder(i, e) ==
  /\ At(i, e, "order")
  /\ GoTo(i, e, IF NextInOrder(e) THEN "call" ELSE "failed")
  /\ UNCHANGED <<cache, candidates, finished, keeper, dbVars, kafkaVars, partnerVars, up, faults>>

(* A faulty RefuseStale: the stale result counts as finished.                  *)
RefuseStaleFinished(i, e) ==
  /\ At(i, e, "accepted") /\ ~Holds(i, e, run[i][e].gen)
  /\ Finish(i, e) /\ MarkFinished(i, e)
  /\ UNCHANGED <<cache, candidates, keeper, dbVars, kafkaVars, partnerVars, up, faults>>

(* The delivery transaction of a worker whose claim no longer holds writes     *)
(* nothing: StaleClaimException.                                               *)
RefuseStale(i, e) ==
  /\ At(i, e, "accepted") /\ ~Holds(i, e, run[i][e].gen)
  /\ Finish(i, e)
  /\ UNCHANGED <<cache, candidates, finished, keeper, dbVars, kafkaVars, partnerVars, up, faults>>

(* A faulty RecordDelivery: the order's sequence is inserted, never updated.   *)
RecordDeliveryInsertOnly(i, e) ==
  /\ At(i, e, "accepted") /\ Holds(i, e, run[i][e].gen)
  /\ Complete(i, e)
  /\ effect' = effect \cup {e}
  /\ orderSeq' = IF orderSeq[OrderOf[e]] # 0 THEN orderSeq
                 ELSE [orderSeq EXCEPT ![OrderOf[e]] = SeqOf[e]]
  /\ completion' = completion \cup {e}
  /\ MarkFinished(i, e) /\ Finish(i, e)
  /\ UNCHANGED <<permitRows, admission, cache, candidates, keeper, kafkaVars,
                 partnerVars, up, faults>>

(* recordDelivery, the completion report and complete, in one transaction.     *)
RecordDelivery(i, e) ==
  /\ At(i, e, "accepted") /\ Holds(i, e, run[i][e].gen)
  /\ IF e \in effect \/ NextInOrder(e)
     THEN /\ Complete(i, e)
          /\ effect' = effect \cup {e}
          /\ orderSeq' = IF e \in effect THEN orderSeq
                         ELSE [orderSeq EXCEPT ![OrderOf[e]] = SeqOf[e]]
          /\ completion' = IF e \in effect THEN completion ELSE completion \cup {e}
          /\ MarkFinished(i, e) /\ Finish(i, e)
     ELSE /\ GoTo(i, e, "failed")
          /\ UNCHANGED <<inbox, permit, effect, orderSeq, completion, finished>>
  /\ UNCHANGED <<permitRows, admission, cache, candidates, keeper, kafkaVars,
                 partnerVars, up, faults>>

(* A faulty GiveBack: the row is put back without checking the token.          *)
GiveBackUnfenced(i, e) ==
  /\ At(i, e, "failed")
  /\ inbox' = [inbox EXCEPT ![e].state = "PENDING", ![e].owner = None,
                            ![e].lease = Expired, ![e].wait = 0]
  /\ permit' = Release(i, e)
  /\ Finish(i, e)
  /\ UNCHANGED <<permitRows, admission, effect, orderSeq, completion, cache, candidates,
                 finished, keeper, kafkaVars, partnerVars, up, faults>>

(* giveBack after a failure: the row is due again after a backoff if the token *)
(* still holds, the permit is released if it is still this claim's.            *)
GiveBack(i, e) ==
  /\ At(i, e, "failed")
  /\ IF Holds(i, e, run[i][e].gen)
     THEN \E delay \in 0 .. MaxBackoff :
            inbox' = [inbox EXCEPT ![e].state = "PENDING", ![e].owner = None,
                                   ![e].lease = Expired, ![e].wait = delay]
     ELSE UNCHANGED inbox
  /\ permit' = Release(i, e)
  /\ Finish(i, e)
  /\ UNCHANGED <<permitRows, admission, effect, orderSeq, completion, cache, candidates,
                 finished, keeper, kafkaVars, partnerVars, up, faults>>

(* A statement or transaction of the worker fails and leaves nothing behind;   *)
(* when it was giveBack, the row stays claimed until its lease runs out.       *)
WorkerDatabaseError(i, e) ==
  /\ i \in up /\ run[i][e].phase \in {"begin", "duplicate", "order", "accepted", "failed"}
  /\ Fault("database")
  /\ IF run[i][e].phase = "failed" THEN Finish(i, e) ELSE GoTo(i, e, "failed")
  /\ UNCHANGED <<cache, candidates, finished, keeper, dbVars, kafkaVars, partnerVars, up>>

-----------------------------------------------------------------------------
(* The partner: PartnerApiClient.submit and the partner's order endpoint       *)

(* A key seen before is answered without a new effect; otherwise the sequence  *)
(* must be the order's next one.                                               *)
PartnerAccepts(e) == e \in ledger \/ SeqOf[e] = partnerSeq[OrderOf[e]] + 1

(* A faulty PartnerApply: a key seen before is applied again.                  *)
PartnerApplyAgain(e) ==
  IF PartnerAccepts(e)
  THEN /\ ledger' = ledger \cup {e}
       /\ partnerSeq' = [partnerSeq EXCEPT ![OrderOf[e]] = SeqOf[e]]
  ELSE UNCHANGED <<ledger, partnerSeq>>

(* The effect of an accepted call, once per event.                             *)
PartnerApply(e) ==
  IF e \in ledger \/ ~PartnerAccepts(e)
  THEN UNCHANGED <<ledger, partnerSeq>>
  ELSE /\ ledger' = ledger \cup {e}
       /\ partnerSeq' = [partnerSeq EXCEPT ![OrderOf[e]] = SeqOf[e]]

(* The call reaches the partner and the worker gets its answer.                *)
Call(i, e) ==
  /\ At(i, e, "call")
  /\ PartnerApply(e)
  /\ GoTo(i, e, IF PartnerAccepts(e) THEN "accepted" ELSE "failed")
  /\ UNCHANGED <<late, cache, candidates, finished, keeper, dbVars, kafkaVars, up, faults>>

(* The partner takes the call but its answer never arrives.                    *)
CallAnswerLost(i, e) ==
  /\ At(i, e, "call")
  /\ Fault("lost")
  /\ PartnerApply(e)
  /\ GoTo(i, e, "failed")
  /\ UNCHANGED <<late, cache, candidates, finished, keeper, dbVars, kafkaVars, up>>

(* The partner answers with an error and has no effect.                        *)
CallRefused(i, e) ==
  /\ At(i, e, "call")
  /\ Fault("refuse")
  /\ GoTo(i, e, "failed")
  /\ UNCHANGED <<cache, candidates, finished, keeper, dbVars, kafkaVars, partnerVars, up>>

(* A faulty CallTimesOut: no answer is taken for an answer.                    *)
CallTimesOutAccepted(i, e) ==
  /\ At(i, e, "call")
  /\ Fault("timeout")
  /\ GoTo(i, e, "accepted")
  /\ late' = late \cup {e}
  /\ UNCHANGED <<ledger, partnerSeq, cache, candidates, finished, keeper, dbVars, kafkaVars, up>>

(* The worker stops waiting; the partner may still handle the call later.      *)
CallTimesOut(i, e) ==
  /\ At(i, e, "call")
  /\ Fault("timeout")
  /\ GoTo(i, e, "failed")
  /\ late' = late \cup {e}
  /\ UNCHANGED <<ledger, partnerSeq, cache, candidates, finished, keeper, dbVars, kafkaVars, up>>

(* The call reaches the partner after all, and nobody reads the answer.        *)
LateCall(e) ==
  /\ e \in late
  /\ PartnerApply(e)
  /\ late' = late \ {e}
  /\ UNCHANGED <<dbVars, kafkaVars, memoryVars, up, faults>>

-----------------------------------------------------------------------------
(* The janitor, the clock and crashes *)

(* InboxJanitor deletes delivered rows past their retention.  How long that is *)
(* does not matter here: a delivered row may go at any time.                   *)
Purge(e) ==
  /\ inbox[e].state = "DONE"
  /\ inbox' = [inbox EXCEPT ![e] = NoRow]
  /\ UNCHANGED <<permit, permitRows, admission, effect, orderSeq, completion, kafkaVars,
                 memoryVars, partnerVars, up, faults>>

(* A faulty Less: a lease that has run out goes on running.                    *)
LessForever(lease) == lease - 1

(* What is left of a lease one tick later.                                     *)
Less(lease) == IF lease = Expired THEN Expired ELSE lease - 1

(* Time passes on the database clock.                                          *)
Elapse ==
  /\ inbox' = [e \in Events |->
       [inbox[e] EXCEPT !.lease = Less(@), !.wait = IF @ = 0 THEN 0 ELSE @ - 1]]
  /\ permit' = [s \in Sellers |-> [k \in Slots |-> [permit[s][k] EXCEPT !.lease = Less(@)]]]
  /\ admission' = {[a EXCEPT !.age = @ + 1] : a \in {b \in admission : b.age + 1 < RetryWindow}}
  /\ UNCHANGED <<permitRows, effect, orderSeq, completion, kafkaVars, memoryVars, partnerVars, up>>

(* With this tick a lease runs out under a worker that is still running.       *)
ClaimLapses == \E i \in up, e \in Events : Holds(i, e, run[i][e].gen) /\ inbox[e].lease = 0

(* With this tick a permit runs out between the two statements of a renewal.   *)
PermitLapses ==
  \E i \in up :
    LET c == keeper[i]
    IN /\ c # None
       /\ HoldsPermit(i, c.event, c.gen, c.slot)
       /\ permit[EventSeller(c.event)][c.slot].lease = 0

Tick  == ~ClaimLapses /\ ~PermitLapses /\ Elapse /\ UNCHANGED faults
Stall == ClaimLapses /\ ~PermitLapses /\ Fault("stall") /\ Elapse
RenewStall == PermitLapses /\ Fault("renew") /\ Elapse

(* The process dies: its memory and its open transactions are gone, a call on  *)
(* its way may still arrive.  Some incarnation is always left or started.      *)
Crash(i) ==
  /\ i \in up /\ up # {i}
  /\ Fault("crash")
  /\ up' = up \ {i}
  /\ late' = late \cup {e \in Events : run[i][e].phase = "call"}
  /\ ingest' = [ingest EXCEPT ![i] = NoBatch]
  /\ cache' = [cache EXCEPT ![i] = {}]
  /\ candidates' = [candidates EXCEPT ![i] = {}]
  /\ finished' = [finished EXCEPT ![i] = {}]
  /\ run' = [run EXCEPT ![i] = [e \in Events |-> NoRun]]
  /\ keeper' = [keeper EXCEPT ![i] = None]
  /\ UNCHANGED <<dbVars, assigned, committed, ledger, partnerSeq>>

-----------------------------------------------------------------------------
Ingest(i) ==
  \/ \E p \in Partitions : Poll(i, p) \/ Rebalance(p, i)
  \/ ReadInbox(i) \/ ReadEffect(i) \/ CheckCapacity(i) \/ StoreAll(i) \/ InboxFull(i)
  \/ IngestError(i) \/ Acknowledge(i)

Dispatch(i, e) ==
  SkipCandidate(i, e) \/ ClaimRefused(i, e) \/ ClaimRow(i, e) \/ ClaimError(i, e)

Renew(i) == RenewPermit(i) \/ RenewError(i) \/ \E e \in Events : RenewRow(i, e)

Work(i, e) ==
  \/ CheckDelivered(i, e) \/ FinishDuplicate(i, e) \/ CheckOrder(i, e)
  \/ Call(i, e) \/ CallAnswerLost(i, e) \/ CallRefused(i, e) \/ CallTimesOut(i, e)
  \/ RefuseStale(i, e) \/ RecordDelivery(i, e) \/ GiveBack(i, e)
  \/ WorkerDatabaseError(i, e)

Next ==
  \/ \E i \in Instances : Ingest(i) \/ FindReady(i) \/ Renew(i) \/ Crash(i)
  \/ \E i \in Instances, e \in Events : Dispatch(i, e) \/ Work(i, e)
  \/ \E e \in Events : LateCall(e) \/ Purge(e)
  \/ Tick \/ Stall \/ RenewStall

Spec == Init /\ [][Next]_vars

(* The listener, the dispatcher, the workers, the lease keeper and the janitor *)
(* are threads or schedules that keep running; time keeps passing.  Nothing is *)
(* assumed of a step that is a fault.                                          *)
Progress(i) ==
  \/ \E p \in Partitions : Poll(i, p) \/ (assigned[p] \notin up /\ Rebalance(p, i))
  \/ ReadInbox(i) \/ ReadEffect(i) \/ CheckCapacity(i) \/ StoreAll(i) \/ InboxFull(i)
  \/ Acknowledge(i)

WorkerProgress(i, e) ==
  \/ CheckDelivered(i, e) \/ FinishDuplicate(i, e) \/ CheckOrder(i, e) \/ Call(i, e)
  \/ RefuseStale(i, e) \/ RecordDelivery(i, e) \/ GiveBack(i, e)

DispatchProgress(i) ==
  \/ FindReady(i)
  \/ \E e \in Events : SkipCandidate(i, e) \/ ClaimRefused(i, e) \/ ClaimRow(i, e)

Fairness ==
  /\ \A i \in Instances :
       /\ WF_vars(Progress(i))
       /\ WF_vars(DispatchProgress(i))
       /\ WF_vars(RenewPermit(i))
       /\ \A e \in Events : WF_vars(WorkerProgress(i, e))
  /\ \A e \in Events : WF_vars(Purge(e))
  /\ WF_vars(Tick)

FairSpec == Spec /\ Fairness

-----------------------------------------------------------------------------
(* Properties *)

(* The service's ledger holds exactly the first operations of each order: what *)
(* partner_effect lists is what partner_order counts, with no gap.             *)
LedgerInSequence ==
  \A e \in Events : e \in effect <=> SeqOf[e] <= orderSeq[OrderOf[e]]

(* A delivery is recorded, and reported to the source, only after the partner  *)
(* has applied it; the report exists whenever the record does.                 *)
RecordedWasApplied == effect \subseteq ledger /\ completion = effect

(* "The partner must never see CHANGE before CREATE": whenever a call for an   *)
(* event is on its way, be it one nobody waits for any more, the partner has   *)
(* applied every earlier operation of the order.                               *)
PredecessorFirst ==
  \A d, e \in Events :
    /\ OrderOf[d] = OrderOf[e] /\ SeqOf[d] < SeqOf[e]
    /\ e \in late \/ \E i \in Instances : run[i][e].phase = "call"
    => d \in ledger

(* A delivered event has no row left that waits for delivery: such a row would *)
(* wait forever, because its sequence is no longer the next one of its order   *)
(* (storeAll reads the inbox before the deliveries for this reason).           *)
NothingStranded == \A e \in effect : inbox[e].state \in {"ABSENT", "DONE"}

(* A record whose offset is committed is stored or delivered, so neither a     *)
(* crash nor a purge nor a rebalance loses it.                                 *)
NothingLost ==
  \A p \in Partitions : \A n \in 1 .. committed[p] :
    Stored(Log[p][n]) \/ Log[p][n] \in effect

(* The limits of the inbox hold for all ingesting instances together.          *)
WithinCapacity ==
  Cardinality(Pending) <= PendingLimit /\ Cardinality(Retained) <= RetainedLimit

(* An instance refuses to run again only what has been delivered; an event     *)
(* remembered as finished too early would never be admitted there again.       *)
FinishedIsDelivered == \A i \in Instances : finished[i] \subseteq effect

(* The events of a seller some worker is busy with under a claim that holds.   *)
Working(s) ==
  {e \in Events : /\ EventSeller(e) = s
                  /\ \E i \in Instances : e \in Active(i) /\ Holds(i, e, run[i][e].gen)}

(* "The seller limit holds across them": the workers of all instances together *)
(* never run more valid claims of a seller than it has permits.                *)
SellerLimit == \A s \in Sellers : Cardinality(Working(s)) <= Permits

(* "Every later write checks that the owner and generation still match": a     *)
(* claim under a valid lease is ended only by the worker that holds its token. *)
Token(e) == <<inbox[e].state, inbox[e].owner, inbox[e].gen>>
ClaimEndsByOwner(e) ==
  inbox[e].state = "CLAIMED" /\ inbox[e].lease # Expired /\ Token(e)' # Token(e)
    => \E i \in Instances : /\ inbox[e].owner = i
                            /\ run[i][e].gen = inbox[e].gen
                            /\ run'[i][e].phase = "idle"
OnlyOwnerEndsClaim == [][\A e \in Events : ClaimEndsByOwner(e)]_vars

(* Every published record is delivered in the end, whatever finitely many      *)
(* faults happen on the way.                                                   *)
EveryRecordDelivered ==
  \A p \in Partitions : \A n \in 1 .. Len(Log[p]) : <>(Log[p][n] \in effect)

(* "Lock waits and deadlocks with another instance end here; the row is tried  *)
(* again later": a row that is due is claimed by somebody, or delivered.       *)
RowTriedAgain ==
  \A e \in Events : Ready(e) ~> (inbox[e].state = "CLAIMED" \/ e \in effect)

(* What the partner and the ledger show of an order, as PartnerDelivery.       *)
Delivery == INSTANCE PartnerDelivery WITH applied <- partnerSeq, recorded <- orderSeq
DeliverySpec == Delivery!Spec
=============================================================================
