---------------------------- MODULE PartnerLedger ----------------------------
(* The mock partner API (experiments/mock-partner-api/server.py) as a server   *)
(* of its own: handler threads that decide against in-memory state under one   *)
(* lock, one writer thread that commits their records in groups, /snapshot     *)
(* behind a commit barrier, /reset to a new ledger file, and crashes.          *)
EXTENDS Integers, Sequences, FiniteSets, FiniteSetsExt

CONSTANTS
  Requests,     \* POST /orders requests, numbered as they come; one sent again is another
  Events, Orders,
  Bodies,       \* what two requests for the same event can differ in
  OrderOf,      \* per event
  SequenceOf,   \* per event: sequence, counted from 1
  Policies,     \* what /control may set: [failures, idempotent, drop]
  MaxGroup,     \* records one group commit may hold (2000 in the code)
  MaxLedgers,   \* bound: ledger files, one more than the number of resets
  MaxSteps,     \* bound: failed group commits, crashes, resets and snapshots
  None

ASSUME LedgerAssumption ==
  /\ Requests \subseteq Nat
  /\ OrderOf \in [Events -> Orders] /\ SequenceOf \in [Events -> Nat \ {0}]
  /\ Policies \subseteq [failures : Nat, idempotent : BOOLEAN, drop : BOOLEAN]
  /\ MaxGroup \in Nat \ {0} /\ MaxLedgers \in Nat \ {0}
  /\ None \notin Events \cup Bodies

VARIABLES
  ledger,     \* the global "ledger": which file is current
  mem,        \* per ledger: effects, orders, counts, nextAttempt, nextEffect
  queue,      \* per ledger: pending, the queue of the writer thread
  group,      \* per ledger: the batch the writer is committing
  stopped,    \* per ledger: the writer thread has returned
  disk,       \* per ledger: the committed rows
  controls,   \* the fault policy in force
  handler,    \* per request: the locals of its do_POST
  snapshot,   \* the locals of one GET /snapshot
  reset,      \* where POST /reset is in Ledger.close
  steps,      \* failed group commits, crashes, resets and snapshots so far
  torn        \* for the property: ledgers reloaded with an order row behind its effects

ledgerVars == <<ledger, mem, queue, group, stopped, disk, controls, handler,
                snapshot, reset, steps, torn>>

Ledgers  == 1 .. MaxLedgers
NoPolicy == [failures |-> 0, idempotent |-> TRUE, drop |-> FALSE]
EmptyDisk == [effects |-> {}, orders |-> [o \in Orders |-> 0], attempts |-> {}]

(* Ledger.__init__: the decision state rebuilt from the committed rows.        *)
Load(d) ==
  [effects |-> [e \in Events |->
      IF \E x \in d.effects : x.event = e
      THEN (CHOOSE x \in d.effects : x.event = e).payload ELSE None],
   orders  |-> d.orders,
   counts  |-> [e \in Events |-> Cardinality({x \in d.attempts : x.event = e})],
   nextAttempt |-> Max({0} \cup {x.id : x \in d.attempts}) + 1,
   nextEffect  |-> Max({0} \cup {x.index : x \in d.effects}) + 1]

Idle == [step |-> "idle", event |-> None, body |-> None, ledger |-> 1, count |-> 0, attempt |-> 0,
         policy |-> NoPolicy, status |-> 0, index |-> 0, dropped |-> FALSE]
NoSnapshot == [step |-> "idle", ledger |-> 1, due |-> {}, effects |-> {}, orders |-> {}]

Comes(r)   == handler[r].step = "idle" /\ \A q \in Requests : q < r => handler[q].step # "idle"
Active(r)  == handler[r].step \in {"sleeping", "decided", "waiting", "written"}
Settled(r) == handler[r].step \in {"answered", "dropped", "failed", "lost"}

(* Types; and the ids the lock hands out are ahead of every id in use, so no   *)
(* INSERT of a group can collide with a committed row.                         *)
LedgerTypeOK ==
  /\ ledger \in Ledgers /\ reset \in {"idle", "barrier", "flushed", "stopping"}
  /\ controls \in Policies \cup {NoPolicy}
  /\ \A l \in Ledgers :
       /\ stopped[l] \in BOOLEAN
       /\ disk[l].orders \in [Orders -> Nat]
       /\ \A x \in disk[l].attempts : x.id < mem[l].nextAttempt
       /\ \A x \in disk[l].effects : x.index < mem[l].nextEffect
  /\ \A r \in Requests :
       /\ Active(r) \/ Settled(r) \/ handler[r].step = "idle"
       /\ handler[r].status \in {0, 200, 400, 409, 503}

LedgerInit ==
  /\ ledger = 1 /\ controls = NoPolicy
  /\ disk = [l \in Ledgers |-> EmptyDisk]
  /\ mem = [l \in Ledgers |-> Load(EmptyDisk)]
  /\ queue = [l \in Ledgers |-> <<>>] /\ group = [l \in Ledgers |-> <<>>]
  /\ stopped = [l \in Ledgers |-> FALSE]
  /\ handler = [r \in Requests |-> Idle]
  /\ snapshot = NoSnapshot /\ reset = "idle"
  /\ steps = 0 /\ torn = {}

Put(l, item) == queue' = [queue EXCEPT ![l] = Append(@, item)]

-----------------------------------------------------------------------------
(* POST /control.                                                              *)
Control(p) ==
  /\ controls' = p
  /\ UNCHANGED <<ledger, mem, queue, group, stopped, disk, handler, snapshot, reset, steps, torn>>

(* POST /orders up to its delay: the policy is copied, the attempt             *)
(* counted under the lock of the ledger that is current now, and the start     *)
(* record queued. The put follows the lock at once and is one step with        *)
(* it: only the request's own outcome, which it queues later, depends on it.   *)
Arrive(r, e, body) ==
  LET m == mem[ledger] IN
  /\ Comes(r)
  /\ handler' = [handler EXCEPT ![r] =
       [step |-> "sleeping", event |-> e, body |-> body, ledger |-> ledger, count |-> m.counts[e],
        attempt |-> m.nextAttempt, policy |-> controls, status |-> 0, index |-> 0, dropped |-> FALSE]]
  /\ mem' = [mem EXCEPT ![ledger] = [m EXCEPT !.counts[e] = @ + 1, !.nextAttempt = @ + 1]]
  /\ Put(ledger, [kind |-> "start", by |-> r])
  /\ UNCHANGED <<ledger, group, stopped, disk, controls, snapshot, reset, steps, torn>>

(* The Idempotency-Key is not the eventId: refused before anything is counted. *)
RefuseKey(r) ==
  /\ Comes(r)
  /\ handler' = [handler EXCEPT ![r].step = "answered", ![r].status = 400]
  /\ UNCHANGED <<ledger, mem, queue, group, stopped, disk, controls, snapshot, reset, steps, torn>>

(* The status the second lock section gives to a request.                      *)
Decision(r) ==
  LET h == handler[r]
      m == mem[h.ledger]
      e == handler[r].event
  IN CASE h.count < h.policy.failures -> 503
       [] h.count >= h.policy.failures /\ m.effects[e] # None /\ h.policy.idempotent ->
            IF m.effects[e] = handler[r].body THEN 200 ELSE 409
       [] OTHER -> IF SequenceOf[e] = m.orders[OrderOf[e]] + 1 THEN 200 ELSE 409

Applies(r) ==
  LET h == handler[r] IN
  /\ Decision(r) = 200
  /\ mem[h.ledger].effects[handler[r].event] = None \/ ~h.policy.idempotent

(* The second lock section, after the delay: decide, and apply in memory.      *)
Decide(r) ==
  LET h == handler[r]
      e == handler[r].event
      m == mem[h.ledger]
  IN /\ h.step = "sleeping"
     /\ handler' = [handler EXCEPT ![r] =
          [step |-> "decided", event |-> e, body |-> h.body, ledger |-> h.ledger, count |-> 0,
           attempt |-> h.attempt, policy |-> NoPolicy, status |-> Decision(r),
           index |-> IF Applies(r) THEN m.nextEffect ELSE 0,
           dropped |-> Decision(r) = 200 /\ h.policy.drop /\ h.count = 0]]
     /\ mem' = IF Applies(r)
               THEN [mem EXCEPT ![h.ledger] =
                      [m EXCEPT !.effects[e] = h.body, !.orders[OrderOf[e]] = SequenceOf[e],
                                !.nextEffect = @ + 1]]
               ELSE mem
     /\ UNCHANGED <<ledger, queue, group, stopped, disk, controls, snapshot, reset, steps, torn>>

(* A faulty Write: the answer does not wait for the commit.                    *)
WriteUnwaited(r) ==
  /\ handler[r].step = "decided"
  /\ handler' = [handler EXCEPT ![r].step = "written"]
  /\ Put(handler[r].ledger, [kind |-> "outcome", by |-> r])
  /\ UNCHANGED <<ledger, mem, group, stopped, disk, controls, snapshot, reset, steps, torn>>

(* write(statements): queued after the lock is released, then wait.            *)
Write(r) ==
  /\ handler[r].step = "decided"
  /\ handler' = [handler EXCEPT ![r].step = "waiting"]
  /\ Put(handler[r].ledger, [kind |-> "outcome", by |-> r])
  /\ UNCHANGED <<ledger, mem, group, stopped, disk, controls, snapshot, reset, steps, torn>>

(* The group is committed: reply, or cut the connection without an answer.     *)
Answer(r) ==
  /\ handler[r].step = "written"
  /\ handler' = [handler EXCEPT ![r].attempt = 0,
                   ![r].step = IF handler[r].dropped THEN "dropped" ELSE "answered"]
  /\ UNCHANGED <<ledger, mem, queue, group, stopped, disk, controls, snapshot, reset, steps, torn>>

-----------------------------------------------------------------------------
(* The items one group takes: what is queued, up to the stop sentinel, at most *)
(* MaxGroup of them.                                                           *)
GroupSize(q) ==
  LET stops == {i \in 1 .. Len(q) : q[i].kind = "stop"}
  IN Min({Len(q), MaxGroup} \cup {i - 1 : i \in stops})

(* write_loop between two commits. A sentinel met behind other items goes to   *)
(* the end of the queue again, so what was queued after it is still written.   *)
TakeGroup(l) ==
  LET q == queue[l]
      n == GroupSize(q)
      rest == SubSeq(q, n + 1, Len(q))
  IN /\ ~stopped[l] /\ group[l] = <<>> /\ q # <<>>
     /\ \/ /\ n = 0
           /\ stopped' = [stopped EXCEPT ![l] = TRUE]
           /\ queue' = [queue EXCEPT ![l] = Tail(q)]
           /\ UNCHANGED group
        \/ /\ n > 0
           /\ group' = [group EXCEPT ![l] = SubSeq(q, 1, n)]
           /\ queue' = [queue EXCEPT ![l] =
                IF n < MaxGroup /\ rest # <<>> THEN Append(Tail(rest), Head(rest)) ELSE rest]
           /\ UNCHANGED stopped
     /\ UNCHANGED <<ledger, mem, disk, controls, handler, snapshot, reset, steps, torn>>

(* What the statements of a group do to the tables, run one after the other:   *)
(* an item "made" an effect or only ends its attempt, the order row is that of *)
(* the last one made for it, and an attempt whose start record went down with  *)
(* an earlier group stays unknown.                                             *)
ExecuteBatch(d, g) ==
  LET outcomes == {i \in DOMAIN g : g[i].kind = "outcome"}
      made     == {i \in outcomes : handler[g[i].by].index > 0}
      event(i) == handler[g[i].by].event
      of(o)    == {i \in made : OrderOf[event(i)] = o}
      started  == {[id |-> handler[g[i].by].attempt, event |-> event(i), status |-> 0] :
                     i \in {j \in DOMAIN g : g[j].kind = "start"}}
      ends(x)  == {i \in outcomes : handler[g[i].by].attempt = x.id}
  IN [effects  |-> d.effects \cup
        {[index |-> handler[g[i].by].index, event |-> event(i),
          payload |-> handler[g[i].by].body] : i \in made},
      orders   |-> [o \in Orders |->
        IF of(o) = {} THEN d.orders[o] ELSE SequenceOf[event(Max(of(o)))]],
      attempts |-> {IF ends(x) = {} THEN x
                    ELSE [x EXCEPT !.status = handler[g[Max(ends(x))].by].status] :
                      x \in d.attempts \cup started}]

(* A faulty Wake: an error ends the loop over the group before anyone is told. *)
WakeOnSuccess(l, ok) ==
  LET waits(kind, who) == \E i \in DOMAIN group[l] : group[l][i] = [kind |-> kind, by |-> who]
  IN /\ handler' = [r \in Requests |->
          IF ok /\ waits("outcome", r) THEN [handler[r] EXCEPT !.step = "written"] ELSE handler[r]]
     /\ snapshot' = IF ok /\ waits("barrier", "snapshot")
                    THEN [snapshot EXCEPT !.step = "effects"] ELSE snapshot
     /\ reset' = IF ok /\ waits("barrier", "reset") THEN "flushed" ELSE reset

(* done['event'].set() for every member of the group, with the group's error.  *)
Wake(l, ok) ==
  LET waits(kind, who) == \E i \in DOMAIN group[l] : group[l][i] = [kind |-> kind, by |-> who]
  IN /\ handler' = [r \in Requests |->
          IF waits("outcome", r)
          THEN [handler[r] EXCEPT !.step = IF ok THEN "written" ELSE "failed"]
          ELSE handler[r]]
     /\ snapshot' = IF waits("barrier", "snapshot")
                    THEN IF ok THEN [snapshot EXCEPT !.step = "effects"]
                               ELSE [snapshot EXCEPT !.step = "failed"]
                    ELSE snapshot
     /\ reset' = IF waits("barrier", "reset") THEN IF ok THEN "flushed" ELSE "idle" ELSE reset

CommitGroup(l) ==
  /\ group[l] # <<>>
  /\ disk' = [disk EXCEPT ![l] = ExecuteBatch(@, group[l])]
  /\ Wake(l, TRUE)
  /\ group' = [group EXCEPT ![l] = <<>>]
  /\ UNCHANGED <<ledger, mem, queue, stopped, controls, steps, torn>>

(* A statement or the commit fails: rollback, and the error goes to every      *)
(* member. The decisions taken in memory are not taken back.                   *)
FailGroup(l) ==
  /\ group[l] # <<>> /\ steps < MaxSteps
  /\ Wake(l, FALSE)
  /\ group' = [group EXCEPT ![l] = <<>>]
  /\ steps' = steps + 1
  /\ UNCHANGED <<ledger, mem, queue, stopped, disk, controls, torn>>

-----------------------------------------------------------------------------
(* GET /snapshot: an empty write as barrier, then reads of the tables, one     *)
(* after the other, on connections of their own (the attempts, read second,    *)
(* are left out). "due" remembers, for the property, the effects whose own     *)
(* request had its success when the snapshot was asked for.                    *)
SnapshotBegin ==
  /\ snapshot.step = "idle" /\ steps < MaxSteps
  /\ steps' = steps + 1
  /\ snapshot' = [NoSnapshot EXCEPT !.step = "barrier", !.ledger = ledger,
       !.due = {handler[r].event : r \in {q \in Requests :
                  /\ handler[q].step = "answered" /\ handler[q].status = 200
                  /\ handler[q].index > 0 /\ handler[q].ledger = ledger}}]
  /\ Put(ledger, [kind |-> "barrier", by |-> "snapshot"])
  /\ UNCHANGED <<ledger, mem, group, stopped, disk, controls, handler, reset, torn>>

SnapshotEffects ==
  /\ snapshot.step = "effects"
  /\ snapshot' = [snapshot EXCEPT !.step = "orders",
                    !.effects = {x.event : x \in disk[snapshot.ledger].effects}]
  /\ UNCHANGED <<ledger, mem, queue, group, stopped, disk, controls, handler, reset, steps, torn>>

SnapshotOrders ==
  /\ snapshot.step = "orders"
  /\ snapshot' = [snapshot EXCEPT !.step = "done",
                    !.orders = {o \in Orders : disk[snapshot.ledger].orders[o] > 0}]
  /\ UNCHANGED <<ledger, mem, queue, group, stopped, disk, controls, handler, reset, steps, torn>>

-----------------------------------------------------------------------------
(* POST /reset: forget the policies, flush and stop the writer, open the next  *)
(* file. Handlers that hold the old ledger keep it.                            *)
ResetBegin ==
  /\ reset = "idle" /\ ledger < MaxLedgers /\ steps < MaxSteps
  /\ steps' = steps + 1
  /\ reset' = "barrier" /\ controls' = NoPolicy
  /\ Put(ledger, [kind |-> "barrier", by |-> "reset"])
  /\ UNCHANGED <<ledger, mem, group, stopped, disk, handler, snapshot, torn>>

ResetStop ==
  /\ reset = "flushed" /\ reset' = "stopping"
  /\ Put(ledger, [kind |-> "stop", by |-> "reset"])
  /\ UNCHANGED <<ledger, mem, group, stopped, disk, controls, handler, snapshot, steps, torn>>

ResetOpen ==
  /\ reset = "stopping" /\ stopped[ledger] /\ ledger < MaxLedgers
  /\ reset' = "idle" /\ ledger' = ledger + 1
  /\ UNCHANGED <<mem, queue, group, stopped, disk, controls, handler, snapshot, steps, torn>>

(* A record is queued after the lock is released, so a later decision may be   *)
(* committed before an earlier one, whose row then overwrites the order's.     *)
Behind(d) == \E x \in d.effects : d.orders[OrderOf[x.event]] < SequenceOf[x.event]

(* The process dies and is started again on its --database file: whatever was  *)
(* not committed is gone, with every connection that was open.                 *)
CrashRestart ==
  /\ steps < MaxSteps
  /\ steps' = steps + 1
  /\ ledger' = 1 /\ controls' = NoPolicy /\ reset' = "idle"
  /\ mem' = [l \in Ledgers |-> Load(disk[l])]
  /\ queue' = [l \in Ledgers |-> <<>>] /\ group' = [l \in Ledgers |-> <<>>]
  /\ stopped' = [l \in Ledgers |-> FALSE]
  /\ handler' = [r \in Requests |->
       IF Active(r) THEN [handler[r] EXCEPT !.step = "lost"] ELSE handler[r]]
  /\ snapshot' = IF snapshot.step \in {"idle", "done"} THEN snapshot
                 ELSE [snapshot EXCEPT !.step = "failed"]
  /\ torn' = torn \cup {l \in Ledgers : Behind(disk[l])}
  /\ UNCHANGED disk

Handle(r) == Decide(r) \/ Write(r) \/ Answer(r)
Writer(l) == TakeGroup(l) \/ CommitGroup(l) \/ FailGroup(l)

LedgerNext ==
  \/ \E p \in Policies : Control(p)
  \/ \E r \in Requests, e \in Events, body \in Bodies : Arrive(r, e, body)
  \/ \E r \in Requests : RefuseKey(r) \/ Handle(r)
  \/ \E l \in Ledgers : Writer(l)
  \/ SnapshotBegin \/ SnapshotEffects \/ SnapshotOrders
  \/ ResetBegin \/ ResetStop \/ ResetOpen
  \/ CrashRestart

LedgerSpec == LedgerInit /\ [][LedgerNext]_ledgerVars

(* The threads of the server run: a handler that can go on does, and so does   *)
(* the writer. No request need arrive.                                         *)
LedgerFairness ==
  /\ \A r \in Requests : WF_ledgerVars(Handle(r))
  /\ \A l \in Ledgers : WF_ledgerVars(Writer(l))

-----------------------------------------------------------------------------
Durable(l, e) == \E x \in disk[l].effects : x.event = e
Accepted(r) == handler[r].step = "answered" /\ handler[r].status = 200

(* The request that made an effect has its success only once the effect is     *)
(* committed, whatever groups fail or crashes follow: do_POST answers after    *)
(* write() has returned.                                                       *)
OwnSuccessDurable ==
  \A r \in Requests :
    Accepted(r) /\ handler[r].index > 0 => Durable(handler[r].ledger, handler[r].event)

(* The docstring has "a success response always means a durable effect". A     *)
(* repeated request is answered from memory and waits for its own records      *)
(* only. So a success without a committed effect is possible, in one way: the  *)
(* request that made the effect is itself without an answer - its records are  *)
(* not yet written, or went down with its group or with the process.           *)
SuccessHasMaker ==
  \A r \in Requests :
    Accepted(r) /\ ~Durable(handler[r].ledger, handler[r].event) =>
      \E q \in Requests :
        /\ handler[q].event = handler[r].event /\ handler[q].ledger = handler[r].ledger
        /\ handler[q].index > 0 /\ ~Accepted(q)

(* Across failed groups, crashes and reloads an event has at most one          *)
(* committed effect, and the effect indexes of an order rise with its          *)
(* sequence numbers - in every ledger that was never reloaded from an order    *)
(* row that is behind its effects: Load takes the row for the order's state.   *)
EffectsOnceInOrder ==
  \A l \in Ledgers \ torn : \A x, y \in disk[l].effects :
    /\ x.event = y.event => x = y
    /\ OrderOf[x.event] = OrderOf[y.event] /\ x.index < y.index
         => SequenceOf[x.event] < SequenceOf[y.event]

(* "everything answered so far is committed": a snapshot holds every effect    *)
(* whose own request was answered before it, and the order row of every effect *)
(* it holds, although the tables are read one after the other.                 *)
SnapshotCovers ==
  snapshot.step = "done" =>
    /\ snapshot.due \subseteq snapshot.effects
    /\ \A e \in snapshot.effects : OrderOf[e] \in snapshot.orders

(* Every request that entered gets an end - an answer, a cut connection or an  *)
(* error - unless the ledger it holds was closed under it by /reset.           *)
RequestSettles ==
  \A r \in Requests : Active(r) ~> (Settled(r) \/ stopped[handler[r].ledger])

(* What an answer of the mock and a snapshot of it may be taken for: its       *)
(* verdicts rest on the four facts above.                                      *)
LedgerHonest ==
  OwnSuccessDurable /\ SuccessHasMaker /\ EffectsOnceInOrder /\ SnapshotCovers
=============================================================================
