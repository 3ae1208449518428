------------------------ MODULE PartnerLedgerProofs -------------------------
(* The mock partner API, for any requests, events, orders and policies, any    *)
(* size of a group, and any number of failed commits, crashes, resets and      *)
(* snapshots: its answers, its tables and its snapshots are honest.            *)
EXTENDS PartnerLedger, NumberTheorems, SequenceTheorems

-----------------------------------------------------------------------------
(* The mock partner API: the inductive invariant                               *)

LedgerItems == [kind : {"start", "outcome"}, by : Requests]
                 \cup [kind : {"barrier", "stop"}, by : {"snapshot", "reset"}]
EffectRows  == [index : Nat, event : Events, payload : Bodies \cup {None}]

(* A request has its index from the moment it is decided; what has one, or     *)
(* sleeps, is about an event.                                                  *)
HandlerShape(h) ==
  /\ h = [step |-> h.step, event |-> h.event, body |-> h.body, ledger |-> h.ledger,
          count |-> h.count, attempt |-> h.attempt, policy |-> h.policy,
          status |-> h.status, index |-> h.index, dropped |-> h.dropped]
  /\ h.ledger \in Ledgers /\ h.index \in Nat /\ h.body \in Bodies \cup {None}
  /\ h.step \in {"idle", "sleeping"} => h.index = 0 /\ h.status = 0
  /\ h.step = "sleeping" \/ h.index > 0 => h.event \in Events

MemShape(m) ==
  /\ m = [effects |-> m.effects, orders |-> m.orders, counts |-> m.counts,
          nextAttempt |-> m.nextAttempt, nextEffect |-> m.nextEffect]
  /\ m.effects \in [Events -> Bodies \cup {None}]
  /\ m.orders \in [Orders -> Nat] /\ m.nextEffect \in Nat \ {0}

(* An order with an effect has its row.                                        *)
DiskShape(d) ==
  /\ d.effects \subseteq EffectRows /\ IsFiniteSet(d.effects)
  /\ d.orders \in [Orders -> Nat]
  /\ \A x \in d.effects : d.orders[OrderOf[x.event]] > 0

LedgerShape ==
  /\ ledger \in Ledgers
  /\ handler = [r \in Requests |-> handler[r]] /\ \A r \in Requests : HandlerShape(handler[r])
  /\ mem = [l \in Ledgers |-> mem[l]] /\ \A l \in Ledgers : MemShape(mem[l])
  /\ disk = [l \in Ledgers |-> disk[l]] /\ \A l \in Ledgers : DiskShape(disk[l])
  /\ queue \in [Ledgers -> Seq(LedgerItems)] /\ group \in [Ledgers -> Seq(LedgerItems)]
  /\ snapshot = [step |-> snapshot.step, ledger |-> snapshot.ledger, due |-> snapshot.due,
                 effects |-> snapshot.effects, orders |-> snapshot.orders]
  /\ snapshot.ledger \in Ledgers

Outcome(r) == [kind |-> "outcome", by |-> r]
Within(item, s) == \E i \in 1 .. Len(s) : s[i] = item
Queued(l, item) == Within(item, queue[l]) \/ Within(item, group[l])

(* An outcome is queued at the ledger its request holds.                       *)
HomeInv ==
  \A l \in Ledgers, r \in Requests :
    Queued(l, Outcome(r)) =>
      handler[r].ledger = l /\ handler[r].step \notin {"idle", "sleeping", "decided"}

(* Whoever may answer, or has, finds its effect committed.                     *)
OwnInv ==
  \A r \in Requests :
    handler[r].index > 0 /\ handler[r].step \in {"written", "answered", "dropped"} =>
      Durable(handler[r].ledger, handler[r].event)

(* An effect that memory knows, or a success rests on, is committed or has a   *)
(* request that made it.                                                       *)
Vouched(l, e) ==
  Durable(l, e) \/ \E q \in Requests :
    handler[q].index > 0 /\ handler[q].event = e /\ handler[q].ledger = l

VouchedInv ==
  /\ \A r \in Requests :
       handler[r].status = 200 => Vouched(handler[r].ledger, handler[r].event)
  /\ \A l \in Ledgers, e \in Events : mem[l].effects[e] # None => Vouched(l, e)

(* The effects of a ledger that are committed or may still be: memory is ahead *)
(* of them all.                                                                *)
OnItsWay(l, r) ==
  /\ handler[r].index > 0 /\ handler[r].ledger = l
  /\ handler[r].step = "decided" \/ Queued(l, Outcome(r))
RowOf(r) == [index |-> handler[r].index, event |-> handler[r].event, payload |-> handler[r].body]
IsRow(l, x) == x \in disk[l].effects \/ \E r \in Requests : OnItsWay(l, r) /\ x = RowOf(r)

AheadInv ==
  \A l \in Ledgers : \A x \in EffectRows : IsRow(l, x) => x.index < mem[l].nextEffect

InOrder(x, y) ==
  /\ x.event = y.event => x = y
  /\ OrderOf[x.event] = OrderOf[y.event] /\ x.index < y.index
       => SequenceOf[x.event] < SequenceOf[y.event]

OrderInv ==
  \A l \in Ledgers \ torn :
    /\ \A x \in EffectRows :
         IsRow(l, x) => SequenceOf[x.event] <= mem[l].orders[OrderOf[x.event]]
    /\ \A x, y \in EffectRows : IsRow(l, x) /\ IsRow(l, y) => InOrder(x, y)

(* What a snapshot owes and what it has read is committed.                     *)
SnapshotInv ==
  /\ \A e \in snapshot.due \cup snapshot.effects : e \in Events /\ Durable(snapshot.ledger, e)
  /\ snapshot.step \in {"orders", "done"} => snapshot.due \subseteq snapshot.effects
  /\ snapshot.step = "done" => \A e \in snapshot.effects : OrderOf[e] \in snapshot.orders

LedgerInv ==
  LedgerShape /\ HomeInv /\ OwnInv /\ VouchedInv /\ AheadInv /\ OrderInv /\ SnapshotInv


-----------------------------------------------------------------------------
(* The mock partner API: what the steps have in common                         *)

(* Putting an item adds it, and nothing else.                                  *)
LEMMA PutQueued ==
  ASSUME queue \in [Ledgers -> Seq(LedgerItems)], NEW l \in Ledgers,
         NEW item \in LedgerItems, Put(l, item), group' = group
  PROVE /\ queue' \in [Ledgers -> Seq(LedgerItems)]
        /\ \A k \in Ledgers, it \in LedgerItems :
             Queued(k, it)' <=> Queued(k, it) \/ (k = l /\ it = item)
  <1>1. queue[l] \in Seq(LedgerItems)
    OBVIOUS
  <1>2. queue' = [queue EXCEPT ![l] = Append(queue[l], item)]
    BY DEF Put
  <1>3. Append(queue[l], item) \in Seq(LedgerItems)
    BY <1>1
  <1>4. ASSUME NEW it \in LedgerItems
        PROVE Within(it, Append(queue[l], item)) <=> Within(it, queue[l]) \/ it = item
    <2>1. Len(queue[l]) \in Nat /\ Len(Append(queue[l], item)) = Len(queue[l]) + 1
      BY <1>1
    <2>2. \A i \in 1 .. Len(queue[l]) : Append(queue[l], item)[i] = queue[l][i]
      BY <1>1
    <2>3. Append(queue[l], item)[Len(queue[l]) + 1] = item
      BY <1>1
    <2> HIDE <1>1, <1>2, <1>3
    <2> QED BY <2>1, <2>2, <2>3 DEF Within
  <1>5. queue' \in [Ledgers -> Seq(LedgerItems)]
    BY <1>2, <1>3
  <1>6. ASSUME NEW k \in Ledgers, NEW it \in LedgerItems
        PROVE Queued(k, it)' <=> Queued(k, it) \/ (k = l /\ it = item)
    <2>1. CASE k = l
      BY <2>1, <1>2, <1>4 DEF Queued, Within
    <2>2. CASE k # l
      BY <2>2, <1>2 DEF Queued, Within
    <2> QED BY <2>1, <2>2
  <1> QED BY <1>5, <1>6

(* A group is a first part of the queue.                                       *)
LEMMA GroupSizeWithin ==
  ASSUME NEW q \in Seq(LedgerItems)
  PROVE GroupSize(q) \in 0 .. Len(q)
  <1> DEFINE stops == {i \in 1 .. Len(q) : q[i].kind = "stop"}
             sizes == {Len(q), MaxGroup} \cup {i - 1 : i \in stops}
  <1>1. Len(q) \in Nat /\ MaxGroup \in Nat
    BY LedgerAssumption
  <1>2. \A i \in stops : i - 1 \in Nat
    BY <1>1
  <1>3. sizes \in SUBSET Nat /\ Len(q) \in sizes
    BY <1>1, <1>2
  <1>4. GroupSize(q) = Min(sizes)
    BY DEF GroupSize
  <1> HIDE DEF sizes
  <1>5. \E x \in sizes : \A y \in sizes : x <= y
    BY <1>3, LeastNumber
  <1>6. Min(sizes) \in sizes /\ \A y \in sizes : Min(sizes) <= y
    BY <1>5 DEF Min
  <1>7. GroupSize(q) \in sizes /\ GroupSize(q) <= Len(q)
    BY <1>3, <1>4, <1>6
  <1>8. GroupSize(q) \in Nat
    BY <1>3, <1>7
  <1> HIDE <1>3, <1>4, <1>5, <1>6
  <1> QED BY <1>1, <1>7, <1>8

(* The writer takes items, and puts the sentinel back: nothing new is queued.  *)
LEMMA TakeQueued ==
  ASSUME queue \in [Ledgers -> Seq(LedgerItems)], group \in [Ledgers -> Seq(LedgerItems)],
         NEW l \in Ledgers, TakeGroup(l)
  PROVE /\ queue' \in [Ledgers -> Seq(LedgerItems)] /\ group' \in [Ledgers -> Seq(LedgerItems)]
        /\ \A k \in Ledgers, it \in LedgerItems : Queued(k, it)' => Queued(k, it)
  <1> DEFINE q == queue[l]
             n == GroupSize(q)
             rest == SubSeq(q, n + 1, Len(q))
  <1>1. q \in Seq(LedgerItems) /\ q # << >> /\ n \in 0 .. Len(q) /\ Len(q) \in Nat
    BY GroupSizeWithin DEF TakeGroup
  <1>2. Tail(q) \in Seq(LedgerItems) /\ \A it : Within(it, Tail(q)) => Within(it, q)
    <2>1. Tail(q) \in Seq(LedgerItems) /\ Len(Tail(q)) = Len(q) - 1
          /\ \A i \in 1 .. Len(Tail(q)) : Tail(q)[i] = q[i + 1]
      BY <1>1, HeadTailProperties
    <2> HIDE DEF q
    <2> QED BY <1>1, <2>1 DEF Within
  <1>3. SubSeq(q, 1, n) \in Seq(LedgerItems) /\ \A it : Within(it, SubSeq(q, 1, n)) => Within(it, q)
    <2>1. \A i \in 1 .. n : q[i] \in LedgerItems
      BY <1>1
    <2>2. /\ SubSeq(q, 1, n) \in Seq(LedgerItems)
          /\ Len(SubSeq(q, 1, n)) = IF 1 <= n THEN n - 1 + 1 ELSE 0
          /\ \A i \in 1 .. n - 1 + 1 : SubSeq(q, 1, n)[i] = q[1 + i - 1]
      BY <1>1, <2>1, SubSeqProperties
    <2> HIDE DEF q, n
    <2> QED BY <1>1, <2>2 DEF Within
  <1>4. rest \in Seq(LedgerItems) /\ \A it : Within(it, rest) => Within(it, q)
    <2>1. \A i \in n + 1 .. Len(q) : q[i] \in LedgerItems
      BY <1>1
    <2>2. /\ rest \in Seq(LedgerItems)
          /\ Len(rest) = IF n + 1 <= Len(q) THEN Len(q) - (n + 1) + 1 ELSE 0
          /\ \A i \in 1 .. Len(q) - (n + 1) + 1 : rest[i] = q[n + 1 + i - 1]
      BY <1>1, <2>1, SubSeqProperties
    <2> HIDE DEF q, n, rest
    <2> QED BY <1>1, <2>2 DEF Within
  <1>5. ASSUME rest # << >>
        PROVE /\ Append(Tail(rest), Head(rest)) \in Seq(LedgerItems)
              /\ \A it : Within(it, Append(Tail(rest), Head(rest))) => Within(it, rest)
    <2> HIDE DEF rest
    <2>1. /\ Head(rest) \in LedgerItems /\ Tail(rest) \in Seq(LedgerItems)
          /\ Len(Tail(rest)) = Len(rest) - 1
          /\ \A i \in 1 .. Len(Tail(rest)) : Tail(rest)[i] = rest[i + 1]
      BY <1>4, <1>5, HeadTailProperties
    <2>2. Len(rest) \in Nat \ {0} /\ Head(rest) = rest[1]
      BY <1>4, <1>5
    <2>3. /\ Append(Tail(rest), Head(rest)) \in Seq(LedgerItems)
          /\ Len(Append(Tail(rest), Head(rest))) = Len(Tail(rest)) + 1
          /\ \A i \in 1 .. Len(Tail(rest)) : Append(Tail(rest), Head(rest))[i] = Tail(rest)[i]
          /\ Append(Tail(rest), Head(rest))[Len(Tail(rest)) + 1] = Head(rest)
      BY <2>1
    <2> DEFINE u == Append(Tail(rest), Head(rest))
    <2>4. ASSUME NEW i \in 1 .. Len(u) PROVE \E j \in 1 .. Len(rest) : rest[j] = u[i]
      <3> HIDE DEF u
      <3>1. CASE i \in 1 .. Len(Tail(rest))
        <4>1. u[i] = rest[i + 1] /\ i + 1 \in 1 .. Len(rest)
          BY <3>1, <2>1, <2>2, <2>3 DEF u
        <4> QED BY <4>1
      <3>2. CASE i = Len(Tail(rest)) + 1
        <4>1. u[i] = rest[1] /\ 1 \in 1 .. Len(rest)
          BY <3>2, <2>2, <2>3 DEF u
        <4> QED BY <4>1
      <3>3. Len(Tail(rest)) \in Nat /\ Len(u) = Len(Tail(rest)) + 1
        BY <2>1, <2>2, <2>3 DEF u
      <3>4. i \in 1 .. Len(Tail(rest)) \/ i = Len(Tail(rest)) + 1
        BY <3>3
      <3> QED BY <3>1, <3>2, <3>4
    <2>5. \A it : Within(it, u) => Within(it, rest)
      <3> HIDE DEF u
      <3> QED BY <2>4 DEF Within
    <2> QED BY <2>3, <2>5
  <1>6. ASSUME NEW t \in Seq(LedgerItems), NEW g \in Seq(LedgerItems),
               queue' = [queue EXCEPT ![l] = t], group' = [group EXCEPT ![l] = g],
               \A it : Within(it, t) \/ Within(it, g) => Within(it, q) \/ Within(it, group[l])
        PROVE /\ queue' \in [Ledgers -> Seq(LedgerItems)] /\ group' \in [Ledgers -> Seq(LedgerItems)]
              /\ \A k \in Ledgers, it \in LedgerItems : Queued(k, it)' => Queued(k, it)
    <2>1. ASSUME NEW k \in Ledgers, NEW it \in LedgerItems, Queued(k, it)' PROVE Queued(k, it)
      <3>1. CASE k = l
        BY <3>1, <2>1, <1>6 DEF Queued, Within
      <3>2. CASE k # l
        BY <3>2, <2>1, <1>6 DEF Queued, Within
      <3> QED BY <3>1, <3>2
    <2> QED BY <1>6, <2>1
  <1>7. CASE n = 0 /\ queue' = [queue EXCEPT ![l] = Tail(q)] /\ UNCHANGED group
    <2>1. group' = [group EXCEPT ![l] = group[l]] /\ group[l] \in Seq(LedgerItems)
      BY <1>7
    <2> QED BY <1>2, <1>6, <1>7, <2>1
  <1>8. CASE n > 0 /\ group' = [group EXCEPT ![l] = SubSeq(q, 1, n)]
             /\ queue' = [queue EXCEPT ![l] =
                  IF n < MaxGroup /\ rest # <<>> THEN Append(Tail(rest), Head(rest)) ELSE rest]
    <2> DEFINE t == IF n < MaxGroup /\ rest # <<>> THEN Append(Tail(rest), Head(rest)) ELSE rest
    <2>1. t \in Seq(LedgerItems) /\ \A it : Within(it, t) => Within(it, q)
      BY <1>4, <1>5
    <2> HIDE DEF t
    <2> QED BY <1>3, <1>6, <1>8, <2>1 DEF t
  <1> QED BY <1>7, <1>8 DEF TakeGroup

(* No step but a decision gives an effect to a request or a success; none      *)
(* takes one away, and what is committed stays.                                *)
SameOutcomes ==
  \A r \in Requests :
    /\ handler'[r].index = handler[r].index
    /\ handler[r].index > 0 =>
         /\ handler'[r].event = handler[r].event /\ handler'[r].ledger = handler[r].ledger
         /\ handler'[r].body = handler[r].body
    /\ handler'[r].status = 200 =>
         /\ handler[r].status = 200
         /\ handler'[r].event = handler[r].event /\ handler'[r].ledger = handler[r].ledger

Grown == \A l \in Ledgers : disk[l].effects \subseteq disk'[l].effects

LEMMA DurableStays ==
  ASSUME Grown, NEW l \in Ledgers, NEW e, Durable(l, e)
  PROVE Durable(l, e)'
  BY DEF Grown, Durable

LEMMA VouchedStays ==
  ASSUME SameOutcomes, Grown, NEW l \in Ledgers, NEW e, Vouched(l, e)
  PROVE Vouched(l, e)'
  <1>1. CASE Durable(l, e)
    BY <1>1, DurableStays DEF Vouched
  <1>2. CASE \E q \in Requests :
               handler[q].index > 0 /\ handler[q].event = e /\ handler[q].ledger = l
    BY <1>2 DEF Vouched, SameOutcomes
  <1> QED BY <1>1, <1>2 DEF Vouched

LEMMA VouchedKept ==
  ASSUME LedgerShape, VouchedInv, SameOutcomes, Grown,
         \A l \in Ledgers, e \in Events : mem'[l].effects[e] # None => Vouched(l, e)
  PROVE VouchedInv'
  <1>1. ASSUME NEW r \in Requests, handler'[r].status = 200
        PROVE Vouched(handler[r].ledger, handler[r].event)'
    <2>1. /\ handler[r].status = 200 /\ handler[r].ledger \in Ledgers
          /\ handler'[r].event = handler[r].event /\ handler'[r].ledger = handler[r].ledger
      BY <1>1 DEF SameOutcomes, LedgerShape, HandlerShape
    <2>2. Vouched(handler[r].ledger, handler[r].event)
      BY <2>1 DEF VouchedInv
    <2> DEFINE l == handler[r].ledger
               e == handler[r].event
    <2>3. ASSUME NEW k \in Ledgers, NEW f, Vouched(k, f) PROVE Vouched(k, f)'
      BY <2>3, VouchedStays
    <2>4. \A k \in Ledgers : \A f : Vouched(k, f) => (Durable(k, f)' \/ \E q \in Requests :
             handler'[q].index > 0 /\ handler'[q].event = f /\ handler'[q].ledger = k)
      BY <2>3 DEF Vouched
    <2>5. \A k \in Ledgers : \A f : Vouched(k, f) =>
             ((\E x \in disk'[k].effects : x.event = f) \/ \E q \in Requests :
                handler'[q].index > 0 /\ handler'[q].event = f /\ handler'[q].ledger = k)
      BY <2>4 DEF Durable
    <2> QED BY <2>1, <2>2, <2>5 DEF Vouched, Durable
  <1>2. ASSUME NEW l \in Ledgers, NEW e \in Events, mem'[l].effects[e] # None
        PROVE Vouched(l, e)'
    BY <1>2, VouchedStays DEF VouchedInv
  <1> QED BY <1>1, <1>2 DEF VouchedInv

LEMMA OwnKept ==
  ASSUME LedgerShape, OwnInv, SameOutcomes, Grown,
         \A r \in Requests : handler'[r].index > 0 /\ handler'[r].step \in {"written", "answered", "dropped"}
           => handler[r].step \in {"written", "answered", "dropped"}
  PROVE OwnInv'
  <1>1. ASSUME NEW r \in Requests, handler'[r].index > 0,
               handler'[r].step \in {"written", "answered", "dropped"}
        PROVE \E x \in disk'[handler'[r].ledger].effects : x.event = handler'[r].event
    <2>1. /\ handler[r].index > 0 /\ handler[r].ledger \in Ledgers
          /\ handler'[r].event = handler[r].event /\ handler'[r].ledger = handler[r].ledger
      BY <1>1 DEF SameOutcomes, LedgerShape, HandlerShape
    <2>2. \E x \in disk[handler[r].ledger].effects : x.event = handler[r].event
      BY <1>1, <2>1 DEF OwnInv, Durable
    <2> QED BY <2>1, <2>2 DEF Grown
  <1> QED BY <1>1 DEF OwnInv, Durable

LEMMA SnapshotKept ==
  ASSUME LedgerShape, SnapshotInv, Grown, snapshot'.ledger = snapshot.ledger,
         snapshot'.due = snapshot.due, snapshot'.effects = snapshot.effects,
         snapshot'.orders = snapshot.orders,
         snapshot'.step \in {snapshot.step, "effects", "failed"}
  PROVE SnapshotInv'
  <1>1. ASSUME NEW e \in snapshot.due \cup snapshot.effects
        PROVE e \in Events /\ \E x \in disk'[snapshot.ledger].effects : x.event = e
    <2>1. e \in Events /\ \E x \in disk[snapshot.ledger].effects : x.event = e
      BY DEF SnapshotInv, Durable
    <2>2. snapshot.ledger \in Ledgers
      BY DEF LedgerShape
    <2> QED BY <2>1, <2>2 DEF Grown
  <1> QED BY <1>1 DEF SnapshotInv, Durable

(* As long as no effect comes on its way, memory stays ahead of them.          *)
LEMMA RowsKept ==
  ASSUME AheadInv, OrderInv, torn' = torn,
         \A l \in Ledgers : mem'[l].orders = mem[l].orders /\ mem'[l].nextEffect = mem[l].nextEffect,
         \A l \in Ledgers, x \in EffectRows : IsRow(l, x)' => IsRow(l, x)
  PROVE AheadInv' /\ OrderInv'
  <1>1. AheadInv'
    BY DEF AheadInv
  <1>2. OrderInv'
    BY DEF OrderInv
  <1> QED BY <1>1, <1>2

LEMMA RowsStay ==
  ASSUME SameOutcomes, \A l \in Ledgers : disk'[l].effects = disk[l].effects,
         \A l \in Ledgers, r \in Requests : OnItsWay(l, r)' => OnItsWay(l, r)
  PROVE \A l \in Ledgers, x \in EffectRows : IsRow(l, x)' => IsRow(l, x)
  <1>1. ASSUME NEW l \in Ledgers, NEW r \in Requests, OnItsWay(l, r)'
        PROVE OnItsWay(l, r) /\ RowOf(r)' = RowOf(r)
    BY <1>1 DEF OnItsWay, SameOutcomes, RowOf
  <1> QED BY <1>1 DEF IsRow

LEMMA HomeKept ==
  ASSUME HomeInv,
         \A l \in Ledgers, r \in Requests : Queued(l, Outcome(r))' => Queued(l, Outcome(r)),
         \A r \in Requests : handler[r].step \notin {"idle", "sleeping", "decided"} =>
           /\ handler'[r].step \notin {"idle", "sleeping", "decided"}
           /\ handler'[r].ledger = handler[r].ledger
  PROVE HomeInv'
  BY DEF HomeInv

(* A step that neither decides nor commits.                                    *)
LEMMA QuietStep ==
  ASSUME LedgerInv, SameOutcomes, disk' = disk, torn' = torn,
         LedgerShape', HomeInv', SnapshotInv',
         \A l \in Ledgers : /\ mem'[l].effects = mem[l].effects
                            /\ mem'[l].orders = mem[l].orders
                            /\ mem'[l].nextEffect = mem[l].nextEffect,
         \A r \in Requests :
           /\ handler'[r].index > 0 /\ handler'[r].step \in {"written", "answered", "dropped"}
                => handler[r].step \in {"written", "answered", "dropped"}
           /\ handler'[r].index > 0 /\ handler'[r].step = "decided" => handler[r].step = "decided",
         \A l \in Ledgers, r \in Requests :
           Queued(l, Outcome(r))' => Queued(l, Outcome(r)) \/ handler[r].step = "decided"
  PROVE LedgerInv'
  <1>1. Grown
    BY DEF Grown
  <1>2. OwnInv'
    BY <1>1, OwnKept DEF LedgerInv
  <1>3. VouchedInv'
    <2>1. \A l \in Ledgers, e \in Events : mem'[l].effects[e] # None => Vouched(l, e)
      BY DEF LedgerInv, VouchedInv
    <2> QED BY <1>1, <2>1, VouchedKept DEF LedgerInv
  <1>4. \A l \in Ledgers, r \in Requests : OnItsWay(l, r)' => OnItsWay(l, r)
    BY DEF OnItsWay, SameOutcomes
  <1>5. \A l \in Ledgers, x \in EffectRows : IsRow(l, x)' => IsRow(l, x)
    BY <1>4, RowsStay
  <1>6. AheadInv' /\ OrderInv'
    BY <1>5, RowsKept DEF LedgerInv
  <1> QED BY <1>2, <1>3, <1>6 DEF LedgerInv

(* Whoever puts an item that is no outcome adds none.                          *)
LEMMA OtherPut ==
  ASSUME LedgerShape, NEW l \in Ledgers, NEW item \in LedgerItems, item.kind # "outcome",
         Put(l, item), group' = group
  PROVE /\ queue' \in [Ledgers -> Seq(LedgerItems)]
        /\ \A k \in Ledgers, r \in Requests : Queued(k, Outcome(r))' => Queued(k, Outcome(r))
  <1>1. \A r \in Requests : Outcome(r) \in LedgerItems /\ Outcome(r) # item
    BY DEF Outcome, LedgerItems
  <1>2. queue \in [Ledgers -> Seq(LedgerItems)]
    BY DEF LedgerShape
  <1>3. /\ queue' \in [Ledgers -> Seq(LedgerItems)]
        /\ \A k \in Ledgers, it \in LedgerItems :
             Queued(k, it)' <=> Queued(k, it) \/ (k = l /\ it = item)
    BY <1>2, PutQueued
  <1> QED BY <1>1, <1>3

LEMMA SameQueues ==
  ASSUME queue' = queue, group' = group
  PROVE \A l \in Ledgers, r \in Requests : Queued(l, Outcome(r))' => Queued(l, Outcome(r))
  BY DEF Queued, Within

-----------------------------------------------------------------------------
(* The mock partner API: the steps                                             *)

(* Steps of a snapshot or of a reset, the sleep of the writer, a policy.       *)
LEMMA LedgerIdleStep ==
  ASSUME LedgerInv, handler' = handler, mem' = mem, disk' = disk, torn' = torn,
         queue' \in [Ledgers -> Seq(LedgerItems)], group' \in [Ledgers -> Seq(LedgerItems)],
         ledger' \in Ledgers,
         snapshot' = [step |-> snapshot'.step, ledger |-> snapshot'.ledger, due |-> snapshot'.due,
                      effects |-> snapshot'.effects, orders |-> snapshot'.orders],
         snapshot'.ledger \in Ledgers, SnapshotInv',
         \A l \in Ledgers, r \in Requests : Queued(l, Outcome(r))' => Queued(l, Outcome(r))
  PROVE LedgerInv'
  <1>1. SameOutcomes
    BY DEF SameOutcomes
  <1>2. LedgerShape'
    BY DEF LedgerInv, LedgerShape
  <1>3. HomeInv'
    BY HomeKept DEF LedgerInv
  <1> QED BY <1>1, <1>2, <1>3, QuietStep

LEMMA ControlStep ==
  ASSUME LedgerInv, NEW pol \in Policies, Control(pol)
  PROVE LedgerInv'
  <1>1. /\ handler' = handler /\ mem' = mem /\ disk' = disk /\ torn' = torn /\ ledger' = ledger
        /\ queue' = queue /\ group' = group /\ snapshot' = snapshot
    BY DEF Control
  <1>2. SnapshotInv'
    BY <1>1 DEF LedgerInv, SnapshotInv, Durable
  <1>3. \A l \in Ledgers, r \in Requests : Queued(l, Outcome(r))' => Queued(l, Outcome(r))
    BY <1>1, SameQueues
  <1> QED BY <1>1, <1>2, <1>3, LedgerIdleStep DEF LedgerInv, LedgerShape

LEMMA TakeGroupStep ==
  ASSUME LedgerInv, NEW l \in Ledgers, TakeGroup(l)
  PROVE LedgerInv'
  <1>1. /\ handler' = handler /\ mem' = mem /\ disk' = disk /\ torn' = torn /\ ledger' = ledger
        /\ snapshot' = snapshot
    BY DEF TakeGroup
  <1>2. SnapshotInv'
    BY <1>1 DEF LedgerInv, SnapshotInv, Durable
  <1>3. /\ queue' \in [Ledgers -> Seq(LedgerItems)] /\ group' \in [Ledgers -> Seq(LedgerItems)]
        /\ \A k \in Ledgers, it \in LedgerItems : Queued(k, it)' => Queued(k, it)
    BY TakeQueued DEF LedgerInv, LedgerShape
  <1>4. \A r \in Requests : Outcome(r) \in LedgerItems
    BY DEF Outcome, LedgerItems
  <1>5. \A k \in Ledgers, r \in Requests : Queued(k, Outcome(r))' => Queued(k, Outcome(r))
    BY <1>3, <1>4
  <1> QED BY <1>1, <1>2, <1>3, <1>5, LedgerIdleStep DEF LedgerInv, LedgerShape

LEMMA ResetStep ==
  ASSUME LedgerInv, ResetBegin \/ ResetStop \/ ResetOpen
  PROVE LedgerInv'
  <1>1. /\ handler' = handler /\ mem' = mem /\ disk' = disk /\ torn' = torn
        /\ group' = group /\ snapshot' = snapshot
    BY DEF ResetBegin, ResetStop, ResetOpen
  <1>2. SnapshotInv'
    BY <1>1 DEF LedgerInv, SnapshotInv, Durable
  <1>3. ledger \in Ledgers /\ LedgerShape
    BY DEF LedgerInv, LedgerShape
  <1>4. ledger' \in Ledgers
    <2>1. CASE ResetOpen
      BY <2>1, <1>3, LedgerAssumption DEF ResetOpen, Ledgers
    <2>2. CASE ResetBegin \/ ResetStop
      BY <2>2, <1>3 DEF ResetBegin, ResetStop
    <2> QED BY <2>1, <2>2
  <1>5. /\ queue' \in [Ledgers -> Seq(LedgerItems)]
        /\ \A k \in Ledgers, r \in Requests : Queued(k, Outcome(r))' => Queued(k, Outcome(r))
    <2>1. CASE ResetBegin
      <3> DEFINE item == [kind |-> "barrier", by |-> "reset"]
      <3>1. item \in LedgerItems /\ item.kind # "outcome"
        BY DEF LedgerItems
      <3>2. Put(ledger, item)
        BY <2>1 DEF ResetBegin
      <3> HIDE DEF item
      <3> QED BY <1>1, <1>3, <3>1, <3>2, OtherPut
    <2>2. CASE ResetStop
      <3> DEFINE item == [kind |-> "stop", by |-> "reset"]
      <3>1. item \in LedgerItems /\ item.kind # "outcome"
        BY DEF LedgerItems
      <3>2. Put(ledger, item)
        BY <2>2 DEF ResetStop
      <3> HIDE DEF item
      <3> QED BY <1>1, <1>3, <3>1, <3>2, OtherPut
    <2>3. CASE ResetOpen
      <3>1. queue' = queue
        BY <2>3 DEF ResetOpen
      <3> QED BY <3>1, <1>1, <1>3, SameQueues DEF LedgerShape
    <2> QED BY <2>1, <2>2, <2>3
  <1> QED BY <1>1, <1>2, <1>4, <1>5, LedgerIdleStep DEF LedgerInv, LedgerShape

LEMMA SnapshotStep ==
  ASSUME LedgerInv, SnapshotBegin \/ SnapshotEffects \/ SnapshotOrders
  PROVE LedgerInv'
  <1>1. /\ handler' = handler /\ mem' = mem /\ disk' = disk /\ torn' = torn
        /\ group' = group /\ ledger' = ledger
    BY DEF SnapshotBegin, SnapshotEffects, SnapshotOrders
  <1>2. LedgerShape /\ ledger \in Ledgers /\ snapshot.ledger \in Ledgers
    BY DEF LedgerInv, LedgerShape
  <1> DEFINE Shape == /\ snapshot' = [step |-> snapshot'.step, ledger |-> snapshot'.ledger,
                              due |-> snapshot'.due, effects |-> snapshot'.effects,
                              orders |-> snapshot'.orders]
                      /\ snapshot'.ledger \in Ledgers
             Queues == /\ queue' \in [Ledgers -> Seq(LedgerItems)]
                       /\ \A k \in Ledgers, r \in Requests :
                            Queued(k, Outcome(r))' => Queued(k, Outcome(r))
  <1>3. CASE SnapshotBegin
    <2> DEFINE item == [kind |-> "barrier", by |-> "snapshot"]
               owed == {q \in Requests : /\ handler[q].step = "answered" /\ handler[q].status = 200
                                         /\ handler[q].index > 0 /\ handler[q].ledger = ledger}
    <2>1. item \in LedgerItems /\ item.kind # "outcome"
      BY DEF LedgerItems
    <2>2. Put(ledger, item)
      BY <1>3 DEF SnapshotBegin
    <2>3. Queues
      <3> HIDE DEF item
      <3> QED BY <1>1, <1>2, <2>1, <2>2, OtherPut
    <2>4. snapshot' = [step |-> "barrier", ledger |-> ledger, due |-> {handler[r].event : r \in owed},
                       effects |-> {}, orders |-> {}]
      BY <1>3 DEF SnapshotBegin, NoSnapshot
    <2>5. Shape
      <3> HIDE DEF owed
      <3> QED BY <2>4, <1>2
    <2>6. \A r \in owed : handler[r].event \in Events /\ Durable(ledger, handler[r].event)
      BY <1>2 DEF LedgerInv, OwnInv, LedgerShape, HandlerShape
    <2>7. SnapshotInv'
      <3> HIDE DEF owed
      <3>1. \A e \in snapshot'.due \cup snapshot'.effects : e \in Events /\ Durable(ledger, e)
        BY <2>4, <2>6
      <3> QED BY <3>1, <2>4, <1>1 DEF SnapshotInv, Durable
    <2> HIDE DEF item, owed
    <2> QED BY <1>1, <1>2, <2>3, <2>5, <2>7, LedgerIdleStep DEF LedgerInv, LedgerShape
  <1>4. CASE SnapshotEffects
    <2>1. queue' = queue
      BY <1>4 DEF SnapshotEffects
    <2>2. Queues
      BY <1>1, <1>2, <2>1, SameQueues DEF LedgerShape
    <2>3. /\ snapshot'.step = "orders" /\ snapshot'.ledger = snapshot.ledger
          /\ snapshot'.due = snapshot.due /\ snapshot'.orders = snapshot.orders
          /\ snapshot'.effects = {x.event : x \in disk[snapshot.ledger].effects}
          /\ Shape
      BY <1>2, <1>4 DEF SnapshotEffects, LedgerShape
    <2>4. \A x \in disk[snapshot.ledger].effects : x.event \in Events
      BY <1>2 DEF LedgerShape, DiskShape, EffectRows
    <2>5. SnapshotInv'
      BY <1>1, <2>3, <2>4 DEF SnapshotInv, Durable, LedgerInv
    <2> QED BY <1>1, <1>2, <2>2, <2>3, <2>5, LedgerIdleStep DEF LedgerInv, LedgerShape
  <1>5. CASE SnapshotOrders
    <2>1. queue' = queue
      BY <1>5 DEF SnapshotOrders
    <2>2. Queues
      BY <1>1, <1>2, <2>1, SameQueues DEF LedgerShape
    <2>3. /\ snapshot.step = "orders"
          /\ snapshot'.step = "done" /\ snapshot'.ledger = snapshot.ledger
          /\ snapshot'.due = snapshot.due /\ snapshot'.effects = snapshot.effects
          /\ snapshot'.orders = {o \in Orders : disk[snapshot.ledger].orders[o] > 0}
          /\ Shape
      BY <1>2, <1>5 DEF SnapshotOrders, LedgerShape
    <2>4. \A x \in disk[snapshot.ledger].effects :
             OrderOf[x.event] \in Orders /\ disk[snapshot.ledger].orders[OrderOf[x.event]] > 0
      BY <1>2, LedgerAssumption DEF LedgerShape, DiskShape, EffectRows
    <2>5. \A e \in snapshot.effects : OrderOf[e] \in snapshot'.orders
      BY <2>3, <2>4 DEF LedgerInv, SnapshotInv, Durable
    <2>6. SnapshotInv'
      BY <1>1, <2>3, <2>5 DEF SnapshotInv, Durable, LedgerInv
    <2> QED BY <1>1, <1>2, <2>2, <2>3, <2>6, LedgerIdleStep DEF LedgerInv, LedgerShape
  <1> QED BY <1>3, <1>4, <1>5

LEMMA ArriveStep ==
  ASSUME LedgerInv, NEW r \in Requests, NEW e \in Events, NEW body \in Bodies, Arrive(r, e, body)
  PROVE LedgerInv'
  <1>1. /\ disk' = disk /\ torn' = torn /\ group' = group /\ ledger' = ledger
        /\ snapshot' = snapshot /\ handler[r].step = "idle"
    BY DEF Arrive, Comes
  <1>2. LedgerShape /\ ledger \in Ledgers
    BY DEF LedgerInv, LedgerShape
  <1>3. handler[r].index = 0 /\ handler[r].status = 0
    BY <1>1, <1>2 DEF LedgerShape, HandlerShape
  <1> DEFINE h == [step |-> "sleeping", event |-> e, body |-> body, ledger |-> ledger,
                   count |-> mem[ledger].counts[e], attempt |-> mem[ledger].nextAttempt,
                   policy |-> controls, status |-> 0, index |-> 0, dropped |-> FALSE]
  <1>4. handler' = [handler EXCEPT ![r] = h]
    BY DEF Arrive
  <1>5. HandlerShape(h) /\ h.index = 0 /\ h.status = 0 /\ h.step = "sleeping"
    BY <1>2 DEF HandlerShape
  <1> HIDE DEF h
  <1>6. handler' = [q \in Requests |-> IF q = r THEN h ELSE handler[q]]
    BY <1>2, <1>4 DEF LedgerShape
  <1> DEFINE m == [mem[ledger] EXCEPT !.counts[e] = mem[ledger].counts[e] + 1,
                                      !.nextAttempt = mem[ledger].nextAttempt + 1]
  <1>7. mem' = [mem EXCEPT ![ledger] = m]
    BY DEF Arrive
  <1>8. /\ mem' = [l \in Ledgers |-> mem'[l]]
        /\ \A l \in Ledgers : /\ mem'[l].effects = mem[l].effects
                              /\ mem'[l].orders = mem[l].orders
                              /\ mem'[l].nextEffect = mem[l].nextEffect
                              /\ mem'[l] = [effects |-> mem'[l].effects, orders |-> mem'[l].orders,
                                   counts |-> mem'[l].counts, nextAttempt |-> mem'[l].nextAttempt,
                                   nextEffect |-> mem'[l].nextEffect]
    <2>1. MemShape(mem[ledger]) /\ mem = [l \in Ledgers |-> mem[l]]
      BY <1>2 DEF LedgerShape
    <2> DEFINE c == [mem[ledger].counts EXCEPT ![e] = mem[ledger].counts[e] + 1]
               a == mem[ledger].nextAttempt + 1
    <2>2. m = [[mem[ledger] EXCEPT !.counts = c] EXCEPT !.nextAttempt = a]
      OBVIOUS
    <2>3. /\ m.effects = mem[ledger].effects /\ m.orders = mem[ledger].orders
          /\ m.nextEffect = mem[ledger].nextEffect
          /\ m = [effects |-> m.effects, orders |-> m.orders, counts |-> m.counts,
                  nextAttempt |-> m.nextAttempt, nextEffect |-> m.nextEffect]
      <3> HIDE DEF m, a, c
      <3>1. [mem[ledger] EXCEPT !.counts = c] =
              [effects |-> mem[ledger].effects, orders |-> mem[ledger].orders, counts |-> c,
               nextAttempt |-> mem[ledger].nextAttempt, nextEffect |-> mem[ledger].nextEffect]
        BY <2>1 DEF MemShape
      <3>2. m = [effects |-> mem[ledger].effects, orders |-> mem[ledger].orders, counts |-> c,
                 nextAttempt |-> a, nextEffect |-> mem[ledger].nextEffect]
        BY <2>2, <3>1
      <3> QED BY <3>2
    <2> HIDE DEF m
    <2>4. mem' = [l \in Ledgers |-> IF l = ledger THEN m ELSE mem[l]]
      BY <1>2, <1>7, <2>1
    <2> QED BY <1>2, <2>3, <2>4 DEF LedgerShape, MemShape
  <1>9. \A l \in Ledgers : MemShape(mem[l])'
    BY <1>2, <1>8 DEF LedgerShape, MemShape
  <1>10. SameOutcomes
    BY <1>3, <1>5, <1>6 DEF SameOutcomes
  <1>11. /\ queue' \in [Ledgers -> Seq(LedgerItems)]
         /\ \A k \in Ledgers, q \in Requests : Queued(k, Outcome(q))' => Queued(k, Outcome(q))
    <2> DEFINE item == [kind |-> "start", by |-> r]
    <2>1. item \in LedgerItems /\ item.kind # "outcome"
      BY DEF LedgerItems
    <2>2. Put(ledger, item)
      BY DEF Arrive
    <2> HIDE DEF item
    <2> QED BY <1>1, <1>2, <2>1, <2>2, OtherPut
  <1>12. handler' = [q \in Requests |-> handler'[q]] /\ \A q \in Requests : HandlerShape(handler[q])'
    <2>1. \A q \in Requests : HandlerShape(handler[q])
      BY <1>2 DEF LedgerShape
    <2>2. ASSUME NEW q \in Requests PROVE HandlerShape(handler[q])'
      <3>1. CASE q = r
        BY <3>1, <1>5, <1>6 DEF HandlerShape
      <3>2. CASE q # r
        BY <3>2, <2>1, <1>6 DEF HandlerShape
      <3> QED BY <3>1, <3>2
    <2> QED BY <1>6, <2>2
  <1>13. LedgerShape'
    BY <1>1, <1>2, <1>8, <1>9, <1>11, <1>12 DEF LedgerShape
  <1>14. HomeInv'
    BY <1>1, <1>6, <1>11, HomeKept DEF LedgerInv
  <1>15. SnapshotInv'
    BY <1>1 DEF LedgerInv, SnapshotInv, Durable
  <1>16. \A q \in Requests :
           /\ handler'[q].index > 0 /\ handler'[q].step \in {"written", "answered", "dropped"}
                => handler[q].step \in {"written", "answered", "dropped"}
           /\ handler'[q].index > 0 /\ handler'[q].step = "decided" => handler[q].step = "decided"
    BY <1>5, <1>6
  <1> QED BY <1>1, <1>8, <1>10, <1>11, <1>13, <1>14, <1>15, <1>16, QuietStep

(* Steps that move a request on, and nothing else of it that counts.           *)
LEMMA MovedOn ==
  ASSUME LedgerShape, NEW r \in Requests, NEW h,
         handler' = [handler EXCEPT ![r] = h], HandlerShape(h),
         h.index = handler[r].index, h.event = handler[r].event, h.ledger = handler[r].ledger,
         h.body = handler[r].body, h.status # 200 \/ h.status = handler[r].status
  PROVE /\ handler' = [q \in Requests |-> IF q = r THEN h ELSE handler[q]]
        /\ handler' = [q \in Requests |-> handler'[q]]
        /\ \A q \in Requests : HandlerShape(handler[q])'
        /\ SameOutcomes
  <1>1. handler' = [q \in Requests |-> IF q = r THEN h ELSE handler[q]]
    BY DEF LedgerShape
  <1>2. \A q \in Requests : HandlerShape(handler[q])
    BY DEF LedgerShape
  <1>3. ASSUME NEW q \in Requests PROVE HandlerShape(handler[q])'
    <2>1. CASE q = r
      BY <2>1, <1>1 DEF HandlerShape
    <2>2. CASE q # r
      BY <2>2, <1>1, <1>2 DEF HandlerShape
    <2> QED BY <2>1, <2>2
  <1>4. SameOutcomes
    BY <1>1 DEF SameOutcomes
  <1> QED BY <1>1, <1>3, <1>4

LEMMA HandlerStep ==
  ASSUME LedgerInv, NEW r \in Requests, RefuseKey(r) \/ Write(r) \/ Answer(r)
  PROVE LedgerInv'
  <1>1. /\ disk' = disk /\ torn' = torn /\ group' = group /\ ledger' = ledger
        /\ snapshot' = snapshot /\ mem' = mem
    BY DEF RefuseKey, Write, Answer
  <1>2. /\ LedgerShape /\ handler[r].ledger \in Ledgers /\ HandlerShape(handler[r])
        /\ handler = [q \in Requests |-> handler[q]]
    BY DEF LedgerInv, LedgerShape, HandlerShape
  <1> DEFINE h == handler'[r]
  <1>3. handler' = [handler EXCEPT ![r] = h]
    <2>1. CASE RefuseKey(r)
      BY <2>1, <1>2 DEF RefuseKey
    <2>2. CASE Write(r)
      BY <2>2, <1>2 DEF Write
    <2>3. CASE Answer(r)
      BY <2>3, <1>2 DEF Answer
    <2> QED BY <2>1, <2>2, <2>3
  <1>5. /\ Answer(r) => /\ handler[r].step = "written"
                        /\ h = [handler[r] EXCEPT !.attempt = 0,
                                 !.step = IF handler[r].dropped THEN "dropped" ELSE "answered"]
        /\ Write(r) => handler[r].step = "decided" /\ h = [handler[r] EXCEPT !.step = "waiting"]
        /\ RefuseKey(r) => /\ handler[r].step = "idle"
                           /\ h = [handler[r] EXCEPT !.step = "answered", !.status = 400]
    <2>1. ASSUME Answer(r) PROVE /\ handler[r].step = "written"
                        /\ h = [handler[r] EXCEPT !.attempt = 0,
                                 !.step = IF handler[r].dropped THEN "dropped" ELSE "answered"]
      BY <2>1, <1>2 DEF Answer
    <2>2. ASSUME Write(r) PROVE handler[r].step = "decided" /\ h = [handler[r] EXCEPT !.step = "waiting"]
      BY <2>2, <1>2 DEF Write
    <2>3. ASSUME RefuseKey(r)
          PROVE handler[r].step = "idle" /\ h = [handler[r] EXCEPT !.step = "answered", !.status = 400]
      BY <2>3, <1>2 DEF RefuseKey, Comes
    <2> QED BY <2>1, <2>2, <2>3
  <1> HIDE DEF h
  <1>4. /\ HandlerShape(h) /\ h.index = handler[r].index /\ h.event = handler[r].event
        /\ h.ledger = handler[r].ledger /\ h.body = handler[r].body
        /\ h.status # 200 \/ h.status = handler[r].status
    <2>1. CASE RefuseKey(r)
      <3>1. handler[r].index = 0
        BY <2>1, <1>2, <1>5 DEF HandlerShape
      <3>2. h = [step |-> "answered", event |-> handler[r].event, body |-> handler[r].body,
                 ledger |-> handler[r].ledger, count |-> handler[r].count,
                 attempt |-> handler[r].attempt, policy |-> handler[r].policy,
                 status |-> 400, index |-> handler[r].index, dropped |-> handler[r].dropped]
        <4>1. [handler[r] EXCEPT !.step = "answered"] =
                [step |-> "answered", event |-> handler[r].event, body |-> handler[r].body,
                 ledger |-> handler[r].ledger, count |-> handler[r].count,
                 attempt |-> handler[r].attempt, policy |-> handler[r].policy,
                 status |-> handler[r].status, index |-> handler[r].index, dropped |-> handler[r].dropped]
          BY <1>2 DEF HandlerShape
        <4>2. h = [[handler[r] EXCEPT !.step = "answered"] EXCEPT !.status = 400]
          BY <2>1, <1>5
        <4> DEFINE g == [handler[r] EXCEPT !.step = "answered"]
        <4>3. /\ g = [step |-> g.step, event |-> g.event, body |-> g.body, ledger |-> g.ledger,
                       count |-> g.count, attempt |-> g.attempt, policy |-> g.policy,
                       status |-> g.status, index |-> g.index, dropped |-> g.dropped]
              /\ h = [g EXCEPT !.status = 400]
          BY <4>1, <4>2
        <4>4. /\ g.step = "answered" /\ g.event = handler[r].event /\ g.body = handler[r].body
              /\ g.ledger = handler[r].ledger /\ g.count = handler[r].count
              /\ g.attempt = handler[r].attempt /\ g.policy = handler[r].policy
              /\ g.index = handler[r].index /\ g.dropped = handler[r].dropped
          BY <4>1
        <4> HIDE DEF g
        <4>5. h = [step |-> g.step, event |-> g.event, body |-> g.body, ledger |-> g.ledger,
                   count |-> g.count, attempt |-> g.attempt, policy |-> g.policy,
                   status |-> 400, index |-> g.index, dropped |-> g.dropped]
          BY <4>3
        <4> QED BY <4>4, <4>5
      <3>3. /\ h.step = "answered" /\ h.status = 400 /\ h.index = 0 /\ h.event = handler[r].event
            /\ h.ledger = handler[r].ledger /\ h.body = handler[r].body
        BY <3>1, <3>2
      <3>4. h = [step |-> h.step, event |-> h.event, body |-> h.body, ledger |-> h.ledger,
                 count |-> h.count, attempt |-> h.attempt, policy |-> h.policy,
                 status |-> h.status, index |-> h.index, dropped |-> h.dropped]
        BY <3>2
      <3>5. handler[r].ledger \in Ledgers /\ handler[r].body \in Bodies \cup {None}
        BY <1>2 DEF HandlerShape
      <3>6. HandlerShape(h)
        BY <3>3, <3>4, <3>5 DEF HandlerShape
      <3> QED BY <3>1, <3>3, <3>6
    <2>2. CASE Write(r)
      BY <2>2, <1>2, <1>5 DEF HandlerShape
    <2>3. CASE Answer(r)
      BY <2>3, <1>2, <1>5 DEF HandlerShape
    <2> QED BY <2>1, <2>2, <2>3
  <1>5a. /\ Answer(r) => handler[r].step = "written" /\ h.step \in {"dropped", "answered"}
         /\ Write(r) => handler[r].step = "decided" /\ h.step = "waiting"
         /\ RefuseKey(r) => handler[r].step = "idle" /\ h.step = "answered"
    BY <1>2, <1>5 DEF HandlerShape
  <1> HIDE <1>5
  <1>6. /\ handler' = [q \in Requests |-> IF q = r THEN h ELSE handler[q]]
        /\ handler' = [q \in Requests |-> handler'[q]]
        /\ \A q \in Requests : HandlerShape(handler[q])'
        /\ SameOutcomes
    BY <1>2, <1>3, <1>4, MovedOn
  <1>7. /\ queue' \in [Ledgers -> Seq(LedgerItems)]
        /\ \A k \in Ledgers, q \in Requests : Queued(k, Outcome(q))' =>
             Queued(k, Outcome(q)) \/ (Write(r) /\ q = r /\ k = handler[r].ledger)
    <2>1. CASE Write(r)
      <3>1. Put(handler[r].ledger, Outcome(r))
        BY <2>1 DEF Write, Outcome
      <3>2. \A q \in Requests : Outcome(q) \in LedgerItems /\ (Outcome(q) = Outcome(r) => q = r)
        BY DEF Outcome, LedgerItems
      <3>3. queue \in [Ledgers -> Seq(LedgerItems)]
        BY <1>2 DEF LedgerShape
      <3>4. /\ queue' \in [Ledgers -> Seq(LedgerItems)]
            /\ \A k \in Ledgers, it \in LedgerItems :
                 Queued(k, it)' <=> Queued(k, it) \/ (k = handler[r].ledger /\ it = Outcome(r))
        BY <1>1, <1>2, <3>1, <3>2, <3>3, PutQueued
      <3> QED BY <2>1, <3>2, <3>4
    <2>2. CASE RefuseKey(r) \/ Answer(r)
      <3>1. queue' = queue
        BY <2>2 DEF RefuseKey, Answer
      <3> QED BY <3>1, <1>1, <1>2, SameQueues DEF LedgerShape
    <2> QED BY <2>1, <2>2
  <1>8. LedgerShape'
    BY <1>1, <1>2, <1>6, <1>7 DEF LedgerShape
  <1>9. HomeInv'
    <2>1. ASSUME NEW k \in Ledgers, NEW q \in Requests, Queued(k, Outcome(q))'
          PROVE handler'[q].ledger = k /\ handler'[q].step \notin {"idle", "sleeping", "decided"}
      <3>1. CASE Queued(k, Outcome(q))
        <4>1. handler[q].ledger = k /\ handler[q].step \notin {"idle", "sleeping", "decided"}
          BY <3>1 DEF LedgerInv, HomeInv
        <4> QED BY <4>1, <1>4, <1>5a, <1>6
      <3>2. CASE Write(r) /\ q = r /\ k = handler[r].ledger
        BY <3>2, <1>4, <1>5a, <1>6
      <3> QED BY <2>1, <3>1, <3>2, <1>7
    <2> QED BY <2>1 DEF HomeInv
  <1>10. SnapshotInv'
    BY <1>1 DEF LedgerInv, SnapshotInv, Durable
  <1>11. \A q \in Requests :
           /\ handler'[q].index > 0 /\ handler'[q].step \in {"written", "answered", "dropped"}
                => handler[q].step \in {"written", "answered", "dropped"}
           /\ handler'[q].index > 0 /\ handler'[q].step = "decided" => handler[q].step = "decided"
    <2>1. RefuseKey(r) => h.index = 0
      BY <1>2, <1>4, <1>5 DEF HandlerShape
    <2> QED BY <1>5a, <1>6, <2>1
  <1>12. \A k \in Ledgers, q \in Requests :
           Queued(k, Outcome(q))' => Queued(k, Outcome(q)) \/ handler[q].step = "decided"
    BY <1>5a, <1>7
  <1> QED BY <1>1, <1>6, <1>8, <1>9, <1>10, <1>11, <1>12, QuietStep

(* What the end of a group does to those who wait for it.                      *)
LEMMA Woken ==
  ASSUME LedgerShape, NEW l \in Ledgers, NEW ok, Wake(l, ok)
  PROVE /\ handler' = [q \in Requests |-> handler'[q]]
        /\ \A q \in Requests : HandlerShape(handler[q])'
        /\ SameOutcomes
        /\ \A q \in Requests :
             /\ handler'[q].ledger = handler[q].ledger
             /\ \/ handler'[q].step = handler[q].step
                \/ Within(Outcome(q), group[l]) /\ handler'[q].step = IF ok THEN "written" ELSE "failed"
        /\ snapshot' = [step |-> snapshot'.step, ledger |-> snapshot'.ledger, due |-> snapshot'.due,
                        effects |-> snapshot'.effects, orders |-> snapshot'.orders]
        /\ snapshot'.ledger = snapshot.ledger /\ snapshot'.due = snapshot.due
        /\ snapshot'.effects = snapshot.effects /\ snapshot'.orders = snapshot.orders
        /\ snapshot'.step \in {snapshot.step, "effects", "failed"}
  <1> DEFINE waits(kind, who) == \E i \in DOMAIN group[l] : group[l][i] = [kind |-> kind, by |-> who]
             woken == IF ok THEN "written" ELSE "failed"
  <1>1. \A q \in Requests : waits("outcome", q) <=> Within(Outcome(q), group[l])
    <2>1. DOMAIN group[l] = 1 .. Len(group[l])
      BY DEF LedgerShape
    <2> QED BY <2>1 DEF Within, Outcome
  <1>2. handler' = [q \in Requests |-> IF waits("outcome", q)
                      THEN [handler[q] EXCEPT !.step = woken] ELSE handler[q]]
    BY DEF Wake
  <1>3. \/ snapshot' = snapshot
        \/ snapshot' = [snapshot EXCEPT !.step = "effects"]
        \/ snapshot' = [snapshot EXCEPT !.step = "failed"]
    BY DEF Wake
  <1> HIDE DEF waits
  <1>4. woken \in {"written", "failed"}
    OBVIOUS
  <1>5. ASSUME NEW q \in Requests
        PROVE /\ HandlerShape(handler'[q])
              /\ handler'[q].index = handler[q].index /\ handler'[q].event = handler[q].event
              /\ handler'[q].ledger = handler[q].ledger /\ handler'[q].body = handler[q].body
              /\ handler'[q].status = handler[q].status
              /\ \/ handler'[q].step = handler[q].step
                 \/ waits("outcome", q) /\ handler'[q].step = woken
    <2> HIDE DEF woken
    <2>1. HandlerShape(handler[q])
      BY DEF LedgerShape
    <2>2. CASE waits("outcome", q)
      <3>1. handler'[q] = [handler[q] EXCEPT !.step = woken]
        BY <2>2, <1>2
      <3> QED BY <3>1, <2>1, <2>2, <1>4 DEF HandlerShape
    <2>3. CASE ~waits("outcome", q)
      <3>1. handler'[q] = handler[q]
        BY <2>3, <1>2
      <3> QED BY <3>1, <2>1
    <2> QED BY <2>2, <2>3
  <1>6. \A q \in Requests : HandlerShape(handler[q])'
    BY <1>5 DEF HandlerShape
  <1>7. SameOutcomes
    BY <1>5 DEF SameOutcomes
  <1>8. /\ snapshot' = [step |-> snapshot'.step, ledger |-> snapshot'.ledger, due |-> snapshot'.due,
                        effects |-> snapshot'.effects, orders |-> snapshot'.orders]
        /\ snapshot'.ledger = snapshot.ledger /\ snapshot'.due = snapshot.due
        /\ snapshot'.effects = snapshot.effects /\ snapshot'.orders = snapshot.orders
        /\ snapshot'.step \in {snapshot.step, "effects", "failed"}
    BY <1>3 DEF LedgerShape
  <1>9. handler' = [q \in Requests |-> handler'[q]]
    BY <1>2
  <1> QED BY <1>1, <1>5, <1>6, <1>7, <1>8, <1>9

(* Taking the items of a group off adds none.                                  *)
LEMMA GroupDone ==
  ASSUME LedgerShape, NEW l \in Ledgers, queue' = queue, group' = [group EXCEPT ![l] = <<>>]
  PROVE /\ group' \in [Ledgers -> Seq(LedgerItems)]
        /\ \A k \in Ledgers : \A item : Queued(k, item)' => Queued(k, item)
  <1>1. group \in [Ledgers -> Seq(LedgerItems)] /\ Len(<<>>) = 0 /\ <<>> \in Seq(LedgerItems)
    BY DEF LedgerShape
  <1>2. group' \in [Ledgers -> Seq(LedgerItems)]
    BY <1>1
  <1>3. ASSUME NEW k \in Ledgers, NEW item, Queued(k, item)'
        PROVE Queued(k, item)
    <2>1. CASE k = l
      BY <2>1, <1>1, <1>3 DEF Queued, Within
    <2>2. CASE k # l
      BY <2>2, <1>1, <1>3 DEF Queued, Within
    <2> QED BY <2>1, <2>2
  <1> QED BY <1>2, <1>3

LEMMA FailGroupStep ==
  ASSUME LedgerInv, NEW l \in Ledgers, FailGroup(l)
  PROVE LedgerInv'
  <1>1. /\ disk' = disk /\ torn' = torn /\ ledger' = ledger /\ mem' = mem /\ queue' = queue
        /\ group' = [group EXCEPT ![l] = <<>>] /\ Wake(l, FALSE)
    BY DEF FailGroup
  <1>2. LedgerShape
    BY DEF LedgerInv
  <1>3. /\ handler' = [q \in Requests |-> handler'[q]]
        /\ \A q \in Requests : HandlerShape(handler[q])'
        /\ SameOutcomes
        /\ \A q \in Requests :
             /\ handler'[q].ledger = handler[q].ledger
             /\ handler'[q].step = handler[q].step \/ handler'[q].step = "failed"
        /\ snapshot' = [step |-> snapshot'.step, ledger |-> snapshot'.ledger, due |-> snapshot'.due,
                        effects |-> snapshot'.effects, orders |-> snapshot'.orders]
        /\ snapshot'.ledger = snapshot.ledger /\ snapshot'.due = snapshot.due
        /\ snapshot'.effects = snapshot.effects /\ snapshot'.orders = snapshot.orders
        /\ snapshot'.step \in {snapshot.step, "effects", "failed"}
    BY <1>1, <1>2, Woken
  <1>4. /\ group' \in [Ledgers -> Seq(LedgerItems)]
        /\ \A k \in Ledgers, r \in Requests : Queued(k, Outcome(r))' => Queued(k, Outcome(r))
    BY <1>1, <1>2, GroupDone
  <1>5. LedgerShape'
    BY <1>1, <1>2, <1>3, <1>4 DEF LedgerShape
  <1>6. HomeInv'
    BY <1>3, <1>4, HomeKept DEF LedgerInv
  <1>7. SnapshotInv'
    <2>1. Grown
      BY <1>1 DEF Grown
    <2> QED BY <2>1, <1>2, <1>3, SnapshotKept DEF LedgerInv
  <1>8. \A q \in Requests :
           /\ handler'[q].index > 0 /\ handler'[q].step \in {"written", "answered", "dropped"}
                => handler[q].step \in {"written", "answered", "dropped"}
           /\ handler'[q].index > 0 /\ handler'[q].step = "decided" => handler[q].step = "decided"
    BY <1>3
  <1> QED BY <1>1, <1>3, <1>4, <1>5, <1>6, <1>7, <1>8, QuietStep

(* A group is committed: its effects are, and those of no other request.       *)
LEMMA CommittedRows ==
  ASSUME LedgerInv, NEW l \in Ledgers, disk' = [disk EXCEPT ![l] = ExecuteBatch(disk[l], group[l])]
  PROVE /\ disk' = [k \in Ledgers |-> disk'[k]] /\ \A k \in Ledgers : DiskShape(disk[k])'
        /\ Grown
        /\ \A k \in Ledgers : \A x \in disk'[k].effects : IsRow(k, x)
        /\ \A r \in Requests : Within(Outcome(r), group[l]) /\ handler[r].index > 0 =>
             RowOf(r) \in disk'[l].effects
  <1> DEFINE g == group[l]
             d == disk[l]
             outcomes == {i \in DOMAIN g : g[i].kind = "outcome"}
             made     == {i \in outcomes : handler[g[i].by].index > 0}
             of(o)    == {i \in made : OrderOf[handler[g[i].by].event] = o}
             rows     == {RowOf(g[i].by) : i \in made}
             c        == ExecuteBatch(d, g)
  <1>1. /\ LedgerShape /\ g \in Seq(LedgerItems) /\ Len(g) \in Nat /\ DOMAIN g = 1 .. Len(g)
        /\ disk = [k \in Ledgers |-> disk[k]] /\ DiskShape(d)
    BY DEF LedgerInv, LedgerShape
  <1>2. c.effects = d.effects \cup rows
    BY DEF ExecuteBatch, RowOf
  <1>3. c.orders = [o \in Orders |->
           IF of(o) = {} THEN d.orders[o] ELSE SequenceOf[handler[g[Max(of(o))].by].event]]
    BY DEF ExecuteBatch
  <1>4. ASSUME NEW i \in made
        PROVE /\ g[i].by \in Requests /\ g[i] = Outcome(g[i].by) /\ i \in 1 .. Len(g)
              /\ handler[g[i].by].index > 0 /\ handler[g[i].by].event \in Events
              /\ OnItsWay(l, g[i].by) /\ RowOf(g[i].by) \in EffectRows
    <2>1. i \in 1 .. Len(g) /\ g[i].kind = "outcome" /\ handler[g[i].by].index > 0 /\ g[i] \in LedgerItems
      BY <1>1
    <2>2. g[i].by \in Requests /\ g[i] = Outcome(g[i].by)
      BY <2>1 DEF LedgerItems, Outcome
    <2>3. Queued(l, Outcome(g[i].by))
      BY <2>1, <2>2 DEF Queued, Within
    <2>4. handler[g[i].by].ledger = l
      BY <2>2, <2>3 DEF LedgerInv, HomeInv
    <2>5. HandlerShape(handler[g[i].by])
      BY <1>1, <2>2 DEF LedgerShape
    <2>6. RowOf(g[i].by) \in EffectRows /\ handler[g[i].by].event \in Events
      BY <2>1, <2>5 DEF HandlerShape, RowOf, EffectRows
    <2> QED BY <2>1, <2>2, <2>3, <2>4, <2>6 DEF OnItsWay
  <1>5. ASSUME NEW o \in Orders, of(o) # {}
        PROVE SequenceOf[handler[g[Max(of(o))].by].event] \in Nat \ {0}
    <2>1. of(o) \subseteq 1 .. Len(g)
      BY <1>1
    <2>2. of(o) \in SUBSET Int /\ IsFiniteSet(of(o))
      <3>1. 1 \in Int /\ Len(g) \in Int
        BY <1>1
      <3>2. IsFiniteSet(1 .. Len(g))
        BY <3>1, FS_Interval
      <3>3. IsFiniteSet(of(o))
        BY <2>1, <3>2, FS_Subset
      <3> QED BY <2>1, <3>1, <3>3
    <2>3. Max(of(o)) \in of(o)
      <3> HIDE DEF of
      <3> QED BY <1>5, <2>2, LargestNumber
    <2>4. Max(of(o)) \in made
      BY <2>3
    <2>5. handler[g[Max(of(o))].by].event \in Events
      <3> HIDE DEF made, of, g
      <3> QED BY <1>4, <2>4
    <2> QED BY <2>5, LedgerAssumption
  <1>6. rows \subseteq EffectRows /\ IsFiniteSet(rows)
    <2>1. made \subseteq 1 .. Len(g)
      BY <1>1
    <2>2. IsFiniteSet(made)
      <3>1. 1 \in Int /\ Len(g) \in Int
        BY <1>1
      <3>2. IsFiniteSet(1 .. Len(g))
        BY <3>1, FS_Interval
      <3> QED BY <2>1, <3>2, FS_Subset
    <2> HIDE DEF made, g
    <2>3. IsFiniteSet(rows)
      <3> DEFINE f == [i \in made |-> RowOf(g[i].by)]
      <3>1. f \in Surjection(made, rows)
        BY DEF Surjection
      <3> HIDE DEF f, rows
      <3> QED BY <2>2, <3>1, FS_Surjection
    <2> QED BY <1>4, <2>3
  <1>7. c.effects \subseteq EffectRows /\ IsFiniteSet(c.effects)
    <2> HIDE DEF rows, c, d, g
    <2>1. d.effects \subseteq EffectRows /\ IsFiniteSet(d.effects)
      BY <1>1 DEF DiskShape
    <2> QED BY <1>2, <1>6, <2>1, FS_Union
  <1>8. c.orders \in [Orders -> Nat]
    <2>1. d.orders \in [Orders -> Nat]
      BY <1>1 DEF DiskShape
    <2> HIDE DEF of, d, g, c
    <2> QED BY <1>3, <1>5, <2>1
  <1>9. ASSUME NEW x \in c.effects PROVE c.orders[OrderOf[x.event]] > 0
    <2>1. OrderOf[x.event] \in Orders
      <3> HIDE DEF c
      <3> QED BY <1>7, LedgerAssumption DEF EffectRows
    <2> DEFINE o == OrderOf[x.event]
    <2>2. CASE of(o) # {}
      <3>1. SequenceOf[handler[g[Max(of(o))].by].event] \in Nat \ {0}
        BY <2>1, <2>2, <1>5
      <3>2. c.orders[o] = SequenceOf[handler[g[Max(of(o))].by].event]
        <4> HIDE DEF c, of, g
        <4> QED BY <2>1, <2>2, <1>3
      <3> HIDE DEF c, of, g
      <3> QED BY <3>1, <3>2
    <2>3. CASE of(o) = {}
      <3>1. x \in d.effects
        <4>1. ASSUME NEW i \in made, x = RowOf(g[i].by) PROVE FALSE
          <5>1. x.event = handler[g[i].by].event
            BY <4>1 DEF RowOf
          <5>2. i \in of(o)
            BY <5>1
          <5> QED BY <5>2, <2>3
        <4> HIDE DEF c, of, g, d, made
        <4> QED BY <4>1, <1>2
      <3>2. d.orders[o] > 0
        BY <3>1, <1>1 DEF DiskShape
      <3>3. c.orders[o] = d.orders[o]
        <4> HIDE DEF c, of, g, d
        <4> QED BY <2>1, <2>3, <1>3
      <3> HIDE DEF c, of, g, d
      <3> QED BY <3>2, <3>3
    <2> QED BY <2>2, <2>3
  <1>10. DiskShape(c)
    <2> HIDE DEF c
    <2> QED BY <1>7, <1>8, <1>9 DEF DiskShape
  <1>11. disk' = [k \in Ledgers |-> IF k = l THEN c ELSE disk[k]]
    <2> HIDE DEF c
    <2> QED BY <1>1 DEF c
  <1> HIDE DEF c
  <1>12. disk' = [k \in Ledgers |-> disk'[k]] /\ \A k \in Ledgers : DiskShape(disk[k])'
    <2>1. \A k \in Ledgers : DiskShape(disk[k])
      BY <1>1 DEF LedgerShape
    <2>2. ASSUME NEW k \in Ledgers PROVE DiskShape(disk'[k])
      BY <1>10, <1>11, <2>1
    <2> QED BY <1>11, <2>2 DEF DiskShape
  <1>13. Grown
    <2> HIDE DEF rows
    <2> QED BY <1>2, <1>11 DEF Grown
  <1>14. ASSUME NEW k \in Ledgers, NEW x \in disk'[k].effects PROVE IsRow(k, x)
    <2>1. CASE x \in disk[k].effects
      BY <2>1 DEF IsRow
    <2>2. CASE k = l /\ x \in rows
      <3>1. PICK i \in made : x = RowOf(g[i].by)
        BY <2>2
      <3> HIDE DEF made, g
      <3> QED BY <2>2, <3>1, <1>4 DEF IsRow
    <2> HIDE DEF rows
    <2> QED BY <2>1, <2>2, <1>2, <1>11
  <1>15. ASSUME NEW r \in Requests, Within(Outcome(r), group[l]), handler[r].index > 0
         PROVE RowOf(r) \in disk'[l].effects
    <2>1. PICK i \in 1 .. Len(g) : g[i] = Outcome(r)
      BY <1>15 DEF Within
    <2>2. i \in made /\ g[i].by = r
      BY <2>1, <1>1, <1>15 DEF Outcome
    <2>3. RowOf(r) \in rows
      BY <2>2
    <2> HIDE DEF rows
    <2> QED BY <2>3, <1>2, <1>11
  <1> QED BY <1>12, <1>13, <1>14, <1>15

LEMMA CommitGroupStep ==
  ASSUME LedgerInv, NEW l \in Ledgers, CommitGroup(l)
  PROVE LedgerInv'
  <1>1. /\ torn' = torn /\ ledger' = ledger /\ mem' = mem /\ queue' = queue
        /\ group' = [group EXCEPT ![l] = <<>>] /\ Wake(l, TRUE)
    BY DEF CommitGroup
  <1>2. LedgerShape
    BY DEF LedgerInv
  <1>3. disk' = [disk EXCEPT ![l] = ExecuteBatch(disk[l], group[l])]
    BY DEF CommitGroup
  <1>4. /\ handler' = [q \in Requests |-> handler'[q]]
        /\ \A q \in Requests : HandlerShape(handler[q])'
        /\ SameOutcomes
        /\ \A q \in Requests :
             /\ handler'[q].ledger = handler[q].ledger
             /\ \/ handler'[q].step = handler[q].step
                \/ Within(Outcome(q), group[l]) /\ handler'[q].step = "written"
        /\ snapshot' = [step |-> snapshot'.step, ledger |-> snapshot'.ledger, due |-> snapshot'.due,
                        effects |-> snapshot'.effects, orders |-> snapshot'.orders]
        /\ snapshot'.ledger = snapshot.ledger /\ snapshot'.due = snapshot.due
        /\ snapshot'.effects = snapshot.effects /\ snapshot'.orders = snapshot.orders
        /\ snapshot'.step \in {snapshot.step, "effects", "failed"}
    BY <1>1, <1>2, Woken
  <1>5. /\ group' \in [Ledgers -> Seq(LedgerItems)]
        /\ \A k \in Ledgers, r \in Requests : Queued(k, Outcome(r))' => Queued(k, Outcome(r))
    BY <1>1, <1>2, GroupDone
  <1>6. /\ disk' = [k \in Ledgers |-> disk'[k]] /\ \A k \in Ledgers : DiskShape(disk[k])'
        /\ Grown
        /\ \A k \in Ledgers : \A x \in disk'[k].effects : IsRow(k, x)
        /\ \A r \in Requests : Within(Outcome(r), group[l]) /\ handler[r].index > 0 =>
             RowOf(r) \in disk'[l].effects
    BY <1>3, CommittedRows
  <1> HIDE <1>3
  <1>7. LedgerShape'
    BY <1>1, <1>2, <1>4, <1>5, <1>6 DEF LedgerShape
  <1>8. HomeInv'
    BY <1>4, <1>5, HomeKept DEF LedgerInv
  <1>9. OwnInv'
    <2>1. ASSUME NEW r \in Requests, handler'[r].index > 0,
                 handler'[r].step \in {"written", "answered", "dropped"}
          PROVE \E x \in disk'[handler'[r].ledger].effects : x.event = handler'[r].event
      <3>1. /\ handler[r].index > 0 /\ handler[r].ledger \in Ledgers
            /\ handler'[r].event = handler[r].event /\ handler'[r].ledger = handler[r].ledger
        BY <2>1, <1>2, <1>4 DEF SameOutcomes, LedgerShape, HandlerShape
      <3>2. CASE handler'[r].step = handler[r].step
        <4>1. \E x \in disk[handler[r].ledger].effects : x.event = handler[r].event
          BY <2>1, <3>1, <3>2 DEF LedgerInv, OwnInv, Durable
        <4> QED BY <3>1, <4>1, <1>6 DEF Grown
      <3>3. CASE Within(Outcome(r), group[l])
        <4>1. handler[r].ledger = l
          BY <3>3 DEF LedgerInv, HomeInv, Queued
        <4>2. RowOf(r) \in disk'[l].effects
          BY <3>1, <3>3, <1>6
        <4>3. RowOf(r).event = handler[r].event
          BY DEF RowOf
        <4> QED BY <3>1, <4>1, <4>2, <4>3
      <3> QED BY <3>2, <3>3, <1>4
    <2> QED BY <2>1 DEF OwnInv, Durable
  <1>10. VouchedInv'
    <2>1. \A k \in Ledgers, e \in Events : mem'[k].effects[e] # None => Vouched(k, e)
      BY <1>1 DEF LedgerInv, VouchedInv
    <2> QED BY <1>2, <1>4, <1>6, <2>1, VouchedKept DEF LedgerInv
  <1>11. \A k \in Ledgers, x \in EffectRows : IsRow(k, x)' => IsRow(k, x)
    <2>1. ASSUME NEW k \in Ledgers, NEW r \in Requests, OnItsWay(k, r)'
          PROVE OnItsWay(k, r) /\ RowOf(r)' = RowOf(r)
      BY <2>1, <1>4, <1>5 DEF OnItsWay, SameOutcomes, RowOf
    <2>2. ASSUME NEW k \in Ledgers, NEW x \in EffectRows, IsRow(k, x)' PROVE IsRow(k, x)
      <3>1. CASE x \in disk'[k].effects
        BY <3>1, <1>6
      <3>2. CASE \E r \in Requests : OnItsWay(k, r)' /\ x = RowOf(r)'
        BY <3>2, <2>1 DEF IsRow
      <3> QED BY <2>2, <3>1, <3>2 DEF IsRow
    <2> QED BY <2>2
  <1>12. AheadInv' /\ OrderInv'
    BY <1>1, <1>11, RowsKept DEF LedgerInv
  <1>13. SnapshotInv'
    BY <1>2, <1>4, <1>6, SnapshotKept DEF LedgerInv
  <1> QED BY <1>7, <1>8, <1>9, <1>10, <1>12, <1>13 DEF LedgerInv

(* A decision. Only one that applies changes memory; its row is the last of    *)
(* its ledger and follows the row its order has in memory.                     *)
LEMMA DecideStep ==
  ASSUME LedgerInv, NEW r \in Requests, Decide(r)
  PROVE LedgerInv'
  <1> DEFINE h == handler[r]
             l == handler[r].ledger
             e == handler[r].event
             m == mem[l]
             g == handler'[r]
  <1>1. /\ disk' = disk /\ torn' = torn /\ ledger' = ledger /\ queue' = queue /\ group' = group
        /\ snapshot' = snapshot /\ h.step = "sleeping"
    BY DEF Decide
  <1>2. /\ LedgerShape /\ handler = [q \in Requests |-> handler[q]]
        /\ mem = [k \in Ledgers |-> mem[k]] /\ \A q \in Requests : HandlerShape(handler[q])
    BY DEF LedgerInv, LedgerShape
  <1>3. l \in Ledgers /\ e \in Events /\ h.index = 0 /\ h.status = 0 /\ h.body \in Bodies \cup {None}
    BY <1>1, <1>2 DEF HandlerShape
  <1>4. MemShape(m)
    BY <1>2, <1>3 DEF LedgerShape
  <1>5. m.nextEffect \in Nat \ {0} /\ m.orders \in [Orders -> Nat] /\ OrderOf[e] \in Orders
        /\ SequenceOf[e] \in Nat \ {0} /\ m.effects \in [Events -> Bodies \cup {None}]
    BY <1>3, <1>4, LedgerAssumption DEF MemShape
  <1>6. /\ handler' = [q \in Requests |-> IF q = r THEN g ELSE handler[q]]
        /\ g = [step |-> "decided", event |-> e, body |-> h.body, ledger |-> l, count |-> 0,
                attempt |-> h.attempt, policy |-> NoPolicy, status |-> Decision(r),
                index |-> IF Applies(r) THEN m.nextEffect ELSE 0,
                dropped |-> Decision(r) = 200 /\ h.policy.drop /\ h.count = 0]
    BY <1>2 DEF Decide
  <1>7. /\ g.step = "decided" /\ g.event = e /\ g.body = h.body /\ g.ledger = l
        /\ g.status = Decision(r) /\ g.index = IF Applies(r) THEN m.nextEffect ELSE 0
        /\ g = [step |-> g.step, event |-> g.event, body |-> g.body, ledger |-> g.ledger,
                count |-> g.count, attempt |-> g.attempt, policy |-> g.policy,
                status |-> g.status, index |-> g.index, dropped |-> g.dropped]
    BY <1>6
  <1>8. Applies(r) => SequenceOf[e] = m.orders[OrderOf[e]] + 1
    <2>1. Applies(r) => /\ m.effects[e] = None \/ ~h.policy.idempotent
                        /\ Decision(r) = 200
      BY DEF Applies
    <2>2. m.effects[e] = None \/ ~h.policy.idempotent =>
            Decision(r) \in {503, 409} \/ SequenceOf[e] = m.orders[OrderOf[e]] + 1
      BY DEF Decision
    <2> QED BY <2>1, <2>2
  <1>9. Decision(r) = 200 => Applies(r) \/ m.effects[e] # None
    BY DEF Applies
  <1>10. /\ mem' = [k \in Ledgers |-> mem'[k]] /\ \A k \in Ledgers : k # l => mem'[k] = mem[k]
         /\ MemShape(mem'[l])
         /\ Applies(r) => /\ mem'[l].nextEffect = m.nextEffect + 1
                          /\ mem'[l].orders = [m.orders EXCEPT ![OrderOf[e]] = SequenceOf[e]]
                          /\ mem'[l].effects = [m.effects EXCEPT ![e] = h.body]
         /\ ~Applies(r) => mem'[l] = m
    <2>1. CASE Applies(r)
      <3> DEFINE a == [m EXCEPT !.effects[e] = h.body, !.orders[OrderOf[e]] = SequenceOf[e],
                                !.nextEffect = m.nextEffect + 1]
                 fx == [m.effects EXCEPT ![e] = h.body]
                 ox == [m.orders EXCEPT ![OrderOf[e]] = SequenceOf[e]]
                 nx == m.nextEffect + 1
                 full == [effects |-> fx, orders |-> ox, counts |-> m.counts,
                          nextAttempt |-> m.nextAttempt, nextEffect |-> nx]
      <3>1. mem' = [mem EXCEPT ![l] = a]
        BY <2>1 DEF Decide
      <3>2. fx \in [Events -> Bodies \cup {None}] /\ ox \in [Orders -> Nat] /\ nx \in Nat \ {0}
        BY <1>3, <1>5
      <3>3. a = full
        <4>1. m = [effects |-> m.effects, orders |-> m.orders, counts |-> m.counts,
                   nextAttempt |-> m.nextAttempt, nextEffect |-> m.nextEffect]
          BY <1>4 DEF MemShape
        <4> DEFINE b == [m EXCEPT !.effects[e] = h.body]
        <4>2. b = [effects |-> fx, orders |-> m.orders, counts |-> m.counts,
                  nextAttempt |-> m.nextAttempt, nextEffect |-> m.nextEffect]
          BY <4>1
        <4>3. [b EXCEPT !.orders[OrderOf[e]] = SequenceOf[e]] =
                 [effects |-> fx, orders |-> ox, counts |-> m.counts,
                  nextAttempt |-> m.nextAttempt, nextEffect |-> m.nextEffect]
          <5>1. b.orders = m.orders
            <6> HIDE DEF b, fx
            <6> QED BY <4>2
          <5>2. [b EXCEPT !.orders[OrderOf[e]] = SequenceOf[e]] = [b EXCEPT !.orders = ox]
            <6> HIDE DEF b
            <6> QED BY <5>1
          <5> HIDE DEF b, fx, ox
          <5> QED BY <4>2, <5>2
        <4> DEFINE d == [b EXCEPT !.orders[OrderOf[e]] = SequenceOf[e]]
        <4>4. a = [d EXCEPT !.nextEffect = nx]
          OBVIOUS
        <4> HIDE DEF a, d, b, fx, ox, nx
        <4> QED BY <4>3, <4>4 DEF d
      <3> HIDE DEF a, fx, ox, nx, full
      <3>4. mem' = [k \in Ledgers |-> IF k = l THEN full ELSE mem[k]]
        BY <1>2, <1>3, <3>1, <3>3
      <3>5. MemShape(full)
        BY <3>2 DEF MemShape, full
      <3> QED BY <2>1, <1>3, <3>4, <3>5 DEF full, fx, ox, nx
    <2>2. CASE ~Applies(r)
      <3>1. mem' = mem
        BY <2>2 DEF Decide
      <3> QED BY <2>2, <3>1, <1>2, <1>4
    <2> QED BY <2>1, <2>2
  <1> HIDE DEF g
  <1>11. LedgerShape'
    <2>1. HandlerShape(g)
      BY <1>3, <1>5, <1>7 DEF HandlerShape
    <2>2. \A q \in Requests : HandlerShape(handler'[q])
      BY <1>2, <1>6, <2>1
    <2>3. handler' = [q \in Requests |-> handler'[q]]
      BY <1>6
    <2>4. \A k \in Ledgers : MemShape(mem'[k])
      BY <1>2, <1>3, <1>10 DEF LedgerShape
    <2>5. (\A q \in Requests : HandlerShape(handler[q])') /\ \A k \in Ledgers : MemShape(mem[k])'
      BY <2>2, <2>4 DEF HandlerShape, MemShape
    <2> QED BY <1>1, <1>2, <1>10, <2>3, <2>5 DEF LedgerShape
  <1>12. ASSUME NEW q \in Requests, NEW k \in Ledgers
         PROVE (Queued(k, Outcome(q))' <=> Queued(k, Outcome(q))) /\ (Queued(k, Outcome(q)) => q # r)
    <2>1. Queued(k, Outcome(q))' <=> Queued(k, Outcome(q))
      BY <1>1 DEF Queued, Within
    <2>2. Queued(k, Outcome(q)) => q # r
      BY <1>1 DEF LedgerInv, HomeInv
    <2> QED BY <2>1, <2>2
  <1>13. HomeInv'
    BY <1>6, <1>12 DEF LedgerInv, HomeInv
  <1>14. OwnInv'
    <2>1. OwnInv
      BY DEF LedgerInv
    <2> QED BY <2>1, <1>1, <1>6, <1>7 DEF OwnInv, Durable
  <1>15. \A k \in Ledgers : \A f : Vouched(k, f) => Vouched(k, f)'
    BY <1>1, <1>3, <1>6 DEF Vouched, Durable
  <1>16. ASSUME NEW k \in Ledgers, NEW f \in Events, Applies(r), k = l, f = e PROVE Vouched(k, f)'
    BY <1>5, <1>6, <1>7, <1>16 DEF Vouched
  <1>17. VouchedInv'
    <2>1. VouchedInv
      BY DEF LedgerInv
    <2>2. ASSUME NEW k \in Ledgers, NEW f \in Events, Decision(r) = 200, k = l, f = e
          PROVE Vouched(k, f)'
      <3>1. CASE Applies(r)
        BY <3>1, <2>2, <1>16
      <3>2. CASE m.effects[e] # None
        <4>1. Vouched(k, f)
          BY <3>2, <2>1, <2>2 DEF VouchedInv
        <4> QED BY <4>1, <1>15
      <3> QED BY <3>1, <3>2, <2>2, <1>9
    <2>3. ASSUME NEW q \in Requests, handler'[q].status = 200
          PROVE Vouched(handler[q].ledger, handler[q].event)'
      <3>1. CASE q = r
        <4>1. \A k \in Ledgers, f \in Events : Decision(r) = 200 /\ k = l /\ f = e =>
                 ((\E x \in disk'[k].effects : x.event = f) \/ \E p \in Requests :
                    handler'[p].index > 0 /\ handler'[p].event = f /\ handler'[p].ledger = k)
          BY <2>2 DEF Vouched, Durable
        <4>2. handler'[q].ledger = l /\ handler'[q].event = e /\ Decision(r) = 200
          BY <3>1, <2>3, <1>6, <1>7
        <4> QED BY <4>1, <4>2, <1>3 DEF Vouched, Durable
      <3>2. CASE q # r
        <4>1. handler'[q] = handler[q] /\ handler[q].ledger \in Ledgers
          BY <3>2, <1>2, <1>6 DEF HandlerShape
        <4>2. Vouched(handler[q].ledger, handler[q].event)
          BY <4>1, <2>1, <2>3 DEF VouchedInv
        <4>3. \A k \in Ledgers : \A f : Vouched(k, f) =>
                 ((\E x \in disk'[k].effects : x.event = f) \/ \E p \in Requests :
                    handler'[p].index > 0 /\ handler'[p].event = f /\ handler'[p].ledger = k)
          BY <1>15 DEF Vouched, Durable
        <4> QED BY <4>1, <4>2, <4>3 DEF Vouched, Durable
      <3> QED BY <3>1, <3>2
    <2>4. ASSUME NEW k \in Ledgers, NEW f \in Events, mem'[k].effects[f] # None
          PROVE Vouched(k, f)'
      <3>1. CASE mem[k].effects[f] # None
        BY <3>1, <2>1, <1>15 DEF VouchedInv
      <3>2. CASE mem[k].effects[f] = None
        <4>1. k = l /\ Applies(r)
          BY <3>2, <2>4, <1>10
        <4>2. f = e
          BY <4>1, <3>2, <2>4, <1>3, <1>5, <1>10
        <4> QED BY <4>1, <4>2, <1>16
      <3> QED BY <3>1, <3>2
    <2> QED BY <2>3, <2>4 DEF VouchedInv
  <1> DEFINE new == [index |-> m.nextEffect, event |-> e, payload |-> h.body]
  <1>18. ASSUME NEW k \in Ledgers, NEW x \in EffectRows, IsRow(k, x)'
         PROVE IsRow(k, x) \/ (Applies(r) /\ k = l /\ x = new)
    <2>1. CASE x \in disk'[k].effects
      BY <2>1, <1>1 DEF IsRow
    <2>2. ASSUME NEW q \in Requests, OnItsWay(k, q)', x = RowOf(q)'
          PROVE IsRow(k, x) \/ (Applies(r) /\ k = l /\ x = new)
      <3>1. CASE q = r
        BY <3>1, <2>2, <1>6, <1>7 DEF OnItsWay, RowOf
      <3>2. CASE q # r
        <4>1. handler'[q] = handler[q]
          BY <3>2, <1>6
        <4>2. OnItsWay(k, q) /\ RowOf(q)' = RowOf(q)
          BY <4>1, <2>2, <1>12 DEF OnItsWay, RowOf
        <4> QED BY <4>2, <2>2 DEF IsRow
      <3> QED BY <3>1, <3>2
    <2> QED BY <1>18, <2>1, <2>2 DEF IsRow
  <1>19. AheadInv'
    <2>1. ASSUME NEW k \in Ledgers, NEW x \in EffectRows, IsRow(k, x)'
          PROVE x.index < mem'[k].nextEffect
      <3>1. CASE IsRow(k, x)
        <4>1. x.index < mem[k].nextEffect /\ x.index \in Nat
          BY <3>1 DEF LedgerInv, AheadInv, EffectRows
        <4>2. mem'[k].nextEffect = mem[k].nextEffect
              \/ (k = l /\ mem'[k].nextEffect = mem[k].nextEffect + 1)
          BY <1>10
        <4> QED BY <4>1, <4>2, <1>5
      <3>2. CASE Applies(r) /\ k = l /\ x = new
        <4>1. mem'[l].nextEffect = m.nextEffect + 1 /\ x.index = m.nextEffect
          BY <3>2, <1>10
        <4> QED BY <3>2, <4>1, <1>5
      <3> QED BY <2>1, <3>1, <3>2, <1>18
    <2> QED BY <2>1 DEF AheadInv
  <1>20. OrderInv'
    <2>1. ASSUME NEW k \in Ledgers \ torn, NEW x \in EffectRows, IsRow(k, x)
          PROVE /\ SequenceOf[x.event] <= mem[k].orders[OrderOf[x.event]]
                /\ x.index < mem[k].nextEffect /\ x.index \in Nat /\ x.event \in Events
                /\ SequenceOf[x.event] \in Nat /\ OrderOf[x.event] \in Orders
      BY <2>1, LedgerAssumption DEF LedgerInv, OrderInv, AheadInv, EffectRows
    <2>2. ASSUME NEW k \in Ledgers \ torn, NEW x \in EffectRows, IsRow(k, x)'
          PROVE SequenceOf[x.event] <= mem'[k].orders[OrderOf[x.event]]
      <3>1. CASE Applies(r) /\ k = l
        <4>1. mem'[l].orders = [m.orders EXCEPT ![OrderOf[e]] = SequenceOf[e]]
          BY <3>1, <1>10
        <4>2. CASE x = new
          <5>1. x.event = e
            BY <4>2
          <5> QED BY <3>1, <4>1, <5>1, <1>5
        <4>3. CASE IsRow(k, x)
          <5>1. /\ SequenceOf[x.event] <= m.orders[OrderOf[x.event]]
                /\ SequenceOf[x.event] \in Nat /\ OrderOf[x.event] \in Orders
            BY <4>3, <2>1, <3>1
          <5>2. SequenceOf[e] = m.orders[OrderOf[e]] + 1
            BY <3>1, <1>8
          <5>3. CASE OrderOf[x.event] = OrderOf[e]
            BY <3>1, <4>1, <5>1, <5>2, <5>3, <1>5
          <5>4. CASE OrderOf[x.event] # OrderOf[e]
            BY <3>1, <4>1, <5>1, <5>4, <1>5
          <5> QED BY <5>3, <5>4
        <4> QED BY <2>2, <4>2, <4>3, <1>18
      <3>2. CASE ~(Applies(r) /\ k = l)
        <4>1. mem'[k] = mem[k]
          BY <3>2, <1>10
        <4>2. IsRow(k, x)
          BY <2>2, <3>2, <1>18
        <4> QED BY <4>1, <4>2, <2>1
      <3> QED BY <3>1, <3>2
    <2>3. ASSUME NEW k \in Ledgers \ torn, NEW x \in EffectRows, IsRow(k, x), Applies(r), k = l
          PROVE InOrder(x, new) /\ InOrder(new, x)
      <3>1. /\ SequenceOf[x.event] <= m.orders[OrderOf[x.event]] /\ x.index < m.nextEffect
            /\ x.index \in Nat /\ SequenceOf[x.event] \in Nat /\ OrderOf[x.event] \in Orders
        BY <2>1, <2>3
      <3>2. SequenceOf[e] = m.orders[OrderOf[e]] + 1
        BY <2>3, <1>8
      <3>3. new.event = e /\ new.index = m.nextEffect
        OBVIOUS
      <3> HIDE DEF new
      <3>4. OrderOf[x.event] = OrderOf[e] => SequenceOf[x.event] < SequenceOf[e]
        BY <3>1, <3>2, <1>5
      <3>5. x.event # e /\ ~(m.nextEffect < x.index)
        BY <3>1, <3>4, <1>5
      <3> QED BY <3>3, <3>4, <3>5 DEF InOrder
    <2>4. ASSUME NEW k \in Ledgers \ torn, NEW x \in EffectRows, NEW y \in EffectRows,
                 IsRow(k, x)', IsRow(k, y)'
          PROVE InOrder(x, y)
      <3>1. CASE IsRow(k, x) /\ IsRow(k, y)
        BY <3>1 DEF LedgerInv, OrderInv
      <3>2. CASE IsRow(k, x) /\ Applies(r) /\ k = l /\ y = new
        BY <3>2, <2>3
      <3>3. CASE IsRow(k, y) /\ Applies(r) /\ k = l /\ x = new
        BY <3>3, <2>3
      <3>4. CASE x = new /\ y = new
        <4>1. ~(m.nextEffect < m.nextEffect)
          BY <1>5
        <4> QED BY <3>4, <4>1 DEF InOrder
      <3> QED BY <2>4, <3>1, <3>2, <3>3, <3>4, <1>18
    <2> QED BY <2>2, <2>4, <1>1 DEF OrderInv, InOrder
  <1>21. SnapshotInv'
    BY <1>1 DEF LedgerInv, SnapshotInv, Durable
  <1> QED BY <1>11, <1>13, <1>14, <1>17, <1>19, <1>20, <1>21 DEF LedgerInv

(* What is loaded from the rows is ahead of them, and knows no other effect.   *)
LEMMA Loaded ==
  ASSUME NEW d, DiskShape(d)
  PROVE /\ MemShape(Load(d)) /\ Load(d).orders = d.orders
        /\ \A x \in d.effects : x.index < Load(d).nextEffect
        /\ \A e \in Events : Load(d).effects[e] # None => \E x \in d.effects : x.event = e
  <1> DEFINE ids == {x.index : x \in d.effects}
             S == {0} \cup ids
             fx == [e \in Events |-> IF \E x \in d.effects : x.event = e
                      THEN (CHOOSE x \in d.effects : x.event = e).payload ELSE None]
  <1>1. d.effects \subseteq EffectRows /\ IsFiniteSet(d.effects) /\ d.orders \in [Orders -> Nat]
    BY DEF DiskShape
  <1>2. \A x \in d.effects : x.index \in Nat /\ x.payload \in Bodies \cup {None}
    BY <1>1 DEF EffectRows
  <1>3. IsFiniteSet(ids)
    <2> DEFINE f == [x \in d.effects |-> x.index]
    <2>1. f \in Surjection(d.effects, ids)
      BY DEF Surjection
    <2> HIDE DEF f, ids
    <2> QED BY <1>1, <2>1, FS_Surjection
  <1>4. S \in SUBSET Nat /\ IsFiniteSet(S) /\ S # {}
    <2>1. IsFiniteSet(ids \cup {0})
      <3> HIDE DEF ids
      <3> QED BY <1>3, FS_AddElement
    <2>2. S = ids \cup {0}
      OBVIOUS
    <2> QED BY <1>2, <2>1, <2>2
  <1>5. Max(S) \in S /\ \A y \in S : Max(S) >= y
    <2> HIDE DEF S
    <2>1. S \in SUBSET Int
      BY <1>4
    <2> QED BY <1>4, <2>1, LargestNumber
  <1>6. Max(S) \in Nat
    <2> HIDE DEF S
    <2> QED BY <1>4, <1>5
  <1>7. /\ Load(d).effects = fx /\ Load(d).orders = d.orders /\ Load(d).nextEffect = Max(S) + 1
        /\ Load(d) = [effects |-> Load(d).effects, orders |-> Load(d).orders,
                      counts |-> Load(d).counts, nextAttempt |-> Load(d).nextAttempt,
                      nextEffect |-> Load(d).nextEffect]
    BY DEF Load
  <1>8. fx \in [Events -> Bodies \cup {None}]
    <2>1. ASSUME NEW e \in Events, \E x \in d.effects : x.event = e
          PROVE (CHOOSE x \in d.effects : x.event = e).payload \in Bodies \cup {None}
      <3>1. (CHOOSE x \in d.effects : x.event = e) \in d.effects
        BY <2>1
      <3> QED BY <3>1, <1>2
    <2> QED BY <2>1
  <1>9. ASSUME NEW x \in d.effects PROVE x.index < Load(d).nextEffect
    <2>1. x.index \in S /\ x.index \in Nat
      BY <1>2
    <2> HIDE DEF S
    <2>2. Max(S) >= x.index
      BY <2>1, <1>5
    <2> QED BY <2>1, <2>2, <1>6, <1>7
  <1>10. ASSUME NEW e \in Events, Load(d).effects[e] # None PROVE \E x \in d.effects : x.event = e
    BY <1>7, <1>10
  <1>11. MemShape(Load(d))
    <2> HIDE DEF fx, S
    <2>1. Load(d).nextEffect \in Nat \ {0}
      BY <1>6, <1>7
    <2> QED BY <1>1, <1>7, <1>8, <2>1 DEF MemShape
  <1> QED BY <1>7, <1>9, <1>10, <1>11

LEMMA CrashStep ==
  ASSUME LedgerInv, CrashRestart
  PROVE LedgerInv'
  <1>1. /\ disk' = disk /\ ledger' = 1 /\ mem' = [l \in Ledgers |-> Load(disk[l])]
        /\ queue' = [l \in Ledgers |-> <<>>] /\ group' = [l \in Ledgers |-> <<>>]
        /\ torn' = torn \cup {l \in Ledgers : Behind(disk[l])}
        /\ handler' = [r \in Requests |->
              IF Active(r) THEN [handler[r] EXCEPT !.step = "lost"] ELSE handler[r]]
        /\ snapshot' = snapshot \/ snapshot' = [snapshot EXCEPT !.step = "failed"]
    BY DEF CrashRestart
  <1>2. LedgerShape
    BY DEF LedgerInv
  <1>3. Grown
    BY <1>1 DEF Grown
  <1>4. \A l \in Ledgers :
          /\ MemShape(mem'[l]) /\ mem'[l].orders = disk[l].orders
          /\ \A x \in disk[l].effects : x.index < mem'[l].nextEffect
          /\ \A e \in Events : mem'[l].effects[e] # None => \E x \in disk[l].effects : x.event = e
    BY <1>1, <1>2, Loaded DEF LedgerShape
  <1>5. ASSUME NEW q \in Requests
        PROVE /\ HandlerShape(handler'[q])
              /\ handler'[q].index = handler[q].index /\ handler'[q].event = handler[q].event
              /\ handler'[q].ledger = handler[q].ledger /\ handler'[q].body = handler[q].body
              /\ handler'[q].status = handler[q].status
              /\ handler'[q].step # "decided"
              /\ handler'[q].step = handler[q].step \/ handler'[q].step = "lost"
    <2>1. HandlerShape(handler[q])
      BY <1>2 DEF LedgerShape
    <2>2. CASE Active(q)
      <3>1. handler'[q] = [handler[q] EXCEPT !.step = "lost"]
        BY <2>2, <1>1
      <3> QED BY <3>1, <2>1 DEF HandlerShape
    <2>3. CASE ~Active(q)
      <3>1. handler'[q] = handler[q]
        BY <2>3, <1>1
      <3> QED BY <3>1, <2>1, <2>3 DEF Active
    <2> QED BY <2>2, <2>3
  <1>6. SameOutcomes
    BY <1>5 DEF SameOutcomes
  <1>7. /\ snapshot' = [step |-> snapshot'.step, ledger |-> snapshot'.ledger, due |-> snapshot'.due,
                        effects |-> snapshot'.effects, orders |-> snapshot'.orders]
        /\ snapshot'.ledger = snapshot.ledger /\ snapshot'.due = snapshot.due
        /\ snapshot'.effects = snapshot.effects /\ snapshot'.orders = snapshot.orders
        /\ snapshot'.step \in {snapshot.step, "effects", "failed"}
    BY <1>1, <1>2 DEF LedgerShape
  <1>8. LedgerShape'
    <2>1. (\A q \in Requests : HandlerShape(handler[q])') /\ \A l \in Ledgers : MemShape(mem[l])'
      BY <1>4, <1>5 DEF HandlerShape, MemShape
    <2>2. handler' = [q \in Requests |-> handler'[q]] /\ mem' = [l \in Ledgers |-> mem'[l]]
      BY <1>1
    <2>3. queue' \in [Ledgers -> Seq(LedgerItems)] /\ group' \in [Ledgers -> Seq(LedgerItems)]
      BY <1>1
    <2>4. ledger' \in Ledgers
      BY <1>1, LedgerAssumption DEF Ledgers
    <2> QED BY <1>1, <1>2, <1>7, <2>1, <2>2, <2>3, <2>4 DEF LedgerShape
  <1>9. \A l \in Ledgers : \A item : ~Queued(l, item)'
    BY <1>1 DEF Queued, Within
  <1>10. HomeInv'
    BY <1>9 DEF HomeInv
  <1>11. OwnInv'
    BY <1>2, <1>3, <1>5, <1>6, OwnKept DEF LedgerInv
  <1>12. VouchedInv'
    <2>1. \A l \in Ledgers, e \in Events : mem'[l].effects[e] # None => Vouched(l, e)
      BY <1>4 DEF Vouched, Durable
    <2> QED BY <1>2, <1>3, <1>6, <2>1, VouchedKept DEF LedgerInv
  <1>13. ASSUME NEW l \in Ledgers, NEW x \in EffectRows, IsRow(l, x)'
         PROVE x \in disk[l].effects /\ IsRow(l, x)
    BY <1>1, <1>5, <1>9, <1>13 DEF IsRow, OnItsWay
  <1>14. AheadInv'
    BY <1>4, <1>13 DEF AheadInv
  <1>15. OrderInv'
    <2>1. ASSUME NEW l \in Ledgers \ torn', NEW x \in EffectRows, IsRow(l, x)'
          PROVE SequenceOf[x.event] <= mem'[l].orders[OrderOf[x.event]]
      <3>1. l \in Ledgers /\ ~Behind(disk[l]) /\ x \in disk[l].effects
        BY <2>1, <1>1, <1>13
      <3>2. ~(disk[l].orders[OrderOf[x.event]] < SequenceOf[x.event])
        BY <3>1 DEF Behind
      <3>3. disk[l].orders[OrderOf[x.event]] \in Nat /\ SequenceOf[x.event] \in Nat
        BY <3>1, <1>2, LedgerAssumption DEF LedgerShape, DiskShape, EffectRows
      <3> QED BY <3>1, <3>2, <3>3, <1>4
    <2>2. ASSUME NEW l \in Ledgers \ torn', NEW x \in EffectRows, NEW y \in EffectRows,
                 IsRow(l, x)', IsRow(l, y)'
          PROVE InOrder(x, y)
      <3>1. l \in Ledgers \ torn /\ IsRow(l, x) /\ IsRow(l, y)
        BY <2>2, <1>1, <1>13
      <3> QED BY <3>1 DEF LedgerInv, OrderInv
    <2> QED BY <2>1, <2>2 DEF OrderInv, InOrder
  <1>16. SnapshotInv'
    BY <1>2, <1>3, <1>7, SnapshotKept DEF LedgerInv
  <1> QED BY <1>8, <1>10, <1>11, <1>12, <1>14, <1>15, <1>16 DEF LedgerInv

-----------------------------------------------------------------------------
(* The mock partner API: the theorem                                           *)

LEMMA LedgerStarts == LedgerInit => LedgerInv
  <1> SUFFICES ASSUME LedgerInit PROVE LedgerInv
    OBVIOUS
  <1>1. DiskShape(EmptyDisk) /\ EmptyDisk.effects = {}
    <2>1. IsFiniteSet({})
      BY FS_EmptySet
    <2> QED BY <2>1 DEF DiskShape, EmptyDisk
  <1>2. /\ ledger = 1 /\ disk = [l \in Ledgers |-> EmptyDisk]
        /\ mem = [l \in Ledgers |-> Load(EmptyDisk)]
        /\ queue = [l \in Ledgers |-> <<>>] /\ group = [l \in Ledgers |-> <<>>]
        /\ handler = [r \in Requests |-> Idle] /\ snapshot = NoSnapshot
    BY DEF LedgerInit
  <1>3. 1 \in Ledgers
    BY LedgerAssumption DEF Ledgers
  <1>4. HandlerShape(Idle) /\ Idle.step = "idle" /\ Idle.index = 0 /\ Idle.status = 0
    BY <1>3 DEF HandlerShape, Idle
  <1>5. /\ MemShape(Load(EmptyDisk))
        /\ \A e \in Events : Load(EmptyDisk).effects[e] = None
    BY <1>1, Loaded
  <1>6. LedgerShape
    <2>1. queue \in [Ledgers -> Seq(LedgerItems)] /\ group \in [Ledgers -> Seq(LedgerItems)]
      BY <1>2
    <2>2. /\ snapshot = [step |-> snapshot.step, ledger |-> snapshot.ledger, due |-> snapshot.due,
                         effects |-> snapshot.effects, orders |-> snapshot.orders]
          /\ snapshot.ledger \in Ledgers
      BY <1>2, <1>3 DEF NoSnapshot
    <2>3. \A r \in Requests : HandlerShape(handler[r])
      BY <1>2, <1>4
    <2>4. \A l \in Ledgers : MemShape(mem[l]) /\ DiskShape(disk[l])
      BY <1>1, <1>2, <1>5
    <2>5. /\ handler = [r \in Requests |-> handler[r]] /\ mem = [l \in Ledgers |-> mem[l]]
          /\ disk = [l \in Ledgers |-> disk[l]]
      BY <1>2
    <2> QED BY <1>2, <1>3, <2>1, <2>2, <2>3, <2>4, <2>5 DEF LedgerShape
  <1>7. \A l \in Ledgers : \A item : ~Queued(l, item)
    BY <1>2 DEF Queued, Within
  <1>8. HomeInv
    BY <1>7 DEF HomeInv
  <1>9. OwnInv /\ VouchedInv
    BY <1>2, <1>4, <1>5 DEF OwnInv, VouchedInv
  <1>10. \A l \in Ledgers : \A x : ~IsRow(l, x)
    BY <1>1, <1>2, <1>4 DEF IsRow, OnItsWay
  <1>11. AheadInv /\ OrderInv
    BY <1>10 DEF AheadInv, OrderInv
  <1>12. SnapshotInv
    BY <1>2 DEF SnapshotInv, NoSnapshot
  <1> QED BY <1>6, <1>8, <1>9, <1>11, <1>12 DEF LedgerInv

LEMMA LedgerSteps == LedgerInv /\ [LedgerNext]_ledgerVars => LedgerInv'
  <1> SUFFICES ASSUME LedgerInv, [LedgerNext]_ledgerVars PROVE LedgerInv'
    OBVIOUS
  <1>1. ASSUME NEW pol \in Policies, Control(pol) PROVE LedgerInv'
    BY <1>1, ControlStep
  <1>2. ASSUME NEW r \in Requests, NEW e \in Events, NEW body \in Bodies, Arrive(r, e, body)
        PROVE LedgerInv'
    BY <1>2, ArriveStep
  <1>3. ASSUME NEW r \in Requests, RefuseKey(r) \/ Handle(r) PROVE LedgerInv'
    BY <1>3, HandlerStep, DecideStep DEF Handle
  <1>4. ASSUME NEW l \in Ledgers, Writer(l) PROVE LedgerInv'
    BY <1>4, TakeGroupStep, CommitGroupStep, FailGroupStep DEF Writer
  <1>5. ASSUME SnapshotBegin \/ SnapshotEffects \/ SnapshotOrders PROVE LedgerInv'
    BY <1>5, SnapshotStep
  <1>6. ASSUME ResetBegin \/ ResetStop \/ ResetOpen PROVE LedgerInv'
    BY <1>6, ResetStep
  <1>7. ASSUME CrashRestart PROVE LedgerInv'
    BY <1>7, CrashStep
  <1>8. ASSUME UNCHANGED ledgerVars PROVE LedgerInv'
    <2>1. /\ handler' = handler /\ mem' = mem /\ disk' = disk /\ torn' = torn /\ ledger' = ledger
          /\ queue' = queue /\ group' = group /\ snapshot' = snapshot
      BY <1>8 DEF ledgerVars
    <2>2. SnapshotInv'
      BY <2>1 DEF LedgerInv, SnapshotInv, Durable
    <2>3. \A l \in Ledgers, r \in Requests : Queued(l, Outcome(r))' => Queued(l, Outcome(r))
      BY <2>1, SameQueues
    <2> QED BY <2>1, <2>2, <2>3, LedgerIdleStep DEF LedgerInv, LedgerShape
  <1> QED BY <1>1, <1>2, <1>3, <1>4, <1>5, <1>6, <1>7, <1>8 DEF LedgerNext

(* server.py, for any requests, policies, failed commits, crashes and resets:  *)
(* whoever made an effect is told so only once it is committed, a success      *)
(* without a committed effect has a maker without an answer, an event has one  *)
(* effect, in the order's sequence, unless a crash met an order row behind its *)
(* effects, and a snapshot covers what was answered before it.                 *)
THEOREM LedgerCorrect == LedgerSpec => []LedgerHonest
  <1>1. LedgerInv => LedgerHonest
    <2> SUFFICES ASSUME LedgerInv PROVE LedgerHonest
      OBVIOUS
    <2>1. OwnSuccessDurable
      BY DEF OwnSuccessDurable, Accepted, LedgerInv, OwnInv
    <2>2. SuccessHasMaker
      <3> SUFFICES ASSUME NEW r \in Requests, Accepted(r),
                          ~Durable(handler[r].ledger, handler[r].event)
                   PROVE \E q \in Requests :
                           /\ handler[q].event = handler[r].event /\ handler[q].ledger = handler[r].ledger
                           /\ handler[q].index > 0 /\ ~Accepted(q)
        BY DEF SuccessHasMaker
      <3>1. Vouched(handler[r].ledger, handler[r].event)
        BY DEF Accepted, LedgerInv, VouchedInv
      <3>2. PICK q \in Requests : /\ handler[q].index > 0 /\ handler[q].event = handler[r].event
                                  /\ handler[q].ledger = handler[r].ledger
        BY <3>1 DEF Vouched
      <3>3. ~Accepted(q)
        BY <2>1, <3>2 DEF OwnSuccessDurable
      <3> QED BY <3>2, <3>3
    <2>3. EffectsOnceInOrder
      <3> SUFFICES ASSUME NEW l \in Ledgers \ torn, NEW x \in disk[l].effects, NEW y \in disk[l].effects
                   PROVE InOrder(x, y)
        BY DEF EffectsOnceInOrder, InOrder
      <3>1. x \in EffectRows /\ y \in EffectRows
        BY DEF LedgerInv, LedgerShape, DiskShape
      <3>2. IsRow(l, x) /\ IsRow(l, y)
        BY DEF IsRow
      <3> QED BY <3>1, <3>2 DEF LedgerInv, OrderInv
    <2>4. SnapshotCovers
      BY DEF SnapshotCovers, LedgerInv, SnapshotInv
    <2> QED BY <2>1, <2>2, <2>3, <2>4 DEF LedgerHonest
  <1> QED BY <1>1, LedgerStarts, LedgerSteps, PTL DEF LedgerSpec

-----------------------------------------------------------------------------
(* The mock partner API: types, and the ids of attempts                        *)

HandlerSteps == {"idle", "sleeping", "decided", "waiting", "written", "answered", "dropped",
                 "failed", "lost"}
LedgerTypes ==
  /\ reset \in {"idle", "barrier", "flushed", "stopping"} /\ controls \in Policies \cup {NoPolicy}
  /\ stopped = [l \in Ledgers |-> stopped[l]] /\ \A l \in Ledgers : stopped[l] = TRUE \/ stopped[l] = FALSE
  /\ \A r \in Requests : handler[r].step \in HandlerSteps /\ handler[r].status \in {0, 200, 400, 409, 503}

(* The id of a start that waits is in no way ahead of the next id: its request *)
(* came once, under the lock of the ledger that still holds the record.        *)
StartOf(r) == [kind |-> "start", by |-> r]
AttemptRow(x, m) ==
  x = [id |-> x.id, event |-> x.event, status |-> x.status] /\ x.id \in Nat /\ x.id < m.nextAttempt
AttemptInv ==
  /\ \A l \in Ledgers : /\ mem[l].nextAttempt \in Nat \ {0}
                        /\ \A x \in disk[l].attempts : AttemptRow(x, mem[l])
  /\ \A l \in Ledgers, r \in Requests :
       Queued(l, StartOf(r)) => /\ handler[r].step # "idle" /\ handler[r].attempt \in Nat
                              /\ handler[r].attempt < mem[l].nextAttempt

(* A request only goes forward: its attempt keeps its id until it is answered. *)
Forward ==
  \A q \in Requests :
    /\ handler'[q].attempt = handler[q].attempt \/ handler'[q].attempt = 0
    /\ handler'[q].step = handler[q].step \/ handler'[q].step \in HandlerSteps \ {"idle"}
    /\ handler'[q].status = handler[q].status \/ handler'[q].status \in {0, 200, 400, 409, 503}

(* The fields of a request under an update of one of them.                     *)
LEMMA OneField ==
  ASSUME NEW h, HandlerShape(h), NEW s
  PROVE /\ [h EXCEPT !.step = s].step = s /\ [h EXCEPT !.step = s].attempt = h.attempt
        /\ [h EXCEPT !.step = s].status = h.status
  BY DEF HandlerShape

LEMMA AnswerForward ==
  ASSUME LedgerShape, NEW r \in Requests, RefuseKey(r) \/ Decide(r) \/ Write(r) \/ Answer(r)
  PROVE Forward
  <1>1. HandlerShape(handler[r]) /\ handler = [q \in Requests |-> handler[q]]
    BY DEF LedgerShape
  <1>2. handler[r] = [step |-> handler[r].step, event |-> handler[r].event, body |-> handler[r].body,
                      ledger |-> handler[r].ledger, count |-> handler[r].count,
                      attempt |-> handler[r].attempt, policy |-> handler[r].policy,
                      status |-> handler[r].status, index |-> handler[r].index, dropped |-> handler[r].dropped]
    BY <1>1 DEF HandlerShape
  <1> DEFINE h == handler'[r]
  <1> SUFFICES /\ \A q \in Requests \ {r} : handler'[q] = handler[q]
               /\ h.attempt = handler[r].attempt \/ h.attempt = 0
               /\ h.step \in HandlerSteps \ {"idle"}
               /\ h.status = handler[r].status \/ h.status \in {0, 200, 400, 409, 503}
    BY DEF Forward
  <1>3. \A q \in Requests \ {r} : handler'[q] = handler[q]
    <2>1. CASE RefuseKey(r)
      BY <2>1, <1>1 DEF RefuseKey
    <2>2. CASE Decide(r)
      BY <2>2, <1>1 DEF Decide
    <2>3. CASE Write(r)
      BY <2>3, <1>1 DEF Write
    <2>4. CASE Answer(r)
      BY <2>4, <1>1 DEF Answer
    <2> QED BY <2>1, <2>2, <2>3, <2>4
  <1>4. CASE RefuseKey(r)
    <2> DEFINE g == [handler[r] EXCEPT !.step = "answered"]
    <2>1. h = [g EXCEPT !.status = 400]
      BY <1>1, <1>4 DEF RefuseKey
    <2>2. g = [step |-> "answered", event |-> handler[r].event, body |-> handler[r].body,
               ledger |-> handler[r].ledger, count |-> handler[r].count,
               attempt |-> handler[r].attempt, policy |-> handler[r].policy,
               status |-> handler[r].status, index |-> handler[r].index, dropped |-> handler[r].dropped]
      BY <1>2
    <2> HIDE DEF g, h
    <2>3. h.step = "answered" /\ h.attempt = handler[r].attempt /\ h.status = 400
      BY <2>1, <2>2
    <2> QED BY <1>3, <2>3 DEF HandlerSteps, h
  <1>5. CASE Decide(r)
    <2>1. h = [step |-> "decided", event |-> handler[r].event, body |-> handler[r].body,
               ledger |-> handler[r].ledger, count |-> 0,
               attempt |-> handler[r].attempt, policy |-> NoPolicy, status |-> Decision(r),
               index |-> IF Applies(r) THEN mem[handler[r].ledger].nextEffect ELSE 0,
               dropped |-> Decision(r) = 200 /\ handler[r].policy.drop /\ handler[r].count = 0]
      BY <1>1, <1>5 DEF Decide
    <2>2. Decision(r) \in {200, 409, 503}
      BY DEF Decision
    <2> HIDE DEF h
    <2>3. h.step = "decided" /\ h.attempt = handler[r].attempt /\ h.status = Decision(r)
      BY <2>1
    <2> QED BY <1>3, <2>2, <2>3 DEF HandlerSteps, h
  <1>6. CASE Write(r)
    <2>1. h = [handler[r] EXCEPT !.step = "waiting"]
      BY <1>1, <1>6 DEF Write
    <2> HIDE DEF h
    <2>2. h.step = "waiting" /\ h.attempt = handler[r].attempt /\ h.status = handler[r].status
      BY <1>2, <2>1
    <2> QED BY <1>3, <2>2 DEF HandlerSteps, h
  <1>7. CASE Answer(r)
    <2> DEFINE g == [handler[r] EXCEPT !.attempt = 0]
               s == IF handler[r].dropped THEN "dropped" ELSE "answered"
    <2>1. h = [g EXCEPT !.step = s] /\ s \in HandlerSteps \ {"idle"}
      BY <1>1, <1>7 DEF Answer, HandlerSteps
    <2>2. g = [step |-> handler[r].step, event |-> handler[r].event, body |-> handler[r].body,
               ledger |-> handler[r].ledger, count |-> handler[r].count,
               attempt |-> 0, policy |-> handler[r].policy,
               status |-> handler[r].status, index |-> handler[r].index, dropped |-> handler[r].dropped]
      BY <1>2
    <2> HIDE DEF g, h, s
    <2>3. h.step = s /\ h.attempt = 0 /\ h.status = handler[r].status
      BY <2>1, <2>2
    <2> QED BY <1>3, <2>1, <2>3 DEF h
  <1> QED BY <1>4, <1>5, <1>6, <1>7

LEMMA WakeForward ==
  ASSUME LedgerShape, NEW l \in Ledgers, NEW ok, Wake(l, ok)
  PROVE Forward /\ reset' \in {reset, "flushed", "idle"}
  <1> DEFINE waits(kind, who) == \E i \in DOMAIN group[l] : group[l][i] = [kind |-> kind, by |-> who]
             woken == IF ok THEN "written" ELSE "failed"
  <1>1. \A q \in Requests : handler'[q] = IF waits("outcome", q)
                                          THEN [handler[q] EXCEPT !.step = woken] ELSE handler[q]
    BY DEF Wake
  <1>2. reset' \in {reset, "flushed", "idle"}
    BY DEF Wake
  <1>3. woken \in HandlerSteps \ {"idle"}
    BY DEF HandlerSteps
  <1> HIDE DEF waits, woken
  <1>4. \A q \in Requests : HandlerShape(handler[q])
    BY DEF LedgerShape
  <1>5. ASSUME NEW q \in Requests
        PROVE /\ handler'[q].attempt = handler[q].attempt /\ handler'[q].status = handler[q].status
              /\ handler'[q].step = handler[q].step \/ handler'[q].step = woken
    <2>1. HandlerShape(handler[q])
      BY <1>4
    <2>2. CASE waits("outcome", q)
      <3>1. handler'[q] = [handler[q] EXCEPT !.step = woken]
        BY <1>1, <2>2
      <3> QED BY <2>1, <3>1, OneField
    <2>3. CASE ~waits("outcome", q)
      BY <1>1, <2>3
    <2> QED BY <2>2, <2>3
  <1> QED BY <1>2, <1>3, <1>5 DEF Forward

LEMMA CrashForward ==
  ASSUME LedgerShape, CrashRestart
  PROVE Forward
  <1>1. \A q \in Requests : handler'[q] = IF Active(q) THEN [handler[q] EXCEPT !.step = "lost"] ELSE handler[q]
    BY DEF CrashRestart
  <1>2. \A q \in Requests : HandlerShape(handler[q])
    BY DEF LedgerShape
  <1>3. ASSUME NEW q \in Requests
        PROVE /\ handler'[q].attempt = handler[q].attempt /\ handler'[q].status = handler[q].status
              /\ handler'[q].step = handler[q].step \/ handler'[q].step = "lost"
    <2>1. HandlerShape(handler[q])
      BY <1>2
    <2>2. CASE Active(q)
      <3>1. handler'[q] = [handler[q] EXCEPT !.step = "lost"]
        BY <1>1, <2>2
      <3> QED BY <2>1, <3>1, OneField
    <2>3. CASE ~Active(q)
      BY <1>1, <2>3
    <2> QED BY <2>2, <2>3
  <1> QED BY <1>3 DEF Forward, HandlerSteps

-----------------------------------------------------------------------------
LEMMA StartItems == \A r \in Requests : StartOf(r) \in LedgerItems
  BY DEF StartOf, LedgerItems

(* No id is given out or used.                                                 *)
LEMMA AttemptsKept ==
  ASSUME AttemptInv, Forward,
         \A l \in Ledgers : mem'[l].nextAttempt = mem[l].nextAttempt /\ disk'[l].attempts = disk[l].attempts,
         \A l \in Ledgers, r \in Requests : Queued(l, StartOf(r))' => Queued(l, StartOf(r))
  PROVE AttemptInv'
  <1>1. \A l \in Ledgers : /\ mem'[l].nextAttempt \in Nat \ {0}
                           /\ \A x \in disk'[l].attempts : AttemptRow(x, mem'[l])
    BY DEF AttemptInv, AttemptRow
  <1>2. ASSUME NEW l \in Ledgers, NEW r \in Requests, Queued(l, StartOf(r))'
        PROVE /\ handler'[r].step # "idle" /\ handler'[r].attempt \in Nat
              /\ handler'[r].attempt < mem'[l].nextAttempt
    <2>1. /\ handler[r].step # "idle" /\ handler[r].attempt \in Nat /\ mem[l].nextAttempt \in Nat \ {0}
          /\ handler[r].attempt < mem[l].nextAttempt
      BY <1>2 DEF AttemptInv
    <2>2. mem'[l].nextAttempt = mem[l].nextAttempt
      OBVIOUS
    <2>3. /\ handler'[r].attempt = handler[r].attempt \/ handler'[r].attempt = 0
          /\ handler'[r].step # "idle"
      BY <2>1 DEF Forward
    <2> QED BY <2>1, <2>2, <2>3
  <1> QED BY <1>1, <1>2 DEF AttemptInv, AttemptRow, StartOf

(* An arriving request takes the next id.                                      *)
LEMMA ArriveAttempt ==
  ASSUME LedgerInv, AttemptInv, NEW r \in Requests, NEW e \in Events, NEW body \in Bodies, Arrive(r, e, body)
  PROVE /\ AttemptInv'
        /\ \A q \in Requests : /\ handler'[q].step = handler[q].step \/ handler'[q].step = "sleeping"
                               /\ handler'[q].status = handler[q].status \/ handler'[q].status = 0
  <1> DEFINE m == mem[ledger]
             n == m.nextAttempt
             c == [m.counts EXCEPT ![e] = m.counts[e] + 1]
             m2 == [[m EXCEPT !.counts = c] EXCEPT !.nextAttempt = n + 1]
             h == [step |-> "sleeping", event |-> e, body |-> body, ledger |-> ledger,
                   count |-> m.counts[e], attempt |-> n, policy |-> controls, status |-> 0,
                   index |-> 0, dropped |-> FALSE]
  <1>1. /\ handler' = [handler EXCEPT ![r] = h] /\ mem' = [mem EXCEPT ![ledger] = m2]
        /\ disk' = disk /\ group' = group /\ Put(ledger, StartOf(r)) /\ handler[r].step = "idle"
    BY DEF Arrive, StartOf, Comes
  <1>2. /\ ledger \in Ledgers /\ handler = [q \in Requests |-> handler[q]]
        /\ mem = [l \in Ledgers |-> mem[l]] /\ MemShape(m) /\ queue \in [Ledgers -> Seq(LedgerItems)]
    BY DEF LedgerInv, LedgerShape
  <1>3. n \in Nat \ {0}
    BY <1>2 DEF AttemptInv
  <1>4. h.step = "sleeping" /\ h.attempt = n /\ h.status = 0
    OBVIOUS
  <1>5. m2.nextAttempt = n + 1
    <2>1. m = [effects |-> m.effects, orders |-> m.orders, counts |-> m.counts,
               nextAttempt |-> m.nextAttempt, nextEffect |-> m.nextEffect]
      BY <1>2 DEF MemShape
    <2> DEFINE a == [m EXCEPT !.counts = c]
    <2>2. a = [effects |-> m.effects, orders |-> m.orders, counts |-> c,
               nextAttempt |-> m.nextAttempt, nextEffect |-> m.nextEffect]
      <3> HIDE DEF m, c
      <3> QED BY <2>1 DEF m
    <2> HIDE DEF a, m, c
    <2> QED BY <2>2 DEF a
  <1> HIDE DEF h, m2
  <1>6. handler'[r] = h /\ \A q \in Requests : q # r => handler'[q] = handler[q]
    BY <1>1, <1>2
  <1>7. mem'[ledger].nextAttempt = n + 1 /\ \A l \in Ledgers : l # ledger => mem'[l] = mem[l]
    BY <1>1, <1>2, <1>5
  <1>8. \A l \in Ledgers : /\ mem[l].nextAttempt \in Nat \ {0} /\ mem'[l].nextAttempt \in Nat \ {0}
                           /\ mem[l].nextAttempt <= mem'[l].nextAttempt
    BY <1>3, <1>7 DEF AttemptInv
  <1>9. StartOf(r) \in LedgerItems /\ \A q \in Requests : StartOf(q) \in LedgerItems /\ (StartOf(q) = StartOf(r) => q = r)
    BY DEF StartOf, LedgerItems
  <1>10. \A k \in Ledgers, it \in LedgerItems : Queued(k, it)' <=> Queued(k, it) \/ (k = ledger /\ it = StartOf(r))
    <2> DEFINE it0 == StartOf(r)
    <2>1. it0 \in LedgerItems /\ Put(ledger, it0) /\ group' = group
      BY <1>1, <1>9
    <2> HIDE DEF it0
    <2>2. \A k \in Ledgers, it \in LedgerItems : Queued(k, it)' <=> Queued(k, it) \/ (k = ledger /\ it = it0)
      BY <1>2, <2>1, PutQueued
    <2> QED BY <2>2 DEF it0
  <1>11. ASSUME NEW l \in Ledgers, NEW x \in disk'[l].attempts PROVE AttemptRow(x, mem'[l])
    <2>1. AttemptRow(x, mem[l])
      BY <1>1, <1>11 DEF AttemptInv
    <2> QED BY <1>8, <2>1 DEF AttemptRow
  <1>12. ASSUME NEW l \in Ledgers, NEW q \in Requests, Queued(l, StartOf(q))'
         PROVE /\ handler'[q].step # "idle" /\ handler'[q].attempt \in Nat
               /\ handler'[q].attempt < mem'[l].nextAttempt
    <2>1. Queued(l, StartOf(q)) \/ (l = ledger /\ q = r)
      <3>1. Queued(l, StartOf(q)) \/ (l = ledger /\ StartOf(q) = StartOf(r))
        BY <1>9, <1>10, <1>12
      <3> QED BY <1>9, <3>1
    <2>2. CASE Queued(l, StartOf(q))
      <3>1. /\ handler[q].step # "idle" /\ handler[q].attempt \in Nat
            /\ handler[q].attempt < mem[l].nextAttempt
        BY <2>2 DEF AttemptInv
      <3>2. handler'[q] = handler[q]
        BY <1>1, <1>6, <3>1
      <3> QED BY <1>8, <3>1, <3>2
    <2>3. CASE l = ledger /\ q = r
      BY <1>3, <1>4, <1>6, <1>7, <2>3
    <2> QED BY <2>1, <2>2, <2>3
  <1>13. AttemptInv'
    BY <1>8, <1>11, <1>12 DEF AttemptInv, AttemptRow, StartOf
  <1> QED BY <1>4, <1>6, <1>13

(* A committed start has the id it waited with, and an ended one keeps it.     *)
LEMMA CommitAttempt ==
  ASSUME LedgerInv, AttemptInv, NEW l \in Ledgers, CommitGroup(l)
  PROVE AttemptInv'
  <1> DEFINE g == group[l]
             d == disk[l]
             outcomes == {i \in DOMAIN g : g[i].kind = "outcome"}
             started  == {[id |-> handler[g[i].by].attempt, event |-> handler[g[i].by].event, status |-> 0] :
                            i \in {j \in DOMAIN g : g[j].kind = "start"}}
             ends(x)  == {i \in outcomes : handler[g[i].by].attempt = x.id}
             ended(x) == IF ends(x) = {} THEN x
                         ELSE [x EXCEPT !.status = handler[g[Max(ends(x))].by].status]
  <1>1. /\ disk' = [disk EXCEPT ![l] = ExecuteBatch(d, g)] /\ Wake(l, TRUE) /\ mem' = mem /\ queue' = queue
        /\ group' = [group EXCEPT ![l] = <<>>]
    BY DEF CommitGroup
  <1>2. /\ LedgerShape /\ g \in Seq(LedgerItems) /\ disk = [k \in Ledgers |-> disk[k]]
        /\ DOMAIN g = 1 .. Len(g)
    BY DEF LedgerInv, LedgerShape
  <1>3. disk'[l].attempts = {ended(x) : x \in d.attempts \cup started}
    <2>1. disk'[l] = ExecuteBatch(d, g)
      BY <1>1, <1>2
    <2>2. ExecuteBatch(d, g).attempts = {ended(x) : x \in d.attempts \cup started}
      BY DEF ExecuteBatch
    <2> QED BY <2>1, <2>2
  <1>4. ASSUME NEW x \in started PROVE AttemptRow(x, mem[l])
    <2>1. PICK i \in DOMAIN g : /\ g[i].kind = "start"
                                /\ x = [id |-> handler[g[i].by].attempt, event |-> handler[g[i].by].event, status |-> 0]
      OBVIOUS
    <2>2. g[i] \in LedgerItems
      BY <1>2
    <2>3. g[i].by \in Requests /\ g[i] = StartOf(g[i].by)
      BY <2>1, <2>2 DEF LedgerItems, StartOf
    <2>4. Queued(l, StartOf(g[i].by))
      BY <1>2, <2>3 DEF Queued, Within
    <2>5. handler[g[i].by].attempt \in Nat /\ handler[g[i].by].attempt < mem[l].nextAttempt
      BY <2>3, <2>4 DEF AttemptInv
    <2> QED BY <2>1, <2>5 DEF AttemptRow
  <1>5. \A x \in d.attempts \cup started : AttemptRow(x, mem[l])
    BY <1>4 DEF AttemptInv
  <1>6. ASSUME NEW x, AttemptRow(x, mem[l]) PROVE AttemptRow(ended(x), mem[l])
    <2> DEFINE s == handler[g[Max(ends(x))].by].status
    <2>1. ended(x) = x \/ ended(x) = [x EXCEPT !.status = s]
      OBVIOUS
    <2> HIDE DEF ended, s
    <2>2. x = [id |-> x.id, event |-> x.event, status |-> x.status]
      BY <1>6 DEF AttemptRow
    <2>3. [x EXCEPT !.status = s] = [id |-> x.id, event |-> x.event, status |-> s]
      BY <2>2
    <2>4. CASE ended(x) = x
      BY <1>6, <2>4
    <2>5. CASE ended(x) = [id |-> x.id, event |-> x.event, status |-> s]
      BY <1>6, <2>5 DEF AttemptRow
    <2> QED BY <2>1, <2>3, <2>4, <2>5
  <1> HIDE DEF ended, started
  <1>7. ASSUME NEW k \in Ledgers, NEW x \in disk'[k].attempts PROVE AttemptRow(x, mem'[k])
    <2>1. CASE k = l
      <3>1. PICK y \in d.attempts \cup started : x = ended(y)
        BY <1>3, <2>1
      <3>2. AttemptRow(y, mem[l])
        BY <1>5
      <3> QED BY <1>1, <1>6, <2>1, <3>1, <3>2
    <2>2. CASE k # l
      <3>1. disk'[k] = disk[k]
        BY <1>1, <1>2, <2>2
      <3> QED BY <1>1, <3>1 DEF AttemptInv
    <2> QED BY <2>1, <2>2
  <1>8. Forward
    BY <1>1, <1>2, WakeForward
  <1>9. \A k \in Ledgers, r \in Requests : Queued(k, StartOf(r))' => Queued(k, StartOf(r))
    BY <1>1, <1>2, GroupDone
  <1>10. ASSUME NEW k \in Ledgers, NEW r \in Requests, Queued(k, StartOf(r))'
         PROVE /\ handler'[r].step # "idle" /\ handler'[r].attempt \in Nat
               /\ handler'[r].attempt < mem'[k].nextAttempt
    <2>1. /\ handler[r].step # "idle" /\ handler[r].attempt \in Nat /\ mem[k].nextAttempt \in Nat \ {0}
          /\ handler[r].attempt < mem[k].nextAttempt
      BY <1>9, <1>10 DEF AttemptInv
    <2>2. /\ handler'[r].attempt = handler[r].attempt \/ handler'[r].attempt = 0
          /\ handler'[r].step # "idle"
      BY <1>8, <2>1 DEF Forward
    <2> QED BY <1>1, <2>1, <2>2
  <1>11. \A k \in Ledgers : mem'[k].nextAttempt \in Nat \ {0}
    BY <1>1 DEF AttemptInv
  <1> QED BY <1>7, <1>10, <1>11 DEF AttemptInv, AttemptRow, StartOf

(* A restart counts on from the last committed id.                             *)
LEMMA LoadedAttempts ==
  ASSUME NEW d, NEW m, m.nextAttempt \in Nat, \A x \in d.attempts : AttemptRow(x, m)
  PROVE Load(d).nextAttempt \in Nat \ {0} /\ \A x \in d.attempts : AttemptRow(x, Load(d))
  <1> DEFINE ids == {x.id : x \in d.attempts}
             S == {0} \cup ids
  <1>1. \A x \in d.attempts : x.id \in Nat /\ x.id < m.nextAttempt
    BY DEF AttemptRow
  <1>2. S \in SUBSET Int /\ S \in SUBSET Nat /\ S \in SUBSET (0 .. m.nextAttempt) /\ S # {}
    BY <1>1
  <1>3. IsFiniteSet(S)
    <2>1. 0 \in Int /\ m.nextAttempt \in Int
      OBVIOUS
    <2> HIDE DEF S
    <2> QED BY <1>2, <2>1, FS_Interval, FS_Subset
  <1>4. Max(S) \in S /\ \A y \in S : Max(S) >= y
    <2> HIDE DEF S
    <2> QED BY <1>2, <1>3, LargestNumber
  <1>5. Load(d).nextAttempt = Max(S) + 1
    BY DEF Load
  <1>6. Max(S) \in Nat
    <2> HIDE DEF S
    <2> QED BY <1>2, <1>4
  <1>7. ASSUME NEW x \in d.attempts PROVE x.id <= Max(S)
    <2>1. x.id \in S /\ x.id \in Nat
      BY <1>1
    <2> HIDE DEF S
    <2>2. Max(S) >= x.id
      BY <1>4, <2>1
    <2> QED BY <1>6, <2>1, <2>2
  <1> HIDE DEF S
  <1>8. ASSUME NEW x \in d.attempts PROVE x.id < Load(d).nextAttempt
    BY <1>1, <1>5, <1>6, <1>7
  <1>9. \A x \in d.attempts : AttemptRow(x, Load(d))
    BY <1>8 DEF AttemptRow
  <1> QED BY <1>5, <1>6, <1>9

LEMMA AttemptSteps ==
  ASSUME LedgerInv, AttemptInv, [LedgerNext]_ledgerVars
  PROVE AttemptInv'
  <1>1. LedgerShape
    BY DEF LedgerInv
  <1>2. ASSUME Forward, mem' = mem, disk' = disk,
               \A l \in Ledgers, r \in Requests : Queued(l, StartOf(r))' => Queued(l, StartOf(r))
        PROVE AttemptInv'
    BY <1>2, AttemptsKept
  <1>3. ASSUME handler' = handler PROVE Forward
    BY <1>3 DEF Forward
  <1>4. ASSUME queue' = queue, group' = group
        PROVE \A l \in Ledgers, r \in Requests : Queued(l, StartOf(r))' => Queued(l, StartOf(r))
    BY <1>4 DEF Queued, Within, StartOf
  <1>5. ASSUME NEW l \in Ledgers, NEW item \in LedgerItems, item.kind # "start", Put(l, item), group' = group
        PROVE \A k \in Ledgers, r \in Requests : Queued(k, StartOf(r))' => Queued(k, StartOf(r))
    <2>1. \A r \in Requests : StartOf(r) \in LedgerItems /\ StartOf(r) # item
      BY <1>5 DEF StartOf, LedgerItems
    <2>2. \A k \in Ledgers, it \in LedgerItems : Queued(k, it)' <=> Queued(k, it) \/ (k = l /\ it = item)
      BY <1>1, <1>5, PutQueued DEF LedgerShape
    <2> QED BY <2>1, <2>2
  <1>6. ASSUME NEW r \in Requests, RefuseKey(r) \/ Decide(r) \/ Write(r) \/ Answer(r) PROVE AttemptInv'
    <2>1. Forward
      BY <1>1, <1>6, AnswerForward
    <2>2. disk' = disk /\ group' = group
      BY <1>6 DEF RefuseKey, Decide, Write, Answer
    <2>3. \A l \in Ledgers, q \in Requests : Queued(l, StartOf(q))' => Queued(l, StartOf(q))
      <3>1. CASE Write(r)
        <4> DEFINE item == Outcome(r)
        <4>1. /\ item \in LedgerItems /\ item.kind # "start" /\ Put(handler[r].ledger, item)
              /\ handler[r].ledger \in Ledgers
          BY <1>1, <3>1 DEF LedgerItems, Outcome, Write, LedgerShape, HandlerShape
        <4> HIDE DEF item
        <4> QED BY <1>5, <2>2, <4>1
      <3>2. CASE RefuseKey(r) \/ Decide(r) \/ Answer(r)
        <4>1. queue' = queue
          BY <3>2 DEF RefuseKey, Decide, Answer
        <4> QED BY <1>4, <2>2, <4>1
      <3> QED BY <1>6, <3>1, <3>2
    <2>4. \A l \in Ledgers : mem'[l].nextAttempt = mem[l].nextAttempt
      <3>1. CASE Decide(r)
        <4> DEFINE l == handler[r].ledger
                   m == mem[l]
                   e == handler[r].event
                   a == [m EXCEPT !.effects[e] = handler[r].body]
                   b == [a EXCEPT !.orders[OrderOf[e]] = SequenceOf[e]]
                   c == [b EXCEPT !.nextEffect = m.nextEffect + 1]
        <4>1. /\ l \in Ledgers /\ mem = [k \in Ledgers |-> mem[k]]
              /\ m = [effects |-> m.effects, orders |-> m.orders, counts |-> m.counts,
                      nextAttempt |-> m.nextAttempt, nextEffect |-> m.nextEffect]
          BY <1>1 DEF LedgerShape, HandlerShape, MemShape
        <4>2. mem' = mem \/ mem' = [mem EXCEPT ![l] = c]
          BY <3>1 DEF Decide
        <4>3. a.nextAttempt = m.nextAttempt /\ a = [effects |-> a.effects, orders |-> a.orders,
                 counts |-> a.counts, nextAttempt |-> a.nextAttempt, nextEffect |-> a.nextEffect]
          <5> HIDE DEF m, e
          <5> QED BY <4>1
        <4>4. b.nextAttempt = a.nextAttempt /\ b = [effects |-> b.effects, orders |-> b.orders,
                 counts |-> b.counts, nextAttempt |-> b.nextAttempt, nextEffect |-> b.nextEffect]
          <5> HIDE DEF a, e
          <5> QED BY <4>3
        <4>5. c.nextAttempt = b.nextAttempt
          <5> HIDE DEF b, m
          <5> QED BY <4>4
        <4>6. c.nextAttempt = mem[l].nextAttempt
          BY <4>3, <4>4, <4>5
        <4> HIDE DEF a, b, c, m, l
        <4> QED BY <4>1, <4>2, <4>6
      <3>2. CASE RefuseKey(r) \/ Write(r) \/ Answer(r)
        BY <3>2 DEF RefuseKey, Write, Answer
      <3> QED BY <1>6, <3>1, <3>2
    <2> QED BY <2>1, <2>2, <2>3, <2>4, AttemptsKept
  <1>7. ASSUME NEW l \in Ledgers, TakeGroup(l) PROVE AttemptInv'
    <2>1. handler' = handler /\ mem' = mem /\ disk' = disk
      BY <1>7 DEF TakeGroup
    <2>2. \A k \in Ledgers, it \in LedgerItems : Queued(k, it)' => Queued(k, it)
      BY <1>1, <1>7, TakeQueued DEF LedgerShape
    <2> QED BY <1>2, <1>3, <2>1, <2>2, StartItems
  <1>8. ASSUME NEW l \in Ledgers, FailGroup(l) PROVE AttemptInv'
    <2>1. mem' = mem /\ disk' = disk /\ queue' = queue /\ group' = [group EXCEPT ![l] = <<>>] /\ Wake(l, FALSE)
      BY <1>8 DEF FailGroup
    <2>2. Forward
      BY <1>1, <2>1, WakeForward
    <2>3. \A k \in Ledgers, r \in Requests : Queued(k, StartOf(r))' => Queued(k, StartOf(r))
      BY <1>1, <2>1, GroupDone
    <2> QED BY <1>2, <2>1, <2>2, <2>3
  <1>9. ASSUME SnapshotBegin \/ ResetBegin \/ ResetStop PROVE AttemptInv'
    <2>1. handler' = handler /\ mem' = mem /\ disk' = disk /\ group' = group /\ ledger \in Ledgers
      BY <1>1, <1>9 DEF SnapshotBegin, ResetBegin, ResetStop, LedgerShape
    <2>2. PICK item \in LedgerItems : item.kind # "start" /\ Put(ledger, item)
      <3>1. /\ [kind |-> "barrier", by |-> "snapshot"] \in LedgerItems
            /\ [kind |-> "barrier", by |-> "reset"] \in LedgerItems
            /\ [kind |-> "stop", by |-> "reset"] \in LedgerItems
        BY DEF LedgerItems
      <3> QED BY <1>9, <3>1 DEF SnapshotBegin, ResetBegin, ResetStop
    <2>3. \A k \in Ledgers, r \in Requests : Queued(k, StartOf(r))' => Queued(k, StartOf(r))
      BY <1>5, <2>1, <2>2
    <2> QED BY <1>2, <1>3, <2>1, <2>3
  <1>10. ASSUME handler' = handler, mem' = mem, disk' = disk, queue' = queue, group' = group PROVE AttemptInv'
    BY <1>2, <1>3, <1>4, <1>10
  <1>11. ASSUME CrashRestart PROVE AttemptInv'
    <2>1. /\ disk' = disk /\ mem' = [l \in Ledgers |-> Load(disk[l])]
          /\ queue' = [l \in Ledgers |-> <<>>] /\ group' = [l \in Ledgers |-> <<>>]
      BY <1>11 DEF CrashRestart
    <2>2. \A l \in Ledgers, r \in Requests : ~Queued(l, StartOf(r))'
      BY <2>1 DEF Queued, Within
    <2>3. ASSUME NEW l \in Ledgers
          PROVE /\ mem'[l].nextAttempt \in Nat \ {0}
                /\ \A x \in disk'[l].attempts : AttemptRow(x, mem'[l])
      <3>1. mem[l].nextAttempt \in Nat /\ \A x \in disk[l].attempts : AttemptRow(x, mem[l])
        BY DEF AttemptInv
      <3>2. Load(disk[l]).nextAttempt \in Nat \ {0} /\ \A x \in disk[l].attempts : AttemptRow(x, Load(disk[l]))
        BY <3>1, LoadedAttempts
      <3> QED BY <2>1, <3>2
    <2> QED BY <2>2, <2>3 DEF AttemptInv, AttemptRow, StartOf
  <1>12. ASSUME NEW pol \in Policies, Control(pol) PROVE AttemptInv'
    BY <1>10, <1>12 DEF Control
  <1>13. ASSUME SnapshotEffects \/ SnapshotOrders \/ ResetOpen \/ UNCHANGED ledgerVars PROVE AttemptInv'
    BY <1>10, <1>13 DEF SnapshotEffects, SnapshotOrders, ResetOpen, ledgerVars
  <1> QED BY <1>6, <1>7, <1>8, <1>9, <1>11, <1>12, <1>13, ArriveAttempt, CommitAttempt
         DEF LedgerNext, Handle, Writer

LEMMA LedgerTypeSteps ==
  ASSUME LedgerInv, AttemptInv, LedgerTypes, [LedgerNext]_ledgerVars
  PROVE LedgerTypes'
  <1> USE DEF LedgerTypes
  <1>1. LedgerShape
    BY DEF LedgerInv
  <1>2. ASSUME \A q \in Requests :
                 /\ handler'[q].step = handler[q].step \/ handler'[q].step \in HandlerSteps
                 /\ handler'[q].status = handler[q].status \/ handler'[q].status \in {0, 200, 400, 409, 503},
               stopped' = stopped, reset' \in {"idle", "barrier", "flushed", "stopping"},
               controls' \in Policies \cup {NoPolicy}
        PROVE LedgerTypes'
    BY <1>2
  <1>3. ASSUME NEW pol \in Policies, Control(pol) PROVE LedgerTypes'
    BY <1>2, <1>3 DEF Control
  <1>4. ASSUME NEW r \in Requests, NEW e \in Events, NEW body \in Bodies, Arrive(r, e, body)
        PROVE LedgerTypes'
    <2>1. \A q \in Requests : /\ handler'[q].step = handler[q].step \/ handler'[q].step = "sleeping"
                              /\ handler'[q].status = handler[q].status \/ handler'[q].status = 0
      BY <1>4, ArriveAttempt
    <2>2. stopped' = stopped /\ reset' = reset /\ controls' = controls
      BY <1>4 DEF Arrive
    <2>3. "sleeping" \in HandlerSteps
      BY DEF HandlerSteps
    <2> QED BY <1>2, <2>1, <2>2, <2>3
  <1>5. ASSUME NEW r \in Requests, RefuseKey(r) \/ Decide(r) \/ Write(r) \/ Answer(r) PROVE LedgerTypes'
    <2>1. Forward
      BY <1>1, <1>5, AnswerForward
    <2>2. stopped' = stopped /\ reset' = reset /\ controls' = controls
      BY <1>5 DEF RefuseKey, Decide, Write, Answer
    <2> QED BY <1>2, <2>1, <2>2 DEF Forward
  <1>6. ASSUME NEW l \in Ledgers, TakeGroup(l) PROVE LedgerTypes'
    <2>1. handler' = handler /\ reset' = reset /\ controls' = controls
      BY <1>6 DEF TakeGroup
    <2>2. stopped' = stopped \/ stopped' = [stopped EXCEPT ![l] = TRUE]
      BY <1>6 DEF TakeGroup
    <2>3. \A k \in Ledgers : stopped'[k] = TRUE \/ stopped'[k] = stopped[k]
      BY <2>2
    <2>4. stopped' = [k \in Ledgers |-> stopped'[k]]
      BY <2>2
    <2> QED BY <2>1, <2>3, <2>4
  <1>7. ASSUME NEW l \in Ledgers, CommitGroup(l) \/ FailGroup(l) PROVE LedgerTypes'
    <2>1. Forward /\ reset' \in {reset, "flushed", "idle"}
      <3>1. PICK ok \in BOOLEAN : Wake(l, ok)
        BY <1>7 DEF CommitGroup, FailGroup
      <3> QED BY <1>1, <3>1, WakeForward
    <2>2. stopped' = stopped /\ controls' = controls
      BY <1>7 DEF CommitGroup, FailGroup
    <2> QED BY <1>2, <2>1, <2>2 DEF Forward
  <1>8. ASSUME SnapshotBegin \/ SnapshotEffects \/ SnapshotOrders \/ ResetBegin \/ ResetStop \/ ResetOpen
               \/ UNCHANGED ledgerVars
        PROVE LedgerTypes'
    <2>1. handler' = handler /\ stopped' = stopped /\ controls' \in Policies \cup {NoPolicy}
      BY <1>8 DEF SnapshotBegin, SnapshotEffects, SnapshotOrders, ResetBegin, ResetStop, ResetOpen, ledgerVars
    <2>2. reset' \in {"idle", "barrier", "flushed", "stopping"}
      BY <1>8 DEF SnapshotBegin, SnapshotEffects, SnapshotOrders, ResetBegin, ResetStop, ResetOpen, ledgerVars
    <2> QED BY <2>1, <2>2
  <1>9. ASSUME CrashRestart PROVE LedgerTypes'
    <2>1. Forward
      BY <1>1, <1>9, CrashForward
    <2>2. stopped' = [l \in Ledgers |-> FALSE] /\ reset' = "idle" /\ controls' = NoPolicy
      BY <1>9 DEF CrashRestart
    <2>3. \A q \in Requests : handler'[q].step \in HandlerSteps /\ handler'[q].status \in {0, 200, 400, 409, 503}
      BY <2>1 DEF Forward
    <2>4. stopped' = [l \in Ledgers |-> stopped'[l]] /\ \A l \in Ledgers : stopped'[l] = TRUE \/ stopped'[l] = FALSE
      BY <2>2
    <2> QED BY <2>2, <2>3, <2>4
  <1> HIDE DEF LedgerTypes
  <1> QED BY <1>3, <1>4, <1>5, <1>6, <1>7, <1>8, <1>9 DEF LedgerNext, Handle, Writer

LEMMA AttemptsStart == LedgerInit => AttemptInv /\ LedgerTypes
  <1> SUFFICES ASSUME LedgerInit PROVE AttemptInv /\ LedgerTypes
    OBVIOUS
  <1> DEFINE m == Load(EmptyDisk)
             one == [nextAttempt |-> 1]
  <1>1. m.nextAttempt \in Nat \ {0}
    <2>1. one.nextAttempt \in Nat /\ \A x \in EmptyDisk.attempts : AttemptRow(x, one)
      BY DEF EmptyDisk
    <2> HIDE DEF one
    <2> QED BY <2>1, LoadedAttempts
  <1> HIDE DEF m
  <1>2. \A l \in Ledgers : mem[l] = m /\ disk[l].attempts = {} /\ queue[l] = <<>> /\ group[l] = <<>>
    BY DEF LedgerInit, EmptyDisk, m
  <1>3. \A l \in Ledgers, r \in Requests : ~Queued(l, StartOf(r))
    BY <1>2 DEF Queued, Within
  <1>4. AttemptInv
    BY <1>1, <1>2, <1>3 DEF AttemptInv
  <1>5. \A r \in Requests : handler[r].step = "idle" /\ handler[r].status = 0
    BY DEF LedgerInit, Idle
  <1>6. LedgerTypes
    BY <1>5 DEF LedgerInit, LedgerTypes, HandlerSteps
  <1> QED BY <1>4, <1>6

(* server.py gives out no id twice: whatever groups fail and however often it  *)
(* is restarted, no INSERT of a group meets a committed row of its own id.     *)
THEOREM LedgerTypesCorrect == LedgerSpec => []LedgerTypeOK
  <1> DEFINE Inv == LedgerInv /\ AttemptInv /\ LedgerTypes
  <1>1. LedgerInit => Inv
    BY LedgerStarts, AttemptsStart
  <1>2. Inv /\ [LedgerNext]_ledgerVars => Inv'
    BY LedgerSteps, AttemptSteps, LedgerTypeSteps
  <1>3. Inv => LedgerTypeOK
    <2> SUFFICES ASSUME Inv PROVE LedgerTypeOK
      OBVIOUS
    <2>1. ASSUME NEW l \in Ledgers
          PROVE /\ stopped[l] \in BOOLEAN /\ disk[l].orders \in [Orders -> Nat]
                /\ \A x \in disk[l].attempts : x.id < mem[l].nextAttempt
                /\ \A x \in disk[l].effects : x.index < mem[l].nextEffect
      <3>1. stopped[l] \in BOOLEAN
        BY DEF LedgerTypes
      <3>2. DiskShape(disk[l])
        BY DEF LedgerInv, LedgerShape
      <3>3. \A x \in disk[l].attempts : x.id < mem[l].nextAttempt
        BY DEF AttemptInv, AttemptRow
      <3>4. \A x \in disk[l].effects : x \in EffectRows /\ IsRow(l, x)
        BY <3>2 DEF DiskShape, IsRow
      <3>5. \A x \in disk[l].effects : x.index < mem[l].nextEffect
        BY <3>4 DEF LedgerInv, AheadInv
      <3> QED BY <3>1, <3>2, <3>3, <3>5 DEF DiskShape
    <2>2. ASSUME NEW r \in Requests
          PROVE /\ Active(r) \/ Settled(r) \/ handler[r].step = "idle"
                /\ handler[r].status \in {0, 200, 400, 409, 503}
      BY DEF LedgerTypes, HandlerSteps, Active, Settled
    <2> QED BY <2>1, <2>2 DEF LedgerTypeOK, LedgerTypes, LedgerInv, LedgerShape
  <1> QED BY <1>1, <1>2, <1>3, PTL DEF LedgerSpec
=============================================================================
