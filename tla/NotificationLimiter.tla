------------------------- MODULE NotificationLimiter -------------------------
(* NotificationDispatchLimiter.acquire, called by the listener threads of the  *)
(* realtime and the bulk lane: one step per read or write of the two atomics   *)
(* the lanes share.                                                            *)
EXTENDS Integers, FiniteSets

CONSTANTS
  Realtime,   \* listener threads of the realtime lane
  Bulk,       \* listener threads of the bulk lane
  Interval,   \* intervalNanos: one second over the dispatch rate, in ticks
  MaxTime     \* bound: how long the clock runs

ASSUME LimiterAssumption ==
  /\ Interval \in Nat \ {0}
  /\ MaxTime \in Nat
  /\ Realtime \cap Bulk = {} /\ IsFiniteSet(Realtime) /\ IsFiniteSet(Bulk)

Threads == Realtime \cup Bulk

VARIABLES
  now,          \* System.nanoTime()
  nextSlot,     \* nextSlotNanos
  waiters,      \* realtimeWaiters
  pc,           \* per thread: where it is in acquire
  current,      \* per thread: the local "current"
  reserved,     \* per thread: the local "reserved"
  overtaken     \* per realtime thread: the bulk reservations since it registered
                \* (only for the property)

limiterVars == <<now, nextSlot, waiters, pc, current, reserved, overtaken>>

(* Types; and realtimeWaiters counts exactly the realtime threads between      *)
(* their registration and their slot, or bulk would be held up for good.       *)
LimiterTypeOK ==
  /\ now \in 0 .. MaxTime
  /\ nextSlot \in Nat
  /\ waiters = Cardinality({t \in Realtime : pc[t] # "idle"})
  /\ pc \in [Threads -> {"idle", "check", "read", "cas", "wait"}]
  /\ current \in [Threads -> Nat]
  /\ reserved \in [Threads -> Nat]
  /\ overtaken \in [Realtime -> Nat]

LimiterInit ==
  /\ now = 0 /\ nextSlot = 0 /\ waiters = 0
  /\ pc = [t \in Threads |-> "idle"]
  /\ current = [t \in Threads |-> 0]
  /\ reserved = [t \in Threads |-> 0]
  /\ overtaken = [t \in Realtime |-> 0]

(* A realtime request registers as a waiter before anything else.              *)
AcquireRealtime(t) ==
  /\ pc[t] = "idle"
  /\ waiters' = waiters + 1
  /\ pc' = [pc EXCEPT ![t] = "read"]
  /\ overtaken' = [overtaken EXCEPT ![t] = 0]
  /\ UNCHANGED <<now, nextSlot, current, reserved>>

AcquireBulk(t) ==
  /\ pc[t] = "idle"
  /\ pc' = [pc EXCEPT ![t] = "check"]
  /\ UNCHANGED <<now, nextSlot, waiters, current, reserved, overtaken>>

(* A faulty CheckWaiters: bulk does not give way.                              *)
CheckWaitersNever(t) ==
  /\ pc[t] = "check"
  /\ pc' = [pc EXCEPT ![t] = "read"]
  /\ UNCHANGED <<now, nextSlot, waiters, current, reserved, overtaken>>

(* Bulk parks while a realtime request waits.                                  *)
CheckWaiters(t) ==
  /\ pc[t] = "check" /\ waiters = 0
  /\ pc' = [pc EXCEPT ![t] = "read"]
  /\ UNCHANGED <<now, nextSlot, waiters, current, reserved, overtaken>>

(* Read the next slot and the clock.                                           *)
ReadSlot(t) ==
  /\ pc[t] = "read"
  /\ current' = [current EXCEPT ![t] = nextSlot]
  /\ reserved' = [reserved EXCEPT ![t] = IF nextSlot > now THEN nextSlot ELSE now]
  /\ pc' = [pc EXCEPT ![t] = "cas"]
  /\ UNCHANGED <<now, nextSlot, waiters, overtaken>>

Overtake(t) ==
  overtaken' = [u \in Realtime |-> IF t \in Bulk /\ pc[u] \in {"read", "cas"}
                                   THEN overtaken[u] + 1 ELSE overtaken[u]]

(* A faulty ReserveSlot: set instead of compareAndSet.                         *)
ReserveSlotSet(t) ==
  /\ pc[t] = "cas"
  /\ nextSlot' = reserved[t] + Interval
  /\ pc' = [pc EXCEPT ![t] = "wait"]
  /\ Overtake(t)
  /\ UNCHANGED <<now, waiters, current, reserved>>

(* compareAndSet: reserve the slot, or start over if another thread was faster.*)
ReserveSlot(t) ==
  /\ pc[t] = "cas"
  /\ IF nextSlot = current[t]
     THEN /\ nextSlot' = reserved[t] + Interval
          /\ pc' = [pc EXCEPT ![t] = "wait"]
          /\ Overtake(t)
     ELSE /\ pc' = [pc EXCEPT ![t] = "read"]
          /\ UNCHANGED <<nextSlot, overtaken>>
  /\ UNCHANGED <<now, waiters, current, reserved>>

(* A faulty Dispatch: the realtime waiter is not counted down.                 *)
DispatchStillWaiting(t) ==
  /\ pc[t] = "wait" /\ now >= reserved[t]
  /\ pc' = [pc EXCEPT ![t] = "idle"]
  /\ UNCHANGED <<waiters, now, nextSlot, current, reserved, overtaken>>

(* The slot has come: acquire returns and the notification is sent.            *)
Dispatch(t) ==
  /\ pc[t] = "wait" /\ now >= reserved[t]
  /\ pc' = [pc EXCEPT ![t] = "idle"]
  /\ waiters' = IF t \in Realtime THEN waiters - 1 ELSE waiters
  /\ UNCHANGED <<now, nextSlot, current, reserved, overtaken>>

Tick == /\ now < MaxTime
        /\ now' = now + 1
        /\ UNCHANGED <<nextSlot, waiters, pc, current, reserved, overtaken>>

(* Requests arrive while there is time left to serve them.                     *)
LimiterNext ==
  \/ \E t \in Realtime : AcquireRealtime(t)
  \/ \E t \in Bulk : AcquireBulk(t) \/ CheckWaiters(t)
  \/ \E t \in Threads : ReadSlot(t) \/ ReserveSlot(t) \/ Dispatch(t)
  \/ Tick

LimiterSpec == LimiterInit /\ [][LimiterNext]_limiterVars

-----------------------------------------------------------------------------
(* Properties *)

(* "All lanes share the capacity of the provider": slots handed out are at     *)
(* least one interval apart, whichever threads of whichever lane race for      *)
(* them, and none is handed out twice.                                         *)
SlotsApart ==
  \A t, u \in Threads :
    pc[t] = "wait" =>
      /\ reserved[t] + Interval <= nextSlot
      /\ t # u /\ pc[u] = "wait" =>
           reserved[t] + Interval <= reserved[u] \/ reserved[u] + Interval <= reserved[t]

(* "While a realtime request waits, bulk cannot reserve the next slot first",  *)
(* as far as the code keeps it: a realtime request is overtaken by no more     *)
(* bulk requests than were past their check of the waiters when it registered, *)
(* at most one per bulk thread; the window does not repeat.                    *)
OvertakenOnce == \A t \in Realtime : overtaken[t] <= Cardinality(Bulk)
=============================================================================
