--------------------------- MODULE EffectEvidence ---------------------------
(* What two checkers conclude about the effects of one order: checker.check,   *)
(* from the tables run.py reads once the business database looks complete, and *)
(* the safety verdict of isolation/check.py, from the seller's tables and the  *)
(* traces of several instances. The services under test may do anything wrong: *)
(* call out of order, with another payload, for an event nobody planned, or    *)
(* record under a claim that was taken over. They go on while the tables are   *)
(* read. The question is whether the verdicts tell what they did.              *)
EXTENDS Integers, Sequences, FiniteSets

CONSTANTS
  LastSequence,   \* operations of the order, numbered by their sequence
  Bounds,         \* bound: how often each operation is claimed, one of these
  MaxTicks,       \* bound: ticks of the clock the instances trace with
  NoTrace

ASSUME EffectAssumption ==
  /\ LastSequence \in Nat \ {0} /\ MaxTicks \in Nat /\ NoTrace \notin Nat
  /\ Bounds \subseteq [1 .. LastSequence -> Nat]

VARIABLES
  upTo,           \* the operations 1 .. upTo are planned
  bound,          \* of Bounds
  ticks,
  sellerLog,      \* the seller's table effects, in the order of effect_index
  conflicts,      \* operations with an attempt of status 409
  generation,     \* per operation: the newest claim of its inbox row
  called,         \* per operation and claim: the payload the seller accepted
  recorded,       \* per operation: partner_effect, with the claim it was made under
  orderRow,       \* partner_order
  claimTrace,     \* per operation and claim: the time of its trace "claimed"
  commitTrace,    \* per operation: the time of its trace "business_commit"
  reading,        \* which table is read next
  files,          \* what was read
  wrong, stale, overtaken
                  \* the truth: which kinds of error were made; operations recorded
                  \* under an old claim; those whose newer claim was traced in an
                  \* earlier tick, recorded before anything was read

serviceVars == <<sellerLog, conflicts, generation, called, recorded, orderRow, claimTrace,
                 commitTrace, wrong, stale, overtaken>>
effectVars  == <<upTo, bound, ticks, serviceVars, reading, files>>

Numbers   == 1 .. LastSequence
Claims(o) == 1 .. bound[o]
Generations == UNION {Claims(o) : o \in Numbers}
NoRow     == [o |-> 0, body |-> "none", by |-> 0]
NoFiles   == [waited |-> FALSE, log |-> <<>>, conflicts |-> {}, effects |-> {},
              order |-> NoRow, logs |-> {}, traces |-> {}, wrong |-> {}]

EffectStart(s) ==
  /\ ticks = 0
  /\ sellerLog = <<>> /\ conflicts = {}
  /\ generation = [o \in Numbers |-> 0] /\ called = [o \in Numbers |-> [g \in Claims(o) |-> "none"]]
  /\ recorded = [o \in Numbers |-> NoRow] /\ orderRow = NoRow
  /\ claimTrace = [o \in Numbers |-> [g \in Claims(o) |-> NoTrace]]
  /\ commitTrace = [o \in Numbers |-> NoTrace]
  /\ reading = s /\ files = NoFiles /\ wrong = {} /\ stale = {} /\ overtaken = {}
EffectInit == upTo \in Numbers /\ bound \in Bounds /\ EffectStart("seller")

-----------------------------------------------------------------------------
(* The services under test *)

(* dispatch: the claim is committed, and traced by the same thread before the  *)
(* worker begins. A delivered row is not claimed again.                        *)
TakeClaim(o) ==
  /\ recorded[o] = NoRow /\ generation[o] < bound[o]
  /\ generation' = [generation EXCEPT ![o] = @ + 1]
  /\ UNCHANGED <<upTo, bound, ticks, sellerLog, conflicts, called, recorded, orderRow, claimTrace,
                 commitTrace, reading, files, wrong, stale, overtaken>>

TraceClaim(o, g) ==
  /\ g <= generation[o] /\ claimTrace[o][g] = NoTrace
  /\ claimTrace' = [claimTrace EXCEPT ![o][g] = ticks]
  /\ UNCHANGED <<upTo, bound, ticks, sellerLog, conflicts, generation, called, recorded, orderRow,
                 commitTrace, reading, files, wrong, stale, overtaken>>

(* POST /orders: a known event must have its first payload, a new one must be  *)
(* the next of its order.                                                      *)
SellerTakes(o, body) ==
  IF o <= Len(sellerLog) THEN sellerLog[o].body = body ELSE o = Len(sellerLog) + 1

CallSeller(o, g, body) ==
  LET row == [o |-> o, body |-> body, by |-> 0] IN
  /\ claimTrace[o][g] # NoTrace /\ called[o][g] = "none"
  /\ IF SellerTakes(o, body)
     THEN /\ called' = [called EXCEPT ![o][g] = body]
          /\ sellerLog' = IF o > Len(sellerLog) THEN Append(sellerLog, row) ELSE sellerLog
          /\ UNCHANGED conflicts
     ELSE /\ called' = [called EXCEPT ![o][g] = "refused"]
          /\ conflicts' = conflicts \cup {o}
          /\ UNCHANGED sellerLog
  /\ wrong' = IF o > upTo \/ body # "planned" \/ o > Len(sellerLog) + 1
              THEN wrong \cup {"call"} ELSE wrong
  /\ UNCHANGED <<upTo, bound, ticks, generation, recorded, orderRow, claimTrace, commitTrace, reading,
                 files, stale, overtaken>>

(* recordDelivery after the call: one row per event, the order's row replaced. *)
RecordDelivery(o, g) ==
  LET row == [o |-> o, body |-> called[o][g], by |-> g] IN
  /\ called[o][g] \in {"planned", "other"} /\ recorded[o] = NoRow
  /\ recorded' = [recorded EXCEPT ![o] = row] /\ orderRow' = row
  /\ wrong' = IF o > upTo \/ \E q \in 1 .. o - 1 : recorded[q] = NoRow
              THEN wrong \cup {"record"} ELSE wrong
  /\ stale' = IF g < generation[o] THEN stale \cup {o} ELSE stale
  /\ overtaken' = IF reading = "seller"
                     /\ \E h \in Claims(o) : h > g /\ claimTrace[o][h] \in 0 .. ticks - 1
                  THEN overtaken \cup {o} ELSE overtaken
  /\ UNCHANGED <<upTo, bound, ticks, sellerLog, conflicts, generation, called, claimTrace, commitTrace,
                 reading, files>>

TraceCommit(o) ==
  /\ recorded[o] # NoRow /\ commitTrace[o] = NoTrace
  /\ commitTrace' = [commitTrace EXCEPT ![o] = ticks]
  /\ UNCHANGED <<upTo, bound, ticks, sellerLog, conflicts, generation, called, recorded, orderRow,
                 claimTrace, reading, files, wrong, stale, overtaken>>

TraceTick ==
  /\ ticks < MaxTicks /\ ticks' = ticks + 1
  /\ UNCHANGED <<upTo, bound, serviceVars, reading, files>>

-----------------------------------------------------------------------------
(* The tables are read one after the other: by run.py the seller's, then the   *)
(* business effects and orders; by the isolation runner the seller's, then the *)
(* logs of the instances.                                                      *)

(* A faulty ReadSeller: run.py does not wait for the business effects.         *)
ReadSellerAtOnce(waits) ==
  /\ reading = "seller" /\ reading' = IF waits THEN "effects" ELSE "logs"
  /\ files' = [files EXCEPT !.waited = waits, !.log = sellerLog,
                            !.conflicts = conflicts, !.wrong = wrong]
  /\ UNCHANGED <<upTo, bound, ticks, serviceVars>>

(* GET /snapshot. run.py waits until the business database has as many effects *)
(* as were planned; runner.collect does not wait.                              *)
ReadSeller(waits) ==
  /\ reading = "seller" /\ reading' = IF waits THEN "effects" ELSE "logs"
  /\ waits => Cardinality({o \in Numbers : recorded[o] # NoRow}) = upTo
  /\ files' = [files EXCEPT !.waited = waits, !.log = sellerLog,
                            !.conflicts = conflicts, !.wrong = wrong]
  /\ UNCHANGED <<upTo, bound, ticks, serviceVars>>

ReadEffects ==
  /\ reading = "effects" /\ reading' = "orders"
  /\ files' = [files EXCEPT !.effects = {recorded[o] : o \in Numbers} \ {NoRow}]
  /\ UNCHANGED <<upTo, bound, ticks, serviceVars>>

ReadOrders ==
  /\ reading = "orders" /\ reading' = "done"
  /\ files' = [files EXCEPT !.order = orderRow]
  /\ UNCHANGED <<upTo, bound, ticks, serviceVars>>

(* The logs of the instances are copied one after the other. The claims g of   *)
(* all operations stand for one instance; the logs come in any order.          *)
ReadLog(g) ==
  LET log == {[o |-> o, by |-> g, claim |-> claimTrace[o][g],
               commit |-> IF recorded[o].by = g THEN commitTrace[o] ELSE NoTrace] :
                o \in {q \in Numbers : g \in Claims(q)}}
  IN /\ reading = "logs" /\ g \notin files.logs
     /\ reading' = IF files.logs \cup {g} = Generations THEN "done" ELSE "logs"
     /\ files' = [files EXCEPT !.logs = @ \cup {g}, !.traces = @ \cup log]
     /\ UNCHANGED <<upTo, bound, ticks, serviceVars>>

ServiceStep ==
  \E o \in Numbers :
    \/ TakeClaim(o) \/ TraceCommit(o)
    \/ \E g \in Claims(o) : \/ TraceClaim(o, g) \/ RecordDelivery(o, g)
                            \/ \E body \in {"planned", "other"} : CallSeller(o, g, body)

EffectNext ==
  \/ reading # "done" /\ (ServiceStep \/ TraceTick)
  \/ \E waits \in BOOLEAN : ReadSeller(waits)
  \/ ReadEffects \/ ReadOrders
  \/ \E g \in Generations : ReadLog(g)

EffectSpec == EffectInit /\ [][EffectNext]_effectVars

-----------------------------------------------------------------------------
(* checker.py *)

RowsOf(o) == {k \in DOMAIN files.log : files.log[k].o = o}

CheckerPassed ==
  LET log == files.log IN
  /\ \A o \in 1 .. upTo : Cardinality(RowsOf(o)) = 1
  /\ \A k \in DOMAIN log : log[k].o <= upTo /\ log[k].body = "planned" /\ log[k].o = k
  /\ {row.o : row \in files.effects} = 1 .. upTo
  /\ \A row \in files.effects : row.body = "planned"
  /\ \A last \in {log[Len(log)], files.order} : last.o = upTo /\ last.body = "planned"
  /\ files.conflicts = {}

-----------------------------------------------------------------------------
(* isolation/check.py *)

Committed == {t \in files.traces : t.commit # NoTrace}
Claimed   == {t \in files.traces : t.claim # NoTrace}

(* A faulty StaleWrites: any other claim counts, an older one too.             *)
StaleWritesAny ==
  {t \in Committed : \E n \in Claimed : n.o = t.o /\ n.by # t.by /\ n.claim < t.commit}

(* Deliveries recorded under an older claim after a newer one existed, by the  *)
(* times of the traces.                                                        *)
StaleWrites ==
  {t \in Committed : \E n \in Claimed : n.o = t.o /\ n.by > t.by /\ n.claim < t.commit}

SafetyPassed ==
  LET log == files.log IN
  /\ \A o \in Numbers : Cardinality(RowsOf(o)) <= 1
  /\ \A k \in DOMAIN log : log[k].o <= upTo /\ log[k].body = "planned" /\ log[k].o = k
  /\ files.conflicts = {} /\ StaleWrites = {}

-----------------------------------------------------------------------------
(* Types; and a delivery is recorded only under a claim whose call the seller  *)
(* accepted, and traced only when it is recorded.                              *)
EffectTypeOK ==
  /\ upTo \in Numbers /\ ticks \in 0 .. MaxTicks /\ conflicts \subseteq Numbers
  /\ overtaken \subseteq stale /\ wrong \subseteq {"call", "record"}
  /\ reading \in {"seller", "effects", "orders", "logs", "done"}
  /\ \A o \in Numbers :
       /\ recorded[o] # NoRow => called[o][recorded[o].by] = recorded[o].body
       /\ commitTrace[o] # NoTrace => recorded[o] # NoRow

(* checker.check on what run.py reads after its wait: a passed case had no     *)
(* wrong call before the seller was read, and a case without any error passes, *)
(* although retries and takeovers go on between the reads.                     *)
CheckerTrue ==
  reading = "done" /\ files.waited =>
    /\ CheckerPassed => "call" \notin files.wrong
    /\ wrong = {} => CheckerPassed

(* The safety verdict on what the isolation runner collects: passed means no   *)
(* wrong call and, of the deliveries recorded before collection began, no      *)
(* traced one under a claim whose successor was traced in an earlier tick;     *)
(* right calls under current claims always pass, however late the traces of    *)
(* the other instances come and in whatever order their logs are copied.       *)
SafetyTrue ==
  reading = "done" /\ ~files.waited =>
    /\ SafetyPassed => /\ "call" \notin files.wrong
                       /\ overtaken \cap {t.o : t \in Committed} = {}
    /\ "call" \notin wrong /\ stale = {} => SafetyPassed

(* The verdicts on the effects of an order are true.                           *)
EffectVerdictsTrue == CheckerTrue /\ SafetyTrue
=============================================================================
