--------------------------- MODULE BudgetEvidence ---------------------------
(* The log of seller calls that runner.collect takes away from a run that is   *)
(* still going on, and what check.check concludes from it about the budgets.   *)
(* The services under test are free to call the seller as they like: the       *)
(* question is whether the verdict tells what they did.                        *)
EXTENDS Integers, Sequences, FiniteSets, FiniteSetsExt

CONSTANTS
  Operations, CalledOrders, Sellers,
  CalledOrderOf,  \* per event
  SellerOf,       \* per order
  GlobalLimit, SellerLimit, RetryLimit,
  Window,         \* ticks in the second of the retry budget
  MaxCalls,       \* bound: seller calls
  MaxTime,        \* bound: ticks of the clock
  Absent

ASSUME EvidenceAssumption ==
  /\ CalledOrderOf \in [Operations -> CalledOrders] /\ SellerOf \in [CalledOrders -> Sellers]
  /\ {GlobalLimit, SellerLimit, RetryLimit, MaxCalls, MaxTime} \subseteq Nat
  /\ Window \in Nat \ {0} /\ Absent \notin Nat /\ "all" \notin CalledOrders \cup Sellers

VARIABLES
  now,            \* the clock of the seller API, in ticks
  calls,          \* its table attempts: [event, start, end]
  collectedAt,    \* info['collectedAt']
  attemptsFile,   \* the attempts of mock.json, Absent when it could not be written
  collecting,     \* how far collect is: "no", "begun", "done"
  most, lasting, above
                  \* the truth: per group of calls the most in flight at once, the
                  \* most across a tick, and the ticks above the seller limit,
                  \* the latter two while collection had not begun

evidenceVars == <<now, calls, collectedAt, attemptsFile, collecting, most, lasting, above>>

Groups == {"all"} \cup CalledOrders \cup Sellers
InGroup(e, g) == g \in {"all", CalledOrderOf[e], SellerOf[CalledOrderOf[e]]}
InFlight(g)   == {i \in DOMAIN calls : calls[i].end = Absent /\ InGroup(calls[i].event, g)}

EvidenceInit ==
  /\ now = 0 /\ calls = <<>>
  /\ collectedAt = Absent /\ attemptsFile = Absent /\ collecting = "no"
  /\ most = [g \in Groups |-> 0] /\ lasting = most /\ above = most

-----------------------------------------------------------------------------
(* The services under test *)

(* A call of the seller API; nothing keeps a candidate within its limits here. *)
StartCall(e) ==
  /\ Len(calls) < MaxCalls /\ collecting # "done"
  /\ calls' = Append(calls, [event |-> e, start |-> now, end |-> Absent])
  /\ most' = [g \in Groups |-> IF InGroup(e, g)
                               THEN Max({most[g], Cardinality(InFlight(g)) + 1}) ELSE most[g]]
  /\ UNCHANGED <<now, collectedAt, attemptsFile, collecting, lasting, above>>

EndCall(i) ==
  /\ calls[i].end = Absent /\ collecting # "done"
  /\ calls' = [calls EXCEPT ![i].end = now]
  /\ UNCHANGED <<now, collectedAt, attemptsFile, collecting, most, lasting, above>>

(* Time passes, as time.time() of the seller API shows it.                     *)
ClockTick ==
  LET open(g) == Cardinality(InFlight(g)) IN
  /\ now < MaxTime /\ collecting # "done"
  /\ now' = now + 1
  /\ IF collecting = "no"
     THEN /\ lasting' = [g \in Groups |-> Max({lasting[g], open(g)})]
          /\ above' = [g \in Groups |-> IF open(g) > SellerLimit THEN above[g] + 1 ELSE above[g]]
     ELSE UNCHANGED <<lasting, above>>
  /\ UNCHANGED <<calls, collectedAt, attemptsFile, collecting, most>>

-----------------------------------------------------------------------------
(* Run.collect notes the time and asks for the snapshot; the services go on    *)
(* meanwhile. A snapshot that fails is noted in the timeline and left out.     *)
CollectBegin ==
  /\ collecting = "no"
  /\ collectedAt' = now /\ collecting' = "begun"
  /\ UNCHANGED <<now, calls, attemptsFile, most, lasting, above>>

CollectAttempts(readable) ==
  /\ collecting = "begun" /\ collecting' = "done"
  /\ attemptsFile' = IF readable THEN calls ELSE Absent
  /\ UNCHANGED <<now, calls, collectedAt, most, lasting, above>>

EvidenceNext ==
  \/ \E e \in Operations : StartCall(e)
  \/ \E i \in DOMAIN calls : EndCall(i)
  \/ ClockTick \/ CollectBegin
  \/ \E readable \in BOOLEAN : CollectAttempts(readable)

EvidenceSpec == EvidenceInit /\ [][EvidenceNext]_evidenceVars

-----------------------------------------------------------------------------
(* check.py *)

Attempts == IF attemptsFile = Absent THEN <<>> ELSE attemptsFile

(* A call without an end is taken to last until collection began.              *)
Interval(a) == <<a.start, IF a.end # Absent THEN a.end ELSE collectedAt>>

Rows(g) == {i \in DOMAIN Attempts : InGroup(Attempts[i].event, g)}
Intervals(g) == [i \in Rows(g) |-> Interval(Attempts[i])]

(* A faulty NotAfter: a start before an end of the same time.                  *)
NotAfterStartFirst(p, q) ==
  \/ p.time < q.time
  \/ p.time = q.time /\ p.delta > q.delta
  \/ p.time = q.time /\ p.delta = q.delta /\ p.of <= q.of

(* The order of the sorted points: an end at t before a start at t, and equal  *)
(* ones as they stand in the log.                                              *)
NotAfter(p, q) ==
  \/ p.time < q.time
  \/ p.time = q.time /\ p.delta < q.delta
  \/ p.time = q.time /\ p.delta = q.delta /\ p.of <= q.of

(* The points where an interval begins or ends.                                *)
StartPoint(intervals, k) == [time |-> intervals[k][1], delta |-> 1, of |-> k]
EndPoint(intervals, k)   == [time |-> intervals[k][2], delta |-> -1, of |-> k]
Points(intervals) == {StartPoint(intervals, k) : k \in DOMAIN intervals} \cup
                     {EndPoint(intervals, k) : k \in DOMAIN intervals}

(* "current" once the loop over the sorted points has passed p: the starts up  *)
(* to there less the ends.                                                     *)
Current(intervals, p) ==
  Cardinality({k \in DOMAIN intervals : NotAfter(StartPoint(intervals, k), p)}) -
  Cardinality({k \in DOMAIN intervals : NotAfter(EndPoint(intervals, k), p)})

max_overlap(intervals) == Max({0} \cup {Current(intervals, p) : p \in Points(intervals)})

(* The milliseconds between two neighbours in the sorted points, where the     *)
(* first leaves more than limit open.                                          *)
time_above(intervals, limit) ==
  LET points == Points(intervals)
      neighbours == {x \in points \X points :
                       /\ NotAfter(x[1], x[2]) /\ x[1] # x[2]
                       /\ \A r \in points : NotAfter(r, x[1]) \/ NotAfter(x[2], r)}
  IN Cardinality(UNION {x[1].time .. x[2].time - 1 :
                          x \in {y \in neighbours : Current(intervals, y[1]) > limit}})

(* From every time on, those that follow it in the sorted times; the window is *)
(* open at its end.                                                            *)
max_in_window(times, window) ==
  LET follows(j, i) == times[i] < times[j] \/ (times[i] = times[j] /\ i <= j)
  IN Max({0} \cup {Cardinality({j \in DOMAIN times : follows(j, i) /\ times[j] < times[i] + window})
                   : i \in DOMAIN times})

(* The attempts in the order check sorts them to, by their start: every        *)
(* attempt of an event but its first is a retry.                               *)
IsRetry(i) == \E j \in 1 .. i - 1 : Attempts[j].event = Attempts[i].event
Retries(s) == {i \in DOMAIN Attempts : InGroup(Attempts[i].event, s) /\ IsRetry(i)}
RetryTimes(s) == [i \in Retries(s) |-> Attempts[i].start]

BudgetPassed ==
  /\ max_overlap(Intervals("all")) <= GlobalLimit
  /\ \A s \in Sellers : max_overlap(Intervals(s)) <= SellerLimit
  /\ \A o \in CalledOrders : max_overlap(Intervals(o)) <= 1
  /\ \A s \in Sellers : max_in_window(RetryTimes(s), Window) <= RetryLimit

-----------------------------------------------------------------------------
(* verify_budgets.py, the second reading of the same log *)

(* Here a call without an end ends where it starts.                            *)
AuditPeak(g) ==
  max_overlap([i \in Rows(g) |->
    <<Attempts[i].start, IF Attempts[i].end # Absent THEN Attempts[i].end ELSE Attempts[i].start>>])

(* The window looks back from each retry instead of ahead.                     *)
AuditRetryPeak(times, window) ==
  Max({0} \cup {Cardinality({j \in DOMAIN times : times[v] - window < times[j] /\ times[j] <= times[v]})
                : v \in DOMAIN times})

-----------------------------------------------------------------------------
(* Types; and the attempts stand in the order of their starts, which the       *)
(* retry count of check.py takes from its sort.                                *)
EvidenceTypeOK ==
  /\ now \in 0 .. MaxTime /\ collecting \in {"no", "begun", "done"}
  /\ \A i, j \in DOMAIN calls : i < j => calls[i].start <= calls[j].start
  /\ \A g \in Groups : lasting[g] <= most[g]

(* No budget is reported as exceeded that was not: the peak max_overlap finds  *)
(* in whole milliseconds, with calls that have no end yet, is never above what *)
(* was really in flight at once.                                               *)
NoPeakInvented ==
  collecting = "done" => \A g \in Groups : max_overlap(Intervals(g)) <= most[g]

(* No excess that lasted is overlooked: what was in flight across a tick       *)
(* before collection began is in the peak, every tick above the limit is in    *)
(* sellerOverLimitMs, and the verdict tells, although collection stops no call.*)
LastingExcessSeen ==
  collecting = "done" /\ attemptsFile # Absent =>
    /\ \A g \in Groups : /\ max_overlap(Intervals(g)) >= lasting[g]
                         /\ time_above(Intervals(g), SellerLimit) >= above[g]
    /\ BudgetPassed => /\ lasting["all"] <= GlobalLimit
                       /\ \A s \in Sellers : lasting[s] <= SellerLimit
                       /\ \A o \in CalledOrders : lasting[o] <= 1

(* The retry peak is the largest number of retries in any half-open window of  *)
(* one second, wherever it begins, and looking back finds the same.            *)
RetryPeakExact ==
  collecting = "done" =>
    \A s \in Sellers :
      LET peak == max_in_window(RetryTimes(s), Window)
      IN /\ peak = Max({Cardinality({i \in Retries(s) : Attempts[i].start \in t .. t + Window - 1})
                        : t \in 0 .. MaxTime})
         /\ peak = AuditRetryPeak(RetryTimes(s), Window)

(* The two readings of one log: the audit never reports a higher peak than the *)
(* check, and they differ only through calls that have no end in the log.      *)
AuditAgrees ==
  collecting = "done" =>
    \A g \in Groups :
      /\ AuditPeak(g) <= most[g]
      /\ (\A i \in DOMAIN Attempts : Attempts[i].end # Absent)
           => AuditPeak(g) = max_overlap(Intervals(g))

(* The budget verdict and its audit tell what the calls did.                   *)
PeaksTrue == NoPeakInvented /\ LastingExcessSeen /\ RetryPeakExact /\ AuditAgrees
=============================================================================
