--------------------------- MODULE ObserverAlert ---------------------------
(* The delivery alert: the source's backlog snapshot, refreshed every second,  *)
(* isolation/observer.py, which samples it every second and judges the alert,  *)
(* and the observability verdict check.py draws from the samples and from the  *)
(* truth it rebuilds afterwards. Times are ages in whole seconds.              *)
EXTENDS Integers

CONSTANTS
  Stale,        \* STALE_MS, in seconds
  Grace         \* GRACE_MS, in seconds

(* Both are three seconds in the code. An alert may be late by the age of a    *)
(* snapshot, so a shorter grace would count alerts as missed that are not.     *)
ASSUME ObserverAssumption == Stale \in Nat \ {0} /\ Grace \in Nat /\ Stale <= Grace

VARIABLES
  overdue,          \* the truth: an accepted operation is past its target
  unresolved,       \* the source has one unresolved past its target
  backlog,          \* DeliveryBacklogMonitor.latest: [age, overdue]
  refreshing,       \* FALSE while the source's refresh is paused or stuck
  previousOverdue, previousState,
                    \* the two variables of the observer's loop
  sampled,          \* this second has its sample
  episode,          \* check.py: age of the episode at the last sample, -1 for none
  missed,           \* missedMs > 0
  quiet,            \* seconds since unresolved was last seen true
  disturbed         \* since the episode began a second went without a sample, the
                    \* truth went away between two samples, or a refresh came
                    \* STALE_MS or more after the one before it
                    \* (the last two only for the properties)

observerVars == <<overdue, unresolved, backlog, refreshing, previousOverdue, previousState,
                  sampled, episode, missed, quiet, disturbed>>
judgeVars == <<episode, missed>>
loopVars  == <<previousOverdue, previousState, sampled>>

Capped(n, cap) == IF n < cap THEN n + 1 ELSE cap

ObserverInit ==
  /\ overdue = FALSE /\ unresolved = FALSE
  /\ backlog = [age |-> 0, overdue |-> FALSE] /\ refreshing = TRUE
  /\ previousOverdue = FALSE /\ previousState = "none" /\ sampled = FALSE
  /\ episode = -1 /\ missed = FALSE
  /\ quiet = Stale + 1 /\ disturbed = FALSE

-----------------------------------------------------------------------------
(* The source: an operation passes its target, is delivered, and resolved when *)
(* the completion event has come back.                                         *)
BecomesOverdue ==
  /\ ~overdue
  /\ overdue' = TRUE /\ unresolved' = TRUE /\ quiet' = 0
  /\ UNCHANGED <<backlog, refreshing, loopVars, judgeVars, disturbed>>

Delivered ==
  /\ overdue
  /\ overdue' = FALSE /\ disturbed' = TRUE
  /\ UNCHANGED <<unresolved, backlog, refreshing, loopVars, judgeVars, quiet>>

Resolved ==
  /\ unresolved /\ ~overdue
  /\ unresolved' = FALSE
  /\ UNCHANGED <<overdue, backlog, refreshing, loopVars, judgeVars, quiet, disturbed>>

(* DeliveryBacklogMonitor.refresh.                                             *)
Refresh ==
  /\ refreshing
  /\ backlog' = [age |-> 0, overdue |-> unresolved]
  /\ disturbed' = (disturbed \/ backlog.age >= Stale)
  /\ UNCHANGED <<overdue, unresolved, refreshing, loopVars, judgeVars, quiet>>

(* POST /experiment/observe/pause, and its end.                                *)
PauseRefresh ==
  /\ refreshing' = ~refreshing
  /\ UNCHANGED <<overdue, unresolved, backlog, loopVars, judgeVars, quiet, disturbed>>

-----------------------------------------------------------------------------
(* A faulty Alert: a first overdue sample after UNKNOWN counts as normal and   *)
(* never as confirmation.                                                      *)
AlertForgetful(valid) ==
  CASE ~valid -> "UNKNOWN"
    [] valid /\ backlog.overdue /\ previousOverdue /\ previousState = "ALERT" -> "ALERT"
    [] OTHER -> "NORMAL"

(* sample['alert'].                                                            *)
Alert(valid) ==
  CASE ~valid -> "UNKNOWN"
    [] valid /\ backlog.overdue /\ previousOverdue -> "ALERT"
    [] valid /\ backlog.overdue /\ ~previousOverdue /\ previousState = "UNKNOWN" -> "UNKNOWN"
    [] OTHER -> "NORMAL"

(* The observability loop of check.py at one sample: the episode of the truth  *)
(* begins, goes on or is over, and a NORMAL late in it is a missed alert.      *)
Judge(state) ==
  LET age == IF episode = -1 THEN 0 ELSE episode IN
  /\ episode' = IF overdue THEN age ELSE -1
  /\ missed' = (missed \/ (overdue /\ state = "NORMAL" /\ age > Grace))
  /\ disturbed' = (disturbed /\ overdue /\ episode # -1)

(* One sample; the source answers.                                             *)
Sample ==
  LET valid == backlog.age <= Stale
      state == Alert(valid)
  IN /\ ~sampled /\ sampled' = TRUE
     /\ previousState' = state
     /\ previousOverdue' = (valid /\ backlog.overdue)
     /\ Judge(state)
     /\ UNCHANGED <<overdue, unresolved, backlog, refreshing, quiet>>

(* The source does not answer: UNKNOWN, and no row for check.py.               *)
SampleFails ==
  /\ ~sampled /\ sampled' = TRUE
  /\ previousState' = "UNKNOWN" /\ previousOverdue' = FALSE
  /\ UNCHANGED <<overdue, unresolved, backlog, refreshing, judgeVars, quiet, disturbed>>

(* A second passes. It has had its sample, unless the pause file is there or   *)
(* the sample before took too long.                                            *)
Second ==
  /\ sampled' = FALSE
  /\ backlog' = [backlog EXCEPT !.age = Capped(@, Stale + 1)]
  /\ episode' = IF episode = -1 THEN -1 ELSE Capped(episode, Grace + 1)
  /\ quiet' = IF unresolved THEN 0 ELSE Capped(quiet, Stale + 2)
  /\ disturbed' = (disturbed \/ ~sampled)
  /\ UNCHANGED <<overdue, unresolved, refreshing, previousOverdue, previousState, missed>>

ObserverNext ==
  \/ BecomesOverdue \/ Delivered \/ Resolved
  \/ Refresh \/ PauseRefresh
  \/ Sample \/ SampleFails
  \/ Second

ObserverSpec == ObserverInit /\ [][ObserverNext]_observerVars

-----------------------------------------------------------------------------
(* Types; and the confirmation the alert rests on is only kept for a sample    *)
(* that was valid.                                                             *)
ObserverTypeOK ==
  /\ {overdue, unresolved, refreshing, previousOverdue, sampled, missed, disturbed} \subseteq BOOLEAN
  /\ backlog.age \in 0 .. Stale + 1 /\ episode \in -1 .. Grace + 1
  /\ previousState \in {"none", "NORMAL", "ALERT", "UNKNOWN"}
  /\ previousState = "ALERT" => previousOverdue
  /\ overdue => unresolved

(* check.py counts an alert as missed only when the samples give reason to: a  *)
(* second without a sample, a truth that came and went between two of them, or *)
(* two refreshes STALE_MS or more apart. A source that does not answer, and    *)
(* the second sample the alert waits for, also after UNKNOWN, never lead to it.*)
(* And an alert never outlives the overdue operation it is about by more than  *)
(* the age a snapshot may have.                                                *)
AlertHonest ==
  [][/\ missed' /\ ~missed => disturbed
     /\ ~sampled /\ sampled' /\ previousState' = "ALERT" => quiet <= Stale]_observerVars
=============================================================================
