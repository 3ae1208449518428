---------------------------- MODULE IsolationRun ----------------------------
(* isolation/runner.py: runs of the experiment executed one after the other on *)
(* the same hosts. A run is one thread that resets, starts, waits and collects *)
(* and daemon threads that inject faults at planned times; whatever goes wrong *)
(* is left through the same finally block.                                     *)
EXTENDS Integers, FiniteSets

CONSTANTS
  Runs,         \* how many runs follow each other
  StepsOf,      \* per run: the timed steps of its spec
  AtStart,      \* per run: partnersAtStart
  MaxFailures   \* bound: calls that raise, load generators that die

Steps == {"inject", "remove", "scale", "stale"}

ASSUME IsolationAssumption ==
  /\ Runs \in Nat \ {0} /\ MaxFailures \in Nat
  /\ StepsOf \in [1 .. Runs -> SUBSET Steps] /\ AtStart \in [1 .. Runs -> 1 .. 2]
  \* A fault is planned with its removal.
  /\ \A r \in 1 .. Runs : "inject" \in StepsOf[r] <=> "remove" \in StepsOf[r]

VARIABLES
  run,          \* the run that is being executed
  pc,           \* where Run.execute is
  thread,       \* per run and step: its daemon thread
  load,         \* the load generator: "none", "running", "complete", "died"
  observer,     \* the observer process is up
  jvm,          \* per partner host: [run, state] of its JVM; run 0 is none
  armed,        \* per partner host: the run whose external_success.arm is there
  slow,         \* the run whose fault delay is in force at the mock, 0 for none
  early,        \* runs whose load generator did not live to the end of its trace
  failedSteps,  \* runs with a step_failed in their timeline
  complete,     \* per run: run.json was written
  summary,      \* per run: summary.json
  failures

isolationVars == <<run, pc, thread, load, observer, jvm, armed, slow, early, failedSteps,
                   complete, summary, failures>>
worldVars == <<jvm, armed, slow>>
execVars  == <<run, pc, load, observer, early, complete, summary>>

Hosts   == 1 .. 2
NoJvm   == [run |-> 0, state |-> "up"]
Up(r)   == [run |-> r, state |-> "up"]
Ended   == {"none", "finished"}

Fail == failures < MaxFailures /\ failures' = failures + 1

IsolationStart(p) ==
  /\ run = 1 /\ pc = p /\ load = "none" /\ observer = FALSE
  /\ thread = [r \in 1 .. Runs |-> [s \in Steps |-> "none"]]
  /\ jvm = [h \in Hosts |-> NoJvm] /\ armed = [h \in Hosts |-> 0] /\ slow = 0
  /\ early = {} /\ failedSteps = {} /\ failures = 0
  /\ complete = [r \in 1 .. Runs |-> FALSE]
  /\ summary = [r \in 1 .. Runs |-> "none"]
IsolationInit == IsolationStart("reset")

-----------------------------------------------------------------------------
(* Run.execute *)

(* stop_all, empty tables, fresh topics, and a mock reset to normal service.   *)
Reset ==
  /\ pc = "reset" /\ pc' = "start"
  /\ jvm' = [h \in Hosts |-> NoJvm] /\ slow' = 0
  /\ UNCHANGED <<run, thread, load, observer, armed, early, failedSteps, complete, summary, failures>>

(* start_source and start_partner for every instance the spec begins with;     *)
(* hooks left on a host are removed before its JVM is launched.                *)
Start ==
  LET started == 1 .. AtStart[run] IN
  /\ pc = "start" /\ pc' = "ready"
  /\ jvm' = [h \in Hosts |-> IF h \in started THEN Up(run) ELSE jvm[h]]
  /\ armed' = [h \in Hosts |-> IF h \in started THEN 0 ELSE armed[h]]
  /\ UNCHANGED <<run, thread, load, observer, slow, early, failedSteps, complete, summary, failures>>

(* All partitions are assigned: the observer and the load generator start, and *)
(* a thread for every planned step.                                            *)
Launch ==
  /\ pc = "ready" /\ pc' = "loading"
  /\ observer' = TRUE /\ load' = "running"
  /\ thread' = [thread EXCEPT ![run] =
       [s \in Steps |-> IF s \in StepsOf[run] THEN "sleeping" ELSE "none"]]
  /\ UNCHANGED <<run, worldVars, early, failedSteps, complete, summary, failures>>

(* The generator ends after its trace; by then every planned time has passed.  *)
LoadEnds ==
  /\ pc = "loading" /\ load = "running"
  /\ \A s \in Steps : thread[run][s] # "sleeping"
  /\ load' = "complete"
  /\ UNCHANGED <<run, pc, thread, observer, worldVars, early, failedSteps, complete, summary, failures>>

(* It dies, or the connection to its host does. Its exit code is not looked at.*)
LoadDies ==
  /\ pc = "loading" /\ load = "running"
  /\ Fail
  /\ load' = "died" /\ early' = early \cup {run}
  /\ UNCHANGED <<run, pc, thread, observer, worldVars, failedSteps, complete, summary>>

(* load.wait returns.                                                          *)
LoadDone ==
  /\ pc = "loading" /\ load # "running" /\ pc' = "joining"
  /\ UNCHANGED <<run, thread, load, observer, worldVars, early, failedSteps, complete, summary, failures>>

(* A faulty Join: the threads are not waited for.                              *)
JoinNot ==
  /\ pc = "joining" /\ pc' = "draining"
  /\ UNCHANGED <<run, thread, load, observer, worldVars, early, failedSteps, complete, summary, failures>>

(* Each thread is joined for 120 seconds. That is enough for a step that has   *)
(* begun, not for one whose time is still to come.                             *)
Join ==
  /\ pc = "joining" /\ pc' = "draining"
  /\ \A s \in Steps : thread[run][s] \in Ended \cup {"sleeping"}
  /\ UNCHANGED <<run, thread, load, observer, worldVars, early, failedSteps, complete, summary, failures>>

(* _drain ends with everything delivered or with its time.                     *)
Drain ==
  /\ pc = "draining" /\ pc' = "finally"
  /\ UNCHANGED <<run, thread, load, observer, worldVars, early, failedSteps, complete, summary, failures>>

(* Any of these calls raises: an error of a host, a timeout of wait_for or of  *)
(* load.wait.                                                                  *)
Raise ==
  /\ pc \in {"reset", "start", "ready"} \/ (pc = "loading" /\ load = "running")
  /\ Fail
  /\ pc' = "finally"
  /\ summary' = [summary EXCEPT ![run] = "error"]
  /\ early' = IF load = "running" THEN early \cup {run} ELSE early
  /\ UNCHANGED <<run, thread, load, observer, worldVars, failedSteps, complete>>

(* The finally block up to collect: the observer is stopped or killed, the     *)
(* generator is killed.                                                        *)
Finally ==
  /\ pc = "finally" /\ pc' = "collect"
  /\ observer' = FALSE
  /\ load' = "none"
  /\ UNCHANGED <<run, thread, worldVars, early, failedSteps, complete, summary, failures>>

(* A faulty Collect: a copy that raises is not reported.                       *)
CollectForgiving ==
  /\ pc = "collect" /\ pc' = "stop"
  /\ \E ok \in BOOLEAN : complete' = [complete EXCEPT ![run] = ok]
  /\ UNCHANGED <<run, thread, load, observer, worldVars, early, failedSteps, summary, failures>>

(* collect; a copy that raises ends it before run.json is written.             *)
Collect ==
  /\ pc = "collect" /\ pc' = "stop"
  /\ \/ /\ complete' = [complete EXCEPT ![run] = TRUE]
        /\ UNCHANGED <<summary, failures>>
     \/ /\ Fail
        /\ summary' = [summary EXCEPT ![run] = "error"]
        /\ UNCHANGED complete
  /\ UNCHANGED <<run, thread, load, observer, worldVars, early, failedSteps>>

(* stop_all, KILL also for a JVM that is stopped; then the check, which may    *)
(* raise too, and the summary. An error before it is what execute() reports.   *)
StopAll ==
  /\ pc = "stop" /\ pc' = "done"
  /\ jvm' = [h \in Hosts |-> NoJvm]
  /\ \E verdict \in {"judged", "error"} :
       summary' = [summary EXCEPT ![run] = IF @ = "none" THEN verdict ELSE @]
  /\ UNCHANGED <<run, thread, load, observer, armed, slow, early, failedSteps, complete, failures>>

(* The suite executes its next run.                                            *)
NextRun ==
  /\ pc = "done" /\ run < Runs
  /\ run' = run + 1 /\ pc' = "reset"
  /\ UNCHANGED <<thread, load, observer, worldVars, early, failedSteps, complete, summary, failures>>

-----------------------------------------------------------------------------
(* The timed steps. Their threads are daemons: one whose time has not come     *)
(* lives on after its run, and works on the hosts as they are then.            *)

To(r, s, next) == thread' = [thread EXCEPT ![r][s] = next]

(* The time of the two steps of a fault comes in this order, further apart     *)
(* than a call may take.                                                       *)
InjectFault(r) ==
  /\ thread[r]["inject"] = "sleeping"
  /\ slow' = r /\ To(r, "inject", "finished")
  /\ UNCHANGED <<jvm, armed, failedSteps, failures, execVars>>

RemoveFault(r) ==
  /\ thread[r]["remove"] = "sleeping" /\ thread[r]["inject"] \in Ended
  /\ slow' = 0 /\ To(r, "remove", "finished")
  /\ UNCHANGED <<jvm, armed, failedSteps, failures, execVars>>

(* _scale_out: start_partner(1), then wait for its assignment.                 *)
ScaleOut(r) ==
  /\ thread[r]["scale"] = "sleeping"
  /\ jvm' = [jvm EXCEPT ![2] = Up(r)] /\ armed' = [armed EXCEPT ![2] = 0]
  /\ To(r, "scale", "assigning")
  /\ UNCHANGED <<slow, failedSteps, failures, execVars>>

ScaleAssigned(r) ==
  /\ thread[r]["scale"] = "assigning"
  /\ To(r, "scale", "finished")
  /\ UNCHANGED <<worldVars, failedSteps, failures, execVars>>

(* _stale_owner: arm the gate on both hosts.                                   *)
ArmGate(r) ==
  /\ thread[r]["stale"] = "sleeping"
  /\ armed' = [h \in Hosts |-> r] /\ To(r, "stale", "armed")
  /\ UNCHANGED <<jvm, slow, failedSteps, failures, execVars>>

(* A JVM of that run reached the gate: it is stopped, the other host disarmed. *)
StopOwner(r, h) ==
  /\ thread[r]["stale"] = "armed"
  /\ armed[h] = r /\ jvm[h] = Up(r)
  /\ jvm' = [jvm EXCEPT ![h].state = "stopped"]
  /\ armed' = [armed EXCEPT ![3 - h] = 0]
  /\ To(r, "stale", "stopped")
  /\ UNCHANGED <<slow, failedSteps, failures, execVars>>

(* No JVM reached it in 40 seconds: injection_invalid.                         *)
GateTimeout(r) ==
  /\ thread[r]["stale"] = "armed"
  /\ armed' = [h \in Hosts |-> 0] /\ To(r, "stale", "finished")
  /\ UNCHANGED <<jvm, slow, failedSteps, failures, execVars>>

(* The takeover is confirmed or 60 seconds have passed: disarm and continue.   *)
ResumeOwner(r) ==
  /\ thread[r]["stale"] = "stopped"
  /\ jvm' = [h \in Hosts |-> IF jvm[h].run = r THEN Up(r) ELSE jvm[h]]
  /\ armed' = [h \in Hosts |-> 0] /\ To(r, "stale", "finished")
  /\ UNCHANGED <<slow, failedSteps, failures, execVars>>

(* A call of the step raises: step_failed, and the thread ends where it is.    *)
StepFails(r, s) ==
  /\ thread[r][s] \notin Ended
  /\ Fail
  /\ To(r, s, "finished") /\ failedSteps' = failedSteps \cup {r}
  /\ UNCHANGED <<worldVars, execVars>>

Coordinator ==
  \/ Reset \/ Start \/ Launch \/ LoadDone \/ Join \/ Drain
  \/ Finally \/ Collect \/ StopAll \/ NextRun

Timed(r) ==
  \/ InjectFault(r) \/ RemoveFault(r) \/ ScaleOut(r) \/ ScaleAssigned(r)
  \/ ArmGate(r) \/ GateTimeout(r) \/ ResumeOwner(r)

IsolationNext ==
  \/ Coordinator \/ LoadEnds \/ LoadDies \/ Raise
  \/ \E r \in 1 .. Runs : \/ Timed(r)
                          \/ \E h \in Hosts : StopOwner(r, h)
                          \/ \E s \in Steps : StepFails(r, s)

IsolationSpec == IsolationInit /\ [][IsolationNext]_isolationVars

(* Every wait of the runner has a timeout, its threads run, and the generator  *)
(* comes to the end of its trace.                                              *)
IsolationFairness ==
  /\ WF_isolationVars(Coordinator) /\ WF_isolationVars(LoadEnds)
  /\ \A r \in 1 .. Runs : WF_isolationVars(Timed(r))

-----------------------------------------------------------------------------
Working == pc \in {"loading", "joining", "draining"}

(* Types; and a run is judged only on complete evidence, whatever raised.      *)
IsolationTypeOK ==
  /\ run \in 1 .. Runs /\ load \in {"none", "running", "complete", "died"}
  /\ \A h \in Hosts : jvm[h].run \in 0 .. Runs /\ armed[h] \in 0 .. Runs
  /\ slow \in 0 .. Runs /\ failures \in 0 .. MaxFailures
  /\ \A r \in 1 .. Runs : summary[r] = "judged" => complete[r]

(* While a run works, the JVMs, gates and fault delays on the hosts are its    *)
(* own. A leftover of an earlier run is possible in one way: the load          *)
(* generator of that run ended early and a timed step was still to come.       *)
ForeignNeedsEarlyEnd ==
  Working =>
    /\ \A h \in Hosts : jvm[h].run # 0 =>
         \A r \in {jvm[h].run, armed[h]} : r \in {0, run} \/ r \in early
    /\ slow \in {0, run} \/ slow \in early

(* A run that ended without a failed step, and whose load ran to its end, is   *)
(* drained and collected on a system at rest: the fault is removed, no gate is *)
(* armed and the stopped owner continues.                                      *)
RestoredBeforeDrain ==
  pc \in {"draining", "finally", "collect"} /\ early = {} /\ run \notin failedSteps
    /\ summary[run] # "error" =>
    /\ slow = 0
    /\ \A h \in Hosts : armed[h] # run /\ jvm[h].state = "up"

(* Nothing of a run outlives it: when it is done neither its observer nor a    *)
(* JVM is left, running or stopped, whatever raised, unless its load ended     *)
(* early.                                                                      *)
NothingSurvives ==
  pc = "done" => ~observer /\ \A h \in Hosts : jvm[h].run = 0 \/ jvm[h].run \in early

(* Runs that share hosts, tables and topics do not disturb each other.         *)
RunsApart == ForeignNeedsEarlyEnd /\ RestoredBeforeDrain /\ NothingSurvives
=============================================================================
