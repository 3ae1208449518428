--------------------------- MODULE ExperimentCase ---------------------------
(* experiments/run.py: one invocation of the controller. It runs its cases one *)
(* after the other; a case starts the services, injects its fault, publishes   *)
(* its input, kills or restarts the partner service at a boundary, waits for   *)
(* every effect and judges them. Faults are cleared, and the service is        *)
(* restarted, by threads of the controller.                                    *)
EXTENDS Integers, Sequences, FiniteSets

CONSTANTS
  Programs,    \* the sequences of scenarios that are run
  Batches,     \* batches of input per case
  PerSecond,   \* batches published in one second
  MaxRaises    \* bound: calls that raise and waits that time out

(* Scenarios that take the same steps are represented by one of them.          *)
Gated  == {"ack-kill", "ack-release", "external-kill", "park-kill"}
Killed == {"ack-kill", "external-kill", "park-kill"}
Faulty == {"api", "park-kill", "hang", "graceful-restart", "scale-out"}
Ops    == {"graceful-restart", "scale-out"}
(* Gates an event reaches before its effect is committed.                      *)
Before == {"external-kill", "park-kill"}
Scenarios == Gated \cup Faulty \cup {"clean", "redelivery", "sweep"}

ASSUME CaseAssumption ==
  /\ Programs # {} /\ Programs \subseteq Seq(Scenarios) \ {<<>>}
  /\ Batches \in Nat \ {0} /\ PerSecond \in Nat \ {0} /\ MaxRaises \in Nat

VARIABLES
  program, remote,   \* what is run; whether the partner JVM has its own host
  k,                 \* the case that is run
  step,              \* where the controller is
  jvms,              \* the partner JVMs that live: <<case, which>>
  service,           \* run_case's variable: the JVM it knows of
  arm, reached,      \* the files of the case's gate
  held,              \* some event waits at the gate
  delayed,           \* the fault delay is in force
  clear,             \* the thread of clear_fault
  ops,               \* the thread of ops_event
  sent, saved,       \* batches published; batches expected.json has
  landed,            \* batches whose effects are in the database
  cut,               \* the controller stopped waiting for an unfinished restart
  verdict,           \* of the case: "none", "passed", "failed"
  raises

inputVars == <<sent, saved, landed>>
gateVars  == <<arm, reached, held>>
threadVars == <<clear, ops>>
caseVars == <<program, remote, k, step, jvms, service, gateVars, delayed, threadVars, inputVars, cut,
              verdict, raises>>
fixed == <<program, remote>>

scenario == program[k]
Jvm(which) == <<k, which>>

(* launch and remote_java: a JVM of its own host is alone there.               *)
Java(which)    == jvms' = (IF remote THEN {} ELSE jvms) \cup {Jvm(which)}
(* stop: on its own host every partner JVM is killed.                          *)
Stopped(which) == IF remote THEN {} ELSE jvms \ {Jvm(w) : w \in which}

(* Input of an ops scenario goes through the broker of this host.              *)
CaseStart(s) ==
  /\ program \in Programs
  /\ remote \in IF \E i \in DOMAIN program : program[i] \in Ops THEN {FALSE} ELSE BOOLEAN
  /\ k = 1 /\ step = s /\ jvms = {} /\ service = "none"
  /\ arm = FALSE /\ reached = FALSE /\ held = FALSE /\ delayed = FALSE
  /\ clear = "none" /\ ops = "none"
  /\ sent = 0 /\ saved = 0 /\ landed = 0 /\ cut = FALSE /\ verdict = "none" /\ raises = 0
CaseInit == CaseStart("begin")

-----------------------------------------------------------------------------
(* run_case *)

(* Empty tables, a new mock or a reset one, a directory without hooks; then    *)
(* the service, until its partitions are assigned.                             *)
BeginCase ==
  /\ step = "begin" /\ step' = "inject"
  /\ Java("first") /\ service' = "first"
  /\ arm' = FALSE /\ reached' = FALSE /\ held' = FALSE /\ delayed' = FALSE
  /\ clear' = "none" /\ ops' = "none" /\ sent' = 0 /\ saved' = 0 /\ landed' = 0
  /\ verdict' = "none"
  /\ UNCHANGED <<fixed, k, cut, raises>>

(* The fault with the thread that removes it, the gate, the ops thread.        *)
InjectCase ==
  /\ step = "inject" /\ step' = "input"
  /\ delayed' = (scenario \in Faulty)
  /\ clear' = IF scenario \in Faulty THEN "sleeping" ELSE "none"
  /\ arm' = (scenario \in Gated)
  /\ ops' = IF scenario \in Ops THEN "sleeping" ELSE "none"
  /\ UNCHANGED <<fixed, k, jvms, service, reached, held, inputVars, cut, verdict, raises>>

(* One batch: expected.json first, in a sweep at most once per second.         *)
Publish ==
  /\ step = "input" /\ sent < Batches
  /\ sent' = sent + 1
  /\ \/ saved' = sent + 1
     \/ scenario = "sweep" /\ sent + 1 - saved < PerSecond /\ sent > 0 /\ UNCHANGED saved
  /\ UNCHANGED <<fixed, k, step, jvms, service, gateVars, delayed, threadVars, landed, cut, verdict, raises>>

(* All sent and saved; with an ops thread both threads are waited for.         *)
InputDone ==
  /\ step = "input" /\ sent = Batches
  /\ scenario \in Ops => clear = "done" /\ ops = "done"
  /\ step' = IF scenario \in Gated THEN "gate" ELSE "effects"
  /\ saved' = Batches
  /\ UNCHANGED <<fixed, k, jvms, service, gateVars, delayed, threadVars, sent, landed, cut, verdict, raises>>

(* The boundary is reached: kill, remove the arm file, restart; or release it. *)
AtBoundary ==
  /\ step = "gate" /\ reached /\ step' = "effects"
  /\ arm' = FALSE /\ held' = FALSE
  /\ IF scenario \in Killed
     THEN jvms' = Stopped({service}) \cup {Jvm("again")} /\ service' = "again"
     ELSE UNCHANGED <<jvms, service>>
  /\ UNCHANGED <<fixed, k, reached, delayed, threadVars, inputVars, cut, verdict, raises>>

(* The row count is that of the input; duplicates sent before it add nothing.  *)
AllEffects ==
  /\ step = "effects" /\ landed = Batches /\ step' = "drain"
  /\ UNCHANGED <<fixed, k, jvms, service, gateVars, delayed, threadVars, inputVars, cut, verdict, raises>>

(* Threads joined, no offset left to commit.                                   *)
Drained ==
  /\ step = "drain" /\ step' = "judge"
  /\ clear \in {"none", "done"} /\ ops \in {"none", "done"}
  /\ Jvm(service) \in jvms /\ ~held
  /\ UNCHANGED <<fixed, k, jvms, service, gateVars, delayed, threadVars, inputVars, cut, verdict, raises>>

(* snapshot, check, report; a failed check raises like any error.              *)
JudgeCase ==
  /\ step = "judge" /\ step' = "join"
  /\ verdict' \in {"passed", "failed"}
  /\ UNCHANGED <<fixed, k, jvms, service, gateVars, delayed, threadVars, inputVars, cut, raises>>

(* Any call raises, any wait times out: failure.json, and the finally block.   *)
RaiseCase ==
  /\ step \in {"inject", "input", "gate", "effects", "drain", "judge"}
  /\ raises < MaxRaises /\ raises' = raises + 1
  /\ step' = "join" /\ verdict' = "failed"
  /\ UNCHANGED <<fixed, k, jvms, service, gateVars, delayed, threadVars, inputVars, cut>>

(* Threads are joined for 8 seconds each: less than the 12 of a hang or the 30 *)
(* a service has to shut down.                                                 *)
JoinThreads ==
  /\ step = "join" /\ step' = "stop"
  /\ clear = "sleeping" => scenario = "hang"
  /\ ops \in {"none", "done", "stopping"}
  /\ cut' = (ops = "stopping")
  /\ UNCHANGED <<fixed, k, jvms, service, gateVars, delayed, threadVars, inputVars, verdict, raises>>

(* A faulty StopServices: a second instance is forgotten.                      *)
StopServicesFirst ==
  /\ step = "stop"
  /\ jvms' = Stopped({service})
  /\ held' = FALSE
  /\ IF verdict = "passed" /\ k < Len(program) THEN k' = k + 1 /\ step' = "begin"
                                               ELSE step' = "exit" /\ UNCHANGED k
  /\ UNCHANGED <<fixed, service, arm, reached, delayed, threadVars, inputVars, cut, verdict, raises>>

(* The second instance, the service and the mock are stopped. A case that      *)
(* failed ends the program.                                                    *)
StopServices ==
  /\ step = "stop"
  /\ jvms' = Stopped({"second", service})
  /\ held' = FALSE
  /\ IF verdict = "passed" /\ k < Len(program) THEN k' = k + 1 /\ step' = "begin"
                                               ELSE step' = "exit" /\ UNCHANGED k
  /\ UNCHANGED <<fixed, service, arm, reached, delayed, threadVars, inputVars, cut, verdict, raises>>

(* Everything launched so far is stopped again; the interpreter then waits for *)
(* its threads.                                                                *)
StopProcesses ==
  /\ step = "exit" /\ step' = "waiting" /\ jvms' = {}
  /\ UNCHANGED <<fixed, k, service, gateVars, delayed, threadVars, inputVars, cut, verdict, raises>>

Exit ==
  /\ step = "waiting" /\ step' = "exited"
  /\ clear \in {"none", "done"} /\ ops \in {"none", "done"}
  /\ UNCHANGED <<fixed, k, jvms, service, gateVars, delayed, threadVars, inputVars, cut, verdict, raises>>

-----------------------------------------------------------------------------
(* The threads *)

(* A mock that is gone by now raises in the thread, which ends either way.     *)
ClearFault ==
  /\ clear = "sleeping" /\ clear' = "done" /\ delayed' = FALSE
  /\ UNCHANGED <<fixed, k, step, jvms, service, gateVars, ops, inputVars, cut, verdict, raises>>

SecondInstance ==
  /\ scenario = "scale-out" /\ ops = "sleeping" /\ ops' = "done"
  /\ Java("second")
  /\ UNCHANGED <<fixed, k, step, service, gateVars, delayed, clear, inputVars, cut, verdict, raises>>

Terminate ==
  /\ scenario = "graceful-restart" /\ ops = "sleeping" /\ ops' = "stopping"
  /\ UNCHANGED <<fixed, k, step, jvms, service, gateVars, delayed, clear, inputVars, cut, verdict, raises>>

(* It has ended in time, or is killed after 30 seconds.                        *)
Terminated ==
  /\ ops = "stopping" /\ ops' = "down"
  /\ jvms' = jvms \ {Jvm(service)}
  /\ UNCHANGED <<fixed, k, step, service, gateVars, delayed, clear, inputVars, cut, verdict, raises>>

Relaunch ==
  /\ ops = "down" /\ ops' = "done"
  /\ Java("again") /\ service' = "again"
  /\ UNCHANGED <<fixed, k, step, gateVars, delayed, clear, inputVars, cut, verdict, raises>>

(* The partner service: an event comes to an armed gate, or to its effect.     *)
ReachGate ==
  /\ jvms # {} /\ arm /\ sent > 0 /\ ~held
  /\ reached' = TRUE /\ held' = TRUE
  /\ UNCHANGED <<fixed, k, step, jvms, service, arm, delayed, threadVars, inputVars, cut, verdict, raises>>

TakeEffect ==
  /\ jvms # {} /\ landed < sent
  /\ arm => held /\ scenario \notin Before
  /\ landed' = landed + 1
  /\ UNCHANGED <<fixed, k, step, jvms, service, gateVars, delayed, threadVars, sent, saved, cut, verdict, raises>>

Controller ==
  \/ BeginCase \/ InjectCase \/ Publish \/ InputDone \/ AtBoundary \/ AllEffects \/ Drained
  \/ JudgeCase \/ JoinThreads \/ StopServices \/ StopProcesses \/ Exit
OpsThread == SecondInstance \/ Terminate \/ Terminated \/ Relaunch

CaseNext == Controller \/ RaiseCase \/ ClearFault \/ OpsThread \/ ReachGate \/ TakeEffect

CaseSpec == CaseInit /\ [][CaseNext]_caseVars

CaseFairness ==
  /\ WF_caseVars(Controller) /\ WF_caseVars(ClearFault) /\ WF_caseVars(OpsThread)
  /\ WF_caseVars(ReachGate) /\ WF_caseVars(TakeEffect)

-----------------------------------------------------------------------------
(* Types; and effects never run ahead of the input.                            *)
CaseTypeOK ==
  /\ k \in DOMAIN program /\ landed \in 0 .. sent /\ sent \in 0 .. Batches
  /\ jvms \subseteq (1 .. k) \X {"first", "again", "second"}
  /\ service \in {"none", "first", "again", "second"}
  /\ clear \in {"none", "sleeping", "done"} /\ raises \in 0 .. MaxRaises
  /\ ops \in {"none", "sleeping", "stopping", "down", "done"}

(* Whenever the controller dies, expected.json holds every batch that was      *)
(* sent, or in a sweep all but the last second of them: what the checker finds *)
(* at the seller is accounted for.                                             *)
InputOnFile ==
  sent > saved => scenario = "sweep" /\ sent - saved < PerSecond

(* A case is judged on a system that has come to rest after its fault: the     *)
(* delay was removed, the restart is through, nothing waits at a gate, and the *)
(* boundary the case is about was really reached.                              *)
JudgedAtRest ==
  step = "judge" =>
    /\ landed = Batches /\ ~delayed /\ ~arm /\ ~held
    /\ scenario \in Gated => reached
    /\ scenario \in Killed \cup {"graceful-restart"} => service = "again"
    /\ Jvm(service) \in jvms

(* No partner JVM outlives its case, in whatever step the case failed, with    *)
(* one exception: the controller stopped waiting for a restart, and the thread *)
(* launched the new JVM after everything was stopped.                          *)
JvmEndsWithCase ==
  step \in {"begin", "waiting", "exited"} /\ jvms # {} => cut /\ jvms = {Jvm("again")}

(* What a case leaves behind is what it says.                                  *)
CaseClean == InputOnFile /\ JudgedAtRest /\ JvmEndsWithCase
=============================================================================
