-------------------------- MODULE ExperimentProofs --------------------------
(* Safety of the experiment tooling, for any number of errors: run.py for any  *)
(* programs of scenarios and any input, the isolation runner for any number of *)
(* runs with any steps, the delivery alert for any ages and graces, the load   *)
(* generator for any trace, the suite for any plan, budget and results, the    *)
(* effect verdicts for any number of operations and claims; and the types of   *)
(* all the parts together, with the seller API's and the budget evidence's.    *)
EXTENDS MCExperiments, BudgetProofs, PartnerLedgerProofs

-----------------------------------------------------------------------------
(* run.py: the inductive invariant                                             *)

AtRest   == {"none", "done"}
InCase   == {"inject", "input", "gate", "effects", "drain", "judge"}
Stopping == {"stop", "exit", "waiting", "exited"}

CaseTypes ==
  /\ CaseTypeOK
  /\ program \in Programs
  /\ step \in {"begin", "join"} \cup InCase \cup Stopping
  /\ saved \in 0 .. Batches
  /\ verdict \in {"none", "passed", "failed"}
  /\ step # "begin" => service \in {"first", "again"}

(* JVMs: those of the case that run_case can stop by name.                     *)
JvmInv ==
  /\ jvms \subseteq {Jvm(service), Jvm("second")}
  /\ step = "begin" => jvms = {}
  /\ ops = "down" => Jvm(service) \notin jvms
  /\ step \in {"waiting", "exited"} /\ jvms # {} => cut /\ jvms = {Jvm("again")} /\ ops = "done"

(* Threads: which may run, and what the controller knows of them.              *)
ThreadInv ==
  /\ step = "begin" \/ verdict = "passed" => clear \in AtRest /\ ops \in AtRest
  /\ delayed => clear = "sleeping"
  /\ step # "begin" => /\ scenario \notin Ops => ops = "none"
                       /\ scenario = "graceful-restart" /\ ops = "done" => service = "again"
  /\ step \in {"gate", "effects", "drain", "judge"} /\ scenario \in Ops => ops = "done"
  /\ step \in Stopping => ops # "sleeping" /\ (ops \in {"stopping", "down"} => cut)

(* The input and the gate, from step to step.                                  *)
ProgressInv ==
  /\ InputOnFile
  /\ verdict = "passed" => step \in {"join", "begin"} \cup Stopping /\ sent = saved
  /\ step = "inject" => ~arm
  /\ step \in {"gate", "effects", "drain", "judge"} => sent = Batches /\ saved = Batches
  /\ step \in {"input", "gate"} /\ arm => scenario \in Gated
  /\ step \in {"effects", "drain", "judge"} =>
       /\ ~arm
       /\ scenario \in Gated => reached
       /\ scenario \in Killed => service = "again"
  /\ step \in {"drain", "judge"} => landed = Batches
  /\ step = "judge" => ~held /\ Jvm(service) \in jvms /\ clear \in AtRest /\ ops \in AtRest

CaseInv == CaseTypes /\ JvmInv /\ ThreadInv /\ ProgressInv

(* What the provers need of a program.                                         *)
LEMMA CaseConstants ==
  /\ Batches \in Nat \ {0} /\ PerSecond \in Nat \ {0} /\ MaxRaises \in Nat
  /\ \A p \in Programs : /\ Len(p) \in Nat \ {0} /\ DOMAIN p = 1 .. Len(p)
                         /\ \A i \in DOMAIN p : p[i] \in Scenarios
  <1>1. \A p \in Programs : p \in Seq(Scenarios) /\ p # <<>>
    BY CaseAssumption DEF CaseAssumption
  <1> QED BY <1>1, CaseAssumption DEF CaseAssumption

(* Nothing is started yet.                                                     *)
LEMMA CaseStarts == CaseInit => CaseInv
  <1> SUFFICES ASSUME CaseInit PROVE CaseInv
    OBVIOUS
  <1> USE CaseConstants DEF CaseInit, CaseStart
  <1>1. CaseTypes
    BY DEF CaseTypes, CaseTypeOK, InCase, Stopping
  <1>2. JvmInv /\ ThreadInv /\ ProgressInv
    BY DEF JvmInv, ThreadInv, ProgressInv, InputOnFile, AtRest, InCase, Stopping
  <1> QED BY <1>1, <1>2 DEF CaseInv

(* The partner JVMs of a case are named by it.                                 *)
LEMMA JvmTypes ==
  ASSUME CaseTypes
  PROVE /\ 1 .. k \subseteq 1 .. (k + 1)
        /\ \A w \in {"first", "again", "second"} : Jvm(w) \in (1 .. k) \X {"first", "again", "second"}
  BY CaseConstants DEF CaseTypes, CaseTypeOK, Jvm

(* Types, action by action.                                                    *)
LEMMA CaseTypeStep == CaseTypes /\ [CaseNext]_caseVars => CaseTypes'
  <1> SUFFICES ASSUME CaseTypes, [CaseNext]_caseVars PROVE CaseTypes'
    OBVIOUS
  <1> USE CaseConstants, JvmTypes
      DEF CaseTypes, CaseTypeOK, InCase, Stopping, fixed, gateVars, threadVars, inputVars
  <1>1. CASE BeginCase
    BY <1>1 DEF BeginCase, Java
  <1>2. CASE InjectCase
    BY <1>2 DEF InjectCase
  <1>3. CASE Publish
    BY <1>3 DEF Publish
  <1>4. CASE InputDone
    BY <1>4 DEF InputDone
  <1>5. CASE AtBoundary
    BY <1>5 DEF AtBoundary, Stopped
  <1>6. CASE AllEffects
    BY <1>6 DEF AllEffects
  <1>7. CASE Drained
    BY <1>7 DEF Drained
  <1>8. CASE JudgeCase
    BY <1>8 DEF JudgeCase
  <1>9. CASE JoinThreads
    BY <1>9 DEF JoinThreads
  <1>10. CASE StopServices
    BY <1>10 DEF StopServices, Stopped
  <1>11. CASE StopProcesses
    BY <1>11 DEF StopProcesses
  <1>12. CASE Exit
    BY <1>12 DEF Exit
  <1>13. CASE RaiseCase
    BY <1>13 DEF RaiseCase
  <1>14. CASE ClearFault
    BY <1>14 DEF ClearFault
  <1>15. CASE SecondInstance
    BY <1>15 DEF SecondInstance, Java
  <1>16. CASE Terminate
    BY <1>16 DEF Terminate
  <1>17. CASE Terminated
    BY <1>17 DEF Terminated
  <1>18. CASE Relaunch
    BY <1>18 DEF Relaunch, Java
  <1>19. CASE ReachGate
    BY <1>19 DEF ReachGate
  <1>20. CASE TakeEffect
    BY <1>20 DEF TakeEffect
  <1>21. CASE UNCHANGED caseVars
    BY <1>21 DEF caseVars
  <1> QED
    BY <1>1, <1>2, <1>3, <1>4, <1>5, <1>6, <1>7, <1>8, <1>9, <1>10, <1>11, <1>12,
       <1>13, <1>14, <1>15, <1>16, <1>17, <1>18, <1>19, <1>20, <1>21 DEF CaseNext, Controller, OpsThread

(* JVMs, threads and progress of the case, action by action.                   *)
LEMMA CaseRestStep == CaseInv /\ [CaseNext]_caseVars => JvmInv' /\ ThreadInv' /\ ProgressInv'
  <1> SUFFICES ASSUME CaseInv, [CaseNext]_caseVars PROVE JvmInv' /\ ThreadInv' /\ ProgressInv'
    OBVIOUS
  <1> USE CaseConstants DEF CaseInv, CaseTypes, JvmInv, ThreadInv, ProgressInv, CaseTypeOK, InputOnFile,
      AtRest, InCase, Stopping, Jvm, scenario, fixed, gateVars, threadVars, inputVars, Gated, Killed,
      Ops
  <1>1. CASE BeginCase
    BY <1>1 DEF BeginCase, Java
  <1>2. CASE InjectCase
    BY <1>2 DEF InjectCase
  <1>3. CASE Publish
    BY <1>3 DEF Publish
  <1>4. CASE InputDone
    BY <1>4 DEF InputDone
  <1>5. CASE AtBoundary
    BY <1>5 DEF AtBoundary, Stopped
  <1>6. CASE AllEffects
    BY <1>6 DEF AllEffects
  <1>7. CASE Drained
    BY <1>7 DEF Drained
  <1>8. CASE JudgeCase
    BY <1>8 DEF JudgeCase
  <1>9. CASE JoinThreads
    BY <1>9 DEF JoinThreads
  <1>10. CASE StopServices
    BY <1>10 DEF StopServices, Stopped
  <1>11. CASE StopProcesses
    BY <1>11 DEF StopProcesses
  <1>12. CASE Exit
    BY <1>12 DEF Exit
  <1>13. CASE RaiseCase
    BY <1>13 DEF RaiseCase
  <1>14. CASE ClearFault
    BY <1>14 DEF ClearFault
  <1>15. CASE SecondInstance
    BY <1>15 DEF SecondInstance, Java
  <1>16. CASE Terminate
    BY <1>16 DEF Terminate
  <1>17. CASE Terminated
    BY <1>17 DEF Terminated
  <1>18. CASE Relaunch
    BY <1>18 DEF Relaunch, Java
  <1>19. CASE ReachGate
    BY <1>19 DEF ReachGate
  <1>20. CASE TakeEffect
    BY <1>20 DEF TakeEffect
  <1>21. CASE UNCHANGED caseVars
    BY <1>21 DEF caseVars
  <1> QED
    BY <1>1, <1>2, <1>3, <1>4, <1>5, <1>6, <1>7, <1>8, <1>9, <1>10, <1>11, <1>12,
       <1>13, <1>14, <1>15, <1>16, <1>17, <1>18, <1>19, <1>20, <1>21 DEF CaseNext, Controller, OpsThread

(* What a case leaves behind is what it says: every batch that was sent is on  *)
(* file, a verdict is drawn on a system at rest, no partner JVM outlives its   *)
(* case but one whose restart the controller no longer waited for.             *)
THEOREM CaseCorrect == CaseSpec => [](CaseTypeOK /\ CaseClean)
  <1>1. CaseInv /\ [CaseNext]_caseVars => CaseInv'
    BY CaseTypeStep, CaseRestStep DEF CaseInv
  <1>2. CaseInv => CaseTypeOK /\ CaseClean
    BY DEF CaseInv, CaseTypes, JvmInv, ThreadInv, ProgressInv, CaseClean, JudgedAtRest, JvmEndsWithCase, AtRest,
       Gated, Killed, Ops, CaseTypeOK
  <1> QED BY <1>1, <1>2, CaseStarts, PTL DEF CaseSpec
-----------------------------------------------------------------------------
(* isolation/runner.py: the inductive invariant                                *)

NotBegun(r) == r > run \/ (r = run /\ pc \in {"reset", "start", "ready"})
Own == pc \in {"start", "ready", "loading", "joining", "draining"}
Mine == {0, run} \cup early

IsolationTypes ==
  /\ run \in 1 .. Runs /\ failures \in 0 .. MaxFailures /\ slow \in 0 .. Runs
  /\ pc \in {"reset", "start", "ready", "loading", "joining", "draining", "finally", "collect", "stop", "done"}
  /\ load \in {"none", "running", "complete", "died"}
  /\ thread \in [1 .. Runs -> [Steps -> {"none", "sleeping", "assigning", "armed", "stopped", "finished"}]]
  /\ jvm \in [Hosts -> [run : 0 .. Runs, state : {"up", "stopped"}]] /\ armed \in [Hosts -> 0 .. Runs]
  /\ early \subseteq 1 .. Runs /\ failedSteps \subseteq 1 .. Runs
  /\ summary \in [1 .. Runs -> {"none", "error", "judged"}] /\ DOMAIN complete = 1 .. Runs

(* Generator and observer live no longer than their run.                       *)
LoadInv ==
  /\ load \in {"running", "died"} /\ pc # "loading" => run \in early
  /\ load = "died" => run \in early
  /\ pc = "loading" => load # "none"
  /\ pc \in {"joining", "draining"} => load \in {"complete", "died"}
  /\ load = "complete" => \A s \in Steps : thread[run][s] # "sleeping"
  /\ pc \in {"reset", "start", "ready", "collect", "stop", "done"} => load = "none" /\ ~observer

(* A thread outlives its run only if the generator of that run ended early.    *)
ThreadsEnd ==
  /\ \A r \in 1 .. Runs : NotBegun(r) => \A s \in Steps : thread[r][s] = "none"
  /\ \A r \in 1 .. Runs : r < run /\ r \notin early => \A s \in Steps : thread[r][s] \in Ended
  /\ pc \in {"draining", "finally", "collect", "stop", "done"} /\ run \notin early =>
       \A s \in Steps : thread[run][s] \in Ended

(* What is on the hosts, and who put it there.                                 *)
HostInv ==
  /\ \A h \in Hosts : jvm[h].run \in Mine
  /\ pc \in {"done", "reset"} => \A h \in Hosts : jvm[h].run \in {0} \cup early
  /\ Own => /\ slow \in Mine
            /\ \A h \in Hosts : jvm[h].run # 0 => armed[h] \in Mine

(* What a step put there, it or its counterpart will take away, or has failed. *)
UndoInv ==
  /\ \A r \in 1 .. Runs : thread[r]["inject"] = "sleeping" =>
       thread[r]["remove"] = "sleeping" \/ r \in failedSteps
  /\ Own \/ (pc \in {"finally", "collect"} /\ summary[run] # "error") =>
       (slow # 0 /\ early = {} /\ run \notin failedSteps => slow = run /\ thread[run]["remove"] = "sleeping")
  /\ \A h \in Hosts : armed[h] # 0 =>
       thread[armed[h]]["stale"] \in {"armed", "stopped"} \/ armed[h] \in failedSteps
  /\ \A h \in Hosts : jvm[h].state = "stopped" =>
       jvm[h].run # 0 /\ (thread[jvm[h].run]["stale"] = "stopped" \/ jvm[h].run \in failedSteps)

(* A summary that judges has complete evidence.                                *)
EvidenceInv ==
  /\ \A r \in 1 .. Runs : summary[r] = "judged" => complete[r]
  /\ pc = "stop" /\ summary[run] = "none" => complete[run]

IsolationInv == IsolationTypes /\ LoadInv /\ ThreadsEnd /\ HostInv /\ UndoInv /\ EvidenceInv

(* What the provers need of the constants.                                     *)
LEMMA IsolationConstants ==
  /\ Runs \in Nat \ {0} /\ MaxFailures \in Nat
  /\ StepsOf \in [1 .. Runs -> SUBSET Steps] /\ AtStart \in [1 .. Runs -> 1 .. 2]
  /\ \A r \in 1 .. Runs : "inject" \in StepsOf[r] <=> "remove" \in StepsOf[r]
  BY IsolationAssumption DEF IsolationAssumption

(* Nothing is started yet.                                                     *)
LEMMA IsolationStarts == IsolationInit => IsolationInv
  BY IsolationConstants
     DEF IsolationInit, IsolationStart, IsolationInv, IsolationTypes, LoadInv, ThreadsEnd, HostInv, UndoInv,
         EvidenceInv, NotBegun, Own, Mine, Hosts, NoJvm, Steps, Ended

(* Types, action by action.                                                    *)
LEMMA IsolationTypeStep == IsolationTypes /\ [IsolationNext]_isolationVars => IsolationTypes'
  <1> SUFFICES ASSUME IsolationTypes, [IsolationNext]_isolationVars PROVE IsolationTypes'
    OBVIOUS
  <1> USE IsolationConstants DEF IsolationTypes, worldVars, execVars, NoJvm, Up, Hosts, Steps
  <1>1. CASE Reset
    BY <1>1 DEF Reset
  <1>2. CASE Start
    BY <1>2 DEF Start
  <1>3. CASE Launch
    BY <1>3 DEF Launch
  <1>4. CASE LoadEnds
    BY <1>4 DEF LoadEnds
  <1>5. CASE LoadDies
    BY <1>5 DEF LoadDies, Fail
  <1>6. CASE LoadDone
    BY <1>6 DEF LoadDone
  <1>7. CASE Join
    BY <1>7 DEF Join
  <1>8. CASE Drain
    BY <1>8 DEF Drain
  <1>9. CASE Raise
    BY <1>9 DEF Raise, Fail
  <1>10. CASE Finally
    BY <1>10 DEF Finally
  <1>11. CASE Collect
    BY <1>11 DEF Collect, Fail
  <1>12. CASE StopAll
    BY <1>12 DEF StopAll
  <1>13. CASE NextRun
    BY <1>13 DEF NextRun
  <1>14. ASSUME NEW r \in 1 .. Runs, InjectFault(r) PROVE IsolationTypes'
    BY <1>14 DEF InjectFault, To
  <1>15. ASSUME NEW r \in 1 .. Runs, RemoveFault(r) PROVE IsolationTypes'
    BY <1>15 DEF RemoveFault, To
  <1>16. ASSUME NEW r \in 1 .. Runs, ScaleOut(r) PROVE IsolationTypes'
    BY <1>16 DEF ScaleOut, To
  <1>17. ASSUME NEW r \in 1 .. Runs, ScaleAssigned(r) PROVE IsolationTypes'
    BY <1>17 DEF ScaleAssigned, To
  <1>18. ASSUME NEW r \in 1 .. Runs, ArmGate(r) PROVE IsolationTypes'
    BY <1>18 DEF ArmGate, To
  <1>19. ASSUME NEW r \in 1 .. Runs, GateTimeout(r) PROVE IsolationTypes'
    BY <1>19 DEF GateTimeout, To
  <1>20. ASSUME NEW r \in 1 .. Runs, ResumeOwner(r) PROVE IsolationTypes'
    BY <1>20 DEF ResumeOwner, To
  <1>21. ASSUME NEW r \in 1 .. Runs, NEW h \in Hosts, StopOwner(r, h) PROVE IsolationTypes'
    BY <1>21 DEF StopOwner, To
  <1>22. ASSUME NEW r \in 1 .. Runs, NEW s \in Steps, StepFails(r, s) PROVE IsolationTypes'
    BY <1>22 DEF StepFails, To, Fail
  <1>23. CASE UNCHANGED isolationVars
    BY <1>23 DEF isolationVars
  <1> HIDE DEF IsolationTypes, Hosts, Steps
  <1> QED
    BY <1>1, <1>2, <1>3, <1>4, <1>5, <1>6, <1>7, <1>8, <1>9, <1>10, <1>11, <1>12,
       <1>13, <1>14, <1>15, <1>16, <1>17, <1>18, <1>19, <1>20, <1>21, <1>22, <1>23
       DEF IsolationNext, Coordinator, Timed

(* The generator, the observer and the threads.                                *)
LEMMA LoadStep ==
  ASSUME IsolationTypes, LoadInv, ThreadsEnd, [IsolationNext]_isolationVars
  PROVE LoadInv' /\ ThreadsEnd'
  <1> USE IsolationConstants DEF IsolationTypes, LoadInv, ThreadsEnd, NotBegun, Ended, worldVars, execVars
  <1>1. CASE Reset
    BY <1>1 DEF Reset
  <1>2. CASE Start
    BY <1>2 DEF Start
  <1>3. CASE Launch
    BY <1>3 DEF Launch
  <1>4. CASE LoadEnds
    BY <1>4 DEF LoadEnds
  <1>5. CASE LoadDies
    BY <1>5 DEF LoadDies, Fail
  <1>6. CASE LoadDone
    BY <1>6 DEF LoadDone
  <1>7. CASE Join
    BY <1>7 DEF Join
  <1>8. CASE Drain
    BY <1>8 DEF Drain
  <1>9. CASE Raise
    BY <1>9 DEF Raise, Fail
  <1>10. CASE Finally
    BY <1>10 DEF Finally
  <1>11. CASE Collect
    BY <1>11 DEF Collect, Fail
  <1>12. CASE StopAll
    BY <1>12 DEF StopAll
  <1>13. CASE NextRun
    BY <1>13 DEF NextRun
  <1>14. ASSUME NEW r \in 1 .. Runs, InjectFault(r) PROVE LoadInv' /\ ThreadsEnd'
    BY <1>14 DEF InjectFault, To
  <1>15. ASSUME NEW r \in 1 .. Runs, RemoveFault(r) PROVE LoadInv' /\ ThreadsEnd'
    BY <1>15 DEF RemoveFault, To
  <1>16. ASSUME NEW r \in 1 .. Runs, ScaleOut(r) PROVE LoadInv' /\ ThreadsEnd'
    BY <1>16 DEF ScaleOut, To
  <1>17. ASSUME NEW r \in 1 .. Runs, ScaleAssigned(r) PROVE LoadInv' /\ ThreadsEnd'
    BY <1>17 DEF ScaleAssigned, To
  <1>18. ASSUME NEW r \in 1 .. Runs, ArmGate(r) PROVE LoadInv' /\ ThreadsEnd'
    BY <1>18 DEF ArmGate, To
  <1>19. ASSUME NEW r \in 1 .. Runs, GateTimeout(r) PROVE LoadInv' /\ ThreadsEnd'
    BY <1>19 DEF GateTimeout, To
  <1>20. ASSUME NEW r \in 1 .. Runs, ResumeOwner(r) PROVE LoadInv' /\ ThreadsEnd'
    BY <1>20 DEF ResumeOwner, To
  <1>21. ASSUME NEW r \in 1 .. Runs, NEW h \in Hosts, StopOwner(r, h) PROVE LoadInv' /\ ThreadsEnd'
    BY <1>21 DEF StopOwner, To
  <1>22. ASSUME NEW r \in 1 .. Runs, NEW s \in Steps, StepFails(r, s) PROVE LoadInv' /\ ThreadsEnd'
    BY <1>22 DEF StepFails, To, Fail
  <1>23. CASE UNCHANGED isolationVars
    BY <1>23 DEF isolationVars
  <1> QED
    BY <1>1, <1>2, <1>3, <1>4, <1>5, <1>6, <1>7, <1>8, <1>9, <1>10, <1>11, <1>12,
       <1>13, <1>14, <1>15, <1>16, <1>17, <1>18, <1>19, <1>20, <1>21, <1>22, <1>23
       DEF IsolationNext, Coordinator, Timed

(* The hosts.                                                                  *)
LEMMA HostStep ==
  ASSUME IsolationTypes, ThreadsEnd, HostInv, [IsolationNext]_isolationVars
  PROVE HostInv'
  <1> USE IsolationConstants
      DEF IsolationTypes, ThreadsEnd, HostInv, NotBegun, Ended, Own, Mine, NoJvm, Up, Hosts, Steps,
          worldVars, execVars
  <1>1. CASE Reset
    BY <1>1 DEF Reset
  <1>2. CASE Start
    BY <1>2 DEF Start
  <1>3. CASE Launch
    BY <1>3 DEF Launch
  <1>4. CASE LoadEnds
    BY <1>4 DEF LoadEnds
  <1>5. CASE LoadDies
    BY <1>5 DEF LoadDies, Fail
  <1>6. CASE LoadDone
    BY <1>6 DEF LoadDone
  <1>7. CASE Join
    BY <1>7 DEF Join
  <1>8. CASE Drain
    BY <1>8 DEF Drain
  <1>9. CASE Raise
    BY <1>9 DEF Raise, Fail
  <1>10. CASE Finally
    BY <1>10 DEF Finally
  <1>11. CASE Collect
    BY <1>11 DEF Collect, Fail
  <1>12. CASE StopAll
    BY <1>12 DEF StopAll
  <1>13. CASE NextRun
    BY <1>13 DEF NextRun
  <1>14. ASSUME NEW r \in 1 .. Runs, InjectFault(r) PROVE HostInv'
    BY <1>14 DEF InjectFault, To
  <1>15. ASSUME NEW r \in 1 .. Runs, RemoveFault(r) PROVE HostInv'
    BY <1>15 DEF RemoveFault, To
  <1>16. ASSUME NEW r \in 1 .. Runs, ScaleOut(r) PROVE HostInv'
    <2>1. r \in Mine /\ (pc \in {"done", "reset"} => r \in early)
      BY <1>16 DEF ScaleOut
    <2>2. /\ jvm'[2] = Up(r) /\ armed'[2] = 0
          /\ jvm'[1] = jvm[1] /\ armed'[1] = armed[1]
          /\ UNCHANGED <<run, pc, early, slow>>
      BY <1>16 DEF ScaleOut
    <2> QED BY <2>1, <2>2
  <1>17. ASSUME NEW r \in 1 .. Runs, ScaleAssigned(r) PROVE HostInv'
    BY <1>17 DEF ScaleAssigned, To
  <1>18. ASSUME NEW r \in 1 .. Runs, ArmGate(r) PROVE HostInv'
    BY <1>18 DEF ArmGate, To
  <1>19. ASSUME NEW r \in 1 .. Runs, GateTimeout(r) PROVE HostInv'
    BY <1>19 DEF GateTimeout, To
  <1>20. ASSUME NEW r \in 1 .. Runs, ResumeOwner(r) PROVE HostInv'
    BY <1>20 DEF ResumeOwner, To
  <1>21. ASSUME NEW r \in 1 .. Runs, NEW h \in Hosts, StopOwner(r, h) PROVE HostInv'
    BY <1>21 DEF StopOwner, To
  <1>22. ASSUME NEW r \in 1 .. Runs, NEW s \in Steps, StepFails(r, s) PROVE HostInv'
    BY <1>22 DEF StepFails, To, Fail
  <1>23. CASE UNCHANGED isolationVars
    BY <1>23 DEF isolationVars
  <1> QED
    BY <1>1, <1>2, <1>3, <1>4, <1>5, <1>6, <1>7, <1>8, <1>9, <1>10, <1>11, <1>12,
       <1>13, <1>14, <1>15, <1>16, <1>17, <1>18, <1>19, <1>20, <1>21, <1>22, <1>23
       DEF IsolationNext, Coordinator, Timed

(* What a step leaves on the hosts.                                            *)
LEMMA UndoStep ==
  ASSUME IsolationTypes, ThreadsEnd, HostInv, UndoInv, [IsolationNext]_isolationVars
  PROVE UndoInv'
  <1> USE IsolationConstants
      DEF IsolationTypes, ThreadsEnd, HostInv, UndoInv, NotBegun, Ended, Own, Mine, NoJvm, Up, Hosts, Steps,
          worldVars, execVars
  <1>1. CASE Reset
    BY <1>1 DEF Reset
  <1>2. CASE Start
    BY <1>2 DEF Start
  <1>3. CASE Launch
    BY <1>3 DEF Launch
  <1>4. CASE LoadEnds
    BY <1>4 DEF LoadEnds
  <1>5. CASE LoadDies
    BY <1>5 DEF LoadDies, Fail
  <1>6. CASE LoadDone
    BY <1>6 DEF LoadDone
  <1>7. CASE Join
    BY <1>7 DEF Join
  <1>8. CASE Drain
    BY <1>8 DEF Drain
  <1>9. CASE Raise
    BY <1>9 DEF Raise, Fail
  <1>10. CASE Finally
    BY <1>10 DEF Finally
  <1>11. CASE Collect
    BY <1>11 DEF Collect, Fail
  <1>12. CASE StopAll
    BY <1>12 DEF StopAll
  <1>13. CASE NextRun
    BY <1>13 DEF NextRun
  <1>14. ASSUME NEW r \in 1 .. Runs, InjectFault(r) PROVE UndoInv'
    BY <1>14 DEF InjectFault, To
  <1>15. ASSUME NEW r \in 1 .. Runs, RemoveFault(r) PROVE UndoInv'
    BY <1>15 DEF RemoveFault, To
  <1>16. ASSUME NEW r \in 1 .. Runs, ScaleOut(r) PROVE UndoInv'
    BY <1>16 DEF ScaleOut, To
  <1>17. ASSUME NEW r \in 1 .. Runs, ScaleAssigned(r) PROVE UndoInv'
    BY <1>17 DEF ScaleAssigned, To
  <1>18. ASSUME NEW r \in 1 .. Runs, ArmGate(r) PROVE UndoInv'
    BY <1>18 DEF ArmGate, To
  <1>19. ASSUME NEW r \in 1 .. Runs, GateTimeout(r) PROVE UndoInv'
    BY <1>19 DEF GateTimeout, To
  <1>20. ASSUME NEW r \in 1 .. Runs, ResumeOwner(r) PROVE UndoInv'
    BY <1>20 DEF ResumeOwner, To
  <1>21. ASSUME NEW r \in 1 .. Runs, NEW h \in Hosts, StopOwner(r, h) PROVE UndoInv'
    BY <1>21 DEF StopOwner, To
  <1>22. ASSUME NEW r \in 1 .. Runs, NEW s \in Steps, StepFails(r, s) PROVE UndoInv'
    BY <1>22 DEF StepFails, To, Fail
  <1>23. CASE UNCHANGED isolationVars
    BY <1>23 DEF isolationVars
  <1> QED
    BY <1>1, <1>2, <1>3, <1>4, <1>5, <1>6, <1>7, <1>8, <1>9, <1>10, <1>11, <1>12,
       <1>13, <1>14, <1>15, <1>16, <1>17, <1>18, <1>19, <1>20, <1>21, <1>22, <1>23
       DEF IsolationNext, Coordinator, Timed

(* The evidence of a run.                                                      *)
LEMMA EvidenceStep == IsolationTypes /\ EvidenceInv /\ [IsolationNext]_isolationVars => EvidenceInv'
  <1> SUFFICES ASSUME IsolationTypes /\ EvidenceInv, [IsolationNext]_isolationVars PROVE EvidenceInv'
    OBVIOUS
  <1> USE IsolationConstants DEF IsolationTypes, EvidenceInv, worldVars, execVars
  <1>1. CASE Reset
    BY <1>1 DEF Reset
  <1>2. CASE Start
    BY <1>2 DEF Start
  <1>3. CASE Launch
    BY <1>3 DEF Launch
  <1>4. CASE LoadEnds
    BY <1>4 DEF LoadEnds
  <1>5. CASE LoadDies
    BY <1>5 DEF LoadDies, Fail
  <1>6. CASE LoadDone
    BY <1>6 DEF LoadDone
  <1>7. CASE Join
    BY <1>7 DEF Join
  <1>8. CASE Drain
    BY <1>8 DEF Drain
  <1>9. CASE Raise
    BY <1>9 DEF Raise, Fail
  <1>10. CASE Finally
    BY <1>10 DEF Finally
  <1>11. CASE Collect
    BY <1>11 DEF Collect, Fail
  <1>12. CASE StopAll
    BY <1>12 DEF StopAll
  <1>13. CASE NextRun
    BY <1>13 DEF NextRun
  <1>14. ASSUME NEW r \in 1 .. Runs, InjectFault(r) PROVE EvidenceInv'
    BY <1>14 DEF InjectFault, To
  <1>15. ASSUME NEW r \in 1 .. Runs, RemoveFault(r) PROVE EvidenceInv'
    BY <1>15 DEF RemoveFault, To
  <1>16. ASSUME NEW r \in 1 .. Runs, ScaleOut(r) PROVE EvidenceInv'
    BY <1>16 DEF ScaleOut, To
  <1>17. ASSUME NEW r \in 1 .. Runs, ScaleAssigned(r) PROVE EvidenceInv'
    BY <1>17 DEF ScaleAssigned, To
  <1>18. ASSUME NEW r \in 1 .. Runs, ArmGate(r) PROVE EvidenceInv'
    BY <1>18 DEF ArmGate, To
  <1>19. ASSUME NEW r \in 1 .. Runs, GateTimeout(r) PROVE EvidenceInv'
    BY <1>19 DEF GateTimeout, To
  <1>20. ASSUME NEW r \in 1 .. Runs, ResumeOwner(r) PROVE EvidenceInv'
    BY <1>20 DEF ResumeOwner, To
  <1>21. ASSUME NEW r \in 1 .. Runs, NEW h \in Hosts, StopOwner(r, h) PROVE EvidenceInv'
    BY <1>21 DEF StopOwner, To
  <1>22. ASSUME NEW r \in 1 .. Runs, NEW s \in Steps, StepFails(r, s) PROVE EvidenceInv'
    BY <1>22 DEF StepFails, To, Fail
  <1>23. CASE UNCHANGED isolationVars
    BY <1>23 DEF isolationVars
  <1> QED
    BY <1>1, <1>2, <1>3, <1>4, <1>5, <1>6, <1>7, <1>8, <1>9, <1>10, <1>11, <1>12,
       <1>13, <1>14, <1>15, <1>16, <1>17, <1>18, <1>19, <1>20, <1>21, <1>22, <1>23
       DEF IsolationNext, Coordinator, Timed

(* Runs that follow each other on the same hosts do not disturb each other,    *)
(* whatever raises, unless a load generator ended early; a run that completed  *)
(* is drained on a system at rest, and nothing of it is left.                  *)
THEOREM RunsCorrect == IsolationSpec => [](IsolationTypeOK /\ RunsApart)
  <1>1. IsolationInv /\ [IsolationNext]_isolationVars => IsolationInv'
    BY IsolationTypeStep, LoadStep, HostStep, UndoStep, EvidenceStep DEF IsolationInv
  <1>2. IsolationInv => IsolationTypeOK /\ RunsApart
    <2> SUFFICES ASSUME IsolationInv PROVE IsolationTypeOK /\ RunsApart
      OBVIOUS
    <2> USE IsolationConstants DEF IsolationInv
    <2>1. IsolationTypeOK
      BY DEF IsolationTypeOK, IsolationTypes, EvidenceInv, Hosts
    <2>2. ForeignNeedsEarlyEnd
      BY DEF ForeignNeedsEarlyEnd, Working, HostInv, Own, Mine
    <2>3. RestoredBeforeDrain
      BY DEF RestoredBeforeDrain, IsolationTypes, HostInv, UndoInv, ThreadsEnd, Own, Mine, Ended, Steps, Hosts
    <2>4. NothingSurvives
      BY DEF NothingSurvives, HostInv, LoadInv
    <2> QED BY <2>1, <2>2, <2>3, <2>4 DEF RunsApart
  <1> QED BY <1>1, <1>2, IsolationStarts, PTL DEF IsolationSpec
-----------------------------------------------------------------------------
(* The delivery alert: the inductive invariant                                 *)

ObserverTypes ==
  /\ backlog = [age |-> backlog.age, overdue |-> backlog.overdue] /\ backlog.age \in 0 .. Stale + 1
  /\ episode \in -1 .. Grace + 1 /\ quiet \in 0 .. Stale + 2
  /\ previousState \in {"none", "NORMAL", "ALERT", "UNKNOWN"}

(* A snapshot that shows something overdue is no younger than that it was so.  *)
QuietInv ==
  /\ overdue => unresolved
  /\ unresolved => quiet = 0
  /\ backlog.overdue => quiet <= backlog.age \/ backlog.age = Stale + 1

(* In an undisturbed episode a snapshot that does not show it is older than    *)
(* it, and a sample that was NORMAL for that is soon followed by one that is   *)
(* not: the refresh in between came before the snapshot was stale.             *)
EpisodeInv ==
  episode # -1 /\ ~disturbed =>
    /\ overdue
    /\ ~backlog.overdue => backlog.age >= episode \/ backlog.age = Stale + 1
    /\ ~previousOverdue /\ previousState # "UNKNOWN" /\ backlog.overdue =>
         IF sampled THEN episode < Stale ELSE episode <= Stale

ObserverInv == ObserverTypes /\ QuietInv /\ EpisodeInv

(* Nothing is overdue yet.                                                     *)
LEMMA ObserverStarts == ObserverInit => ObserverInv
  BY ObserverAssumption DEF ObserverAssumption, ObserverInit, ObserverInv, ObserverTypes, QuietInv, EpisodeInv

(* A second at a time.                                                         *)
LEMMA ObserverStep == ObserverInv /\ [ObserverNext]_observerVars => ObserverInv'
  <1> SUFFICES ASSUME ObserverInv, [ObserverNext]_observerVars PROVE ObserverInv'
    OBVIOUS
  <1> USE ObserverAssumption
      DEF ObserverAssumption, ObserverInv, ObserverTypes, QuietInv, EpisodeInv, judgeVars, loopVars
  <1>1. CASE BecomesOverdue
    BY <1>1 DEF BecomesOverdue
  <1>2. CASE Delivered
    BY <1>2 DEF Delivered
  <1>3. CASE Resolved
    BY <1>3 DEF Resolved
  <1>4. CASE Refresh
    <2>1. /\ backlog' = [age |-> 0, overdue |-> unresolved]
          /\ disturbed' <=> (disturbed \/ backlog.age >= Stale)
          /\ UNCHANGED <<overdue, unresolved, quiet, episode, previousOverdue, previousState, sampled>>
      BY <1>4 DEF Refresh
    <2>2. /\ backlog'.age = 0 /\ (backlog'.overdue <=> unresolved)
          /\ backlog' = [age |-> backlog'.age, overdue |-> backlog'.overdue]
      BY <2>1
    <2>3. ObserverTypes'
      BY <2>1, <2>2
    <2>4. QuietInv'
      BY <2>1, <2>2
    <2>5. EpisodeInv'
      BY <2>1, <2>2
    <2> QED BY <2>3, <2>4, <2>5
  <1>5. CASE PauseRefresh
    BY <1>5 DEF PauseRefresh
  <1>6. CASE Sample
    <2> DEFINE valid == backlog.age <= Stale
               age == IF episode = -1 THEN 0 ELSE episode
    <2>1. /\ sampled' = TRUE /\ UNCHANGED <<overdue, unresolved, backlog, quiet>>
          /\ previousState' = Alert(valid)
          /\ previousOverdue' <=> (valid /\ backlog.overdue)
          /\ episode' = IF overdue THEN age ELSE -1
          /\ disturbed' <=> (disturbed /\ overdue /\ episode # -1)
      BY <1>6 DEF Sample, Judge
    <2>2. Alert(valid) \in {"NORMAL", "ALERT", "UNKNOWN"} /\ (~valid => Alert(valid) = "UNKNOWN")
      BY DEF Alert
    <2>3. ObserverTypes' /\ QuietInv'
      BY <2>1, <2>2
    <2>4. EpisodeInv'
      BY <2>1, <2>2
    <2> QED BY <2>3, <2>4
  <1>7. CASE SampleFails
    BY <1>7 DEF SampleFails
  <1>8. CASE Second
    <2>1. /\ ~sampled' /\ UNCHANGED <<overdue, unresolved, previousOverdue, previousState>>
          /\ episode' = IF episode = -1 THEN -1 ELSE Capped(episode, Grace + 1)
          /\ quiet' = IF unresolved THEN 0 ELSE Capped(quiet, Stale + 2)
          /\ disturbed' <=> (disturbed \/ ~sampled)
      BY <1>8 DEF Second
    <2>2. backlog' = [backlog EXCEPT !.age = Capped(backlog.age, Stale + 1)]
      BY <1>8 DEF Second
    <2>3. /\ backlog' = [age |-> backlog'.age, overdue |-> backlog'.overdue]
          /\ backlog'.age = Capped(backlog.age, Stale + 1) /\ backlog'.overdue = backlog.overdue
      BY <2>2
    <2>4. ObserverTypes' /\ QuietInv'
      BY <2>1, <2>3 DEF Capped
    <2>5. EpisodeInv'
      BY <2>1, <2>3 DEF Capped
    <2> QED BY <2>4, <2>5
  <1>9. CASE UNCHANGED observerVars
    BY <1>9 DEF observerVars
  <1> QED BY <1>1, <1>2, <1>3, <1>4, <1>5, <1>6, <1>7, <1>8, <1>9 DEF ObserverNext

(* check.py counts an alert as missed only when a sample or a refresh was      *)
(* late or the truth went away in between, and an alert outlives the overdue   *)
(* operation by no more than the age a snapshot may have.                      *)
THEOREM AlertsCorrect == ObserverSpec => AlertHonest
  <1> DEFINE Honest ==
        /\ missed' /\ ~missed => disturbed
        /\ ~sampled /\ sampled' /\ previousState' = "ALERT" => quiet <= Stale
  <1>1. ObserverInv /\ [ObserverNext]_observerVars => [Honest]_observerVars
    <2> SUFFICES ASSUME ObserverInv, ObserverNext PROVE Honest
      OBVIOUS
    <2> USE ObserverAssumption
        DEF ObserverAssumption, ObserverInv, ObserverTypes, QuietInv, EpisodeInv, judgeVars, loopVars
    <2>1. CASE Sample
      <3> DEFINE valid == backlog.age <= Stale
                 age == IF episode = -1 THEN 0 ELSE episode
      <3>1. /\ previousState' = Alert(valid)
            /\ missed' <=> (missed \/ (overdue /\ Alert(valid) = "NORMAL" /\ age > Grace))
        BY <2>1 DEF Sample, Judge
      <3>2. Alert(valid) = "ALERT" => valid /\ backlog.overdue
        BY DEF Alert
      <3>3. Alert(valid) = "NORMAL" =>
              valid /\ (backlog.overdue => ~previousOverdue /\ previousState # "UNKNOWN")
        BY DEF Alert
      <3>4. ~sampled
        BY <2>1 DEF Sample
      <3> QED BY <3>1, <3>2, <3>3, <3>4
    <2>2. CASE ~Sample
      BY <2>2 DEF ObserverNext, BecomesOverdue, Delivered, Resolved, Refresh, PauseRefresh, SampleFails, Second
    <2> QED BY <2>1, <2>2
  <1> QED BY <1>1, ObserverStarts, ObserverStep, PTL DEF ObserverSpec, AlertHonest

(* What a sample or a refresh leaves is a truth value, and an alert was given  *)
(* to a sample that showed something overdue.                                  *)
ObserverFlags ==
  /\ overdue \in BOOLEAN /\ unresolved \in BOOLEAN /\ refreshing \in BOOLEAN
  /\ previousOverdue \in BOOLEAN /\ sampled \in BOOLEAN
  /\ missed \in BOOLEAN /\ disturbed \in BOOLEAN

ConfirmedInv == previousState = "ALERT" => previousOverdue

(* Every assignment to a flag is a condition.                                  *)
LEMMA ObserverFlagsStep == ObserverFlags /\ [ObserverNext]_observerVars => ObserverFlags'
  <1> SUFFICES ASSUME ObserverFlags, [ObserverNext]_observerVars PROVE ObserverFlags'
    OBVIOUS
  <1> USE DEF ObserverFlags, judgeVars, loopVars
  <1>1. CASE BecomesOverdue
    BY <1>1, Zenon DEF BecomesOverdue
  <1>2. CASE Delivered
    BY <1>2, Zenon DEF Delivered
  <1>3. CASE Resolved
    BY <1>3, Zenon DEF Resolved
  <1>4. CASE Refresh
    BY <1>4, Zenon DEF Refresh
  <1>5. CASE PauseRefresh
    BY <1>5, Zenon DEF PauseRefresh
  <1>6. CASE Sample
    BY <1>6, Zenon DEF Sample, Judge
  <1>7. CASE SampleFails
    BY <1>7, Zenon DEF SampleFails
  <1>8. CASE Second
    BY <1>8, Zenon DEF Second
  <1>9. CASE UNCHANGED observerVars
    BY <1>9, Zenon DEF observerVars
  <1> QED BY <1>1, <1>2, <1>3, <1>4, <1>5, <1>6, <1>7, <1>8, <1>9, Zenon DEF ObserverNext

(* The state and the confirmation come from one sample.                        *)
LEMMA ConfirmedStep == ConfirmedInv /\ [ObserverNext]_observerVars => ConfirmedInv'
  <1> SUFFICES ASSUME ConfirmedInv, [ObserverNext]_observerVars PROVE ConfirmedInv'
    OBVIOUS
  <1> USE DEF ConfirmedInv
  <1>1. CASE Sample
    BY <1>1 DEF Sample, Alert
  <1>2. CASE SampleFails
    BY <1>2 DEF SampleFails
  <1>3. CASE ~Sample /\ ~SampleFails
    BY <1>3 DEF ObserverNext, BecomesOverdue, Delivered, Resolved, Refresh, PauseRefresh, Second,
                loopVars, observerVars
  <1> QED BY <1>1, <1>2, <1>3

(* The observer's state is of its types: no age runs past the bound that the   *)
(* alert tells apart, an alert rests on a valid sample that showed something   *)
(* overdue, and what is overdue is unresolved.                                 *)
THEOREM ObserverTypesCorrect == ObserverSpec => []ObserverTypeOK
  <1>1. ObserverInit => ObserverFlags /\ ConfirmedInv
    BY DEF ObserverInit, ObserverFlags, ConfirmedInv
  <1>2. ObserverInv /\ ObserverFlags /\ ConfirmedInv => ObserverTypeOK
    <2> SUFFICES ASSUME ObserverInv, ObserverFlags, ConfirmedInv PROVE ObserverTypeOK
      OBVIOUS
    <2>1. {overdue, unresolved, refreshing, previousOverdue, sampled, missed, disturbed} \subseteq BOOLEAN
      BY Zenon DEF ObserverFlags
    <2> QED BY <2>1 DEF ObserverTypeOK, ObserverInv, ObserverTypes, QuietInv, ConfirmedInv
  <1> QED BY <1>1, <1>2, ObserverStarts, ObserverStep, ObserverFlagsStep, ConfirmedStep, PTL DEF ObserverSpec
-----------------------------------------------------------------------------
(* load.py and the liveness verdict: the inductive invariant                   *)

(* The last try of an event.                                                   *)
LastTry(e) == request[e][tries[e]]

DeliveryTypes ==
  /\ DeliveryTypeOK
  /\ request \in [Planned -> [1 .. MaxTries -> {"unsent", "sent", "fresh", "known", "ok", "refused", "error"}]]
  /\ DOMAIN waiting = Planned /\ \A e \in Planned : waiting[e] => tries[e] > 0

(* Of an event that never had two requests at the source at once only the last *)
(* can be there, and it is refused, if it is, before the event is taken.       *)
SourceInv ==
  \A e \in Planned :
    /\ \A n \in 1 .. MaxTries : request[e][n] \in {"ok", "known"} => e \in taken
    /\ e \notin twice =>
         /\ AtSource(e) \subseteq {tries[e]}
         /\ tries[e] > 0 /\ LastTry(e) \in {"fresh", "refused"} => e \notin taken

(* A record tells the answer to the last try.                                  *)
RecordInv ==
  \A e \in Planned :
    /\ record[e] = "ok" => e \in taken
    /\ record[e] = "refused" => tries[e] > 0 /\ LastTry(e) = "refused"

(* The files hold what was there when they were read.                          *)
FileInv ==
  /\ stage # "load" => loadFile = OldFile \/ (loadFile = record /\ \A e \in Planned : record[e] # "none")
  /\ stage = "done" /\ dbFile.there =>
       \A e \in Planned : record[e] = "ok" => e \in finished \/ e \in dbFile.openInbox

DeliveryInv == DeliveryTypes /\ SourceInv /\ RecordInv /\ FileInv

(* What the provers need of the constants.                                     *)
LEMMA DeliveryConstants ==
  IsFiniteSet(Planned) /\ MaxTries \in Nat \ {0} /\ Room \in Nat /\ MaxLost \in Nat
  BY DeliveryAssumption DEF DeliveryAssumption

(* Nothing is sent yet.                                                        *)
LEMMA DeliveryStarts == DeliveryInit => DeliveryInv
  BY DeliveryConstants DEF DeliveryInit, DeliveryStart, DeliveryInv, DeliveryTypes, DeliveryTypeOK, SourceInv,
     RecordInv, FileInv, AtSource, LastTry

(* Types, action by action.                                                    *)
LEMMA DeliveryTypeStep == DeliveryTypes /\ [DeliveryNext]_deliveryVars => DeliveryTypes'
  <1> SUFFICES ASSUME DeliveryTypes, [DeliveryNext]_deliveryVars PROVE DeliveryTypes'
    OBVIOUS
  <1> USE DeliveryConstants DEF DeliveryTypes, DeliveryTypeOK, collectVars, senderVars
  <1>1. ASSUME NEW e \in Planned, Post(e) PROVE DeliveryTypes'
    BY <1>1 DEF Post, AtSource
  <1>2. ASSUME NEW e \in Planned, ReceiveAnswer(e) PROVE DeliveryTypes'
    BY <1>2 DEF ReceiveAnswer, RecordOrRetry
  <1>3. ASSUME NEW e \in Planned, LoseAnswer(e) PROVE DeliveryTypes'
    BY <1>3 DEF LoseAnswer, RecordOrRetry
  <1>4. ASSUME NEW e \in Planned, NEW n \in 1 .. MaxTries, SourceBegin(e, n) PROVE DeliveryTypes'
    BY <1>4 DEF SourceBegin
  <1>5. ASSUME NEW e \in Planned, NEW n \in 1 .. MaxTries, SourceEnd(e, n) PROVE DeliveryTypes'
    BY <1>5 DEF SourceEnd
  <1>6. ASSUME NEW e \in Planned, DeliverEffect(e) PROVE DeliveryTypes'
    BY <1>6 DEF DeliverEffect
  <1>7. ASSUME NEW e \in Planned, FinishInbox(e) PROVE DeliveryTypes'
    BY <1>7 DEF FinishInbox
  <1>8. ASSUME NEW good \in BOOLEAN, CollectLoad(good) PROVE DeliveryTypes'
    BY <1>8 DEF CollectLoad
  <1>9. ASSUME NEW good \in BOOLEAN, CollectEffects(good) PROVE DeliveryTypes'
    BY <1>9 DEF CollectEffects
  <1>10. ASSUME NEW good \in BOOLEAN, CollectDb(good) PROVE DeliveryTypes'
    BY <1>10 DEF CollectDb
  <1>11. CASE UNCHANGED deliveryVars
    BY <1>11 DEF deliveryVars
  <1> QED BY <1>1, <1>2, <1>3, <1>4, <1>5, <1>6, <1>7, <1>8, <1>9, <1>10, <1>11
      DEF DeliveryNext, SenderStep

(* The tries of an event at the source.                                        *)
LEMMA SourceStep == DeliveryTypes /\ SourceInv /\ [DeliveryNext]_deliveryVars => SourceInv'
  <1> SUFFICES ASSUME DeliveryTypes /\ SourceInv, [DeliveryNext]_deliveryVars PROVE SourceInv'
    OBVIOUS
  <1> USE DeliveryConstants
      DEF DeliveryTypes, DeliveryTypeOK, SourceInv, AtSource, LastTry, collectVars, senderVars
  <1>1. ASSUME NEW e \in Planned, Post(e) PROVE SourceInv'
    BY <1>1 DEF Post, AtSource
  <1>2. ASSUME NEW e \in Planned, ReceiveAnswer(e) PROVE SourceInv'
    BY <1>2 DEF ReceiveAnswer, RecordOrRetry
  <1>3. ASSUME NEW e \in Planned, LoseAnswer(e) PROVE SourceInv'
    BY <1>3 DEF LoseAnswer, RecordOrRetry
  <1>4. ASSUME NEW e \in Planned, NEW n \in 1 .. MaxTries, SourceBegin(e, n) PROVE SourceInv'
    BY <1>4 DEF SourceBegin
  <1>5. ASSUME NEW e \in Planned, NEW n \in 1 .. MaxTries, SourceEnd(e, n) PROVE SourceInv'
    BY <1>5 DEF SourceEnd
  <1>6. ASSUME NEW e \in Planned, DeliverEffect(e) PROVE SourceInv'
    BY <1>6 DEF DeliverEffect
  <1>7. ASSUME NEW e \in Planned, FinishInbox(e) PROVE SourceInv'
    BY <1>7 DEF FinishInbox
  <1>8. ASSUME NEW good \in BOOLEAN, CollectLoad(good) PROVE SourceInv'
    BY <1>8 DEF CollectLoad
  <1>9. ASSUME NEW good \in BOOLEAN, CollectEffects(good) PROVE SourceInv'
    BY <1>9 DEF CollectEffects
  <1>10. ASSUME NEW good \in BOOLEAN, CollectDb(good) PROVE SourceInv'
    BY <1>10 DEF CollectDb
  <1>11. CASE UNCHANGED deliveryVars
    BY <1>11 DEF deliveryVars
  <1> QED BY <1>1, <1>2, <1>3, <1>4, <1>5, <1>6, <1>7, <1>8, <1>9, <1>10, <1>11
      DEF DeliveryNext, SenderStep

(* The records.                                                                *)
LEMMA RecordStep == DeliveryTypes /\ SourceInv /\ RecordInv /\ [DeliveryNext]_deliveryVars => RecordInv'
  <1> SUFFICES ASSUME DeliveryTypes /\ SourceInv /\ RecordInv, [DeliveryNext]_deliveryVars PROVE RecordInv'
    OBVIOUS
  <1> USE DeliveryConstants
      DEF DeliveryTypes, DeliveryTypeOK, SourceInv, RecordInv, LastTry, collectVars, senderVars
  <1>1. ASSUME NEW e \in Planned, Post(e) PROVE RecordInv'
    BY <1>1 DEF Post, AtSource
  <1>2. ASSUME NEW e \in Planned, ReceiveAnswer(e) PROVE RecordInv'
    BY <1>2 DEF ReceiveAnswer, RecordOrRetry
  <1>3. ASSUME NEW e \in Planned, LoseAnswer(e) PROVE RecordInv'
    BY <1>3 DEF LoseAnswer, RecordOrRetry
  <1>4. ASSUME NEW e \in Planned, NEW n \in 1 .. MaxTries, SourceBegin(e, n) PROVE RecordInv'
    BY <1>4 DEF SourceBegin
  <1>5. ASSUME NEW e \in Planned, NEW n \in 1 .. MaxTries, SourceEnd(e, n) PROVE RecordInv'
    BY <1>5 DEF SourceEnd
  <1>6. ASSUME NEW e \in Planned, DeliverEffect(e) PROVE RecordInv'
    BY <1>6 DEF DeliverEffect
  <1>7. ASSUME NEW e \in Planned, FinishInbox(e) PROVE RecordInv'
    BY <1>7 DEF FinishInbox
  <1>8. ASSUME NEW good \in BOOLEAN, CollectLoad(good) PROVE RecordInv'
    BY <1>8 DEF CollectLoad
  <1>9. ASSUME NEW good \in BOOLEAN, CollectEffects(good) PROVE RecordInv'
    BY <1>9 DEF CollectEffects
  <1>10. ASSUME NEW good \in BOOLEAN, CollectDb(good) PROVE RecordInv'
    BY <1>10 DEF CollectDb
  <1>11. CASE UNCHANGED deliveryVars
    BY <1>11 DEF deliveryVars
  <1> QED BY <1>1, <1>2, <1>3, <1>4, <1>5, <1>6, <1>7, <1>8, <1>9, <1>10, <1>11
      DEF DeliveryNext, SenderStep

(* The files.                                                                  *)
LEMMA FileStep == DeliveryTypes /\ RecordInv /\ FileInv /\ [DeliveryNext]_deliveryVars => FileInv'
  <1> SUFFICES ASSUME DeliveryTypes /\ RecordInv /\ FileInv, [DeliveryNext]_deliveryVars PROVE FileInv'
    OBVIOUS
  <1> USE DeliveryConstants DEF DeliveryTypes, DeliveryTypeOK, RecordInv, FileInv, collectVars, senderVars
  <1>1. ASSUME NEW e \in Planned, Post(e) PROVE FileInv'
    BY <1>1 DEF Post, AtSource
  <1>2. ASSUME NEW e \in Planned, ReceiveAnswer(e) PROVE FileInv'
    BY <1>2 DEF ReceiveAnswer, RecordOrRetry
  <1>3. ASSUME NEW e \in Planned, LoseAnswer(e) PROVE FileInv'
    BY <1>3 DEF LoseAnswer, RecordOrRetry
  <1>4. ASSUME NEW e \in Planned, NEW n \in 1 .. MaxTries, SourceBegin(e, n) PROVE FileInv'
    BY <1>4 DEF SourceBegin
  <1>5. ASSUME NEW e \in Planned, NEW n \in 1 .. MaxTries, SourceEnd(e, n) PROVE FileInv'
    BY <1>5 DEF SourceEnd
  <1>6. ASSUME NEW e \in Planned, DeliverEffect(e) PROVE FileInv'
    BY <1>6 DEF DeliverEffect
  <1>7. ASSUME NEW e \in Planned, FinishInbox(e) PROVE FileInv'
    BY <1>7 DEF FinishInbox
  <1>8. ASSUME NEW good \in BOOLEAN, CollectLoad(good) PROVE FileInv'
    BY <1>8 DEF CollectLoad
  <1>9. ASSUME NEW good \in BOOLEAN, CollectEffects(good) PROVE FileInv'
    BY <1>9 DEF CollectEffects
  <1>10. ASSUME NEW good \in BOOLEAN, CollectDb(good) PROVE FileInv'
    BY <1>10 DEF CollectDb
  <1>11. CASE UNCHANGED deliveryVars
    BY <1>11 DEF deliveryVars
  <1> QED BY <1>1, <1>2, <1>3, <1>4, <1>5, <1>6, <1>7, <1>8, <1>9, <1>10, <1>11
      DEF DeliveryNext, SenderStep

(* Two finite sets of which the smaller in size is the larger.                 *)
LEMMA AllRefused ==
  ASSUME IsFiniteSet(Planned), NEW S, NEW T, T \subseteq S, S \subseteq Planned,
         Cardinality(S) <= Cardinality(T)
  PROVE S = T
  <1>1. IsFiniteSet(S)
    BY FS_Subset
  <1>2. IsFiniteSet(T) /\ Cardinality(T) <= Cardinality(S) /\ (Cardinality(S) = Cardinality(T) => S = T)
    BY <1>1, FS_Subset
  <1>3. Cardinality(S) \in Nat /\ Cardinality(T) \in Nat
    BY <1>1, <1>2, FS_CardinalityType
  <1> QED BY <1>2, <1>3

(* An event recorded with 200 has its obligation, one recorded as refused has  *)
(* none unless two of its requests met at the source; and a run passed on      *)
(* complete evidence left nothing behind but what the records call refused.    *)
THEOREM RecordsCorrect == LoadSpec => [](DeliveryTypeOK /\ RecordsTrue)
  <1>1. DeliveryInv /\ [DeliveryNext]_deliveryVars => DeliveryInv'
    BY DeliveryTypeStep, SourceStep, RecordStep, FileStep DEF DeliveryInv
  <1>2. DeliveryInv => DeliveryTypeOK /\ RecordsTrue
    <2> SUFFICES ASSUME DeliveryInv PROVE DeliveryTypeOK /\ RecordsTrue
      OBVIOUS
    <2> USE DEF DeliveryInv
    <2>1. DeliveryTypeOK
      BY DEF DeliveryTypes
    <2>2. RecordsTellTheSource
      BY DEF RecordsTellTheSource, DeliveryTypes, SourceInv, RecordInv
    <2>3. PassedMeansFinished
      <3> SUFFICES ASSUME Verdict, LivenessPassed, dbFile.there, NEW e \in taken, loadFile[e] # "refused"
                   PROVE e \in finished
        BY DEF PassedMeansFinished
      <3>1. stage = "done" /\ loadFile = record /\ e \in Planned
        BY DEF Verdict, FileInv, DeliveryTypes, DeliveryTypeOK
      <3>2. Planned \ Recorded("ok") = Recorded("refused")
        <4>1. Recorded("refused") \subseteq Planned \ Recorded("ok")
          BY DEF Recorded
        <4>2. Cardinality(Planned \ Recorded("ok")) <= Cardinality(Recorded("refused"))
          BY DEF LivenessPassed
        <4> QED BY <4>1, <4>2, AllRefused, DeliveryConstants
      <3>3. record[e] = "ok"
        BY <3>1, <3>2 DEF Recorded
      <3>4. e \notin dbFile.openInbox
        BY <3>1, <3>3 DEF LivenessPassed, Recorded
      <3> QED BY <3>1, <3>3, <3>4 DEF FileInv
    <2> QED BY <2>1, <2>2, <2>3 DEF RecordsTrue
  <1> QED BY <1>1, <1>2, DeliveryStarts, PTL DEF LoadSpec
-----------------------------------------------------------------------------
(* isolation/suite.py: the inductive invariant                                 *)

Outcomes == Results \cup {NoResult}

SuiteTypes ==
  /\ remaining \in Int /\ stageNo \in 1 .. 6 /\ rate \in {0, 40, 80} /\ tested \in 0 .. 4
  /\ block \in 1 .. Blocks(Stages[stageNo]) /\ todo \subseteq Cells(Stages[stageNo])
  /\ results \in [ALL -> Seq(Outcomes)]
  /\ best \in KAFKA \cup {"none"}
  /\ status \in {"g0", "running", "select", "done", "stopped", "died"}

(* The instruments are tested before anything is run.                          *)
TestedInv ==
  /\ listed # {} \/ status \in {"running", "select", "done"} => sound /\ tested = 4
  /\ status = "g0" => listed = {} /\ remaining > (4 - tested) * TestMinutes
  /\ status = "stopped" => listed = {}

(* The choice is made once, between E1 and E2, when E1 is complete.            *)
ChoiceInv ==
  /\ stageNo = 1 => best = "none" /\ \A c \in ALL : results[c] = <<>>
  /\ stageNo = 2 /\ best = "none" =>
       \A c \in ALL : Len(results[c]) = IF <<c, "none">> \in todo THEN block - 1 ELSE block
  /\ status = "select" => stageNo = 2 /\ block = Seeds /\ todo = {} /\ best = "none"

Noted(i, b, c) == \E n \in listed : n.stage = Stages[i] /\ n.block = b /\ n.cell = c

(* Every item of the plan up to where it is has its note.                      *)
ListedInv ==
  /\ \A i \in 1 .. stageNo : \A b \in 1 .. Blocks(Stages[i]), c \in Cells(Stages[i]) :
       \/ i = stageNo /\ (b > block \/ (b = block /\ c \in todo))
       \/ Noted(i, b, c)
  /\ status = "done" => todo = {} /\ block = Blocks(Stages[stageNo])

SuiteInv == SuiteTypes /\ TestedInv /\ ChoiceInv /\ ListedInv /\ BudgetHolds /\ DiesForWantOfEvidence

(* What the provers need of the constants.                                     *)
LEMMA SuiteConstants ==
  /\ Seeds \in Nat \ {0} /\ Budgets \subseteq Nat /\ TestMinutes \in Nat
  /\ \A b \in Budgets : b > 4 * TestMinutes
  /\ Overruns \subseteq Nat /\ Overruns # {}
  /\ Minutes \in [{"c0", "e1", "e2", "e3", "e4", "e1x"} -> Nat \ {0}]
  /\ Results \subseteq [there : BOOLEAN, safe : BOOLEAN, miss : Seq(Int)]
  BY SuiteAssumption DEF SuiteAssumption

(* The stages by their numbers, and how many blocks each has.                  *)
LEMMA StageFacts ==
  /\ Stages[1] = "c0" /\ Stages[2] = "e1" /\ Stages[3] = "e2" /\ Stages[4] = "e3" /\ Stages[5] = "e4"
  /\ Stages[6] = "e1x" /\ Len(Stages) = 6 /\ DOMAIN Stages = 1 .. 6 /\ Len(Instruments) = 4
  /\ \A i \in 1 .. 6 : Stages[i] \in {"c0", "e1", "e2", "e3", "e4", "e1x"} /\ Blocks(Stages[i]) \in Nat \ {0}
  /\ \A i, j \in 1 .. 6 : Stages[i] = Stages[j] => i = j
  /\ Blocks("e1") = Seeds
  BY SuiteConstants DEF Stages, Instruments, Blocks

(* The cells of a block: those of C0 and E1 do not depend on the choice.       *)
LEMMA CellFacts ==
  /\ Cells("c0") = ALL \X {"none"} /\ Cells("e1") = ALL \X {"none"}
  /\ \A st : UNCHANGED <<best, final>> => Cells(st)' = Cells(st)
  /\ Cells("c0")' = Cells("c0") /\ Cells("e1")' = Cells("e1")
  BY DEF Cells

(* The budget is larger than what G0 takes.                                    *)
LEMMA SuiteStarts == SuiteInit => SuiteInv
  <1> SUFFICES ASSUME SuiteInit PROVE SuiteInv
    OBVIOUS
  <1> USE SuiteConstants, StageFacts, CellFacts DEF SuiteInit
  <1>1. SuiteTypes
    BY DEF SuiteTypes, Blocks, KAFKA
  <1>2. TestedInv /\ ChoiceInv
    BY DEF TestedInv, ChoiceInv
  <1>3. ListedInv
    BY DEF ListedInv, Blocks
  <1>4. BudgetHolds
    <2>1. PICK late \in Overruns : late \in Nat
      OBVIOUS
    <2>2. remaining \in Nat /\ remaining > 4 * TestMinutes
      OBVIOUS
    <2>3. remaining >= 1 - late
      BY <2>1, <2>2
    <2> QED BY <2>1, <2>3 DEF BudgetHolds
  <1>5. DiesForWantOfEvidence
    BY DEF DiesForWantOfEvidence
  <1> QED BY <1>1, <1>2, <1>3, <1>4, <1>5 DEF SuiteInv

(* Notes are never taken back.                                                 *)
LEMMA NotesKept ==
  ASSUME SuiteTypes, ListedInv, listed \subseteq listed', UNCHANGED <<stageNo, block, todo>>,
         \A i \in 1 .. stageNo : Cells(Stages[i])' = Cells(Stages[i]), status' # "done"
  PROVE ListedInv'
  <1>1. \A i, b, c : Noted(i, b, c) => Noted(i, b, c)'
    BY DEF Noted
  <1> QED BY <1>1 DEF ListedInv

(* A test of G0 takes its part of the budget and nothing else.                 *)
LEMMA TestsStep ==
  ASSUME SuiteInv, NEW instrument, NEW outcomes, Tests(instrument, outcomes)
  PROVE SuiteInv'
  <1> USE SuiteConstants, StageFacts, CellFacts DEF SuiteInv
  <1>1. /\ status = "g0" /\ tested < 4 /\ tested' = tested + 1 /\ remaining' = remaining - TestMinutes
        /\ status' \in {"g0", "died"} /\ UNCHANGED planVars
    BY DEF Tests
  <1>2. SuiteTypes'
    BY <1>1 DEF SuiteTypes, planVars, Blocks
  <1>3. remaining > TestMinutes /\ remaining' > (4 - tested') * TestMinutes
    <2>1. tested \in {0, 1, 2, 3} /\ remaining > (4 - tested) * TestMinutes /\ remaining \in Int
      BY <1>1 DEF TestedInv, SuiteTypes
    <2> QED BY <1>1, <2>1
  <1>4. TestedInv'
    BY <1>1, <1>3 DEF TestedInv, planVars
  <1>5. ChoiceInv'
    BY <1>1 DEF ChoiceInv, planVars
  <1>6. ListedInv'
    BY <1>1, NotesKept DEF planVars
  <1>7. BudgetHolds'
    <2>1. PICK late \in Overruns : late \in Nat
      OBVIOUS
    <2>2. remaining' \in Int /\ remaining' > 0
      BY <1>1, <1>3 DEF SuiteTypes
    <2>3. remaining' >= 1 - late
      BY <2>1, <2>2
    <2> QED BY <2>1, <2>3 DEF BudgetHolds
  <1>8. DiesForWantOfEvidence'
    <2>1. listed' = {}
      BY <1>1 DEF TestedInv, planVars
    <2> QED BY <2>1 DEF DiesForWantOfEvidence
  <1> QED BY <1>2, <1>4, <1>5, <1>6, <1>7, <1>8

(* What is chosen for E3 is a Kafka candidate.                                 *)
LEMMA BestIsKafka == Best \in KAFKA
  <1>1. Eligible \subseteq KAFKA /\ Eligible # {}
    BY DEF Eligible, KAFKA
  <1> QED BY <1>1 DEF Best, KAFKA

(* The choice is made on the results of E1, which are then forgotten.          *)
LEMMA PickStep == SuiteInv /\ Pick => SuiteInv'
  <1> SUFFICES ASSUME SuiteInv, Pick PROVE SuiteInv'
    OBVIOUS
  <1> USE SuiteConstants, StageFacts, CellFacts DEF SuiteInv
  <1>1. /\ status = "select" /\ stageNo = 2 /\ best = "none"
        /\ UNCHANGED <<remaining, tested, sound, stageNo, block, todo, stable, rate, listed>>
    BY DEF Pick, ChoiceInv, g0Vars
  <1>2. CASE PickRaises
    <2>1. status' = "died" /\ UNCHANGED <<best, final, results>>
      BY <1>2 DEF Pick
    <2>2. \E c \in ALL : NoMedian(c)
      BY <1>2 DEF PickRaises, Eligible, KAFKA, ALL
    <2>3. SuiteTypes' /\ TestedInv'
      BY <1>1, <2>1 DEF SuiteTypes, TestedInv, Blocks
    <2>4. ChoiceInv' /\ ListedInv'
      BY <1>1, <2>1 DEF ChoiceInv, ListedInv, Blocks, Noted
    <2>5. BudgetHolds' /\ DiesForWantOfEvidence'
      BY <1>1, <2>1, <2>2 DEF BudgetHolds, DiesForWantOfEvidence, NoMedian
    <2> QED BY <2>3, <2>4, <2>5
  <1>3. CASE ~PickRaises
    <2>1. status' = "running" /\ best' \in KAFKA /\ results' = [c \in ALL |-> <<>>]
      BY <1>3, BestIsKafka DEF Pick
    <2>2. SuiteTypes' /\ TestedInv'
      BY <1>1, <2>1 DEF SuiteTypes, TestedInv, Blocks
    <2>3. ChoiceInv'
      BY <1>1, <2>1 DEF ChoiceInv, KAFKA
    <2>4. ListedInv'
      <3>1. \A i \in 1 .. stageNo : Cells(Stages[i])' = Cells(Stages[i])
        BY <1>1
      <3> QED BY <1>1, <2>1, <3>1, NotesKept
    <2>5. BudgetHolds' /\ DiesForWantOfEvidence'
      BY <1>1, <2>1 DEF BudgetHolds, DiesForWantOfEvidence
    <2> QED BY <2>2, <2>3, <2>4, <2>5
  <1> QED BY <1>2, <1>3

(* G0 is through.                                                              *)
LEMMA G0Step == SuiteInv /\ g0 => SuiteInv'
  <1> SUFFICES ASSUME SuiteInv, g0 PROVE SuiteInv'
    OBVIOUS
  <1> USE SuiteConstants, StageFacts, CellFacts DEF SuiteInv
  <1>1. /\ status = "g0" /\ tested = 4 /\ status' \in {"running", "stopped"} /\ (status' = "running" => sound)
        /\ UNCHANGED <<remaining, tested, sound, stageNo, block, todo, results, stable, rate, best, final, listed>>
    BY DEF g0, g0Vars, planVars
  <1>2. SuiteTypes' /\ TestedInv' /\ ChoiceInv'
    BY <1>1 DEF SuiteTypes, TestedInv, ChoiceInv
  <1>3. ListedInv'
    BY <1>1, NotesKept
  <1>4. BudgetHolds' /\ DiesForWantOfEvidence'
    BY <1>1 DEF BudgetHolds, DiesForWantOfEvidence
  <1> QED BY <1>2, <1>3, <1>4

(* An item of the plan is noted, run or not run, and its result is kept in E1. *)
LEMMA ItemStep ==
  ASSUME SuiteInv, NEW c \in todo, NEW r \in Outcomes, NEW event, status = "running", Note(c, event),
         todo' = todo \ {c}, Keep(c, r), UNCHANGED <<tested, sound, stageNo, block, rate, best, final>>,
         status' \in {"running", "died"}, remaining' \in Int
  PROVE SuiteTypes' /\ TestedInv' /\ ChoiceInv' /\ ListedInv'
  <1> USE SuiteConstants, StageFacts, CellFacts DEF SuiteInv
  <1> DEFINE note == [stage |-> Stages[stageNo], block |-> block, cell |-> c, event |-> event]
  <1>1. listed' = listed \cup {note}
    BY DEF Note
  <1>2. stageNo # 2 => results' = results
    <2>1. stageNo \in 1 .. 6
      BY DEF SuiteTypes
    <2>2. Stages[stageNo] = "e1" => stageNo = 2
      BY <2>1, 2 \in 1 .. 6
    <2> QED BY <2>2 DEF Keep
  <1>3. ASSUME stageNo = 2
        PROVE /\ c = <<c[1], "none">> /\ c[1] \in ALL
              /\ results' = [results EXCEPT ![c[1]] = Append(results[c[1]], r)]
    <2>1. c \in ALL \X {"none"}
      BY <1>3 DEF SuiteTypes
    <2> QED BY <1>3, <2>1 DEF Keep
  <1>4. results' \in [ALL -> Seq(Outcomes)]
    <2>1. CASE stageNo = 2
      <3>1. Append(results[c[1]], r) \in Seq(Outcomes)
        BY <1>3, <2>1, AppendProperties DEF SuiteTypes
      <3> QED BY <1>3, <2>1, <3>1 DEF SuiteTypes
    <2>2. CASE stageNo # 2
      BY <1>2, <2>2 DEF SuiteTypes
    <2> QED BY <2>1, <2>2
  <1>5. SuiteTypes'
    <2>1. Cells(Stages[stageNo])' = Cells(Stages[stageNo])
      BY DEF SuiteTypes
    <2> QED BY <1>4, <2>1 DEF SuiteTypes
  <1>6. TestedInv'
    BY <1>1 DEF TestedInv
  <1>7. ChoiceInv'
    <2>1. CASE stageNo = 2 /\ best = "none"
      <3>1. /\ results[c[1]] \in Seq(Outcomes) /\ Len(results[c[1]]) = block - 1
        BY <1>3, <2>1 DEF SuiteTypes, ChoiceInv
      <3>2. Len(Append(results[c[1]], r)) = block
        BY <3>1, AppendProperties DEF SuiteTypes
      <3>3. ASSUME NEW d \in ALL PROVE Len(results'[d]) = IF <<d, "none">> \in todo' THEN block - 1 ELSE block
        <4>1. CASE d = c[1]
          BY <1>3, <2>1, <3>2, <4>1 DEF SuiteTypes
        <4>2. CASE d # c[1]
          <5>1. <<d, "none">> # c /\ results'[d] = results[d]
            BY <1>3, <2>1, <4>2 DEF SuiteTypes
          <5> QED BY <2>1, <5>1 DEF ChoiceInv
        <4> QED BY <4>1, <4>2
      <3> QED BY <2>1, <3>3 DEF ChoiceInv
    <2>2. CASE ~(stageNo = 2 /\ best = "none")
      BY <1>2, <2>2 DEF ChoiceInv
    <2> QED BY <2>1, <2>2
  <1>8. ListedInv'
    <2>1. \A i, b, d : Noted(i, b, d) => Noted(i, b, d)'
      BY <1>1 DEF Noted
    <2>2. Noted(stageNo, block, c)'
      <3>1. note.stage = Stages[stageNo] /\ note.block = block /\ note.cell = c /\ note \in listed'
        BY <1>1
      <3>2. stageNo' = stageNo /\ block' = block
        OBVIOUS
      <3> HIDE DEF note
      <3> QED BY <3>1, <3>2 DEF Noted
    <2>3. \A i \in 1 .. stageNo : Cells(Stages[i])' = Cells(Stages[i])
      OBVIOUS
    <2> QED BY <2>1, <2>2, <2>3 DEF ListedInv
  <1> QED BY <1>5, <1>6, <1>7, <1>8

(* Suite.run with and without the budget for it.                               *)
LEMMA RunStep ==
  ASSUME SuiteInv, NEW c \in todo,
         NotRun(c) \/ \E r \in Results, late \in Overruns : RunCell(c, r, late)
  PROVE SuiteInv'
  <1> USE SuiteConstants, StageFacts
  <1>1. CASE NotRun(c)
    <2>1. /\ status = "running" /\ Note(c, "not_run") /\ todo' = todo \ {c} /\ Keep(c, NoResult)
          /\ UNCHANGED <<remaining, tested, sound, stageNo, block, rate, best, final, status>>
          /\ remaining \in Int /\ NoResult \in Outcomes
      BY <1>1 DEF NotRun, g0Vars, SuiteInv, SuiteTypes, Outcomes
    <2>2. SuiteTypes' /\ TestedInv' /\ ChoiceInv' /\ ListedInv'
      BY <2>1, ItemStep
    <2>3. BudgetHolds' /\ DiesForWantOfEvidence'
      BY <2>1 DEF SuiteInv, BudgetHolds, DiesForWantOfEvidence
    <2> QED BY <2>2, <2>3 DEF SuiteInv
  <1>2. ASSUME NEW r \in Results, NEW late \in Overruns, RunCell(c, r, late) PROVE SuiteInv'
    <2>1. /\ status = "running" /\ Note(c, "finished") /\ todo' = todo \ {c} /\ Keep(c, r)
          /\ UNCHANGED <<tested, sound, stageNo, block, rate, best, final>>
          /\ status' \in {"running", "died"} /\ (status' = "died" => Stages[stageNo] = "c0")
          /\ r \in Outcomes /\ remaining \in Int /\ stageNo \in 1 .. 6
          /\ remaining >= Minutes[Stages[stageNo]] + 1
          /\ remaining' = remaining - Minutes[Stages[stageNo]] - late
      BY <1>2 DEF RunCell, BudgetAllows, g0Vars, SuiteInv, SuiteTypes, Outcomes
    <2>2. Minutes[Stages[stageNo]] \in Nat /\ late \in Nat
      BY <2>1
    <2>3. remaining' \in Int /\ remaining' >= 1 - late
      <3> DEFINE m == Minutes[Stages[stageNo]]
      <3>1. /\ m \in Nat /\ late \in Nat /\ remaining \in Int
            /\ remaining >= m + 1 /\ remaining' = remaining - m - late
        BY <2>1, <2>2
      <3> HIDE DEF m
      <3> QED BY <3>1
    <2>4. SuiteTypes' /\ TestedInv' /\ ChoiceInv' /\ ListedInv'
      BY <2>1, <2>3, ItemStep
    <2>5. BudgetHolds' /\ DiesForWantOfEvidence'
      BY <2>1, <2>3 DEF BudgetHolds, DiesForWantOfEvidence
    <2> QED BY <2>4, <2>5 DEF SuiteInv
  <1> QED BY <1>1, <1>2

(* The next seed, the selection, the next stage or the end.                    *)
LEMMA NextBlockStep == SuiteInv /\ NextBlock => SuiteInv'
  <1> SUFFICES ASSUME SuiteInv, NextBlock PROVE SuiteInv'
    OBVIOUS
  <1> USE SuiteConstants, StageFacts, CellFacts DEF SuiteInv
  <1>1. /\ status = "running" /\ todo = {} /\ rate' \in {0, 40, 80}
        /\ UNCHANGED <<remaining, tested, sound, results, stable, best, final, listed>>
    BY DEF NextBlock, g0Vars, SuiteTypes
  <1>2. BudgetHolds' /\ TestedInv'
    BY <1>1 DEF BudgetHolds, TestedInv, NextBlock
  <1>3. \A i, b, c : Noted(i, b, c)' <=> Noted(i, b, c)
    BY <1>1 DEF Noted
  <1>4. \A st : Cells(st)' = Cells(st)
    BY <1>1
  <1>5. CASE /\ block < Blocks(Stages[stageNo]) /\ block' = block + 1 /\ todo' = Cells(Stages[stageNo])
             /\ UNCHANGED <<stageNo, status>>
    <2>1. SuiteTypes'
      BY <1>1, <1>4, <1>5 DEF SuiteTypes
    <2>2. ChoiceInv'
      BY <1>1, <1>5 DEF ChoiceInv, SuiteTypes
    <2>3. ListedInv'
      <3> SUFFICES ASSUME NEW i \in 1 .. stageNo, NEW b \in 1 .. Blocks(Stages[i]), NEW c \in Cells(Stages[i])
                   PROVE \/ i = stageNo /\ (b > block + 1 \/ (b = block + 1 /\ c \in todo'))
                         \/ Noted(i, b, c)
        BY <1>1, <1>3, <1>4, <1>5 DEF ListedInv
      <3>1. i \in 1 .. 6 /\ block \in Nat /\ b \in Nat
        <4>1. stageNo \in 1 .. 6 /\ block \in 1 .. Blocks(Stages[stageNo])
          BY DEF SuiteTypes
        <4>2. i \in 1 .. 6
          <5> HIDE SuiteConstants, StageFacts, CellFacts DEF SuiteInv
          <5> QED BY <4>1
        <4>3. Blocks(Stages[stageNo]) \in Nat /\ Blocks(Stages[i]) \in Nat
          BY <4>1, <4>2
        <4> QED BY <4>1, <4>2, <4>3
      <3>2. i = stageNo /\ b > block => b > block + 1 \/ (b = block + 1 /\ c \in todo')
        BY <1>5, <3>1
      <3> QED BY <1>1, <3>2 DEF ListedInv
    <2>4. DiesForWantOfEvidence'
      BY <1>1, <1>5 DEF DiesForWantOfEvidence
    <2> QED BY <1>2, <2>1, <2>2, <2>3, <2>4
  <1>6. CASE /\ block = Blocks(Stages[stageNo]) /\ Stages[stageNo] = "e1" /\ best = "none" /\ status' = "select"
             /\ UNCHANGED <<stageNo, block, todo>>
    <2>1. SuiteTypes' /\ ChoiceInv'
      BY <1>1, <1>4, <1>6 DEF SuiteTypes, ChoiceInv
    <2>2. ListedInv'
      BY <1>1, <1>4, <1>6, NotesKept
    <2>3. DiesForWantOfEvidence'
      BY <1>6 DEF DiesForWantOfEvidence
    <2> QED BY <1>2, <2>1, <2>2, <2>3
  <1>7. CASE /\ block = Blocks(Stages[stageNo]) /\ status' = "done" /\ UNCHANGED <<stageNo, block, todo>>
    <2>1. SuiteTypes' /\ ChoiceInv'
      BY <1>1, <1>4, <1>7 DEF SuiteTypes, ChoiceInv
    <2>2. ListedInv'
      BY <1>1, <1>3, <1>4, <1>7 DEF ListedInv
    <2>3. DiesForWantOfEvidence'
      BY <1>7 DEF DiesForWantOfEvidence
    <2> QED BY <1>2, <2>1, <2>2, <2>3
  <1>8. CASE /\ block = Blocks(Stages[stageNo]) /\ (Stages[stageNo] = "e1" => best # "none") /\ stageNo # 6
             /\ stageNo' = stageNo + 1 /\ block' = 1 /\ todo' = Cells(Stages[stageNo + 1]) /\ UNCHANGED status
    <2>1. stageNo \in 1 .. 5 /\ stageNo + 1 \in 1 .. 6
      BY <1>8 DEF SuiteTypes
    <2>2. SuiteTypes'
      <3>1. 1 \in 1 .. Blocks(Stages[stageNo + 1])
        BY <2>1
      <3> QED BY <1>1, <1>4, <1>8, <2>1, <3>1 DEF SuiteTypes
    <2>3. ChoiceInv'
      <3>1. CASE stageNo = 1
        <4>1. \A c \in ALL : Len(results'[c]) = 0 /\ <<c, "none">> \in todo'
          BY <1>1, <1>8, <3>1 DEF ChoiceInv
        <4> QED BY <1>1, <1>8, <3>1, <4>1 DEF ChoiceInv
      <3>2. CASE stageNo # 1
        BY <1>1, <1>8, <2>1, <3>2 DEF ChoiceInv
      <3> QED BY <3>1, <3>2
    <2>4. ListedInv'
      <3> SUFFICES ASSUME NEW i \in 1 .. stageNo + 1, NEW b \in 1 .. Blocks(Stages[i]),
                          NEW c \in Cells(Stages[i])
                   PROVE \/ i = stageNo + 1 /\ (b > 1 \/ (b = 1 /\ c \in todo'))
                         \/ Noted(i, b, c)
        BY <1>1, <1>3, <1>4, <1>8 DEF ListedInv
      <3>1. CASE i = stageNo + 1
        BY <1>8, <2>1, <3>1
      <3>2. CASE i # stageNo + 1
        <4>1. i \in 1 .. stageNo /\ i \in 1 .. 6
          BY <2>1, <3>2
        <4>2. i = stageNo => ~(b > block)
          <5>1. Blocks(Stages[i]) \in Nat
            BY <4>1
          <5> HIDE SuiteConstants, StageFacts, CellFacts DEF SuiteInv
          <5> QED BY <1>8, <5>1
        <4>3. c \notin todo
          BY <1>1
        <4> QED BY <4>1, <4>2, <4>3 DEF ListedInv
      <3> QED BY <3>1, <3>2
    <2>5. DiesForWantOfEvidence'
      BY <1>1, <1>8 DEF DiesForWantOfEvidence
    <2> QED BY <1>2, <2>2, <2>3, <2>4, <2>5
  <1> QED BY <1>1, <1>5, <1>6, <1>7, <1>8 DEF NextBlock

(* Every step of the plan.                                                     *)
LEMMA SuiteStep == SuiteInv /\ [SuiteNext]_suiteVars => SuiteInv'
  <1> SUFFICES ASSUME SuiteInv, [SuiteNext]_suiteVars PROVE SuiteInv'
    OBVIOUS
  <1>1. CASE g0_checker \/ g0_source \/ g0_mock \/ g0_observer
    BY <1>1, TestsStep DEF g0_checker, g0_source, g0_mock, g0_observer
  <1>2. CASE g0 \/ Pick \/ NextBlock
    BY <1>2, G0Step, PickStep, NextBlockStep
  <1>3. ASSUME NEW c \in todo, NotRun(c) \/ \E r \in Results, late \in Overruns : RunCell(c, r, late)
        PROVE SuiteInv'
    BY <1>3, RunStep
  <1>4. CASE UNCHANGED suiteVars
    <2>1. UNCHANGED <<remaining, tested, sound, stageNo, block, todo, results, rate, best, final, listed, status>>
      BY <1>4 DEF suiteVars, g0Vars, planVars
    <2>2. \A st : Cells(st)' = Cells(st)
      BY <2>1, CellFacts
    <2>3. \A i, b, c : Noted(i, b, c)' <=> Noted(i, b, c)
      BY <2>1 DEF Noted
    <2>4. ListedInv'
      BY <2>1, <2>2, <2>3 DEF SuiteInv, ListedInv
    <2>5. SuiteTypes'
      BY <2>1, <2>2 DEF SuiteInv, SuiteTypes
    <2> QED BY <2>1, <2>4, <2>5 DEF SuiteInv, TestedInv, ChoiceInv, BudgetHolds, DiesForWantOfEvidence
  <1> QED BY <1>1, <1>2, <1>3, <1>4 DEF SuiteNext

(* At the end of the plan every item has its note; the budget is exceeded by   *)
(* no more than one run's overrun; the suite dies only for want of evidence.   *)
THEOREM PlanCorrect == SuiteSpec => [](SuiteTypeOK /\ PlanAccounted)
  <1>1. SuiteInv => SuiteTypeOK /\ PlanAccounted
    <2> SUFFICES ASSUME SuiteInv PROVE SuiteTypeOK /\ PlanAccounted
      OBVIOUS
    <2> USE SuiteConstants, StageFacts DEF SuiteInv
    <2>1. EveryItemListed
      <3> SUFFICES ASSUME status = "done", NEW i \in 1 .. stageNo,
                          NEW b \in 1 .. Blocks(Stages[i]), NEW c \in Cells(Stages[i])
                   PROVE Noted(i, b, c)
        BY DEF EveryItemListed, Noted
      <3>1. stageNo \in 1 .. 6 /\ todo = {} /\ block = Blocks(Stages[stageNo])
        BY DEF SuiteTypes, ListedInv
      <3>2. i \in 1 .. 6
        BY <3>1
      <3>3. i = stageNo => ~(b > block)
        BY <3>1, <3>2
      <3> QED BY <3>1, <3>3 DEF ListedInv
    <2>2. SuiteTypeOK
      <3>1. \A c \in ALL : \A i \in DOMAIN results[c] : results[c][i] \in Results \cup {NoResult}
        BY ElementOfSeq DEF SuiteTypes, Outcomes
      <3>2. status = "select" => \A c \in ALL : Len(results[c]) = Seeds
        BY DEF ChoiceInv
      <3>3. listed # {} => sound /\ tested = Len(Instruments)
        BY DEF TestedInv
      <3> QED BY <3>1, <3>2, <3>3 DEF SuiteTypeOK, SuiteTypes
    <2> QED BY <2>1, <2>2 DEF PlanAccounted
  <1> QED BY <1>1, SuiteStarts, SuiteStep, PTL DEF SuiteSpec

-----------------------------------------------------------------------------
(* No miss rate of a result is above the one it is judged by.                  *)
LEMMA JudgedByWorst ==
  ASSUME NEW r \in Results
  PROVE JudgedMiss(r) \in Int /\ \A p \in DOMAIN r.miss : r.miss[p] \in Int /\ r.miss[p] <= JudgedMiss(r)
  <1> DEFINE M == {r.miss[p] : p \in DOMAIN r.miss}
             S == {0} \cup M
  <1>1. r.miss \in Seq(Int) /\ DOMAIN r.miss = 1 .. Len(r.miss) /\ Len(r.miss) \in Nat
    BY SuiteConstants
  <1>2. \A p \in DOMAIN r.miss : r.miss[p] \in Int
    BY <1>1
  <1>3. IsFiniteSet(DOMAIN r.miss)
    <2>1. 1 \in Int /\ Len(r.miss) \in Int
      BY <1>1
    <2> QED BY <1>1, <2>1, FS_Interval
  <1>4. IsFiniteSet(M)
    <2>1. r.miss \in Surjection(DOMAIN r.miss, M)
      BY <1>1 DEF Surjection
    <2> QED BY <1>3, <2>1, FS_Surjection
  <1>5. IsFiniteSet(S) /\ S \in SUBSET Int /\ S # {}
    <2>1. IsFiniteSet(M \cup {0})
      BY <1>4, FS_AddElement
    <2> QED BY <1>2, <2>1
  <1>6. Max(S) \in S /\ \A y \in S : Max(S) >= y
    BY <1>5, LargestNumber
  <1>7. JudgedMiss(r) = Max(S)
    BY DEF JudgedMiss
  <1> HIDE DEF S
  <1>8. \A p \in DOMAIN r.miss : r.miss[p] \in S
    BY DEF S
  <1> QED BY <1>2, <1>5, <1>6, <1>7, <1>8

(* A candidate that meets the target has earned it with all its E1 runs.       *)
LEMMA MeetsEarned ==
  ASSUME SuiteTypes, NEW c \in ALL, Meets(c)
  PROVE /\ Len(results[c]) = Seeds
        /\ \A i \in 1 .. Seeds :
             /\ results[c][i].there /\ results[c][i].safe
             /\ \A p \in DOMAIN results[c][i].miss : results[c][i].miss[p] <= 10
  <1>1. results[c] \in Seq(Outcomes) /\ Len(results[c]) = Seeds /\ DOMAIN results[c] = 1 .. Seeds
    BY DEF SuiteTypes, Meets
  <1> SUFFICES ASSUME NEW i \in 1 .. Seeds
               PROVE /\ results[c][i].there /\ results[c][i].safe
                     /\ \A p \in DOMAIN results[c][i].miss : results[c][i].miss[p] <= 10
    BY <1>1
  <1>2. results[c][i].there /\ results[c][i].safe /\ JudgedMiss(results[c][i]) <= 10
    BY <1>1 DEF Meets, Safe
  <1>3. results[c][i] \in Results
    BY <1>1, <1>2 DEF Outcomes, NoResult
  <1>4. \A p \in DOMAIN results[c][i].miss : /\ results[c][i].miss[p] \in Int
                                             /\ results[c][i].miss[p] <= JudgedMiss(results[c][i])
    BY <1>3, JudgedByWorst
  <1>5. JudgedMiss(results[c][i]) \in Int
    BY <1>3, JudgedByWorst
  <1> QED BY <1>2, <1>4, <1>5

(* What is chosen as final structure for its numbers has earned them, unless   *)
(* neither candidate meets the target.                                         *)
THEOREM ChoiceCorrect == SuiteSpec => ChosenPassed
  <1> DEFINE Earned ==
        status = "select" /\ status' = "running" =>
          \/ /\ Len(results[final']) = Seeds
             /\ \A i \in 1 .. Seeds :
                  LET r == results[final'][i]
                  IN r.there /\ r.safe /\ \A p \in DOMAIN r.miss : r.miss[p] <= 10
          \/ ~Meets(best') /\ ~Meets("db-inbox")
  <1>1. SuiteInv /\ [SuiteNext]_suiteVars => [Earned]_suiteVars
    <2> SUFFICES ASSUME SuiteInv, SuiteNext, status = "select", status' = "running" PROVE Earned
      OBVIOUS
    <2>1. Pick
      BY DEF SuiteNext, g0_checker, g0_source, g0_mock, g0_observer, g0, Tests, NextBlock, NotRun, RunCell
    <2>2. best' = Best /\ final' = Final(Best)
      BY <2>1 DEF Pick
    <2>3. Best \in ALL /\ "db-inbox" \in ALL
      BY BestIsKafka DEF ALL
    <2>4. CASE Meets(Best)
      <3>1. final' = Best
        BY <2>2, <2>4 DEF Final
      <3> QED BY <2>3, <2>4, <3>1, MeetsEarned DEF SuiteInv
    <2>5. CASE ~Meets(Best) /\ Meets("db-inbox")
      <3>1. final' = "db-inbox"
        BY <2>2, <2>5 DEF Final
      <3> QED BY <2>3, <2>5, <3>1, MeetsEarned DEF SuiteInv
    <2>6. CASE ~Meets(Best) /\ ~Meets("db-inbox")
      BY <2>2, <2>6
    <2> QED BY <2>4, <2>5, <2>6
  <1> QED BY <1>1, SuiteStarts, SuiteStep, PTL DEF SuiteSpec, ChosenPassed

-----------------------------------------------------------------------------
(* The effect verdicts: the inductive invariant                                *)

CallBodies    == {"none", "planned", "other", "refused"}
EffectRow == [o : 0 .. LastSequence, body : CallBodies, by : Nat]
Times     == Nat \cup {NoTrace}

EffectTypes ==
  /\ upTo \in Numbers /\ bound \in [Numbers -> Nat] /\ ticks \in 0 .. MaxTicks
  /\ conflicts \subseteq Numbers /\ wrong \subseteq {"call", "record"}
  /\ stale \subseteq Numbers /\ overtaken \subseteq stale
  /\ reading \in {"seller", "effects", "orders", "logs", "done"}
  /\ sellerLog \in Seq(EffectRow) /\ generation \in [Numbers -> Nat]
  /\ DOMAIN called = Numbers /\ DOMAIN claimTrace = Numbers
  /\ \A o \in Numbers : /\ called[o] \in [Claims(o) -> CallBodies]
                        /\ claimTrace[o] \in [Claims(o) -> Times]
  /\ recorded \in [Numbers -> EffectRow] /\ orderRow \in EffectRow
  /\ commitTrace \in [Numbers -> Times]
  /\ files = [waited |-> files.waited, log |-> files.log, conflicts |-> files.conflicts,
              effects |-> files.effects, order |-> files.order, logs |-> files.logs,
              traces |-> files.traces, wrong |-> files.wrong]

Clean(log, refused) ==
  refused = {} /\ \A j \in DOMAIN log : j <= upTo /\ log[j].body = "planned"

(* A wrong call leaves its mark with the seller, and what the seller accepted  *)
(* is in its log, under the sequence it accepted it for.                       *)
SellerInv ==
  /\ \A j \in DOMAIN sellerLog : sellerLog[j].o = j
  /\ "call" \in wrong <=> ~Clean(sellerLog, conflicts)
  /\ \A o \in Numbers : \A g \in Claims(o) :
       called[o][g] \in {"planned", "other"} => o <= Len(sellerLog) /\ sellerLog[o].body = called[o][g]

(* A delivery is recorded under a call the seller accepted; recorded rightly,  *)
(* deliveries are recorded one after the other.                                *)
DoneInv ==
  /\ \A o \in Numbers : recorded[o] # NoRow =>
       /\ recorded[o].o = o /\ recorded[o].by \in Claims(o)
       /\ recorded[o].body \in {"planned", "other"}
       /\ called[o][recorded[o].by] = recorded[o].body
  /\ "record" \notin wrong =>
       /\ orderRow.o <= upTo /\ (orderRow.o > 0 => orderRow = recorded[orderRow.o])
       /\ \A o \in Numbers : recorded[o] # NoRow <=> o <= orderRow.o

(* The log of an instance that was read has its claim that overtook another.   *)
Overtook(o, h) ==
  /\ h > recorded[o].by /\ claimTrace[o][h] \in 0 .. ticks - 1
  /\ commitTrace[o] # NoTrace => claimTrace[o][h] < commitTrace[o]
  /\ h \in files.logs => \E t \in files.traces : t.o = o /\ t.by = h /\ t.claim = claimTrace[o][h]

(* Claims come before their traces, traces before calls; a recorded operation  *)
(* is not claimed again, so a newer claim than the one it was recorded under   *)
(* makes it stale.                                                             *)
ClaimInv ==
  \A o \in Numbers :
    /\ \A g \in Claims(o) : /\ claimTrace[o][g] # NoTrace => g <= generation[o]
                            /\ called[o][g] # "none" => claimTrace[o][g] # NoTrace
    /\ recorded[o] # NoRow /\ o \notin stale => recorded[o].by = generation[o]
    /\ commitTrace[o] # NoTrace => recorded[o] # NoRow
    /\ o \in overtaken => recorded[o] # NoRow /\ \E h \in Claims(o) : Overtook(o, h)

(* What was read of the tables was so when it was read, and what was right     *)
(* then stays so as long as nothing goes wrong.                                *)
TablesInv ==
  /\ reading = "seller" => ~files.waited /\ files.logs = {}
  /\ files.log \in Seq(EffectRow) /\ \A j \in DOMAIN files.log : files.log[j].o = j
  /\ files.wrong \subseteq wrong
  /\ "call" \in files.wrong <=> ~Clean(files.log, files.conflicts)
  /\ files.waited /\ wrong = {} =>
       /\ Len(files.log) = upTo /\ orderRow.o = upTo
       /\ reading \in {"orders", "done"} =>
            /\ {row.o : row \in files.effects} = 1 .. upTo
            /\ \A row \in files.effects : row.body = "planned"
       /\ reading = "done" => files.order.o = upTo /\ files.order.body = "planned"

(* What was read of the logs is what was traced.                               *)
LogsInv ==
  /\ reading = "logs" => ~files.waited
  /\ reading \in {"effects", "orders"} => files.waited
  /\ reading = "done" /\ ~files.waited => files.logs = Generations
  /\ \A t \in files.traces :
       /\ t.o \in Numbers /\ t.by \in Claims(t.o)
       /\ t.claim # NoTrace => t.claim = claimTrace[t.o][t.by]
       /\ t.commit # NoTrace => /\ recorded[t.o] # NoRow /\ t.by = recorded[t.o].by
                                /\ t.commit = commitTrace[t.o]

EffectInv == EffectTypes /\ SellerInv /\ DoneInv /\ ClaimInv /\ TablesInv /\ LogsInv

(* What the provers need of the constants.                                     *)
LEMMA EffectConstants ==
  /\ LastSequence \in Nat \ {0} /\ MaxTicks \in Nat /\ NoTrace \notin Nat
  /\ Bounds \subseteq [Numbers -> Nat] /\ Numbers \subseteq Nat \ {0}
  /\ NoRow \in EffectRow /\ NoRow.o = 0 /\ NoRow.by = 0 /\ NoRow.body = "none"
  BY EffectAssumption DEF EffectAssumption, Numbers, NoRow, EffectRow, CallBodies

(* One entry of a table by operation and claim is changed.                     *)
LEMMA ClaimUpdate ==
  ASSUME NEW f, DOMAIN f = Numbers, NEW S, \A q \in Numbers : f[q] \in [Claims(q) -> S],
         NEW o \in Numbers, NEW g \in Claims(o), NEW v \in S,
         NEW h, h = [f EXCEPT ![o][g] = v]
  PROVE /\ DOMAIN h = Numbers /\ \A q \in Numbers : h[q] \in [Claims(q) -> S]
        /\ \A q \in Numbers : \A j \in Claims(q) :
             h[q][j] = IF q = o /\ j = g THEN v ELSE f[q][j]
  <1> DEFINE row == [f[o] EXCEPT ![g] = v]
  <1>1. row \in [Claims(o) -> S] /\ \A j \in Claims(o) : row[j] = IF j = g THEN v ELSE f[o][j]
    OBVIOUS
  <1>2. h = [f EXCEPT ![o] = row]
    OBVIOUS
  <1>3. DOMAIN h = Numbers /\ \A q \in Numbers : h[q] = IF q = o THEN row ELSE f[q]
    BY <1>2
  <1> HIDE DEF row
  <1> QED BY <1>1, <1>3

(* The seller takes a new operation or a known one, or refuses.                *)
LEMMA SellerAnswers ==
  ASSUME EffectTypes, NEW o \in Numbers, NEW g \in Claims(o), NEW body \in {"planned", "other"},
         CallSeller(o, g, body)
  PROVE /\ Len(sellerLog) \in Nat /\ DOMAIN sellerLog = 1 .. Len(sellerLog)
        /\ sellerLog' \in Seq(EffectRow)
        /\ claimTrace[o][g] # NoTrace /\ called[o][g] = "none"
        /\ \E v \in {body, "refused"} :
             /\ called' = [called EXCEPT ![o][g] = v]
             /\ \/ /\ v = body /\ o = Len(sellerLog) + 1 /\ conflicts' = conflicts
                   /\ DOMAIN sellerLog' = 1 .. o /\ Len(sellerLog') = o
                   /\ \A j \in 1 .. Len(sellerLog) : sellerLog'[j] = sellerLog[j]
                   /\ sellerLog'[o].o = o /\ sellerLog'[o].body = body
                \/ /\ v = body /\ o <= Len(sellerLog) /\ sellerLog[o].body = body
                   /\ conflicts' = conflicts /\ sellerLog' = sellerLog
                \/ /\ v = "refused" /\ conflicts' = conflicts \cup {o} /\ sellerLog' = sellerLog
                   /\ o > Len(sellerLog) + 1 \/ (o <= Len(sellerLog) /\ sellerLog[o].body # body)
  <1> USE EffectConstants
  <1> DEFINE row == [o |-> o, body |-> body, by |-> 0]
  <1>1. row \in EffectRow /\ row.o = o /\ row.body = body
    BY DEF EffectRow, Numbers, CallBodies
  <1>2. sellerLog \in Seq(EffectRow) /\ Len(sellerLog) \in Nat /\ DOMAIN sellerLog = 1 .. Len(sellerLog)
    BY DEF EffectTypes
  <1>3. /\ Append(sellerLog, row) \in Seq(EffectRow) /\ Len(Append(sellerLog, row)) = Len(sellerLog) + 1
        /\ DOMAIN Append(sellerLog, row) = 1 .. Len(sellerLog) + 1
        /\ \A j \in 1 .. Len(sellerLog) : Append(sellerLog, row)[j] = sellerLog[j]
        /\ Append(sellerLog, row)[Len(sellerLog) + 1] = row
    BY <1>1, <1>2
  <1>4. claimTrace[o][g] # NoTrace /\ called[o][g] = "none"
    BY DEF CallSeller
  <1>5. CASE SellerTakes(o, body) /\ o > Len(sellerLog)
    <2>1. called' = [called EXCEPT ![o][g] = body] /\ sellerLog' = Append(sellerLog, row) /\ conflicts' = conflicts
      BY <1>5 DEF CallSeller
    <2>2. o = Len(sellerLog) + 1
      BY <1>2, <1>5 DEF SellerTakes
    <2> HIDE DEF row
    <2> QED BY <1>1, <1>2, <1>3, <1>4, <2>1, <2>2
  <1>6. CASE SellerTakes(o, body) /\ ~(o > Len(sellerLog))
    <2>1. called' = [called EXCEPT ![o][g] = body] /\ sellerLog' = sellerLog /\ conflicts' = conflicts
      BY <1>6 DEF CallSeller
    <2>2. o <= Len(sellerLog) /\ sellerLog[o].body = body
      BY <1>2, <1>6 DEF SellerTakes
    <2> QED BY <1>2, <1>4, <2>1, <2>2
  <1>7. CASE ~SellerTakes(o, body)
    <2>1. called' = [called EXCEPT ![o][g] = "refused"] /\ sellerLog' = sellerLog /\ conflicts' = conflicts \cup {o}
      BY <1>7 DEF CallSeller
    <2>2. o > Len(sellerLog) + 1 \/ (o <= Len(sellerLog) /\ sellerLog[o].body # body)
      BY <1>2, <1>7 DEF SellerTakes
    <2> QED BY <1>2, <1>4, <2>1, <2>2
  <1> QED BY <1>5, <1>6, <1>7

(* A step of the services, and one that reads.                                 *)
LEMMA EffectStepCases ==
  ASSUME EffectNext
  PROVE \/ \E o \in Numbers : TakeClaim(o) \/ TraceCommit(o)
        \/ \E o \in Numbers : \E g \in Claims(o) : TraceClaim(o, g) \/ RecordDelivery(o, g)
        \/ \E o \in Numbers : \E g \in Claims(o) : \E body \in {"planned", "other"} :
             CallSeller(o, g, body)
        \/ TraceTick
        \/ \E waits \in BOOLEAN : ReadSeller(waits)
        \/ ReadEffects \/ ReadOrders \/ \E g \in Generations : ReadLog(g)
  BY DEF EffectNext, ServiceStep

(* Nothing is called or read yet.                                              *)
LEMMA EffectInitInv ==
  ASSUME EffectInit
  PROVE EffectInv
  <1> USE EffectConstants DEF EffectInit, EffectStart
  <1>1. <<>> \in Seq(EffectRow) /\ Len(<<>>) = 0 /\ DOMAIN <<>> = {}
    OBVIOUS
  <1>2. EffectTypes
    BY <1>1 DEF EffectTypes, CallBodies, Times, Claims, NoFiles
  <1>3. SellerInv
    BY <1>1 DEF SellerInv, Clean
  <1>4. DoneInv
    BY DEF DoneInv, Numbers
  <1>5. ClaimInv
    BY DEF ClaimInv
  <1>6. TablesInv
    BY <1>1 DEF TablesInv, NoFiles, Clean
  <1>7. LogsInv
    BY DEF LogsInv, NoFiles
  <1> QED BY <1>2, <1>3, <1>4, <1>5, <1>6, <1>7 DEF EffectInv

(* Types, action by action.                                                    *)
LEMMA EffectTypesStep ==
  ASSUME EffectInv, EffectNext
  PROVE EffectTypes'
  <1> USE EffectConstants DEF Claims, Times
  <1>0. EffectTypes /\ ClaimInv
    BY DEF EffectInv
  <1>1. ASSUME NEW o \in Numbers, TakeClaim(o) PROVE EffectTypes'
    BY <1>0, <1>1 DEF EffectTypes, TakeClaim
  <1>2. ASSUME NEW o \in Numbers, TraceCommit(o) PROVE EffectTypes'
    BY <1>0, <1>2 DEF EffectTypes, TraceCommit
  <1>3. ASSUME NEW o \in Numbers, NEW g \in Claims(o), TraceClaim(o, g) PROVE EffectTypes'
    <2>1. /\ DOMAIN claimTrace' = Numbers /\ \A q \in Numbers : claimTrace'[q] \in [Claims(q) -> Times]
      BY <1>0, <1>3, ClaimUpdate DEF EffectTypes, TraceClaim
    <2> QED BY <1>0, <1>3, <2>1 DEF EffectTypes, TraceClaim
  <1>4. ASSUME NEW o \in Numbers, NEW g \in Claims(o), RecordDelivery(o, g) PROVE EffectTypes'
    <2> DEFINE row == [o |-> o, body |-> called[o][g], by |-> g]
    <2>1. row \in EffectRow
      BY <1>0, <1>4 DEF EffectTypes, EffectRow, Numbers
    <2>2. recorded' \in [Numbers -> EffectRow] /\ orderRow' \in EffectRow
      BY <1>0, <1>4, <2>1 DEF EffectTypes, RecordDelivery
    <2>3. stale' \subseteq Numbers /\ overtaken' \subseteq stale'
      <3>1. ASSUME \E h \in Claims(o) : h > g /\ claimTrace[o][h] \in 0 .. ticks - 1 PROVE g < generation[o]
        <4>1. PICK h \in Claims(o) : h > g /\ claimTrace[o][h] \in 0 .. ticks - 1
          BY <3>1
        <4>2. h <= generation[o]
          BY <1>0, <4>1 DEF ClaimInv
        <4> QED BY <1>0, <4>1, <4>2 DEF EffectTypes
      <3> QED BY <1>0, <1>4, <3>1 DEF EffectTypes, RecordDelivery
    <2>4. wrong' \subseteq {"call", "record"}
      BY <1>0, <1>4 DEF EffectTypes, RecordDelivery
    <2> QED BY <1>0, <1>4, <2>2, <2>3, <2>4 DEF EffectTypes, RecordDelivery
  <1>5. ASSUME NEW o \in Numbers, NEW g \in Claims(o), NEW body \in {"planned", "other"},
               CallSeller(o, g, body)
        PROVE EffectTypes'
    <2>2. sellerLog' \in Seq(EffectRow)
      BY <1>0, <1>5, SellerAnswers
    <2>3. \E v \in CallBodies : called' = [called EXCEPT ![o][g] = v]
      BY <1>0, <1>5, SellerAnswers DEF CallBodies
    <2>4. DOMAIN called' = Numbers /\ \A q \in Numbers : called'[q] \in [Claims(q) -> CallBodies]
      BY <1>0, <2>3, ClaimUpdate DEF EffectTypes
    <2>5. conflicts' \subseteq Numbers /\ wrong' \subseteq {"call", "record"}
      BY <1>0, <1>5 DEF EffectTypes, CallSeller
    <2> QED BY <1>0, <1>5, <2>2, <2>4, <2>5 DEF EffectTypes, CallSeller
  <1>6. CASE TraceTick
    BY <1>0, <1>6 DEF EffectTypes, TraceTick, serviceVars
  <1>7. ASSUME NEW waits \in BOOLEAN, ReadSeller(waits) PROVE EffectTypes'
    BY <1>0, <1>7 DEF EffectTypes, ReadSeller, serviceVars
  <1>8. CASE ReadEffects
    BY <1>0, <1>8 DEF EffectTypes, ReadEffects, serviceVars
  <1>9. CASE ReadOrders
    BY <1>0, <1>9 DEF EffectTypes, ReadOrders, serviceVars
  <1>10. ASSUME NEW g \in Generations, ReadLog(g) PROVE EffectTypes'
    BY <1>0, <1>10 DEF EffectTypes, ReadLog, serviceVars
  <1> QED BY <1>1, <1>2, <1>3, <1>4, <1>5, <1>6, <1>7, <1>8, <1>9, <1>10, EffectStepCases

(* The seller's log, and what the instances know of it.                        *)
LEMMA SellerStep ==
  ASSUME EffectInv, EffectNext
  PROVE SellerInv'
  <1> USE EffectConstants
  <1>0. EffectTypes /\ SellerInv
    BY DEF EffectInv
  <1>1. ASSUME UNCHANGED <<upTo, bound, sellerLog, conflicts, called>>,
               "call" \in wrong' <=> "call" \in wrong
        PROVE SellerInv'
    BY <1>0, <1>1 DEF SellerInv, Clean, Claims
  <1>2. ASSUME NEW o \in Numbers, NEW g \in Claims(o), NEW body \in {"planned", "other"},
               CallSeller(o, g, body)
        PROVE SellerInv'
    <2>1. UNCHANGED <<upTo, bound>> /\ upTo \in Nat
      BY <1>0, <1>2 DEF CallSeller, EffectTypes, Numbers
    <2>2. /\ Len(sellerLog) \in Nat /\ DOMAIN sellerLog = 1 .. Len(sellerLog)
          /\ called[o][g] = "none"
      BY <1>0, <1>2, SellerAnswers
    <2>3. PICK v \in {body, "refused"} :
             /\ called' = [called EXCEPT ![o][g] = v]
             /\ \/ /\ v = body /\ o = Len(sellerLog) + 1 /\ conflicts' = conflicts
                   /\ DOMAIN sellerLog' = 1 .. o /\ Len(sellerLog') = o
                   /\ \A j \in 1 .. Len(sellerLog) : sellerLog'[j] = sellerLog[j]
                   /\ sellerLog'[o].o = o /\ sellerLog'[o].body = body
                \/ /\ v = body /\ o <= Len(sellerLog) /\ sellerLog[o].body = body
                   /\ conflicts' = conflicts /\ sellerLog' = sellerLog
                \/ /\ v = "refused" /\ conflicts' = conflicts \cup {o} /\ sellerLog' = sellerLog
                   /\ o > Len(sellerLog) + 1 \/ (o <= Len(sellerLog) /\ sellerLog[o].body # body)
      BY <1>0, <1>2, SellerAnswers
    <2>4. \A q \in Numbers : \A j \in Claims(q) :
            called'[q][j] = IF q = o /\ j = g THEN v ELSE called[q][j]
      BY <1>0, <2>3, ClaimUpdate DEF EffectTypes, CallBodies
    <2>5. wrong' = IF o > upTo \/ body # "planned" \/ o > Len(sellerLog) + 1
                   THEN wrong \cup {"call"} ELSE wrong
      BY <1>2 DEF CallSeller
    <2> DEFINE new == /\ v = body /\ o = Len(sellerLog) + 1 /\ conflicts' = conflicts
                      /\ DOMAIN sellerLog' = 1 .. o /\ Len(sellerLog') = o
                      /\ \A j \in 1 .. Len(sellerLog) : sellerLog'[j] = sellerLog[j]
                      /\ sellerLog'[o].o = o /\ sellerLog'[o].body = body
               refused == /\ v = "refused" /\ conflicts' = conflicts \cup {o} /\ sellerLog' = sellerLog
                          /\ o > Len(sellerLog) + 1 \/ (o <= Len(sellerLog) /\ sellerLog[o].body # body)
               known == /\ v = body /\ o <= Len(sellerLog) /\ sellerLog[o].body = body
                        /\ conflicts' = conflicts /\ sellerLog' = sellerLog
    <2>a. new \/ known \/ refused
      BY <2>3
    <2>6. \A j \in DOMAIN sellerLog' : sellerLog'[j].o = j
      <3>1. CASE new
        <4>1. SUFFICES ASSUME NEW j \in 1 .. o PROVE sellerLog'[j].o = j
          BY <3>1
        <4>2. j \in 1 .. Len(sellerLog) \/ j = o
          BY <2>2, <3>1
        <4> QED BY <1>0, <2>2, <3>1, <4>2 DEF SellerInv
      <3>2. CASE known \/ refused
        BY <1>0, <3>2 DEF SellerInv
      <3> QED BY <2>a, <3>1, <3>2
    <2>7. "call" \in wrong' <=> ~Clean(sellerLog', conflicts')
      <3>1. CASE o > upTo \/ body # "planned" \/ o > Len(sellerLog) + 1
        <4>1. "call" \in wrong'
          BY <2>5, <3>1
        <4>2. ASSUME new \/ known PROVE ~Clean(sellerLog', conflicts')
          <5>1. o \in DOMAIN sellerLog' /\ sellerLog'[o].body = body /\ ~(o > Len(sellerLog) + 1)
            BY <2>2, <4>2
          <5>2. body # "planned" \/ ~(o <= upTo)
            BY <2>1, <3>1, <5>1
          <5> QED BY <5>1, <5>2 DEF Clean
        <4>3. ASSUME refused PROVE ~Clean(sellerLog', conflicts')
          BY <4>3 DEF Clean
        <4> QED BY <2>a, <4>1, <4>2, <4>3
      <3>2. CASE ~(o > upTo \/ body # "planned" \/ o > Len(sellerLog) + 1)
        <4>1. wrong' = wrong /\ body = "planned" /\ o <= upTo /\ o <= Len(sellerLog) + 1
          <5>1. wrong' = wrong /\ body = "planned"
            BY <2>5, <3>2
          <5>2. o \in Nat
            OBVIOUS
          <5>3. o <= upTo /\ o <= Len(sellerLog) + 1
            BY <2>1, <2>2, <3>2, <5>2
          <5> QED BY <5>1, <5>3
        <4>2. "call" \in wrong <=> ~Clean(sellerLog, conflicts)
          BY <1>0 DEF SellerInv
        <4>3. CASE new
          <5>1. \A j \in 1 .. o : j \in 1 .. Len(sellerLog) \/ j = o
            BY <2>2, <4>3
          <5>2. Clean(sellerLog', conflicts') <=> Clean(sellerLog, conflicts)
            BY <2>1, <2>2, <4>1, <4>3, <5>1 DEF Clean
          <5> QED BY <4>1, <4>2, <5>2
        <4>4. CASE known
          BY <4>1, <4>2, <4>4
        <4>5. CASE refused
          <5>1. o \in DOMAIN sellerLog /\ sellerLog[o].body # "planned"
            BY <2>2, <4>1, <4>5
          <5>2. ~Clean(sellerLog, conflicts) /\ ~Clean(sellerLog', conflicts')
            BY <4>5, <5>1 DEF Clean
          <5> QED BY <4>1, <4>2, <5>2
        <4> QED BY <2>a, <4>3, <4>4, <4>5
      <3> QED BY <3>1, <3>2
    <2>8. \A q \in Numbers : \A j \in Claims(q) : called'[q][j] \in {"planned", "other"} =>
            q <= Len(sellerLog') /\ sellerLog'[q].body = called'[q][j]
      BY <1>0, <2>2, <2>3, <2>4 DEF SellerInv
    <2>9. upTo' = upTo /\ Claims(o) = Claims(o)' /\ \A q \in Numbers : Claims(q)' = Claims(q)
      BY <2>1 DEF Claims
    <2> QED BY <2>6, <2>7, <2>8, <2>9 DEF SellerInv, Clean
  <1>3. ASSUME NEW o \in Numbers, TakeClaim(o) PROVE SellerInv'
    BY <1>1, <1>3 DEF TakeClaim
  <1>4. ASSUME NEW o \in Numbers, TraceCommit(o) PROVE SellerInv'
    BY <1>1, <1>4 DEF TraceCommit
  <1>5. ASSUME NEW o \in Numbers, NEW g \in Claims(o), TraceClaim(o, g) PROVE SellerInv'
    BY <1>1, <1>5 DEF TraceClaim
  <1>6. ASSUME NEW o \in Numbers, NEW g \in Claims(o), RecordDelivery(o, g) PROVE SellerInv'
    BY <1>1, <1>6 DEF RecordDelivery
  <1>7. CASE TraceTick
    BY <1>1, <1>7 DEF TraceTick, serviceVars
  <1>8. ASSUME NEW waits \in BOOLEAN, ReadSeller(waits) PROVE SellerInv'
    BY <1>1, <1>8 DEF ReadSeller, serviceVars
  <1>9. CASE ReadEffects \/ ReadOrders \/ \E g \in Generations : ReadLog(g)
    BY <1>1, <1>9 DEF ReadEffects, ReadOrders, ReadLog, serviceVars
  <1> QED BY <1>2, <1>3, <1>4, <1>5, <1>6, <1>7, <1>8, <1>9, EffectStepCases

(* What is recorded.                                                           *)
LEMMA DoneStep ==
  ASSUME EffectInv, EffectNext
  PROVE DoneInv'
  <1> USE EffectConstants
  <1>0. EffectTypes /\ DoneInv
    BY DEF EffectInv
  <1>1. ASSUME UNCHANGED <<upTo, bound, recorded, orderRow>>, "record" \in wrong' <=> "record" \in wrong,
               \A q \in Numbers : \A j \in Claims(q) : called[q][j] # "none" => called'[q][j] = called[q][j]
        PROVE DoneInv'
    <2>1. \A q \in Numbers : Claims(q)' = Claims(q)
      BY <1>1 DEF Claims
    <2>2. \A q \in Numbers : recorded[q] # NoRow => called'[q][recorded[q].by] = recorded[q].body
      BY <1>0, <1>1 DEF DoneInv
    <2> QED BY <1>0, <1>1, <2>1, <2>2 DEF DoneInv
  <1>2. ASSUME NEW o \in Numbers, NEW g \in Claims(o), RecordDelivery(o, g) PROVE DoneInv'
    <2> DEFINE row == [o |-> o, body |-> called[o][g], by |-> g]
    <2>1. /\ recorded' = [recorded EXCEPT ![o] = row] /\ orderRow' = row /\ recorded[o] = NoRow
          /\ called[o][g] \in {"planned", "other"} /\ UNCHANGED <<upTo, bound, called>>
          /\ wrong' = IF o > upTo \/ \E q \in 1 .. o - 1 : recorded[q] = NoRow
                      THEN wrong \cup {"record"} ELSE wrong
      BY <1>2 DEF RecordDelivery
    <2>2. \A q \in Numbers : Claims(q)' = Claims(q)
      BY <2>1 DEF Claims
    <2>3. row.o = o /\ row.body = called[o][g] /\ row.by = g /\ row # NoRow
      BY DEF NoRow
    <2>4. \A q \in Numbers : recorded'[q] = IF q = o THEN row ELSE recorded[q]
      BY <1>0, <2>1 DEF EffectTypes
    <2> HIDE DEF row
    <2>5. \A q \in Numbers : recorded'[q] # NoRow =>
            /\ recorded'[q].o = q /\ recorded'[q].by \in Claims(q)
            /\ recorded'[q].body \in {"planned", "other"}
            /\ called'[q][recorded'[q].by] = recorded'[q].body
      BY <1>0, <2>1, <2>3, <2>4 DEF DoneInv
    <2>6. ASSUME "record" \notin wrong'
          PROVE /\ orderRow'.o <= upTo /\ (orderRow'.o > 0 => orderRow' = recorded'[orderRow'.o])
                /\ \A q \in Numbers : recorded'[q] # NoRow <=> q <= orderRow'.o
      <3>1. o <= upTo /\ "record" \notin wrong /\ \A q \in 1 .. o - 1 : recorded[q] # NoRow
        BY <1>0, <2>1, <2>6 DEF EffectTypes, Numbers
      <3>2. orderRow.o \in Nat /\ \A q \in Numbers : recorded[q] # NoRow <=> q <= orderRow.o
        <4>1. orderRow.o \in 0 .. LastSequence
          BY <1>0 DEF EffectTypes, EffectRow
        <4> QED BY <1>0, <3>1, <4>1 DEF DoneInv
      <3>3. \A q \in Numbers : q \in Nat \ {0} /\ (q < o => q \in 1 .. o - 1)
        BY DEF Numbers
      <3>4. o > orderRow.o
        BY <2>1, <3>2, <3>3
      <3>5. \A q \in Numbers : recorded'[q] # NoRow <=> q <= o
        BY <2>3, <2>4, <3>1, <3>2, <3>3, <3>4
      <3> QED BY <2>1, <2>3, <2>4, <3>1, <3>5
    <2> QED BY <2>1, <2>2, <2>5, <2>6 DEF DoneInv
  <1>3. ASSUME NEW o \in Numbers, NEW g \in Claims(o), NEW body \in {"planned", "other"},
               CallSeller(o, g, body)
        PROVE DoneInv'
    <2>1. UNCHANGED <<upTo, bound, recorded, orderRow>> /\ ("record" \in wrong' <=> "record" \in wrong)
      BY <1>3 DEF CallSeller
    <2>2. called[o][g] = "none" /\ \E v \in {body, "refused"} : called' = [called EXCEPT ![o][g] = v]
      BY <1>0, <1>3, SellerAnswers
    <2>3. \A q \in Numbers : \A j \in Claims(q) : called[q][j] # "none" => called'[q][j] = called[q][j]
      BY <1>0, <2>2, ClaimUpdate DEF EffectTypes, CallBodies
    <2> QED BY <1>1, <2>1, <2>3
  <1>4. ASSUME NEW o \in Numbers, TakeClaim(o) PROVE DoneInv'
    BY <1>1, <1>4 DEF TakeClaim
  <1>5. ASSUME NEW o \in Numbers, TraceCommit(o) PROVE DoneInv'
    BY <1>1, <1>5 DEF TraceCommit
  <1>6. ASSUME NEW o \in Numbers, NEW g \in Claims(o), TraceClaim(o, g) PROVE DoneInv'
    BY <1>1, <1>6 DEF TraceClaim
  <1>7. CASE TraceTick
    BY <1>1, <1>7 DEF TraceTick, serviceVars
  <1>8. ASSUME NEW waits \in BOOLEAN, ReadSeller(waits) PROVE DoneInv'
    BY <1>1, <1>8 DEF ReadSeller, serviceVars
  <1>9. CASE ReadEffects \/ ReadOrders \/ \E g \in Generations : ReadLog(g)
    BY <1>1, <1>9 DEF ReadEffects, ReadOrders, ReadLog, serviceVars
  <1> QED BY <1>2, <1>3, <1>4, <1>5, <1>6, <1>7, <1>8, <1>9, EffectStepCases

(* Claims, their traces and what overtook whom.                                *)
LEMMA ClaimStep ==
  ASSUME EffectInv, EffectNext
  PROVE ClaimInv'
  <1> USE EffectConstants
  <1>0. EffectTypes /\ DoneInv /\ ClaimInv /\ TablesInv
    BY DEF EffectInv
  <1>t. ticks \in Nat /\ \A q \in Numbers : \A j \in Claims(q) : j \in Nat
    BY <1>0 DEF EffectTypes, Claims
  <1>1. ASSUME UNCHANGED <<bound, generation, called, recorded, claimTrace, commitTrace, stale, overtaken>>,
               ticks' \in Nat, ticks' >= ticks,
               files'.logs = files.logs /\ files'.traces = files.traces
        PROVE ClaimInv'
    <2>1. \A q \in Numbers : Claims(q)' = Claims(q)
      BY <1>1 DEF Claims
    <2>2. \A q \in Numbers, h \in Nat : Overtook(q, h) => Overtook(q, h)'
      BY <1>1, <1>t DEF Overtook
    <2> QED BY <1>0, <1>1, <1>t, <2>1, <2>2 DEF ClaimInv
  <1>2. ASSUME NEW o \in Numbers, TakeClaim(o) PROVE ClaimInv'
    <2>1. /\ UNCHANGED <<bound, ticks, called, recorded, claimTrace, commitTrace, stale, overtaken, files>>
          /\ recorded[o] = NoRow /\ generation \in [Numbers -> Nat]
          /\ generation' = [generation EXCEPT ![o] = generation[o] + 1]
      BY <1>0, <1>2 DEF TakeClaim, EffectTypes
    <2>2. \A q \in Numbers : Claims(q)' = Claims(q)
      BY <2>1 DEF Claims
    <2>3. \A q \in Numbers, h \in Nat : Overtook(q, h) => Overtook(q, h)'
      BY <2>1 DEF Overtook
    <2>4. \A q \in Numbers : generation'[q] >= generation[q] /\ (recorded[q] # NoRow => generation'[q] = generation[q])
      BY <2>1
    <2>5. \A q \in Numbers : generation[q] \in Nat /\ generation'[q] \in Nat
      BY <2>1
    <2> QED BY <1>0, <1>t, <2>1, <2>2, <2>3, <2>4, <2>5 DEF ClaimInv
  <1>3. ASSUME NEW o \in Numbers, NEW g \in Claims(o), TraceClaim(o, g) PROVE ClaimInv'
    <2>1. /\ UNCHANGED <<bound, ticks, called, generation, recorded, commitTrace, stale, overtaken, files>>
          /\ claimTrace[o][g] = NoTrace /\ g <= generation[o]
          /\ claimTrace' = [claimTrace EXCEPT ![o][g] = ticks]
      BY <1>3 DEF TraceClaim
    <2>2. \A q \in Numbers : Claims(q)' = Claims(q)
      BY <2>1 DEF Claims
    <2>3. \A q \in Numbers : \A j \in Claims(q) :
            claimTrace'[q][j] = IF q = o /\ j = g THEN ticks ELSE claimTrace[q][j]
      BY <1>0, <1>t, <2>1, ClaimUpdate DEF EffectTypes, Times
    <2>4. \A q \in Numbers : \A h \in Claims(q) : Overtook(q, h) => claimTrace'[q][h] = claimTrace[q][h]
      BY <1>t, <2>1, <2>3 DEF Overtook
    <2>5. \A q \in Numbers : \A h \in Claims(q) : Overtook(q, h) => Overtook(q, h)'
      BY <2>1, <2>4 DEF Overtook
    <2> QED BY <1>0, <1>t, <2>1, <2>2, <2>3, <2>5 DEF ClaimInv
  <1>4. ASSUME NEW o \in Numbers, NEW g \in Claims(o), NEW body \in {"planned", "other"},
               CallSeller(o, g, body)
        PROVE ClaimInv'
    <2>1. UNCHANGED <<bound, ticks, generation, recorded, claimTrace, commitTrace, stale, overtaken, files>>
      BY <1>4 DEF CallSeller
    <2>2. claimTrace[o][g] # NoTrace /\ \E v \in {body, "refused"} : called' = [called EXCEPT ![o][g] = v]
      BY <1>0, <1>4, SellerAnswers
    <2>3. \A q \in Numbers : \A j \in Claims(q) : ~(q = o /\ j = g) => called'[q][j] = called[q][j]
      BY <1>0, <2>2, ClaimUpdate DEF EffectTypes, CallBodies
    <2>4. \A q \in Numbers : Claims(q)' = Claims(q)
      BY <2>1 DEF Claims
    <2>5. \A q \in Numbers : \A h \in Claims(q) : Overtook(q, h) => Overtook(q, h)'
      BY <2>1 DEF Overtook
    <2> QED BY <1>0, <2>1, <2>2, <2>3, <2>4, <2>5 DEF ClaimInv
  <1>5. ASSUME NEW o \in Numbers, NEW g \in Claims(o), RecordDelivery(o, g) PROVE ClaimInv'
    <2> DEFINE row == [o |-> o, body |-> called[o][g], by |-> g]
               overtakes(h) == h > g /\ claimTrace[o][h] \in 0 .. ticks - 1
    <2>1. /\ recorded' = [recorded EXCEPT ![o] = row] /\ recorded[o] = NoRow
          /\ called[o][g] \in {"planned", "other"}
          /\ UNCHANGED <<bound, ticks, generation, called, claimTrace, commitTrace, files>>
          /\ stale' = IF g < generation[o] THEN stale \cup {o} ELSE stale
          /\ overtaken' = IF reading = "seller" /\ \E h \in Claims(o) : overtakes(h)
                          THEN overtaken \cup {o} ELSE overtaken
      BY <1>5 DEF RecordDelivery
    <2>2. \A q \in Numbers : Claims(q)' = Claims(q)
      BY <2>1 DEF Claims
    <2>3. row.by = g /\ row # NoRow
      BY DEF NoRow
    <2>4. \A q \in Numbers : recorded'[q] = IF q = o THEN row ELSE recorded[q]
      BY <1>0, <2>1 DEF EffectTypes
    <2> HIDE DEF row
    <2>5. g <= generation[o] /\ g \in Nat /\ generation[o] \in Nat /\ commitTrace[o] = NoTrace /\ o \notin overtaken
      BY <1>0, <1>t, <2>1 DEF ClaimInv, EffectTypes
    <2>6. \A q \in Numbers : \A h \in Claims(q) : q # o /\ Overtook(q, h) => Overtook(q, h)'
      BY <2>1, <2>4 DEF Overtook
    <2>7. reading = "seller" => \A h \in Claims(o) : overtakes(h) => Overtook(o, h)'
      BY <1>0, <2>1, <2>3, <2>4, <2>5 DEF Overtook, TablesInv
    <2>8. o \in overtaken' => \E h \in Claims(o) : Overtook(o, h)'
      BY <2>1, <2>5, <2>7
    <2>9. ASSUME NEW q \in Numbers
          PROVE /\ recorded'[q] # NoRow /\ q \notin stale' => recorded'[q].by = generation[q]
                /\ commitTrace[q] # NoTrace => recorded'[q] # NoRow
                /\ q \in overtaken' => recorded'[q] # NoRow /\ \E h \in Claims(q) : Overtook(q, h)'
      <3>1. CASE q = o
        <4>1. recorded'[q] = row /\ (q \notin stale' => ~(g < generation[q]))
          BY <2>1, <2>4, <3>1
        <4>2. ~(g < generation[o]) => g = generation[o]
          BY <2>5
        <4> HIDE DEF overtakes
        <4> QED BY <2>3, <2>8, <3>1, <4>1, <4>2
      <3>2. CASE q # o
        <4>1. recorded'[q] = recorded[q] /\ (q \in overtaken' => q \in overtaken) /\ (q \notin stale' => q \notin stale)
          BY <2>1, <2>4, <3>2
        <4> QED BY <1>0, <2>6, <3>2, <4>1 DEF ClaimInv
      <3> QED BY <3>1, <3>2
    <2>10. \A q \in Numbers : \A j \in Claims(q) :
             /\ claimTrace'[q][j] # NoTrace => j <= generation'[q]
             /\ called'[q][j] # "none" => claimTrace'[q][j] # NoTrace
      BY <1>0, <2>1 DEF ClaimInv
    <2>11. generation' = generation /\ commitTrace' = commitTrace
      BY <2>1
    <2> QED BY <2>2, <2>9, <2>10, <2>11 DEF ClaimInv
  <1>6. ASSUME NEW o \in Numbers, TraceCommit(o) PROVE ClaimInv'
    <2>1. /\ UNCHANGED <<bound, ticks, generation, called, recorded, claimTrace, stale, overtaken, files>>
          /\ recorded[o] # NoRow /\ commitTrace[o] = NoTrace
          /\ commitTrace' = [commitTrace EXCEPT ![o] = ticks]
      BY <1>6 DEF TraceCommit
    <2>2. \A q \in Numbers : Claims(q)' = Claims(q)
      BY <2>1 DEF Claims
    <2>3. \A q \in Numbers : commitTrace'[q] = IF q = o THEN ticks ELSE commitTrace[q]
      BY <1>0, <2>1 DEF EffectTypes
    <2>4. \A q \in Numbers : \A h \in Claims(q) : Overtook(q, h) => Overtook(q, h)'
      BY <1>t, <2>1, <2>3 DEF Overtook
    <2> QED BY <1>0, <2>1, <2>2, <2>3, <2>4 DEF ClaimInv
  <1>7. CASE TraceTick
    BY <1>1, <1>t, <1>7 DEF TraceTick, serviceVars
  <1>8. ASSUME NEW waits \in BOOLEAN, ReadSeller(waits) PROVE ClaimInv'
    <2>1. files'.logs = files.logs /\ files'.traces = files.traces
      BY <1>0, <1>8 DEF ReadSeller, EffectTypes
    <2> QED BY <1>1, <1>t, <1>8, <2>1 DEF ReadSeller, serviceVars
  <1>9. CASE ReadEffects \/ ReadOrders
    <2>1. files'.logs = files.logs /\ files'.traces = files.traces
      BY <1>0, <1>9 DEF ReadEffects, ReadOrders, EffectTypes
    <2> QED BY <1>1, <1>t, <1>9, <2>1 DEF ReadEffects, ReadOrders, serviceVars
  <1>10. ASSUME NEW g \in Generations, ReadLog(g) PROVE ClaimInv'
    <2> DEFINE entry(q) == [o |-> q, by |-> g, claim |-> claimTrace[q][g],
                            commit |-> IF recorded[q].by = g THEN commitTrace[q] ELSE NoTrace]
    <2>1. /\ UNCHANGED <<bound, ticks, generation, called, recorded, claimTrace, commitTrace, stale, overtaken>>
          /\ files' = [files EXCEPT !.logs = @ \cup {g},
                        !.traces = @ \cup {entry(q) : q \in {r \in Numbers : g \in Claims(r)}}]
      BY <1>10 DEF ReadLog, serviceVars
    <2>2. /\ files'.logs = files.logs \cup {g}
          /\ files'.traces = files.traces \cup {entry(q) : q \in {r \in Numbers : g \in Claims(r)}}
      BY <1>0, <2>1 DEF EffectTypes
    <2>3. \A q \in Numbers : Claims(q)' = Claims(q)
      BY <2>1 DEF Claims
    <2>4. ASSUME NEW q \in Numbers, NEW h \in Claims(q), Overtook(q, h) PROVE Overtook(q, h)'
      <3>1. CASE h = g
        <4>1. entry(q) \in files'.traces /\ entry(q).o = q /\ entry(q).by = h /\ entry(q).claim = claimTrace[q][h]
          BY <2>2, <3>1
        <4> HIDE DEF entry
        <4> QED BY <2>1, <2>4, <4>1 DEF Overtook
      <3>2. CASE h # g
        BY <2>1, <2>2, <2>4, <3>2 DEF Overtook
      <3> QED BY <3>1, <3>2
    <2> QED BY <1>0, <2>1, <2>3, <2>4 DEF ClaimInv
  <1> QED BY <1>2, <1>3, <1>4, <1>5, <1>6, <1>7, <1>8, <1>9, <1>10, EffectStepCases

(* Without a wrong call only planned payloads are recorded.                    *)
LEMMA PlannedBodies ==
  ASSUME EffectInv, wrong = {}
  PROVE /\ \A q \in Numbers : recorded[q] # NoRow => recorded[q].body = "planned" /\ q <= Len(sellerLog)
        /\ Len(sellerLog) <= upTo
  <1> USE EffectConstants
  <1>1. EffectTypes /\ SellerInv /\ DoneInv
    BY DEF EffectInv
  <1>2. Len(sellerLog) \in Nat /\ DOMAIN sellerLog = 1 .. Len(sellerLog) /\ upTo \in Nat
    BY <1>1 DEF EffectTypes, Numbers
  <1>3. \A j \in 1 .. Len(sellerLog) : j <= upTo /\ sellerLog[j].body = "planned"
    BY <1>1, <1>2 DEF SellerInv, Clean
  <1>4. ASSUME NEW q \in Numbers, recorded[q] # NoRow
        PROVE recorded[q].body = "planned" /\ q <= Len(sellerLog)
    <2>1. q <= Len(sellerLog) /\ sellerLog[q].body = recorded[q].body
      BY <1>1, <1>4 DEF SellerInv, DoneInv
    <2>2. q \in Nat \ {0}
      OBVIOUS
    <2>3. q \in 1 .. Len(sellerLog)
      BY <1>2, <2>1, <2>2
    <2> QED BY <1>3, <2>1, <2>3
  <1>5. Len(sellerLog) <= upTo
    BY <1>2, <1>3
  <1> QED BY <1>4, <1>5

(* What the tables that are read show.                                         *)
LEMMA TablesStep ==
  ASSUME EffectInv, EffectNext
  PROVE TablesInv'
  <1> USE EffectConstants
  <1>0. EffectTypes /\ SellerInv /\ DoneInv /\ TablesInv /\ LogsInv
    BY DEF EffectInv
  <1>t. upTo \in Nat /\ upTo > 0 /\ upTo <= LastSequence /\ orderRow.o \in Nat
    <2>1. orderRow.o \in 0 .. LastSequence
      BY <1>0 DEF EffectTypes, EffectRow
    <2> QED BY <1>0, <2>1 DEF EffectTypes, Numbers
  <1>r. wrong = {} => /\ orderRow.o <= upTo /\ (orderRow.o > 0 => orderRow = recorded[orderRow.o])
                      /\ \A q \in Numbers : recorded[q] # NoRow <=> q <= orderRow.o
    BY <1>0 DEF DoneInv
  <1>1. ASSUME UNCHANGED <<upTo, reading, files>>, wrong \subseteq wrong',
               wrong' = {} /\ files.waited => orderRow'.o = orderRow.o
        PROVE TablesInv'
    BY <1>0, <1>1 DEF TablesInv, Clean
  <1>2. ASSUME NEW o \in Numbers, NEW g \in Claims(o), RecordDelivery(o, g) PROVE TablesInv'
    <2>1. /\ recorded[o] = NoRow /\ UNCHANGED <<upTo, reading, files>>
          /\ wrong' = IF o > upTo \/ \E q \in 1 .. o - 1 : recorded[q] = NoRow
                      THEN wrong \cup {"record"} ELSE wrong
      BY <1>2 DEF RecordDelivery
    <2>2. ASSUME wrong' = {}, files.waited PROVE FALSE
      <3>1. wrong = {} /\ o <= upTo
        <4>1. ~(o > upTo) /\ wrong = {}
          BY <2>1, <2>2
        <4>2. o \in Nat
          OBVIOUS
        <4> QED BY <1>t, <4>1, <4>2
      <3>2. orderRow.o = upTo
        BY <1>0, <2>2, <3>1 DEF TablesInv
      <3> QED BY <1>r, <2>1, <3>1, <3>2
    <2> QED BY <1>1, <2>1, <2>2
  <1>3. ASSUME NEW waits \in BOOLEAN, ReadSeller(waits) PROVE TablesInv'
    <2> DEFINE done == {o \in Numbers : recorded[o] # NoRow}
    <2>1. /\ reading' = (IF waits THEN "effects" ELSE "logs") /\ UNCHANGED <<upTo, wrong, orderRow>>
          /\ waits => Cardinality(done) = upTo
          /\ files' = [files EXCEPT !.waited = waits, !.log = sellerLog, !.conflicts = conflicts, !.wrong = wrong]
      BY <1>3 DEF ReadSeller, serviceVars
    <2>2. /\ files'.log = sellerLog /\ files'.conflicts = conflicts /\ files'.wrong = wrong
          /\ files'.waited <=> waits
      BY <1>0, <2>1 DEF EffectTypes
    <2>3. ASSUME waits, wrong = {} PROVE Len(sellerLog) = upTo /\ orderRow.o = upTo
      <3>1. done = 1 .. orderRow.o
        BY <1>r, <1>t, <2>3 DEF Numbers
      <3>2. Cardinality(1 .. orderRow.o) = orderRow.o
        <4>1. 1 \in Int /\ orderRow.o \in Int
          BY <1>t
        <4>2. Cardinality(1 .. orderRow.o) = IF 1 > orderRow.o THEN 0 ELSE orderRow.o - 1 + 1
          BY <4>1, FS_Interval
        <4> QED BY <1>t, <4>2
      <3>3. orderRow.o = upTo
        BY <2>1, <2>3, <3>1, <3>2
      <3>4. recorded[upTo] # NoRow /\ upTo \in Numbers
        BY <1>r, <1>t, <2>3, <3>3 DEF Numbers
      <3>5. upTo <= Len(sellerLog) /\ Len(sellerLog) <= upTo /\ Len(sellerLog) \in Nat
        BY <1>0, <2>3, <3>4, PlannedBodies DEF EffectTypes
      <3> QED BY <1>t, <3>3, <3>5
    <2>4. reading' \notin {"seller", "orders", "done"}
      BY <2>1
    <2>5. files'.log \in Seq(EffectRow) /\ \A j \in DOMAIN files'.log : files'.log[j].o = j
      BY <1>0, <2>2 DEF EffectTypes, SellerInv
    <2>6. "call" \in files'.wrong <=> ~Clean(files'.log, files'.conflicts)
      BY <1>0, <2>2 DEF SellerInv
    <2>7. Clean(files'.log, files'.conflicts) <=> Clean(files.log, files.conflicts)'
      BY <2>1 DEF Clean
    <2> HIDE DEF done
    <2> QED BY <2>1, <2>2, <2>3, <2>4, <2>5, <2>6, <2>7 DEF TablesInv
  <1>4. CASE ReadEffects
    <2> DEFINE rows == {recorded[o] : o \in Numbers} \ {NoRow}
    <2>1. /\ reading = "effects" /\ reading' = "orders" /\ UNCHANGED <<upTo, wrong, orderRow>>
          /\ files' = [files EXCEPT !.effects = rows]
      BY <1>4 DEF ReadEffects, serviceVars
    <2>2. /\ files'.effects = rows /\ files'.log = files.log /\ files'.conflicts = files.conflicts
          /\ files'.wrong = files.wrong /\ (files'.waited <=> files.waited)
      BY <1>0, <2>1 DEF EffectTypes
    <2>3. ASSUME wrong = {}, files.waited
          PROVE {row.o : row \in rows} = 1 .. upTo /\ \A row \in rows : row.body = "planned"
      <3>1. orderRow.o = upTo
        BY <1>0, <2>3 DEF TablesInv
      <3>2. \A q \in Numbers : recorded[q] # NoRow <=> q \in 1 .. upTo
        BY <1>r, <1>t, <2>3, <3>1 DEF Numbers
      <3>3. \A q \in Numbers : recorded[q] # NoRow => recorded[q].o = q /\ recorded[q].body = "planned"
        BY <1>0, <2>3, PlannedBodies DEF DoneInv
      <3>4. 1 .. upTo \subseteq Numbers
        BY <1>t DEF Numbers
      <3>5. \A n \in 1 .. upTo : recorded[n] \in rows /\ recorded[n].o = n
        BY <3>2, <3>3, <3>4
      <3>6. \A row \in rows : row.o \in 1 .. upTo /\ row.body = "planned"
        BY <3>2, <3>3
      <3> HIDE DEF rows
      <3> QED BY <3>5, <3>6
    <2> HIDE DEF rows
    <2> QED BY <1>0, <2>1, <2>2, <2>3 DEF TablesInv, Clean
  <1>5. CASE ReadOrders
    <2>1. /\ reading = "orders" /\ reading' = "done" /\ UNCHANGED <<upTo, wrong, orderRow>>
          /\ files' = [files EXCEPT !.order = orderRow]
      BY <1>5 DEF ReadOrders, serviceVars
    <2>2. /\ files'.order = orderRow /\ files'.effects = files.effects /\ files'.log = files.log
          /\ files'.conflicts = files.conflicts
          /\ files'.wrong = files.wrong /\ (files'.waited <=> files.waited)
      BY <1>0, <2>1 DEF EffectTypes
    <2>3. ASSUME wrong = {}, files.waited PROVE orderRow.o = upTo /\ orderRow.body = "planned"
      <3>1. orderRow.o = upTo
        BY <1>0, <2>3 DEF TablesInv
      <3>2. upTo \in Numbers /\ recorded[upTo] # NoRow /\ orderRow = recorded[upTo]
        BY <1>r, <1>t, <2>3, <3>1 DEF Numbers
      <3> QED BY <2>3, <3>1, <3>2, PlannedBodies
    <2> QED BY <1>0, <2>1, <2>2, <2>3 DEF TablesInv, Clean
  <1>6. ASSUME NEW g \in Generations, ReadLog(g) PROVE TablesInv'
    <2>1. reading = "logs" /\ reading' \in {"logs", "done"} /\ UNCHANGED <<upTo, wrong, orderRow>>
      BY <1>6 DEF ReadLog, serviceVars
    <2>2. /\ files'.log = files.log /\ files'.conflicts = files.conflicts
          /\ files'.wrong = files.wrong /\ (files'.waited <=> files.waited)
      BY <1>0, <1>6 DEF EffectTypes, ReadLog
    <2>3. ~files.waited
      BY <1>0, <2>1 DEF LogsInv
    <2> QED BY <1>0, <2>1, <2>2, <2>3 DEF TablesInv, Clean
  <1>7. ASSUME NEW o \in Numbers, TakeClaim(o) \/ TraceCommit(o) PROVE TablesInv'
    BY <1>1, <1>7 DEF TakeClaim, TraceCommit
  <1>8. ASSUME NEW o \in Numbers, NEW g \in Claims(o), TraceClaim(o, g) PROVE TablesInv'
    BY <1>1, <1>8 DEF TraceClaim
  <1>9. ASSUME NEW o \in Numbers, NEW g \in Claims(o), NEW body \in {"planned", "other"},
               CallSeller(o, g, body)
        PROVE TablesInv'
    BY <1>1, <1>9 DEF CallSeller
  <1>10. CASE TraceTick
    BY <1>1, <1>10 DEF TraceTick, serviceVars
  <1> QED BY <1>2, <1>3, <1>4, <1>5, <1>6, <1>7, <1>8, <1>9, <1>10, EffectStepCases

(* What the logs that are read show.                                           *)
LEMMA LogsStep ==
  ASSUME EffectInv, EffectNext
  PROVE LogsInv'
  <1> USE EffectConstants
  <1>0. EffectTypes /\ DoneInv /\ ClaimInv /\ TablesInv /\ LogsInv
    BY DEF EffectInv
  <1>g. bound' = bound => Generations' = Generations /\ \A q \in Numbers : Claims(q)' = Claims(q)
    BY DEF Generations, Claims
  <1>1. ASSUME UNCHANGED <<bound, reading, files>>,
               \A q \in Numbers : /\ \A j \in Claims(q) :
                                      claimTrace[q][j] # NoTrace => claimTrace'[q][j] = claimTrace[q][j]
                                  /\ recorded[q] # NoRow => recorded'[q] = recorded[q]
                                  /\ commitTrace[q] # NoTrace => commitTrace'[q] = commitTrace[q]
        PROVE LogsInv'
    <2>1. \A t \in files.traces :
            /\ t.o \in Numbers /\ t.by \in Claims(t.o)
            /\ t.claim # NoTrace => t.claim = claimTrace'[t.o][t.by]
            /\ t.commit # NoTrace => /\ recorded'[t.o] # NoRow /\ t.by = recorded'[t.o].by
                                     /\ t.commit = commitTrace'[t.o]
      BY <1>0, <1>1 DEF LogsInv
    <2> QED BY <1>0, <1>1, <1>g, <2>1 DEF LogsInv
  <1>2. ASSUME files'.traces = files.traces, UNCHANGED <<bound, claimTrace, recorded, commitTrace>>,
               reading' = "logs" => ~files'.waited,
               reading' \in {"effects", "orders"} => files'.waited,
               reading' = "done" => files'.waited
        PROVE LogsInv'
    BY <1>0, <1>2, <1>g DEF LogsInv
  <1>3. ASSUME NEW o \in Numbers, TakeClaim(o) PROVE LogsInv'
    BY <1>1, <1>3 DEF TakeClaim
  <1>4. ASSUME NEW o \in Numbers, TraceCommit(o) PROVE LogsInv'
    BY <1>0, <1>1, <1>4 DEF TraceCommit, EffectTypes
  <1>5. ASSUME NEW o \in Numbers, NEW g \in Claims(o), TraceClaim(o, g) PROVE LogsInv'
    <2>1. claimTrace[o][g] = NoTrace /\ claimTrace' = [claimTrace EXCEPT ![o][g] = ticks] /\ ticks \in Times
      BY <1>0, <1>5 DEF TraceClaim, EffectTypes, Times
    <2>2. \A q \in Numbers : \A j \in Claims(q) :
            claimTrace[q][j] # NoTrace => claimTrace'[q][j] = claimTrace[q][j]
      BY <1>0, <2>1, ClaimUpdate DEF EffectTypes
    <2> QED BY <1>1, <1>5, <2>2 DEF TraceClaim
  <1>6. ASSUME NEW o \in Numbers, NEW g \in Claims(o), RecordDelivery(o, g) PROVE LogsInv'
    <2>1. \A q \in Numbers : recorded[q] # NoRow => recorded'[q] = recorded[q]
      BY <1>0, <1>6 DEF RecordDelivery, EffectTypes
    <2> QED BY <1>1, <1>6, <2>1 DEF RecordDelivery
  <1>7. ASSUME NEW o \in Numbers, NEW g \in Claims(o), NEW body \in {"planned", "other"},
               CallSeller(o, g, body)
        PROVE LogsInv'
    BY <1>1, <1>7 DEF CallSeller
  <1>8. CASE TraceTick
    BY <1>1, <1>8 DEF TraceTick, serviceVars
  <1>9. ASSUME NEW waits \in BOOLEAN, ReadSeller(waits) PROVE LogsInv'
    <2>1. files'.traces = files.traces /\ (files'.waited <=> waits)
      BY <1>0, <1>9 DEF ReadSeller, EffectTypes
    <2>2. reading' = IF waits THEN "effects" ELSE "logs"
      BY <1>9 DEF ReadSeller
    <2> QED BY <1>2, <1>9, <2>1, <2>2 DEF ReadSeller, serviceVars
  <1>10. CASE ReadEffects \/ ReadOrders
    <2>1. files'.traces = files.traces /\ (files'.waited <=> files.waited)
      BY <1>0, <1>10 DEF ReadEffects, ReadOrders, EffectTypes
    <2>2. files.waited /\ reading' \in {"orders", "done"}
      BY <1>0, <1>10 DEF ReadEffects, ReadOrders, LogsInv
    <2> QED BY <1>2, <1>10, <2>1, <2>2 DEF ReadEffects, ReadOrders, serviceVars
  <1>11. ASSUME NEW g \in Generations, ReadLog(g) PROVE LogsInv'
    <2> DEFINE entry(q) == [o |-> q, by |-> g, claim |-> claimTrace[q][g],
                            commit |-> IF recorded[q].by = g THEN commitTrace[q] ELSE NoTrace]
    <2>1. /\ UNCHANGED <<bound, recorded, claimTrace, commitTrace>> /\ reading = "logs"
          /\ reading' = (IF files.logs \cup {g} = Generations THEN "done" ELSE "logs")
          /\ files' = [files EXCEPT !.logs = @ \cup {g},
                        !.traces = @ \cup {entry(q) : q \in {r \in Numbers : g \in Claims(r)}}]
      BY <1>11 DEF ReadLog, serviceVars
    <2>2. /\ files'.logs = files.logs \cup {g} /\ (files'.waited <=> files.waited)
          /\ files'.traces = files.traces \cup {entry(q) : q \in {r \in Numbers : g \in Claims(r)}}
      BY <1>0, <2>1 DEF EffectTypes
    <2>3. ~files.waited
      BY <1>0, <2>1 DEF LogsInv
    <2>4. ASSUME NEW t \in files'.traces
          PROVE /\ t.o \in Numbers /\ t.by \in Claims(t.o)
                /\ t.claim # NoTrace => t.claim = claimTrace[t.o][t.by]
                /\ t.commit # NoTrace => /\ recorded[t.o] # NoRow /\ t.by = recorded[t.o].by
                                         /\ t.commit = commitTrace[t.o]
      <3>1. CASE t \in files.traces
        BY <1>0, <3>1 DEF LogsInv
      <3>2. ASSUME NEW q \in Numbers, g \in Claims(q), t = entry(q)
            PROVE /\ t.o \in Numbers /\ t.by \in Claims(t.o)
                  /\ t.claim # NoTrace => t.claim = claimTrace[t.o][t.by]
                  /\ t.commit # NoTrace => /\ recorded[t.o] # NoRow /\ t.by = recorded[t.o].by
                                           /\ t.commit = commitTrace[t.o]
        <4>1. /\ t.o = q /\ t.by = g /\ t.claim = claimTrace[q][g]
              /\ t.commit = IF recorded[q].by = g THEN commitTrace[q] ELSE NoTrace
          BY <3>2
        <4>2. commitTrace[q] # NoTrace => recorded[q] # NoRow
          BY <1>0 DEF ClaimInv
        <4> QED BY <3>2, <4>1, <4>2
      <3> QED BY <2>2, <3>1, <3>2
    <2>5. reading' \in {"logs", "done"} /\ (reading' = "done" => files'.logs = Generations)
      BY <2>1, <2>2
    <2> QED BY <1>g, <2>1, <2>2, <2>3, <2>4, <2>5 DEF LogsInv
  <1> QED BY <1>3, <1>4, <1>5, <1>6, <1>7, <1>8, <1>9, <1>10, <1>11, EffectStepCases

(* An operation has one row in what was read of the log, or none.              *)
LEMMA OneRow ==
  ASSUME TablesInv, NEW o \in Numbers
  PROVE /\ Len(files.log) \in Nat /\ DOMAIN files.log = 1 .. Len(files.log)
        /\ o <= Len(files.log) => Cardinality(RowsOf(o)) = 1
        /\ Cardinality(RowsOf(o)) <= 1
  <1> USE EffectConstants
  <1>1. Len(files.log) \in Nat /\ DOMAIN files.log = 1 .. Len(files.log) /\ o \in Nat \ {0}
    BY DEF TablesInv
  <1>2. RowsOf(o) = DOMAIN files.log \cap {o}
    BY DEF RowsOf, TablesInv
  <1>3. CASE o <= Len(files.log)
    <2>1. RowsOf(o) = {o}
      BY <1>1, <1>2, <1>3
    <2>2. Cardinality(RowsOf(o)) = 1
      BY <2>1, FS_Singleton
    <2> QED BY <1>1, <2>2
  <1>4. CASE ~(o <= Len(files.log))
    <2>1. RowsOf(o) = {}
      BY <1>1, <1>2, <1>4
    <2>2. Cardinality(RowsOf(o)) = 0
      BY <2>1, FS_EmptySet
    <2> QED BY <1>1, <1>4, <2>2
  <1> QED BY <1>3, <1>4

(* The verdicts follow from the files.                                         *)
LEMMA VerdictsFollow ==
  ASSUME EffectInv
  PROVE EffectTypeOK /\ EffectVerdictsTrue
  <1> USE EffectConstants
  <1>0. EffectTypes /\ DoneInv /\ ClaimInv /\ TablesInv /\ LogsInv
    BY DEF EffectInv
  <1>1. EffectTypeOK
    BY <1>0 DEF EffectTypes, DoneInv, ClaimInv, EffectTypeOK
  <1>t. upTo \in Nat /\ upTo > 0 /\ 1 .. upTo \subseteq Numbers /\ Len(files.log) \in Nat
        /\ DOMAIN files.log = 1 .. Len(files.log)
    BY <1>0 DEF EffectTypes, Numbers, TablesInv
  <1>c. "call" \in files.wrong <=> ~Clean(files.log, files.conflicts)
    BY <1>0 DEF TablesInv
  <1>2. CheckerTrue
    <2>1. SUFFICES ASSUME reading = "done", files.waited
                   PROVE /\ CheckerPassed => "call" \notin files.wrong
                         /\ wrong = {} => CheckerPassed
      BY DEF CheckerTrue
    <2>2. ASSUME CheckerPassed PROVE "call" \notin files.wrong
      <3>1. files.conflicts = {} /\ \A j \in DOMAIN files.log : j <= upTo /\ files.log[j].body = "planned"
        BY <2>2 DEF CheckerPassed
      <3> QED BY <1>c, <3>1 DEF Clean
    <2>3. ASSUME wrong = {} PROVE CheckerPassed
      <3>1. /\ Len(files.log) = upTo
            /\ {row.o : row \in files.effects} = 1 .. upTo
            /\ \A row \in files.effects : row.body = "planned"
            /\ files.order.o = upTo /\ files.order.body = "planned"
        BY <1>0, <2>1, <2>3 DEF TablesInv
      <3>2. "call" \notin files.wrong
        BY <1>0, <2>3 DEF TablesInv
      <3>3. files.conflicts = {} /\ \A j \in DOMAIN files.log : j <= upTo /\ files.log[j].body = "planned"
        BY <1>c, <3>2 DEF Clean
      <3>4. \A j \in DOMAIN files.log : files.log[j].o = j
        BY <1>0 DEF TablesInv
      <3>5. \A o \in 1 .. upTo : Cardinality(RowsOf(o)) = 1
        <4>1. SUFFICES ASSUME NEW o \in 1 .. upTo PROVE Cardinality(RowsOf(o)) = 1
          OBVIOUS
        <4>2. o \in Numbers /\ o <= Len(files.log)
          BY <1>t, <3>1
        <4> QED BY <1>0, <4>2, OneRow
      <3>6. \A j \in DOMAIN files.log :
              files.log[j].o <= upTo /\ files.log[j].body = "planned" /\ files.log[j].o = j
        BY <3>3, <3>4
      <3>7. files.log[Len(files.log)].o = upTo /\ files.log[Len(files.log)].body = "planned"
        <4>1. Len(files.log) \in DOMAIN files.log
          BY <1>t, <3>1
        <4> QED BY <3>1, <3>3, <3>4, <4>1
      <3> QED BY <3>1, <3>3, <3>5, <3>6, <3>7 DEF CheckerPassed
    <2> QED BY <2>2, <2>3
  <1>3. SafetyTrue
    <2>1. SUFFICES ASSUME reading = "done", ~files.waited
                   PROVE /\ SafetyPassed => /\ "call" \notin files.wrong
                                            /\ overtaken \cap {t.o : t \in Committed} = {}
                         /\ "call" \notin wrong /\ stale = {} => SafetyPassed
      BY DEF SafetyTrue
    <2>2. ASSUME SafetyPassed PROVE "call" \notin files.wrong
      <3>1. files.conflicts = {} /\ \A j \in DOMAIN files.log : j <= upTo /\ files.log[j].body = "planned"
        BY <2>2 DEF SafetyPassed
      <3> QED BY <1>c, <3>1 DEF Clean
    <2>3. ASSUME SafetyPassed, NEW t \in Committed, t.o \in overtaken PROVE FALSE
      <3>1. /\ t \in files.traces /\ t.o \in Numbers /\ t.by = recorded[t.o].by
            /\ commitTrace[t.o] # NoTrace /\ t.commit = commitTrace[t.o]
        BY <1>0, <2>3 DEF LogsInv, Committed
      <3>2. PICK h \in Claims(t.o) : Overtook(t.o, h)
        BY <1>0, <2>3, <3>1 DEF ClaimInv
      <3>3. h \in files.logs
        BY <1>0, <2>1, <3>1, <3>2 DEF LogsInv, Generations
      <3>4. PICK n \in files.traces : n.o = t.o /\ n.by = h /\ n.claim = claimTrace[t.o][h]
        BY <3>2, <3>3 DEF Overtook
      <3>5. n.by > t.by /\ n.claim < t.commit /\ n.claim \in Nat
        BY <3>1, <3>2, <3>4 DEF Overtook
      <3>6. n \in Claimed
        BY <3>4, <3>5 DEF Claimed
      <3>7. t \in StaleWrites
        BY <2>3, <3>4, <3>5, <3>6 DEF StaleWrites
      <3> QED BY <2>3, <3>7 DEF SafetyPassed
    <2>4. ASSUME "call" \notin wrong, stale = {} PROVE SafetyPassed
      <3>1. files.conflicts = {} /\ \A j \in DOMAIN files.log : j <= upTo /\ files.log[j].body = "planned"
        BY <1>0, <1>c, <2>4 DEF Clean, TablesInv
      <3>2. \A j \in DOMAIN files.log : files.log[j].o = j
        BY <1>0 DEF TablesInv
      <3>3. \A o \in Numbers : Cardinality(RowsOf(o)) <= 1
        BY <1>0, OneRow
      <3>4. ASSUME NEW t \in StaleWrites PROVE FALSE
        <4>1. t \in Committed /\ \E n \in Claimed : n.o = t.o /\ n.by > t.by
          BY <3>4 DEF StaleWrites
        <4>2. PICK n \in Claimed : n.o = t.o /\ n.by > t.by
          BY <4>1
        <4>3. t.o \in Numbers /\ recorded[t.o] # NoRow /\ t.by = recorded[t.o].by
          BY <1>0, <4>1 DEF LogsInv, Committed
        <4>4. t.by = generation[t.o]
          BY <1>0, <2>4, <4>3 DEF ClaimInv
        <4>5. n.by \in Claims(t.o) /\ claimTrace[t.o][n.by] # NoTrace
          BY <1>0, <4>2 DEF LogsInv, Claimed
        <4>6. n.by <= generation[t.o] /\ n.by \in Nat /\ generation[t.o] \in Nat
          BY <1>0, <4>3, <4>5 DEF ClaimInv, EffectTypes, Claims
        <4> QED BY <4>2, <4>4, <4>6
      <3>5. \A j \in DOMAIN files.log :
              files.log[j].o <= upTo /\ files.log[j].body = "planned" /\ files.log[j].o = j
        BY <3>1, <3>2
      <3> QED BY <3>1, <3>3, <3>4, <3>5 DEF SafetyPassed
    <2> QED BY <2>2, <2>3, <2>4
  <1> QED BY <1>1, <1>2, <1>3 DEF EffectVerdictsTrue

(* For any number of operations and claims, and services that may do anything  *)
(* wrong at any time: a case or a run that passed had no wrong call and no     *)
(* visible stale owner, and one without an error passes, however reads, traces *)
(* and copies of the logs interleave with the services.                        *)
THEOREM VerdictsCorrect == EffectSpec => [](EffectTypeOK /\ EffectVerdictsTrue)
  <1>1. EffectInit => EffectInv
    BY EffectInitInv
  <1>2. EffectInv /\ [EffectNext]_effectVars => EffectInv'
    <2>1. ASSUME EffectInv, EffectNext PROVE EffectInv'
      BY <2>1, EffectTypesStep, SellerStep, DoneStep, ClaimStep, TablesStep, LogsStep DEF EffectInv
    <2>2. ASSUME EffectInv, UNCHANGED effectVars PROVE EffectInv'
      <3>1. EffectTypes' /\ SellerInv' /\ DoneInv'
        BY <2>2 DEF EffectInv, EffectTypes, SellerInv, DoneInv, Claims, Clean, effectVars, serviceVars
      <3>2. ClaimInv' /\ TablesInv' /\ LogsInv'
        BY <2>2 DEF EffectInv, ClaimInv, TablesInv, LogsInv, Claims, Generations, Clean, Overtook,
                    effectVars, serviceVars
      <3> QED BY <3>1, <3>2 DEF EffectInv
    <2> QED BY <2>1, <2>2
  <1>3. EffectInv => EffectTypeOK /\ EffectVerdictsTrue
    BY VerdictsFollow
  <1> QED BY <1>1, <1>2, <1>3, PTL DEF EffectSpec

-----------------------------------------------------------------------------
(* The parts together                                                          *)

(* A step of the tooling is a step of each part, or leaves it alone.           *)
LEMMA PartSteps ==
  ASSUME [Next]_<<part, partVars>>
  PROVE /\ UNCHANGED part
        /\ [LedgerNext]_ledgerVars /\ [EvidenceNext]_evidenceVars /\ [DeliveryNext]_deliveryVars
        /\ [EffectNext]_effectVars /\ [ObserverNext]_observerVars /\ [IsolationNext]_isolationVars
        /\ [SuiteNext]_suiteVars /\ [CaseNext]_caseVars
  BY DEF Next, partVars

(* Each part keeps its types, whichever is the one that runs: the seller API's *)
(* ids stay ahead of its tables, calls stand in the order of their starts,     *)
(* records and verdicts are of their kinds, a run is judged on complete        *)
(* evidence, an alert rests on an overdue sample and a choice on a complete E1.*)
THEOREM ExperimentTypes == FairSpec => []ExperimentTypeOK
  <1>1. [Next]_<<part, partVars>> => /\ UNCHANGED part
        /\ [LedgerNext]_ledgerVars /\ [EvidenceNext]_evidenceVars /\ [DeliveryNext]_deliveryVars
        /\ [EffectNext]_effectVars /\ [ObserverNext]_observerVars /\ [IsolationNext]_isolationVars
        /\ [SuiteNext]_suiteVars /\ [CaseNext]_caseVars
    BY PartSteps
  <1>2. FairSpec => (part = "ledger" => [](part = "ledger" /\ LedgerTypeOK))
    <2>1. Init => LedgerInit
      BY DEF Init
    <2>2. part = "ledger" /\ UNCHANGED part => (part = "ledger")'
      OBVIOUS
    <2> QED BY <1>1, <2>1, <2>2, LedgerTypesCorrect, PTL DEF FairSpec, LedgerSpec
  <1>3. FairSpec => (part = "budget" => [](part = "budget" /\ EvidenceTypeOK))
    <2>1. Init => EvidenceInit
      BY DEF Init
    <2>2. part = "budget" /\ UNCHANGED part => (part = "budget")'
      OBVIOUS
    <2> QED BY <1>1, <2>1, <2>2, PeaksCorrect, PTL DEF FairSpec, EvidenceSpec
  <1>4. FairSpec => (part = "delivery" => [](part = "delivery" /\ DeliveryTypeOK))
    <2>1. Init /\ part = "delivery" => DeliveryInit
      BY DEF Init
    <2>2. part = "delivery" /\ UNCHANGED part => (part = "delivery")'
      OBVIOUS
    <2> QED BY <1>1, <2>1, <2>2, RecordsCorrect, PTL DEF FairSpec, LoadSpec
  <1>5. FairSpec => (part = "effect" => [](part = "effect" /\ EffectTypeOK))
    <2>1. Init /\ part = "effect" => EffectInit
      BY DEF Init
    <2>2. part = "effect" /\ UNCHANGED part => (part = "effect")'
      OBVIOUS
    <2> QED BY <1>1, <2>1, <2>2, VerdictsCorrect, PTL DEF FairSpec, EffectSpec
  <1>6. FairSpec => (part = "observer" => [](part = "observer" /\ ObserverTypeOK))
    <2>1. Init => ObserverInit
      BY DEF Init
    <2>2. part = "observer" /\ UNCHANGED part => (part = "observer")'
      OBVIOUS
    <2> QED BY <1>1, <2>1, <2>2, ObserverTypesCorrect, PTL DEF FairSpec, ObserverSpec
  <1>7. FairSpec => (part = "isolation" => [](part = "isolation" /\ IsolationTypeOK))
    <2>1. Init /\ part = "isolation" => IsolationInit
      BY DEF Init
    <2>2. part = "isolation" /\ UNCHANGED part => (part = "isolation")'
      OBVIOUS
    <2> QED BY <1>1, <2>1, <2>2, RunsCorrect, PTL DEF FairSpec, IsolationSpec
  <1>8. FairSpec => (part = "suite" => [](part = "suite" /\ SuiteTypeOK))
    <2>1. Init => SuiteInit
      BY DEF Init
    <2>2. part = "suite" /\ UNCHANGED part => (part = "suite")'
      OBVIOUS
    <2> QED BY <1>1, <2>1, <2>2, PlanCorrect, PTL DEF FairSpec, SuiteSpec
  <1>9. FairSpec => (part = "case" => [](part = "case" /\ CaseTypeOK))
    <2>1. Init /\ part = "case" => CaseInit
      BY DEF Init
    <2>2. part = "case" /\ UNCHANGED part => (part = "case")'
      OBVIOUS
    <2> QED BY <1>1, <2>1, <2>2, CaseCorrect, PTL DEF FairSpec, CaseSpec
  <1>10. Init => \/ part = "ledger" \/ part = "budget" \/ part = "delivery" \/ part = "effect"
                 \/ part = "observer" \/ part = "isolation" \/ part = "suite" \/ part = "case"
    BY DEF Init, Parts
  <1>11. /\ part = "ledger" /\ LedgerTypeOK => ExperimentTypeOK
         /\ part = "budget" /\ EvidenceTypeOK => ExperimentTypeOK
         /\ part = "delivery" /\ DeliveryTypeOK => ExperimentTypeOK
         /\ part = "effect" /\ EffectTypeOK => ExperimentTypeOK
         /\ part = "observer" /\ ObserverTypeOK => ExperimentTypeOK
         /\ part = "isolation" /\ IsolationTypeOK => ExperimentTypeOK
         /\ part = "suite" /\ SuiteTypeOK => ExperimentTypeOK
         /\ part = "case" /\ CaseTypeOK => ExperimentTypeOK
    BY DEF ExperimentTypeOK
  <1> QED BY <1>2, <1>3, <1>4, <1>5, <1>6, <1>7, <1>8, <1>9, <1>10, <1>11, PTL DEF FairSpec
=============================================================================
