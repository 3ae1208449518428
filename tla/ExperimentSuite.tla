-------------------------- MODULE ExperimentSuite --------------------------
(* isolation/suite.py: the plan G0 -> C0 -> E1 -> E2 -> E3 -> E4 inside a time *)
(* budget, with the input rate chosen after C0 and the candidates after E1.    *)
EXTENDS Integers, Sequences, FiniteSets, FiniteSetsExt, TLC

CONSTANTS
  Seeds,        \* how many seeds, one block of runs each (3 in the code)
  Budgets,      \* budget_minutes
  Minutes,      \* MINUTES: what a run of a stage is planned to take
  TestMinutes,  \* what the test of an instrument takes
  Overruns,     \* bound: minutes a run may take longer than planned
  Results       \* bound: what a run may come out with

ASSUME SuiteAssumption ==
  /\ Seeds \in Nat \ {0} /\ Budgets \subseteq Nat /\ TestMinutes \in Nat
  /\ \A b \in Budgets : b > 4 * TestMinutes
  /\ Overruns \subseteq Nat /\ Overruns # {}
  /\ Minutes \in [{"c0", "e1", "e2", "e3", "e4", "e1x"} -> Nat \ {0}]
  /\ Results \subseteq [there : BOOLEAN, safe : BOOLEAN, miss : Seq(Int)]

KAFKA == {"kafka-bucket", "kafka-retry"}
ALL   == KAFKA \cup {"db-inbox"}
Stages == <<"c0", "e1", "e2", "e3", "e4", "e1x">>
Instruments == <<"checker", "source", "mock", "observer">>

VARIABLES
  remaining,    \* remaining_minutes
  tested,       \* how many instruments G0 has tested
  sound,        \* all of them passed
  stageNo,      \* how far the plan is: index into Stages
  block,        \* which seed of that stage
  todo,         \* the cells of the block that are still to run
  results,      \* per candidate: its E1 results, in order
  stable,       \* all candidates so far were stable at 80 events per second
  rate,         \* the input rate after C0
  best, final,  \* what pick has chosen
  listed,       \* the notes of suite.jsonl: [stage, block, cell, event]
  status        \* "g0", "running", "select", "done", "stopped", "died"

planVars  == <<stageNo, block, todo, results, stable, rate, best, final, listed>>
g0Vars    == <<tested, sound>>
suiteVars == <<remaining, g0Vars, planVars, status>>

(* A result as pick reads it: no checks.json, or its safety and the miss rates *)
(* of the normal sellers in the judged phases, in 1/1000, and -1 for a phase   *)
(* in which none of their operations was accepted.                             *)
NoResult == [there |-> FALSE, safe |-> FALSE, miss |-> <<>>]

(* The runs of one block, in whatever order the seed shuffles them to: the     *)
(* candidate and, in E3, the condition.                                        *)
Cells(stage) ==
  CASE stage \in {"c0", "e1"} -> ALL \X {"none"}
    [] stage = "e2" -> {<<"db-inbox", "none">>}
    [] stage = "e3" -> {"db-inbox", best} \X {"scale", "stale"}
    [] stage = "e4" -> {<<final, "none">>}
    [] stage = "e1x" -> {"db-inbox", best} \X {"none"}

Blocks(stage) == CASE stage = "c0" -> 1 [] stage = "e1x" -> 2 [] OTHER -> Seeds

(* The extra seeds are only begun with the budget for all of them.             *)
ExtraSeeds == remaining >= 2 * 2 * Minutes["e1"] + 4

SuiteInit ==
  /\ remaining \in Budgets /\ status = "g0" /\ tested = 0 /\ sound = TRUE
  /\ stageNo = 1 /\ block = 1 /\ todo = ALL \X {"none"}
  /\ results = [c \in ALL |-> <<>>] /\ stable = TRUE
  /\ rate = 0 /\ best = "none" /\ final = "none" /\ listed = {}

-----------------------------------------------------------------------------
(* The selection rules *)

JudgedMiss(r) == Max({0} \cup {r.miss[p] : p \in DOMAIN r.miss})

There(c) == SelectSeq(results[c], LAMBDA r : r.there)
Safe(c)  == results[c] # <<>> /\ \A i \in DOMAIN results[c] : results[c][i].there /\ results[c][i].safe

(* statistics.median of the results that are there, times two to stay whole.   *)
Median2(c) ==
  LET m == SortSeq([i \in DOMAIN There(c) |-> JudgedMiss(There(c)[i])], <)
      n == Len(m)
  IN m[(n + 1) \div 2] + m[(n + 2) \div 2]

(* A faulty Meets: one good run is enough.                                     *)
MeetsOnce(c) ==
  Safe(c) /\ \E i \in DOMAIN results[c] : JudgedMiss(results[c][i]) <= 10

Meets(c) ==
  /\ Safe(c) /\ Len(results[c]) = Seeds
  /\ \A i \in DOMAIN results[c] : JudgedMiss(results[c][i]) <= 10

Eligible == LET safe == {c \in KAFKA : Safe(c)} IN IF safe # {} THEN safe ELSE KAFKA

(* statistics.median raises on an empty list, in the sort of the Kafka         *)
(* candidates or in the comparison with the inbox.                             *)
NoMedian(c) == \A i \in DOMAIN results[c] : ~results[c][i].there

(* The eligible candidate with the lower median. Two of them that differ by    *)
(* less than 5/1000 are a tie, which goes to kafka-bucket.                     *)
Best ==
  IF Eligible = KAFKA
  THEN IF Median2("kafka-bucket") - Median2("kafka-retry") < 10 THEN "kafka-bucket" ELSE "kafka-retry"
  ELSE CHOOSE c \in Eligible : TRUE

Final(b) ==
  CASE Meets(b) -> b
    [] ~Meets(b) /\ Meets("db-inbox") -> "db-inbox"
    [] OTHER -> IF Median2("db-inbox") < Median2(b) THEN "db-inbox" ELSE b

PickRaises ==
  \/ \E c \in Eligible : NoMedian(c)
  \/ ~Meets(Best) /\ ~Meets("db-inbox") /\ NoMedian("db-inbox")

(* The results are not read again after this.                                  *)
Pick ==
  /\ status = "select"
  /\ IF PickRaises
     THEN status' = "died" /\ UNCHANGED <<best, final, results>>
     ELSE /\ status' = "running" /\ best' = Best /\ final' = Final(Best)
          /\ results' = [c \in ALL |-> <<>>]
  /\ UNCHANGED <<remaining, g0Vars, stageNo, block, todo, stable, rate, listed>>

-----------------------------------------------------------------------------
(* The plan *)

(* G0: the instruments are tested first, one after the other, whatever the     *)
(* tests before have shown and whatever is left of the budget.                 *)
Tests(instrument, outcomes) ==
  /\ status = "g0" /\ tested < Len(Instruments) /\ Instruments[tested + 1] = instrument
  /\ tested' = tested + 1
  /\ remaining' = remaining - TestMinutes
  /\ \E outcome \in outcomes :
       /\ sound' = (sound /\ outcome = "passed")
       /\ status' = IF outcome = "raised" THEN "died" ELSE status
  /\ UNCHANGED planVars

(* An error of the source or of the mock counts as a failed test. What can     *)
(* raise is the stop of the services in the finally block, and the median of   *)
(* the observer's windows when none of them has a latency.                     *)
g0_checker  == Tests("checker", {"passed", "failed"})
g0_source   == Tests("source", {"passed", "failed", "raised"})
g0_mock     == Tests("mock", {"passed", "failed"})
g0_observer == Tests("observer", {"passed", "failed", "raised"})

(* Nothing is compared when one of them failed.                                *)
g0 ==
  /\ status = "g0" /\ tested = Len(Instruments)
  /\ status' = IF sound THEN "running" ELSE "stopped"
  /\ UNCHANGED <<remaining, g0Vars, planVars>>

Note(c, event) ==
  listed' = listed \cup {[stage |-> Stages[stageNo], block |-> block, cell |-> c, event |-> event]}

Keep(c, r) == results' = IF Stages[stageNo] = "e1" THEN [results EXCEPT ![c[1]] = Append(@, r)] ELSE results

(* stable_at_80 of a C0 run, FALSE for one that was not run; the rate is 80 if *)
(* all of them were stable.                                                    *)
StableAt80(ok) == stable' = IF Stages[stageNo] = "c0" THEN stable /\ ok ELSE stable

(* A faulty NotRun: the item is dropped from the plan.                         *)
NotRunSilent(c) ==
  /\ status = "running" /\ c \in todo /\ remaining < Minutes[Stages[stageNo]] + 1
  /\ todo' = todo \ {c} /\ Keep(c, NoResult)
  /\ UNCHANGED <<remaining, g0Vars, stageNo, block, stable, rate, best, final, listed, status>>

(* Suite.run, without the budget for it.                                       *)
NotRun(c) ==
  /\ status = "running" /\ c \in todo /\ remaining < Minutes[Stages[stageNo]] + 1
  /\ Note(c, "not_run") /\ todo' = todo \ {c} /\ Keep(c, NoResult)
  /\ StableAt80(FALSE)
  /\ UNCHANGED <<remaining, g0Vars, stageNo, block, rate, best, final, status>>

BudgetAllows(stage) == remaining >= Minutes[stage] + 1

(* Suite.run: the run is executed and kept whatever its outcome. A C0 run      *)
(* without its files raises in stable_at_80.                                   *)
RunCell(c, r, late) ==
  LET stage == Stages[stageNo] IN
  /\ status = "running" /\ c \in todo /\ BudgetAllows(stage)
  /\ remaining' = remaining - Minutes[stage] - late
  /\ Note(c, "finished") /\ todo' = todo \ {c} /\ Keep(c, r)
  /\ stage \notin {"c0", "e1"} => r = NoResult   \* nobody reads it
  /\ \E ok \in BOOLEAN : StableAt80(ok)
  /\ status' = IF stage = "c0" /\ ~r.there THEN "died" ELSE status
  /\ UNCHANGED <<g0Vars, stageNo, block, rate, best, final>>

(* The block is through: the next seed, the next stage, or the end.            *)
NextBlock ==
  /\ status = "running" /\ todo = {}
  /\ rate' = IF Stages[stageNo] # "c0" THEN rate ELSE IF stable THEN 80 ELSE 40
  /\ \/ /\ block < Blocks(Stages[stageNo])
        /\ block' = block + 1 /\ todo' = Cells(Stages[stageNo])
        /\ UNCHANGED <<stageNo, status>>
     \/ /\ block = Blocks(Stages[stageNo]) /\ Stages[stageNo] = "e1" /\ best = "none"
        /\ status' = "select"
        /\ UNCHANGED <<stageNo, block, todo>>
     \/ /\ block = Blocks(Stages[stageNo]) /\ (Stages[stageNo] = "e1" => best # "none")
        /\ IF stageNo = Len(Stages) \/ (Stages[stageNo] = "e4" /\ ~ExtraSeeds)
           THEN status' = "done" /\ UNCHANGED <<stageNo, block, todo>>
           ELSE /\ stageNo' = stageNo + 1 /\ block' = 1 /\ todo' = Cells(Stages[stageNo + 1])
                /\ UNCHANGED status
  /\ UNCHANGED <<remaining, g0Vars, results, stable, best, final, listed>>

SuiteNext ==
  \/ g0_checker \/ g0_source \/ g0_mock \/ g0_observer \/ g0
  \/ Pick \/ NextBlock
  \/ \E c \in todo : \/ NotRun(c)
                     \/ \E r \in Results, late \in Overruns : RunCell(c, r, late)

SuiteSpec == SuiteInit /\ [][SuiteNext]_suiteVars

-----------------------------------------------------------------------------
(* Types; nothing is run before every instrument has passed, and the results   *)
(* of E1 are complete before anything is chosen.                               *)
SuiteTypeOK ==
  /\ remaining \in Int /\ stageNo \in DOMAIN Stages /\ rate \in {0, 40, 80}
  /\ \A c \in ALL : \A i \in DOMAIN results[c] : results[c][i] \in Results \cup {NoResult}
  /\ status \in {"g0", "running", "select", "done", "stopped", "died"}
  /\ listed # {} => sound /\ tested = Len(Instruments)
  /\ status = "select" => \A c \in ALL : Len(results[c]) = Seeds

(* "the budget ends with completed, failed and not-run items listed": at the   *)
(* end every item of the plan has its note, however many the budget has cut.   *)
EveryItemListed ==
  status = "done" =>
    \A i \in 1 .. stageNo : \A b \in 1 .. Blocks(Stages[i]), c \in Cells(Stages[i]) :
        \E n \in listed : n.stage = Stages[i] /\ n.block = b /\ n.cell = c

(* The budget is exceeded by no more than the overrun of one run, whatever the *)
(* runs before it have taken.                                                  *)
BudgetHolds == \E late \in Overruns : remaining >= 1 - late

(* What is chosen as final structure for its numbers has earned them: all its  *)
(* E1 runs are there and safe, and none missed its target in a judged phase in *)
(* which it accepted anything; only when neither candidate meets the target is *)
(* one chosen that does not. (A judged phase without any operation of a normal *)
(* seller fails in check.py, and counts as no miss at all here.)               *)
ChosenPassed ==
  [][status = "select" /\ status' = "running" =>
       \/ /\ Len(results[final']) = Seeds
          /\ \A i \in 1 .. Seeds :
               LET r == results[final'][i]
               IN r.there /\ r.safe /\ \A p \in DOMAIN r.miss : r.miss[p] <= 10
       \/ ~Meets(best') /\ ~Meets("db-inbox")]_suiteVars

(* The suite dies only for want of evidence: a test of G0 that raised, a C0    *)
(* run without its files, or a candidate without a single E1 result.           *)
DiesForWantOfEvidence ==
  status = "died" => \/ listed = {}
                     \/ Stages[stageNo] = "c0"
                     \/ \E c \in ALL : \A i \in DOMAIN results[c] : ~results[c][i].there

(* The plan is accounted for, and keeps its budget.                            *)
PlanAccounted == EveryItemListed /\ BudgetHolds /\ DiesForWantOfEvidence
=============================================================================
