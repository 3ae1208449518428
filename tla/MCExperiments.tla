--------------------------- MODULE MCExperiments ---------------------------
(* The experiment tooling for TLC: each of its parts by itself, one per        *)
(* behaviour; the parts that are not its subject stay where they are.          *)
EXTENDS PartnerLedger, BudgetEvidence, DeliveryEvidence, EffectEvidence, ObserverAlert,
        IsolationRun, ExperimentSuite, ExperimentCase

CONSTANTS e1, e2, A, B, b1, s1

VARIABLE part

Parts == {"ledger", "budget", "delivery", "effect", "observer", "isolation", "suite",
          "case"}

-----------------------------------------------------------------------------
(* Ledger: one order with two operations; two requests, for the same event or  *)
(* not; the first attempt of an event is refused.                              *)
MCRequests   == 1 .. 2
MCEvents     == {e1, e2}
MCOrders     == {A}
MCBodies     == {b1}
MCOrderOf    == [e \in MCEvents |-> A]
MCSequenceOf == [e \in MCEvents |-> IF e = e1 THEN 1 ELSE 2]
MCPolicies   == {[failures |-> 1, idempotent |-> TRUE, drop |-> FALSE]}

(* Budget: the calls of two operations of two orders of one seller.            *)
MCCalledOrders  == {A, B}
MCCalledOrderOf == [e \in MCEvents |-> IF e = e1 THEN A ELSE B]
MCSellers       == {s1}
MCSellerOf      == [o \in MCCalledOrders |-> s1]

(* Effects: one operation that may be taken over, or two in a sequence.        *)
MCBounds == {<<2, 0>>, <<1, 1>>}

(* Isolation: a stale owner, a fault with a scale-out, and a fault.            *)
MCStepsOf == <<{"stale"}, {"inject", "remove", "scale"}, {"inject", "remove"}>>
MCAtStart == <<2, 1, 1>>

(* Suite: a result is missing, has an empty phase, misses or is unsafe.         *)
MCMinutes == [s \in {"c0", "e1", "e2", "e3", "e4", "e1x"} |-> IF s = "c0" THEN 1 ELSE 2]
Result(safe, miss) == [there |-> TRUE, safe |-> safe, miss |-> <<miss>>]
MCResults == {NoResult, Result(TRUE, -1), Result(TRUE, 20), Result(FALSE, 0)}

(* Case: every scenario, followed by one without a fault.                      *)
MCPrograms == {<<s, "clean">> : s \in Scenarios}

-----------------------------------------------------------------------------
partVars == <<ledgerVars, evidenceVars, deliveryVars, effectVars, observerVars, isolationVars,
              suiteVars, caseVars>>

Init ==
  /\ part \in Parts
  /\ LedgerInit /\ EvidenceInit /\ ObserverInit /\ SuiteInit
  /\ IF part = "delivery"  THEN DeliveryInit  ELSE DeliveryStart("off")
  /\ IF part = "effect"    THEN EffectInit    ELSE upTo = 1 /\ bound = <<0, 0>> /\ EffectStart("off")
  /\ IF part = "isolation" THEN IsolationInit ELSE IsolationStart("off")
  /\ IF part = "case"      THEN CaseInit      ELSE CaseStart("off")
  /\ part # "suite" => remaining = CHOOSE b \in Budgets : TRUE
  /\ part # "case" => program = <<"clean", "clean">> /\ ~remote

Next ==
  /\ UNCHANGED part
  /\ \/ /\ part = "ledger" /\ LedgerNext
        /\ UNCHANGED <<evidenceVars, deliveryVars, effectVars, observerVars,
                       isolationVars, suiteVars, caseVars>>
     \/ /\ part = "budget" /\ EvidenceNext
        /\ UNCHANGED <<ledgerVars, deliveryVars, effectVars, observerVars,
                       isolationVars, suiteVars, caseVars>>
     \/ /\ part = "delivery" /\ DeliveryNext
        /\ UNCHANGED <<ledgerVars, evidenceVars, effectVars, observerVars,
                       isolationVars, suiteVars, caseVars>>
     \/ /\ part = "effect" /\ EffectNext
        /\ UNCHANGED <<ledgerVars, evidenceVars, deliveryVars, observerVars,
                       isolationVars, suiteVars, caseVars>>
     \/ /\ part = "observer" /\ ObserverNext
        /\ UNCHANGED <<ledgerVars, evidenceVars, deliveryVars, effectVars,
                       isolationVars, suiteVars, caseVars>>
     \/ /\ part = "isolation" /\ IsolationNext
        /\ UNCHANGED <<ledgerVars, evidenceVars, deliveryVars, effectVars,
                       observerVars, suiteVars, caseVars>>
     \/ /\ part = "suite" /\ SuiteNext
        /\ UNCHANGED <<ledgerVars, evidenceVars, deliveryVars, effectVars,
                       observerVars, isolationVars, caseVars>>
     \/ /\ part = "case" /\ CaseNext
        /\ UNCHANGED <<ledgerVars, evidenceVars, deliveryVars, effectVars,
                       observerVars, isolationVars, suiteVars>>

FairSpec ==
  /\ Init /\ [][Next]_<<part, partVars>>
  /\ LedgerFairness /\ DeliveryFairness /\ IsolationFairness /\ CaseFairness

-----------------------------------------------------------------------------
(* The types of the parts, with what each states beside them: a run is judged  *)
(* only on complete evidence, ids are handed out ahead of use, calls stand in  *)
(* the order of their starts, an alert rests on a valid sample, nothing is     *)
(* chosen before E1 is complete.                                               *)
ExperimentTypeOK ==
  CASE part = "ledger" -> LedgerTypeOK
    [] part = "budget" -> EvidenceTypeOK
    [] part = "delivery" -> DeliveryTypeOK
    [] part = "effect" -> EffectTypeOK
    [] part = "observer" -> ObserverTypeOK
    [] part = "isolation" -> IsolationTypeOK
    [] part = "suite" -> SuiteTypeOK
    [] part = "case" -> CaseTypeOK

(* Everything that is started ends, under any failures the bounds allow: every *)
(* request at the seller API has its end (PartnerLedger's RequestSettles), the *)
(* load generator has a record of every event, the isolation runner comes to   *)
(* its last summary and run.py to its exit; none of their waits is for         *)
(* something that cannot come.                                                 *)
ExperimentEnds ==
  /\ RequestSettles
  /\ <>(CASE part = "delivery" -> AllRecorded
       [] part = "isolation" -> run = Runs /\ pc = "done" /\ summary[run] # "none"
       [] part = "case" -> step = "exited"
       [] OTHER -> TRUE)
=============================================================================
