-------------------------- MODULE DeliveryEvidence --------------------------
(* The load generator (isolation/load.py), which sends a request again when    *)
(* its answer is lost, the files runner.collect takes away, and the liveness   *)
(* verdict check.check draws from them.                                        *)
EXTENDS Integers, FiniteSets

CONSTANTS
  Planned,      \* the CREATE events of the trace
  MaxTries,     \* how often a sender tries one event (5 in the code)
  Room,         \* orders the seller quota has room for
  MaxLost       \* bound: answers that are lost

ASSUME DeliveryAssumption ==
  IsFiniteSet(Planned) /\ MaxTries \in Nat \ {0} /\ Room \in Nat /\ MaxLost \in Nat

VARIABLES
  tries,        \* per event: record['attempts']
  waiting,      \* per event: its sender waits for an answer
  request,      \* per event and try: how far the source is with it
  record,       \* per event: the status in results, "none" while it has none
  taken,        \* the events whose obligation is committed at the source
  effects,      \* the events the seller API has an effect of
  finished,     \* the events whose inbox row is DONE and quota returned
  lost,         \* how many answers were lost
  twice,        \* events of which two requests were at the source at once
                \* (only for the property)
  stage,        \* what collect does next
  loadFile, effectsFile, dbFile
                \* load.jsonl, the effects of mock.json and partner-db.json

deliveryVars == <<tries, waiting, request, record, taken, effects, finished, lost, twice,
                  stage, loadFile, effectsFile, dbFile>>
collectVars  == <<stage, loadFile, effectsFile, dbFile>>
senderVars   == <<tries, waiting, record>>

(* load.jsonl as an earlier run left it on the producer host.                  *)
OldFile == [e \in Planned |-> "other run"]

(* Every planned event has its record, or the generator is gone.               *)
AllRecorded == stage # "load" \/ \A e \in Planned : record[e] # "none"

DeliveryStart(s) ==
  /\ tries = [e \in Planned |-> 0] /\ waiting = [e \in Planned |-> FALSE]
  /\ request = [e \in Planned |-> [n \in 1 .. MaxTries |-> "unsent"]]
  /\ record = [e \in Planned |-> "none"]
  /\ taken = {} /\ effects = {} /\ finished = {} /\ lost = 0 /\ twice = {}
  /\ stage = s /\ loadFile = record /\ effectsFile = {}
  /\ dbFile = [there |-> FALSE, openInbox |-> {}]
DeliveryInit == DeliveryStart("load")

-----------------------------------------------------------------------------
(* Sender.run *)

AtSource(e) == {n \in 1 .. MaxTries : request[e][n] \in {"sent", "fresh", "known"}}

(* The next attempt. An earlier one whose answer was lost may still be going   *)
(* on at the source.                                                           *)
Post(e) ==
  /\ stage = "load" /\ record[e] = "none" /\ ~waiting[e] /\ tries[e] < MaxTries
  /\ tries' = [tries EXCEPT ![e] = @ + 1]
  /\ waiting' = [waiting EXCEPT ![e] = TRUE]
  /\ request' = [request EXCEPT ![e][tries[e] + 1] = "sent"]
  /\ twice' = IF AtSource(e) # {} THEN twice \cup {e} ELSE twice
  /\ UNCHANGED <<record, taken, effects, finished, lost, collectVars>>

(* A sender that cannot go on records the last status it had.                  *)
RecordOrRetry(e, status, final) ==
  /\ waiting' = [waiting EXCEPT ![e] = FALSE]
  /\ record' = [record EXCEPT ![e] = IF final \/ tries[e] = MaxTries THEN status ELSE "none"]

(* A faulty ReceiveAnswer: any answer is taken for an acceptance.              *)
ReceiveAnswerOk(e) ==
  /\ stage = "load" /\ waiting[e] /\ request[e][tries[e]] \in {"ok", "refused", "error"}
  /\ RecordOrRetry(e, "ok", TRUE)
  /\ UNCHANGED <<tries, request, taken, effects, finished, lost, twice, collectVars>>

(* 200 and 4xx are the source's decision and are final; 5xx is tried again.    *)
ReceiveAnswer(e) ==
  LET status == request[e][tries[e]] IN
  /\ stage = "load" /\ waiting[e] /\ status \in {"ok", "refused", "error"}
  /\ RecordOrRetry(e, status, status \in {"ok", "refused"})
  /\ UNCHANGED <<tries, request, taken, effects, finished, lost, twice, collectVars>>

(* The connection breaks, or 30 seconds pass without an answer.                *)
LoseAnswer(e) ==
  /\ stage = "load" /\ waiting[e] /\ lost < MaxLost
  /\ lost' = lost + 1
  /\ RecordOrRetry(e, "lost", FALSE)
  /\ UNCHANGED <<tries, request, taken, effects, finished, twice, collectVars>>

-----------------------------------------------------------------------------
(* The source and the partner service, as their own modules describe them      *)

(* The transaction begins: its first read fixes whether the event is known.    *)
SourceBegin(e, n) ==
  /\ request[e][n] = "sent"
  /\ request' = [request EXCEPT ![e][n] = IF e \in taken THEN "known" ELSE "fresh"]
  /\ UNCHANGED <<senderVars, taken, effects, finished, lost, twice, collectVars>>

(* It ends: the first acceptance is kept, the quota refuses, the key exists by *)
(* now, or the obligation is committed.                                        *)
SourceEnd(e, n) ==
  LET full == Cardinality(taken \ finished) >= Room
      result == CASE request[e][n] = "known" -> "ok"
                  [] request[e][n] # "known" /\ full -> "refused"
                  [] request[e][n] # "known" /\ ~full /\ e \in taken -> "error"
                  [] OTHER -> "ok"
  IN /\ request[e][n] \in {"fresh", "known"}
     /\ request' = [request EXCEPT ![e][n] = result]
     /\ taken' = IF result = "ok" THEN taken \cup {e} ELSE taken
     /\ UNCHANGED <<senderVars, effects, finished, lost, twice, collectVars>>

DeliverEffect(e) ==
  /\ e \in taken \ effects
  /\ effects' = effects \cup {e}
  /\ UNCHANGED <<senderVars, request, taken, finished, lost, twice, collectVars>>

FinishInbox(e) ==
  /\ e \in effects \ finished
  /\ finished' = finished \cup {e}
  /\ UNCHANGED <<senderVars, request, taken, effects, lost, twice, collectVars>>

-----------------------------------------------------------------------------
(* Run.collect, after load.py has written its records or has died; the         *)
(* services go on while it reads. A part that cannot be read is left out; the  *)
(* load.jsonl of an earlier run is still on the producer host.                 *)
CollectLoad(alive) ==
  /\ stage = "load" /\ stage' = "mock"
  /\ alive => \A e \in Planned : record[e] # "none"
  /\ loadFile' = IF alive THEN record ELSE OldFile
  /\ UNCHANGED <<senderVars, request, taken, effects, finished, lost, twice, effectsFile, dbFile>>

CollectEffects(readable) ==
  /\ stage = "mock" /\ stage' = "db"
  /\ effectsFile' = IF readable THEN effects ELSE {}
  /\ UNCHANGED <<senderVars, request, taken, effects, finished, lost, twice, loadFile, dbFile>>

CollectDb(readable) ==
  /\ stage = "db" /\ stage' = "done"
  /\ dbFile' = [there |-> readable, openInbox |-> IF readable THEN taken \ finished ELSE {}]
  /\ UNCHANGED <<senderVars, request, taken, effects, finished, lost, twice, loadFile, effectsFile>>

SenderStep(e) == Post(e) \/ ReceiveAnswer(e) \/ LoseAnswer(e)

DeliveryNext ==
  \/ \E e \in Planned : SenderStep(e) \/ DeliverEffect(e) \/ FinishInbox(e)
  \/ \E e \in Planned, n \in 1 .. MaxTries : SourceBegin(e, n) \/ SourceEnd(e, n)
  \/ \E good \in BOOLEAN : CollectLoad(good) \/ CollectEffects(good) \/ CollectDb(good)

LoadSpec == DeliveryInit /\ [][DeliveryNext]_deliveryVars

(* Sender threads run, and the source answers what it has taken up. Nobody     *)
(* promises that the generator lives to write its file.                        *)
DeliveryFairness ==
  /\ \A e \in Planned : WF_deliveryVars(SenderStep(e))
  /\ \A e \in Planned, n \in 1 .. MaxTries :
       WF_deliveryVars(SourceBegin(e, n)) /\ WF_deliveryVars(SourceEnd(e, n))

-----------------------------------------------------------------------------
(* check.py. With the records of another run the lookup of an event in the     *)
(* trace raises, and the run has no verdict.                                   *)
Verdict == stage = "done" /\ loadFile # OldFile

Recorded(status) == {e \in Planned : loadFile[e] = status}

LivenessPassed ==
  /\ Recorded("ok") \subseteq effectsFile
  /\ dbFile.openInbox \cap effectsFile = {}
  /\ Cardinality(Planned \ Recorded("ok")) <= Cardinality(Recorded("refused"))

-----------------------------------------------------------------------------
(* Types; and a request is at the source only for a try that was made.         *)
DeliveryTypeOK ==
  /\ tries \in [Planned -> 0 .. MaxTries] /\ lost \in 0 .. MaxLost
  /\ record \in [Planned -> {"none", "ok", "refused", "error", "lost"}]
  /\ finished \subseteq effects /\ effects \subseteq taken /\ taken \subseteq Planned
  /\ stage \in {"load", "mock", "db", "done"}
  /\ \A e \in Planned, n \in 1 .. MaxTries : n > tries[e] => request[e][n] = "unsent"

(* The generator's records: an event recorded with 200 has its obligation at   *)
(* the source whichever of its tries was answered, and one recorded as refused *)
(* has none, unless the answer to a try was lost while the source was still at *)
(* it and the next try was refused for the room the first one took.            *)
RecordsTellTheSource ==
  \A e \in Planned :
    /\ record[e] = "ok" => e \in taken
    /\ record[e] = "refused" /\ e \in taken => e \in twice

(* A run passed on complete evidence left nothing behind: every operation the  *)
(* source took was delivered and finished when the inbox was read, except one  *)
(* the records call refused.                                                   *)
PassedMeansFinished ==
  Verdict /\ LivenessPassed /\ dbFile.there =>
    \A e \in taken : e \in finished \/ loadFile[e] = "refused"

(* The records of the generator and the verdict drawn from them are true.      *)
RecordsTrue == RecordsTellTheSource /\ PassedMeansFinished
=============================================================================
