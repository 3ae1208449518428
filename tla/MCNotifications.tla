--------------------------- MODULE MCNotifications ---------------------------
(* The notification service for TLC: the limiter its lanes share and the        *)
(* consumer of order outcomes, each by itself; the other stays where it is.     *)
EXTENDS NotificationLimiter, OrderNotifications

CONSTANTS e1, e2, c1, c2, r1, r2, b1, b2

TwoEvents    == {e1, e2}
TwoConsumers == {c1, c2}
TwoRealtime  == {r1, r2}
TwoBulk      == {b1, b2}

VARIABLE part

-----------------------------------------------------------------------------
PartsInit ==
  /\ part \in {"limiter", "outcomes"}
  /\ LimiterInit /\ Init

PartsNext ==
  /\ UNCHANGED part
  /\ \/ part = "limiter" /\ LimiterNext /\ UNCHANGED vars
     \/ part = "outcomes" /\ Next /\ UNCHANGED limiterVars

PartsFairSpec == PartsInit /\ [][PartsNext]_<<part, limiterVars, vars>> /\ Fairness

-----------------------------------------------------------------------------
(* The types of both parts; realtimeWaiters counts the realtime threads that    *)
(* wait, and a record is tried no more often than the error handler allows.     *)
NotificationTypeOK == LimiterTypeOK /\ TypeOK
=============================================================================
