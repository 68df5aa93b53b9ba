------------------------------ MODULE MCServicesLive ------------------------------
(* Four services whose work must come to an end, each on its own: every behaviour  *)
(* is one of the part chosen at its start, and the other parts stay where they are. *)
EXTENDS GasSubsidy, Reports, RedisConnection, SpikeAlerts, TLC

VARIABLE part

MCCaps == {[type |-> "monthly", max |-> 10, warning |-> 50, hard |-> 0]}
MCMonthFirsts == <<1, 32, 60, 91, 121>>

MCSnapshots == {[base |-> 20, priority |-> 1], [base |-> 30, priority |-> 2]}
MCDefaultThresholds ==
  [baseChange |-> <<15, 30, 40>>, base |-> <<50, 80, 100>>, volatility |-> <<40, 60, 75>>,
   priorityChange |-> <<30, 70, 100>>]
MCThresholdConfigs == {<<"volatility", 1>> :> 20 @@ <<"base", 2>> :> 25, <<"baseChange", 3>> :> 5}

liveVars == <<subsidyVars, reportVars, redisVars, spikeVars, part>>

Subsidies == part = "subsidies" /\ SubsidyNext /\ UNCHANGED <<reportVars, redisVars, spikeVars, part>>
Reporting == part = "reports" /\ ReportsNext /\ UNCHANGED <<subsidyVars, redisVars, spikeVars, part>>
Connection == part = "redis" /\ RedisNext /\ UNCHANGED <<subsidyVars, reportVars, spikeVars, part>>
Alerting == part = "alerts" /\ SpikeNext /\ UNCHANGED <<subsidyVars, reportVars, redisVars, part>>

Init ==
  /\ part \in {"subsidies", "reports", "redis", "alerts"}
  /\ SubsidyInit /\ ReportsInit /\ RedisInit /\ SpikeInit
  /\ part # "reports" => \A m \in Merchants : merchants[m] = "mail"
  /\ part # "redis" => ~redisUp

Next == Subsidies \/ Reporting \/ Connection \/ Alerting

\* The fairness of each part, while it is the one chosen.
Spec ==
  /\ Init /\ [][Next]_liveVars
  /\ \A r \in Requests :
       WF_liveVars(part = "subsidies" /\ Proceed(r) /\ UNCHANGED <<reportVars, redisVars, spikeVars, part>>)
  /\ \A r \in 1..MaxReports :
       WF_liveVars(part = "reports" /\ r \in DOMAIN rows /\ ProceedReport(r)
                     /\ UNCHANGED <<subsidyVars, redisVars, spikeVars, part>>)
  /\ \A c \in Clients :
       WF_liveVars(part = "redis" /\ ClientReady(c) /\ UNCHANGED <<subsidyVars, reportVars, spikeVars, part>>)
  /\ \A d \in Alerts :
       WF_liveVars(part = "alerts" /\ d \in DOMAIN dispatches /\ DispatchOne(d)
                     /\ UNCHANGED <<subsidyVars, reportVars, redisVars, part>>)
===================================================================================
