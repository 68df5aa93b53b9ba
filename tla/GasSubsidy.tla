------------------------------- MODULE GasSubsidy -------------------------------
(***************************************************************************)
(* Gas subsidies of one wallet (apps/api-service/src/gas-subsidy): a cap on *)
(* what the wallet may spend in a period, the log of its uses, and the      *)
(* recording of a use as checkSubsidy, log, cap update, alerts and          *)
(* suspicion, each in round trips of its own.                               *)
(*                                                                          *)
(* A request runs up to its next round trip in one step; requests           *)
(* interleave between the steps and any may fail there.  Caps are saved     *)
(* from entities read earlier: the save reads the row and writes the        *)
(* columns in which the entity differs.  decimal columns are read as text.  *)
(***************************************************************************)
EXTENDS Integers, FiniteSets, Sequences, SequencesExt, EntitySave

CONSTANTS
  Requests,     \* requests the service may handle at a time
  Amounts,      \* amounts that uses may have
  CapRequests,  \* caps an operator may create; 0 stands for a field left out
  Take,         \* uses that the analysis looks at (10)
  Factor,       \* times their average that make an amount unusual (10)
  Rapid,        \* uses in an hour that are too many (50)
  MonthFirsts,  \* the days months begin with; day 1 is a Sunday
  Days,         \* days on which something happens
  MaxCaps,      \* bound on the caps created
  MaxLogs       \* bound on the uses logged

ASSUME GasSubsidyAssumption ==
  /\ Amounts \subseteq Nat \ {0}
  /\ \A c \in CapRequests : /\ c.type \in {"daily", "weekly", "monthly", "lifetime"}
                            /\ c.max \in Nat /\ c.warning \in Nat /\ c.hard \in Nat
  /\ Take \in Nat \ {0} /\ Factor \in Nat \ {0} /\ Rapid \in Nat /\ Take <= Rapid
  /\ Days \subseteq Nat \ {0} /\ MaxCaps \in Nat /\ MaxLogs \in Nat

VARIABLES
  caps,      \* the caps of the wallet in the order of their creation
  logs,      \* the uses logged, oldest first
  flags,     \* severity of the active flag of each type, 0 for none
  calls,     \* the requests under way
  today,
  base,      \* uses logged before the latest cap or its latest reset
  counted,   \* what the recordings that reached the cap update add up to
  disturbed  \* recordings have overlapped or failed since base

subsidyVars == <<caps, logs, flags, calls, today, base, counted, disturbed>>

Default(value, default) == IF value = 0 THEN default ELSE value

-----------------------------------------------------------------------------
(* Periods.  An end is the last day it covers: a daily period ends at the    *)
(* next midnight, the others at the last millisecond of a day.               *)

MonthOf(day) ==
  CHOOSE m \in DOMAIN MonthFirsts :
    /\ MonthFirsts[m] <= day
    /\ m + 1 \in DOMAIN MonthFirsts => day < MonthFirsts[m + 1]

\* Mutant: the end of the month that runs already, as if setMonth were left out.
MutLastDayOfMonth(day) == MonthFirsts[MonthOf(day)] - 1

\* setMonth keeps the day of the month and lets it run over a shorter month;
\* setDate(0) is the day before the month then reached.
LastDayOfMonth(day) ==
  LET m == MonthOf(day)
      sameDayNextMonth == MonthFirsts[m + 1] + (day - MonthFirsts[m])
  IN MonthFirsts[MonthOf(sameDayNextMonth)] - 1

Century == 36500

PeriodEnd(type, day) ==
  CASE type = "daily" -> day
    [] type = "weekly" -> day + 7 - ((day - 1) % 7)
    [] type = "monthly" -> LastDayOfMonth(day)
    [] type = "lifetime" -> day + Century

NewCap(c) ==
  [type |-> c.type, max |-> c.max, warning |-> Default(c.warning, 80),
   hard |-> Default(c.hard, 100), usage |-> 0, status |-> "active",
   end |-> PeriodEnd(c.type, today)]

\* Mutant: the new period begins with the usage of the old one.
MutReset(cap) == [cap EXCEPT !.status = "active", !.end = PeriodEnd(cap.type, today)]

Reset(cap) ==
  [cap EXCEPT !.usage = 0, !.status = "active", !.end = PeriodEnd(cap.type, today)]

-----------------------------------------------------------------------------
(* Decisions *)

\* usagePercentage >= percent, for numbers.
Reaches(usage, cap, percent) == usage * 100 >= percent * cap.max

\* A decimal(10,2) column as it is read: digits, point, two digits.  Percentages
\* stay below 1000 here.
Point == -1
Text(hundredths) ==
  LET n == hundredths \div 100
      units == <<n % 10>>
      tens == IF n < 10 THEN <<>> ELSE <<(n \div 10) % 10>>
      hundreds == IF n < 100 THEN <<>> ELSE <<n \div 100>>
  IN hundreds \o tens \o units \o <<Point, (hundredths \div 10) % 10, hundredths % 10>>

\* >= of two strings compares their characters.
TextAtLeast(a, b) ==
  LET s == Text(a) t == Text(b) IN
    \/ s = t
    \/ \E i \in DOMAIN s \cap DOMAIN t : s[i] > t[i] /\ \A j \in 1..(i - 1) : s[j] = t[j]

AlertLevel(cap) ==
  LET usage == IF cap.max = 0 THEN 0 ELSE (cap.usage * 10000) \div cap.max IN
    IF TextAtLeast(usage, cap.hard * 100) THEN "critical"
    ELSE IF TextAtLeast(usage, cap.warning * 100) THEN "warning"
    ELSE "none"

\* checkSuspiciousUsage and what checkSubsidy makes of it.
Blocked == \E f \in DOMAIN flags : flags[f] >= 8
StillAllowed(allowed) == Blocked \/ allowed

LastLogs == SubSeq(logs, IF Len(logs) > Take THEN Len(logs) - Take + 1 ELSE 1, Len(logs))
SumOf(uses) == FoldSeq(LAMBDA u, sum : u + sum, 0, uses)

UnusualAmount(amount) == amount * Len(LastLogs) > SumOf(LastLogs) * Factor
RapidTransactions == Len(LastLogs) > Rapid

Raised(severity, first) ==
  IF severity = 0 THEN first ELSE IF severity >= 10 THEN 10 ELSE severity + 1

FlagsAfter(amount) ==
  [rapid |-> IF RapidTransactions THEN Raised(flags.rapid, 8) ELSE flags.rapid,
   unusual |-> IF UnusualAmount(amount) THEN Raised(flags.unusual, 6) ELSE flags.unusual]

-----------------------------------------------------------------------------
(* Requests.  cap is the index of the cap an entity was read from. *)

NoCap == [type |-> "lifetime", max |-> 0, warning |-> 0, hard |-> 0, usage |-> 0,
          status |-> "active", end |-> 0]
Idle == [step |-> "idle", kind |-> "check", amount |-> 0, cap |-> 0,
         entity |-> NoCap, loaded |-> NoCap]

SubsidyInit ==
  /\ caps = <<>> /\ logs = <<>>
  /\ flags = [rapid |-> 0, unusual |-> 0]
  /\ calls = [r \in Requests |-> Idle]
  /\ today \in {d \in Days : \A e \in Days : d <= e}
  /\ base = 0 /\ counted = 0 /\ disturbed = FALSE

Goto(r, step) == calls' = [calls EXCEPT ![r].step = step]
Finish(r) == calls' = [calls EXCEPT ![r] = Idle]
OthersIdle(r) == \A s \in Requests \ {r} : calls[s].step = "idle"

\* POST caps
CreateCap ==
  /\ Len(caps) < MaxCaps
  /\ \E c \in CapRequests : caps' = Append(caps, NewCap(c))
  /\ base' = Len(logs)
  /\ disturbed' = \E r \in Requests : calls[r].step # "idle"
  /\ UNCHANGED <<logs, flags, calls, today, counted>>

\* POST check and POST usage begin alike.
Request(r) ==
  /\ calls[r].step = "idle"
  /\ Len(logs) + Cardinality(Requests) <= MaxLogs
  /\ \E kind \in {"check", "record"}, a \in Amounts :
       calls' = [calls EXCEPT ![r] = [Idle EXCEPT !.step = "check", !.kind = kind, !.amount = a]]
  /\ disturbed' = (disturbed \/ ~OthersIdle(r))
  /\ UNCHANGED <<caps, logs, flags, today, base, counted>>

Answer(r, allowed) ==
  IF allowed /\ calls[r].kind = "record" THEN Goto(r, "log") ELSE Finish(r)

\* getCap returns the cap created last.  An expired one is reset and checked again.
CheckSubsidy(r) ==
  /\ calls[r].step = "check"
  /\ IF caps = <<>> THEN Answer(r, TRUE)
     ELSE LET cap == Last(caps) IN
       IF today > cap.end
       THEN calls' = [calls EXCEPT ![r].step = "loadReset", ![r].cap = Len(caps),
                                   ![r].entity = Reset(cap)]
       ELSE LET allowed == ~Reaches(cap.usage + calls[r].amount, cap, cap.hard)
            IN Answer(r, allowed /\ StillAllowed(allowed))
  /\ UNCHANGED <<caps, logs, flags, today, base, counted, disturbed>>

SaveLog(r) ==
  /\ calls[r].step = "log"
  /\ logs' = Append(logs, calls[r].amount)
  /\ Goto(r, "count")
  /\ UNCHANGED <<caps, flags, today, base, counted, disturbed>>

WithUse(cap, amount) ==
  LET usage == cap.usage + amount IN
    [cap EXCEPT !.usage = usage,
                !.status = IF Reaches(usage, cap, cap.hard) THEN "exceeded"
                           ELSE IF Reaches(usage, cap, cap.warning) THEN "active"
                           ELSE @]

UpdateCapUsage(r) ==
  /\ calls[r].step = "count"
  /\ IF caps = <<>> THEN Goto(r, "alerts")
     ELSE calls' = [calls EXCEPT ![r].step = "loadUse", ![r].cap = Len(caps),
                                 ![r].entity = WithUse(Last(caps), calls[r].amount)]
  /\ counted' = counted + calls[r].amount
  /\ UNCHANGED <<caps, logs, flags, today, base, disturbed>>

\* The save of an entity, first half.
LoadForSave(r) ==
  /\ calls[r].step \in {"loadReset", "loadUse"}
  /\ calls' = [calls EXCEPT
       ![r].step = IF @ = "loadReset" THEN "updateReset" ELSE "updateUse",
       ![r].loaded = caps[calls[r].cap]]
  /\ UNCHANGED <<caps, logs, flags, today, base, counted, disturbed>>

\* The usage assigned is a number and the one read is text: it is always written.
SavedCap(row, call) ==
  [Merged(row, call.loaded, call.entity) EXCEPT !.usage = call.entity.usage]

SaveUse(r) ==
  /\ calls[r].step = "updateUse"
  /\ caps' = [caps EXCEPT ![calls[r].cap] = SavedCap(@, calls[r])]
  /\ Goto(r, "alerts")
  /\ UNCHANGED <<logs, flags, today, base, counted, disturbed>>

SaveReset(r) ==
  /\ calls[r].step = "updateReset"
  /\ caps' = [caps EXCEPT ![calls[r].cap] = SavedCap(@, calls[r])]
  /\ Goto(r, "check")
  /\ IF calls[r].cap = Len(caps)
     THEN /\ base' = Len(logs)
          /\ disturbed' = (~OthersIdle(r) \/ Last(caps) # calls[r].loaded)
     ELSE UNCHANGED <<base, disturbed>>
  /\ UNCHANGED <<logs, flags, today, counted>>

\* The message of an alert calls toFixed on the text of the percentage: a level
\* other than none ends the recording with a TypeError, and no alert is saved.
CheckAlerts(r) ==
  /\ calls[r].step = "alerts"
  /\ IF caps # <<>> /\ AlertLevel(Last(caps)) # "none" THEN Finish(r) ELSE Goto(r, "analyse")
  /\ UNCHANGED <<caps, logs, flags, today, base, counted, disturbed>>

\* Nothing but the next raise depends on a flag's own read and save: one step.
AnalyseUse(r) ==
  /\ calls[r].step = "analyse"
  /\ flags' = FlagsAfter(calls[r].amount)
  /\ Finish(r)
  /\ UNCHANGED <<caps, logs, today, base, counted, disturbed>>

\* PUT flags/:id/clear
ClearFlag ==
  /\ \E f \in DOMAIN flags : flags[f] > 0 /\ flags' = [flags EXCEPT ![f] = 0]
  /\ UNCHANGED <<caps, logs, calls, today, base, counted, disturbed>>

\* A round trip fails; between the log and the cap the use stays uncounted.
Fail(r) ==
  /\ calls[r].step # "idle"
  /\ Finish(r)
  /\ disturbed' = (disturbed \/ calls[r].step \in {"count", "loadUse", "updateUse"})
  /\ UNCHANGED <<caps, logs, flags, today, base, counted>>

NextDay ==
  /\ \E d \in Days : d > today /\ today' = d
  /\ UNCHANGED <<caps, logs, flags, calls, base, counted, disturbed>>

Proceed(r) ==
  \/ CheckSubsidy(r) \/ SaveLog(r) \/ UpdateCapUsage(r) \/ LoadForSave(r)
  \/ SaveUse(r) \/ SaveReset(r) \/ CheckAlerts(r) \/ AnalyseUse(r)

SubsidyNext ==
  \/ CreateCap \/ ClearFlag \/ NextDay
  \/ \E r \in Requests : Request(r) \/ Proceed(r) \/ Fail(r)

SubsidySpec == SubsidyInit /\ [][SubsidyNext]_subsidyVars

\* Node runs what is ready and the database answers: a request that can go on does.
SubsidyFairness == \A r \in Requests : WF_subsidyVars(Proceed(r))

-----------------------------------------------------------------------------
(* Properties *)

LoggedSinceBase == SumOf(SubSeq(logs, base + 1, Len(logs)))

Balanced ==
  caps # <<>> /\ ~disturbed =>
    /\ (\A r \in Requests : calls[r].step \in {"idle", "check", "analyse", "alerts"}) =>
         Last(caps).usage = LoggedSinceBase
    /\ LoggedSinceBase > 0 =>
         ~Reaches(LoggedSinceBase, Last(caps), Last(caps).hard)

NeverOvercounted == \A i \in DOMAIN caps : caps[i].usage <= counted

\* recordUsage, one at a time and without failures: between requests the cap's
\* usage is the sum of the uses logged in its period, and it stays below the
\* hard cap, whatever resets and new caps came in between.  Overlapping saves,
\* resets and failures may lose uses, but no cap ever counts one twice.
BooksMatchLog == Balanced /\ NeverOvercounted

\* checkSubsidy calls itself after a reset: every request is answered all the same,
\* also when other requests save caps of the former period meanwhile.
RequestsAreAnswered == \A r \in Requests : calls[r].step # "idle" ~> calls[r].step = "idle"
=================================================================================
