--------------------------------- MODULE Reports ---------------------------------
(***************************************************************************)
(* Ad-hoc gas reports of merchants (apps/api-service/src/reports): the row *)
(* of a report, the task that produces it behind the answered request, the *)
(* e-mails that leave, and the download.                                   *)
(*                                                                         *)
(* Every await is a step; any of them may fail, and the process may stop   *)
(* between two: rows stay, tasks are lost.  What is in a report is not     *)
(* modelled, only whether it could be aggregated, compared and written.    *)
(* The scheduled jobs are not modelled: the weekly one is triggered on     *)
(* Sundays and returns unless it is Monday, the monthly one has no trigger *)
(* expression, and the one for pending rows calls a method that the        *)
(* injected repository does not have and catches the TypeError.            *)
(***************************************************************************)
EXTENDS Integers, Sequences

CONSTANTS
  Merchants,     \* merchants that may be asked for
  MaxReports,    \* bound on the reports
  MaxEdits       \* bound on the changes of merchants

ASSUME ReportsAssumption == MaxReports \in Nat /\ MaxEdits \in Nat

VARIABLES
  merchants,  \* per merchant: "mail" (has an e-mail), "noMail" or "gone"
  rows,       \* the reports in the order of their creation
  tasks,      \* per report: where its task is, "none" when there is none
  mails,      \* per report: the kinds of e-mail that left
  cut,        \* reports whose task was lost when the process stopped
  edits       \* changes of merchants so far

reportVars == <<merchants, rows, tasks, mails, cut, edits>>

NoTask == [step |-> "none", mail |-> FALSE]
At(step) == [NoTask EXCEPT !.step = step]
Ended == {"completed", "failed"}

ReportsInit ==
  /\ merchants \in [Merchants -> {"mail", "noMail"}]
  /\ rows = <<>> /\ tasks = <<>> /\ mails = <<>>
  /\ cut = {} /\ edits = 0

Step(r, step) == tasks' = [tasks EXCEPT ![r].step = step]
SetStatus(r, status) == rows' = [rows EXCEPT ![r].status = status]

-----------------------------------------------------------------------------
(* ReportService *)

\* generateAdhocReport: the row is saved, the task started and not awaited.
GenerateAdhocReport(m) ==
  /\ Len(rows) < MaxReports
  /\ merchants[m] # "gone"
  /\ rows' = Append(rows, [merchant |-> m, status |-> "pending", url |-> FALSE, sent |-> FALSE])
  /\ tasks' = Append(tasks, At("start"))
  /\ mails' = Append(mails, {})
  /\ UNCHANGED <<merchants, cut, edits>>

(* processReportAsync *)

StartProcessing(r) ==
  /\ tasks[r].step = "start"
  /\ SetStatus(r, "processing")
  /\ Step(r, "merchant")
  /\ UNCHANGED <<merchants, mails, cut, edits>>

\* The task keeps the merchant as read here.
FindMerchant(r) ==
  LET m == merchants[rows[r].merchant] IN
  /\ tasks[r].step = "merchant"
  /\ tasks' = [tasks EXCEPT ![r] = [step |-> IF m = "gone" THEN "orphan" ELSE "aggregate",
                                    mail |-> m = "mail"]]
  /\ UNCHANGED <<merchants, rows, mails, cut, edits>>

\* Mutant: the task returns without the update.
MutFailOrphan(r) ==
  /\ tasks[r].step = "orphan"
  /\ Step(r, "none")
  /\ UNCHANGED <<merchants, rows, mails, cut, edits>>

FailOrphan(r) ==
  /\ tasks[r].step = "orphan"
  /\ SetStatus(r, "failed")
  /\ Step(r, "none")
  /\ UNCHANGED <<merchants, mails, cut, edits>>

\* getWeeklyGasUsage or getMonthlyGasUsage.
Aggregate(r) ==
  /\ tasks[r].step = "aggregate"
  /\ Step(r, "compare")
  /\ UNCHANGED <<merchants, rows, mails, cut, edits>>

\* detectAbnormalUsage compares with a period whose dates it takes from fields that
\* the aggregation does not return: whether a query between two invalid dates is an
\* error is the database's choice.
DetectAbnormalUsage(r) ==
  /\ tasks[r].step = "compare"
  /\ Step(r, "write")
  /\ UNCHANGED <<merchants, rows, mails, cut, edits>>

GenerateCsvReport(r) ==
  /\ tasks[r].step = "write"
  /\ Step(r, "store")
  /\ UNCHANGED <<merchants, rows, mails, cut, edits>>

StoreReport(r) ==
  /\ tasks[r].step = "store"
  /\ rows' = [rows EXCEPT ![r].status = "processing", ![r].url = TRUE]
  /\ Step(r, IF tasks[r].mail THEN "send" ELSE "complete")
  /\ UNCHANGED <<merchants, mails, cut, edits>>

\* Mutant: what the mailer answers is not looked at.
MutSendGasReportEmail(r) ==
  /\ tasks[r].step = "send"
  /\ \E left, told \in BOOLEAN :
       /\ told => left
       /\ mails' = [mails EXCEPT ![r] = IF left THEN @ \cup {"report"} ELSE @]
       /\ Step(r, "complete")
  /\ UNCHANGED <<merchants, rows, cut, edits>>

\* The mail may leave and its acknowledgement be lost; without a transporter it
\* does not leave.
SendGasReportEmail(r) ==
  /\ tasks[r].step = "send"
  /\ \E left, told \in BOOLEAN :
       /\ told => left
       /\ mails' = [mails EXCEPT ![r] = IF left THEN @ \cup {"report"} ELSE @]
       /\ Step(r, IF told THEN "complete" ELSE "undelivered")
  /\ UNCHANGED <<merchants, rows, cut, edits>>

CompleteReport(r) ==
  /\ tasks[r].step = "complete"
  /\ rows' = [rows EXCEPT ![r].status = "completed", ![r].sent = TRUE]
  /\ Step(r, "none")
  /\ UNCHANGED <<merchants, mails, cut, edits>>

FailUndelivered(r) ==
  /\ tasks[r].step = "undelivered"
  /\ SetStatus(r, "failed")
  /\ Step(r, "apologise")
  /\ UNCHANGED <<merchants, mails, cut, edits>>

SendFailureNotification(r) ==
  /\ tasks[r].step = "apologise"
  /\ mails' \in {mails, [mails EXCEPT ![r] = @ \cup {"failure"}]}
  /\ Step(r, "none")
  /\ UNCHANGED <<merchants, rows, cut, edits>>

Awaiting == {"start", "merchant", "orphan", "aggregate", "compare", "write", "store",
             "complete", "undelivered"}

\* What is awaited throws: the mails do not.  An update may have been applied.
Throw(r) ==
  /\ tasks[r].step \in Awaiting
  /\ rows' \in {rows} \cup (IF tasks[r].step = "complete"
                            THEN {[rows EXCEPT ![r].status = "completed", ![r].sent = TRUE]}
                            ELSE {})
  /\ Step(r, "catch")
  /\ UNCHANGED <<merchants, mails, cut, edits>>

CatchError(r) ==
  /\ tasks[r].step = "catch"
  /\ SetStatus(r, "failed")
  /\ Step(r, "explain")
  /\ UNCHANGED <<merchants, mails, cut, edits>>

\* Finds row and merchant once more; its own errors are caught.
ExplainError(r) ==
  /\ tasks[r].step = "explain"
  /\ mails' \in {mails} \cup (IF merchants[rows[r].merchant] = "mail"
                              THEN {[mails EXCEPT ![r] = @ \cup {"failure"}]} ELSE {})
  /\ Step(r, "none")
  /\ UNCHANGED <<merchants, rows, cut, edits>>

-----------------------------------------------------------------------------

\* The process stops: also by the update in the catch block failing, a rejection
\* that nothing handles.
Stop ==
  /\ \E r \in DOMAIN tasks : tasks[r].step # "none"
  /\ tasks' = [r \in DOMAIN tasks |-> [tasks[r] EXCEPT !.step = "none"]]
  /\ cut' = cut \cup {r \in DOMAIN tasks : tasks[r].step # "none"}
  /\ UNCHANGED <<merchants, rows, mails, edits>>

EditMerchant ==
  /\ edits < MaxEdits
  /\ \E m \in Merchants, state \in {"mail", "noMail", "gone"} :
       merchants[m] \notin {state, "gone"} /\ merchants' = [merchants EXCEPT ![m] = state]
  /\ edits' = edits + 1
  /\ UNCHANGED <<rows, tasks, mails, cut>>

ProceedReport(r) ==
  \/ StartProcessing(r) \/ FindMerchant(r) \/ FailOrphan(r) \/ Aggregate(r)
  \/ DetectAbnormalUsage(r) \/ GenerateCsvReport(r) \/ StoreReport(r)
  \/ SendGasReportEmail(r) \/ CompleteReport(r) \/ FailUndelivered(r)
  \/ SendFailureNotification(r) \/ Throw(r) \/ CatchError(r) \/ ExplainError(r)

ReportsNext ==
  \/ \E m \in Merchants : GenerateAdhocReport(m)
  \/ \E r \in DOMAIN rows : ProceedReport(r)
  \/ Stop \/ EditMerchant

ReportsSpec == ReportsInit /\ [][ReportsNext]_reportVars

\* What is awaited returns or throws.
ReportsFairness ==
  \A r \in 1..MaxReports : WF_reportVars(r \in DOMAIN rows /\ ProceedReport(r))

-----------------------------------------------------------------------------
(* Properties *)

ReportStates == [merchant : Merchants, status : {"pending", "processing"} \cup Ended,
                 url : BOOLEAN, sent : BOOLEAN]
TaskStates == [step : Awaiting \cup {"none", "send", "apologise", "catch", "explain"},
               mail : BOOLEAN]

ReportsTypeOK ==
  /\ merchants \in [Merchants -> {"mail", "noMail", "gone"}]
  /\ \E n \in Nat : /\ rows \in [1..n -> ReportStates] /\ tasks \in [1..n -> TaskStates]
                    /\ mails \in [1..n -> SUBSET {"report", "failure"}]
  /\ cut \subseteq DOMAIN rows

\* downloadReport serves completed rows: whatever failed on the way, a row that has
\* stayed completed when its task is over has its file, was sent if the task knew an
\* e-mail, and its merchant was never told that it failed.
CompletedMeansDelivered ==
  \A r \in DOMAIN rows : rows[r].status = "completed" =>
    /\ rows[r].url /\ rows[r].sent
    /\ tasks[r].mail => "report" \in mails[r]
    /\ "failure" \notin mails[r]

Settled(r) == r \in cut \/ (r \in DOMAIN rows /\ rows[r].status \in Ended)

\* processReportAsync is not awaited by anyone: every report still ends, for good,
\* as completed or failed, unless the process stopped under its task.
ReportsSettle == \A r \in 1..MaxReports : r \in DOMAIN rows ~> []Settled(r)
=================================================================================
