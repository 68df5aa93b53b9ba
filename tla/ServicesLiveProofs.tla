--------------------------- MODULE ServicesLiveProofs ---------------------------
(***************************************************************************)
(* The services of MCServicesLive, for every value of their constants: the *)
(* connection of the rate limiter (types, NoLostReady), the reports        *)
(* (types, CompletedMeansDelivered), the gas subsidies (BooksMatchLog) and *)
(* the spike alerts (EnginesAgree).  And, of those of MCServicesSafe, the  *)
(* three that keep what came in over time: the recording of transactions   *)
(* (types, MerchantLimitBounded), the volatility of gas prices             *)
(* (VolatilityIsCurrent) and the leaderboard of chains                     *)
(* (LeaderboardIsCurrent).                                                 *)
(***************************************************************************)
EXTENDS GasSubsidy, Reports, RedisConnection, SpikeAlerts, TransactionRecording,
        GasVolatility, ChainReliability, DataInduction

-----------------------------------------------------------------------------
(* RedisService *)

States == {"none", "connecting", "ready", "reconnecting", "end"}

(* scheduleReconnect keeps the count of attempts within its limit. *)
LEMMA ScheduledTyped ==
  ASSUME NEW s, s \in [attempts : 0..MaxAttempts, timer : BOOLEAN]
  PROVE  Scheduled(s) \in [attempts : 0..MaxAttempts, timer : BOOLEAN]
<1>1. CASE s.attempts >= MaxAttempts
  BY <1>1 DEF Scheduled
<1>2. CASE ~(s.attempts >= MaxAttempts)
  <2>1. s.attempts + 1 \in 0..MaxAttempts
    BY <1>2, RedisConnectionAssumption
  <2> QED BY <1>2, <2>1 DEF Scheduled
<1> QED BY <1>1, <1>2

LEMMA InitTyped == RedisInit => RedisTypeOK
<1> SUFFICES ASSUME RedisInit PROVE RedisTypeOK
  OBVIOUS
<1>1. 1 \in Clients /\ 0 \in 0..MaxAttempts
  BY RedisConnectionAssumption DEF Clients
<1>2. status \in [Clients -> States] /\ status[1] = "connecting"
  BY <1>1 DEF RedisInit, States
<1>3. 1 \in Made
  BY <1>1, <1>2 DEF Made
<1> QED BY <1>1, <1>2, <1>3 DEF RedisInit, RedisTypeOK, States

(* A client that changes from one state to another one but "none" stays made. *)
LEMMA MadeStays ==
  ASSUME RedisTypeOK, NEW c \in Clients, NEW s \in States \ {"none"},
         status' = [status EXCEPT ![c] = s]
  PROVE  /\ status' \in [Clients -> States]
         /\ Made' = Made \cup {c}
BY DEF RedisTypeOK, Made, States

LEMMA ReadyTyped ==
  ASSUME RedisTypeOK, NEW c \in Clients, ClientReady(c)
  PROVE  RedisTypeOK'
<1>1. status' \in [Clients -> States] /\ Made' = Made \cup {c}
  BY MadeStays DEF ClientReady, States
<1>2. attempts' \in 0..MaxAttempts
  BY RedisConnectionAssumption DEF ClientReady
<1> QED BY <1>1, <1>2 DEF RedisTypeOK, ClientReady, States

LEMMA CloseTyped ==
  ASSUME RedisTypeOK, NEW c \in Clients, ClientClose(c)
  PROVE  RedisTypeOK'
<1>1. status' \in [Clients -> States] /\ Made' = Made \cup {c}
  BY MadeStays DEF ClientClose, RetryStrategy, States
<1>2. Schedule \in [attempts : 0..MaxAttempts, timer : BOOLEAN]
  BY DEF Schedule, RedisTypeOK
<1>3. /\ Scheduled(Schedule) \in [attempts : 0..MaxAttempts, timer : BOOLEAN]
      /\ Scheduled(Scheduled(Schedule)) \in [attempts : 0..MaxAttempts, timer : BOOLEAN]
  BY <1>2, ScheduledTyped
<1>4. attempts' \in 0..MaxAttempts /\ timer' \in BOOLEAN
  BY <1>3 DEF ClientClose, ApplySchedule
<1> QED BY <1>1, <1>4 DEF RedisTypeOK, ClientClose, States

LEMMA ReconnectTyped ==
  ASSUME RedisTypeOK, Reconnect
  PROVE  RedisTypeOK'
<1>1. PICK c \in Clients : /\ status' = [status EXCEPT ![c] = "connecting"]
                           /\ pending' = pending \cup {c} /\ client' = c
  BY DEF Reconnect
<1>2. status' \in [Clients -> States] /\ Made' = Made \cup {c}
  BY <1>1, MadeStays DEF States
<1> QED BY <1>1, <1>2 DEF RedisTypeOK, Reconnect, States

LEMMA DisconnectTyped ==
  ASSUME RedisTypeOK, Disconnect
  PROVE  RedisTypeOK'
<1>1. client \in Clients
  BY DEF RedisTypeOK, Disconnect, Made
<1>2. status' \in [Clients -> States] /\ Made' = Made \cup {client}
  BY <1>1, MadeStays DEF Disconnect, States
<1>3. [attempts |-> attempts, timer |-> FALSE] \in [attempts : 0..MaxAttempts, timer : BOOLEAN]
  BY DEF RedisTypeOK
<1>4. attempts' \in 0..MaxAttempts /\ timer' \in BOOLEAN
  BY <1>3, ScheduledTyped DEF Disconnect, ApplySchedule
<1> QED BY <1>2, <1>4 DEF RedisTypeOK, Disconnect, States

LEMMA StepTyped == RedisTypeOK /\ [RedisNext]_redisVars => RedisTypeOK'
<1> SUFFICES ASSUME RedisTypeOK, [RedisNext]_redisVars PROVE RedisTypeOK'
  OBVIOUS
<1>1. CASE \E c \in Clients : ClientReady(c) \/ ClientClose(c)
  BY <1>1, ReadyTyped, CloseTyped
<1>2. CASE Reconnect
  BY <1>2, ReconnectTyped
<1>3. CASE Disconnect
  BY <1>3, DisconnectTyped
<1>4. CASE RedisGoes \/ RedisComes \/ UNCHANGED redisVars
  BY <1>4 DEF RedisTypeOK, RedisGoes, RedisComes, redisVars, Made
<1> QED BY <1>1, <1>2, <1>3, <1>4 DEF RedisNext

(* The state of RedisService keeps its types: the client in use has been made, and  *)
(* scheduleReconnect never counts past maxReconnectAttempts.                         *)
THEOREM RedisTypeCorrect == RedisSpec => []RedisTypeOK
BY InitTyped, StepTyped, PTL DEF RedisSpec

-----------------------------------------------------------------------------

(* A client that is made and not ready refutes what NoLostReady supposes. *)
LEMMA SomeUnready ==
  ASSUME RedisTypeOK, NEW c \in Clients, NEW s \in States \ {"none", "ready"},
         status' = [status EXCEPT ![c] = s]
  PROVE  NoLostReady'
<1>1. status'[c] = s /\ c \in Made'
  BY DEF RedisTypeOK, Made, States
<1> QED BY <1>1 DEF NoLostReady

LEMMA ReadyIsKept == RedisTypeOK /\ NoLostReady /\ [RedisNext]_redisVars => NoLostReady'
<1> SUFFICES ASSUME RedisTypeOK, NoLostReady, [RedisNext]_redisVars PROVE NoLostReady'
  OBVIOUS
<1>1. ASSUME NEW c \in Clients, ClientReady(c) PROVE NoLostReady'
  BY <1>1 DEF ClientReady, NoLostReady
<1>2. ASSUME NEW c \in Clients, ClientClose(c) PROVE NoLostReady'
  BY <1>2, SomeUnready DEF ClientClose, RetryStrategy, States
<1>3. CASE Reconnect
  BY <1>3, SomeUnready DEF Reconnect, States
<1>4. CASE Disconnect
  BY <1>4 DEF Disconnect, NoLostReady
<1>5. CASE RedisGoes \/ RedisComes \/ UNCHANGED redisVars
  BY <1>5 DEF NoLostReady, RedisGoes, RedisComes, redisVars, Made
<1> QED BY <1>1, <1>2, <1>3, <1>4, <1>5 DEF RedisNext

(* Events of replaced clients leave isConnected right in the end: whenever every     *)
(* client made is ready, and the service has one, it counts itself as connected.     *)
THEOREM NoLostReadyHolds == RedisSpec => []NoLostReady
<1>1. RedisInit => NoLostReady
  <2> SUFFICES ASSUME RedisInit PROVE NoLostReady
    OBVIOUS
  <2>1. 1 \in Clients
    BY RedisConnectionAssumption DEF Clients
  <2>2. 1 \in Made /\ status[1] = "connecting"
    BY <2>1 DEF RedisInit, Made
  <2> QED BY <2>2 DEF NoLostReady
<1> QED BY <1>1, ReadyIsKept, InitTyped, StepTyped, PTL DEF RedisSpec

-----------------------------------------------------------------------------
(* ReportService *)

Kinds == {"report", "failure"}

(* The shape of the three sequences, which have an element per report. *)
Shape(n) ==
  /\ n \in Nat
  /\ rows \in [1..n -> ReportStates] /\ tasks \in [1..n -> TaskStates]
  /\ mails \in [1..n -> SUBSET Kinds]

(* What the task of a report has done so far: a file and, for a merchant with an      *)
(* e-mail, a delivered mail once only the last update is left, and no apology         *)
(* before the row says that the report failed.                                        *)
Sound(row, task, mail) ==
  /\ row.status = "completed" =>
       /\ row.url /\ row.sent /\ task.step \in {"none", "catch"}
       /\ task.mail => "report" \in mail
       /\ "failure" \notin mail
  /\ task.step \in {"send", "complete", "undelivered"} => row.url
  /\ task.step = "complete" => (task.mail => "report" \in mail)
  /\ task.step \in {"apologise", "explain"} => row.status = "failed"
  /\ task.step \notin {"none", "apologise", "explain"} => "failure" \notin mail

Delivery == \A r \in DOMAIN rows : Sound(rows[r], tasks[r], mails[r])

(* Appending to a function over 1..n. *)
LEMMA Appended ==
  ASSUME NEW S, NEW n \in Nat, NEW f \in [1..n -> S], NEW x \in S, NEW g, g = Append(f, x)
  PROVE  /\ g \in [1..(n + 1) -> S]
         /\ g[n + 1] = x
         /\ \A i \in 1..n : g[i] = f[i]
<1>1. f \in Seq(S) /\ Len(f) = n
  OBVIOUS
<1>2. /\ g \in Seq(S) /\ Len(g) = n + 1
      /\ \A i \in 1..n : g[i] = f[i]
      /\ g[n + 1] = x
  BY <1>1, AppendProperties
<1>3. g \in [1..(n + 1) -> S]
  BY <1>2, LenProperties
<1> QED BY <1>2, <1>3

LEMMA AskedFor ==
  ASSUME ReportsTypeOK, Delivery, NEW m \in Merchants, GenerateAdhocReport(m)
  PROVE  ReportsTypeOK' /\ Delivery'
<1>1. PICK n \in Nat : Shape(n)
  BY DEF ReportsTypeOK, Shape, Kinds
<1> DEFINE row == [merchant |-> m, status |-> "pending", url |-> FALSE, sent |-> FALSE]
<1>2. row \in ReportStates /\ At("start") \in TaskStates /\ {} \in SUBSET Kinds
  BY DEF ReportStates, TaskStates, Ended, At, NoTask, Awaiting
<1>3. /\ rows' \in [1..(n + 1) -> ReportStates] /\ rows'[n + 1] = row
      /\ \A i \in 1..n : rows'[i] = rows[i]
  <2>1. rows' = Append(rows, row) /\ rows \in [1..n -> ReportStates]
    BY <1>1 DEF GenerateAdhocReport, Shape
  <2> HIDE DEF row
  <2>2. rows' \in [1..(n + 1) -> ReportStates]
    BY <1>2, <2>1, Appended
  <2>3. rows'[n + 1] = row
    BY <1>2, <2>1, Appended
  <2>4. \A i \in 1..n : rows'[i] = rows[i]
    BY <1>2, <2>1, Appended
  <2> QED BY <2>2, <2>3, <2>4
<1>4. /\ tasks' \in [1..(n + 1) -> TaskStates] /\ tasks'[n + 1] = At("start")
      /\ \A i \in 1..n : tasks'[i] = tasks[i]
  <2>1. tasks' = Append(tasks, At("start")) /\ tasks \in [1..n -> TaskStates]
    BY <1>1 DEF GenerateAdhocReport, Shape
  <2>2. tasks' \in [1..(n + 1) -> TaskStates]
    BY <1>2, <2>1, Appended
  <2>3. tasks'[n + 1] = At("start")
    BY <1>2, <2>1, Appended
  <2>4. \A i \in 1..n : tasks'[i] = tasks[i]
    BY <1>2, <2>1, Appended
  <2> QED BY <2>2, <2>3, <2>4
<1>5. /\ mails' \in [1..(n + 1) -> SUBSET Kinds] /\ mails'[n + 1] = {}
      /\ \A i \in 1..n : mails'[i] = mails[i]
  <2>1. mails' = Append(mails, {}) /\ mails \in [1..n -> SUBSET Kinds]
    BY <1>1 DEF GenerateAdhocReport, Shape
  <2>2. mails' \in [1..(n + 1) -> SUBSET Kinds]
    BY <1>2, <2>1, Appended
  <2>3. mails'[n + 1] = {}
    BY <1>2, <2>1, Appended
  <2>4. \A i \in 1..n : mails'[i] = mails[i]
    BY <1>2, <2>1, Appended
  <2> QED BY <2>2, <2>3, <2>4
<1>6. ReportsTypeOK'
  <2>1. n + 1 \in Nat /\ cut \subseteq 1..(n + 1)
    BY <1>1 DEF ReportsTypeOK, Shape
  <2> QED BY <1>3, <1>4, <1>5, <2>1 DEF ReportsTypeOK, GenerateAdhocReport, Kinds
<1>7. Sound(row, At("start"), {})
  BY DEF Sound, At, NoTask
<1>8. ASSUME NEW i \in 1..(n + 1) PROVE Sound(rows'[i], tasks'[i], mails'[i])
  <2>1. CASE i = n + 1
    BY <2>1, <1>3, <1>4, <1>5, <1>7
  <2>2. CASE i \in 1..n
    BY <2>2, <1>1, <1>3, <1>4, <1>5 DEF Delivery, Shape
  <2> QED BY <2>1, <2>2, <1>8
<1> QED BY <1>3, <1>6, <1>8 DEF Delivery

(* A step of one task concerns the report it is about only. *)
Only(r) ==
  /\ \A n \in Nat : Shape(n) => /\ rows' \in [1..n -> ReportStates]
                                /\ tasks' \in [1..n -> TaskStates]
                                /\ mails' \in [1..n -> SUBSET Kinds]
  /\ \A i \in DOMAIN rows \ {r} :
       rows'[i] = rows[i] /\ tasks'[i] = tasks[i] /\ mails'[i] = mails[i]
  /\ UNCHANGED <<merchants, cut>>

LEMMA OnlyThat ==
  ASSUME ReportsTypeOK, Delivery, NEW r \in DOMAIN rows, Only(r),
         Sound(rows'[r], tasks'[r], mails'[r])
  PROVE  ReportsTypeOK' /\ Delivery'
<1>1. PICK n \in Nat : Shape(n)
  BY DEF ReportsTypeOK, Shape, Kinds
<1>2. /\ rows' \in [1..n -> ReportStates] /\ tasks' \in [1..n -> TaskStates]
      /\ mails' \in [1..n -> SUBSET Kinds]
  BY <1>1 DEF Only
<1>3. ReportsTypeOK'
  BY <1>1, <1>2 DEF ReportsTypeOK, Shape, Kinds, Only
<1>4. ASSUME NEW i \in 1..n PROVE Sound(rows'[i], tasks'[i], mails'[i])
  <2>1. CASE i = r
    BY <2>1
  <2>2. CASE i # r
    BY <2>2, <1>1 DEF Only, Delivery, Shape
  <2> QED BY <2>1, <2>2
<1> QED BY <1>2, <1>3, <1>4 DEF Delivery

(* The steps that read, aggregate and write the report. *)
LEMMA Prepared ==
  ASSUME ReportsTypeOK, Delivery, NEW r \in DOMAIN rows,
         \/ StartProcessing(r) \/ FindMerchant(r) \/ FailOrphan(r) \/ Aggregate(r)
         \/ DetectAbnormalUsage(r) \/ GenerateCsvReport(r) \/ StoreReport(r)
  PROVE  Only(r) /\ Sound(rows'[r], tasks'[r], mails'[r])
<1>1. PICK n \in Nat : Shape(n)
  BY DEF ReportsTypeOK, Shape, Kinds
<1>2. r \in 1..n /\ DOMAIN rows = 1..n /\ \A k \in Nat : Shape(k) => k = n
  <2>1. \A k \in Nat : Shape(k) => k = n
    BY <1>1 DEF Shape
  <2> QED BY <1>1, <2>1 DEF Shape
<1>3. /\ rows[r] \in ReportStates /\ tasks[r] \in TaskStates /\ mails[r] \subseteq Kinds
      /\ Sound(rows[r], tasks[r], mails[r])
  BY <1>1, <1>2 DEF Shape, Delivery
<1> USE DEF Shape, Only, Sound, ReportStates, TaskStates, Ended, Awaiting, Kinds, Step, SetStatus
<1>4. CASE StartProcessing(r)
  BY <1>1, <1>2, <1>3, <1>4 DEF StartProcessing
<1>5. CASE FindMerchant(r)
  BY <1>1, <1>2, <1>3, <1>5 DEF FindMerchant
<1>6. CASE FailOrphan(r)
  BY <1>1, <1>2, <1>3, <1>6 DEF FailOrphan
<1>7. CASE Aggregate(r)
  BY <1>1, <1>2, <1>3, <1>7 DEF Aggregate
<1>8. CASE DetectAbnormalUsage(r)
  BY <1>1, <1>2, <1>3, <1>8 DEF DetectAbnormalUsage
<1>9. CASE GenerateCsvReport(r)
  BY <1>1, <1>2, <1>3, <1>9 DEF GenerateCsvReport
<1>10. CASE StoreReport(r)
  BY <1>1, <1>2, <1>3, <1>10 DEF StoreReport
<1> QED BY <1>4, <1>5, <1>6, <1>7, <1>8, <1>9, <1>10

(* The steps that send the mails and settle the row, and those of an error. *)
LEMMA Concluded ==
  ASSUME ReportsTypeOK, Delivery, NEW r \in DOMAIN rows,
         \/ SendGasReportEmail(r) \/ CompleteReport(r) \/ FailUndelivered(r)
         \/ SendFailureNotification(r) \/ Throw(r) \/ CatchError(r) \/ ExplainError(r)
  PROVE  Only(r) /\ Sound(rows'[r], tasks'[r], mails'[r])
<1>1. PICK n \in Nat : Shape(n)
  BY DEF ReportsTypeOK, Shape, Kinds
<1>2. r \in 1..n /\ DOMAIN rows = 1..n /\ \A k \in Nat : Shape(k) => k = n
  <2>1. \A k \in Nat : Shape(k) => k = n
    BY <1>1 DEF Shape
  <2> QED BY <1>1, <2>1 DEF Shape
<1>3. /\ rows[r] \in ReportStates /\ tasks[r] \in TaskStates /\ mails[r] \subseteq Kinds
      /\ Sound(rows[r], tasks[r], mails[r])
  BY <1>1, <1>2 DEF Shape, Delivery
<1> USE DEF Shape, Only, Sound, ReportStates, TaskStates, Ended, Awaiting, Kinds, Step, SetStatus
<1>4. CASE SendGasReportEmail(r)
  <2>1. PICK left, told \in BOOLEAN :
          /\ told => left
          /\ mails' = [mails EXCEPT ![r] = IF left THEN @ \cup {"report"} ELSE @]
          /\ Step(r, IF told THEN "complete" ELSE "undelivered")
    BY <1>4 DEF SendGasReportEmail
  <2>2. UNCHANGED <<merchants, rows, cut>> /\ tasks[r].step = "send"
    BY <1>4 DEF SendGasReportEmail
  <2>3. CASE left
    BY <1>1, <1>2, <1>3, <2>1, <2>2, <2>3
  <2>4. CASE ~left
    BY <1>1, <1>2, <1>3, <2>1, <2>2, <2>4
  <2> QED BY <2>3, <2>4
<1>5. CASE CompleteReport(r)
  BY <1>1, <1>2, <1>3, <1>5 DEF CompleteReport
<1>6. CASE FailUndelivered(r)
  BY <1>1, <1>2, <1>3, <1>6 DEF FailUndelivered
<1>7. CASE SendFailureNotification(r)
  <2>1. CASE mails' = mails
    BY <1>1, <1>2, <1>3, <1>7, <2>1 DEF SendFailureNotification
  <2>2. CASE mails' = [mails EXCEPT ![r] = @ \cup {"failure"}]
    BY <1>1, <1>2, <1>3, <1>7, <2>2 DEF SendFailureNotification
  <2> QED BY <1>7, <2>1, <2>2 DEF SendFailureNotification
<1>8. CASE Throw(r)
  <2>1. CASE rows' = rows
    BY <1>1, <1>2, <1>3, <1>8, <2>1 DEF Throw
  <2>2. CASE /\ tasks[r].step = "complete"
             /\ rows' = [rows EXCEPT ![r].status = "completed", ![r].sent = TRUE]
    BY <1>1, <1>2, <1>3, <1>8, <2>2 DEF Throw
  <2> QED BY <1>8, <2>1, <2>2 DEF Throw
<1>9. CASE CatchError(r)
  BY <1>1, <1>2, <1>3, <1>9 DEF CatchError
<1>10. CASE ExplainError(r)
  <2>1. CASE mails' = mails
    BY <1>1, <1>2, <1>3, <1>10, <2>1 DEF ExplainError
  <2>2. CASE mails' = [mails EXCEPT ![r] = @ \cup {"failure"}]
    BY <1>1, <1>2, <1>3, <1>10, <2>2 DEF ExplainError
  <2> QED BY <1>10, <2>1, <2>2 DEF ExplainError
<1> QED BY <1>4, <1>5, <1>6, <1>7, <1>8, <1>9, <1>10

(* A stop leaves rows and mails: what was sound without its task is so without it. *)
LEMMA Stopped ==
  ASSUME ReportsTypeOK, Delivery, Stop
  PROVE  ReportsTypeOK' /\ Delivery'
<1>1. PICK n \in Nat : Shape(n)
  BY DEF ReportsTypeOK, Shape, Kinds
<1>2. \A r \in 1..n : tasks'[r] = [tasks[r] EXCEPT !.step = "none"]
  BY <1>1 DEF Stop, Shape
<1>3. \A r \in 1..n : tasks'[r] \in TaskStates /\ tasks'[r].step = "none"
                       /\ tasks'[r].mail = tasks[r].mail
  BY <1>1, <1>2, ZenonT(30) DEF Shape, TaskStates
<1>4. tasks' \in [1..n -> TaskStates]
  BY <1>1, <1>3 DEF Stop, Shape
<1>5. ReportsTypeOK'
  BY <1>1, <1>4 DEF ReportsTypeOK, Shape, Kinds, Stop
<1>6. ASSUME NEW r \in 1..n PROVE Sound(rows[r], tasks'[r], mails[r])
  <2>1. Sound(rows[r], tasks[r], mails[r])
    BY <1>1 DEF Delivery, Shape
  <2> QED BY <1>3, <2>1 DEF Sound
<1> QED BY <1>1, <1>5, <1>6 DEF Delivery, Shape, Stop

LEMMA Begun == ReportsInit => ReportsTypeOK /\ Delivery
<1> SUFFICES ASSUME ReportsInit PROVE ReportsTypeOK /\ Delivery
  OBVIOUS
<1>1. /\ rows \in [1..0 -> ReportStates] /\ tasks \in [1..0 -> TaskStates]
      /\ mails \in [1..0 -> SUBSET Kinds] /\ DOMAIN rows = {}
  BY DEF ReportsInit
<1> QED BY <1>1 DEF ReportsInit, ReportsTypeOK, Delivery, Kinds

LEMMA Continued ==
  ReportsTypeOK /\ Delivery /\ [ReportsNext]_reportVars => ReportsTypeOK' /\ Delivery'
<1> SUFFICES ASSUME ReportsTypeOK, Delivery, [ReportsNext]_reportVars
             PROVE  ReportsTypeOK' /\ Delivery'
  OBVIOUS
<1>1. CASE \E m \in Merchants : GenerateAdhocReport(m)
  BY <1>1, AskedFor
<1>2. ASSUME NEW r \in DOMAIN rows, ProceedReport(r) PROVE ReportsTypeOK' /\ Delivery'
  <2>1. Only(r) /\ Sound(rows'[r], tasks'[r], mails'[r])
    BY <1>2, Prepared, Concluded DEF ProceedReport
  <2> QED BY <2>1, OnlyThat
<1>3. CASE Stop
  BY <1>3, Stopped
<1>4. CASE EditMerchant
  BY <1>4 DEF EditMerchant, ReportsTypeOK, Delivery
<1>5. CASE UNCHANGED reportVars
  BY <1>5 DEF reportVars, ReportsTypeOK, Delivery
<1> QED BY <1>1, <1>2, <1>3, <1>4, <1>5 DEF ReportsNext

(* The rows of ReportService, its tasks and the mails it sent keep their types. *)
THEOREM ReportsTypeCorrect == ReportsSpec => []ReportsTypeOK
BY Begun, Continued, PTL DEF ReportsSpec

(* Whatever fails or stops under processReportAsync, a completed report has its file  *)
(* and the mail its merchant was owed, and no apology was sent for it.                *)
THEOREM CompletedMeansDeliveredHolds == ReportsSpec => []CompletedMeansDelivered
<1>1. Delivery => CompletedMeansDelivered
  BY DEF Delivery, Sound, CompletedMeansDelivered
<1> QED BY <1>1, Begun, Continued, PTL DEF ReportsSpec

-----------------------------------------------------------------------------
(* Gas subsidies *)

CapTypes == {"daily", "weekly", "monthly", "lifetime"}
Ends == {PeriodEnd(type, day) : type \in CapTypes, day \in Days} \cup {0}
CapStates == [type : CapTypes, max : Nat, warning : Nat, hard : Nat, usage : Nat,
              status : {"active", "exceeded"}, end : Ends]
Loads == {"loadReset", "loadUse"}
Updates == {"updateReset", "updateUse"}
CallStates == [step : {"idle", "check", "log", "count", "alerts", "analyse"} \cup Loads \cup Updates,
               kind : {"check", "record"}, amount : Nat, cap : Nat,
               entity : CapStates, loaded : CapStates]

SubsidyTypeOK ==
  /\ caps \in Seq(CapStates) /\ logs \in Seq(Nat)
  /\ flags \in [rapid : Nat, unusual : Nat]
  /\ calls \in [Requests -> CallStates]
  /\ today \in Days
  /\ base \in 0..Len(logs) /\ counted \in Nat /\ disturbed \in BOOLEAN

(* An entity that is being saved belongs to a cap, and no entity holds more than was *)
(* counted; that of a reset holds nothing.                                           *)
EntityOf(r) ==
  /\ calls[r].step \in Loads \cup Updates => calls[r].cap \in DOMAIN caps
  /\ calls[r].entity.usage <= counted
  /\ calls[r].step \in {"loadReset", "updateReset"} => calls[r].entity.usage = 0
Entities == \A r \in Requests : EntityOf(r)

(* Undisturbed requests come one at a time. *)
OneAtATime ==
  ~disturbed => \A r, s \in Requests :
                  calls[r].step # "idle" /\ calls[s].step # "idle" => r = s

(* How far the one request has brought its use: not logged yet and within the cap, *)
(* logged and not counted, or counted in the entity that is to be saved.             *)
Underway(call, cap, sum) ==
  /\ call.step \notin {"count", "loadUse", "updateUse"} => cap.usage = sum
  /\ call.step = "log" => ~Reaches(sum + call.amount, cap, cap.hard)
  /\ call.step = "count" => cap.usage + call.amount = sum
  /\ call.step \in {"loadUse", "updateUse"} =>
       call.cap = Len(caps) /\ call.entity.usage = sum
       /\ call.entity.max = cap.max /\ call.entity.hard = cap.hard
  /\ call.step = "updateUse" => call.loaded = cap

WithinCap == LoggedSinceBase > 0 => ~Reaches(LoggedSinceBase, Last(caps), Last(caps).hard)
BookOf(r) ==
  /\ calls[r].step # "idle" => Underway(calls[r], Last(caps), LoggedSinceBase)
  /\ calls[r].step = "idle" => Last(caps).usage = LoggedSinceBase
  /\ WithinCap

Books ==
  caps # <<>> /\ ~disturbed =>
    /\ \A r \in Requests :
         calls[r].step # "idle" => Underway(calls[r], Last(caps), LoggedSinceBase)
    /\ (\A r \in Requests : calls[r].step = "idle") => Last(caps).usage = LoggedSinceBase
    /\ WithinCap

SubsidyInv == SubsidyTypeOK /\ Entities /\ NeverOvercounted /\ OneAtATime /\ Books

-----------------------------------------------------------------------------
(* The sum of the uses since the period began. *)

LEMMA SumOfIs == \A uses : SumOf(uses) = SumOfSeq(uses)
BY FoldIsSum DEF SumOf

LEMMA SumIsTyped ==
  ASSUME SubsidyTypeOK
  PROVE  LoggedSinceBase \in Int
<1>1. logs \in Seq(Int) /\ base \in 0..Len(logs)
  BY DEF SubsidyTypeOK
<1>2. SumOfSeq(SubSeq(logs, base + 1, Len(logs))) \in Int
  BY <1>1, SumFromOn
<1> QED BY <1>2, SumOfIs DEF LoggedSinceBase

LEMMA SumGrows ==
  ASSUME SubsidyTypeOK, NEW amount \in Nat, logs' = Append(logs, amount), base' = base
  PROVE  LoggedSinceBase' = LoggedSinceBase + amount
<1>1. logs \in Seq(Int) /\ base \in 0..Len(logs) /\ amount \in Int
  BY DEF SubsidyTypeOK
<1>2. SumOfSeq(SubSeq(Append(logs, amount), base + 1, Len(Append(logs, amount))))
        = SumOfSeq(SubSeq(logs, base + 1, Len(logs))) + amount
  BY <1>1, SumFromOn
<1> QED BY <1>2, SumOfIs DEF LoggedSinceBase

LEMMA SumBegins ==
  ASSUME SubsidyTypeOK, logs' = logs, base' = Len(logs)
  PROVE  LoggedSinceBase' = 0
<1>1. Len(logs) \in Int
  BY DEF SubsidyTypeOK
<1>2. SubSeq(logs, Len(logs) + 1, Len(logs)) = <<>>
  BY <1>1, SubSeqEmpty
<1>3. SumOfSeq(<<>>) = 0
  BY SumOfNone
<1> QED BY <1>2, <1>3, SumOfIs DEF LoggedSinceBase

-----------------------------------------------------------------------------
(* Caps and their entities. *)

LEMMA NewCapTyped ==
  ASSUME NEW c \in CapRequests, today \in Days
  PROVE  NewCap(c) \in CapStates /\ NewCap(c).usage = 0
<1>1. c.type \in CapTypes /\ c.max \in Nat /\ c.warning \in Nat /\ c.hard \in Nat
  BY GasSubsidyAssumption DEF CapTypes
<1>2. PeriodEnd(c.type, today) \in Ends
  BY <1>1 DEF Ends
<1> QED BY <1>1, <1>2 DEF NewCap, Default, CapStates

LEMMA ResetTyped ==
  ASSUME NEW cap \in CapStates, today \in Days
  PROVE  Reset(cap) \in CapStates /\ Reset(cap).usage = 0
<1>1. PeriodEnd(cap.type, today) \in Ends
  BY DEF Ends, CapStates
<1> QED BY <1>1 DEF Reset, CapStates

LEMMA WithUseTyped ==
  ASSUME NEW cap \in CapStates, NEW amount \in Nat
  PROVE  /\ WithUse(cap, amount) \in CapStates
         /\ WithUse(cap, amount).usage = cap.usage + amount
         /\ WithUse(cap, amount).max = cap.max /\ WithUse(cap, amount).hard = cap.hard
<1> DEFINE usage == cap.usage + amount
           new == IF Reaches(usage, cap, cap.hard) THEN "exceeded"
                  ELSE IF Reaches(usage, cap, cap.warning) THEN "active" ELSE cap.status
<1>1. usage \in Nat /\ new \in {"active", "exceeded"}
  BY DEF CapStates
<1>2. WithUse(cap, amount) = [cap EXCEPT !.usage = usage, !.status = new]
  BY DEF WithUse
<1> HIDE DEF new
<1>3. [cap EXCEPT !.usage = usage, !.status = new] \in CapStates
  BY <1>1 DEF CapStates
<1> QED BY <1>2, <1>3 DEF CapStates

(* What a save writes is a cap, with the usage of the entity, and it is the entity   *)
(* when the row has not changed since it was read.                                   *)
LEMMA SavedTyped ==
  ASSUME NEW row \in CapStates, NEW call \in CallStates
  PROVE  /\ SavedCap(row, call) \in CapStates
         /\ SavedCap(row, call).usage = call.entity.usage
         /\ call.loaded = row => /\ SavedCap(row, call).max = call.entity.max
                                 /\ SavedCap(row, call).hard = call.entity.hard
<1> DEFINE m == Merged(row, call.loaded, call.entity)
<1>1. call.entity \in CapStates /\ call.loaded \in CapStates
  BY DEF CallStates
<1>2. m \in CapStates
  BY <1>1 DEF Merged, CapStates
<1>3. call.loaded = row => m.max = call.entity.max /\ m.hard = call.entity.hard
  BY <1>1 DEF Merged, CapStates
<1>4. SavedCap(row, call) = [m EXCEPT !.usage = call.entity.usage]
  BY DEF SavedCap
<1> HIDE DEF m
<1> QED BY <1>1, <1>2, <1>3, <1>4 DEF CapStates

LEMMA ReachesSame ==
  ASSUME NEW u, NEW c, NEW d, NEW h, d.max = c.max
  PROVE  Reaches(u, c, h) = Reaches(u, d, h)
BY DEF Reaches

LEMMA LastCap ==
  ASSUME SubsidyTypeOK, caps # <<>>
  PROVE  /\ Len(caps) \in DOMAIN caps /\ Len(caps) \in Nat
         /\ Last(caps) = caps[Len(caps)] /\ Last(caps) \in CapStates
BY DEF SubsidyTypeOK, Last

-----------------------------------------------------------------------------
(* Steps of one request. *)

LEMMA IdleTyped == Idle \in CallStates /\ Idle.step = "idle" /\ Idle.entity.usage = 0
BY DEF Idle, NoCap, CallStates, CapStates, CapTypes, Ends

(* The other requests stay where they are. *)
Moves(r) ==
  calls' \in [Requests -> CallStates] /\ \A s \in Requests \ {r} : calls'[s] = calls[s]

LEMMA Moved ==
  ASSUME SubsidyTypeOK, NEW r \in Requests, NEW c \in CallStates, calls' = [calls EXCEPT ![r] = c]
  PROVE  Moves(r) /\ calls'[r] = c
BY DEF SubsidyTypeOK, Moves

Steps == {"idle", "check", "log", "count", "alerts", "analyse"} \cup Loads \cup Updates

LEMMA GoesTo ==
  ASSUME SubsidyTypeOK, NEW r \in Requests, NEW step \in Steps, Goto(r, step)
  PROVE  /\ Moves(r) /\ calls'[r].step = step
         /\ calls'[r].amount = calls[r].amount /\ calls'[r].cap = calls[r].cap
         /\ calls'[r].entity = calls[r].entity /\ calls'[r].loaded = calls[r].loaded
BY DEF Goto, Moves, Steps, CallStates, SubsidyTypeOK

LEMMA Finishes ==
  ASSUME SubsidyTypeOK, NEW r \in Requests, Finish(r)
  PROVE  Moves(r) /\ calls'[r].step = "idle" /\ calls'[r].entity.usage = 0
BY IdleTyped, Moved DEF Finish

LEMMA Alone ==
  ASSUME OneAtATime, ~disturbed, NEW r \in Requests, calls[r].step # "idle"
  PROVE  OthersIdle(r)
BY DEF OneAtATime, OthersIdle

(* What is to be shown of a step of one request. *)
LEMMA Concludes ==
  ASSUME Entities, NEW r \in Requests, Moves(r), SubsidyTypeOK, SubsidyTypeOK',
         DOMAIN caps' = DOMAIN caps, counted <= counted', EntityOf(r)',
         ~disturbed' => OthersIdle(r),
         caps' # <<>> /\ ~disturbed' => BookOf(r)'
  PROVE  Entities' /\ OneAtATime' /\ Books'
<1>1. Entities'
  <2> SUFFICES ASSUME NEW s \in Requests PROVE EntityOf(s)'
    BY DEF Entities
  <2>1. CASE s = r
    BY <2>1
  <2>2. CASE s # r
    <3>1. EntityOf(s) /\ calls'[s] = calls[s]
      BY <2>2 DEF Entities, Moves
    <3>2. calls[s].entity.usage \in Nat /\ counted \in Nat /\ counted' \in Nat
      BY DEF SubsidyTypeOK, CallStates, CapStates
    <3> QED BY <3>1, <3>2 DEF EntityOf
  <2> QED BY <2>1, <2>2
<1>2. ~disturbed' => \A s \in Requests \ {r} : calls'[s].step = "idle"
  BY DEF OthersIdle, Moves
<1>3. OneAtATime'
  BY <1>2 DEF OneAtATime
<1>4. Books'
  <2> SUFFICES ASSUME caps' # <<>>, ~disturbed'
               PROVE  /\ \A s \in Requests :
                           calls'[s].step # "idle" => Underway(calls[s], Last(caps), LoggedSinceBase)'
                      /\ (\A s \in Requests : calls'[s].step = "idle") =>
                           Last(caps)'.usage = LoggedSinceBase'
                      /\ WithinCap'
    BY DEF Books
  <2>1. BookOf(r)'
    OBVIOUS
  <2>2. ASSUME NEW s \in Requests, calls'[s].step # "idle"
        PROVE  Underway(calls[s], Last(caps), LoggedSinceBase)'
    <3>1. s = r
      BY <1>2, <2>2
    <3> QED BY <2>1, <2>2, <3>1 DEF BookOf
  <2> QED BY <2>1, <2>2 DEF BookOf
<1> QED BY <1>1, <1>3, <1>4

(* When nothing but the calls changes. *)
LEMMA SameBooks ==
  ASSUME UNCHANGED <<caps, logs, base>>
  PROVE  LoggedSinceBase' = LoggedSinceBase /\ Last(caps)' = Last(caps) /\ WithinCap' = WithinCap
BY DEF LoggedSinceBase, WithinCap

LEMMA RequestKeeps ==
  ASSUME SubsidyInv, NEW r \in Requests, Request(r)
  PROVE  SubsidyInv'
<1> USE DEF SubsidyInv
<1>1. PICK kind \in {"check", "record"}, a \in Amounts :
        calls' = [calls EXCEPT ![r] = [Idle EXCEPT !.step = "check", !.kind = kind, !.amount = a]]
  BY DEF Request
<1> DEFINE c == [Idle EXCEPT !.step = "check", !.kind = kind, !.amount = a]
<1>2. c \in CallStates /\ c.step = "check" /\ c.entity.usage = 0
  <2>1. a \in Nat
    BY GasSubsidyAssumption
  <2> QED BY <2>1, IdleTyped DEF CallStates, Idle
<1> HIDE DEF c
<1>3. Moves(r) /\ calls'[r] = c
  BY <1>1, <1>2, Moved DEF c
<1>4. SubsidyTypeOK'
  BY <1>3 DEF Request, Moves, SubsidyTypeOK, OthersIdle
<1>5. EntityOf(r)'
  <2>1. calls'[r].step = "check" /\ calls'[r].entity.usage = 0
    BY <1>2, <1>3
  <2>2. 0 <= counted'
    BY DEF Request, SubsidyTypeOK
  <2> QED BY <2>1, <2>2 DEF EntityOf, Loads, Updates
<1>6. ~disturbed' => ~disturbed /\ OthersIdle(r)
  BY DEF Request
<1>7. caps' # <<>> /\ ~disturbed' => BookOf(r)'
  <2> SUFFICES ASSUME caps # <<>>, ~disturbed' PROVE BookOf(r)'
    BY DEF Request
  <2>1. (\A s \in Requests : calls[s].step = "idle") /\ WithinCap /\ Last(caps).usage = LoggedSinceBase
    BY <1>6 DEF Request, OthersIdle, Books
  <2> QED BY <1>2, <1>3, <2>1, SameBooks DEF BookOf, Underway, Request
<1>8. counted <= counted' /\ DOMAIN caps' = DOMAIN caps /\ NeverOvercounted'
  BY DEF Request, NeverOvercounted, SubsidyTypeOK
<1> QED BY <1>3, <1>4, <1>5, <1>6, <1>7, <1>8, Concludes

(* A step of an active request that leaves the caps, the log and the counters. *)
LEMMA OnlyMoves ==
  ASSUME SubsidyInv, NEW r \in Requests, Moves(r), calls[r].step # "idle",
         UNCHANGED <<caps, logs, today, base, counted>>, disturbed' \in BOOLEAN,
         flags' \in [rapid : Nat, unusual : Nat],
         ~disturbed' => ~disturbed, EntityOf(r)',
         caps # <<>> /\ ~disturbed /\ ~disturbed' /\ Last(caps) \in CapStates /\ WithinCap
           /\ Underway(calls[r], Last(caps), LoggedSinceBase)
           => /\ calls'[r].step # "idle" => Underway(calls'[r], Last(caps), LoggedSinceBase)
              /\ calls'[r].step = "idle" => Last(caps).usage = LoggedSinceBase
  PROVE  SubsidyInv'
<1> USE DEF SubsidyInv
<1>1. SubsidyTypeOK'
  BY DEF Moves, SubsidyTypeOK
<1>2. ~disturbed' => OthersIdle(r)
  BY Alone
<1>3. ASSUME caps' # <<>>, ~disturbed' PROVE BookOf(r)'
  <2>1. /\ caps # <<>> /\ ~disturbed /\ Last(caps) \in CapStates /\ WithinCap
        /\ Underway(calls[r], Last(caps), LoggedSinceBase)
    BY <1>3, LastCap DEF Books
  <2>2. Underway(calls[r], Last(caps), LoggedSinceBase)'
          = Underway(calls'[r], Last(caps), LoggedSinceBase)
    BY SameBooks DEF Underway
  <2> QED BY <1>3, <2>1, <2>2, SameBooks DEF BookOf
<1>4. NeverOvercounted' /\ counted <= counted'
  BY DEF NeverOvercounted, SubsidyTypeOK
<1> QED BY <1>1, <1>2, <1>3, <1>4, Concludes

LEMMA FinishKeeps ==
  ASSUME SubsidyInv, NEW r \in Requests, calls[r].step # "idle", Finish(r),
         UNCHANGED <<caps, logs, today, base, counted>>,
         flags' \in [rapid : Nat, unusual : Nat],
         disturbed' = (disturbed \/ calls[r].step \in {"count", "loadUse", "updateUse"})
  PROVE  SubsidyInv'
<1>1. Moves(r) /\ calls'[r].step = "idle" /\ calls'[r].entity.usage = 0
  BY Finishes DEF SubsidyInv
<1>2. EntityOf(r)'
  <2>1. 0 <= counted'
    BY DEF SubsidyInv, SubsidyTypeOK
  <2> QED BY <1>1, <2>1 DEF EntityOf, Loads, Updates
<1>3. ~disturbed' /\ Underway(calls[r], Last(caps), LoggedSinceBase)
        => Last(caps).usage = LoggedSinceBase
  BY DEF Underway
<1>4. disturbed' \in BOOLEAN
  BY DEF SubsidyInv, SubsidyTypeOK
<1> QED BY <1>1, <1>2, <1>3, <1>4, OnlyMoves

(* A request that goes on to a step at which nothing is to be saved. *)
LEMMA GotoKeeps ==
  ASSUME SubsidyInv, NEW r \in Requests, NEW step \in {"check", "log", "alerts", "analyse"},
         calls[r].step \in {"check", "alerts"}, Goto(r, step),
         UNCHANGED <<caps, logs, flags, today, base, counted, disturbed>>,
         caps # <<>> /\ step = "log"
           => ~Reaches(Last(caps).usage + calls[r].amount, Last(caps), Last(caps).hard)
  PROVE  SubsidyInv'
<1>1. /\ Moves(r) /\ calls'[r].step = step /\ calls'[r].amount = calls[r].amount
      /\ calls'[r].entity = calls[r].entity
  BY GoesTo DEF SubsidyInv, Steps
<1>2. EntityOf(r)'
  BY <1>1 DEF EntityOf, Loads, Updates, SubsidyInv, Entities
<1>3. caps # <<>> /\ Underway(calls[r], Last(caps), LoggedSinceBase)
        => Underway(calls'[r], Last(caps), LoggedSinceBase)
  BY <1>1 DEF Underway
<1>4. flags' \in [rapid : Nat, unusual : Nat] /\ disturbed' \in BOOLEAN
  BY DEF SubsidyInv, SubsidyTypeOK
<1> QED BY <1>1, <1>2, <1>3, <1>4, OnlyMoves

LEMMA CheckSubsidyKeeps ==
  ASSUME SubsidyInv, NEW r \in Requests, CheckSubsidy(r)
  PROVE  SubsidyInv'
<1>1. calls[r].step = "check" /\ UNCHANGED <<caps, logs, flags, today, base, counted, disturbed>>
  BY DEF CheckSubsidy
<1> DEFINE cap == Last(caps)
<1> HIDE DEF cap
<1>2. \/ Finish(r)
      \/ /\ Goto(r, "log")
         /\ caps # <<>> => ~Reaches(cap.usage + calls[r].amount, cap, cap.hard)
      \/ /\ caps # <<>>
         /\ calls' = [calls EXCEPT ![r].step = "loadReset", ![r].cap = Len(caps),
                                   ![r].entity = Reset(cap)]
  <2>1. CASE caps = <<>>
    BY <2>1 DEF CheckSubsidy, Answer
  <2>2. CASE caps # <<>> /\ today > cap.end
    BY <2>2 DEF CheckSubsidy, cap
  <2>3. CASE caps # <<>> /\ ~(today > cap.end)
    <3>1. LET allowed == ~Reaches(cap.usage + calls[r].amount, cap, cap.hard)
          IN  Answer(r, allowed /\ StillAllowed(allowed))
      BY <2>3 DEF CheckSubsidy, cap
    <3> QED BY <3>1 DEF Answer
  <2> QED BY <2>1, <2>2, <2>3
<1>3. CASE Finish(r)
  BY <1>1, <1>3, FinishKeeps DEF SubsidyInv, SubsidyTypeOK
<1>4. CASE /\ Goto(r, "log")
           /\ caps # <<>> => ~Reaches(cap.usage + calls[r].amount, cap, cap.hard)
  BY <1>1, <1>4, GotoKeeps DEF cap
<1>5. CASE /\ caps # <<>>
           /\ calls' = [calls EXCEPT ![r].step = "loadReset", ![r].cap = Len(caps),
                                     ![r].entity = Reset(cap)]
  <2>1. cap \in CapStates /\ Len(caps) \in Nat /\ Len(caps) \in DOMAIN caps /\ today \in Days
    BY <1>5, LastCap DEF SubsidyInv, SubsidyTypeOK, cap
  <2>2. Reset(cap) \in CapStates /\ Reset(cap).usage = 0
    BY <2>1, ResetTyped
  <2> DEFINE reset == Reset(cap)
             c == [calls[r] EXCEPT !.step = "loadReset", !.cap = Len(caps), !.entity = reset]
  <2>3. calls' = [calls EXCEPT ![r] = c]
    BY <1>5 DEF SubsidyInv, SubsidyTypeOK
  <2>4. /\ c \in CallStates /\ c.step = "loadReset" /\ c.cap = Len(caps) /\ c.entity = reset
        /\ calls[r] \in CallStates
    <3>1. calls[r] \in CallStates
      BY DEF SubsidyInv, SubsidyTypeOK
    <3> HIDE DEF reset
    <3> QED BY <3>1, <2>1, <2>2 DEF CallStates, Loads, reset
  <2> HIDE DEF c
  <2>5. Moves(r) /\ calls'[r] = c
    BY <2>3, <2>4, Moved DEF SubsidyInv
  <2>6. EntityOf(r)'
    <3>1. 0 <= counted
      BY DEF SubsidyInv, SubsidyTypeOK
    <3> QED BY <1>1, <2>1, <2>2, <2>4, <2>5, <3>1 DEF EntityOf
  <2>7. Underway(calls[r], Last(caps), LoggedSinceBase)
          => Underway(calls'[r], Last(caps), LoggedSinceBase)
    BY <1>1, <2>4, <2>5 DEF Underway
  <2>8. flags' \in [rapid : Nat, unusual : Nat] /\ disturbed' \in BOOLEAN
    BY <1>1 DEF SubsidyInv, SubsidyTypeOK
  <2> QED BY <1>1, <2>4, <2>5, <2>6, <2>7, <2>8, OnlyMoves
<1> QED BY <1>2, <1>3, <1>4, <1>5

LEMMA SaveLogKeeps ==
  ASSUME SubsidyInv, NEW r \in Requests, SaveLog(r)
  PROVE  SubsidyInv'
<1> USE DEF SubsidyInv
<1> DEFINE amount == calls[r].amount
<1>1. /\ calls[r].step = "log" /\ logs' = Append(logs, amount)
      /\ UNCHANGED <<caps, flags, today, base, counted, disturbed>> /\ Goto(r, "count")
  BY DEF SaveLog
<1>2. amount \in Nat
  BY DEF SubsidyTypeOK, CallStates
<1>3. /\ Moves(r) /\ calls'[r].step = "count" /\ calls'[r].amount = amount
      /\ calls'[r].entity = calls[r].entity
  BY <1>1, GoesTo DEF Steps
<1> HIDE DEF amount
<1>4. SubsidyTypeOK'
  <2>1. logs' \in Seq(Nat) /\ base' \in 0..Len(logs')
    BY <1>1, <1>2 DEF SubsidyTypeOK
  <2> QED BY <1>1, <1>3, <2>1 DEF SubsidyTypeOK, Moves
<1>5. EntityOf(r)'
  BY <1>1, <1>3 DEF EntityOf, Entities, Loads, Updates
<1>6. LoggedSinceBase' = LoggedSinceBase + amount
  BY <1>1, <1>2, SumGrows
<1>7. ASSUME caps' # <<>>, ~disturbed' PROVE BookOf(r)'
  <2> DEFINE cap == Last(caps)
             sum == LoggedSinceBase
  <2>1. Underway(calls[r], cap, sum)
    BY <1>1, <1>7 DEF Books
  <2>2. Last(caps)' = cap
    BY <1>1
  <2> HIDE DEF cap, sum
  <2>3. cap.usage = sum /\ ~Reaches(sum + amount, cap, cap.hard)
    BY <1>1, <2>1 DEF Underway, amount
  <2>4. Underway(calls[r], Last(caps), LoggedSinceBase)'
    BY <1>3, <1>6, <2>2, <2>3 DEF Underway, sum
  <2>5. WithinCap'
    BY <1>6, <2>2, <2>3 DEF WithinCap, sum
  <2> QED BY <1>3, <2>4, <2>5 DEF BookOf
<1>8. NeverOvercounted' /\ counted <= counted' /\ DOMAIN caps' = DOMAIN caps
  BY <1>1 DEF NeverOvercounted, SubsidyTypeOK
<1>9. ~disturbed' => OthersIdle(r)
  BY <1>1, Alone
<1> QED BY <1>3, <1>4, <1>5, <1>7, <1>8, <1>9, Concludes

LEMMA UpdateCapUsageKeeps ==
  ASSUME SubsidyInv, NEW r \in Requests, UpdateCapUsage(r)
  PROVE  SubsidyInv'
<1> USE DEF SubsidyInv
<1> DEFINE amount == calls[r].amount
           cap == Last(caps)
<1>1. /\ calls[r].step = "count" /\ counted' = counted + amount
      /\ UNCHANGED <<caps, logs, flags, today, base, disturbed>>
  BY DEF UpdateCapUsage
<1>2. amount \in Nat /\ calls[r].entity.usage \in Nat /\ counted \in Nat
  BY DEF SubsidyTypeOK, CallStates, CapStates
<1>3. counted <= counted' /\ counted' \in Nat
  BY <1>1, <1>2
<1>4. NeverOvercounted'
  <2>1. \A i \in DOMAIN caps : caps[i].usage \in Nat
    <3>1. \A i \in DOMAIN caps : caps[i] \in CapStates
      BY DEF SubsidyTypeOK
    <3> QED BY <3>1 DEF CapStates
  <2> QED BY <1>1, <1>2, <1>3, <2>1 DEF NeverOvercounted
<1>5. /\ Moves(r) /\ EntityOf(r)'
      /\ caps # <<>> => /\ calls'[r].step = "loadUse" /\ calls'[r].cap = Len(caps)
                        /\ calls'[r].entity.usage = cap.usage + amount
                        /\ calls'[r].entity.max = cap.max /\ calls'[r].entity.hard = cap.hard
  <2>1. CASE caps = <<>>
    <3>1. Moves(r) /\ calls'[r].step = "alerts" /\ calls'[r].entity = calls[r].entity
      BY <2>1, GoesTo DEF UpdateCapUsage, Steps
    <3>2. calls'[r].entity.usage <= counted'
      BY <3>1, <1>2, <1>3 DEF Entities, EntityOf
    <3> QED BY <2>1, <3>1, <3>2 DEF EntityOf, Loads, Updates
  <2>2. CASE caps # <<>>
    <3>1. cap \in CapStates /\ Len(caps) \in Nat /\ Len(caps) \in DOMAIN caps
          /\ cap = caps[Len(caps)]
      BY <2>2, LastCap
    <3> DEFINE used == WithUse(cap, amount)
               c == [calls[r] EXCEPT !.step = "loadUse", !.cap = Len(caps), !.entity = used]
    <3>2. /\ used \in CapStates /\ used.usage = cap.usage + amount
          /\ used.max = cap.max /\ used.hard = cap.hard
      BY <3>1, <1>2, WithUseTyped
    <3>3. calls' = [calls EXCEPT ![r] = c]
      BY <2>2 DEF UpdateCapUsage, SubsidyTypeOK
    <3> HIDE DEF used
    <3>4. c \in CallStates /\ c.step = "loadUse" /\ c.cap = Len(caps) /\ c.entity = used
      <4>1. calls[r] \in CallStates
        BY DEF SubsidyTypeOK
      <4> QED BY <4>1, <3>1, <3>2 DEF CallStates, Loads
    <3> HIDE DEF c
    <3>5. Moves(r) /\ calls'[r] = c
      BY <3>3, <3>4, Moved
    <3>6. cap.usage <= counted /\ cap.usage \in Nat
      BY <3>1 DEF NeverOvercounted, CapStates
    <3>7. used.usage <= counted'
      BY <3>2, <3>6, <1>1, <1>2
    <3>8. EntityOf(r)'
      BY <3>1, <3>4, <3>5, <3>7, <1>1 DEF EntityOf
    <3> QED BY <3>2, <3>4, <3>5, <3>8
  <2> QED BY <2>1, <2>2
<1>6. SubsidyTypeOK'
  BY <1>1, <1>3, <1>5 DEF SubsidyTypeOK, Moves
<1>7. ASSUME caps' # <<>>, ~disturbed' PROVE BookOf(r)'
  <2> DEFINE sum == LoggedSinceBase
  <2>1. Underway(calls[r], cap, sum) /\ WithinCap
    BY <1>1, <1>7 DEF Books
  <2> HIDE DEF cap, sum
  <2>2. cap.usage + amount = sum
    BY <1>1, <2>1 DEF Underway
  <2>3. Last(caps)' = cap /\ LoggedSinceBase' = sum /\ WithinCap'
    BY <1>1, <2>1, SameBooks DEF cap, sum
  <2>4. Underway(calls[r], Last(caps), LoggedSinceBase)'
    BY <1>1, <1>5, <1>7, <2>2, <2>3 DEF Underway
  <2>5. calls'[r].step # "idle"
    BY <1>1, <1>5, <1>7
  <2> QED BY <2>3, <2>4, <2>5 DEF BookOf
<1>8. ~disturbed' => OthersIdle(r)
  BY <1>1, Alone
<1> QED BY <1>1, <1>3, <1>4, <1>5, <1>6, <1>7, <1>8, Concludes

LEMMA LoadForSaveKeeps ==
  ASSUME SubsidyInv, NEW r \in Requests, LoadForSave(r)
  PROVE  SubsidyInv'
<1> DEFINE row == caps[calls[r].cap]
           step == IF calls[r].step = "loadReset" THEN "updateReset" ELSE "updateUse"
           c == [calls[r] EXCEPT !.step = step, !.loaded = row]
<1>1. /\ calls[r].step \in {"loadReset", "loadUse"}
      /\ UNCHANGED <<caps, logs, flags, today, base, counted, disturbed>>
  BY DEF LoadForSave
<1>2. calls[r] \in CallStates /\ row \in CapStates
  BY <1>1 DEF SubsidyInv, SubsidyTypeOK, Entities, EntityOf, Loads
<1>3. calls' = [calls EXCEPT ![r] = c]
  BY DEF LoadForSave, SubsidyInv, SubsidyTypeOK
<1> HIDE DEF row
<1>4. /\ c \in CallStates /\ c.step = step /\ c.cap = calls[r].cap /\ c.entity = calls[r].entity
      /\ c.loaded = row /\ c.amount = calls[r].amount
  BY <1>2 DEF CallStates, Updates
<1> HIDE DEF c
<1>5. Moves(r) /\ calls'[r] = c
  BY <1>3, <1>4, Moved DEF SubsidyInv
<1>6. EntityOf(r)'
  BY <1>1, <1>4, <1>5 DEF SubsidyInv, Entities, EntityOf, Loads
<1>7. Underway(calls[r], Last(caps), LoggedSinceBase) /\ caps # <<>>
        => Underway(calls'[r], Last(caps), LoggedSinceBase)
  <2>1. calls[r].cap = Len(caps) /\ caps # <<>> => row = Last(caps)
    BY DEF row, Last
  <2> QED BY <1>1, <1>4, <1>5, <2>1 DEF Underway
<1>8. flags' \in [rapid : Nat, unusual : Nat] /\ disturbed' \in BOOLEAN
  BY <1>1 DEF SubsidyInv, SubsidyTypeOK
<1> QED BY <1>1, <1>4, <1>5, <1>6, <1>7, <1>8, OnlyMoves

(* What both saves do to the caps. *)
LEMMA Saves ==
  ASSUME SubsidyInv, NEW r \in Requests, calls[r].step \in Updates,
         caps' = [caps EXCEPT ![calls[r].cap] = SavedCap(@, calls[r])]
  PROVE  /\ caps' \in Seq(CapStates) /\ DOMAIN caps' = DOMAIN caps /\ Len(caps') = Len(caps)
         /\ \A i \in DOMAIN caps : caps'[i].usage <= counted
         /\ \A i \in DOMAIN caps \ {calls[r].cap} : caps'[i] = caps[i]
         /\ calls[r].cap \in DOMAIN caps
         /\ caps'[calls[r].cap].usage = calls[r].entity.usage
         /\ calls[r].loaded = caps[calls[r].cap] =>
              /\ caps'[calls[r].cap].max = calls[r].entity.max
              /\ caps'[calls[r].cap].hard = calls[r].entity.hard
<1> DEFINE k == calls[r].cap
           new == SavedCap(caps[k], calls[r])
<1>1. k \in DOMAIN caps /\ calls[r] \in CallStates /\ caps[k] \in CapStates
      /\ calls[r].entity.usage <= counted /\ caps \in Seq(CapStates)
      /\ \A i \in DOMAIN caps : caps[i].usage <= counted
  BY DEF SubsidyInv, SubsidyTypeOK, Entities, EntityOf, NeverOvercounted
<1>2. caps' = [caps EXCEPT ![k] = new]
  OBVIOUS
<1>3. /\ new \in CapStates /\ new.usage = calls[r].entity.usage
      /\ calls[r].loaded = caps[k] => new.max = calls[r].entity.max /\ new.hard = calls[r].entity.hard
  BY <1>1, SavedTyped
<1> HIDE DEF new, k
<1>4. caps' \in Seq(CapStates) /\ DOMAIN caps' = DOMAIN caps /\ Len(caps') = Len(caps)
  <2>1. k \in 1..Len(caps)
    BY <1>1
  <2>2. [caps EXCEPT ![k] = new] \in Seq(CapStates) /\ Len([caps EXCEPT ![k] = new]) = Len(caps)
    BY <1>1, <1>3, <2>1, ExceptSeq
  <2> QED BY <1>1, <1>2, <2>2
<1>5. caps'[k] = new /\ \A i \in DOMAIN caps \ {k} : caps'[i] = caps[i]
  BY <1>1, <1>2
<1>6. \A i \in DOMAIN caps : caps'[i].usage <= counted
  BY <1>1, <1>3, <1>5
<1> QED BY <1>1, <1>3, <1>4, <1>5, <1>6 DEF k

LEMMA SaveUseKeeps ==
  ASSUME SubsidyInv, NEW r \in Requests, SaveUse(r)
  PROVE  SubsidyInv'
<1> USE DEF SubsidyInv
<1>1. /\ calls[r].step = "updateUse" /\ Goto(r, "alerts")
      /\ caps' = [caps EXCEPT ![calls[r].cap] = SavedCap(@, calls[r])]
      /\ UNCHANGED <<logs, flags, today, base, counted, disturbed>>
  BY DEF SaveUse
<1>2. /\ Moves(r) /\ calls'[r].step = "alerts" /\ calls'[r].entity = calls[r].entity
  BY <1>1, GoesTo DEF Steps
<1> DEFINE k == calls[r].cap
<1>3. /\ caps' \in Seq(CapStates) /\ DOMAIN caps' = DOMAIN caps /\ Len(caps') = Len(caps)
      /\ \A i \in DOMAIN caps : caps'[i].usage <= counted
      /\ k \in DOMAIN caps /\ caps'[k].usage = calls[r].entity.usage
      /\ calls[r].loaded = caps[k] => /\ caps'[k].max = calls[r].entity.max
                                      /\ caps'[k].hard = calls[r].entity.hard
  BY <1>1, Saves DEF Updates
<1>4. SubsidyTypeOK'
  BY <1>1, <1>2, <1>3 DEF SubsidyTypeOK, Moves
<1>5. EntityOf(r)'
  BY <1>1, <1>2 DEF EntityOf, Entities, Loads, Updates
<1>6. ASSUME caps' # <<>>, ~disturbed' PROVE BookOf(r)'
  <2>1. caps # <<>>
    BY <1>3
  <2> DEFINE cap == Last(caps)
             sum == LoggedSinceBase
             new == Last(caps)'
  <2>2. Underway(calls[r], cap, sum) /\ WithinCap
    BY <1>1, <1>6, <2>1 DEF Books
  <2>3. cap = caps[Len(caps)] /\ new = caps'[Len(caps)]
    BY <1>3 DEF Last
  <2>4. LoggedSinceBase' = sum
    BY <1>1 DEF LoggedSinceBase
  <2>5. /\ k = Len(caps) /\ calls[r].entity.usage = sum
        /\ calls[r].entity.max = cap.max /\ calls[r].entity.hard = cap.hard
        /\ calls[r].loaded = cap
    BY <1>1, <2>2 DEF Underway
  <2>6. new.usage = sum /\ new.max = cap.max /\ new.hard = cap.hard
    BY <1>3, <2>3, <2>5
  <2>7. Reaches(sum, new, new.hard) = Reaches(sum, cap, cap.hard)
    BY <2>6 DEF Reaches
  <2> HIDE DEF cap, sum, new
  <2>8. WithinCap'
    BY <2>2, <2>4, <2>7 DEF WithinCap, cap, sum, new
  <2>9. Underway(calls[r], Last(caps), LoggedSinceBase)'
    BY <1>2, <2>4, <2>6 DEF Underway, new
  <2> QED BY <1>2, <2>8, <2>9 DEF BookOf
<1>7. NeverOvercounted' /\ counted <= counted'
  BY <1>1, <1>3 DEF NeverOvercounted, SubsidyTypeOK
<1>8. ~disturbed' => OthersIdle(r)
  BY <1>1, Alone
<1> QED BY <1>2, <1>3, <1>4, <1>5, <1>6, <1>7, <1>8, Concludes

(* A reset that finds nobody else under way begins a new period with nothing used;   *)
(* one of an earlier cap leaves the books of the last one.                           *)
LEMMA SaveResetKeeps ==
  ASSUME SubsidyInv, NEW r \in Requests, SaveReset(r)
  PROVE  SubsidyInv'
<1> USE DEF SubsidyInv
<1> DEFINE k == calls[r].cap
<1>1. /\ calls[r].step = "updateReset" /\ Goto(r, "check")
      /\ caps' = [caps EXCEPT ![k] = SavedCap(@, calls[r])]
      /\ UNCHANGED <<logs, flags, today, counted>>
      /\ k = Len(caps) => base' = Len(logs) /\ disturbed' = (~OthersIdle(r) \/ Last(caps) # calls[r].loaded)
      /\ k # Len(caps) => UNCHANGED <<base, disturbed>>
  BY DEF SaveReset
<1>2. /\ Moves(r) /\ calls'[r].step = "check" /\ calls'[r].entity = calls[r].entity
  BY <1>1, GoesTo DEF Steps
<1>3. /\ caps' \in Seq(CapStates) /\ DOMAIN caps' = DOMAIN caps /\ Len(caps') = Len(caps)
      /\ \A i \in DOMAIN caps : caps'[i].usage <= counted
      /\ k \in DOMAIN caps /\ caps'[k].usage = calls[r].entity.usage
      /\ \A i \in DOMAIN caps \ {k} : caps'[i] = caps[i]
  BY <1>1, Saves DEF Updates
<1>4. SubsidyTypeOK'
  <2>1. base \in 0..Len(logs) /\ Len(logs) \in Nat /\ disturbed \in BOOLEAN
    BY DEF SubsidyTypeOK
  <2>2. base' \in 0..Len(logs')
    BY <1>1, <2>1
  <2>3. disturbed' \in BOOLEAN
    BY <1>1, <2>1
  <2> QED BY <1>1, <1>2, <1>3, <2>2, <2>3 DEF SubsidyTypeOK, Moves
<1>5. EntityOf(r)' /\ calls[r].entity.usage = 0
  BY <1>1, <1>2 DEF EntityOf, Entities, Loads, Updates
<1>6. ~disturbed' => OthersIdle(r)
  <2>1. CASE k = Len(caps)
    BY <1>1, <2>1
  <2>2. CASE k # Len(caps)
    <3>1. disturbed' = disturbed /\ calls[r].step # "idle"
      BY <1>1, <2>2
    <3> QED BY <3>1, Alone
  <2> QED BY <2>1, <2>2
<1>7. ASSUME caps' # <<>>, ~disturbed' PROVE BookOf(r)'
  <2>1. CASE k = Len(caps)
    <3>1. LoggedSinceBase' = 0
      BY <1>1, <2>1, SumBegins
    <3>2. Last(caps)'.usage = 0
      BY <1>3, <1>5, <2>1 DEF Last
    <3>3. WithinCap'
      BY <3>1 DEF WithinCap
    <3> QED BY <1>2, <3>1, <3>2, <3>3 DEF BookOf, Underway
  <2>2. CASE k # Len(caps)
    <3>1. caps # <<>> /\ Len(caps) \in DOMAIN caps
      BY <1>3, <1>7, LastCap
    <3>2. Last(caps)' = Last(caps)
      BY <1>3, <2>2, <3>1 DEF Last
    <3>3. LoggedSinceBase' = LoggedSinceBase
      BY <1>1, <2>2 DEF LoggedSinceBase
    <3>4. Underway(calls[r], Last(caps), LoggedSinceBase) /\ WithinCap
      BY <1>1, <1>7, <2>2, <3>1 DEF Books
    <3>5. Last(caps).usage = LoggedSinceBase
      BY <1>1, <3>4 DEF Underway
    <3>6. WithinCap'
      BY <3>2, <3>3, <3>4 DEF WithinCap
    <3> QED BY <1>2, <3>2, <3>3, <3>5, <3>6 DEF BookOf, Underway
  <2> QED BY <2>1, <2>2
<1>8. NeverOvercounted' /\ counted <= counted'
  BY <1>1, <1>3 DEF NeverOvercounted, SubsidyTypeOK
<1> QED BY <1>2, <1>3, <1>4, <1>5, <1>6, <1>7, <1>8, Concludes

LEMMA FlagsTyped ==
  ASSUME SubsidyInv, NEW amount
  PROVE  FlagsAfter(amount) \in [rapid : Nat, unusual : Nat]
<1>1. \A f \in Nat : Raised(f, 8) \in Nat /\ Raised(f, 6) \in Nat
  BY DEF Raised
<1>2. flags.rapid \in Nat /\ flags.unusual \in Nat
  BY DEF SubsidyInv, SubsidyTypeOK
<1> QED BY <1>1, <1>2 DEF FlagsAfter

LEMMA AnswerKeeps ==
  ASSUME SubsidyInv, NEW r \in Requests, CheckAlerts(r) \/ AnalyseUse(r) \/ Fail(r)
  PROVE  SubsidyInv'
<1>1. flags \in [rapid : Nat, unusual : Nat] /\ disturbed \in BOOLEAN
  BY DEF SubsidyInv, SubsidyTypeOK
<1>2. CASE CheckAlerts(r)
  <2>1. CASE Finish(r)
    <3>1. disturbed' = (disturbed \/ calls[r].step \in {"count", "loadUse", "updateUse"})
      BY <1>1, <1>2 DEF CheckAlerts
    <3> QED BY <1>1, <1>2, <2>1, <3>1, FinishKeeps DEF CheckAlerts
  <2>2. CASE Goto(r, "analyse")
    BY <1>2, <2>2, GotoKeeps DEF CheckAlerts
  <2> QED BY <1>2, <2>1, <2>2 DEF CheckAlerts
<1>3. CASE AnalyseUse(r)
  <2>1. flags' \in [rapid : Nat, unusual : Nat]
    BY <1>3, FlagsTyped DEF AnalyseUse
  <2>2. disturbed' = (disturbed \/ calls[r].step \in {"count", "loadUse", "updateUse"})
    BY <1>1, <1>3 DEF AnalyseUse
  <2> QED BY <1>3, <2>1, <2>2, FinishKeeps DEF AnalyseUse
<1>4. CASE Fail(r)
  BY <1>1, <1>4, FinishKeeps DEF Fail
<1> QED BY <1>2, <1>3, <1>4

LEMMA CreateCapKeeps ==
  ASSUME SubsidyInv, CreateCap
  PROVE  SubsidyInv'
<1> USE DEF SubsidyInv
<1>1. PICK c \in CapRequests : caps' = Append(caps, NewCap(c))
  BY DEF CreateCap
<1>2. /\ base' = Len(logs) /\ disturbed' = (\E r \in Requests : calls[r].step # "idle")
      /\ UNCHANGED <<logs, flags, calls, today, counted>>
  BY DEF CreateCap
<1> DEFINE new == NewCap(c)
<1>3. new \in CapStates /\ new.usage = 0
  BY NewCapTyped DEF SubsidyTypeOK
<1> HIDE DEF new
<1>4. /\ caps' \in Seq(CapStates) /\ Len(caps') = Len(caps) + 1
      /\ \A i \in 1..Len(caps) : caps'[i] = caps[i]
      /\ caps'[Len(caps) + 1] = new
  BY <1>1, <1>3, AppendProperties DEF SubsidyTypeOK, new
<1>5. DOMAIN caps = 1..Len(caps) /\ DOMAIN caps' = 1..(Len(caps) + 1) /\ Len(caps) \in Nat
  BY <1>4 DEF SubsidyTypeOK
<1>6. SubsidyTypeOK'
  <2>1. base' \in 0..Len(logs') /\ disturbed' \in BOOLEAN
    BY <1>2 DEF SubsidyTypeOK
  <2> QED BY <1>2, <1>4, <2>1 DEF SubsidyTypeOK
<1>7. Entities'
  BY <1>2, <1>5 DEF Entities, EntityOf
<1>8. NeverOvercounted'
  <2>1. ASSUME NEW i \in DOMAIN caps' PROVE caps'[i].usage <= counted
    <3>1. CASE i \in 1..Len(caps)
      BY <3>1, <1>4, <1>5 DEF NeverOvercounted
    <3>2. CASE i = Len(caps) + 1
      BY <3>2, <1>3, <1>4 DEF SubsidyTypeOK
    <3> QED BY <1>5, <3>1, <3>2
  <2> QED BY <1>2, <2>1 DEF NeverOvercounted
<1>9. OneAtATime'
  BY <1>2 DEF OneAtATime
<1>10. Books'
  <2>1. LoggedSinceBase' = 0
    BY <1>2, SumBegins
  <2>2. Last(caps)'.usage = 0
    BY <1>3, <1>4 DEF Last
  <2>3. ~disturbed' => \A r \in Requests : calls'[r].step = "idle"
    BY <1>2
  <2> QED BY <2>1, <2>2, <2>3 DEF Books, WithinCap
<1> QED BY <1>6, <1>7, <1>8, <1>9, <1>10

LEMMA SubsidyBegins == SubsidyInit => SubsidyInv
<1> SUFFICES ASSUME SubsidyInit PROVE SubsidyInv
  OBVIOUS
<1>1. SubsidyTypeOK
  <2>1. caps \in Seq(CapStates) /\ logs \in Seq(Nat) /\ base \in 0..Len(logs) /\ today \in Days
    BY DEF SubsidyInit
  <2> QED BY <2>1, IdleTyped DEF SubsidyInit, SubsidyTypeOK
<1> QED BY <1>1, IdleTyped DEF SubsidyInit, SubsidyInv, Entities, EntityOf, Loads, Updates,
                              NeverOvercounted, OneAtATime, Books

LEMMA SubsidyContinues == SubsidyInv /\ [SubsidyNext]_subsidyVars => SubsidyInv'
<1> SUFFICES ASSUME SubsidyInv, [SubsidyNext]_subsidyVars PROVE SubsidyInv'
  OBVIOUS
<1>1. CASE CreateCap
  BY <1>1, CreateCapKeeps
<1>2. CASE ClearFlag \/ NextDay \/ UNCHANGED subsidyVars
  <2>1. UNCHANGED <<caps, logs, calls, base, counted, disturbed>>
    BY <1>2 DEF ClearFlag, NextDay, subsidyVars
  <2>2. flags' \in [rapid : Nat, unusual : Nat] /\ today' \in Days
    BY <1>2 DEF ClearFlag, NextDay, subsidyVars, SubsidyInv, SubsidyTypeOK
  <2>3. SubsidyTypeOK' /\ Entities' /\ NeverOvercounted' /\ OneAtATime'
    BY <2>1, <2>2 DEF SubsidyInv, SubsidyTypeOK, Entities, EntityOf, NeverOvercounted, OneAtATime
  <2>4. Books'
    BY <2>1, SameBooks DEF SubsidyInv, Books, Underway
  <2> QED BY <2>3, <2>4 DEF SubsidyInv
<1>3. ASSUME NEW r \in Requests, Request(r) \/ Proceed(r) \/ Fail(r) PROVE SubsidyInv'
  BY <1>3, RequestKeeps, CheckSubsidyKeeps, SaveLogKeeps, UpdateCapUsageKeeps, LoadForSaveKeeps,
     SaveUseKeeps, SaveResetKeeps, AnswerKeeps DEF Proceed
<1> QED BY <1>1, <1>2, <1>3 DEF SubsidyNext

LEMMA SubsidyHolds == SubsidySpec => []SubsidyInv
BY SubsidyBegins, SubsidyContinues, PTL DEF SubsidySpec

(* recordUsage beside checkSubsidy, resets, new caps and failures, in any            *)
(* interleaving: a cap that was undisturbed in its period holds the sum of the uses  *)
(* logged in it, which is below its hard limit, and no cap ever holds more than the  *)
(* recordings that reached it add up to.                                             *)
THEOREM BooksAlwaysMatchLog == SubsidySpec => []BooksMatchLog
<1>1. SubsidyInv => BooksMatchLog
  <2> SUFFICES ASSUME SubsidyInv PROVE Balanced /\ NeverOvercounted
    BY DEF BooksMatchLog
  <2>1. ASSUME caps # <<>>, ~disturbed,
               \A r \in Requests : calls[r].step \in {"idle", "check", "analyse", "alerts"}
        PROVE  Last(caps).usage = LoggedSinceBase
    <3>1. CASE \A r \in Requests : calls[r].step = "idle"
      BY <2>1, <3>1 DEF SubsidyInv, Books
    <3>2. ASSUME NEW r \in Requests, calls[r].step # "idle"
          PROVE  Last(caps).usage = LoggedSinceBase
      BY <2>1, <3>2 DEF SubsidyInv, Books, Underway
    <3> QED BY <3>1, <3>2
  <2> QED BY <2>1 DEF SubsidyInv, Balanced, Books, WithinCap
<1> QED BY <1>1, SubsidyHolds, PTL

-----------------------------------------------------------------------------
(* Gas spike alerts *)

(* One metric elevates the highest severity to its own, the one that                *)
(* resolveSeverity gives it, when that is higher.                                   *)
LEMMA ElevatesToIts ==
  ASSUME NEW e, NEW t, NEW m, NEW highest \in 0..3
  PROVE  /\ ResolveSeverity(e, m, t) \in 0..3
         /\ ElevateBy(highest, e, m, t) \in 0..3
         /\ ElevateBy(highest, e, m, t) >= highest
         /\ ElevateBy(highest, e, m, t) >= ResolveSeverity(e, m, t)
         /\ ElevateBy(highest, e, m, t) \in {highest, ResolveSeverity(e, m, t)}
BY DEF ResolveSeverity, ElevateBy, Elevate, Null

(* classify's chain of four metrics ends at an upper bound of their severities that  *)
(* one of them has, or at null when none has fired.                                  *)
LEMMA ClassifiesTheHighest ==
  ASSUME NEW e, NEW t
  PROVE  /\ ClassifySeverity(e, t) \in 0..3
         /\ \A m \in Metrics : ResolveSeverity(e, m, t) <= ClassifySeverity(e, t)
         /\ \/ ClassifySeverity(e, t) = 0
            \/ \E m \in Metrics : ResolveSeverity(e, m, t) = ClassifySeverity(e, t)
<1> DEFINE first == ElevateBy(Null, e, "baseChange", t)
           second == ElevateBy(first, e, "base", t)
           third == ElevateBy(second, e, "volatility", t)
           fourth == ElevateBy(third, e, "priorityChange", t)
<1> HIDE DEF first, second, third, fourth
<1>1. /\ first \in 0..3 /\ first >= ResolveSeverity(e, "baseChange", t)
      /\ first \in {0, ResolveSeverity(e, "baseChange", t)}
      /\ ResolveSeverity(e, "baseChange", t) \in 0..3
  BY ElevatesToIts DEF first, Null
<1>2. /\ second \in 0..3 /\ second >= first /\ second >= ResolveSeverity(e, "base", t)
      /\ second \in {first, ResolveSeverity(e, "base", t)}
      /\ ResolveSeverity(e, "base", t) \in 0..3
  BY <1>1, ElevatesToIts DEF second
<1>3. /\ third \in 0..3 /\ third >= second /\ third >= ResolveSeverity(e, "volatility", t)
      /\ third \in {second, ResolveSeverity(e, "volatility", t)}
      /\ ResolveSeverity(e, "volatility", t) \in 0..3
  BY <1>2, ElevatesToIts DEF third
<1>4. /\ fourth \in 0..3 /\ fourth >= third
      /\ fourth >= ResolveSeverity(e, "priorityChange", t)
      /\ fourth \in {third, ResolveSeverity(e, "priorityChange", t)}
      /\ ResolveSeverity(e, "priorityChange", t) \in 0..3
  BY <1>3, ElevatesToIts DEF fourth
<1>5. ClassifySeverity(e, t) = fourth
  BY DEF ClassifySeverity, first, second, third, fourth
<1> QED BY <1>1, <1>2, <1>3, <1>4, <1>5 DEF Metrics

(* The highest of a set of results, when one of them is.                            *)
LEMMA HighestIs ==
  ASSUME NEW results, NEW r \in results, r.severity \in Int,
         \A q \in results : q.severity \in Int /\ q.severity <= r.severity
  PROVE  HighestSeverity(results) = r.severity
<1> DEFINE Is(s) == \A q \in results : q.severity <= s
           all == {q.severity : q \in results}
<1>1. r.severity \in all /\ Is(r.severity)
  OBVIOUS
<1>2. \A s \in all : Is(s) => s = r.severity
  OBVIOUS
<1>3. (CHOOSE s \in all : Is(s)) = r.severity
  BY <1>1, <1>2
<1> QED BY <1>3 DEF HighestSeverity

LEMMA SeveritiesAgree ==
  ASSUME NEW e, NEW t
  PROVE  ClassifySeverity(e, t) = HighestSeverity(Evaluate(e, t))
<1> DEFINE result(m) == [type |-> m, severity |-> ResolveSeverity(e, m, t)]
           c == ClassifySeverity(e, t)
<1>1. /\ c \in 0..3
      /\ \A m \in Metrics : ResolveSeverity(e, m, t) \in 0..3 /\ ResolveSeverity(e, m, t) <= c
      /\ c = 0 \/ \E m \in Metrics : ResolveSeverity(e, m, t) = c
  BY ClassifiesTheHighest, ElevatesToIts
<1>2. \A r : r \in Evaluate(e, t) <=> \E m \in Metrics : r = result(m) /\ r.severity # 0
  BY DEF Evaluate, Null
<1> HIDE DEF c
<1>3. CASE c = 0
  <2>1. \A m \in Metrics : ResolveSeverity(e, m, t) = 0
    BY <1>1, <1>3
  <2>2. Evaluate(e, t) = {}
    BY <1>2, <2>1
  <2> QED BY <1>3, <2>2 DEF HighestSeverity, Null, c
<1>4. CASE c # 0
  <2>1. PICK m \in Metrics : ResolveSeverity(e, m, t) = c
    BY <1>1, <1>4
  <2>2. result(m) \in Evaluate(e, t) /\ result(m).severity = c
    BY <1>2, <1>4, <2>1
  <2>3. \A q \in Evaluate(e, t) : q.severity \in Int /\ q.severity <= c
    BY <1>1, <1>2
  <2> HIDE DEF result
  <2>4. HighestSeverity(Evaluate(e, t)) = c
    BY <1>1, <2>2, <2>3, HighestIs
  <2> QED BY <2>4 DEF c
<1> QED BY <1>3, <1>4

LEMMA TypesAgree ==
  ASSUME NEW e, NEW t, NEW severity \in Severities
  PROVE  TriggeredSpikeTypes(e, t, severity)
           = {r.type : r \in {q \in Evaluate(e, t) : q.severity >= severity}}
<1> DEFINE result(m) == [type |-> m, severity |-> ResolveSeverity(e, m, t)]
           kept == {q \in Evaluate(e, t) : q.severity >= severity}
<1>1. \A m : ValueToSeverity(e, m, t) = ResolveSeverity(e, m, t)
  BY DEF ValueToSeverity, ResolveSeverity
<1>2. \A r : r \in kept <=> \E m \in Metrics : /\ r = result(m) /\ r.severity # Null
                                               /\ r.severity >= severity
  BY DEF Evaluate
<1>3. ASSUME NEW m PROVE m \in {r.type : r \in kept}
                          <=> /\ m \in Metrics /\ ResolveSeverity(e, m, t) # Null
                              /\ ResolveSeverity(e, m, t) >= severity
  <2> HIDE DEF kept
  <2>1. \A k : result(k).type = k /\ result(k).severity = ResolveSeverity(e, k, t)
    OBVIOUS
  <2> HIDE DEF result
  <2>2. m \in {r.type : r \in kept} <=> \E r \in kept : m = r.type
    OBVIOUS
  <2> QED BY <1>2, <2>1, <2>2
<1>4. ASSUME NEW m PROVE m \in TriggeredSpikeTypes(e, t, severity)
                          <=> /\ m \in Metrics /\ ResolveSeverity(e, m, t) # Null
                              /\ ResolveSeverity(e, m, t) >= severity
  BY <1>1 DEF TriggeredSpikeTypes
<1> HIDE DEF kept
<1>5. TriggeredSpikeTypes(e, t, severity) = {r.type : r \in kept}
  BY <1>3, <1>4
<1> QED BY <1>5 DEF kept

(* classifySeverity and the threshold engine's rules decide alike, whatever the       *)
(* history, the thresholds an operator has set (in any order) and what is fetched.    *)
THEOREM EnginesAlwaysAgree == SpikeSpec => []EnginesAgree
<1>1. EnginesAgree
  BY SeveritiesAgree, TypesAgree DEF EnginesAgree
<1> QED BY <1>1, PTL

---------------------------------------------------------------------------------
(* TransactionRecording: types, MerchantLimitBounded. *)

(* How many of a sequence of times are at least b. *)
CountFrom(times, b) == Cardinality({i \in DOMAIN times : times[i] >= b})

CountUpTo(times, n, b) == Cardinality({i \in 1..n : times[i] >= b})

LEMMA CountsAre ==
  ASSUME NEW n \in Nat, NEW times, NEW b \in Int
  PROVE  /\ CountUpTo(times, n, b) \in Nat /\ CountUpTo(times, n, b) <= n
         /\ CountUpTo(times, 0, b) = 0
<1>1. IsFiniteSet(1..n) /\ Cardinality(1..n) = n
  BY FS_Interval
<1>2. {i \in 1..n : times[i] >= b} \subseteq 1..n
  OBVIOUS
<1>3. {i \in 1..0 : times[i] >= b} = {}
  OBVIOUS
<1> QED BY <1>1, <1>2, <1>3, FS_Subset, FS_CardinalityType, FS_EmptySet DEF CountUpTo

LEMMA CountOfNext ==
  ASSUME NEW n \in Nat, NEW times, NEW b \in Int, times[n + 1] \in Int
  PROVE  CountUpTo(times, n + 1, b) = CountUpTo(times, n, b) + (IF times[n + 1] >= b THEN 1 ELSE 0)
<1> DEFINE S == {i \in 1..n : times[i] >= b}
           T == {i \in 1..(n + 1) : times[i] >= b}
<1>1. IsFiniteSet(S) /\ Cardinality(S) \in Nat
  <2>1. S \subseteq 1..n
    OBVIOUS
  <2>2. IsFiniteSet(1..n)
    BY FS_Interval
  <2> HIDE DEF S
  <2> QED BY <2>1, <2>2, FS_Subset, FS_CardinalityType
<1>2. CASE times[n + 1] >= b
  <2>1. T = S \cup {n + 1} /\ n + 1 \notin S
    BY <1>2
  <2>2. Cardinality(T) = Cardinality(S) + 1
    BY <1>1, <2>1, FS_AddElement
  <2> QED BY <1>2, <2>2 DEF CountUpTo
<1>3. CASE ~(times[n + 1] >= b)
  <2>1. T = S
    BY <1>3
  <2> QED BY <1>1, <1>3, <2>1 DEF CountUpTo
<1> QED BY <1>2, <1>3

LEMMA CountIsUpTo ==
  ASSUME NEW S, NEW times \in Seq(S), NEW b
  PROVE  CountFrom(times, b) = CountUpTo(times, Len(times), b)
<1>1. DOMAIN times = 1..Len(times)
  OBVIOUS
<1> QED BY <1>1, Zenon DEF CountFrom, CountUpTo

LEMMA CountOfAppend ==
  ASSUME NEW times \in Seq(Int), NEW t \in Int, NEW b \in Int
  PROVE  /\ CountFrom(times, b) \in Nat /\ CountFrom(times, b) <= Len(times)
         /\ CountFrom(Append(times, t), b) = CountFrom(times, b) + (IF t >= b THEN 1 ELSE 0)
<1> DEFINE more == Append(times, t)
           n == Len(times)
<1>1. n \in Nat /\ more \in Seq(Int) /\ Len(more) = n + 1 /\ more[n + 1] = t
      /\ \A i \in 1..n : more[i] = times[i]
  OBVIOUS
<1>2. CountFrom(times, b) = CountUpTo(times, n, b) /\ CountFrom(more, b) = CountUpTo(more, n + 1, b)
  BY <1>1, CountIsUpTo
<1>3. CountUpTo(more, n, b) = CountUpTo(times, n, b)
  <2>1. {i \in 1..n : more[i] >= b} = {i \in 1..n : times[i] >= b}
    BY <1>1
  <2> HIDE DEF more, n
  <2> QED BY <2>1 DEF CountUpTo
<1>4. CountUpTo(times, n, b) \in Nat /\ CountUpTo(times, n, b) <= n
  BY <1>1, CountsAre
<1>5. CountUpTo(more, n + 1, b) = CountUpTo(more, n, b) + (IF more[n + 1] >= b THEN 1 ELSE 0)
  <2> HIDE DEF more, n
  <2> QED BY <1>1, CountOfNext
<1> HIDE DEF more
<1> QED BY <1>1, <1>2, <1>3, <1>4, <1>5 DEF more

LEMMA AppendCounts ==
  ASSUME NEW some \in Seq(Int), NEW u \in Int
  PROVE  \A b \in Int :
           CountFrom(Append(some, u), b) = CountFrom(some, b) + (IF u >= b THEN 1 ELSE 0)
BY CountOfAppend

LEMMA CountOfNone ==
  ASSUME NEW b PROVE CountFrom(<<>>, b) = 0
<1>1. {i \in DOMAIN <<>> : <<>>[i] >= b} = {}
  OBVIOUS
<1> QED BY <1>1, FS_EmptySet DEF CountFrom

LEMMA CountsShrink ==
  ASSUME NEW times \in Seq(Int), NEW b \in Int, NEW c \in Int, b <= c
  PROVE  CountFrom(times, c) <= CountFrom(times, b)
<1> DEFINE S == {i \in DOMAIN times : times[i] >= c}
           T == {i \in DOMAIN times : times[i] >= b}
<1>1. S \subseteq T /\ T \subseteq 1..Len(times) /\ Len(times) \in Nat
  OBVIOUS
<1>2. IsFiniteSet(T)
  BY <1>1, FS_Interval, FS_Subset
<1>3. Cardinality(S) <= Cardinality(T)
  <2> HIDE DEF S, T
  <2> QED BY <1>1, <1>2, FS_Subset
<1> QED BY <1>3 DEF CountFrom

(* The times kept are those that are later, none lost and none twice. *)
IsKept(kept, time, times) ==
  kept = [n \in 0..Len(times) |->
            IF n = 0 THEN <<>>
            ELSE IF times[n] > time THEN Append(kept[n - 1], times[n]) ELSE kept[n - 1]]

LEMMA SeqOfInts ==
  ASSUME NEW S, S \subseteq Int, NEW s \in Seq(S)
  PROVE  s \in Seq(Int) /\ Len(s) \in Nat /\ \A i \in 1..Len(s) : s[i] \in S /\ s[i] \in Int
<1>1. Len(s) \in Nat /\ DOMAIN s = 1..Len(s) /\ s = [i \in 1..Len(s) |-> s[i]]
      /\ \A i \in 1..Len(s) : s[i] \in S
  OBVIOUS
<1>2. \A i \in 1..Len(s) : s[i] \in Int
  BY <1>1
<1>3. s \in [1..Len(s) -> Int]
  BY <1>1, <1>2
<1> QED BY <1>1, <1>2, <1>3

LEMMA LaterThanIs ==
  ASSUME NEW time, NEW times
  PROVE  LaterThan(time, times) = (CHOOSE kept : IsKept(kept, time, times))[Len(times)]
BY Zenon DEF LaterThan, IsKept

LEMMA KeptExists ==
  ASSUME NEW time, NEW times, Len(times) \in Nat
  PROVE  \E kept : IsKept(kept, time, times)
<1> DEFINE Value(g, n) ==
             IF n = 0 THEN <<>>
             ELSE IF times[n] > time THEN Append(g[n - 1], times[n]) ELSE g[n - 1]
           T == {n \in Nat : \E g : \A m \in 0..n : g[m] = Value(g, m)}
<1>1. 0 \in T
  <2> DEFINE g == [m \in 0..0 |-> <<>>]
  <2>1. \A m \in 0..0 : g[m] = Value(g, m)
    OBVIOUS
  <2> QED BY <2>1
<1>2. ASSUME NEW n \in Nat, n \in T PROVE n + 1 \in T
  <2>1. PICK g : \A m \in 0..n : g[m] = Value(g, m)
    BY <1>2
  <2> DEFINE h == [m \in 0..(n + 1) |-> IF m = n + 1 THEN Value(g, m) ELSE g[m]]
  <2>2. ASSUME NEW m \in 0..(n + 1) PROVE h[m] = Value(h, m)
    <3>1. CASE m = 0
      <4>1. h[m] = g[0] /\ g[0] = <<>>
        BY <2>1, <3>1
      <4> QED BY <3>1, <4>1
    <3>2. CASE m # 0
      <4>1. m \in Nat /\ m - 1 \in 0..(n + 1) /\ m - 1 # n + 1
        BY <3>2
      <4>2. h[m - 1] = g[m - 1]
        BY <4>1
      <4>3. h[m] = Value(g, m)
        BY <2>1
      <4> HIDE DEF h
      <4> QED BY <4>2, <4>3
    <3> QED BY <3>1, <3>2
  <2> HIDE DEF h
  <2>3. \E k : \A m \in 0..(n + 1) : k[m] = Value(k, m)
    BY <2>2
  <2> QED BY <2>3
<1>3. Len(times) \in T
  <2> HIDE DEF T
  <2> QED BY <1>1, <1>2, InductionOverNat
<1>4. PICK g : \A m \in 0..Len(times) : g[m] = Value(g, m)
  BY <1>3
<1> DEFINE kept == [m \in 0..Len(times) |-> g[m]]
<1>5. ASSUME NEW m \in 0..Len(times) PROVE kept[m] = Value(kept, m)
  <2>1. CASE m = 0
    BY <1>4, <2>1
  <2>2. CASE m # 0
    <3>1. m - 1 \in 0..Len(times)
      BY <2>2
    <3>2. kept[m - 1] = g[m - 1] /\ kept[m] = g[m] /\ g[m] = Value(g, m)
      BY <1>4, <3>1
    <3> HIDE DEF kept
    <3> QED BY <3>2
  <2> QED BY <2>1, <2>2
<1>6. kept = [m \in 0..Len(times) |-> Value(kept, m)]
  <2>1. kept = [m \in 0..Len(times) |-> kept[m]]
    OBVIOUS
  <2> HIDE DEF kept
  <2> QED BY <1>5, <2>1
<1> HIDE DEF kept
<1> QED BY <1>6 DEF IsKept

CountsKept(some, n, time, S, times) ==
  /\ some \in Seq(S)
  /\ Len(some) = CountUpTo(times, n, time + 1)
  /\ \A b \in Int : b > time => CountFrom(some, b) = CountUpTo(times, n, b)

LEMMA KeptCounts ==
  ASSUME NEW time \in Int, NEW S, S \subseteq Int, NEW times \in Seq(S), NEW kept,
         IsKept(kept, time, times)
  PROVE  \A n \in 0..Len(times) : CountsKept(kept[n], n, time, S, times)
<1> USE DEF CountsKept
<1> DEFINE Good(n) == CountsKept(kept[n], n, time, S, times)
           T == {n \in Nat : n <= Len(times) => Good(n)}
<1>0. Len(times) \in Nat /\ \A i \in 1..Len(times) : times[i] \in S /\ times[i] \in Int
  BY SeqOfInts
<1>1. 0 \in T
  <2>1. kept[0] = <<>>
    BY <1>0 DEF IsKept
  <2>2. \A b \in Int : CountUpTo(times, 0, b) = 0
    BY CountsAre
  <2>3. <<>> \in Seq(S) /\ Len(<<>>) = 0
    OBVIOUS
  <2>4. \A b : CountFrom(<<>>, b) = 0
    BY CountOfNone
  <2>5. time + 1 \in Int
    OBVIOUS
  <2>6. Good(0)
    BY <2>1, <2>2, <2>3, <2>4, <2>5
  <2> QED BY <2>6
<1>2. ASSUME NEW n \in Nat, n \in T PROVE n + 1 \in T
  <2> SUFFICES ASSUME n + 1 <= Len(times) PROVE Good(n + 1)
    OBVIOUS
  <2>1. Good(n)
    BY <1>0, <1>2
  <2> HIDE DEF T
  <2> DEFINE t == times[n + 1]
  <2>2. t \in S /\ t \in Int /\ n + 1 \in 0..Len(times) /\ n + 1 # 0 /\ (n + 1) - 1 = n
    BY <1>0
  <2>3. kept[n + 1] = IF t > time THEN Append(kept[n], t) ELSE kept[n]
    BY <2>2 DEF IsKept
  <2>4. \A b \in Int : CountUpTo(times, n + 1, b)
                         = CountUpTo(times, n, b) + (IF t >= b THEN 1 ELSE 0)
    BY <2>2, CountOfNext
  <2>5. kept[n] \in Seq(S) /\ kept[n] \in Seq(Int)
    BY <2>1, SeqOfInts
  <2>6. \A b \in Int : CountUpTo(times, n, b) \in Nat
    BY CountsAre
  <2> HIDE DEF t
  <2>7. CASE t > time
    <3>1. kept[n + 1] = Append(kept[n], t)
      BY <2>3, <2>7
    <3>2. Append(kept[n], t) \in Seq(S) /\ Len(Append(kept[n], t)) = Len(kept[n]) + 1
      BY <2>2, <2>5
    <3>3. \A b \in Int : CountFrom(Append(kept[n], t), b)
                           = CountFrom(kept[n], b) + (IF t >= b THEN 1 ELSE 0)
      <4> PICK before \in Seq(Int) : before = kept[n]
        BY <2>5
      <4> PICK u \in Int : u = t
        BY <2>2
      <4>2. \A b \in Int :
              CountFrom(Append(before, u), b) = CountFrom(before, b) + (IF u >= b THEN 1 ELSE 0)
        BY AppendCounts
      <4> QED BY <4>2
    <3>4. CountUpTo(times, n + 1, time + 1) = CountUpTo(times, n, time + 1) + 1
      BY <2>2, <2>4, <2>7
    <3>5. \A b \in Int : b > time => CountFrom(kept[n + 1], b) = CountUpTo(times, n + 1, b)
      BY <2>1, <2>4, <3>1, <3>3
    <3> QED BY <2>1, <3>1, <3>2, <3>4, <3>5
  <2>8. CASE ~(t > time)
    <3>1. kept[n + 1] = kept[n]
      BY <2>3, <2>8
    <3>2. \A b \in Int : b > time => CountUpTo(times, n + 1, b) = CountUpTo(times, n, b)
      <4> TAKE b \in Int
      <4> HAVE b > time
      <4>1. ~(t >= b)
        BY <2>2, <2>8
      <4>2. CountUpTo(times, n + 1, b) = CountUpTo(times, n, b) + 0
        BY <2>4, <4>1
      <4> QED BY <2>6, <4>2
    <3>3. time + 1 \in Int /\ time + 1 > time
      OBVIOUS
    <3> QED BY <2>1, <3>1, <3>2, <3>3
  <2> QED BY <2>7, <2>8
<1>3. Nat \subseteq T
  <2> HIDE DEF T
  <2> QED BY <1>1, <1>2, InductionOverNat
<1>4. ASSUME NEW n \in 0..Len(times) PROVE Good(n)
  <2>1. n \in T /\ n <= Len(times)
    BY <1>0, <1>3
  <2> QED BY <2>1
<1> QED BY <1>4

(* What pruning keeps: as many as are later, and of the later ones each. *)
LEMMA LaterThanCounts ==
  ASSUME NEW time \in Int, NEW S, S \subseteq Int, NEW times \in Seq(S)
  PROVE  /\ LaterThan(time, times) \in Seq(S)
         /\ Len(LaterThan(time, times)) = CountFrom(times, time + 1)
         /\ \A b \in Int : b > time => CountFrom(LaterThan(time, times), b) = CountFrom(times, b)
<1> DEFINE n == Len(times)
<1>1. n \in Nat /\ n \in 0..n
  OBVIOUS
<1>2. PICK kept : IsKept(kept, time, times) /\ LaterThan(time, times) = kept[n]
  BY <1>1, KeptExists, LaterThanIs
<1>3. \A b : CountFrom(times, b) = CountUpTo(times, n, b)
  BY CountIsUpTo
<1> HIDE DEF n
<1>4. CountsKept(kept[n], n, time, S, times)
  <2>1. IsKept(kept, time, times)
    BY <1>2
  <2>2. n = Len(times)
    BY DEF n
  <2> QED BY <1>1, <2>1, <2>2, KeptCounts
<1> QED BY <1>2, <1>3, <1>4 DEF CountsKept

(* The times of a window, counted the same way. *)
TxTimes(window) == [i \in DOMAIN window |-> window[i].timestamp]

TxEntries == [timestamp : Int, status : {"success", "failure", "reverted"}, gas : Nat]

LEMMA TailCounts ==
  ASSUME NEW times \in Seq(Int), times # <<>>, NEW b \in Int
  PROVE  CountFrom(Tail(times), b) <= CountFrom(times, b)
<1> DEFINE n == Len(times)
           rest == Tail(times)
           S == {i \in 1..n : times[i] >= b}
           T == {i \in 1..(n - 1) : rest[i] >= b}
           f == [x \in S |-> x - 1]
           V == {f[x] : x \in S}
<1>1. n \in Nat \ {0} /\ DOMAIN times = 1..n /\ DOMAIN rest = 1..(n - 1)
      /\ \A i \in 1..(n - 1) : rest[i] = times[i + 1]
  OBVIOUS
<1>2. IsFiniteSet(S)
  <2>1. S \subseteq 1..n /\ IsFiniteSet(1..n)
    BY <1>1, FS_Interval
  <2> HIDE DEF S
  <2> QED BY <2>1, FS_Subset
<1>3. ASSUME NEW i \in T PROVE i \in V
  <2>1. i + 1 \in S /\ (i + 1) - 1 = i
    <3> HIDE DEF n, rest
    <3> QED BY <1>1, <1>3
  <2>2. f[i + 1] = i
    BY <2>1
  <2> HIDE DEF f, S
  <2> QED BY <2>1, <2>2
<1>4. IsFiniteSet(V) /\ Cardinality(V) <= Cardinality(S)
  <2> HIDE DEF f, S
  <2> QED BY <1>2, ValuesAreFinite
<1>5. Cardinality(T) <= Cardinality(V) /\ IsFiniteSet(T)
  <2> HIDE DEF V, T
  <2> QED BY <1>3, <1>4, FS_Subset
<1>6. Cardinality(T) \in Nat /\ Cardinality(V) \in Nat /\ Cardinality(S) \in Nat
  BY <1>2, <1>4, <1>5, FS_CardinalityType
<1>7. CountFrom(times, b) = Cardinality(S) /\ CountFrom(rest, b) = Cardinality(T)
  <2> HIDE DEF rest, n
  <2> QED BY <1>1 DEF CountFrom
<1> HIDE DEF S, T, V
<1> QED BY <1>4, <1>5, <1>6, <1>7

LEMMA TimesAre ==
  ASSUME NEW window \in Seq(TxEntries)
  PROVE  /\ TxTimes(window) \in Seq(Int) /\ Len(TxTimes(window)) = Len(window)
         /\ \A b \in Int : CountFrom(TxTimes(window), b) \in Nat
         /\ window # <<>> => BurstCount(window)
                                = CountFrom(TxTimes(window), Last(window).timestamp - BurstSpan)
<1> DEFINE n == Len(window)
           times == TxTimes(window)
<1>1. n \in Nat /\ DOMAIN window = 1..n /\ \A i \in 1..n : window[i] \in TxEntries
  OBVIOUS
<1>2. times = [i \in 1..n |-> window[i].timestamp]
  BY <1>1 DEF TxTimes
<1>3. \A i \in 1..n : times[i] = window[i].timestamp /\ times[i] \in Int
  BY <1>1, <1>2 DEF TxEntries
<1>4. times \in [1..n -> Int]
  BY <1>2, <1>3
<1>5. times \in Seq(Int) /\ Len(times) = n /\ DOMAIN times = 1..n
  <2> HIDE DEF n, times
  <2> QED BY <1>1, <1>4
<1>6. \A b \in Int : CountFrom(times, b) \in Nat
  <2> HIDE DEF n, times
  <2>1. 0 \in Int
    OBVIOUS
  <2> QED BY <1>5, <2>1, CountOfAppend
<1>7. ASSUME NEW b PROVE {i \in DOMAIN window : window[i].timestamp >= b}
                           = {i \in DOMAIN times : times[i] >= b}
  <2> HIDE DEF n, times
  <2> QED BY <1>1, <1>3, <1>5
<1>8. BurstCount(window) = CountFrom(times, Last(window).timestamp - BurstSpan)
  BY <1>7, Zenon DEF BurstCount, CountFrom
<1> QED BY <1>5, <1>6, <1>8

LEMMA TailIs ==
  ASSUME NEW S, NEW s \in Seq(S), s # <<>>
  PROVE  /\ Tail(s) \in Seq(S) /\ Len(Tail(s)) = Len(s) - 1 /\ Len(s) \in Nat \ {0}
         /\ Tail(s) = [i \in 1..(Len(s) - 1) |-> s[i + 1]]
<1>1. Tail(s) \in Seq(S)
  OBVIOUS
<1>2. Len(Tail(s)) = Len(s) - 1 /\ Len(s) \in Nat \ {0}
  OBVIOUS
<1>3. \A i \in 1..(Len(s) - 1) : Tail(s)[i] = s[i + 1]
  OBVIOUS
<1>4. Tail(s) = [i \in 1..(Len(s) - 1) |-> Tail(s)[i]]
  <2>1. PICK t \in Seq(S) : t = Tail(s)
    BY <1>1
  <2>2. t = [i \in 1..Len(t) |-> t[i]]
    OBVIOUS
  <2> QED BY <1>2, <2>1, <2>2
<1> QED BY <1>1, <1>2, <1>3, <1>4

(* A transaction more in a window: at most one more is as late as any time. *)
LEMMA RolledIs ==
  ASSUME NEW window \in Seq(TxEntries), NEW tx, tx.timestamp \in Int, tx.gas \in Nat,
         tx.status \in {"success", "failure", "reverted"}
  PROVE  /\ Rolled(window, tx) \in Seq(TxEntries)
         /\ Rolled(window, tx) # <<>>
         /\ Last(Rolled(window, tx)).timestamp = tx.timestamp
         /\ \A b \in Int :
              CountFrom(TxTimes(Rolled(window, tx)), b)
                <= CountFrom(TxTimes(window), b) + (IF tx.timestamp >= b THEN 1 ELSE 0)
<1> DEFINE entry == [timestamp |-> tx.timestamp, status |-> tx.status, gas |-> tx.gas]
           longer == Append(window, entry)
           times == TxTimes(window)
<1>1. entry \in TxEntries /\ entry.timestamp = tx.timestamp
  BY DEF TxEntries
<1> HIDE DEF entry
<1>2. /\ longer \in Seq(TxEntries) /\ Len(longer) = Len(window) + 1 /\ Len(longer) \in Nat
      /\ longer[Len(longer)] = entry /\ longer # <<>> /\ Len(window) \in Nat
  BY <1>1
<1>3. TxTimes(longer) = Append(times, tx.timestamp)
  <2>1. DOMAIN window = 1..Len(window) /\ DOMAIN longer = 1..(Len(window) + 1)
        /\ \A i \in 1..Len(window) : longer[i] = window[i]
    BY <1>1
  <2>2. times \in Seq(Int) /\ Len(times) = Len(window)
    BY TimesAre
  <2>3. Append(times, tx.timestamp) = [i \in 1..(Len(window) + 1) |->
                                         IF i = Len(window) + 1 THEN tx.timestamp ELSE times[i]]
    <3> HIDE DEF times
    <3> QED BY <2>2
  <2>4. \A i \in 1..Len(window) : times[i] = window[i].timestamp
    BY <2>1 DEF TxTimes
  <2>5. TxTimes(longer) = [i \in 1..(Len(window) + 1) |-> longer[i].timestamp]
    BY <2>1 DEF TxTimes
  <2>6. \A i \in 1..(Len(window) + 1) :
          longer[i].timestamp = IF i = Len(window) + 1 THEN tx.timestamp ELSE times[i]
    <3> HIDE DEF longer, times
    <3> QED BY <1>1, <1>2, <2>1, <2>4
  <2> HIDE DEF longer, times
  <2> QED BY <2>3, <2>5, <2>6
<1>4. \A b \in Int : CountFrom(TxTimes(longer), b)
                       = CountFrom(times, b) + (IF tx.timestamp >= b THEN 1 ELSE 0)
  <2>1. times \in Seq(Int)
    BY TimesAre
  <2> HIDE DEF longer, times
  <2> QED BY <1>3, <2>1, AppendCounts
<1>5. CASE ~(Len(longer) > RollingSize)
  <2>1. Rolled(window, tx) = longer
    BY <1>5 DEF Rolled, entry
  <2>2. \A b \in Int : CountFrom(times, b) \in Nat
    BY TimesAre
  <2> HIDE DEF longer, times
  <2>3. \A b \in Int : CountFrom(TxTimes(longer), b)
                         <= CountFrom(times, b) + (IF tx.timestamp >= b THEN 1 ELSE 0)
    <3> TAKE b \in Int
    <3>1. CountFrom(TxTimes(longer), b) = CountFrom(times, b) + (IF tx.timestamp >= b THEN 1 ELSE 0)
      BY <1>4
    <3>2. CountFrom(times, b) \in Int
      BY <2>2
    <3> QED BY <3>1, <3>2
  <2> QED BY <1>1, <1>2, <2>1, <2>3 DEF Last, times
<1>6. CASE Len(longer) > RollingSize
  <2>1. Rolled(window, tx) = Tail(longer)
    BY <1>6 DEF Rolled, entry
  <2>2. Len(longer) > 1
    BY <1>2, <1>6, TransactionRecordingAssumption
  <2> HIDE DEF longer
  <2>3. /\ Tail(longer) \in Seq(TxEntries) /\ Len(Tail(longer)) = Len(longer) - 1
        /\ Tail(longer) = [i \in 1..(Len(longer) - 1) |-> longer[i + 1]]
    BY <1>2, TailIs
  <2>4. Tail(longer) # <<>> /\ Last(Tail(longer)) = entry
    <3>1. Tail(longer)[Len(longer) - 1] = longer[(Len(longer) - 1) + 1]
      BY <1>2, <2>2, <2>3
    <3>2. Tail(longer) # <<>>
      BY <2>2, <2>3, <1>2
    <3> QED BY <1>2, <2>3, <3>1, <3>2 DEF Last
  <2>5. TxTimes(longer) \in Seq(Int) /\ Len(TxTimes(longer)) = Len(longer)
    BY <1>2, TimesAre
  <2>6. TxTimes(longer) # <<>>
    BY <1>2, <2>2, <2>5
  <2>7. TxTimes(Tail(longer)) = Tail(TxTimes(longer))
    <3>1. TxTimes(Tail(longer)) = [i \in 1..(Len(longer) - 1) |-> longer[i + 1].timestamp]
      <4>1. DOMAIN Tail(longer) = 1..(Len(longer) - 1)
        BY <2>3
      <4>2. \A i \in 1..(Len(longer) - 1) : Tail(longer)[i] = longer[i + 1]
        BY <2>3
      <4> QED BY <4>1, <4>2 DEF TxTimes
    <3>2. Tail(TxTimes(longer)) = [i \in 1..(Len(longer) - 1) |-> TxTimes(longer)[i + 1]]
      BY <2>5, <2>6, TailIs
    <3>3. \A i \in 1..Len(longer) : TxTimes(longer)[i] = longer[i].timestamp
      BY <1>2 DEF TxTimes
    <3>4. \A i \in 1..(Len(longer) - 1) : TxTimes(longer)[i + 1] = longer[i + 1].timestamp
      BY <1>2, <3>3
    <3> QED BY <3>1, <3>2, <3>4
  <2>8. \A b \in Int : CountFrom(Tail(TxTimes(longer)), b) <= CountFrom(TxTimes(longer), b)
    BY <2>5, <2>6, TailCounts
  <2>9. \A b \in Int : CountFrom(times, b) \in Nat
    BY TimesAre
  <2>10. \A b \in Int : CountFrom(TxTimes(Tail(longer)), b) \in Nat
    BY <2>3, TimesAre
  <2> HIDE DEF times
  <2>11. \A b \in Int : CountFrom(TxTimes(Tail(longer)), b)
                         <= CountFrom(times, b) + (IF tx.timestamp >= b THEN 1 ELSE 0)
    <3> TAKE b \in Int
    <3>1. CountFrom(TxTimes(longer), b) = CountFrom(times, b) + (IF tx.timestamp >= b THEN 1 ELSE 0)
      BY <1>4
    <3> QED BY <2>7, <2>8, <2>9, <2>10, <3>1
  <2> QED BY <1>1, <2>1, <2>3, <2>4, <2>11 DEF times
<1> QED BY <1>5, <1>6

-----------------------------------------------------------------------------

TxRequests ==
  [step : {"idle", "save", "saved"}, chain : TxChains \cup {0}, timestamp : Int,
   status : {"success", "failure", "reverted"}, gas : Nat]

TxTypeOK ==
  /\ timestamps \in Seq(Nat)
  /\ windows \in [TxChains -> Seq(TxEntries)]
  /\ txCalls \in [TxCalls -> TxRequests]
  /\ \A k \in TxCalls : txCalls[k].step # "idle" => txCalls[k].chain \in TxChains
  /\ clock \in Nat /\ overlapped \in BOOLEAN
  /\ lastAlert \in [type : {"none", "burst", "failures", "gas"}, size : Nat, overlapped : BOOLEAN]

UnderWay == {k \in TxCalls : txCalls[k].step # "idle"}

Late(chain, b) == CountFrom(TxTimes(windows[chain]), b)

(* What a request that passed the check may still add, on top of what is counted. *)
AdmittedBounded ==
  /\ CountFrom(timestamps, clock - Minute + 1) + Cardinality(UnderWay)
       <= PerMinute + Cardinality(TxCalls) - 1
  /\ CountFrom(timestamps, clock - Hour + 1) + Cardinality(UnderWay)
       <= PerHour + Cardinality(TxCalls) - 1

(* Without overlap and with the database's times only: what the detection looks at *)
(* was counted, and there is room in the minute for the one request under way.     *)
NeverTwoRecordings ==
  /\ \A j, k \in UnderWay : j = k
  /\ \A c \in TxChains : \A b \in Int :
       b > clock - Hour => Late(c, b) <= CountFrom(timestamps, b)
  /\ \A k \in TxCalls : txCalls[k].step = "save" =>
       /\ txCalls[k].timestamp = -1
       /\ \A c \in TxChains : Late(c, clock - BurstSpan) <= PerMinute - 1
  /\ \A k \in TxCalls : txCalls[k].step = "saved" =>
       /\ txCalls[k].timestamp \in 0..clock
       /\ Late(txCalls[k].chain, txCalls[k].timestamp - BurstSpan) <= PerMinute - 1

TxInv ==
  /\ TxTypeOK
  /\ AdmittedBounded
  /\ ~overlapped => NeverTwoRecordings
  /\ BurstsWithinLimit

LEMMA SpansAre ==
  /\ Minute \in Nat /\ Hour \in Nat /\ BurstSpan \in Nat /\ PerMinute \in Nat /\ PerHour \in Nat
  /\ 0 < Minute /\ Minute <= Hour /\ BurstSpan < Minute /\ 0 < PerMinute /\ 0 < PerHour
  /\ Cardinality(TxCalls) \in Nat /\ IsFiniteSet(TxCalls)
<1>1. IsFiniteSet(TxCalls) /\ Cardinality(TxCalls) \in Nat
  BY TransactionRecordingAssumption, FS_CardinalityType
<1> QED BY <1>1, TransactionRecordingAssumption

LEMMA WithinIs ==
  ASSUME TxTypeOK, NEW span \in Nat
  PROVE  /\ Within(timestamps, span) \in Seq(Nat)
         /\ Len(Within(timestamps, span)) = CountFrom(timestamps, clock - span + 1)
         /\ \A b \in Int : b > clock - span =>
              CountFrom(Within(timestamps, span), b) = CountFrom(timestamps, b)
<1> DEFINE time == clock - span
<1>1. time \in Int /\ Nat \subseteq Int /\ timestamps \in Seq(Nat)
  BY DEF TxTypeOK
<1> HIDE DEF time
<1>2. /\ LaterThan(time, timestamps) \in Seq(Nat)
      /\ Len(LaterThan(time, timestamps)) = CountFrom(timestamps, time + 1)
      /\ \A b \in Int : b > time => CountFrom(LaterThan(time, timestamps), b) = CountFrom(timestamps, b)
  BY <1>1, LaterThanCounts
<1> QED BY <1>2 DEF Within, time

LEMMA CountsAreNatural ==
  ASSUME TxTypeOK
  PROVE  /\ timestamps \in Seq(Int)
         /\ \A b \in Int : CountFrom(timestamps, b) \in Nat
         /\ \A c \in TxChains : TxTimes(windows[c]) \in Seq(Int) /\ \A b \in Int : Late(c, b) \in Nat
<1>1. timestamps \in Seq(Int)
  BY SeqOfInts DEF TxTypeOK
<1>2. \A b \in Int : CountFrom(timestamps, b) \in Nat
  <2>1. 0 \in Int
    OBVIOUS
  <2> QED BY <1>1, <2>1, CountOfAppend
<1>3. ASSUME NEW c \in TxChains
      PROVE  TxTimes(windows[c]) \in Seq(Int) /\ \A b \in Int : Late(c, b) \in Nat
  <2>1. windows[c] \in Seq(TxEntries)
    BY DEF TxTypeOK
  <2> QED BY <2>1, TimesAre DEF Late
<1> QED BY <1>1, <1>2, <1>3

LEMMA UnderWayIs ==
  IsFiniteSet(UnderWay) /\ Cardinality(UnderWay) \in Nat
    /\ Cardinality(UnderWay) <= Cardinality(TxCalls)
<1>1. UnderWay \subseteq TxCalls
  BY DEF UnderWay
<1> QED BY <1>1, SpansAre, FS_Subset, FS_CardinalityType

LEMMA TxInitially == TxInit => TxInv
<1> SUFFICES ASSUME TxInit PROVE TxInv
  OBVIOUS
<1>1. TxTypeOK
  <2>0. << >> \in Seq(Nat) /\ << >> \in Seq(TxEntries)
    OBVIOUS
  <2>1. timestamps \in Seq(Nat) /\ clock \in Nat /\ overlapped \in BOOLEAN
    BY <2>0 DEF TxInit
  <2>2. windows \in [TxChains -> Seq(TxEntries)]
    BY <2>0 DEF TxInit
  <2>3. IdleTx \in TxRequests
    <3>1. 0 \in TxChains \cup {0} /\ 0 \in Int /\ 0 \in Nat
      OBVIOUS
    <3> QED BY <3>1 DEF IdleTx, TxRequests
  <2>4. \A k \in TxCalls : txCalls[k] = IdleTx
    BY DEF TxInit
  <2>5. txCalls \in [TxCalls -> TxRequests]
    BY <2>3 DEF TxInit
  <2>6. lastAlert \in [type : {"none", "burst", "failures", "gas"}, size : Nat, overlapped : BOOLEAN]
    BY DEF TxInit, NoAlertYet
  <2> QED BY <2>1, <2>2, <2>4, <2>5, <2>6 DEF TxTypeOK, IdleTx
<1>2. UnderWay = {} /\ Cardinality(UnderWay) = 0
  <2>1. UnderWay = {}
    BY DEF TxInit, UnderWay, IdleTx
  <2> QED BY <2>1, FS_EmptySet
<1>3. \A b : CountFrom(timestamps, b) = 0
  BY CountOfNone DEF TxInit
<1>4. \A c \in TxChains : \A b : Late(c, b) = 0
  <2>1. \A c \in TxChains : TxTimes(windows[c]) = <<>>
    BY DEF TxInit, TxTimes
  <2> QED BY <2>1, CountOfNone DEF Late
<1>5. AdmittedBounded
  BY <1>2, <1>3, SpansAre DEF AdmittedBounded
<1>6. NeverTwoRecordings
  <2>1. \A k \in TxCalls : txCalls[k].step = "idle"
    BY DEF TxInit, IdleTx
  <2> QED BY <1>2, <1>3, <1>4, <2>1 DEF NeverTwoRecordings
<1>7. BurstsWithinLimit
  BY DEF TxInit, NoAlertYet, BurstsWithinLimit
<1> QED BY <1>1, <1>5, <1>6, <1>7 DEF TxInv

(* The clock, or only what a request waits for, moves: the counts do not. *)
LEMMA TxTick ==
  ASSUME TxInv, TickTx PROVE TxInv'
<1> USE DEF TxInv, TickTx
<1>1. /\ clock' = clock + 1 /\ timestamps' = timestamps /\ windows' = windows /\ txCalls' = txCalls
      /\ lastAlert' = lastAlert /\ overlapped' = overlapped /\ clock \in Nat
  BY DEF TxTypeOK
<1>2. TxTypeOK'
  BY <1>1 DEF TxTypeOK
<1>3. UnderWay' = UnderWay /\ \A c, b : Late(c, b)' = Late(c, b)
  BY <1>1 DEF UnderWay, Late
<1>4. AdmittedBounded'
  <2>1. clock - Minute + 1 \in Int /\ clock + 1 - Minute + 1 \in Int
        /\ clock - Hour + 1 \in Int /\ clock + 1 - Hour + 1 \in Int
    BY <1>1, SpansAre
  <2>2. CountFrom(timestamps, clock + 1 - Minute + 1) <= CountFrom(timestamps, clock - Minute + 1)
    BY <1>1, <2>1, SpansAre, CountsAreNatural, CountsShrink
  <2>3. CountFrom(timestamps, clock + 1 - Hour + 1) <= CountFrom(timestamps, clock - Hour + 1)
    BY <1>1, <2>1, SpansAre, CountsAreNatural, CountsShrink
  <2>4. \A b \in Int : CountFrom(timestamps, b) \in Nat
    BY CountsAreNatural
  <2>5. AdmittedBounded
    OBVIOUS
  <2> QED BY <1>1, <1>3, <2>1, <2>2, <2>3, <2>4, <2>5, SpansAre, UnderWayIs DEF AdmittedBounded
<1>5. ASSUME ~overlapped' PROVE NeverTwoRecordings'
  <2> PICK next \in Nat : next = clock + 1
    BY <1>1
  <2>0. clock' = next
    BY <1>1
  <2>1. NeverTwoRecordings
    BY <1>1, <1>5
  <2>2. ASSUME NEW c \in TxChains PROVE Late(c, next - BurstSpan) <= Late(c, clock - BurstSpan)
    <3>1. TxTimes(windows[c]) \in Seq(Int)
      BY CountsAreNatural
    <3>2. clock - BurstSpan \in Int /\ next - BurstSpan \in Int
          /\ clock - BurstSpan <= next - BurstSpan
      BY <1>1, SpansAre
    <3> QED BY <3>1, <3>2, CountsShrink DEF Late
  <2>3. \A k \in TxCalls : txCalls[k].step = "save" =>
          \A c \in TxChains : Late(c, next - BurstSpan) <= PerMinute - 1
    <3>1. \A c \in TxChains : Late(c, clock - BurstSpan) \in Nat /\ Late(c, next - BurstSpan) \in Nat
      <4>1. clock - BurstSpan \in Int /\ next - BurstSpan \in Int
        BY <1>1, SpansAre
      <4> QED BY <4>1, CountsAreNatural
    <3> QED BY <2>1, <2>2, <3>1, SpansAre DEF NeverTwoRecordings
  <2>4. \A b \in Int : b > next - Hour => b > clock - Hour
    BY <1>1, SpansAre
  <2>5. \A t \in 0..clock : t \in 0..next
    BY <1>1
  <2>6. (\A i, j \in UnderWay : i = j)'
    BY <1>3, <2>1 DEF NeverTwoRecordings
  <2>7. \A c \in TxChains : \A b \in Int :
          b > next - Hour => Late(c, b) <= CountFrom(timestamps, b)
    BY <2>1, <2>4 DEF NeverTwoRecordings
  <2>8. \A k \in TxCalls : txCalls[k].step = "save" => txCalls[k].timestamp = -1
    BY <2>1 DEF NeverTwoRecordings
  <2>9. \A k \in TxCalls : txCalls[k].step = "saved" =>
          /\ txCalls[k].timestamp \in 0..next
          /\ Late(txCalls[k].chain, txCalls[k].timestamp - BurstSpan) <= PerMinute - 1
    BY <2>1, <2>5 DEF NeverTwoRecordings
  <2>10. (\A c \in TxChains : \A b \in Int :
            b > clock - Hour => Late(c, b) <= CountFrom(timestamps, b))'
    BY <1>1, <1>3, <2>0, <2>7
  <2>11. (\A k \in TxCalls : txCalls[k].step = "save" =>
            /\ txCalls[k].timestamp = -1
            /\ \A c \in TxChains : Late(c, clock - BurstSpan) <= PerMinute - 1)'
    BY <1>1, <1>3, <2>0, <2>3, <2>8
  <2>12. (\A k \in TxCalls : txCalls[k].step = "saved" =>
            /\ txCalls[k].timestamp \in 0..clock
            /\ Late(txCalls[k].chain, txCalls[k].timestamp - BurstSpan) <= PerMinute - 1)'
    BY <1>1, <1>3, <2>0, <2>9
  <2> QED BY <2>6, <2>10, <2>11, <2>12 DEF NeverTwoRecordings
<1> QED BY <1>1, <1>2, <1>4, <1>5 DEF BurstsWithinLimit

LEMMA TxRefuse ==
  ASSUME TxInv, Refuse PROVE TxInv'
<1> USE DEF TxInv
<1>1. /\ timestamps' = Within(timestamps, Hour) /\ clock' = clock /\ windows' = windows
      /\ txCalls' = txCalls /\ lastAlert' = lastAlert /\ overlapped' = overlapped
  BY DEF Refuse
<1>2. /\ timestamps' \in Seq(Nat)
      /\ \A b \in Int : b > clock - Hour => CountFrom(timestamps', b) = CountFrom(timestamps, b)
  BY <1>1, SpansAre, WithinIs
<1>3. TxTypeOK'
  BY <1>1, <1>2 DEF TxTypeOK
<1>4. UnderWay' = UnderWay /\ \A c, b : Late(c, b)' = Late(c, b)
  BY <1>1 DEF UnderWay, Late
<1>5. AdmittedBounded'
  <2>1. clock - Minute + 1 \in Int /\ clock - Hour + 1 \in Int
        /\ clock - Minute + 1 > clock - Hour /\ clock - Hour + 1 > clock - Hour
    BY SpansAre DEF TxTypeOK
  <2>2. CountFrom(timestamps', clock - Minute + 1) = CountFrom(timestamps, clock - Minute + 1)
        /\ CountFrom(timestamps', clock - Hour + 1) = CountFrom(timestamps, clock - Hour + 1)
    BY <1>2, <2>1
  <2> QED BY <1>1, <1>4, <2>2 DEF AdmittedBounded
<1>6. ASSUME ~overlapped' PROVE NeverTwoRecordings'
  BY <1>1, <1>2, <1>4, <1>6 DEF NeverTwoRecordings
<1> QED BY <1>1, <1>3, <1>5, <1>6 DEF BurstsWithinLimit

LEMMA TxRecord ==
  ASSUME TxInv, NEW k \in TxCalls, Record(k) PROVE TxInv'
<1> USE DEF TxInv
<1>1. PICK c \in TxChains, t \in {-1} \cup 0..clock, o \in Outcomes :
        /\ txCalls' = [txCalls EXCEPT ![k] =
             [step |-> "save", chain |-> c, timestamp |-> t, status |-> o.status, gas |-> o.gas]]
        /\ overlapped' = (overlapped \/ t >= 0 \/ \E j \in TxCalls : txCalls[j].step # "idle")
  BY DEF Record
<1>2. /\ txCalls[k].step = "idle" /\ WithinLimits /\ timestamps' = Within(timestamps, Hour)
      /\ clock' = clock /\ windows' = windows /\ lastAlert' = lastAlert
  BY DEF Record
<1>3. clock \in Nat /\ t \in Int /\ -1 \in Int
  BY DEF TxTypeOK
<1>4. /\ timestamps' \in Seq(Nat)
      /\ \A b \in Int : b > clock - Hour => CountFrom(timestamps', b) = CountFrom(timestamps, b)
  BY <1>2, SpansAre, WithinIs
<1>5. TxTypeOK'
  <2>1. [step |-> "save", chain |-> c, timestamp |-> t, status |-> o.status, gas |-> o.gas] \in TxRequests
    <3>1. o \in [status : {"success", "failure", "reverted"}, gas : Nat]
      BY TransactionRecordingAssumption
    <3> QED BY <1>3, <3>1 DEF TxRequests
  <2>2. txCalls' \in [TxCalls -> TxRequests]
    BY <1>1, <2>1 DEF TxTypeOK
  <2>3. \A j \in TxCalls : txCalls'[j].step # "idle" => txCalls'[j].chain \in TxChains
    BY <1>1 DEF TxTypeOK
  <2>4. overlapped' \in BOOLEAN
    BY <1>1
  <2> QED BY <1>2, <1>4, <2>2, <2>3, <2>4 DEF TxTypeOK
<1>6. \A j, b : Late(j, b)' = Late(j, b)
  BY <1>2 DEF Late
<1>7. CountFrom(timestamps, clock - Minute + 1) < PerMinute /\ CountFrom(timestamps, clock - Hour + 1) < PerHour
  BY <1>2, SpansAre, WithinIs DEF WithinLimits
<1>8. clock - Minute + 1 \in Int /\ clock - Hour + 1 \in Int
      /\ clock - Minute + 1 > clock - Hour /\ clock - Hour + 1 > clock - Hour
  BY <1>3, SpansAre
<1>9. \A b \in Int : CountFrom(timestamps, b) \in Nat
  BY CountsAreNatural
<1>10. AdmittedBounded'
  <2>1. CountFrom(timestamps', clock - Minute + 1) = CountFrom(timestamps, clock - Minute + 1)
        /\ CountFrom(timestamps', clock - Hour + 1) = CountFrom(timestamps, clock - Hour + 1)
    BY <1>4, <1>8
  <2>2. Cardinality(UnderWay') \in Nat /\ Cardinality(UnderWay') <= Cardinality(TxCalls)
    <3>1. UnderWay' \subseteq TxCalls
      BY DEF UnderWay
    <3> QED BY <3>1, SpansAre, FS_Subset, FS_CardinalityType
  <2>3. CountFrom(timestamps, clock - Minute + 1) \in Nat /\ CountFrom(timestamps, clock - Hour + 1) \in Nat
    BY <1>8, <1>9
  <2> QED BY <1>2, <1>7, <2>1, <2>2, <2>3, SpansAre DEF AdmittedBounded
<1>11. ASSUME ~overlapped' PROVE NeverTwoRecordings'
  <2>1. ~overlapped /\ t = -1 /\ \A j \in TxCalls : txCalls[j].step = "idle"
    <3>1. t = -1 \/ t >= 0
      BY <1>3
    <3>2. ~(t >= 0)
      BY <1>1, <1>11
    <3> QED BY <1>1, <1>11, <3>1, <3>2
  <2>2. NeverTwoRecordings
    BY <2>1
  <2>3. \A j \in TxCalls : /\ j # k => txCalls'[j].step = "idle"
                           /\ j = k => txCalls'[j].step = "save" /\ txCalls'[j].timestamp = -1
    BY <1>1, <2>1 DEF TxTypeOK
  <2>4. ASSUME NEW d \in TxChains PROVE Late(d, clock - BurstSpan) <= PerMinute - 1
    <3>1. clock - BurstSpan \in Int /\ clock - BurstSpan > clock - Hour
          /\ clock - Minute + 1 <= clock - BurstSpan
      BY <1>3, SpansAre
    <3>2. Late(d, clock - BurstSpan) <= CountFrom(timestamps, clock - BurstSpan)
      BY <2>2, <3>1 DEF NeverTwoRecordings
    <3>3. CountFrom(timestamps, clock - BurstSpan) <= CountFrom(timestamps, clock - Minute + 1)
      BY <1>8, <3>1, CountsAreNatural, CountsShrink
    <3>4. Late(d, clock - BurstSpan) \in Nat /\ CountFrom(timestamps, clock - BurstSpan) \in Nat
          /\ CountFrom(timestamps, clock - Minute + 1) \in Nat
      BY <1>8, <3>1, CountsAreNatural
    <3> QED BY <1>7, <3>2, <3>3, <3>4, SpansAre
  <2>5. (\A i, j \in UnderWay : i = j)'
    BY <2>3 DEF UnderWay
  <2>6. \A d \in TxChains : \A b \in Int : b > clock - Hour => Late(d, b) <= CountFrom(timestamps', b)
    BY <1>4, <2>2 DEF NeverTwoRecordings
  <2> QED BY <1>2, <1>6, <2>3, <2>4, <2>5, <2>6 DEF NeverTwoRecordings
<1> QED BY <1>2, <1>5, <1>10, <1>11 DEF BurstsWithinLimit

LEMMA TxInsert ==
  ASSUME TxInv, NEW k \in TxCalls, Insert(k) PROVE TxInv'
<1> USE DEF TxInv
<1>1. /\ txCalls[k].step = "save" /\ timestamps' = timestamps /\ windows' = windows /\ clock' = clock
      /\ lastAlert' = lastAlert /\ overlapped' = overlapped /\ clock \in Nat
  BY DEF Insert, TxTypeOK
<1>2. PICK t \in Int : t = IF txCalls[k].timestamp = -1 THEN clock ELSE txCalls[k].timestamp
  <2>1. txCalls[k].timestamp \in Int /\ clock \in Int
    BY DEF TxTypeOK, TxRequests
  <2> QED BY <2>1
<1>3. txCalls' = [txCalls EXCEPT ![k] = [txCalls[k] EXCEPT !.step = "saved", !.timestamp = t]]
  BY <1>2 DEF Insert, TxTypeOK
<1>4. /\ \A j \in TxCalls \ {k} : txCalls'[j] = txCalls[j]
      /\ txCalls'[k].step = "saved" /\ txCalls'[k].timestamp = t
      /\ txCalls'[k].chain = txCalls[k].chain
  BY <1>3 DEF TxTypeOK, TxRequests
<1>5. TxTypeOK'
  <2>1. [txCalls[k] EXCEPT !.step = "saved", !.timestamp = t] \in TxRequests
    BY DEF TxTypeOK, TxRequests
  <2>2. txCalls' \in [TxCalls -> TxRequests]
    BY <1>3, <2>1 DEF TxTypeOK
  <2>3. \A j \in TxCalls : txCalls'[j].step # "idle" => txCalls'[j].chain \in TxChains
    BY <1>1, <1>4 DEF TxTypeOK
  <2> QED BY <1>1, <2>2, <2>3 DEF TxTypeOK
<1>6. UnderWay' = UnderWay /\ \A c, b : Late(c, b)' = Late(c, b)
  BY <1>1, <1>4 DEF UnderWay, Late
<1>7. AdmittedBounded'
  BY <1>1, <1>6 DEF AdmittedBounded
<1>8. ASSUME ~overlapped' PROVE NeverTwoRecordings'
  <2>1. NeverTwoRecordings
    BY <1>1, <1>8
  <2>2. t = clock /\ t \in 0..clock /\ \A c \in TxChains : Late(c, clock - BurstSpan) <= PerMinute - 1
    BY <1>1, <1>2, <2>1 DEF NeverTwoRecordings
  <2>3. txCalls[k].chain \in TxChains
    BY <1>1 DEF TxTypeOK
  <2>4. (\A i, j \in UnderWay : i = j)'
    BY <1>6, <2>1 DEF NeverTwoRecordings
  <2>5. (\A c \in TxChains : \A b \in Int :
           b > clock - Hour => Late(c, b) <= CountFrom(timestamps, b))'
    BY <1>1, <1>6, <2>1 DEF NeverTwoRecordings
  <2>6. (\A j \in TxCalls : txCalls[j].step = "save" =>
           /\ txCalls[j].timestamp = -1
           /\ \A c \in TxChains : Late(c, clock - BurstSpan) <= PerMinute - 1)'
    BY <1>1, <1>4, <1>6, <2>1 DEF NeverTwoRecordings
  <2>7. (\A j \in TxCalls : txCalls[j].step = "saved" =>
           /\ txCalls[j].timestamp \in 0..clock
           /\ Late(txCalls[j].chain, txCalls[j].timestamp - BurstSpan) <= PerMinute - 1)'
    BY <1>1, <1>4, <1>6, <2>1, <2>2, <2>3 DEF NeverTwoRecordings
  <2> QED BY <2>4, <2>5, <2>6, <2>7 DEF NeverTwoRecordings
<1> QED BY <1>1, <1>5, <1>7, <1>8 DEF BurstsWithinLimit

(* A request that ends is one less under way. *)
LEMMA TxEnds ==
  ASSUME TxTypeOK, NEW k \in TxCalls, txCalls[k].step # "idle",
         txCalls' = [txCalls EXCEPT ![k] = IdleTx]
  PROVE  /\ txCalls' \in [TxCalls -> TxRequests]
         /\ \A j \in TxCalls : txCalls'[j].step # "idle" => txCalls'[j].chain \in TxChains
         /\ \A j \in TxCalls : txCalls'[j].step # "idle" => j # k /\ txCalls'[j] = txCalls[j]
         /\ UnderWay' \subseteq UnderWay
         /\ Cardinality(UnderWay') = Cardinality(UnderWay) - 1
<1>1. IdleTx \in TxRequests /\ IdleTx.step = "idle"
  <2>1. 0 \in TxChains \cup {0} /\ 0 \in Int /\ 0 \in Nat
    OBVIOUS
  <2> QED BY <2>1 DEF IdleTx, TxRequests
<1>2. txCalls' \in [TxCalls -> TxRequests]
  BY <1>1 DEF TxTypeOK
<1>3. \A j \in TxCalls : txCalls'[j].step # "idle" => j # k /\ txCalls'[j] = txCalls[j]
  BY <1>1 DEF TxTypeOK
<1>4. UnderWay' = UnderWay \ {k} /\ k \in UnderWay
  <2>1. \A j \in TxCalls : txCalls'[j] = IF j = k THEN IdleTx ELSE txCalls[j]
    BY DEF TxTypeOK
  <2> QED BY <1>1, <2>1 DEF UnderWay
<1>5. Cardinality(UnderWay') = Cardinality(UnderWay) - 1
  BY <1>4, UnderWayIs, FS_RemoveElement
<1> QED BY <1>2, <1>3, <1>4, <1>5 DEF TxTypeOK

LEMMA TxFail ==
  ASSUME TxInv, NEW k \in TxCalls, FailSave(k) PROVE TxInv'
<1> USE DEF TxInv
<1>1. /\ txCalls[k].step # "idle" /\ txCalls' = [txCalls EXCEPT ![k] = IdleTx]
      /\ timestamps' = timestamps /\ windows' = windows /\ clock' = clock
      /\ lastAlert' = lastAlert /\ overlapped' = overlapped
  BY DEF FailSave
<1>2. /\ txCalls' \in [TxCalls -> TxRequests]
      /\ \A j \in TxCalls : txCalls'[j].step # "idle" => txCalls'[j].chain \in TxChains
      /\ \A j \in TxCalls : txCalls'[j].step # "idle" => j # k /\ txCalls'[j] = txCalls[j]
      /\ UnderWay' \subseteq UnderWay
      /\ Cardinality(UnderWay') = Cardinality(UnderWay) - 1
  BY <1>1, TxEnds
<1>3. TxTypeOK'
  BY <1>1, <1>2 DEF TxTypeOK
<1>4. \A c, b : Late(c, b)' = Late(c, b)
  BY <1>1 DEF Late
<1>5. AdmittedBounded'
  <2>1. clock - Minute + 1 \in Int /\ clock - Hour + 1 \in Int
    BY SpansAre DEF TxTypeOK
  <2>2. CountFrom(timestamps, clock - Minute + 1) \in Nat /\ CountFrom(timestamps, clock - Hour + 1) \in Nat
    BY <2>1, CountsAreNatural
  <2> QED BY <1>1, <1>2, <2>2, SpansAre, UnderWayIs DEF AdmittedBounded
<1>6. ASSUME ~overlapped' PROVE NeverTwoRecordings'
  <2>1. NeverTwoRecordings
    BY <1>1, <1>6
  <2>2. (\A i, j \in UnderWay : i = j)'
    BY <1>2, <2>1 DEF NeverTwoRecordings
  <2>3. (\A c \in TxChains : \A b \in Int :
           b > clock - Hour => Late(c, b) <= CountFrom(timestamps, b))'
    BY <1>1, <1>4, <2>1 DEF NeverTwoRecordings
  <2>4. (\A j \in TxCalls : txCalls[j].step = "save" =>
           /\ txCalls[j].timestamp = -1
           /\ \A c \in TxChains : Late(c, clock - BurstSpan) <= PerMinute - 1)'
    BY <1>1, <1>2, <1>4, <2>1 DEF NeverTwoRecordings
  <2>5. (\A j \in TxCalls : txCalls[j].step = "saved" =>
           /\ txCalls[j].timestamp \in 0..clock
           /\ Late(txCalls[j].chain, txCalls[j].timestamp - BurstSpan) <= PerMinute - 1)'
    BY <1>1, <1>2, <1>4, <2>1 DEF NeverTwoRecordings
  <2> QED BY <2>2, <2>3, <2>4, <2>5 DEF NeverTwoRecordings
<1> QED BY <1>1, <1>3, <1>5, <1>6 DEF BurstsWithinLimit

LEMMA TxRestart ==
  ASSUME TxInv, RestartTx PROVE TxInv'
<1> USE DEF TxInv
<1>1. /\ timestamps' = <<>> /\ windows' = [c \in TxChains |-> <<>>]
      /\ txCalls' = [k \in TxCalls |-> IdleTx] /\ overlapped' = FALSE /\ clock' = clock
      /\ lastAlert' = lastAlert
  BY DEF RestartTx
<1>2. IdleTx \in TxRequests /\ IdleTx.step = "idle"
  <2>1. 0 \in TxChains \cup {0} /\ 0 \in Int /\ 0 \in Nat
    OBVIOUS
  <2> QED BY <2>1 DEF IdleTx, TxRequests
<1>3. TxTypeOK'
  <2>1. << >> \in Seq(Nat) /\ << >> \in Seq(TxEntries)
    OBVIOUS
  <2>2. windows' \in [TxChains -> Seq(TxEntries)] /\ txCalls' \in [TxCalls -> TxRequests]
        /\ timestamps' \in Seq(Nat)
    BY <1>1, <1>2, <2>1
  <2>3. \A k \in TxCalls : txCalls'[k].step = "idle"
    BY <1>1, <1>2
  <2> QED BY <1>1, <2>2, <2>3 DEF TxTypeOK
<1>4. UnderWay' = {} /\ Cardinality(UnderWay') = 0
  <2>1. UnderWay' = {}
    BY <1>1, <1>2 DEF UnderWay
  <2> QED BY <2>1, FS_EmptySet
<1>5. \A b : CountFrom(timestamps', b) = 0
  BY <1>1, CountOfNone
<1>6. \A c \in TxChains : \A b : Late(c, b)' = 0
  <2>1. \A c \in TxChains : TxTimes(windows'[c]) = <<>>
    BY <1>1 DEF TxTimes
  <2> QED BY <2>1, CountOfNone DEF Late
<1>7. AdmittedBounded'
  BY <1>4, <1>5, SpansAre DEF AdmittedBounded
<1>8. NeverTwoRecordings'
  <2>1. \A k \in TxCalls : txCalls'[k].step = "idle"
    BY <1>1, <1>2
  <2> QED BY <1>4, <1>5, <1>6, <2>1 DEF NeverTwoRecordings
<1> QED BY <1>1, <1>3, <1>7, <1>8 DEF BurstsWithinLimit

LEMMA TxCount ==
  ASSUME TxInv, NEW k \in TxCalls, CountAndAnalyze(k) PROVE TxInv'
<1> USE DEF TxInv
<1>1. PICK tx \in TxRequests : tx = txCalls[k]
  BY DEF TxTypeOK
<1>2. PICK window : window = Rolled(windows[tx.chain], tx)
  OBVIOUS
<1>3. PICK result : result = Analysis(window)
  OBVIOUS
<1>4. /\ txCalls[k].step = "saved" /\ txCalls[k].step # "idle" /\ tx.step = "saved"
      /\ timestamps' = Append(timestamps, clock)
      /\ windows' = [windows EXCEPT ![tx.chain] = window]
      /\ lastAlert' = IF result = NoFinding THEN lastAlert
                      ELSE [type |-> result.type, size |-> BurstCount(window),
                            overlapped |-> overlapped]
      /\ txCalls' = [txCalls EXCEPT ![k] = IdleTx]
      /\ clock' = clock /\ overlapped' = overlapped /\ clock \in Nat
  BY <1>1, <1>2, <1>3 DEF CountAndAnalyze, TxTypeOK
<1>5. tx.chain \in TxChains /\ windows[tx.chain] \in Seq(TxEntries)
  BY <1>1, <1>4 DEF TxTypeOK
<1>6. /\ window \in Seq(TxEntries) /\ window # <<>> /\ Last(window).timestamp = tx.timestamp
      /\ \A b \in Int : CountFrom(TxTimes(window), b)
                         <= Late(tx.chain, b) + (IF tx.timestamp >= b THEN 1 ELSE 0)
  <2>1. tx.timestamp \in Int /\ tx.gas \in Nat /\ tx.status \in {"success", "failure", "reverted"}
    BY <1>1 DEF TxRequests
  <2> QED BY <1>2, <1>5, <2>1, RolledIs DEF Late
<1>7. tx.timestamp \in Int /\ tx.timestamp - BurstSpan \in Int
  BY <1>1, SpansAre DEF TxRequests
<1>8. /\ BurstCount(window) = CountFrom(TxTimes(window), tx.timestamp - BurstSpan)
      /\ BurstCount(window) \in Nat
  BY <1>6, <1>7, TimesAre
<1>9. /\ txCalls' \in [TxCalls -> TxRequests]
      /\ \A j \in TxCalls : txCalls'[j].step # "idle" => txCalls'[j].chain \in TxChains
      /\ \A j \in TxCalls : txCalls'[j].step # "idle" => j # k /\ txCalls'[j] = txCalls[j]
      /\ UnderWay' \subseteq UnderWay
      /\ Cardinality(UnderWay') = Cardinality(UnderWay) - 1
  BY <1>4, TxEnds
<1>10. \A b \in Int : /\ CountFrom(timestamps, b) \in Nat
                      /\ CountFrom(timestamps', b)
                           = CountFrom(timestamps, b) + (IF clock >= b THEN 1 ELSE 0)
  <2>1. timestamps \in Seq(Int) /\ clock \in Int
    BY <1>4, CountsAreNatural
  <2>2. \A b \in Int : CountFrom(Append(timestamps, clock), b)
                         = CountFrom(timestamps, b) + (IF clock >= b THEN 1 ELSE 0)
    BY <2>1, AppendCounts
  <2> QED BY <1>4, <2>2, CountsAreNatural
<1>11. TxTypeOK'
  <2>1. timestamps' \in Seq(Nat)
    BY <1>4 DEF TxTypeOK
  <2>2. windows' \in [TxChains -> Seq(TxEntries)]
    BY <1>4, <1>6 DEF TxTypeOK
  <2>3. result # NoFinding => result.type \in {"burst", "failures", "gas"}
    BY <1>3 DEF Analysis
  <2>4. lastAlert' \in [type : {"none", "burst", "failures", "gas"}, size : Nat, overlapped : BOOLEAN]
    BY <1>4, <1>8, <2>3 DEF TxTypeOK
  <2> QED BY <1>4, <1>9, <2>1, <2>2, <2>4 DEF TxTypeOK
<1>12. AdmittedBounded'
  <2>1. clock - Minute + 1 \in Int /\ clock - Hour + 1 \in Int
        /\ clock >= clock - Minute + 1 /\ clock >= clock - Hour + 1
    BY <1>4, SpansAre
  <2>2. CountFrom(timestamps', clock - Minute + 1) = CountFrom(timestamps, clock - Minute + 1) + 1
        /\ CountFrom(timestamps', clock - Hour + 1) = CountFrom(timestamps, clock - Hour + 1) + 1
    BY <1>10, <2>1
  <2>3. CountFrom(timestamps, clock - Minute + 1) \in Nat /\ CountFrom(timestamps, clock - Hour + 1) \in Nat
    BY <1>10, <2>1
  <2>4. /\ CountFrom(timestamps, clock - Minute + 1) + Cardinality(UnderWay)
             <= PerMinute + Cardinality(TxCalls) - 1
        /\ CountFrom(timestamps, clock - Hour + 1) + Cardinality(UnderWay)
             <= PerHour + Cardinality(TxCalls) - 1
    BY DEF AdmittedBounded
  <2>5. Cardinality(UnderWay) \in Nat /\ Cardinality(UnderWay') = Cardinality(UnderWay) - 1
    BY <1>9, UnderWayIs
  <2>6. CountFrom(timestamps', clock - Minute + 1) + Cardinality(UnderWay')
          <= PerMinute + Cardinality(TxCalls) - 1
    BY <2>2, <2>3, <2>4, <2>5, SpansAre
  <2>7. CountFrom(timestamps', clock - Hour + 1) + Cardinality(UnderWay')
          <= PerHour + Cardinality(TxCalls) - 1
    BY <2>2, <2>3, <2>4, <2>5, SpansAre
  <2> QED BY <1>4, <2>6, <2>7 DEF AdmittedBounded
<1>13. ASSUME ~overlapped' PROVE NeverTwoRecordings'
  <2>1. NeverTwoRecordings
    BY <1>4, <1>13
  <2>2. \A j \in TxCalls : txCalls'[j].step = "idle"
    BY <1>4, <1>9, <2>1 DEF NeverTwoRecordings, UnderWay
  <2>3. tx.timestamp <= clock
    BY <1>1, <1>4, <2>1 DEF NeverTwoRecordings
  <2>4. ASSUME NEW c \in TxChains, NEW b \in Int, b > clock' - Hour
        PROVE  CountFrom(TxTimes(windows'[c]), b) <= CountFrom(timestamps', b)
    <3>1. Late(c, b) <= CountFrom(timestamps, b) /\ Late(c, b) \in Nat
      BY <1>4, <2>1, <2>4, CountsAreNatural DEF NeverTwoRecordings
    <3>2. CountFrom(timestamps, b) \in Nat
          /\ CountFrom(timestamps', b) = CountFrom(timestamps, b) + (IF clock >= b THEN 1 ELSE 0)
      BY <1>10
    <3>3. CASE c # tx.chain
      <4>1. windows'[c] = windows[c]
        BY <1>4, <3>3 DEF TxTypeOK
      <4> QED BY <3>1, <3>2, <4>1 DEF Late
    <3>4. CASE c = tx.chain
      <4>1. windows'[c] = window
        BY <1>4, <3>4 DEF TxTypeOK
      <4>2. CountFrom(TxTimes(window), b) <= Late(c, b) + (IF tx.timestamp >= b THEN 1 ELSE 0)
        BY <1>6, <3>4
      <4>3. CountFrom(TxTimes(window), b) \in Nat
        BY <1>6, TimesAre
      <4> QED BY <1>4, <1>7, <2>3, <3>1, <3>2, <4>1, <4>2, <4>3
    <3> QED BY <3>3, <3>4
  <2>5. (\A c \in TxChains : \A b \in Int :
           b > clock - Hour => Late(c, b) <= CountFrom(timestamps, b))'
    BY <2>4 DEF Late
  <2>6. (\A i, j \in UnderWay : i = j)'
    BY <2>2 DEF UnderWay
  <2> QED BY <2>2, <2>5, <2>6 DEF NeverTwoRecordings
<1>14. BurstsWithinLimit'
  <2>1. CASE result = NoFinding
    BY <1>4, <2>1 DEF BurstsWithinLimit
  <2>2. CASE result # NoFinding /\ ~overlapped
    <3>1. NeverTwoRecordings
      BY <2>2
    <3>2. Late(tx.chain, tx.timestamp - BurstSpan) <= PerMinute - 1
      BY <1>1, <1>4, <3>1 DEF NeverTwoRecordings
    <3>3. BurstCount(window) <= Late(tx.chain, tx.timestamp - BurstSpan)
                                  + (IF tx.timestamp >= tx.timestamp - BurstSpan THEN 1 ELSE 0)
      BY <1>6, <1>7, <1>8
    <3>4. Late(tx.chain, tx.timestamp - BurstSpan) \in Nat
      BY <1>5, <1>7, CountsAreNatural
    <3>5. BurstCount(window) <= PerMinute
      BY <1>7, <1>8, <3>2, <3>3, <3>4, SpansAre
    <3>6. lastAlert'.size = BurstCount(window)
      BY <1>4, <2>2
    <3> QED BY <3>5, <3>6 DEF BurstsWithinLimit
  <2>3. CASE result # NoFinding /\ overlapped
    <3>1. lastAlert'.overlapped = overlapped
      BY <1>4, <2>3
    <3> QED BY <2>3, <3>1 DEF BurstsWithinLimit
  <2> QED BY <2>1, <2>2, <2>3
<1> QED BY <1>11, <1>12, <1>13, <1>14

LEMMA TxInductive == TxInv /\ [TxNext]_txVars => TxInv'
<1> SUFFICES ASSUME TxInv, [TxNext]_txVars PROVE TxInv'
  OBVIOUS
<1>1. ASSUME NEW k \in TxCalls, Record(k) PROVE TxInv'
  BY <1>1, TxRecord
<1>2. ASSUME NEW k \in TxCalls, Insert(k) PROVE TxInv'
  BY <1>2, TxInsert
<1>3. ASSUME NEW k \in TxCalls, CountAndAnalyze(k) PROVE TxInv'
  BY <1>3, TxCount
<1>4. ASSUME NEW k \in TxCalls, FailSave(k) PROVE TxInv'
  BY <1>4, TxFail
<1>5. CASE Refuse
  BY <1>5, TxRefuse
<1>6. CASE RestartTx
  BY <1>6, TxRestart
<1>7. CASE TickTx
  BY <1>7, TxTick
<1>8. CASE UNCHANGED txVars
  BY <1>8 DEF txVars, TxInv, TxTypeOK, TxEntries, TxRequests, AdmittedBounded, UnderWay, NeverTwoRecordings,
              Late, BurstsWithinLimit
<1> QED BY <1>1, <1>2, <1>3, <1>4, <1>5, <1>6, <1>7, <1>8 DEF TxNext

(* The limiter's times, the rows, the windows of the chains and the calls under way keep  *)
(* their types in every step of recordTransaction (transactions.service.ts).             *)
THEOREM TxTypeCorrect == TxSpec => []TxTypeOK
<1>1. TxInv => TxTypeOK
  BY DEF TxInv
<1> QED BY <1>1, TxInitially, TxInductive, PTL DEF TxSpec

(* Of requests that overlap one less than there may be passes a merchant's limits, however *)
(* slow their saves are; without overlap no burst that is detected is larger than what   *)
(* the limiter admits in a minute (checkLimit and recordTransaction of                   *)
(* rate-limit.service.ts, suspicious-activity.service.ts).                               *)
THEOREM MerchantLimitHolds == TxSpec => []MerchantLimitBounded
<1>1. TxInv => MerchantLimitBounded
  <2> SUFFICES ASSUME TxInv PROVE LimitBounded /\ BurstsWithinLimit
    BY DEF MerchantLimitBounded
  <2>1. TxTypeOK /\ AdmittedBounded /\ BurstsWithinLimit
    BY DEF TxInv
  <2>2. Len(Within(timestamps, Minute)) = CountFrom(timestamps, clock - Minute + 1)
        /\ Len(Within(timestamps, Hour)) = CountFrom(timestamps, clock - Hour + 1)
    BY <2>1, SpansAre, WithinIs
  <2>3. clock - Minute + 1 \in Int /\ clock - Hour + 1 \in Int
    BY <2>1, SpansAre DEF TxTypeOK
  <2>4. CountFrom(timestamps, clock - Minute + 1) \in Nat /\ CountFrom(timestamps, clock - Hour + 1) \in Nat
    BY <2>1, <2>3, CountsAreNatural
  <2> QED BY <2>1, <2>2, <2>4, SpansAre, UnderWayIs DEF AdmittedBounded, LimitBounded
<1> QED BY <1>1, TxInitially, TxInductive, PTL DEF TxSpec

---------------------------------------------------------------------------------
(* GasVolatility: VolatilityIsCurrent. *)

-----------------------------------------------------------------------------
\* Constants: a factor for later.
LEMMA HourIs ==
  ASSUME NEW u \in Nat
  PROVE  /\ HourOf(u) \in Nat /\ u \in UnitsOf(HourOf(u))
         /\ HourOf(u) * HourLength \in Nat /\ HourOf(u) * HourLength <= u
         /\ u < HourOf(u) * HourLength + HourLength
<1>1. PICK d \in Nat \ {0} : d = HourLength
  BY GasVolatilityAssumption
<1>2. PICK h \in Nat : h = u \div d
  <2>1. u \div d \in Nat
    OBVIOUS
  <2> QED BY <2>1
<1>3. u = d * h + (u % d) /\ u % d \in 0..(d - 1) /\ d * h = h * d /\ h * d \in Nat
  BY <1>2
<1>4. PICK p \in Nat : p = h * d
  BY <1>3
<1>5. p <= u /\ u < p + d /\ u \in p .. p + d - 1
  BY <1>3, <1>4
<1> QED BY <1>1, <1>2, <1>4, <1>5 DEF HourOf, UnitsOf

LEMMA UnitsAre ==
  ASSUME NEW h \in Nat
  PROVE  /\ h * HourLength \in Nat /\ UnitsOf(h) \subseteq Nat /\ IsFiniteSet(UnitsOf(h))
         /\ UnitsOf(h) # {}
         /\ \A u \in UnitsOf(h) : HourOf(u) = h
<1>1. PICK d \in Nat \ {0} : d = HourLength
  BY GasVolatilityAssumption
<1>2. PICK p \in Nat : p = h * d
  BY <1>1
<1>3. UnitsOf(h) = p..(p + d - 1)
  BY <1>1, <1>2 DEF UnitsOf
<1>4. p \in UnitsOf(h) /\ UnitsOf(h) \subseteq Nat
  BY <1>3
<1>5. IsFiniteSet(UnitsOf(h))
  <2>1. p + d - 1 \in Int
    OBVIOUS
  <2> QED BY <1>3, <2>1, FS_Interval
<1>6. ASSUME NEW u \in UnitsOf(h) PROVE HourOf(u) = h
  <2>1. PICK r \in 0..(d - 1) : u = h * d + r
    <3>1. u \in Int /\ u - p \in 0..(d - 1) /\ u = p + (u - p)
      BY <1>3
    <3> QED BY <1>2, <3>1
  <2>2. (h * d + r) \div d = h
    OBVIOUS
  <2> QED BY <1>1, <2>1, <2>2 DEF HourOf
<1> QED BY <1>1, <1>2, <1>4, <1>5, <1>6

\* The average of some units over given prices.
AverageOf(past, units) == SumOver(units, [u \in units |-> past[u + 1]]) \div Cardinality(units)

LEMMA AverageTyped ==
  ASSUME NEW units, IsFiniteSet(units), units # {}, NEW past,
         \A u \in units : past[u + 1] \in Nat
  PROVE  /\ AverageOf(past, units) \in Nat
         /\ \A c \in Nat : (\A u \in units : past[u + 1] = c) => AverageOf(past, units) = c
<1> DEFINE f == [u \in units |-> past[u + 1]]
           z == [u \in units |-> 0]
<1>1. \A u \in units : f[u] = past[u + 1] /\ f[u] \in Int /\ z[u] = 0 /\ z[u] <= f[u]
  OBVIOUS
<1>2. AverageOf(past, units) = SumFunctionOnSet(f, units) \div Cardinality(units)
  BY DEF AverageOf, SumOver
<1> HIDE DEF f, z
<1>3. PICK n \in Nat \ {0} : n = Cardinality(units)
  <2>1. Cardinality(units) \in Nat /\ Cardinality(units) # 0
    BY FS_CardinalityType, FS_EmptySet
  <2> QED BY <2>1
<1>4. SumFunctionOnSet(f, units) \in Int
  BY <1>1, SumOnSet
<1>5. SumFunctionOnSet(z, units) = 0 * Cardinality(units)
  <2>1. 0 \in Int /\ \A u \in units : z[u] = 0
    BY <1>1
  <2> QED BY <2>1, SumOfConstant
<1>6. SumFunctionOnSet(z, units) <= SumFunctionOnSet(f, units)
  BY <1>1, SumMonotone
<1>7. SumFunctionOnSet(f, units) \in Nat
  BY <1>3, <1>4, <1>5, <1>6
<1>8. PICK s \in Nat : s = SumFunctionOnSet(f, units)
  BY <1>7
<1>9. AverageOf(past, units) = s \div n /\ s \div n \in Nat
  BY <1>2, <1>3, <1>8
<1>10. ASSUME NEW c \in Nat, \A u \in units : past[u + 1] = c PROVE AverageOf(past, units) = c
  <2>1. c \in Int /\ \A u \in units : f[u] = c
    BY <1>1, <1>10
  <2>2. s = c * n
    BY <2>1, <1>3, <1>8, SumOfConstant
  <2>3. (c * n) \div n = c
    OBVIOUS
  <2> QED BY <1>9, <2>2, <2>3
<1> QED BY <1>9, <1>10

(* What the average of units is does not depend on the prices of others. *)
LEMMA AverageStays ==
  ASSUME NEW units, IsFiniteSet(units), NEW past, NEW more,
         \A u \in units : past[u + 1] = more[u + 1]
  PROVE  AverageOf(past, units) = AverageOf(more, units)
<1> DEFINE f == [u \in units |-> past[u + 1]]
           g == [u \in units |-> more[u + 1]]
<1>1. f = g
  OBVIOUS
<1> HIDE DEF f, g
<1>2. AverageOf(past, units) = SumFunctionOnSet(f, units) \div Cardinality(units)
  BY DEF AverageOf, SumOver, f
<1>3. AverageOf(more, units) = SumFunctionOnSet(g, units) \div Cardinality(units)
  BY DEF AverageOf, SumOver, g
<1> QED BY <1>1, <1>2, <1>3

LEMMA AverageIs ==
  /\ \A units : Average(units) = AverageOf(pastPrices, units)
  /\ \A units : (Average(units))' = AverageOf(pastPrices', units)
<1>1. ASSUME NEW units PROVE Average(units) = AverageOf(pastPrices, units)
  BY DEF Average, AverageOf, PriceAt
<1>2. ASSUME NEW units PROVE (Average(units))' = AverageOf(pastPrices', units)
  BY DEF Average, AverageOf, PriceAt
<1> QED BY <1>1, <1>2

-----------------------------------------------------------------------------
HourRecords == [hour : Nat, price : Nat]
VolatilityLevels == {"none", "Low", "Moderate", "High", "Extreme"}

VolatilityTypeOK ==
  /\ pastPrices \in Seq(Prices) /\ Unit \in Nat
  /\ hourRows \in Seq(HourRecords)
  /\ backfill \in [at : Int, todo : Seq(HourRecords)] /\ backfill.at <= Unit
  /\ backfilled \subseteq 0..Unit
  /\ snapshot \in [at : Int, level : VolatilityLevels]
  /\ computations \in [Computations -> [step : {"idle", "read", "save"}, at : Int,
                                       level : VolatilityLevels]]

\* The job of time u has the hour h to save in full.
ReachesHour(u, h) == h \in 0 .. HourOf(u) - 1 /\ u <= h * HourLength + 2 * HourLength

\* A list of rows has one of the whole hour h.
Covered(stored, past, h) ==
  \E i \in DOMAIN stored : stored[i].hour = h /\ stored[i].price = AverageOf(past, UnitsOf(h))

JobCovers ==
  backfill.todo # <<>> =>
    /\ backfill.at \in Nat
    /\ \A h \in Nat : ReachesHour(backfill.at, h) =>
         Covered(hourRows, pastPrices, h) \/ Covered(backfill.todo, pastPrices, h)

JobsCovered ==
  \A u \in backfilled : \A h \in Nat : ReachesHour(u, h) => Covered(hourRows, pastPrices, h)

AllAt(stored, p) == \A i \in DOMAIN stored : stored[i].price = p

Calm == \A u \in 0 .. Unit : PriceAt(u) = PriceAt(0)

CalmEverywhere ==
  Calm => /\ AllAt(hourRows, PriceAt(0)) /\ AllAt(backfill.todo, PriceAt(0))
          /\ \A c \in Computations : computations[c].step = "save" => computations[c].level = "Low"
          /\ snapshot.level \in {"none", "Low"}

VolatilityInv == VolatilityTypeOK /\ JobCovers /\ JobsCovered /\ CalmEverywhere

LEMMA PastPrices ==
  ASSUME VolatilityTypeOK
  PROVE  /\ \A u \in 0 .. Unit : PriceAt(u) \in Nat \ {0} /\ pastPrices[u + 1] = PriceAt(u)
         /\ Len(pastPrices) = Unit + 1
<1>1. Len(pastPrices) \in Nat /\ Unit \in Nat /\ Unit = Len(pastPrices) - 1
  BY DEF VolatilityTypeOK, Unit
<1>2. ASSUME NEW u \in 0 .. Unit PROVE PriceAt(u) \in Nat \ {0} /\ pastPrices[u + 1] = PriceAt(u)
  <2>1. u + 1 \in 1..Len(pastPrices)
    BY <1>1
  <2>2. pastPrices[u + 1] \in Prices
    BY <2>1 DEF VolatilityTypeOK
  <2> QED BY <2>2, GasVolatilityAssumption DEF PriceAt
<1> QED BY <1>1, <1>2

LEMMA AggregateIs ==
  ASSUME VolatilityTypeOK, NEW units \in SUBSET (0 .. Unit), units # {},
         NEW stored, stored = AggregateByInterval(units)
  PROVE  /\ stored \in Seq(HourRecords) /\ stored # <<>>
         /\ \A h \in Nat : UnitsOf(h) \subseteq units => Covered(stored, pastPrices, h)
         /\ Calm => AllAt(stored, PriceAt(0))
<1> DEFINE S == {HourOf(u) : u \in units}
           f == [u \in units |-> HourOf(u)]
           portion(h) == units \cap UnitsOf(h)
<1>1. IsFiniteSet(units) /\ Unit \in Nat /\ \A u \in units : u \in Nat
  <2>1. Unit \in Nat
    BY DEF VolatilityTypeOK
  <2>2. IsFiniteSet(0 .. Unit)
    BY <2>1, FS_Interval
  <2>3. IsFiniteSet(units)
    BY <2>2, FS_Subset
  <2>4. \A u \in units : u \in 0 .. Unit
    OBVIOUS
  <2>5. \A u \in 0 .. Unit : u \in Nat
    BY <2>1
  <2> QED BY <2>1, <2>3, <2>4, <2>5
<1>2. IsFiniteSet(S)
  <2>1. S = {f[u] : u \in units}
    OBVIOUS
  <2> HIDE DEF f, S
  <2> QED BY <1>1, <2>1, ValuesAreFinite
<1>3. S \subseteq Nat
  BY <1>1, HourIs
<1>4. S # {}
  OBVIOUS
<1> HIDE DEF f
<1>5. PICK k \in Nat \ {0} : k = Cardinality(S)
  <2> HIDE DEF S
  <2>1. Cardinality(S) \in Nat /\ Cardinality(S) # 0
    BY <1>2, <1>4, FS_CardinalityType, FS_EmptySet
  <2> QED BY <2>1
<1>6. PICK s : /\ s \in [1..Cardinality(S) -> S] /\ \A i, j \in DOMAIN s : i < j => s[i] < s[j]
               /\ stored = [i \in 1..Cardinality(S) |->
                            [hour |-> s[i], price |-> Average(portion(s[i]))]]
  <2>1. \E s \in [1..Cardinality(S) -> S] : \A i, j \in DOMAIN s : i < j => s[i] < s[j]
    <3> HIDE DEF S
    <3> QED BY <1>2, <1>3, OrderExists DEF Increasing
  <2> QED BY <2>1 DEF AggregateByInterval
<1>7. Increasing(s) /\ s \in [1..k -> S]
  BY <1>5, <1>6 DEF Increasing
<1>8. \A x \in S : \E i \in 1..k : s[i] = x
  <2> HIDE DEF S
  <2>1. s \in [1..Cardinality(S) -> S]
    BY <1>6
  <2>2. \A x \in S : \E i \in 1..Cardinality(S) : s[i] = x
    BY <2>1, <1>2, <1>3, <1>7, OrderListsAll
  <2> QED BY <2>2, <1>5
<1>9. ASSUME NEW h \in S
      PROVE  /\ IsFiniteSet(portion(h)) /\ portion(h) # {}
             /\ \A u \in portion(h) : u \in 0..Unit /\ pastPrices[u + 1] \in Nat
                                     /\ pastPrices[u + 1] = PriceAt(u)
  <2>1. IsFiniteSet(portion(h))
    BY <1>1, FS_Subset
  <2>2. PICK u \in units : h = HourOf(u)
    OBVIOUS
  <2>3. u \in portion(h)
    BY <2>2, <1>1, HourIs
  <2>4. \A w \in portion(h) : w \in 0..Unit
    OBVIOUS
  <2> QED BY <2>1, <2>3, <2>4, PastPrices
<1>10. ASSUME NEW h \in S
       PROVE  /\ Average(portion(h)) \in Nat
              /\ \A c \in Nat : (\A u \in portion(h) : pastPrices[u + 1] = c) => Average(portion(h)) = c
  <2>1. Average(portion(h)) = AverageOf(pastPrices, portion(h))
    BY AverageIs
  <2>2. PICK some : some = portion(h)
    OBVIOUS
  <2>3. IsFiniteSet(some) /\ some # {} /\ \A u \in some : pastPrices[u + 1] \in Nat
    BY <2>2, <1>9
  <2> HIDE DEF portion
  <2> QED BY <2>1, <2>2, <2>3, AverageTyped
<1>11. DOMAIN stored = 1..k /\ \A i \in 1..k : /\ stored[i].hour = s[i] /\ s[i] \in S
                                            /\ stored[i].price = Average(portion(s[i]))
                                            /\ stored[i] \in HourRecords
  <2>1. \A i \in 1..k : /\ s[i] \in S /\ stored[i] = [hour |-> s[i], price |-> Average(portion(s[i]))]
    BY <1>5, <1>6, <1>7
  <2>2. \A i \in 1..k : s[i] \in Nat /\ Average(portion(s[i])) \in Nat
    BY <2>1, <1>3, <1>10
  <2>3. DOMAIN stored = 1..k
    BY <1>5, <1>6
  <2> HIDE DEF portion, S
  <2> QED BY <2>1, <2>2, <2>3 DEF HourRecords
<1>12. stored \in Seq(HourRecords) /\ stored # <<>>
  <2>1. stored = [i \in 1..k |-> stored[i]]
    BY <1>5, <1>6
  <2>2. \A i \in 1..k : stored[i] \in HourRecords
    BY <1>11
  <2>3. stored \in [1..k -> HourRecords]
    BY <2>1, <2>2
  <2>4. stored \in Seq(HourRecords) /\ Len(stored) = k
    BY <2>3
  <2> QED BY <2>4
<1>13. ASSUME NEW h \in Nat, UnitsOf(h) \subseteq units PROVE Covered(stored, pastPrices, h)
  <2>1. PICK u \in UnitsOf(h) : HourOf(u) = h
    BY UnitsAre
  <2>2. h \in S /\ portion(h) = UnitsOf(h)
    BY <2>1, <1>13
  <2>3. PICK i \in 1..k : s[i] = h
    BY <2>2, <1>8
  <2>4. stored[i].hour = h /\ stored[i].price = AverageOf(pastPrices, UnitsOf(h))
    BY <2>2, <2>3, <1>11, AverageIs
  <2> QED BY <2>4, <1>11 DEF Covered
<1>14. ASSUME Calm PROVE AllAt(stored, PriceAt(0))
  <2>1. PriceAt(0) \in Nat /\ \A u \in 0..Unit : PriceAt(u) = PriceAt(0)
    <3>1. 0 \in 0..Unit
      BY <1>1
    <3> QED BY <3>1, <1>14, PastPrices DEF Calm
  <2>2. ASSUME NEW i \in 1..k PROVE stored[i].price = PriceAt(0)
    <3>1. s[i] \in S /\ stored[i].price = Average(portion(s[i]))
      BY <1>11
    <3>2. \A u \in portion(s[i]) : pastPrices[u + 1] = PriceAt(0)
      BY <3>1, <2>1, <1>9
    <3> HIDE DEF portion
    <3> QED BY <3>1, <3>2, <2>1, <1>10
  <2> QED BY <2>2, <1>11 DEF AllAt
<1> QED BY <1>12, <1>13, <1>14

(* Rows of one price are never volatile. *)
LEMMA LevelOfCalm ==
  ASSUME NEW stored, IsFiniteSet(stored), NEW short \in SUBSET stored, NEW p \in Nat,
         \A i \in stored : hourRows[i].price = p
  PROVE  ClassifyVolatility(stored, short) = "Low"
<1> DEFINE price == [i \in stored |-> hourRows[i].price]
           square == [i \in stored |-> price[i] * price[i]]
<1>1. PICK pp \in Nat : pp = p * p
  OBVIOUS
<1>2. /\ \A i \in stored : price[i] = p /\ square[i] = pp
      /\ \A i \in short : price[i] = p
  BY <1>1
<1>3. IsFiniteSet(short)
  BY FS_Subset
<1>4. PICK n \in Nat : n = Cardinality(stored)
  BY FS_CardinalityType
<1>5. PICK k \in Nat : k = Cardinality(short)
  BY <1>3, FS_CardinalityType
<1>6. IndexAtMost(25, stored, short) <=>
        LET sum == SumFunctionOnSet(price, stored)
            spread == n * SumFunctionOnSet(square, stored) - sum * sum
            rest == 25 * sum * k - 30 * Abs(n * SumFunctionOnSet(price, short) - sum * k)
        IN rest >= 0 /\ 4900 * k * k * spread <= rest * rest
  BY <1>4, <1>5 DEF IndexAtMost, SumOver
<1> HIDE DEF price, square
<1>7. p \in Int /\ pp \in Int
  OBVIOUS
<1>8. SumFunctionOnSet(price, stored) = p * n
  BY <1>2, <1>4, <1>7, SumOfConstant
<1>9. SumFunctionOnSet(square, stored) = pp * n
  BY <1>2, <1>4, <1>7, SumOfConstant
<1>10. SumFunctionOnSet(price, short) = p * k
  BY <1>2, <1>3, <1>5, <1>7, SumOfConstant
<1>11. n * (pp * n) - (p * n) * (p * n) = 0
  BY <1>1
<1>12. n * (p * k) - (p * n) * k = 0
  OBVIOUS
<1>13. PICK r \in Nat : r = 25 * (p * n) * k
  OBVIOUS
<1>14. Abs(0) = 0
  BY DEF Abs
<1>15. r - 30 * 0 = r /\ 4900 * k * k * 0 = 0 /\ r >= 0 /\ 0 <= r * r
  OBVIOUS
<1>16. IndexAtMost(25, stored, short)
  BY <1>6, <1>8, <1>9, <1>10, <1>11, <1>12, <1>13, <1>14, <1>15
<1> QED BY <1>16 DEF ClassifyVolatility

-----------------------------------------------------------------------------
(* The steps. *)

LEMMA VolatilityInitially == VolatilityInit => VolatilityInv
<1> SUFFICES ASSUME VolatilityInit PROVE VolatilityInv
  OBVIOUS
<1>1. PICK p \in Prices : pastPrices = <<p>>
  BY DEF VolatilityInit
<1>2. pastPrices \in Seq(Prices) /\ Unit = 0
  BY <1>1 DEF Unit
<1>3. VolatilityTypeOK
  <2>1. <<>> \in Seq(HourRecords)
    OBVIOUS
  <2> QED BY <1>2, <2>1 DEF VolatilityInit, VolatilityTypeOK, NoBackfill, NoSnapshot,
             IdleComputation, VolatilityLevels
<1>4. JobCovers /\ JobsCovered
  BY DEF VolatilityInit, JobCovers, JobsCovered, NoBackfill
<1>5. CalmEverywhere
  BY DEF VolatilityInit, CalmEverywhere, AllAt, NoBackfill, NoSnapshot, IdleComputation
<1> QED BY <1>3, <1>4, <1>5 DEF VolatilityInv

(* The hours that a job must cover are over when it begins. *)
LEMMA ReachedIsOver ==
  ASSUME VolatilityTypeOK, NEW u \in 0 .. Unit, NEW h \in Nat, ReachesHour(u, h)
  PROVE  UnitsOf(h) \subseteq 0 .. u /\ UnitsOf(h) \subseteq 0 .. Unit
<1>1. Unit \in Nat /\ u \in Nat /\ u <= Unit
  BY DEF VolatilityTypeOK
<1>2. PICK d \in Nat \ {0} : d = HourLength
  BY GasVolatilityAssumption
<1>3. PICK g \in Nat : g = HourOf(u) /\ g * HourLength <= u
  BY <1>1, HourIs
<1>4. PICK e \in Nat : g = h + 1 + e
  <2>1. h \in 0 .. g - 1
    BY <1>3 DEF ReachesHour
  <2>2. g - 1 - h \in Nat /\ g = h + 1 + (g - 1 - h)
    BY <2>1
  <2> QED BY <2>2
<1>5. PICK p \in Nat, q \in Nat : p = h * d /\ q = e * d
  OBVIOUS
<1>6. g * d = p + d + q
  BY <1>4, <1>5
<1>7. p + d <= u
  BY <1>2, <1>3, <1>5, <1>6
<1>8. UnitsOf(h) = p .. p + d - 1
  BY <1>2, <1>5 DEF UnitsOf
<1> QED BY <1>1, <1>7, <1>8

LEMMA CoveredStays ==
  ASSUME NEW h \in Nat, NEW stored, NEW past, NEW more,
         \A u \in UnitsOf(h) : past[u + 1] = more[u + 1], Covered(stored, past, h)
  PROVE  Covered(stored, more, h)
<1>1. AverageOf(past, UnitsOf(h)) = AverageOf(more, UnitsOf(h))
  BY UnitsAre, AverageStays
<1> QED BY <1>1 DEF Covered

LEMMA VolatilityTime == VolatilityInv /\ UnitPasses => VolatilityInv'
<1> SUFFICES ASSUME VolatilityInv, UnitPasses PROVE VolatilityInv'
  OBVIOUS
<1>1. PICK p \in Prices : pastPrices' = Append(pastPrices, p)
  BY DEF UnitPasses
<1>2. PICK n \in Nat : n = Len(pastPrices) /\ Unit = n - 1 /\ Unit \in Nat
  BY DEF VolatilityInv, VolatilityTypeOK, Unit
<1>3. /\ pastPrices' \in Seq(Prices) /\ Unit' = Unit + 1
      /\ \A i \in 1..n : pastPrices'[i] = pastPrices[i]
  BY <1>1, <1>2 DEF VolatilityInv, VolatilityTypeOK, Unit
<1>4. \A u \in 0 .. Unit : u \in 0 .. Unit' /\ u + 1 \in 1..n /\ PriceAt(u)' = PriceAt(u)
                             /\ pastPrices'[u + 1] = pastPrices[u + 1]
  BY <1>2, <1>3 DEF PriceAt
<1>5. UNCHANGED <<hourRows, backfill, backfilled, snapshot, computations>>
  BY DEF UnitPasses
<1>6. VolatilityTypeOK'
  <2>1. backfilled \subseteq 0 .. Unit'
    BY <1>4 DEF VolatilityInv, VolatilityTypeOK
  <2>2. backfill.at <= Unit'
    BY <1>2, <1>3 DEF VolatilityInv, VolatilityTypeOK
  <2>3. Unit' \in Nat
    BY <1>2, <1>3
  <2> QED BY <2>1, <2>2, <2>3, <1>3, <1>5 DEF VolatilityInv, VolatilityTypeOK
<1>7. ASSUME NEW u \in 0 .. Unit, NEW h \in Nat, ReachesHour(u, h), NEW stored,
             Covered(stored, pastPrices, h)
      PROVE  Covered(stored, pastPrices', h)
  <2>1. UnitsOf(h) \subseteq 0 .. Unit
    BY <1>7, ReachedIsOver DEF VolatilityInv
  <2>2. \A w \in UnitsOf(h) : pastPrices[w + 1] = pastPrices'[w + 1]
    BY <2>1, <1>4
  <2> QED BY <2>2, <1>7, CoveredStays
<1>8. JobCovers'
  <2> SUFFICES ASSUME backfill.todo # <<>>
               PROVE  /\ backfill.at \in Nat
                      /\ \A h \in Nat : ReachesHour(backfill.at, h) =>
                           Covered(hourRows, pastPrices', h) \/ Covered(backfill.todo, pastPrices', h)
    BY <1>5 DEF JobCovers
  <2>1. backfill.at \in 0 .. Unit
    BY <1>2 DEF VolatilityInv, VolatilityTypeOK, JobCovers
  <2> QED BY <2>1, <1>7 DEF VolatilityInv, JobCovers
<1>9. JobsCovered'
  <2>1. ASSUME NEW u \in backfilled, NEW h \in Nat, ReachesHour(u, h)
        PROVE  Covered(hourRows, pastPrices', h)
    <3>1. u \in 0 .. Unit /\ Covered(hourRows, pastPrices, h)
      BY <2>1 DEF VolatilityInv, VolatilityTypeOK, JobsCovered
    <3> QED BY <2>1, <3>1, <1>7
  <2> QED BY <2>1, <1>5 DEF JobsCovered
<1>10. CalmEverywhere'
  <2> SUFFICES ASSUME Calm' PROVE CalmEverywhere'
    BY DEF CalmEverywhere
  <2>1. 0 \in 0 .. Unit /\ PriceAt(0)' = PriceAt(0)
    BY <1>2, <1>4
  <2>2. Calm
    BY <2>1, <1>4 DEF Calm
  <2> QED BY <2>1, <2>2, <1>5 DEF VolatilityInv, CalmEverywhere, AllAt
<1> QED BY <1>6, <1>8, <1>9, <1>10 DEF VolatilityInv

LEMMA VolatilityJob ==
  ASSUME BufferHours >= 2, VolatilityInv, HourlyAggregation
  PROVE  VolatilityInv'
<1> DEFINE units == {u \in 0 .. Unit : u >= BufferStart(Unit)}
<1>1. /\ backfill' = [at |-> Unit, todo |-> AggregateByInterval(units)]
      /\ UNCHANGED <<pastPrices, hourRows, backfilled, snapshot, computations>>
  BY DEF HourlyAggregation
<1>2. PICK stored : stored = AggregateByInterval(units)
  OBVIOUS
<1>3. PICK d \in Nat \ {0}, b \in Nat : d = HourLength /\ b = BufferHours /\ b >= 2
  BY GasVolatilityAssumption
<1>4. PICK e \in Nat : b = e + 2
  <2>1. b - 2 \in Nat /\ b = (b - 2) + 2
    BY <1>3
  <2> QED BY <2>1
<1>5. PICK m \in Nat : m = e * d /\ b * d = m + 2 * d
  BY <1>4
<1>6. VolatilityTypeOK /\ Unit \in Nat /\ BufferStart(Unit) = Unit - (m + 2 * d)
  BY <1>3, <1>5 DEF VolatilityInv, VolatilityTypeOK, BufferStart
<1>7. units \in SUBSET (0 .. Unit) /\ units # {}
  <2>1. Unit \in 0 .. Unit /\ Unit >= Unit - (m + 2 * d)
    BY <1>6
  <2> QED BY <2>1, <1>6
<1>8. ASSUME NEW h \in Nat, ReachesHour(Unit, h) PROVE UnitsOf(h) \subseteq units
  <2>1. Unit \in 0 .. Unit
    BY <1>6
  <2>2. UnitsOf(h) \subseteq 0 .. Unit
    BY <1>6, <1>8, <2>1, ReachedIsOver
  <2>3. PICK p \in Nat : p = h * d /\ Unit <= p + 2 * d
    BY <1>3, <1>8 DEF ReachesHour
  <2>4. UnitsOf(h) = p .. p + d - 1
    BY <1>3, <2>3 DEF UnitsOf
  <2>5. \A u \in UnitsOf(h) : u >= Unit - (m + 2 * d)
    BY <1>6, <2>3, <2>4
  <2> QED BY <2>2, <2>5, <1>6
<1> HIDE DEF units
<1>9. /\ stored \in Seq(HourRecords) /\ stored # <<>>
      /\ \A h \in Nat : UnitsOf(h) \subseteq units => Covered(stored, pastPrices, h)
      /\ Calm => AllAt(stored, PriceAt(0))
  BY <1>2, <1>6, <1>7, AggregateIs
<1>10. backfill' = [at |-> Unit, todo |-> stored] /\ Unit' = Unit /\ PriceAt(0)' = PriceAt(0)
  BY <1>1, <1>2 DEF Unit, PriceAt
<1>11. VolatilityTypeOK'
  BY <1>1, <1>6, <1>9, <1>10 DEF VolatilityTypeOK
<1>12. JobCovers'
  BY <1>1, <1>6, <1>8, <1>9, <1>10 DEF JobCovers
<1>13. JobsCovered'
  BY <1>1 DEF VolatilityInv, JobsCovered
<1>14. CalmEverywhere'
  <2> SUFFICES ASSUME Calm' PROVE CalmEverywhere'
    BY DEF CalmEverywhere
  <2>1. Calm
    BY <1>1 DEF Calm, Unit, PriceAt
  <2> QED BY <2>1, <1>1, <1>9, <1>10 DEF VolatilityInv, CalmEverywhere, AllAt
<1> QED BY <1>11, <1>12, <1>13, <1>14 DEF VolatilityInv

(* Rows that are saved one by one are covered before and after. *)
LEMMA SavedRows ==
  ASSUME NEW saved \in Seq(HourRecords), NEW todo \in Seq(HourRecords), todo # <<>>,
         NEW past
  PROVE  /\ Append(saved, Head(todo)) \in Seq(HourRecords) /\ Tail(todo) \in Seq(HourRecords)
         /\ Len(todo) = 1 => Tail(todo) = <<>>
         /\ \A h : Covered(saved, past, h) => Covered(Append(saved, Head(todo)), past, h)
         /\ \A h : Covered(todo, past, h) =>
              Covered(Append(saved, Head(todo)), past, h) \/ Covered(Tail(todo), past, h)
         /\ \A p : AllAt(saved, p) /\ AllAt(todo, p) =>
              AllAt(Append(saved, Head(todo)), p) /\ AllAt(Tail(todo), p)
<1>1. PICK n \in Nat : n = Len(saved)
  OBVIOUS
<1>2. PICK m \in Nat \ {0} : m = Len(todo) /\ Head(todo) = todo[1] /\ todo[1] \in HourRecords
  OBVIOUS
<1>3. PICK more : /\ more = Append(saved, Head(todo)) /\ more \in Seq(HourRecords)
                  /\ Len(more) = n + 1
                  /\ \A i \in 1..n : more[i] = saved[i]
                  /\ more[n + 1] = todo[1]
  <2>1. Head(todo) \in HourRecords
    BY <1>2
  <2>2. /\ Append(saved, Head(todo)) \in Seq(HourRecords)
        /\ Len(Append(saved, Head(todo))) = n + 1
        /\ \A i \in 1..n : Append(saved, Head(todo))[i] = saved[i]
        /\ Append(saved, Head(todo))[n + 1] = Head(todo)
    BY <1>1, <2>1, AppendProperties
  <2> QED BY <2>2, <1>2
<1>4. PICK rest : /\ rest = Tail(todo) /\ rest \in Seq(HourRecords) /\ Len(rest) = m - 1
                  /\ \A i \in 1..(m - 1) : rest[i] = todo[i + 1]
  <2>1. Tail(todo) \in Seq(HourRecords) /\ Len(Tail(todo)) = m - 1
    BY <1>2, HeadTailProperties
  <2>2. \A i \in 1..(m - 1) : Tail(todo)[i] = todo[i + 1]
    BY <1>2, <2>1, HeadTailProperties
  <2> QED BY <2>1, <2>2
<1>5. m = 1 => rest = <<>>
  BY <1>4
<1>6. ASSUME NEW h, Covered(saved, past, h) PROVE Covered(more, past, h)
  <2>1. PICK i \in 1..n : saved[i].hour = h /\ saved[i].price = AverageOf(past, UnitsOf(h))
    BY <1>1, <1>6 DEF Covered
  <2>2. i \in 1..(n + 1) /\ DOMAIN more = 1..(n + 1)
    BY <1>3
  <2> QED BY <2>1, <2>2, <1>3 DEF Covered
<1>7. ASSUME NEW h, Covered(todo, past, h) PROVE Covered(more, past, h) \/ Covered(rest, past, h)
  <2>1. PICK i \in 1..m : todo[i].hour = h /\ todo[i].price = AverageOf(past, UnitsOf(h))
    BY <1>2, <1>7 DEF Covered
  <2>2. CASE i = 1
    <3>1. n + 1 \in DOMAIN more
      BY <1>3
    <3> QED BY <2>1, <2>2, <3>1, <1>3 DEF Covered
  <2>3. CASE i # 1
    <3>1. i - 1 \in 1..(m - 1) /\ DOMAIN rest = 1..(m - 1) /\ (i - 1) + 1 = i
      BY <2>3, <1>4
    <3>2. rest[i - 1] = todo[i]
      BY <3>1, <1>4
    <3> QED BY <2>1, <3>1, <3>2 DEF Covered
  <2> QED BY <2>2, <2>3
<1>8. ASSUME NEW p, AllAt(saved, p), AllAt(todo, p) PROVE AllAt(more, p) /\ AllAt(rest, p)
  <2>1. /\ \A i \in 1..n : saved[i].price = p
        /\ \A i \in 1..m : todo[i].price = p
    BY <1>1, <1>2, <1>8 DEF AllAt
  <2>2. ASSUME NEW i \in 1..(n + 1) PROVE more[i].price = p
    <3>1. i \in 1..n \/ i = n + 1
      OBVIOUS
    <3>2. 1 \in 1..m
      OBVIOUS
    <3> QED BY <3>1, <3>2, <2>1, <1>3
  <2>3. ASSUME NEW i \in 1..(m - 1) PROVE rest[i].price = p
    <3>1. i + 1 \in 1..m
      OBVIOUS
    <3> QED BY <3>1, <2>1, <1>4
  <2>4. DOMAIN more = 1..(n + 1) /\ DOMAIN rest = 1..(m - 1)
    BY <1>3, <1>4
  <2> QED BY <2>2, <2>3, <2>4 DEF AllAt
<1> QED BY <1>2, <1>3, <1>4, <1>5, <1>6, <1>7, <1>8

LEMMA VolatilitySaves ==
  ASSUME VolatilityInv, SaveRecord
  PROVE  VolatilityInv'
<1>1. PICK todo \in Seq(HourRecords) : todo = backfill.todo /\ todo # <<>>
  BY DEF VolatilityInv, VolatilityTypeOK, SaveRecord
<1>2. PICK saved \in Seq(HourRecords) : saved = hourRows
  BY DEF VolatilityInv, VolatilityTypeOK
<1>3. /\ UNCHANGED <<pastPrices, snapshot, computations>> /\ Unit' = Unit
      /\ PriceAt(0)' = PriceAt(0) /\ Calm' = Calm
  BY DEF SaveRecord, Unit, PriceAt, Calm
<1>4. /\ backfill \in [at : Int, todo : Seq(HourRecords)] /\ backfill.at \in 0 .. Unit
      /\ backfilled \subseteq 0 .. Unit
  BY <1>1 DEF VolatilityInv, VolatilityTypeOK, JobCovers
<1>5. CASE /\ hourRows' = Append(hourRows, Head(backfill.todo))
           /\ backfill' = [backfill EXCEPT !.todo = Tail(@)]
           /\ backfilled' = IF Len(backfill.todo) = 1 THEN backfilled \cup {backfill.at} ELSE backfilled
  <2>1. PICK more \in Seq(HourRecords), rest \in Seq(HourRecords) :
          /\ more = Append(saved, Head(todo)) /\ rest = Tail(todo)
          /\ Len(todo) = 1 => rest = <<>>
          /\ \A h : Covered(saved, pastPrices, h) => Covered(more, pastPrices, h)
          /\ \A h : Covered(todo, pastPrices, h) =>
               Covered(more, pastPrices, h) \/ Covered(rest, pastPrices, h)
          /\ \A p : AllAt(saved, p) /\ AllAt(todo, p) => AllAt(more, p) /\ AllAt(rest, p)
    <3>1. todo # <<>>
      BY <1>1
    <3> DEFINE more == Append(saved, Head(todo))
               rest == Tail(todo)
    <3>2. PICK past : past = pastPrices
      OBVIOUS
    <3>3. /\ more \in Seq(HourRecords) /\ rest \in Seq(HourRecords)
          /\ Len(todo) = 1 => rest = <<>>
          /\ \A h : Covered(saved, past, h) => Covered(more, past, h)
          /\ \A h : Covered(todo, past, h) => Covered(more, past, h) \/ Covered(rest, past, h)
          /\ \A p : AllAt(saved, p) /\ AllAt(todo, p) => AllAt(more, p) /\ AllAt(rest, p)
      BY <3>1, SavedRows
    <3>4. /\ more = Append(saved, Head(todo)) /\ rest = Tail(todo)
      OBVIOUS
    <3> HIDE DEF more, rest
    <3> QED BY <3>2, <3>3, <3>4
  <2>2. /\ hourRows' = more /\ backfill'.todo = rest /\ backfill'.at = backfill.at
        /\ backfill' \in [at : Int, todo : Seq(HourRecords)]
        /\ backfilled' = IF Len(todo) = 1 THEN backfilled \cup {backfill.at} ELSE backfilled
    BY <1>1, <1>2, <1>4, <1>5, <2>1
  <2>3. VolatilityTypeOK'
    BY <1>3, <1>4, <2>2 DEF VolatilityInv, VolatilityTypeOK
  <2>4. ASSUME NEW h \in Nat, ReachesHour(backfill.at, h)
        PROVE  Covered(more, pastPrices, h) \/ Covered(rest, pastPrices, h)
    <3>1. Covered(saved, pastPrices, h) \/ Covered(todo, pastPrices, h)
      BY <1>1, <1>2, <2>4 DEF VolatilityInv, JobCovers
    <3> QED BY <3>1, <2>1
  <2>5. JobCovers'
    BY <1>3, <1>4, <2>2, <2>4 DEF JobCovers
  <2>6. JobsCovered'
    <3>1. ASSUME NEW u \in backfilled', NEW h \in Nat, ReachesHour(u, h)
          PROVE  Covered(more, pastPrices, h)
      <4>1. CASE u \in backfilled
        BY <4>1, <3>1, <1>2, <2>1 DEF VolatilityInv, JobsCovered
      <4>2. CASE u = backfill.at /\ Len(todo) = 1
        <5>1. rest = <<>>
          BY <4>2, <2>1
        <5>2. ~Covered(rest, pastPrices, h)
          BY <5>1 DEF Covered
        <5> QED BY <4>2, <3>1, <2>4, <5>2
      <4> QED BY <3>1, <4>1, <4>2, <2>2
    <3> QED BY <3>1, <1>3, <2>2 DEF JobsCovered
  <2>7. CalmEverywhere'
    <3> SUFFICES ASSUME Calm PROVE CalmEverywhere'
      BY <1>3 DEF CalmEverywhere
    <3>1. AllAt(saved, PriceAt(0)) /\ AllAt(todo, PriceAt(0))
      BY <1>1, <1>2 DEF VolatilityInv, CalmEverywhere
    <3>2. AllAt(more, PriceAt(0)) /\ AllAt(rest, PriceAt(0))
      BY <3>1, <2>1
    <3> QED BY <3>2, <1>3, <2>2 DEF VolatilityInv, CalmEverywhere
  <2> QED BY <2>3, <2>5, <2>6, <2>7 DEF VolatilityInv
<1>6. CASE backfill' = [backfill EXCEPT !.todo = <<>>] /\ UNCHANGED <<hourRows, backfilled>>
  <2>1. <<>> \in Seq(HourRecords)
    OBVIOUS
  <2>2. /\ backfill'.todo = <<>> /\ backfill'.at = backfill.at
        /\ backfill' \in [at : Int, todo : Seq(HourRecords)]
    BY <1>4, <1>6, <2>1
  <2>3. VolatilityTypeOK'
    BY <1>3, <1>4, <1>6, <2>2 DEF VolatilityInv, VolatilityTypeOK
  <2>4. JobCovers' /\ JobsCovered'
    BY <1>3, <1>6, <2>2 DEF VolatilityInv, JobCovers, JobsCovered
  <2>5. CalmEverywhere'
    BY <1>3, <1>6, <2>2 DEF VolatilityInv, CalmEverywhere, AllAt
  <2> QED BY <2>3, <2>4, <2>5 DEF VolatilityInv
<1> QED BY <1>5, <1>6 DEF SaveRecord

(* What a computation may become. *)
ComputationTyped(call) ==
  call \in [step : {"idle", "read", "save"}, at : Int, level : VolatilityLevels]

LEMMA VolatilityComputes ==
  ASSUME VolatilityInv, NEW c \in Computations, NEW call, ComputationTyped(call),
         computations' = [computations EXCEPT ![c] = call],
         Calm /\ call.step = "save" => call.level = "Low",
         UNCHANGED <<pastPrices, hourRows, backfill, backfilled>>,
         \/ UNCHANGED snapshot
         \/ /\ snapshot' \in [at : Int, level : VolatilityLevels]
            /\ Calm => snapshot'.level \in {"none", "Low"}
  PROVE  VolatilityInv'
<1>1. Unit' = Unit /\ PriceAt(0)' = PriceAt(0) /\ Calm' = Calm
  BY DEF Unit, PriceAt, Calm
<1>2. /\ computations'[c] = call /\ DOMAIN computations' = Computations
      /\ \A d \in Computations : d # c => computations'[d] = computations[d]
  BY DEF VolatilityInv, VolatilityTypeOK
<1>3. VolatilityTypeOK'
  <2>1. computations' \in [Computations -> [step : {"idle", "read", "save"}, at : Int,
                                          level : VolatilityLevels]]
    BY DEF VolatilityInv, VolatilityTypeOK, ComputationTyped
  <2> QED BY <1>1, <2>1 DEF VolatilityInv, VolatilityTypeOK
<1>4. JobCovers' /\ JobsCovered'
  BY DEF VolatilityInv, JobCovers, JobsCovered
<1>5. CalmEverywhere'
  <2> SUFFICES ASSUME Calm PROVE CalmEverywhere'
    BY <1>1 DEF CalmEverywhere
  <2>1. \A d \in Computations : computations'[d].step = "save" => computations'[d].level = "Low"
    BY <1>2 DEF VolatilityInv, CalmEverywhere
  <2> QED BY <1>1, <2>1 DEF VolatilityInv, CalmEverywhere
<1> QED BY <1>3, <1>4, <1>5 DEF VolatilityInv

LEMMA VolatilityBegins ==
  ASSUME VolatilityInv, NEW c \in Computations, RecomputeVolatility(c) \/ GetVolatility(c)
  PROVE  VolatilityInv'
<1>1. PICK call : call = [IdleComputation EXCEPT !.step = "read", !.at = Unit]
  OBVIOUS
<1>2. call = [step |-> "read", at |-> Unit, level |-> "none"]
  BY <1>1 DEF IdleComputation
<1>3. Unit \in Int
  BY DEF VolatilityInv, VolatilityTypeOK
<1>4. ComputationTyped(call) /\ call.step # "save"
  BY <1>2, <1>3 DEF ComputationTyped, VolatilityLevels
<1>5. computations' = [computations EXCEPT ![c] = call]
  BY <1>1 DEF RecomputeVolatility, GetVolatility, BeginComputation, BecomeComputation
<1>6. UNCHANGED <<pastPrices, hourRows, backfill, backfilled, snapshot>>
  BY DEF RecomputeVolatility, GetVolatility
<1> QED BY <1>4, <1>5, <1>6, VolatilityComputes

LEMMA VolatilityMeasures ==
  ASSUME VolatilityInv, NEW c \in Computations, ComputeMetrics(c)
  PROVE  VolatilityInv'
<1>1. PICK stored : stored = GetHourlySeries(computations[c].at)
  OBVIOUS
<1>2. stored \subseteq DOMAIN hourRows /\ IsFiniteSet(stored)
  <2>1. PICK n \in Nat : DOMAIN hourRows = 1..n
    BY DEF VolatilityInv, VolatilityTypeOK
  <2>2. stored \subseteq 1..n
    BY <1>1, <2>1 DEF GetHourlySeries
  <2>3. IsFiniteSet(1..n)
    BY FS_Interval
  <2> QED BY <2>1, <2>2, <2>3, FS_Subset
<1>3. PICK measured \in VolatilityLevels :
        /\ computations' = [computations EXCEPT ![c] =
             [computations[c] EXCEPT !.step = "save", !.level = measured]]
        /\ Calm => measured = "Low"
  <2>1. CASE Cardinality(stored) < 2
    BY <1>1, <2>1 DEF ComputeMetrics, BecomeComputation, VolatilityLevels
  <2>2. CASE ~(Cardinality(stored) < 2)
    <3>1. PICK short \in ShortWindows(stored) :
            computations' = [computations EXCEPT ![c] =
              [computations[c] EXCEPT !.step = "save", !.level = ClassifyVolatility(stored, short)]]
      BY <1>1, <2>2 DEF ComputeMetrics, BecomeComputation
    <3>2. short \in SUBSET stored
      BY DEF ShortWindows, kSubset
    <3>3. ClassifyVolatility(stored, short) \in VolatilityLevels
      BY DEF ClassifyVolatility, VolatilityLevels
    <3>4. ASSUME Calm PROVE ClassifyVolatility(stored, short) = "Low"
      <4>1. PriceAt(0) \in Nat
        <5>1. 0 \in 0 .. Unit
          BY DEF VolatilityInv, VolatilityTypeOK
        <5> QED BY <5>1, PastPrices DEF VolatilityInv
      <4>2. \A i \in stored : hourRows[i].price = PriceAt(0)
        BY <3>4, <1>2 DEF VolatilityInv, CalmEverywhere, AllAt
      <4> QED BY <4>1, <4>2, <1>2, <3>2, LevelOfCalm
    <3> QED BY <3>1, <3>3, <3>4
  <2> QED BY <2>1, <2>2
<1>4. PICK call : call = [computations[c] EXCEPT !.step = "save", !.level = measured]
  OBVIOUS
<1>5. ComputationTyped(call) /\ call.level = measured
  BY <1>4 DEF ComputationTyped, VolatilityInv, VolatilityTypeOK
<1>6. UNCHANGED <<pastPrices, hourRows, backfill, backfilled, snapshot>>
  BY DEF ComputeMetrics
<1> QED BY <1>3, <1>4, <1>5, <1>6, VolatilityComputes

LEMMA VolatilityAnswers ==
  ASSUME VolatilityInv, NEW c \in Computations, SaveSnapshot(c)
  PROVE  VolatilityInv'
<1>1. PICK call : call = computations[c] /\ call.step = "save" /\ ComputationTyped(call)
  BY DEF SaveSnapshot, VolatilityInv, VolatilityTypeOK, ComputationTyped
<1>2. Calm => call.level = "Low"
  BY <1>1 DEF VolatilityInv, CalmEverywhere
<1>3. /\ computations' = [computations EXCEPT ![c] = IdleComputation]
      /\ \/ UNCHANGED snapshot
         \/ snapshot' = IF call.at > snapshot.at THEN [at |-> call.at, level |-> call.level]
                        ELSE snapshot
      /\ UNCHANGED <<pastPrices, hourRows, backfill, backfilled>>
  BY <1>1 DEF SaveSnapshot, BecomeComputation
<1>4. \/ UNCHANGED snapshot
      \/ /\ snapshot' \in [at : Int, level : VolatilityLevels]
         /\ Calm => snapshot'.level \in {"none", "Low"}
  <2>1. [at |-> call.at, level |-> call.level] \in [at : Int, level : VolatilityLevels]
    BY <1>1 DEF ComputationTyped
  <2> QED BY <2>1, <1>2, <1>3
<1>5. ComputationTyped(IdleComputation) /\ IdleComputation.step # "save"
  BY DEF ComputationTyped, IdleComputation, VolatilityLevels
<1> QED BY <1>3, <1>4, <1>5, VolatilityComputes

LEMMA VolatilityInductive ==
  ASSUME BufferHours >= 2
  PROVE  VolatilityInv /\ [VolatilityNext]_volatilityVars => VolatilityInv'
<1> SUFFICES ASSUME VolatilityInv, [VolatilityNext]_volatilityVars PROVE VolatilityInv'
  OBVIOUS
<1>1. CASE UnitPasses
  BY <1>1, VolatilityTime
<1>2. CASE HourlyAggregation
  BY <1>2, VolatilityJob
<1>3. CASE SaveRecord
  BY <1>3, VolatilitySaves
<1>4. ASSUME NEW c \in Computations, RecomputeVolatility(c) \/ GetVolatility(c)
      PROVE  VolatilityInv'
  BY <1>4, VolatilityBegins
<1>5. ASSUME NEW c \in Computations, ComputeMetrics(c) PROVE VolatilityInv'
  BY <1>5, VolatilityMeasures
<1>6. ASSUME NEW c \in Computations, SaveSnapshot(c) PROVE VolatilityInv'
  BY <1>6, VolatilityAnswers
<1>7. CASE UNCHANGED volatilityVars
  BY <1>7 DEF volatilityVars, VolatilityInv, VolatilityTypeOK, JobCovers, JobsCovered,
              CalmEverywhere, Calm, Unit, PriceAt
<1> QED BY <1>1, <1>2, <1>3, <1>4, <1>5, <1>6, <1>7 DEF VolatilityNext

(* Every hour that is over has a row of the whole hour, once a job has saved all it had  *)
(* to, and prices that never moved are called calm, whichever jobs fail, come late or    *)
(* are skipped, if the buffer is at least two hours (gas-volatility.scheduler.ts).       *)
THEOREM VolatilityHolds ==
  ASSUME BufferHours >= 2
  PROVE  VolatilitySpec => []VolatilityIsCurrent
<1>1. VolatilityInv => VolatilityIsCurrent
  <2> SUFFICES ASSUME VolatilityInv PROVE VolatilityIsCurrent
    OBVIOUS
  <2>1. ASSUME NEW u \in backfilled, NEW h \in 0 .. HourOf(u) - 1,
               u <= h * HourLength + 2 * HourLength
        PROVE  HasFullRow(h)
    <3>1. u \in Nat
      BY DEF VolatilityInv, VolatilityTypeOK
    <3>2. h \in Nat /\ ReachesHour(u, h)
      BY <2>1, <3>1, HourIs DEF ReachesHour
    <3>3. Covered(hourRows, pastPrices, h)
      BY <3>2 DEF VolatilityInv, JobsCovered
    <3>4. Average(UnitsOf(h)) = AverageOf(pastPrices, UnitsOf(h))
      BY AverageIs
    <3> QED BY <3>3, <3>4 DEF Covered, HasFullRow
  <2>2. EveryHourIsCovered
    BY <2>1 DEF EveryHourIsCovered
  <2>3. CalmIsLow
    BY DEF VolatilityInv, CalmEverywhere, Calm, CalmIsLow
  <2> QED BY <2>2, <2>3 DEF VolatilityIsCurrent
<1>2. VolatilityInit => VolatilityInv
  BY VolatilityInitially
<1>3. VolatilityInv /\ [VolatilityNext]_volatilityVars => VolatilityInv'
  BY VolatilityInductive
<1> QED BY <1>1, <1>2, <1>3, PTL DEF VolatilitySpec

---------------------------------------------------------------------------------
(* ChainReliability: LeaderboardIsCurrent. *)

\* The last to be recorded.

ScoreRows == [at : Nat, score : Int]

LEMMA RecordedIs ==
  ASSUME NEW stored \in Seq(ScoreRows)
  PROVE  /\ RecordedBy(stored) \in Int /\ RecordedBy(stored) >= -1
         /\ stored = <<>> => RecordedBy(stored) = -1
         /\ \A i \in DOMAIN stored : stored[i].at <= RecordedBy(stored)
         /\ stored # <<>> => \E i \in DOMAIN stored : stored[i].at = RecordedBy(stored)
         /\ \A i \in LatestMetrics(stored) : i \in DOMAIN stored /\ stored[i].at = RecordedBy(stored)
<1>1. DOMAIN stored = 1 .. Len(stored) /\ Len(stored) \in Nat /\ \A i \in DOMAIN stored : stored[i].at \in Nat
  <2>1. \A i \in DOMAIN stored : stored[i] \in ScoreRows
    OBVIOUS
  <2> QED BY <2>1 DEF ScoreRows
<1>2. CASE stored = <<>>
  BY <1>2 DEF RecordedBy, LatestMetrics
<1>3. CASE stored # <<>>
  <2> DEFINE times == {stored[i].at : i \in DOMAIN stored}
             at == [i \in DOMAIN stored |-> stored[i].at]
  <2>1. times = {at[i] : i \in DOMAIN stored}
    OBVIOUS
  <2>2. IsFiniteSet(DOMAIN stored)
    <3>1. 1 \in Int /\ Len(stored) \in Int
      BY <1>1
    <3> QED BY <1>1, <3>1, FS_Interval
  <2>3. times \subseteq Nat /\ times # {}
    BY <1>1, <1>3
  <2> HIDE DEF at
  <2>4. IsFiniteSet(times)
    <3>1. IsFiniteSet({at[i] : i \in DOMAIN stored})
      BY <2>2, ValuesAreFinite
    <3> QED BY <2>1, <3>1
  <2> HIDE DEF times
  <2>5. \E n \in times : \A m \in times : m <= n
    BY <2>3, <2>4, GreatestNumber
  <2>6. \E n \in times : \A m \in times : n >= m
    BY <2>3, <2>5
  <2>7. PICK n \in times : n = Max(times) /\ \A m \in times : n >= m
    BY <2>6 DEF Max
  <2>8. RecordedBy(stored) = n
    BY <1>3, <2>7 DEF RecordedBy, times
  <2> USE DEF times
  <2>9. n \in Nat /\ \A i \in DOMAIN stored : stored[i].at <= n
    BY <1>1, <2>3, <2>7
  <2>10. PICK k \in DOMAIN stored : stored[k].at = n
    BY <2>7
  <2>11. \A i \in LatestMetrics(stored) : i \in DOMAIN stored /\ stored[i].at = n
    BY <1>1, <2>9, <2>10 DEF LatestMetrics
  <2> QED BY <1>3, <2>8, <2>9, <2>10, <2>11
<1> QED BY <1>2, <1>3

LEMMA RecordedGrows ==
  ASSUME NEW stored \in Seq(ScoreRows), NEW m \in ScoreRows
  PROVE  RecordedBy(stored) <= RecordedBy(Append(stored, m))
<1>0. PICK more : more = Append(stored, m)
  OBVIOUS
<1>1. /\ more \in Seq(ScoreRows) /\ DOMAIN stored = 1 .. Len(stored) /\ Len(stored) \in Nat
      /\ DOMAIN more = 1 .. Len(stored) + 1
      /\ \A i \in DOMAIN stored : more[i] = stored[i]
  BY <1>0, AppendProperties
<1>2. \A i \in DOMAIN stored : i \in DOMAIN more
  BY <1>1
<1>3. CASE stored = <<>>
  BY <1>0, <1>1, <1>3, RecordedIs
<1>4. CASE stored # <<>>
  <2>1. PICK i \in DOMAIN stored : stored[i].at = RecordedBy(stored)
    BY <1>4, RecordedIs
  <2>2. more[i].at <= RecordedBy(more)
    BY <1>1, <1>2, <2>1, RecordedIs
  <2> QED BY <1>0, <1>1, <2>1, <2>2
<1> QED BY <1>3, <1>4

-----------------------------------------------------------------------------
\* The order of the leaderboard.

ScoredMetrics == [chain : RankedChains, at : Nat, score : Int]
Entries == [rank : Nat, chain : RankedChains, at : Nat, score : Int]

LEMMA AheadOrders ==
  ASSUME NEW found \in Seq(ScoredMetrics)
  PROVE  \E R : /\ Linear(DOMAIN found, R)
                /\ \A i, k \in DOMAIN found : <<i, k>> \in R <=> Ahead(found, i, k)
                /\ \A i \in DOMAIN found :
                     Preceding(DOMAIN found, R, i) = {k \in DOMAIN found : Ahead(found, k, i)}
<1> DEFINE D == DOMAIN found
           R == {p \in D \X D : Ahead(found, p[1], p[2])}
<1>1. \A i, k \in D : <<i, k>> \in R <=> Ahead(found, i, k)
  OBVIOUS
<1>2. D \subseteq Nat /\ \A i \in D : found[i].score \in Int
  <2>1. \A i \in D : found[i] \in ScoredMetrics
    OBVIOUS
  <2> QED BY <2>1 DEF ScoredMetrics
<1> HIDE DEF R
<1>3. \A i, k \in D : i # k => Ahead(found, i, k) \/ Ahead(found, k, i)
  BY <1>2 DEF Ahead
<1>4. \A i, k, l \in D : Ahead(found, i, k) /\ Ahead(found, k, l) => Ahead(found, i, l)
  BY <1>2 DEF Ahead
<1>5. \A i \in D : ~Ahead(found, i, i)
  BY <1>2 DEF Ahead
<1>6. Linear(D, R)
  BY <1>1, <1>3, <1>4, <1>5 DEF Linear
<1>7. \A i \in D : Preceding(D, R, i) = {k \in D : Ahead(found, k, i)}
  BY <1>1 DEF Preceding
<1> QED BY <1>1, <1>6, <1>7

LEMMA ByScoreIs ==
  ASSUME NEW found \in Seq(ScoredMetrics)
  PROVE  /\ \A p \in 1 .. Len(found) : ByScore(found, p) \in DOMAIN found
         /\ \A p, q \in 1 .. Len(found) :
              p < q => found[ByScore(found, p)].score >= found[ByScore(found, q)].score
         /\ \A i \in DOMAIN found : \E p \in 1 .. Len(found) : ByScore(found, p) = i
<1> DEFINE D == DOMAIN found
<1>1. D = 1 .. Len(found) /\ Len(found) \in Nat
  OBVIOUS
<1>2. IsFiniteSet(1 .. Len(found)) /\ Cardinality(1 .. Len(found)) = Len(found)
  <2>1. 1 \in Int /\ Len(found) \in Int
    BY <1>1
  <2>2. IsFiniteSet(1 .. Len(found))
    BY <2>1, FS_Interval
  <2>3. Cardinality(1 .. Len(found)) = IF 1 > Len(found) THEN 0 ELSE Len(found) - 1 + 1
    BY <2>1, FS_Interval
  <2> QED BY <1>1, <2>2, <2>3
<1>3. PICK R : /\ Linear(D, R)
               /\ \A i, k \in D : <<i, k>> \in R <=> Ahead(found, i, k)
               /\ \A i \in D : Preceding(D, R, i) = {k \in D : Ahead(found, k, i)}
  BY AheadOrders
<1> DEFINE Prior(i) == Cardinality({k \in D : Ahead(found, k, i)})
<1>4. ASSUME NEW p \in 1 .. Len(found)
      PROVE  ByScore(found, p) \in D /\ Prior(ByScore(found, p)) = p - 1
  <2>1. p \in 1 .. Cardinality(D) /\ IsFiniteSet(D)
    BY <1>1, <1>2
  <2>2. \E i \in D : Cardinality(Preceding(D, R, i)) = p - 1
    BY <1>3, <2>1, PlaceExists
  <2>3. \E i \in D : Prior(i) = p - 1
    BY <1>3, <2>2
  <2> QED BY <2>3 DEF ByScore
<1>5. ASSUME NEW i \in D, NEW k \in D
      PROVE  Prior(i) \in 0 .. Len(found) - 1 /\ (Ahead(found, i, k) => Prior(i) < Prior(k))
  <2>1. /\ Cardinality(Preceding(D, R, i)) \in 0 .. Cardinality(D) - 1
        /\ <<i, k>> \in R => Cardinality(Preceding(D, R, i)) < Cardinality(Preceding(D, R, k))
    <3>1. IsFiniteSet(D) /\ Linear(D, R)
      BY <1>1, <1>2, <1>3
    <3> QED BY <3>1, PrecedingOrders
  <2> QED BY <1>1, <1>2, <1>3, <2>1
<1>6. \A i, k \in D : i # k => Ahead(found, i, k) \/ Ahead(found, k, i)
  BY <1>3 DEF Linear
<1> HIDE DEF Prior
<1>7. ASSUME NEW p \in 1 .. Len(found), NEW q \in 1 .. Len(found), p < q
      PROVE  found[ByScore(found, p)].score >= found[ByScore(found, q)].score
  <2>1. PICK i \in D, k \in D :
          i = ByScore(found, p) /\ k = ByScore(found, q) /\ Prior(i) = p - 1 /\ Prior(k) = q - 1
    BY <1>4
  <2>2. ~Ahead(found, k, i)
    BY <1>5, <1>7, <2>1
  <2>3. found[i].score \in Int /\ found[k].score \in Int
    <3>1. found[i] \in ScoredMetrics /\ found[k] \in ScoredMetrics
      OBVIOUS
    <3> QED BY <3>1 DEF ScoredMetrics
  <2> QED BY <2>1, <2>2, <2>3 DEF Ahead
<1>8. ASSUME NEW i \in D PROVE \E p \in 1 .. Len(found) : ByScore(found, p) = i
  <2>1. PICK p \in 1 .. Len(found) : p - 1 = Prior(i)
    <3>1. Prior(i) \in 0 .. Len(found) - 1
      BY <1>5
    <3>2. Prior(i) + 1 \in 1 .. Len(found) /\ (Prior(i) + 1) - 1 = Prior(i)
      BY <1>1, <3>1
    <3> QED BY <3>2
  <2>2. PICK k \in D : k = ByScore(found, p) /\ Prior(k) = p - 1
    BY <1>4
  <2>3. Prior(i) = Prior(k) /\ Prior(i) \in Int
    BY <1>5, <2>1, <2>2
  <2>4. i = k
    BY <1>5, <1>6, <2>3
  <2> QED BY <2>2, <2>4
<1> QED BY <1>4, <1>7, <1>8

LEMMA RankedIs ==
  ASSUME NEW found \in Seq(ScoredMetrics), NEW limit \in Nat
  PROVE  LET ranked == Ranked(found, limit) IN
         /\ ranked \in Seq(Entries)
         /\ \A r \in DOMAIN ranked :
              /\ ranked[r].rank = r
              /\ \E i \in DOMAIN found : ranked[r].chain = found[i].chain /\ ranked[r].at = found[i].at
         /\ \A r, s \in DOMAIN ranked : r < s => ranked[r].score >= ranked[s].score
         /\ \/ Len(ranked) = limit
            \/ \A i \in DOMAIN found : \E r \in DOMAIN ranked : ranked[r].chain = found[i].chain
<1>1. PICK n \in Nat : n = IF Len(found) < limit THEN Len(found) ELSE limit
  OBVIOUS
<1>2. n <= Len(found) /\ (n = limit \/ n = Len(found)) /\ Len(found) \in Nat
  BY <1>1
<1> DEFINE place == [r \in 1 .. n |-> ByScore(found, r)]
           Entry(i, r) == [rank |-> r, chain |-> found[i].chain, at |-> found[i].at,
                           score |-> found[i].score]
<1>3. Ranked(found, limit) = [r \in 1 .. n |-> Entry(place[r], r)]
  BY <1>1 DEF Ranked
<1>4. /\ \A r \in 1 .. n : place[r] \in DOMAIN found
      /\ \A r, s \in 1 .. n : r < s => found[place[r]].score >= found[place[s]].score
      /\ n = Len(found) => \A i \in DOMAIN found : \E r \in 1 .. n : place[r] = i
  <2>1. \A r \in 1 .. n : r \in 1 .. Len(found) /\ place[r] = ByScore(found, r)
    BY <1>2
  <2> HIDE DEF place
  <2> QED BY <2>1, ByScoreIs
<1> HIDE DEF place
<1>5. ASSUME NEW i \in DOMAIN found, NEW r \in 1 .. n PROVE Entry(i, r) \in Entries
  <2>1. found[i] \in ScoredMetrics
    OBVIOUS
  <2> QED BY <2>1 DEF ScoredMetrics, Entries
<1> DEFINE ranked == Ranked(found, limit)
<1>6. ranked \in Seq(Entries) /\ DOMAIN ranked = 1 .. n /\ Len(ranked) = n
  <2>1. \A r \in 1 .. n : Entry(place[r], r) \in Entries
    BY <1>4, <1>5
  <2> HIDE DEF Entry
  <2>2. [r \in 1 .. n |-> Entry(place[r], r)] \in [1 .. n -> Entries]
    BY <2>1
  <2> QED BY <1>3, <2>2
<1>7. \A r \in 1 .. n : ranked[r] = Entry(place[r], r)
  BY <1>3
<1> HIDE DEF ranked
<1>8. \A r \in DOMAIN ranked :
        /\ ranked[r].rank = r
        /\ \E i \in DOMAIN found : ranked[r].chain = found[i].chain /\ ranked[r].at = found[i].at
  BY <1>4, <1>6, <1>7
<1>9. \A r, s \in DOMAIN ranked : r < s => ranked[r].score >= ranked[s].score
  BY <1>4, <1>6, <1>7
<1>10. n = Len(found) =>
         \A i \in DOMAIN found : \E r \in DOMAIN ranked : ranked[r].chain = found[i].chain
  BY <1>4, <1>6, <1>7
<1> QED BY <1>2, <1>6, <1>8, <1>9, <1>10 DEF ranked

LEMMA PickedIs ==
  ASSUME NEW ranked \in Seq(Entries), NEW compared
  PROVE  LET picked == Picked(ranked, compared) IN
         /\ picked \in Seq(Entries)
         /\ \E place : /\ \A p \in DOMAIN picked : place[p] \in DOMAIN ranked
                                                   /\ picked[p] = ranked[place[p]]
                       /\ \A p, q \in DOMAIN picked : p < q => place[p] < place[q]
<1>1. DOMAIN ranked = 1 .. Len(ranked) /\ Len(ranked) \in Nat
  OBVIOUS
<1>2. PICK kept \in SUBSET DOMAIN ranked :
        kept = {r \in DOMAIN ranked : ranked[r].chain \in compared}
  OBVIOUS
<1>3. IsFiniteSet(kept) /\ kept \subseteq Nat
  <2>1. IsFiniteSet(1 .. Len(ranked))
    BY <1>1, FS_Interval
  <2> QED BY <1>1, <1>2, <2>1, FS_Subset
<1>4. PICK n \in Nat : n = Cardinality(kept)
  BY <1>3, FS_CardinalityType
<1> DEFINE R == {t \in kept \X kept : t[1] < t[2]}
           Prior(r) == Cardinality({q \in kept : q < r})
           place == [p \in 1 .. n |-> CHOOSE r \in kept : Prior(r) = p - 1]
<1>5. Linear(kept, R) /\ \A q, r \in kept : <<q, r>> \in R <=> q < r
  <2>1. \A q, r \in kept : <<q, r>> \in R <=> q < r
    OBVIOUS
  <2> HIDE DEF R
  <2>2. \A q \in kept : ~(q < q)
    BY <1>3
  <2>3. \A q, r \in kept : q # r => q < r \/ r < q
    BY <1>3
  <2>4. \A q, r, s \in kept : q < r /\ r < s => q < s
    BY <1>3
  <2> QED BY <2>1, <2>2, <2>3, <2>4 DEF Linear
<1>6. \A r \in kept : Preceding(kept, R, r) = {q \in kept : q < r}
  BY DEF Preceding
<1> HIDE DEF R
<1>7. ASSUME NEW p \in 1 .. n PROVE place[p] \in kept /\ Prior(place[p]) = p - 1
  <2>1. \E r \in kept : Cardinality(Preceding(kept, R, r)) = p - 1
    BY <1>3, <1>4, <1>5, PlaceExists
  <2>2. \E r \in kept : Prior(r) = p - 1
    BY <1>6, <2>1
  <2> HIDE DEF Prior
  <2> QED BY <2>2
<1>8. ASSUME NEW q \in kept, NEW r \in kept, q < r PROVE Prior(q) < Prior(r)
  <2>1. <<q, r>> \in R
    BY <1>5, <1>8
  <2>2. Cardinality(Preceding(kept, R, q)) < Cardinality(Preceding(kept, R, r))
    BY <1>3, <1>5, <2>1, PrecedingOrders
  <2> QED BY <1>6, <2>2
<1>9. Picked(ranked, compared) = [p \in 1 .. n |-> ranked[place[p]]]
  BY <1>2, <1>4 DEF Picked
<1> HIDE DEF place, Prior
<1>10. ASSUME NEW p \in 1 .. n, NEW q \in 1 .. n, p < q PROVE place[p] < place[q]
  <2>1. /\ place[p] \in kept /\ place[q] \in kept
        /\ Prior(place[p]) = p - 1 /\ Prior(place[q]) = q - 1
    BY <1>7
  <2>2. ~(place[q] < place[p])
    BY <1>8, <1>10, <2>1
  <2>3. place[p] # place[q]
    BY <1>10, <2>1
  <2> QED BY <1>3, <2>1, <2>2, <2>3
<1> DEFINE picked == Picked(ranked, compared)
<1>11. picked \in Seq(Entries) /\ DOMAIN picked = 1 .. n
  <2>1. \A p \in 1 .. n : ranked[place[p]] \in Entries
    BY <1>2, <1>7
  <2>2. [p \in 1 .. n |-> ranked[place[p]]] \in [1 .. n -> Entries]
    BY <2>1
  <2> QED BY <1>9, <2>2
<1>12. \A p \in 1 .. n : place[p] \in DOMAIN ranked /\ picked[p] = ranked[place[p]]
  BY <1>2, <1>7, <1>9
<1> HIDE DEF picked
<1> QED BY <1>10, <1>11, <1>12 DEF picked

-----------------------------------------------------------------------------
\* The jobs and the leaderboard asked for.

Collections == [step : {"idle", "chain", "save"}, todo : Seq(RankedChains), at : Nat]
Views ==
  [step : {"idle", "metrics", "done"}, todo : Seq(RankedChains), found : Seq(ScoredMetrics),
   entries : Seq(Entries), compared : SUBSET RankedChains,
   before : [RankedChains -> Int] \cup {<<>>}]

ReliabilityTypeOK ==
  /\ metricRows \in [RankedChains -> Seq(ScoreRows)]
  /\ tick \in Nat
  /\ collections \in [Collectors -> Collections]
  /\ \A j \in Collectors : collections[j].step # "idle" => collections[j].todo # <<>>
  /\ view \in Views

\* Nothing found is behind what was recorded when the leaderboard was asked for, and what
\* was recorded is found or still to be asked for.
FoundIsCurrent ==
  view.step = "metrics" =>
    /\ view.before \in [RankedChains -> Int]
    /\ \A c \in RankedChains : view.before[c] <= RecordedBy(metricRows[c])
    /\ \A i \in DOMAIN view.found : view.before[view.found[i].chain] <= view.found[i].at
    /\ \A c \in RankedChains : view.before[c] >= 0 =>
         \/ \E i \in DOMAIN view.todo : view.todo[i] = c
         \/ \E i \in DOMAIN view.found : view.found[i].chain = c

ReliabilityInv == ReliabilityTypeOK /\ FoundIsCurrent /\ LeaderboardIsCurrent

LEMMA ScoresAreInt == ASSUME NEW a \in Aggregates PROVE CalculateReliabilityScores(a) \in Int
<1>1. a.rate \in Int /\ a.price \in Int /\ a.volatility \in Int
  <2>1. PICK n \in Nat : n = 10000
    OBVIOUS
  <2>2. a \in [rate : 0 .. n, price : Nat, volatility : Nat]
    BY <2>1, ChainReliabilityAssumption, SMTT(30)
  <2> QED BY <2>2
<1>2. PICK x \in Int, y \in Int :
        x = AtLeastZero(10000 - 100 * a.price) /\ y = AtLeastZero(10000 - 100 * a.volatility)
  BY <1>1 DEF AtLeastZero
<1>3. CostEfficiencyScore(a.price, a.volatility) = 6 * x + 4 * y
  BY <1>2 DEF CostEfficiencyScore
<1>4. StabilityScore(a.rate) = 6 * a.rate + 4 * 8465
  BY DEF StabilityScore, LatencyScore
<1>5. CalculateReliabilityScores(a)
        = (6 * (6 * a.rate + 4 * 8465) + 4 * (6 * x + 4 * y) + 50) \div 100
  BY <1>3, <1>4 DEF CalculateReliabilityScores
<1>6. PICK n \in Int : n = 6 * (6 * a.rate + 4 * 8465) + 4 * (6 * x + 4 * y) + 50
  BY <1>1
<1> QED BY <1>5, <1>6

LEMMA MetricIs ==
  ASSUME NEW at \in Nat, NEW a \in Aggregates
  PROVE  Metric(at, a) \in ScoreRows
BY ScoresAreInt DEF Metric, ScoreRows

LEMMA CollectionsKeep ==
  ASSUME ReliabilityInv, NEW j \in Collectors,
         CollectAllChainMetrics(j) \/ CollectMetrics(j) \/ SaveMetric(j)
  PROVE  /\ ReliabilityTypeOK' /\ UNCHANGED view
         /\ \A c \in RankedChains : RecordedBy(metricRows[c]) <= RecordedBy(metricRows'[c])
<1> DEFINE call == collections[j]
           begun == [step |-> "chain", at |-> 0, todo |-> ActiveOrder]
           collected == [call EXCEPT !.step = "save", !.at = tick]
<1>1. /\ ReliabilityTypeOK /\ call \in Collections /\ tick \in Nat
      /\ collections \in [Collectors -> Collections]
      /\ metricRows \in [RankedChains -> Seq(ScoreRows)]
  BY DEF ReliabilityInv, ReliabilityTypeOK
<1>2. ASSUME NEW next \in Collections, next.step # "idle" => next.todo # <<>>,
             BecomeCollection(j, next)
      PROVE  /\ collections' \in [Collectors -> Collections]
             /\ \A k \in Collectors : collections'[k].step # "idle" => collections'[k].todo # <<>>
  <2>1. collections' = [collections EXCEPT ![j] = next]
    BY <1>2 DEF BecomeCollection
  <2>2. collections' \in [Collectors -> Collections]
    BY <1>1, <2>1
  <2>3. ASSUME NEW k \in Collectors, collections'[k].step # "idle" PROVE collections'[k].todo # <<>>
    <3>1. collections'[k] = IF k = j THEN next ELSE collections[k]
      BY <1>1, <2>1
    <3> QED BY <1>1, <1>2, <2>3, <3>1 DEF ReliabilityTypeOK
  <2> QED BY <2>2, <2>3
<1>3. \A c \in RankedChains : RecordedBy(metricRows[c]) \in Int
  BY <1>1, RecordedIs
<1>4. CASE CollectAllChainMetrics(j)
  <2>1. begun \in Collections /\ begun.step # "idle" /\ begun.todo # <<>>
    BY <1>4, ChainReliabilityAssumption, SMTT(30) DEF CollectAllChainMetrics, Collections
  <2>2. BecomeCollection(j, begun) /\ UNCHANGED <<metricRows, tick, view>>
    BY <1>4 DEF CollectAllChainMetrics
  <2> HIDE DEF begun
  <2> QED BY <1>1, <1>2, <1>3, <2>1, <2>2 DEF ReliabilityTypeOK
<1>5. CASE CollectMetrics(j)
  <2>1. call.step = "chain" /\ BecomeCollection(j, collected) /\ UNCHANGED <<metricRows, tick, view>>
    BY <1>5 DEF CollectMetrics
  <2>2. collected \in Collections /\ collected.todo = call.todo
    BY <1>1 DEF Collections
  <2>3. call.todo # <<>>
    BY <1>1, <2>1 DEF ReliabilityTypeOK
  <2> HIDE DEF collected, call
  <2> QED BY <1>1, <1>2, <1>3, <2>1, <2>2, <2>3 DEF ReliabilityTypeOK
<1>6. CASE SaveMetric(j)
  <2>1. /\ call.step = "save" /\ BecomeCollection(j, NextChain(call)) /\ UNCHANGED <<tick, view>>
        /\ \/ UNCHANGED metricRows
           \/ \E a \in Aggregates :
                metricRows' = [metricRows EXCEPT ![Head(call.todo)] = Append(@, Metric(call.at, a))]
    BY <1>6 DEF SaveMetric
  <2>2. call.todo \in Seq(RankedChains) /\ call.todo # <<>> /\ call.at \in Nat
    BY <1>1, <2>1 DEF Collections, ReliabilityTypeOK
  <2>3. /\ Head(call.todo) \in RankedChains /\ Tail(call.todo) \in Seq(RankedChains)
        /\ Len(Tail(call.todo)) = Len(call.todo) - 1 /\ Len(call.todo) \in Nat \ {0}
    BY <2>2, HeadTailProperties, EmptySeq
  <2>4. NextChain(call) \in Collections
        /\ (NextChain(call).step # "idle" => NextChain(call).todo # <<>>)
    <3>1. CASE Len(call.todo) = 1
      <4>1. <<>> \in Seq(RankedChains)
        OBVIOUS
      <4>2. NextChain(call) = [step |-> "idle", todo |-> <<>>, at |-> 0]
        BY <3>1 DEF NextChain, IdleCollection
      <4> QED BY <4>1, <4>2 DEF Collections
    <3>2. CASE Len(call.todo) # 1
      <4>1. PICK rest \in Seq(RankedChains) : rest = Tail(call.todo)
        BY <2>3
      <4>2. rest # <<>>
        <5>1. Len(rest) # 0
          BY <2>3, <3>2, <4>1
        <5> QED BY <5>1, EmptySeq
      <4>3. NextChain(call) = [call EXCEPT !.step = "chain", !.todo = rest]
        BY <3>2, <4>1 DEF NextChain
      <4>4. NextChain(call) \in Collections /\ NextChain(call).todo = rest
        BY <1>1, <4>3 DEF Collections
      <4> QED BY <4>2, <4>4
    <3> QED BY <3>1, <3>2
  <2>5. /\ metricRows' \in [RankedChains -> Seq(ScoreRows)]
        /\ \A c \in RankedChains : RecordedBy(metricRows[c]) <= RecordedBy(metricRows'[c])
    <3>1. CASE UNCHANGED metricRows
      BY <1>1, <1>3, <3>1
    <3>2. ASSUME NEW a \in Aggregates,
                 metricRows' = [metricRows EXCEPT ![Head(call.todo)] = Append(@, Metric(call.at, a))]
          PROVE  /\ metricRows' \in [RankedChains -> Seq(ScoreRows)]
                 /\ \A c \in RankedChains : RecordedBy(metricRows[c]) <= RecordedBy(metricRows'[c])
      <4>1. PICK m \in ScoreRows : m = Metric(call.at, a)
        BY <2>2, MetricIs
      <4>2. PICK h \in RankedChains : h = Head(call.todo)
        BY <2>3
      <4>3. metricRows' = [metricRows EXCEPT ![h] = Append(metricRows[h], m)]
        BY <1>1, <3>2, <4>1, <4>2
      <4>4. metricRows[h] \in Seq(ScoreRows) /\ Append(metricRows[h], m) \in Seq(ScoreRows)
        BY <1>1, AppendProperties
      <4>5. RecordedBy(metricRows[h]) <= RecordedBy(Append(metricRows[h], m))
        BY <4>4, RecordedGrows
      <4>6. metricRows' \in [RankedChains -> Seq(ScoreRows)]
        BY <1>1, <4>3, <4>4
      <4>7. \A c \in RankedChains :
              metricRows'[c] = IF c = h THEN Append(metricRows[h], m) ELSE metricRows[c]
        BY <1>1, <4>3
      <4>8. ASSUME NEW c \in RankedChains PROVE RecordedBy(metricRows[c]) <= RecordedBy(metricRows'[c])
        <5>1. CASE c = h
          BY <4>5, <4>7, <5>1
        <5>2. CASE c # h
          <6>1. metricRows'[c] = metricRows[c]
            BY <4>7, <5>2
          <6> QED BY <1>3, <6>1
        <5> QED BY <5>1, <5>2
      <4> QED BY <4>6, <4>8
    <3> QED BY <2>1, <3>1, <3>2
  <2> HIDE DEF call
  <2> QED BY <1>1, <1>2, <2>1, <2>4, <2>5 DEF ReliabilityTypeOK
<1> QED BY <1>4, <1>5, <1>6

LEMMA ViewStays ==
  ASSUME ReliabilityInv, UNCHANGED view, ReliabilityTypeOK',
         \A c \in RankedChains : RecordedBy(metricRows[c]) <= RecordedBy(metricRows'[c])
  PROVE  ReliabilityInv'
<1>1. LeaderboardIsCurrent'
  BY DEF ReliabilityInv, LeaderboardIsCurrent
<1>2. FoundIsCurrent'
  <2> SUFFICES ASSUME view.step = "metrics"
      PROVE  \A c \in RankedChains : view.before[c] <= RecordedBy(metricRows'[c])
    BY DEF ReliabilityInv, FoundIsCurrent
  <2> TAKE c \in RankedChains
  <2>1. view.before[c] \in Int /\ view.before[c] <= RecordedBy(metricRows[c])
    BY DEF ReliabilityInv, FoundIsCurrent
  <2>2. RecordedBy(metricRows[c]) \in Int /\ RecordedBy(metricRows'[c]) \in Int
    BY RecordedIs DEF ReliabilityInv, ReliabilityTypeOK
  <2> QED BY <2>1, <2>2
<1> QED BY <1>1, <1>2 DEF ReliabilityInv

LEMMA IdleViewIs == IdleView \in Views /\ IdleView.step = "idle"
<1>1. <<>> \in Seq(RankedChains) /\ <<>> \in Seq(ScoredMetrics) /\ <<>> \in Seq(Entries)
  OBVIOUS
<1> QED BY <1>1 DEF IdleView, Views

LEMMA GetLeaderboardKeeps ==
  ASSUME ReliabilityInv, GetLeaderboard
  PROVE  ReliabilityInv'
<1>1. /\ UNCHANGED <<metricRows, tick, collections>> /\ ReliabilityTypeOK
      /\ metricRows \in [RankedChains -> Seq(ScoreRows)]
  BY DEF GetLeaderboard, ReliabilityInv, ReliabilityTypeOK
<1>2. PICK recorded : recorded = [c \in RankedChains |-> RecordedBy(metricRows[c])]
  OBVIOUS
<1>3. recorded \in [RankedChains -> Int]
  BY <1>1, <1>2, RecordedIs
<1>4. PICK compared \in Comparisons :
        view' = [IdleView EXCEPT !.step = "metrics", !.todo = ChainOrder, !.compared = compared,
                   !.before = recorded]
  BY <1>2 DEF GetLeaderboard
<1>5. compared \in SUBSET RankedChains /\ ChainOrder \in Seq(RankedChains)
  BY ChainReliabilityAssumption
<1>6. /\ view' \in Views /\ view'.step = "metrics" /\ view'.todo = ChainOrder
      /\ view'.before = recorded /\ view'.found = <<>>
  <2>1. IdleView.found = <<>>
    BY DEF IdleView
  <2> QED BY <1>3, <1>4, <1>5, <2>1, IdleViewIs DEF Views
<1>7. ReliabilityTypeOK'
  BY <1>1, <1>6 DEF ReliabilityTypeOK
<1>8. LeaderboardIsCurrent'
  BY <1>6 DEF LeaderboardIsCurrent
<1>9. FoundIsCurrent'
  <2>1. \A c \in RankedChains : \E i \in DOMAIN ChainOrder : ChainOrder[i] = c
    BY DEF RankedChains, ToSet
  <2>2. \A c \in RankedChains : recorded[c] = RecordedBy(metricRows[c]) /\ recorded[c] \in Int
    BY <1>2, <1>3
  <2>3. \A c \in RankedChains : recorded[c] <= RecordedBy(metricRows'[c])
    BY <1>1, <2>2
  <2> QED BY <1>3, <1>6, <2>1, <2>3 DEF FoundIsCurrent
<1> QED BY <1>7, <1>8, <1>9 DEF ReliabilityInv

LEMMA GetLatestMetricKeeps ==
  ASSUME ReliabilityInv, GetLatestMetric
  PROVE  ReliabilityInv'
<1>1. /\ UNCHANGED <<metricRows, tick, collections>> /\ view \in Views
      /\ view.step = "metrics" /\ view.todo # <<>>
      /\ metricRows \in [RankedChains -> Seq(ScoreRows)]
  BY DEF GetLatestMetric, ReliabilityInv, ReliabilityTypeOK
<1>2. view.todo \in Seq(RankedChains) /\ view.found \in Seq(ScoredMetrics)
  BY <1>1 DEF Views
<1>3. PICK chain \in RankedChains, rest \in Seq(RankedChains) :
        /\ chain = Head(view.todo) /\ rest = Tail(view.todo)
        /\ \A i \in DOMAIN view.todo : view.todo[i] = chain \/ \E k \in DOMAIN rest : rest[k] = view.todo[i]
  <2>1. /\ Head(view.todo) \in RankedChains /\ Tail(view.todo) \in Seq(RankedChains)
        /\ Head(view.todo) = view.todo[1]
        /\ Len(Tail(view.todo)) = Len(view.todo) - 1 /\ Len(view.todo) \in Nat
        /\ \A k \in 1 .. Len(Tail(view.todo)) : Tail(view.todo)[k] = view.todo[k + 1]
    BY <1>1, <1>2, HeadTailProperties
  <2>2. PICK tail : tail = Tail(view.todo)
    OBVIOUS
  <2>3. tail \in Seq(RankedChains) /\ Len(tail) = Len(view.todo) - 1 /\ Len(view.todo) \in Nat
        /\ \A k \in DOMAIN tail : tail[k] = view.todo[k + 1]
    BY <2>1, <2>2
  <2>4. ASSUME NEW i \in DOMAIN view.todo, i # 1
        PROVE  \E k \in DOMAIN tail : tail[k] = view.todo[i]
    <3>1. i \in 1 .. Len(view.todo)
      BY <1>2
    <3>2. i - 1 \in 1 .. Len(tail) /\ (i - 1) + 1 = i
      BY <2>3, <2>4, <3>1
    <3>3. i - 1 \in DOMAIN tail
      BY <2>3, <3>2
    <3> QED BY <2>3, <3>2, <3>3
  <2>5. \A i \in DOMAIN view.todo :
          view.todo[i] = Head(view.todo) \/ \E k \in DOMAIN tail : tail[k] = view.todo[i]
    BY <2>1, <2>4
  <2>6. Head(view.todo) \in RankedChains
    BY <2>1
  <2> QED BY <2>2, <2>3, <2>5, <2>6
<1>4. PICK stored \in Seq(ScoreRows) : stored = metricRows[chain]
  BY <1>1
<1>5. /\ view.before \in [RankedChains -> Int]
      /\ \A c \in RankedChains : view.before[c] <= RecordedBy(metricRows[c])
      /\ \A i \in DOMAIN view.found : view.before[view.found[i].chain] <= view.found[i].at
      /\ \A c \in RankedChains : view.before[c] >= 0 =>
           \/ c = chain \/ \E i \in DOMAIN rest : rest[i] = c
           \/ \E i \in DOMAIN view.found : view.found[i].chain = c
  BY <1>1, <1>3 DEF ReliabilityInv, FoundIsCurrent
<1>6. view.before[chain] \in Int /\ view.before[chain] <= RecordedBy(stored)
  BY <1>4, <1>5
<1>7. ASSUME view' \in Views, view'.step = "metrics", view'.todo = rest, view'.before = view.before,
             \A i \in DOMAIN view'.found : view'.before[view'.found[i].chain] <= view'.found[i].at,
             \A i \in DOMAIN view.found : \E k \in DOMAIN view'.found :
                                             view'.found[k].chain = view.found[i].chain,
             view.before[chain] >= 0 => \E k \in DOMAIN view'.found : view'.found[k].chain = chain
      PROVE  ReliabilityInv'
  <2>1. ReliabilityTypeOK'
    BY <1>1, <1>7 DEF ReliabilityInv, ReliabilityTypeOK
  <2>2. LeaderboardIsCurrent'
    BY <1>7 DEF LeaderboardIsCurrent
  <2>3. FoundIsCurrent'
    <3>1. \A c \in RankedChains : view'.before[c] <= RecordedBy(metricRows'[c])
      BY <1>1, <1>5, <1>7
    <3>2. ASSUME NEW c \in RankedChains, view'.before[c] >= 0
          PROVE  \/ \E i \in DOMAIN view'.todo : view'.todo[i] = c
                 \/ \E i \in DOMAIN view'.found : view'.found[i].chain = c
      <4>1. view.before[c] >= 0
        BY <1>7, <3>2
      <4>2. CASE c = chain
        BY <1>7, <4>1, <4>2
      <4>3. CASE \E i \in DOMAIN rest : rest[i] = c
        BY <1>7, <4>3
      <4>4. CASE \E i \in DOMAIN view.found : view.found[i].chain = c
        BY <1>7, <4>4
      <4> QED BY <1>5, <4>1, <4>2, <4>3, <4>4
    <3>3. view'.before \in [RankedChains -> Int]
      BY <1>5, <1>7
    <3>4. \A i \in DOMAIN view'.found : view'.before[view'.found[i].chain] <= view'.found[i].at
      BY <1>7
    <3> HIDE <1>7
    <3> QED BY <3>1, <3>2, <3>3, <3>4 DEF FoundIsCurrent
  <2> QED BY <2>1, <2>2, <2>3 DEF ReliabilityInv
<1>8. CASE view' = IdleView
  BY <1>1, <1>8, IdleViewIs
     DEF ReliabilityInv, ReliabilityTypeOK, FoundIsCurrent, LeaderboardIsCurrent
<1>9. CASE stored = <<>> /\ view' = [view EXCEPT !.todo = rest]
  <2>1. /\ view' \in Views /\ view'.step = "metrics" /\ view'.todo = rest
        /\ view'.before = view.before /\ view'.found = view.found
    BY <1>1, <1>3, <1>9 DEF Views
  <2>2. ~(view.before[chain] >= 0)
    <3>1. RecordedBy(stored) = -1
      BY <1>9, RecordedIs
    <3>2. PICK b \in Int : b = view.before[chain]
      BY <1>6
    <3> QED BY <1>6, <3>1, <3>2
  <2> QED BY <1>5, <1>7, <2>1, <2>2
<1>10. ASSUME NEW i \in LatestMetrics(stored),
              view' = [view EXCEPT !.todo = rest,
                         !.found = Append(view.found, [chain |-> chain, at |-> stored[i].at,
                                                       score |-> stored[i].score])]
       PROVE  ReliabilityInv'
  <2>1. PICK e \in ScoredMetrics :
          e = [chain |-> chain, at |-> stored[i].at, score |-> stored[i].score]
    <3>1. stored[i] \in ScoreRows
      BY RecordedIs
    <3> QED BY <3>1 DEF ScoreRows, ScoredMetrics
  <2>2. e.chain = chain /\ e.at = RecordedBy(stored)
    BY <2>1, RecordedIs
  <2>3. PICK more \in Seq(ScoredMetrics) :
          /\ more = Append(view.found, e)
          /\ DOMAIN more = 1 .. Len(view.found) + 1 /\ DOMAIN view.found = 1 .. Len(view.found)
          /\ Len(view.found) \in Nat
          /\ more[Len(view.found) + 1] = e
          /\ \A k \in DOMAIN view.found : more[k] = view.found[k]
    <3>1. /\ Append(view.found, e) \in Seq(ScoredMetrics)
          /\ Len(Append(view.found, e)) = Len(view.found) + 1
          /\ Append(view.found, e)[Len(view.found) + 1] = e
          /\ \A k \in 1 .. Len(view.found) : Append(view.found, e)[k] = view.found[k]
      BY <1>2, AppendProperties
    <3>2. PICK more : more = Append(view.found, e)
      OBVIOUS
    <3>3. /\ DOMAIN view.found = 1 .. Len(view.found) /\ Len(view.found) \in Nat
          /\ more \in Seq(ScoredMetrics) /\ Len(more) = Len(view.found) + 1
      BY <1>2, <3>1, <3>2
    <3>4. DOMAIN more = 1 .. Len(view.found) + 1
      BY <3>3
    <3> QED BY <3>1, <3>2, <3>3, <3>4
  <2>4. /\ view' \in Views /\ view'.step = "metrics" /\ view'.todo = rest
        /\ view'.before = view.before /\ view'.found = more
    <3>1. view' = [view EXCEPT !.todo = rest, !.found = more]
      BY <1>10, <2>1, <2>3
    <3> QED BY <1>1, <1>3, <3>1 DEF Views
  <2>5. \A k \in DOMAIN more : k \in DOMAIN view.found \/ k = Len(view.found) + 1
    BY <2>3
  <2>6. \A k \in DOMAIN more : view.before[more[k].chain] <= more[k].at
    <3> TAKE k \in DOMAIN more
    <3>1. CASE k \in DOMAIN view.found
      BY <1>5, <2>3, <3>1
    <3>2. CASE k = Len(view.found) + 1
      BY <1>6, <2>2, <2>3, <3>2
    <3> QED BY <2>5, <3>1, <3>2
  <2>7. \A k \in DOMAIN view.found : k \in DOMAIN more /\ more[k].chain = view.found[k].chain
    BY <2>3
  <2>8. Len(view.found) + 1 \in DOMAIN more /\ more[Len(view.found) + 1].chain = chain
    BY <2>2, <2>3
  <2> QED BY <1>7, <2>4, <2>6, <2>7, <2>8
<1> QED BY <1>3, <1>4, <1>8, <1>9, <1>10 DEF GetLatestMetric

LEMMA RankLeaderboardKeeps ==
  ASSUME ReliabilityInv, RankLeaderboard
  PROVE  ReliabilityInv'
<1>1. /\ UNCHANGED <<metricRows, tick, collections>> /\ view \in Views
      /\ view.step = "metrics" /\ view.todo = <<>>
  BY DEF RankLeaderboard, ReliabilityInv, ReliabilityTypeOK
<1>2. view.found \in Seq(ScoredMetrics) /\ view.compared \in SUBSET RankedChains
  BY <1>1 DEF Views
<1>3. PICK limit \in Nat : limit = Limit(view.compared) /\ (view.compared = {} => limit = BoardLimit)
  <2>1. IsFiniteSet(RankedChains)
    <3>1. IsFiniteSet(DOMAIN ChainOrder)
      <4>1. DOMAIN ChainOrder = 1 .. Len(ChainOrder) /\ Len(ChainOrder) \in Nat
        BY ChainReliabilityAssumption
      <4> QED BY <4>1, FS_Interval
    <3> QED BY <3>1, ValuesAreFinite DEF RankedChains, ToSet
  <2>2. Cardinality(view.compared) \in Nat
    BY <1>2, <2>1, FS_Subset, FS_CardinalityType
  <2> QED BY <2>2, ChainReliabilityAssumption DEF Limit
<1>4. PICK ranked : ranked = Ranked(view.found, limit)
  OBVIOUS
<1>5. PICK picked : picked = Picked(ranked, view.compared)
  OBVIOUS
<1>6. /\ ranked \in Seq(Entries)
      /\ \A r \in DOMAIN ranked :
           /\ ranked[r].rank = r
           /\ \E i \in DOMAIN view.found :
                ranked[r].chain = view.found[i].chain /\ ranked[r].at = view.found[i].at
      /\ \A r, s \in DOMAIN ranked : r < s => ranked[r].score >= ranked[s].score
      /\ \/ Len(ranked) = limit
         \/ \A i \in DOMAIN view.found : \E r \in DOMAIN ranked : ranked[r].chain = view.found[i].chain
  BY <1>2, <1>4, RankedIs
<1>7. picked \in Seq(Entries)
  BY <1>5, <1>6, PickedIs
<1>8. PICK entries \in Seq(Entries) : entries = IF view.compared = {} THEN ranked ELSE picked
  BY <1>6, <1>7
<1>9. view' = [view EXCEPT !.step = "done", !.found = <<>>, !.entries = entries]
  BY <1>3, <1>4, <1>5, <1>8 DEF RankLeaderboard
<1>10. /\ view' \in Views /\ view'.step = "done" /\ view'.entries = entries
       /\ view'.before = view.before /\ view'.compared = view.compared
  <2>1. <<>> \in Seq(ScoredMetrics)
    OBVIOUS
  <2> QED BY <1>1, <1>9, <2>1 DEF Views
<1>11. /\ \A i \in DOMAIN view.found : view.before[view.found[i].chain] <= view.found[i].at
       /\ \A c \in RankedChains : view.before[c] >= 0 =>
            \E i \in DOMAIN view.found : view.found[i].chain = c
  BY <1>1 DEF ReliabilityInv, FoundIsCurrent
<1>12. PICK place :
         /\ \A p \in DOMAIN entries : place[p] \in DOMAIN ranked /\ entries[p] = ranked[place[p]]
         /\ \A p, q \in DOMAIN entries : p < q => place[p] < place[q]
  <2>1. CASE view.compared = {}
    <3> DEFINE id == [p \in DOMAIN ranked |-> p]
    <3>1. \A p \in DOMAIN entries : id[p] = p /\ id[p] \in DOMAIN ranked /\ entries[p] = ranked[id[p]]
      BY <1>8, <2>1
    <3> HIDE DEF id
    <3>2. \A p, q \in DOMAIN entries : p < q => id[p] < id[q]
      BY <3>1
    <3> QED BY <3>1, <3>2
  <2>2. CASE view.compared # {}
    <3>1. entries = Picked(ranked, view.compared)
      BY <1>5, <1>8, <2>2
    <3>2. \E place :
            /\ \A p \in DOMAIN Picked(ranked, view.compared) :
                 /\ place[p] \in DOMAIN ranked
                 /\ Picked(ranked, view.compared)[p] = ranked[place[p]]
            /\ \A p, q \in DOMAIN Picked(ranked, view.compared) : p < q => place[p] < place[q]
      BY <1>6, PickedIs
    <3> QED BY <3>1, <3>2
  <2> QED BY <2>1, <2>2
<1>13. \A i, k \in DOMAIN entries : i < k =>
         entries[i].rank < entries[k].rank /\ entries[i].score >= entries[k].score
  BY <1>6, <1>12
<1>14. \A i \in DOMAIN entries : view.before[entries[i].chain] <= entries[i].at
  <2> TAKE p \in DOMAIN entries
  <2>1. PICK r \in DOMAIN ranked : entries[p] = ranked[r]
    BY <1>12
  <2>2. PICK i \in DOMAIN view.found :
          ranked[r].chain = view.found[i].chain /\ ranked[r].at = view.found[i].at
    BY <1>6
  <2> QED BY <1>11, <2>1, <2>2
<1>15. view.compared = {} =>
         /\ \A i \in DOMAIN entries : entries[i].rank = i
         /\ \A c \in RankedChains : view.before[c] >= 0 =>
              Len(entries) = BoardLimit \/ \E i \in DOMAIN entries : entries[i].chain = c
  <2> SUFFICES ASSUME view.compared = {}
      PROVE  /\ \A i \in DOMAIN entries : entries[i].rank = i
             /\ \A c \in RankedChains : view.before[c] >= 0 =>
                  Len(entries) = BoardLimit \/ \E i \in DOMAIN entries : entries[i].chain = c
    OBVIOUS
  <2>1. entries = ranked /\ limit = BoardLimit
    BY <1>3, <1>8
  <2> QED BY <1>6, <1>11, <2>1
<1>16. LeaderboardIsCurrent'
  BY <1>10, <1>13, <1>14, <1>15 DEF LeaderboardIsCurrent
<1>17. FoundIsCurrent'
  BY <1>10 DEF FoundIsCurrent
<1>18. ReliabilityTypeOK'
  BY <1>1, <1>10 DEF ReliabilityInv, ReliabilityTypeOK
<1> QED BY <1>16, <1>17, <1>18 DEF ReliabilityInv

(* In every reachable state a leaderboard that is given ranks by falling score, is   *)
(* not behind what was recorded when it was asked for, and leaves out no chain but   *)
(* for its limit.                                                                    *)
THEOREM LeaderboardHolds == ReliabilitySpec => []LeaderboardIsCurrent
<1>1. ReliabilityInit => ReliabilityInv
  <2> SUFFICES ASSUME ReliabilityInit PROVE ReliabilityInv
    OBVIOUS
  <2>1. metricRows \in [RankedChains -> Seq(ScoreRows)]
    <3>1. \A a \in Aggregates : Metric(0, a) \in ScoreRows
      BY MetricIs
    <3>2. <<>> \in Seq(ScoreRows) /\ \A a \in Aggregates : <<Metric(0, a)>> \in Seq(ScoreRows)
      BY <3>1
    <3>3. \A c \in RankedChains : metricRows[c] \in Seq(ScoreRows)
      BY <3>2 DEF ReliabilityInit
    <3>4. metricRows \in [RankedChains -> {<<>>} \cup {<<Metric(0, a)>> : a \in Aggregates}]
      BY DEF ReliabilityInit
    <3> QED BY <3>3, <3>4
  <2>2. /\ collections \in [Collectors -> Collections]
        /\ \A j \in Collectors : collections[j].step = "idle"
    <3>1. IdleCollection \in Collections /\ IdleCollection.step = "idle"
      <4>1. <<>> \in Seq(RankedChains)
        OBVIOUS
      <4> QED BY <4>1 DEF IdleCollection, Collections
    <3>2. collections = [j \in Collectors |-> IdleCollection]
      BY DEF ReliabilityInit
    <3> QED BY <3>1, <3>2
  <2>3. view \in Views /\ view.step = "idle" /\ tick = 0
    BY IdleViewIs DEF ReliabilityInit
  <2> QED BY <2>1, <2>2, <2>3
      DEF ReliabilityInv, ReliabilityTypeOK, FoundIsCurrent, LeaderboardIsCurrent
<1>2. ReliabilityInv /\ [ReliabilityNext]_reliabilityVars => ReliabilityInv'
  <2> SUFFICES ASSUME ReliabilityInv, [ReliabilityNext]_reliabilityVars PROVE ReliabilityInv'
    OBVIOUS
  <2>1. CASE TickPasses \/ UNCHANGED reliabilityVars
    <3>1. /\ UNCHANGED <<metricRows, collections, view>>
          /\ tick \in Nat /\ (tick' = tick + 1 \/ tick' = tick)
      BY <2>1 DEF TickPasses, reliabilityVars, ReliabilityInv, ReliabilityTypeOK
    <3>2. ReliabilityTypeOK'
      BY <3>1 DEF ReliabilityInv, ReliabilityTypeOK
    <3>3. \A c \in RankedChains : RecordedBy(metricRows[c]) <= RecordedBy(metricRows'[c])
      <4>1. \A c \in RankedChains : RecordedBy(metricRows[c]) \in Int
        BY RecordedIs DEF ReliabilityInv, ReliabilityTypeOK
      <4> QED BY <3>1, <4>1
    <3> QED BY <3>1, <3>2, <3>3, ViewStays
  <2>2. ASSUME NEW j \in Collectors, CollectAllChainMetrics(j) \/ CollectMetrics(j) \/ SaveMetric(j)
        PROVE  ReliabilityInv'
    BY <2>2, CollectionsKeep, ViewStays
  <2> QED BY <2>1, <2>2, GetLeaderboardKeeps, GetLatestMetricKeeps, RankLeaderboardKeeps
      DEF ReliabilityNext
<1>3. ReliabilityInv => LeaderboardIsCurrent
  BY DEF ReliabilityInv
<1> QED BY <1>1, <1>2, <1>3, PTL DEF ReliabilitySpec
=================================================================================
