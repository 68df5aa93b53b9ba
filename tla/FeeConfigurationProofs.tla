------------------------ MODULE FeeConfigurationProofs ------------------------
(* Theorems about FeeConfiguration: type correctness, the timelock, the      *)
(* completeness of the history, the quorum, that a request takes effect      *)
(* once, that decisions are final, and that the whole implements             *)
(* ChangeControl.                                                            *)
EXTENDS FeeConfiguration, SequenceTheorems, FiniteSetTheorems, TLAPS

(* What the helpers return. *)

LEMMA MergeType ==
  ASSUME NEW fees \in Fees, NEW patch \in Patches
  PROVE  Merge(fees, patch) \in Fees
  BY FeeAssumption DEF Merge, Fees

LEMMA EffectiveDateType ==
  ASSUME TypeOK, NEW d \in RequestDates
  PROVE  /\ EffectiveDateWithDelay(d) \in [kind : {"date", "text"}, at : Nat]
         /\ PromisedDate(d) \in Nat /\ PromisedDate(d) >= now
         /\ IF EffectiveDateWithDelay(d).kind = "date"
            THEN EffectiveDateWithDelay(d).at >= PromisedDate(d)
            ELSE PromisedDate(d) = now
  <1>1. d \in [kind : {"none", "date", "text"}, at : Nat] /\ d.kind \in DateKinds
    <2>1. d \in [kind : DateKinds, at : 0..MaxTime]
      BY DEF RequestDates
    <2>2. DateKinds \subseteq {"none", "date", "text"} /\ 0..MaxTime \subseteq Nat
      BY FeeAssumption
    <2>3. QED
      BY <2>1, <2>2
  <1>2. now \in Nat /\ settings.timelockDelayMinutes \in Nat
    BY DEF TypeOK
  <1>3. QED
    BY <1>1, <1>2 DEF EffectiveDateWithDelay, PromisedDate, Date

LEMMA SubmissionType ==
  ASSUME TypeOK, NEW kind \in {"direct", "approval"}, NEW u \in Users,
         NEW c \in Configs, NEW patch \in Patches, NEW d \in RequestDates
  PROVE  /\ Submission(kind, u, c, patch, d) \in Submissions
         /\ Submission(kind, u, c, patch, d).promised = PromisedDate(d)
         /\ Submission(kind, u, c, patch, d).config = c
  <1>1. settings \in Settings /\ settings.timelockDelayMinutes \in Nat /\ now \in Nat
    BY DEF TypeOK
  <1>2. settings.largeChangeThreshold \in Int /\ IsMultisigEnabled \in BOOLEAN
    BY <1>1 DEF Settings, IsMultisigEnabled
  <1>3. QED
    BY <1>1, <1>2, EffectiveDateType DEF Submission, Submissions

\* Applying a request adds one well-formed entry, stamped with the clock.
LEMMA ApplyType ==
  ASSUME TypeOK, NEW s \in Submissions, NEW src \in Nat, ApplyFeeUpdate(s, src)
  PROVE  /\ configs' \in [Configs -> [version : Nat, fees : Fees]]
         /\ \E e \in Entries : history' = history \cup {e} /\ e.src = src /\ e.at = now
  <1> DEFINE current == configs[s.config]
             fees == Merge(current.fees, s.patch)
             e == [type |-> "FEE_UPDATED", config |-> s.config,
                   version |-> current.version + 1, fees |-> fees, old |-> current.fees,
                   by |-> s.by, src |-> src, at |-> now]
  <1>1. s.config \in Configs /\ s.patch \in Patches /\ s.by \in Users
    BY DEF Submissions
  <1>2. current \in [version : Nat, fees : Fees] /\ now \in Nat
    BY <1>1 DEF TypeOK
  <1>3. fees \in Fees
    BY <1>1, <1>2, MergeType
  <1>4. configs' = [configs EXCEPT ![s.config] =
                      [version |-> current.version + 1, fees |-> fees]]
    BY DEF ApplyFeeUpdate
  <1>5. history' = history \cup {e}
    BY DEF ApplyFeeUpdate
  <1>6. e \in Entries
    BY <1>1, <1>2, <1>3 DEF Entries
  <1> HIDE DEF fees
  <1>7. configs' \in [Configs -> [version : Nat, fees : Fees]]
    BY <1>1, <1>2, <1>3, <1>4 DEF TypeOK
  <1>8. QED
    BY <1>5, <1>6, <1>7

LEMMA AppendType ==
  ASSUME NEW S, NEW seq \in Seq(S), NEW e \in S
  PROVE  /\ Append(seq, e) \in Seq(S)
         /\ DOMAIN Append(seq, e) = 1..(Len(seq) + 1)
         /\ DOMAIN seq = 1..Len(seq) /\ Len(seq) \in Nat
         /\ \A k \in DOMAIN seq : Append(seq, e)[k] = seq[k]
         /\ Append(seq, e)[Len(seq) + 1] = e
  OBVIOUS

LEMMA ExceptType ==
  ASSUME NEW S, NEW seq \in Seq(S), NEW k \in DOMAIN seq, NEW e \in S
  PROVE  /\ [seq EXCEPT ![k] = e] \in Seq(S)
         /\ DOMAIN [seq EXCEPT ![k] = e] = DOMAIN seq
         /\ \A j \in DOMAIN seq : [seq EXCEPT ![k] = e][j] = IF j = k THEN e ELSE seq[j]
  <1>1. DOMAIN seq = 1..Len(seq) /\ k \in 1..Len(seq)
    OBVIOUS
  <1>2. QED
    BY <1>1, ExceptSeq

\* Scheduling adds one entry for the request; applying, one history entry.
LEMMA ScheduleOrApplyType ==
  ASSUME TypeOK, NEW s \in Submissions, NEW src \in Nat,
         NEW eff \in [kind : {"date", "text"}, at : Nat],
         ScheduleOrApply(s, src, eff)
  PROVE  /\ configs' \in [Configs -> [version : Nat, fees : Fees]]
         /\ \/ /\ eff.kind = "date" /\ now < eff.at /\ history' = history
               /\ scheduled' = Append(scheduled, [src |-> src, at |-> eff.at, status |-> "SCHEDULED"])
            \/ /\ eff.kind = "date" => eff.at <= now
               /\ scheduled' = scheduled
               /\ \E e \in Entries : history' = history \cup {e} /\ e.src = src /\ e.at = now
  <1>1. now \in Nat /\ configs \in [Configs -> [version : Nat, fees : Fees]]
    BY DEF TypeOK
  <1>2. CASE LaterThanNow(eff) /\ ScheduleFeeUpdate(src, eff.at) /\ UNCHANGED <<configs, history>>
    BY <1>1, <1>2 DEF LaterThanNow, ScheduleFeeUpdate
  <1>3. CASE ~LaterThanNow(eff) /\ ApplyFeeUpdate(s, src) /\ UNCHANGED scheduled
    <2>1. eff.kind = "date" => eff.at <= now
      BY <1>1, <1>3 DEF LaterThanNow
    <2>2. QED
      BY <1>3, <2>1, ApplyType
  <1>4. QED
    BY <1>2, <1>3 DEF ScheduleOrApply

(* Type correctness, action by action. *)

LEMMA InitType == Init => TypeOK
  <1> SUFFICES ASSUME Init PROVE TypeOK
    OBVIOUS
  <1>1. NoFees \in Fees
    BY DEF NoFees, Fees
  <1>2. configs \in [Configs -> [version : Nat, fees : Fees]]
    BY <1>1, FeeAssumption DEF Init
  <1>3. settings \in Settings /\ settings.timelockDelayMinutes \in Nat
    BY FeeAssumption DEF Init, Settings
  <1>4. history = {} /\ approvals = <<>> /\ scheduled = <<>> /\ submitted = <<>>
        /\ now = 0 /\ approving = {} /\ loops \in [Loops -> [index : Nat, now : Nat]]
        /\ \A l \in Loops : loops[l].index = 0
    BY DEF Init
  <1>5. QED
    BY <1>2, <1>3, <1>4 DEF TypeOK

LEMMA UpdateType ==
  ASSUME TypeOK, NEW u \in Users, NEW c \in Configs, NEW p \in Patches,
         NEW d \in RequestDates, UpdateConfiguration(u, c, p, d)
  PROVE  TypeOK'
  <1> DEFINE s == Submission("direct", u, c, p, d)
             eff == EffectiveDateWithDelay(d)
             src == Len(submitted) + 1
  <1>1. s \in Submissions
    BY SubmissionType
  <1>2. eff \in [kind : {"date", "text"}, at : Nat]
    BY EffectiveDateType
  <1>3. /\ submitted' = Append(submitted, s)
        /\ ScheduleOrApply(s, src, eff)
        /\ UNCHANGED <<approvals, settings, now, approving, loops>>
    BY DEF UpdateConfiguration, NextRequest
  <1>4. submitted \in Seq(Submissions) /\ scheduled \in Seq(ScheduledUpdates) /\ src \in Nat
    BY DEF TypeOK
  <1> HIDE DEF s, eff
  <1>5. submitted' \in Seq(Submissions) /\ DOMAIN submitted' = 1..src
        /\ DOMAIN submitted = 1..Len(submitted)
    BY <1>1, <1>3, <1>4, AppendType
  <1>6. /\ configs' \in [Configs -> [version : Nat, fees : Fees]]
        /\ \/ /\ eff.kind = "date" /\ history' = history
              /\ scheduled' = Append(scheduled, [src |-> src, at |-> eff.at, status |-> "SCHEDULED"])
           \/ /\ scheduled' = scheduled
              /\ \E e \in Entries : history' = history \cup {e} /\ e.src = src
    BY <1>1, <1>2, <1>3, <1>4, ScheduleOrApplyType
  <1>7. history' \in SUBSET Entries /\ \A h \in history' : h.src > 0 => h.src \in 1..src
    BY <1>4, <1>5, <1>6 DEF TypeOK
  <1>8. /\ scheduled' \in Seq(ScheduledUpdates)
        /\ DOMAIN scheduled \subseteq DOMAIN scheduled'
        /\ \A k \in DOMAIN scheduled' : scheduled'[k].src \in 1..src
    <2>1. [src |-> src, at |-> eff.at, status |-> "SCHEDULED"] \in ScheduledUpdates
      BY <1>2, <1>4 DEF ScheduledUpdates
    <2>2. \A k \in DOMAIN scheduled : scheduled[k].src \in 1..src
      BY <1>4, <1>5 DEF TypeOK
    <2>3. CASE scheduled' = scheduled
      BY <1>4, <2>2, <2>3
    <2>4. CASE scheduled' = Append(scheduled, [src |-> src, at |-> eff.at, status |-> "SCHEDULED"])
      BY <1>4, <2>1, <2>2, <2>4, AppendType
    <2>5. QED
      BY <1>6, <2>3, <2>4
  <1>9. QED
    BY <1>3, <1>4, <1>5, <1>6, <1>7, <1>8 DEF TypeOK

LEMMA CreateType ==
  ASSUME TypeOK, NEW u \in Users, NEW c \in Configs, NEW fees \in NewFees,
         CreateConfiguration(u, c, fees)
  PROVE  TypeOK'
  <1> DEFINE e == [type |-> "FEE_CREATED", config |-> c, version |-> 1, fees |-> fees,
                   old |-> fees, by |-> u, src |-> 0, at |-> now]
  <1>1. fees \in Fees /\ now \in Nat
    BY FeeAssumption DEF TypeOK
  <1>2. e \in Entries
    BY <1>1 DEF Entries
  <1>3. configs' = [configs EXCEPT ![c] = [version |-> 1, fees |-> fees]]
        /\ history' = history \cup {e}
        /\ UNCHANGED <<approvals, scheduled, settings, now, approving, loops, submitted>>
    BY DEF CreateConfiguration
  <1>4. configs' \in [Configs -> [version : Nat, fees : Fees]]
    BY <1>1, <1>3 DEF TypeOK
  <1>5. QED
    BY <1>2, <1>3, <1>4 DEF TypeOK

LEMMA CreateApprovalType ==
  ASSUME TypeOK, NEW u \in Users, NEW c \in Configs, NEW p \in Patches,
         NEW d \in RequestDates, CreateApprovalRequest(u, c, p, d)
  PROVE  TypeOK'
  <1> DEFINE s == Submission("approval", u, c, p, d)
             src == Len(submitted) + 1
             a == [src |-> src, status |-> "PENDING",
                   requiredSigners |-> settings.multisigSigners,
                   threshold |-> settings.multisigApprovalThreshold,
                   approvals |-> IF u \in settings.multisigSigners THEN <<u>> ELSE <<>>,
                   rejections |-> <<>>, effectiveDate |-> EffectiveDateWithDelay(d)]
  <1>1. s \in Submissions
    BY SubmissionType
  <1>2. settings \in Settings /\ submitted \in Seq(Submissions)
        /\ approvals \in Seq(ApprovalRequests) /\ src \in Nat
    BY DEF TypeOK
  <1>3. a \in ApprovalRequests
    BY <1>2, EffectiveDateType DEF ApprovalRequests, Settings
  <1>4. /\ submitted' = Append(submitted, s)
        /\ approvals' = Append(approvals, a)
        /\ UNCHANGED <<configs, history, scheduled, settings, now, approving, loops>>
    BY DEF CreateApprovalRequest, NextRequest
  <1>5. a.src = src
    OBVIOUS
  <1> HIDE DEF s, a
  <1>6. submitted' \in Seq(Submissions) /\ DOMAIN submitted' = 1..src
        /\ DOMAIN submitted = 1..Len(submitted)
    BY <1>1, <1>2, <1>4, AppendType
  <1>7. /\ approvals' \in Seq(ApprovalRequests)
        /\ DOMAIN approvals \subseteq DOMAIN approvals'
        /\ \A r \in DOMAIN approvals' : approvals'[r].src \in 1..src
    <2>1. \A r \in DOMAIN approvals : approvals[r].src \in 1..src
      BY <1>2, <1>6 DEF TypeOK
    <2>2. QED
      BY <1>2, <1>3, <1>4, <1>5, <2>1, AppendType
  <1>8. QED
    BY <1>2, <1>4, <1>6, <1>7, SMTT(30) DEF TypeOK

\* Replacing one approval request by one of the same src keeps the references.
LEMMA ApprovalUpdate ==
  ASSUME TypeOK, NEW r \in DOMAIN approvals, NEW a \in ApprovalRequests,
         a.src = approvals[r].src, approvals' = [approvals EXCEPT ![r] = a],
         submitted' = submitted
  PROVE  /\ approvals' \in Seq(ApprovalRequests)
         /\ DOMAIN approvals' = DOMAIN approvals
         /\ \A q \in DOMAIN approvals' : approvals'[q].src \in DOMAIN submitted'
  BY ExceptType DEF TypeOK

\* The same for a scheduled update.
LEMMA ScheduledUpdate ==
  ASSUME TypeOK, NEW i \in DOMAIN scheduled, NEW e \in ScheduledUpdates,
         e.src = scheduled[i].src, scheduled' = [scheduled EXCEPT ![i] = e],
         submitted' = submitted
  PROVE  /\ scheduled' \in Seq(ScheduledUpdates)
         /\ DOMAIN scheduled' = DOMAIN scheduled
         /\ \A k \in DOMAIN scheduled' : scheduled'[k].src \in DOMAIN submitted'
  BY ExceptType DEF TypeOK

\* The request behind an approval or a scheduled update is a submitted one.
LEMMA SourceType ==
  ASSUME TypeOK
  PROVE  /\ DOMAIN submitted = 1..Len(submitted) /\ Len(submitted) \in Nat
         /\ \A r \in DOMAIN approvals :
              /\ approvals[r] \in ApprovalRequests
              /\ approvals[r].src \in Nat \ {0}
              /\ submitted[approvals[r].src] \in Submissions
         /\ \A k \in DOMAIN scheduled :
              /\ scheduled[k] \in ScheduledUpdates
              /\ scheduled[k].src \in Nat \ {0}
              /\ submitted[scheduled[k].src] \in Submissions
  <1>1. /\ submitted \in Seq(Submissions) /\ approvals \in Seq(ApprovalRequests)
        /\ scheduled \in Seq(ScheduledUpdates)
    BY DEF TypeOK
  <1>2. DOMAIN submitted = 1..Len(submitted) /\ Len(submitted) \in Nat
    BY <1>1
  <1>3. \A i \in DOMAIN submitted : i \in Nat \ {0} /\ submitted[i] \in Submissions
    BY <1>1, <1>2
  <1>4. \A r \in DOMAIN approvals : approvals[r] \in ApprovalRequests
    BY <1>1
  <1>5. \A k \in DOMAIN scheduled : scheduled[k] \in ScheduledUpdates
    BY <1>1
  <1>6. QED
    BY <1>2, <1>3, <1>4, <1>5 DEF TypeOK

LEMMA ApproveType ==
  ASSUME TypeOK, NEW u \in Users, NEW r \in DOMAIN approvals,
         ApproveApprovalRequest(u, r)
  PROVE  TypeOK'
  <1> DEFINE a == approvals[r]
             votes == Append(a.approvals, u)
             b == [a EXCEPT !.approvals = votes]
  <1>1. a \in ApprovalRequests /\ a.src \in Nat /\ submitted[a.src] \in Submissions
    BY SourceType
  <1>2. votes \in Seq(Users)
    BY <1>1, AppendType DEF ApprovalRequests
  <1>3. b \in ApprovalRequests /\ b.src = a.src
    BY <1>1, <1>2 DEF ApprovalRequests
  <1>4. approvals' = [approvals EXCEPT ![r] = b] /\ UNCHANGED <<settings, now, loops, submitted>>
    BY DEF ApproveApprovalRequest
  <1>5. \/ UNCHANGED <<configs, history, scheduled, approving>>
        \/ /\ ScheduleOrApply(submitted[a.src], a.src, a.effectiveDate)
           /\ approving' = approving \cup {r}
    BY DEF ApproveApprovalRequest
  <1> HIDE DEF b, votes
  <1>6. /\ approvals' \in Seq(ApprovalRequests) /\ DOMAIN approvals' = DOMAIN approvals
        /\ \A q \in DOMAIN approvals' : approvals'[q].src \in DOMAIN submitted'
    BY <1>3, <1>4, ApprovalUpdate
  <1>7. CASE UNCHANGED <<configs, history, scheduled, approving>>
    BY <1>4, <1>6, <1>7 DEF TypeOK
  <1>8. CASE ScheduleOrApply(submitted[a.src], a.src, a.effectiveDate) /\ approving' = approving \cup {r}
    <2> DEFINE new == [src |-> a.src, at |-> a.effectiveDate.at, status |-> "SCHEDULED"]
    <2>1. a.effectiveDate \in [kind : {"date", "text"}, at : Nat]
      BY <1>1 DEF ApprovalRequests
    <2>2. /\ configs' \in [Configs -> [version : Nat, fees : Fees]]
          /\ \/ history' = history /\ scheduled' = Append(scheduled, new)
             \/ /\ scheduled' = scheduled
                /\ \E e \in Entries : history' = history \cup {e} /\ e.src = a.src
      BY <1>1, <1>8, <2>1, ScheduleOrApplyType
    <2>3. a.src \in DOMAIN submitted
      BY DEF TypeOK
    <2>4. history' \in SUBSET Entries /\ \A h \in history' : h.src > 0 => h.src \in DOMAIN submitted
      BY <2>2, <2>3 DEF TypeOK
    <2>5. /\ scheduled' \in Seq(ScheduledUpdates)
          /\ DOMAIN scheduled \subseteq DOMAIN scheduled'
          /\ \A k \in DOMAIN scheduled' : scheduled'[k].src \in DOMAIN submitted
      <3>1. new \in ScheduledUpdates /\ scheduled \in Seq(ScheduledUpdates) /\ new.src = a.src
        BY <1>1, <2>1 DEF ScheduledUpdates, TypeOK
      <3>2. \A k \in DOMAIN scheduled : scheduled[k].src \in DOMAIN submitted
        BY DEF TypeOK
      <3>3. CASE scheduled' = scheduled
        BY <3>1, <3>2, <3>3
      <3>4. CASE scheduled' = Append(scheduled, new)
        <4> HIDE DEF new
        <4>1. QED
          BY <2>3, <3>1, <3>2, <3>4, AppendType
      <3>5. QED
        BY <2>2, <3>3, <3>4
    <2>6. approving' \subseteq DOMAIN approvals
      BY <1>8 DEF TypeOK
    <2>7. QED
      BY <1>4, <1>6, <2>2, <2>4, <2>5, <2>6 DEF TypeOK
  <1>9. QED
    BY <1>5, <1>7, <1>8

LEMMA FinishType ==
  ASSUME TypeOK, NEW r \in DOMAIN approvals, FinishApproval(r)
  PROVE  TypeOK'
  <1> DEFINE b == [approvals[r] EXCEPT !.status = "APPROVED"]
  <1>1. approvals[r] \in ApprovalRequests
    BY SourceType
  <1>2. b \in ApprovalRequests /\ b.src = approvals[r].src
    BY <1>1 DEF ApprovalRequests
  <1>3. /\ approvals' = [approvals EXCEPT ![r] = b]
        /\ approving' = approving \ {r}
        /\ UNCHANGED <<configs, history, scheduled, settings, now, loops, submitted>>
    BY DEF FinishApproval
  <1> HIDE DEF b
  <1>4. QED
    BY <1>2, <1>3, ApprovalUpdate DEF TypeOK

LEMMA RejectType ==
  ASSUME TypeOK, NEW u \in Users, NEW r \in DOMAIN approvals,
         RejectApprovalRequest(u, r)
  PROVE  TypeOK'
  <1> DEFINE a == approvals[r]
             votes == Append(a.rejections, u)
             b == [a EXCEPT !.rejections = votes,
                            !.status = IF Len(votes) >= RejectionsNeeded(a) THEN "REJECTED" ELSE @]
  <1>1. a \in ApprovalRequests
    BY SourceType
  <1>2. votes \in Seq(Users)
    BY <1>1, AppendType DEF ApprovalRequests
  <1>3. approvals' = [approvals EXCEPT ![r] = b]
        /\ UNCHANGED <<configs, history, scheduled, settings, now, approving, loops, submitted>>
    BY DEF RejectApprovalRequest
  <1> HIDE DEF votes
  <1>4. b \in ApprovalRequests /\ b.src = a.src
    BY <1>1, <1>2 DEF ApprovalRequests
  <1> HIDE DEF b
  <1>5. QED
    BY <1>3, <1>4, ApprovalUpdate DEF TypeOK

\* A loop applies the scheduled update k.
LEMMA LoopApplyType ==
  ASSUME TypeOK, NEW k \in DOMAIN scheduled,
         ApplyFeeUpdate(submitted[scheduled[k].src], scheduled[k].src)
  PROVE  /\ configs' \in [Configs -> [version : Nat, fees : Fees]]
         /\ history' \in SUBSET Entries
         /\ \A h \in history' : h.src > 0 => h.src \in DOMAIN submitted
  <1>1. submitted[scheduled[k].src] \in Submissions /\ scheduled[k].src \in Nat
        /\ scheduled[k].src \in DOMAIN submitted
    BY SourceType DEF TypeOK
  <1>2. QED
    BY <1>1, ApplyType DEF TypeOK

LEMMA ProcessType ==
  ASSUME TypeOK, NEW l \in Loops, ProcessPendingScheduledUpdates(l)
  PROVE  TypeOK'
  <1>1. PICK k \in DOMAIN scheduled :
          /\ ApplyFeeUpdate(submitted[scheduled[k].src], scheduled[k].src)
          /\ loops' = [loops EXCEPT ![l] = [index |-> k, now |-> now]]
    BY DEF ProcessPendingScheduledUpdates
  <1>2. UNCHANGED <<approvals, scheduled, settings, now, approving, submitted>>
    BY DEF ProcessPendingScheduledUpdates
  <1>3. k \in Nat
    BY DEF TypeOK
  <1>4. loops' \in [Loops -> [index : Nat, now : Nat]]
        /\ \A m \in Loops : loops'[m].index > 0 => loops'[m].index \in DOMAIN scheduled
    BY <1>1, <1>3 DEF TypeOK
  <1>5. QED
    BY <1>1, <1>2, <1>4, LoopApplyType DEF TypeOK

LEMMA ContinueType ==
  ASSUME TypeOK, NEW l \in Loops, ContinueProcessing(l)
  PROVE  TypeOK'
  <1> DEFINE i == loops[l].index
             e == [scheduled[i] EXCEPT !.status = "EXECUTED"]
  <1>1. i \in DOMAIN scheduled
    BY DEF ContinueProcessing, TypeOK
  <1>2. scheduled[i] \in ScheduledUpdates
    BY <1>1, SourceType
  <1>3. e \in ScheduledUpdates /\ e.src = scheduled[i].src
    BY <1>2 DEF ScheduledUpdates
  <1>4. scheduled' = [scheduled EXCEPT ![i] = e]
        /\ UNCHANGED <<approvals, settings, now, approving, submitted>>
    BY DEF ContinueProcessing
  <1> HIDE DEF e
  <1>5. /\ scheduled' \in Seq(ScheduledUpdates) /\ DOMAIN scheduled' = DOMAIN scheduled
        /\ \A k \in DOMAIN scheduled' : scheduled'[k].src \in DOMAIN submitted'
    BY <1>1, <1>3, <1>4, ScheduledUpdate
  <1>6. CASE \E k \in DOMAIN scheduled :
               /\ ApplyFeeUpdate(submitted[scheduled[k].src], scheduled[k].src)
               /\ loops' = [loops EXCEPT ![l].index = k]
    <2>1. PICK k \in DOMAIN scheduled :
               /\ ApplyFeeUpdate(submitted[scheduled[k].src], scheduled[k].src)
               /\ loops' = [loops EXCEPT ![l].index = k]
      BY <1>6
    <2>2. k \in Nat
      BY DEF TypeOK
    <2>3. loops' \in [Loops -> [index : Nat, now : Nat]]
          /\ \A m \in Loops : loops'[m].index > 0 => loops'[m].index \in DOMAIN scheduled
      BY <2>1, <2>2 DEF TypeOK
    <2>4. QED
      BY <1>4, <1>5, <2>1, <2>3, LoopApplyType DEF TypeOK
  <1>7. CASE /\ loops' = [loops EXCEPT ![l] = [index |-> 0, now |-> 0]]
             /\ UNCHANGED <<configs, history>>
    <2>1. loops' \in [Loops -> [index : Nat, now : Nat]]
          /\ \A m \in Loops : loops'[m].index > 0 => loops'[m].index \in DOMAIN scheduled
      BY <1>7 DEF TypeOK
    <2>2. QED
      BY <1>4, <1>5, <1>7, <2>1 DEF TypeOK
  <1>8. QED
    BY <1>6, <1>7 DEF ContinueProcessing

LEMMA SettingsType ==
  ASSUME TypeOK, NEW s \in SettingsValues, UpdateAdminSettings(s)
  PROVE  TypeOK'
  <1>1. s \in Settings
    BY FeeAssumption
  <1>2. s.timelockDelayMinutes \in Nat
    BY <1>1 DEF UpdateAdminSettings, SettingsAccepted, Settings
  <1>3. settings' = s
        /\ UNCHANGED <<configs, history, approvals, scheduled, now, approving, loops, submitted>>
    BY DEF UpdateAdminSettings
  <1>4. QED
    BY <1>1, <1>2, <1>3 DEF TypeOK

LEMMA StepType == TypeOK /\ [Next]_vars => TypeOK'
  <1> SUFFICES ASSUME TypeOK, [Next]_vars PROVE TypeOK'
    OBVIOUS
  <1>1. CASE UNCHANGED vars
    BY <1>1 DEF vars, TypeOK
  <1>2. CASE Tick
    BY <1>2 DEF Tick, TypeOK
  <1>3. CASE \E u \in Users, c \in Configs :
               \E p \in Patches, d \in RequestDates : UpdateConfiguration(u, c, p, d)
    BY <1>3, UpdateType
  <1>4. CASE \E u \in Users, c \in Configs :
               \E p \in Patches, d \in RequestDates : CreateApprovalRequest(u, c, p, d)
    BY <1>4, CreateApprovalType
  <1>5. CASE \E u \in Users, c \in Configs : \E fees \in NewFees : CreateConfiguration(u, c, fees)
    BY <1>5, CreateType
  <1>6. CASE \E u \in Users, r \in DOMAIN approvals : ApproveApprovalRequest(u, r)
    BY <1>6, ApproveType
  <1>7. CASE \E u \in Users, r \in DOMAIN approvals : RejectApprovalRequest(u, r)
    BY <1>7, RejectType
  <1>8. CASE \E r \in DOMAIN approvals : FinishApproval(r)
    BY <1>8, FinishType
  <1>9. CASE \E l \in Loops : ProcessPendingScheduledUpdates(l)
    BY <1>9, ProcessType
  <1>10. CASE \E l \in Loops : ContinueProcessing(l)
    BY <1>10, ContinueType
  <1>11. CASE \E s \in SettingsValues : UpdateAdminSettings(s)
    BY <1>11, SettingsType
  <1>12. QED
    BY <1>1, <1>2, <1>3, <1>4, <1>5, <1>6, <1>7, <1>8, <1>9, <1>10, <1>11 DEF Next

\* The service's state keeps its shape, and no reference from one part to
\* another (request of an approval, entry of a suspended loop) ever dangles.
THEOREM TypeCorrect == Spec => []TypeOK
  <1>1. QED
    BY InitType, StepType, PTL DEF Spec

-------------------------------------------------------------------------------
(* The timelock.  TimelockRespected speaks of applied changes only; what     *)
(* makes it inductive is that the date is already right while a change waits *)
(* (as an approval request, unless the promised date is past already, or as  *)
(* a scheduled update) and that a loop's `now` is never ahead of the clock.  *)

Earliest(requests, src) == requests[src].promised

Timely(date, requests, src) ==
  \/ date.kind = "date" /\ date.at >= Earliest(requests, src)
  \/ Earliest(requests, src) <= now

TimelockInv ==
  /\ \A k \in DOMAIN scheduled : scheduled[k].at >= Earliest(submitted, scheduled[k].src)
  /\ \A r \in DOMAIN approvals :
       Timely(approvals[r].effectiveDate, submitted, approvals[r].src)
  /\ \A l \in Loops : loops[l].now <= now
  /\ TimelockRespected

LEMMA EarliestType ==
  ASSUME TypeOK, NEW src \in DOMAIN submitted
  PROVE  Earliest(submitted, src) \in Nat
  <1>1. submitted[src] \in Submissions
    BY DEF TypeOK
  <1>2. QED
    BY <1>1 DEF Submissions, Earliest

\* A new request leaves the earliest dates of the others alone; its own is the
\* date it is promised.
LEMMA EarliestGrows ==
  ASSUME TypeOK, NEW s \in Submissions, submitted' = Append(submitted, s)
  PROVE  /\ \A src \in DOMAIN submitted : Earliest(submitted', src) = Earliest(submitted, src)
         /\ Earliest(submitted', Len(submitted) + 1) = s.promised
  <1>1. submitted \in Seq(Submissions)
    BY DEF TypeOK
  <1>2. /\ \A k \in DOMAIN submitted : submitted'[k] = submitted[k]
        /\ submitted'[Len(submitted) + 1] = s
    BY <1>1, AppendType
  <1>3. QED
    BY <1>2 DEF Earliest

\* Applying, now, a request whose earliest date is past keeps the timelock.
LEMMA ApplyInTime ==
  ASSUME TypeOK, TimelockRespected, NEW src \in DOMAIN submitted, Earliest(submitted, src) <= now,
         NEW e \in Entries, history' = history \cup {e}, e.src = src, e.at = now,
         submitted' = submitted
  PROVE  TimelockRespected'
  BY EarliestType DEF TimelockRespected, Earliest

LEMMA UpdateInTime ==
  ASSUME TypeOK, TimelockInv, NEW u \in Users, NEW c \in Configs,
         NEW p \in Patches, NEW d \in RequestDates, UpdateConfiguration(u, c, p, d)
  PROVE  TimelockInv'
  <1> DEFINE s == Submission("direct", u, c, p, d)
             eff == EffectiveDateWithDelay(d)
             src == Len(submitted) + 1
             new == [src |-> src, at |-> eff.at, status |-> "SCHEDULED"]
  <1>1. s \in Submissions /\ s.promised = PromisedDate(d)
    BY SubmissionType
  <1>2. /\ eff \in [kind : {"date", "text"}, at : Nat] /\ s.promised \in Nat
        /\ IF eff.kind = "date" THEN eff.at >= s.promised ELSE s.promised = now
    BY <1>1, EffectiveDateType
  <1>3. /\ submitted' = Append(submitted, s)
        /\ ScheduleOrApply(s, src, eff)
        /\ UNCHANGED <<approvals, settings, now, approving, loops>>
    BY DEF UpdateConfiguration, NextRequest
  <1>4. src \in Nat /\ scheduled \in Seq(ScheduledUpdates) /\ now \in Nat
    BY DEF TypeOK
  <1> HIDE DEF s, eff
  <1>5. /\ \A i \in DOMAIN submitted : Earliest(submitted', i) = Earliest(submitted, i)
        /\ Earliest(submitted', src) = s.promised
    BY <1>1, <1>3, EarliestGrows
  <1>6. \/ eff.kind = "date" /\ history' = history /\ scheduled' = Append(scheduled, new)
        \/ /\ eff.kind = "date" => eff.at <= now
           /\ scheduled' = scheduled
           /\ \E e \in Entries : history' = history \cup {e} /\ e.src = src /\ e.at = now
    BY <1>1, <1>2, <1>3, <1>4, ScheduleOrApplyType, SMTT(30)
  <1>7. \A h \in history : h.src > 0 => h.at >= Earliest(submitted', h.src)
    BY <1>5 DEF TimelockInv, TimelockRespected, Earliest, TypeOK
  <1>8. \A h \in history' : h.src > 0 => h.at >= Earliest(submitted', h.src)
    <2>1. (eff.kind = "date" => eff.at <= now) => now >= s.promised
      BY <1>2, <1>4
    <2>2. QED
      BY <1>5, <1>6, <1>7, <2>1
  <1>9. \A k \in DOMAIN scheduled' : scheduled'[k].at >= Earliest(submitted', scheduled'[k].src)
    <2>1. \A k \in DOMAIN scheduled : scheduled[k].at >= Earliest(submitted', scheduled[k].src)
      BY <1>5 DEF TimelockInv, TypeOK
    <2>2. CASE scheduled' = scheduled
      BY <2>1, <2>2
    <2>3. CASE eff.kind = "date" /\ scheduled' = Append(scheduled, new)
      <3>1. new \in ScheduledUpdates
        BY <1>2, <1>4 DEF ScheduledUpdates
      <3>2. new.at >= Earliest(submitted', new.src)
        BY <1>2, <1>5, <2>3
      <3> HIDE DEF new
      <3>3. QED
        BY <1>4, <2>1, <2>3, <3>1, <3>2, AppendType
    <2>4. QED
      BY <1>6, <2>2, <2>3
  <1>10. \A r \in DOMAIN approvals' :
           Timely(approvals[r].effectiveDate, submitted, approvals[r].src)'
    BY <1>3, <1>5 DEF TimelockInv, Timely, TypeOK
  <1>11. \A l \in Loops : loops'[l].now <= now'
    BY <1>3 DEF TimelockInv
  <1>12. QED
    BY <1>8, <1>9, <1>10, <1>11 DEF TimelockInv, TimelockRespected, Earliest

LEMMA CreateApprovalInTime ==
  ASSUME TypeOK, TimelockInv, NEW u \in Users, NEW c \in Configs,
         NEW p \in Patches, NEW d \in RequestDates, CreateApprovalRequest(u, c, p, d)
  PROVE  TimelockInv'
  <1> DEFINE s == Submission("approval", u, c, p, d)
             src == Len(submitted) + 1
             a == [src |-> src, status |-> "PENDING",
                   requiredSigners |-> settings.multisigSigners,
                   threshold |-> settings.multisigApprovalThreshold,
                   approvals |-> IF u \in settings.multisigSigners THEN <<u>> ELSE <<>>,
                   rejections |-> <<>>, effectiveDate |-> EffectiveDateWithDelay(d)]
  <1>1. s \in Submissions /\ s.promised = PromisedDate(d)
    BY SubmissionType
  <1>2. settings \in Settings /\ submitted \in Seq(Submissions)
        /\ approvals \in Seq(ApprovalRequests) /\ src \in Nat
    BY DEF TypeOK
  <1>3. a \in ApprovalRequests
    BY <1>2, EffectiveDateType DEF ApprovalRequests, Settings
  <1>4. /\ a.src = src
        /\ \/ a.effectiveDate.kind = "date" /\ a.effectiveDate.at >= s.promised
           \/ s.promised = now
        /\ now \in Nat
    BY <1>1, EffectiveDateType DEF TypeOK
  <1>5. /\ submitted' = Append(submitted, s)
        /\ approvals' = Append(approvals, a)
        /\ UNCHANGED <<configs, history, scheduled, settings, now, approving, loops>>
    BY DEF CreateApprovalRequest, NextRequest
  <1> HIDE DEF s, a
  <1>6. /\ \A i \in DOMAIN submitted : Earliest(submitted', i) = Earliest(submitted, i)
        /\ Earliest(submitted', src) = s.promised
    BY <1>1, <1>5, EarliestGrows
  <1>7. \A h \in history' : h.src > 0 => h.at >= Earliest(submitted', h.src)
    BY <1>5, <1>6 DEF TimelockInv, TimelockRespected, Earliest, TypeOK
  <1>8. \A k \in DOMAIN scheduled' : scheduled'[k].at >= Earliest(submitted', scheduled'[k].src)
    BY <1>5, <1>6 DEF TimelockInv, TypeOK
  <1>9. \A r \in DOMAIN approvals' :
          Timely(approvals[r].effectiveDate, submitted, approvals[r].src)'
    <2>1. \A r \in DOMAIN approvals :
            Timely(approvals[r].effectiveDate, submitted', approvals[r].src)
      BY <1>6 DEF TimelockInv, Timely, TypeOK
    <2>2. Timely(a.effectiveDate, submitted', a.src) /\ now' = now
      BY <1>4, <1>5, <1>6 DEF Timely
    <2>3. \A r \in DOMAIN approvals' :
            Timely(approvals'[r].effectiveDate, submitted', approvals'[r].src)
      BY <1>2, <1>3, <1>5, <2>1, <2>2, AppendType
    <2>4. QED
      BY <2>2, <2>3 DEF Timely
  <1>10. QED
    BY <1>5, <1>7, <1>8, <1>9 DEF TimelockInv, TimelockRespected, Earliest

LEMMA ApproveInTime ==
  ASSUME TypeOK, TimelockInv, NEW u \in Users, NEW r \in DOMAIN approvals,
         ApproveApprovalRequest(u, r)
  PROVE  TimelockInv'
  <1> DEFINE a == approvals[r]
             b == [a EXCEPT !.approvals = Append(a.approvals, u)]
             new == [src |-> a.src, at |-> a.effectiveDate.at, status |-> "SCHEDULED"]
  <1>1. /\ a \in ApprovalRequests /\ a.src \in Nat /\ submitted[a.src] \in Submissions
        /\ a.src \in DOMAIN submitted
    BY SourceType DEF TypeOK
  <1>2. /\ a.effectiveDate \in [kind : {"date", "text"}, at : Nat]
        /\ Timely(a.effectiveDate, submitted, a.src)
    BY <1>1 DEF TimelockInv, ApprovalRequests
  <1>3. /\ b.src = a.src /\ b.effectiveDate = a.effectiveDate
        /\ approvals' = [approvals EXCEPT ![r] = b] /\ UNCHANGED <<settings, now, loops, submitted>>
    BY <1>1 DEF ApproveApprovalRequest, ApprovalRequests
  <1> HIDE DEF b
  <1>4. \A q \in DOMAIN approvals' :
          Timely(approvals[q].effectiveDate, submitted, approvals[q].src)'
    BY <1>2, <1>3 DEF TimelockInv, Timely
  <1>5. CASE UNCHANGED <<configs, history, scheduled, approving>>
    BY <1>3, <1>4, <1>5 DEF TimelockInv, TimelockRespected
  <1>6. CASE ScheduleOrApply(submitted[a.src], a.src, a.effectiveDate)
    <2>1. \/ /\ a.effectiveDate.kind = "date" /\ now < a.effectiveDate.at
             /\ history' = history /\ scheduled' = Append(scheduled, new)
          \/ /\ a.effectiveDate.kind = "date" => a.effectiveDate.at <= now
             /\ scheduled' = scheduled
             /\ \E e \in Entries : history' = history \cup {e} /\ e.src = a.src /\ e.at = now
      BY <1>1, <1>2, <1>6, ScheduleOrApplyType
    <2>2. CASE /\ a.effectiveDate.kind = "date" /\ now < a.effectiveDate.at
               /\ history' = history /\ scheduled' = Append(scheduled, new)
      <3>1. new \in ScheduledUpdates /\ scheduled \in Seq(ScheduledUpdates)
        BY <1>1, <1>2 DEF ScheduledUpdates, TypeOK
      <3>2. new.at >= Earliest(submitted', new.src)
        BY <1>1, <1>2, <1>3, <2>2, EarliestType DEF Timely, TypeOK
      <3> HIDE DEF new
      <3>3. \A k \in DOMAIN scheduled' : scheduled'[k].at >= Earliest(submitted', scheduled'[k].src)
        BY <1>3, <2>2, <3>1, <3>2, AppendType DEF TimelockInv
      <3>4. QED
        BY <1>3, <1>4, <2>2, <3>3 DEF TimelockInv, TimelockRespected
    <2>3. CASE /\ a.effectiveDate.kind = "date" => a.effectiveDate.at <= now
               /\ scheduled' = scheduled
               /\ \E e \in Entries : history' = history \cup {e} /\ e.src = a.src /\ e.at = now
      <3>1. Earliest(submitted, a.src) <= now
        BY <1>1, <1>2, <2>3, EarliestType DEF Timely, TypeOK
      <3>2. TimelockRespected'
        BY <1>1, <1>3, <2>3, <3>1, ApplyInTime DEF TimelockInv
      <3>3. QED
        BY <1>3, <1>4, <2>3, <3>2 DEF TimelockInv
    <2>4. QED
      BY <2>1, <2>2, <2>3
  <1>7. QED
    BY <1>5, <1>6 DEF ApproveApprovalRequest

\* A finished approval or a rejection leaves every date alone.
LEMMA VoteInTime ==
  ASSUME TypeOK, TimelockInv, NEW r \in DOMAIN approvals, NEW b,
         b.src = approvals[r].src, b.effectiveDate = approvals[r].effectiveDate,
         approvals' = [approvals EXCEPT ![r] = b],
         UNCHANGED <<history, scheduled, now, loops, submitted>>
  PROVE  TimelockInv'
  BY DEF TimelockInv, TimelockRespected, Timely

LEMMA FinishInTime ==
  ASSUME TypeOK, TimelockInv, NEW r \in DOMAIN approvals, FinishApproval(r)
  PROVE  TimelockInv'
  <1> DEFINE b == [approvals[r] EXCEPT !.status = "APPROVED"]
  <1>1. approvals[r] \in ApprovalRequests
    BY SourceType
  <1>2. b.src = approvals[r].src /\ b.effectiveDate = approvals[r].effectiveDate
    BY <1>1 DEF ApprovalRequests
  <1>3. approvals' = [approvals EXCEPT ![r] = b]
        /\ UNCHANGED <<history, scheduled, now, loops, submitted>>
    BY DEF FinishApproval
  <1> HIDE DEF b
  <1>4. QED
    BY <1>2, <1>3, VoteInTime

LEMMA RejectInTime ==
  ASSUME TypeOK, TimelockInv, NEW u \in Users, NEW r \in DOMAIN approvals,
         RejectApprovalRequest(u, r)
  PROVE  TimelockInv'
  <1> DEFINE a == approvals[r]
             votes == Append(a.rejections, u)
             b == [a EXCEPT !.rejections = votes,
                            !.status = IF Len(votes) >= RejectionsNeeded(a) THEN "REJECTED" ELSE @]
  <1>1. a \in ApprovalRequests
    BY SourceType
  <1> HIDE DEF votes
  <1>2. b.src = a.src /\ b.effectiveDate = a.effectiveDate
    BY <1>1 DEF ApprovalRequests
  <1> USE DEF votes
  <1>3. approvals' = [approvals EXCEPT ![r] = b]
        /\ UNCHANGED <<history, scheduled, now, loops, submitted>>
    BY DEF RejectApprovalRequest
  <1> HIDE DEF b
  <1>4. QED
    BY <1>2, <1>3, VoteInTime

\* A loop applies an update only when its date has come by the loop's `now`.
LEMMA LoopApplyInTime ==
  ASSUME TypeOK, TimelockInv, NEW k \in DOMAIN scheduled, NEW t \in Nat, t <= now,
         IsDue(k, t), ApplyFeeUpdate(submitted[scheduled[k].src], scheduled[k].src),
         submitted' = submitted
  PROVE  TimelockRespected'
  <1> DEFINE src == scheduled[k].src
  <1>1. /\ scheduled[k] \in ScheduledUpdates /\ src \in Nat /\ submitted[src] \in Submissions
        /\ src \in DOMAIN submitted
    BY SourceType DEF TypeOK
  <1>2. PICK e \in Entries : history' = history \cup {e} /\ e.src = src /\ e.at = now
    BY <1>1, ApplyType
  <1>3. Earliest(submitted, src) <= now
    BY <1>1, EarliestType DEF IsDue, TimelockInv, ScheduledUpdates, TypeOK
  <1>4. QED
    BY <1>1, <1>2, <1>3, ApplyInTime DEF TimelockInv

LEMMA ProcessInTime ==
  ASSUME TypeOK, TimelockInv, NEW l \in Loops, ProcessPendingScheduledUpdates(l)
  PROVE  TimelockInv'
  <1>1. PICK k \in DOMAIN scheduled :
          /\ IsNextDue(k, 0, now)
          /\ ApplyFeeUpdate(submitted[scheduled[k].src], scheduled[k].src)
          /\ loops' = [loops EXCEPT ![l] = [index |-> k, now |-> now]]
    BY DEF ProcessPendingScheduledUpdates
  <1>2. UNCHANGED <<approvals, scheduled, settings, now, approving, submitted>>
    BY DEF ProcessPendingScheduledUpdates
  <1>3. now \in Nat /\ IsDue(k, now)
    BY <1>1 DEF IsNextDue, TypeOK
  <1>4. TimelockRespected'
    BY <1>1, <1>2, <1>3, LoopApplyInTime
  <1>5. \A m \in Loops : loops'[m].now <= now
    BY <1>1, <1>3 DEF TimelockInv, TypeOK
  <1>6. QED
    BY <1>2, <1>4, <1>5 DEF TimelockInv, Timely

LEMMA ContinueInTime ==
  ASSUME TypeOK, TimelockInv, NEW l \in Loops, ContinueProcessing(l)
  PROVE  TimelockInv'
  <1> DEFINE i == loops[l].index
             e == [scheduled[i] EXCEPT !.status = "EXECUTED"]
  <1>1. i \in DOMAIN scheduled
    BY DEF ContinueProcessing, TypeOK
  <1>2. scheduled[i] \in ScheduledUpdates
    BY <1>1, SourceType
  <1>3. e.src = scheduled[i].src /\ e.at = scheduled[i].at
    BY <1>2 DEF ScheduledUpdates
  <1>4. scheduled' = [scheduled EXCEPT ![i] = e]
        /\ UNCHANGED <<approvals, settings, now, approving, submitted>>
    BY DEF ContinueProcessing
  <1> HIDE DEF e
  <1>5. \A k \in DOMAIN scheduled' : scheduled'[k].at >= Earliest(submitted', scheduled'[k].src)
    BY <1>1, <1>3, <1>4 DEF TimelockInv
  <1>6. now \in Nat /\ loops \in [Loops -> [index : Nat, now : Nat]] /\ loops[l].now <= now
    BY DEF TypeOK, TimelockInv
  <1>7. CASE \E k \in DOMAIN scheduled :
               /\ IsNextDue(k, i, loops[l].now)
               /\ ApplyFeeUpdate(submitted[scheduled[k].src], scheduled[k].src)
               /\ loops' = [loops EXCEPT ![l].index = k]
    <2>1. PICK k \in DOMAIN scheduled :
               /\ IsNextDue(k, i, loops[l].now)
               /\ ApplyFeeUpdate(submitted[scheduled[k].src], scheduled[k].src)
               /\ loops' = [loops EXCEPT ![l].index = k]
      BY <1>7
    <2>2. IsDue(k, loops[l].now) /\ loops[l].now \in Nat
      BY <1>6, <2>1 DEF IsNextDue
    <2>3. TimelockRespected'
      BY <1>4, <1>6, <2>1, <2>2, LoopApplyInTime
    <2>4. \A m \in Loops : loops'[m].now <= now
      BY <1>6, <2>1 DEF TimelockInv
    <2>5. QED
      BY <1>4, <1>5, <2>3, <2>4 DEF TimelockInv, Timely
  <1>8. CASE /\ loops' = [loops EXCEPT ![l] = [index |-> 0, now |-> 0]]
             /\ UNCHANGED <<configs, history>>
    <2>1. \A m \in Loops : loops'[m].now <= now
      BY <1>6, <1>8 DEF TimelockInv
    <2>2. QED
      BY <1>4, <1>5, <1>8, <2>1 DEF TimelockInv, TimelockRespected, Timely
  <1>9. QED
    BY <1>7, <1>8 DEF ContinueProcessing

LEMMA StepInTime == TypeOK /\ TimelockInv /\ [Next]_vars => TimelockInv'
  <1> SUFFICES ASSUME TypeOK, TimelockInv, [Next]_vars PROVE TimelockInv'
    OBVIOUS
  <1>1. CASE UNCHANGED vars
    BY <1>1 DEF vars, TimelockInv, TimelockRespected, Timely
  <1>2. CASE Tick
    <2>1. now' >= now /\ now \in Nat /\ loops \in [Loops -> [index : Nat, now : Nat]]
      BY <1>2 DEF Tick, TypeOK
    <2>2. \A l \in Loops : loops'[l].now <= now'
      BY <1>2, <2>1 DEF Tick, TimelockInv
    <2>3. ASSUME NEW r \in DOMAIN approvals
          PROVE  Timely(approvals[r].effectiveDate, submitted, approvals[r].src)'
      <3>1. Timely(approvals[r].effectiveDate, submitted, approvals[r].src)
        BY DEF TimelockInv
      <3>2. PICK src \in DOMAIN submitted : src = approvals[r].src
        BY DEF TypeOK
      <3>3. Earliest(submitted, src) \in Nat
        BY EarliestType
      <3>4. UNCHANGED <<approvals, submitted>> /\ now' \in Nat
        BY <1>2, <2>1 DEF Tick
      <3>5. QED
        BY <2>1, <3>1, <3>2, <3>3, <3>4 DEF Timely
    <2>4. UNCHANGED <<approvals, scheduled, submitted, history>>
      BY <1>2 DEF Tick
    <2>5. QED
      BY <2>2, <2>3, <2>4 DEF TimelockInv, TimelockRespected
  <1>3. CASE \E u \in Users, c \in Configs :
               \E p \in Patches, d \in RequestDates : UpdateConfiguration(u, c, p, d)
    BY <1>3, UpdateInTime
  <1>4. CASE \E u \in Users, c \in Configs :
               \E p \in Patches, d \in RequestDates : CreateApprovalRequest(u, c, p, d)
    BY <1>4, CreateApprovalInTime
  <1>5. CASE \E u \in Users, c \in Configs : \E fees \in NewFees : CreateConfiguration(u, c, fees)
    BY <1>5 DEF CreateConfiguration, TimelockInv, TimelockRespected, Timely
  <1>6. CASE \E u \in Users, r \in DOMAIN approvals : ApproveApprovalRequest(u, r)
    BY <1>6, ApproveInTime
  <1>7. CASE \E u \in Users, r \in DOMAIN approvals : RejectApprovalRequest(u, r)
    BY <1>7, RejectInTime
  <1>8. CASE \E r \in DOMAIN approvals : FinishApproval(r)
    BY <1>8, FinishInTime
  <1>9. CASE \E l \in Loops : ProcessPendingScheduledUpdates(l)
    BY <1>9, ProcessInTime
  <1>10. CASE \E l \in Loops : ContinueProcessing(l)
    BY <1>10, ContinueInTime
  <1>11. CASE \E s \in SettingsValues : UpdateAdminSettings(s)
    BY <1>11 DEF UpdateAdminSettings, TimelockInv, TimelockRespected, Timely
  <1>12. QED
    BY <1>1, <1>2, <1>3, <1>4, <1>5, <1>6, <1>7, <1>8, <1>9, <1>10, <1>11 DEF Next

LEMMA DatesHold == Spec => []TimelockInv
  <1>1. Init => TimelockInv
    BY FeeAssumption DEF Init, TimelockInv, TimelockRespected
  <1>2. TypeOK /\ TimelockInv /\ [Next]_vars => TimelockInv'
    BY StepInTime
  <1>3. QED
    BY <1>1, <1>2, TypeCorrect, PTL DEF Spec

\* However many requests, signers, settings changes and overlapping calls there
\* are, no change is in force before what it was promised when it was submitted:
\* its timelock and the date it names (a date given as a string promises nothing).
THEOREM TimelockHolds == Spec => []TimelockRespected
  <1>1. TimelockInv => TimelockRespected
    BY DEF TimelockInv
  <1>2. QED
    BY <1>1, DatesHold, PTL

-------------------------------------------------------------------------------
(* The history.  HistoryInv adds what the next entry needs: versions are     *)
(* numbered without repetition up to the one in force, and the default       *)
(* configuration keeps its first fees until its first update.                *)

HistoryInv ==
  /\ \A h \in history : h.version > 0 /\ h.version <= configs[h.config].version
  /\ \A h \in history :
       h.version = configs[h.config].version => h.fees = configs[h.config].fees
  /\ \A g, h \in history : g.config = h.config /\ g.version = h.version => g = h
  /\ \A g, h \in history : g.config = h.config /\ g.version = h.version + 1 => g.old = h.fees
  /\ \A c \in Configs : \A v \in 2..configs[c].version :
       \E h \in history : h.config = c /\ h.version = v
  /\ configs[Default].version > 0
  /\ configs[Default].version = 1 => configs[Default].fees = DefaultFees
  /\ \A h \in history : h.config = Default /\ h.version = 2 => h.old = DefaultFees

\* A new version and its entry, written together, keep the history complete.
LEMMA VersionRecorded ==
  ASSUME TypeOK, HistoryInv, NEW c \in Configs, NEW e \in Entries, e.config = c,
         e.version = configs[c].version + 1,
         e.old = configs[c].fees \/ configs[c].version = 0,
         configs' = [configs EXCEPT ![c] = [version |-> e.version, fees |-> e.fees]],
         history' = history \cup {e}
  PROVE  HistoryInv'
  <1> DEFINE n == configs[c].version
  <1>1. /\ configs \in [Configs -> [version : Nat, fees : Fees]] /\ n \in Nat
        /\ \A h \in history : h \in Entries
        /\ \A h \in Entries : h.version \in Nat /\ h.config \in Configs
    BY DEF TypeOK, Entries
  <1>2. /\ configs'[c].version = n + 1 /\ configs'[c].fees = e.fees
        /\ \A d \in Configs : d # c => configs'[d] = configs[d]
    BY <1>1
  <1>3. \A h \in history : h.config = c => h.version <= n /\ h.version > 0
    BY DEF HistoryInv
  <1>4. \A h \in history' : h.version > 0 /\ h.version <= configs'[h.config].version
    BY <1>1, <1>2, <1>3 DEF HistoryInv
  <1>5. \A h \in history' : h.version = configs'[h.config].version => h.fees = configs'[h.config].fees
    BY <1>1, <1>2, <1>3 DEF HistoryInv
  <1>6. \A g, h \in history' : g.config = h.config /\ g.version = h.version => g = h
    BY <1>1, <1>3 DEF HistoryInv
  <1>7. \A g, h \in history' : g.config = h.config /\ g.version = h.version + 1 => g.old = h.fees
    <2>1. \A g, h \in history : g.config = h.config /\ g.version = h.version + 1 => g.old = h.fees
      BY DEF HistoryInv
    <2>2. \A h \in history : e.config = h.config /\ e.version = h.version + 1 => e.old = h.fees
      BY <1>1, <1>3 DEF HistoryInv
    <2>3. \A g \in history' : ~(g.config = c /\ g.version = e.version + 1)
      BY <1>1, <1>3
    <2>4. QED
      BY <2>1, <2>2, <2>3
  <1>8. \A d \in Configs : \A v \in 2..configs'[d].version :
          \E h \in history' : h.config = d /\ h.version = v
    <2> SUFFICES ASSUME NEW d \in Configs, NEW v \in 2..configs'[d].version
                 PROVE  \E h \in history' : h.config = d /\ h.version = v
      OBVIOUS
    <2>1. CASE d = c /\ v = n + 1
      BY <2>1
    <2>2. CASE d # c \/ v # n + 1
      <3>1. v \in 2..configs[d].version
        BY <1>1, <1>2, <2>2
      <3>2. QED
        BY <3>1 DEF HistoryInv
    <2>3. QED
      BY <2>1, <2>2
  <1>9. /\ configs'[Default].version > 0
        /\ configs'[Default].version = 1 => configs'[Default].fees = DefaultFees
    BY <1>1, <1>2, FeeAssumption DEF HistoryInv
  <1>10. \A h \in history' : h.config = Default /\ h.version = 2 => h.old = DefaultFees
    BY <1>1, FeeAssumption DEF HistoryInv
  <1>11. QED
    BY <1>4, <1>5, <1>6, <1>7, <1>8, <1>9, <1>10 DEF HistoryInv

LEMMA ApplyRecorded ==
  ASSUME TypeOK, HistoryInv, NEW s \in Submissions, NEW src \in Nat, ApplyFeeUpdate(s, src)
  PROVE  HistoryInv'
  <1> DEFINE current == configs[s.config]
             fees == Merge(current.fees, s.patch)
             e == [type |-> "FEE_UPDATED", config |-> s.config,
                   version |-> current.version + 1, fees |-> fees, old |-> current.fees,
                   by |-> s.by, src |-> src, at |-> now]
  <1>1. s.config \in Configs /\ s.patch \in Patches /\ s.by \in Users
    BY DEF Submissions
  <1>2. current \in [version : Nat, fees : Fees] /\ now \in Nat
    BY <1>1 DEF TypeOK
  <1>3. e \in Entries
    BY <1>1, <1>2, MergeType DEF Entries
  <1>4. /\ configs' = [configs EXCEPT ![s.config] = [version |-> e.version, fees |-> e.fees]]
        /\ history' = history \cup {e}
    BY DEF ApplyFeeUpdate
  <1>5. e.config = s.config /\ e.version = configs[s.config].version + 1 /\ e.old = configs[s.config].fees
    OBVIOUS
  <1> HIDE DEF e
  <1>6. QED
    BY <1>1, <1>3, <1>4, <1>5, VersionRecorded

LEMMA CreateRecorded ==
  ASSUME TypeOK, HistoryInv, NEW u \in Users, NEW c \in Configs, NEW fees \in NewFees,
         CreateConfiguration(u, c, fees)
  PROVE  HistoryInv'
  <1> DEFINE e == [type |-> "FEE_CREATED", config |-> c, version |-> 1, fees |-> fees,
                   old |-> fees, by |-> u, src |-> 0, at |-> now]
  <1>1. fees \in Fees /\ now \in Nat /\ configs[c].version = 0
    BY FeeAssumption DEF TypeOK, CreateConfiguration, Exists
  <1>2. e \in Entries
    BY <1>1 DEF Entries
  <1>3. /\ configs' = [configs EXCEPT ![c] = [version |-> e.version, fees |-> e.fees]]
        /\ history' = history \cup {e}
    BY DEF CreateConfiguration
  <1>4. e.config = c /\ e.version = configs[c].version + 1
    BY <1>1
  <1> HIDE DEF e
  <1>5. QED
    BY <1>1, <1>2, <1>3, <1>4, VersionRecorded

\* What every step does to the configurations and their history: nothing, the
\* application of one submitted request, or the creation of a configuration.
LEMMA StepsRecord ==
  ASSUME TypeOK, Next
  PROVE  \/ UNCHANGED <<configs, history>>
         \/ \E s \in Submissions, src \in Nat : ApplyFeeUpdate(s, src)
         \/ \E u \in Users, c \in Configs, fees \in NewFees : CreateConfiguration(u, c, fees)
  <1>1. CASE \E u \in Users, c \in Configs : \E p \in Patches, d \in RequestDates :
               UpdateConfiguration(u, c, p, d)
    <2>1. PICK u \in Users, c \in Configs, p \in Patches, d \in RequestDates :
            ScheduleOrApply(Submission("direct", u, c, p, d), NextRequest, EffectiveDateWithDelay(d))
      BY <1>1 DEF UpdateConfiguration
    <2>2. Submission("direct", u, c, p, d) \in Submissions
      BY SubmissionType
    <2>3. NextRequest \in Nat
      BY SourceType DEF NextRequest
    <2>4. QED
      BY <2>1, <2>2, <2>3 DEF ScheduleOrApply
  <1>2. CASE \E u \in Users, r \in DOMAIN approvals : ApproveApprovalRequest(u, r)
    BY <1>2, SourceType DEF ApproveApprovalRequest, ScheduleOrApply
  <1>3. CASE \E l \in Loops : ProcessPendingScheduledUpdates(l)
    BY <1>3, SourceType DEF ProcessPendingScheduledUpdates
  <1>4. CASE \E l \in Loops : ContinueProcessing(l)
    BY <1>4, SourceType DEF ContinueProcessing
  <1>5. CASE \E u \in Users, c \in Configs : \E fees \in NewFees : CreateConfiguration(u, c, fees)
    BY <1>5
  <1>6. CASE \/ \E u \in Users, c \in Configs : \E p \in Patches, d \in RequestDates :
                  CreateApprovalRequest(u, c, p, d)
             \/ \E u \in Users, r \in DOMAIN approvals : RejectApprovalRequest(u, r)
             \/ \E r \in DOMAIN approvals : FinishApproval(r)
             \/ \E s \in SettingsValues : UpdateAdminSettings(s)
             \/ Tick
    BY <1>6 DEF CreateApprovalRequest, RejectApprovalRequest, FinishApproval, UpdateAdminSettings, Tick
  <1>7. QED
    BY <1>1, <1>2, <1>3, <1>4, <1>5, <1>6 DEF Next

\* The history of every configuration is complete, however many calls overlap:
\* no version goes unrecorded, none is recorded twice, and each entry starts
\* from the fees the one before it left in force.
THEOREM HistoryHolds == Spec => []HistoryComplete
  <1>1. Init => HistoryInv
    BY FeeAssumption DEF Init, HistoryInv
  <1>2. TypeOK /\ HistoryInv /\ [Next]_vars => HistoryInv'
    <2> SUFFICES ASSUME TypeOK, HistoryInv, [Next]_vars PROVE HistoryInv'
      OBVIOUS
    <2>1. CASE UNCHANGED <<configs, history>>
      BY <2>1 DEF HistoryInv
    <2>2. CASE \E s \in Submissions, src \in Nat : ApplyFeeUpdate(s, src)
      BY <2>2, ApplyRecorded
    <2>3. CASE \E u \in Users, c \in Configs, fees \in NewFees : CreateConfiguration(u, c, fees)
      BY <2>3, CreateRecorded
    <2>4. CASE Next
      BY <2>1, <2>2, <2>3, <2>4, StepsRecord
    <2>5. CASE UNCHANGED vars
      BY <2>1, <2>5 DEF vars
    <2>6. QED
      BY <2>4, <2>5
  <1>3. TypeOK /\ HistoryInv => HistoryComplete
    <2> SUFFICES ASSUME TypeOK, HistoryInv PROVE HistoryComplete
      OBVIOUS
    <2>1. ASSUME NEW c \in Configs, NEW v \in 2..configs[c].version
          PROVE  Cardinality(EntriesOf(c, v)) = 1
      <3>1. PICK h \in history : h.config = c /\ h.version = v
        BY DEF HistoryInv
      <3>2. \A g \in history : g.config = c /\ g.version = v => g = h
        BY <3>1 DEF HistoryInv
      <3>3. EntriesOf(c, v) = {h}
        BY <3>1, <3>2 DEF EntriesOf
      <3>4. QED
        BY <3>3, FS_Singleton
    <2>2. QED
      BY <2>1 DEF HistoryComplete, HistoryInv, EntriesOf
  <1>4. QED
    BY <1>1, <1>2, <1>3, TypeCorrect, PTL DEF Spec

-----------------------------------------------------------------------------

(* Decisions and their effects, for calls that do not share a turn of the    *)
(* event loop.  QuorumDecides and TakesEffectOnce are not inductive: what a  *)
(* suspended call is about must still be undecided, and a scheduled update   *)
(* that is applied must be marked or in the hands of the loop that did it.   *)

Distinct(votes) == \A i, j \in DOMAIN votes : votes[i] = votes[j] => i = j

Decided(r) == approvals[r].status = "APPROVED" \/ r \in approving

\* Votes are counted as the code counts them, by the length of their list.
Counted(a) ==
  /\ Distinct(a.approvals) /\ Distinct(a.rejections)
  /\ IsFiniteSet(a.requiredSigners) /\ a.threshold > 1
  /\ a.status = "REJECTED" <=> Len(a.rejections) >= RejectionsNeeded(a)

VotesInv ==
  \A r \in DOMAIN approvals :
    /\ Counted(approvals[r])
    /\ Decided(r) => Len(approvals[r].approvals) >= approvals[r].threshold

DecisionInv ==
  /\ \A q, r \in DOMAIN approvals : approvals[q].src = approvals[r].src => q = r
  /\ \A r \in DOMAIN approvals : TookEffect(approvals[r].src) <=> Decided(r)

EffectInv ==
  /\ \A g, h \in history : g.src = h.src /\ g.src > 0 => g = h
  /\ \A j, k \in DOMAIN scheduled : scheduled[j].src = scheduled[k].src => j = k
  /\ \A k \in DOMAIN scheduled :
       (\E h \in history : h.src = scheduled[k].src)
         => scheduled[k].status = "EXECUTED" \/ \E l \in Loops : loops[l].index = k

SuspendedInv ==
  /\ \A r \in approving : approvals[r].status = "PENDING"
  /\ \A l, m \in Loops : loops[l].index > 0 /\ loops[m].index > 0 => l = m
  /\ \A l \in Loops : loops[l].index > 0 => scheduled[loops[l].index].status = "SCHEDULED"

SettingsInv == settings \in SettingsValues \cup {InitialSettings}

RequestsInv == SettingsInv /\ SuspendedInv /\ EffectInv /\ VotesInv /\ DecisionInv

\* A list without repetition has as many voters as votes.
LEMMA VotersCounted ==
  ASSUME NEW S, NEW votes \in Seq(S), Distinct(votes)
  PROVE  IsFiniteSet(Voters(votes)) /\ Cardinality(Voters(votes)) = Len(votes)
  <1>1. DOMAIN votes = 1..Len(votes) /\ Len(votes) \in Nat
    OBVIOUS
  <1>2. votes \in [1..Len(votes) -> Voters(votes)]
    BY <1>1 DEF Voters
  <1>3. votes \in Bijection(1..Len(votes), Voters(votes))
    BY <1>1, <1>2 DEF Voters, Distinct, Bijection, Injection, Surjection, IsInjective
  <1>4. ExistsBijection(1..Len(votes), Voters(votes))
    BY <1>3 DEF ExistsBijection
  <1>5. IsFiniteSet(1..Len(votes)) /\ Cardinality(1..Len(votes)) = Len(votes)
    BY <1>1, FS_Interval
  <1>6. QED
    BY <1>4, <1>5, FS_Bijection

LEMMA DistinctAppend ==
  ASSUME NEW S, NEW votes \in Seq(S), NEW u \in S, Distinct(votes), ~Voted(votes, u)
  PROVE  Distinct(Append(votes, u))
  <1>1. /\ DOMAIN votes = 1..Len(votes) /\ Len(votes) \in Nat
        /\ DOMAIN Append(votes, u) = 1..(Len(votes) + 1)
        /\ \A k \in DOMAIN votes : Append(votes, u)[k] = votes[k]
        /\ Append(votes, u)[Len(votes) + 1] = u
    BY AppendType
  <1>2. QED
    BY <1>1 DEF Distinct, Voted

\* The number of the next request is not in use.
LEMMA FreshRequest ==
  ASSUME TypeOK
  PROVE  /\ NextRequest \in Nat \ {0} /\ ~TookEffect(NextRequest)
         /\ \A r \in DOMAIN approvals : approvals[r].src # NextRequest
         /\ \A k \in DOMAIN scheduled : scheduled[k].src # NextRequest
  <1>1. DOMAIN submitted = 1..Len(submitted) /\ Len(submitted) \in Nat
    BY SourceType
  <1>2. NextRequest \in Nat \ {0} /\ NextRequest \notin DOMAIN submitted
    BY <1>1 DEF NextRequest
  <1>3. /\ \A h \in history : h.src # NextRequest
        /\ \A r \in DOMAIN approvals : approvals[r].src # NextRequest
        /\ \A k \in DOMAIN scheduled : scheduled[k].src # NextRequest
    <2>1. \A h \in history : h.src = NextRequest => h.src > 0
      BY <1>2
    <2>2. QED
      BY <1>2, <2>1 DEF TypeOK
  <1>4. QED
    BY <1>2, <1>3 DEF TookEffect

\* A request that had no effect yet is applied or scheduled.
LEMMA TakesEffect ==
  ASSUME TypeOK, EffectInv, NEW s \in Submissions, NEW src \in Nat \ {0},
         NEW eff \in [kind : {"date", "text"}, at : Nat], ~TookEffect(src),
         ScheduleOrApply(s, src, eff), loops' = loops
  PROVE  /\ EffectInv'
         /\ \A i \in Nat : TookEffect(i)' <=> TookEffect(i) \/ i = src
         /\ \A k \in DOMAIN scheduled : k \in DOMAIN scheduled' /\ scheduled'[k] = scheduled[k]
  <1> DEFINE new == [src |-> src, at |-> eff.at, status |-> "SCHEDULED"]
  <1>1. \/ history' = history /\ scheduled' = Append(scheduled, new)
        \/ /\ scheduled' = scheduled
           /\ \E e \in Entries : history' = history \cup {e} /\ e.src = src
    BY ScheduleOrApplyType
  <1>2. new \in ScheduledUpdates /\ new.src = src /\ scheduled \in Seq(ScheduledUpdates)
    BY DEF ScheduledUpdates, TypeOK
  <1> HIDE DEF new
  <1>3. CASE history' = history /\ scheduled' = Append(scheduled, new)
    <2>1. /\ DOMAIN scheduled = 1..Len(scheduled) /\ Len(scheduled) \in Nat
          /\ DOMAIN scheduled' = 1..(Len(scheduled) + 1)
          /\ \A k \in DOMAIN scheduled : scheduled'[k] = scheduled[k]
          /\ scheduled'[Len(scheduled) + 1] = new
      BY <1>2, <1>3, AppendType
    <2>2. DOMAIN scheduled' = DOMAIN scheduled \cup {Len(scheduled) + 1}
      BY <2>1
    <2>3. EffectInv'
      BY <1>2, <1>3, <2>1, <2>2 DEF EffectInv, TookEffect
    <2>4. \A i \in Nat : TookEffect(i)' <=> TookEffect(i) \/ i = src
      BY <1>2, <1>3, <2>1, <2>2 DEF TookEffect
    <2>5. QED
      BY <2>2, <2>1, <2>3, <2>4
  <1>4. CASE scheduled' = scheduled /\ \E e \in Entries : history' = history \cup {e} /\ e.src = src
    BY <1>4 DEF EffectInv, TookEffect
  <1>5. QED
    BY <1>1, <1>3, <1>4

\* A loop applies an update that was not applied before: k was SCHEDULED and in
\* no loop's hands.  Nothing takes effect by it that had not already.
LEMMA LoopTakesEffect ==
  ASSUME TypeOK, EffectInv, NEW k \in DOMAIN scheduled, scheduled[k].status = "SCHEDULED",
         \A l \in Loops : loops[l].index # k,
         ApplyFeeUpdate(submitted[scheduled[k].src], scheduled[k].src)
  PROVE  /\ \A g, h \in history' : g.src = h.src /\ g.src > 0 => g = h
         /\ \E e \in Entries : history' = history \cup {e} /\ e.src = scheduled[k].src
  <1>1. submitted[scheduled[k].src] \in Submissions /\ scheduled[k].src \in Nat
    BY SourceType
  <1>2. PICK e \in Entries : history' = history \cup {e} /\ e.src = scheduled[k].src
    BY <1>1, ApplyType
  <1>3. ~\E h \in history : h.src = scheduled[k].src
    BY DEF EffectInv
  <1>4. QED
    BY <1>2, <1>3 DEF EffectInv

LEMMA ProcessOnce ==
  ASSUME TypeOK, EffectInv, SuspendedInv, SameTurn = FALSE, NEW l \in Loops,
         ProcessPendingScheduledUpdates(l)
  PROVE  EffectInv' /\ SuspendedInv' /\ \A i \in Nat : TookEffect(i)' <=> TookEffect(i)
  <1>1. PICK k \in DOMAIN scheduled :
          /\ IsNextDue(k, 0, now)
          /\ ApplyFeeUpdate(submitted[scheduled[k].src], scheduled[k].src)
          /\ loops' = [loops EXCEPT ![l] = [index |-> k, now |-> now]]
    BY DEF ProcessPendingScheduledUpdates
  <1>2. /\ UNCHANGED <<approvals, scheduled, settings, now, approving, submitted>>
        /\ approving = {} /\ \A m \in Loops : loops[m].index = 0
    BY DEF ProcessPendingScheduledUpdates, MayStart
  <1>3. k \in Nat \ {0} /\ scheduled[k].status = "SCHEDULED"
    BY <1>1 DEF IsNextDue, IsDue, TypeOK
  <1>4. PICK e \in Entries : history' = history \cup {e} /\ e.src = scheduled[k].src
    BY <1>1, <1>2, <1>3, LoopTakesEffect
  <1>5. \A g, h \in history' : g.src = h.src /\ g.src > 0 => g = h
    BY <1>1, <1>2, <1>3, LoopTakesEffect
  <1>6. loops'[l].index = k /\ \A m \in Loops : m # l => loops'[m].index = 0
    BY <1>1, <1>2 DEF TypeOK
  <1>7. EffectInv'
    <2>1. \A j \in DOMAIN scheduled : \A m \in Loops : loops[m].index # j
      BY <1>2 DEF TypeOK
    <2>2. \A j \in DOMAIN scheduled :
            (\E h \in history' : h.src = scheduled[j].src)
              => scheduled[j].status = "EXECUTED" \/ \E m \in Loops : loops'[m].index = j
      <3> SUFFICES ASSUME NEW j \in DOMAIN scheduled, j # k,
                          NEW h \in history', h.src = scheduled[j].src
                   PROVE  scheduled[j].status = "EXECUTED"
        BY <1>6
      <3>1. h \in history
        BY <1>4 DEF EffectInv
      <3>2. QED
        BY <2>1, <3>1 DEF EffectInv
    <2>3. QED
      BY <1>2, <1>5, <2>2 DEF EffectInv
  <1>8. SuspendedInv'
    BY <1>2, <1>3, <1>6 DEF SuspendedInv
  <1>9. \A i \in Nat : TookEffect(i)' <=> TookEffect(i)
    BY <1>2, <1>4 DEF TookEffect
  <1>10. QED
    BY <1>7, <1>8, <1>9

LEMMA ContinueOnce ==
  ASSUME TypeOK, EffectInv, SuspendedInv, NEW l \in Loops, ContinueProcessing(l)
  PROVE  EffectInv' /\ SuspendedInv' /\ \A i \in Nat : TookEffect(i)' <=> TookEffect(i)
  <1> DEFINE i == loops[l].index
             marked == [scheduled[i] EXCEPT !.status = "EXECUTED"]
  <1>1. /\ i \in DOMAIN scheduled /\ i > 0 /\ scheduled[i] \in ScheduledUpdates
        /\ loops \in [Loops -> [index : Nat, now : Nat]] /\ scheduled \in Seq(ScheduledUpdates)
    BY SourceType DEF ContinueProcessing, TypeOK
  <1>2. /\ scheduled' = [scheduled EXCEPT ![i] = marked]
        /\ UNCHANGED <<approvals, settings, now, approving, submitted>>
    BY DEF ContinueProcessing
  <1>3. marked \in ScheduledUpdates /\ marked.src = scheduled[i].src /\ marked.status = "EXECUTED"
    BY <1>1 DEF ScheduledUpdates
  <1> HIDE DEF marked
  <1>4. /\ DOMAIN scheduled' = DOMAIN scheduled
        /\ \A k \in DOMAIN scheduled : scheduled'[k] = IF k = i THEN marked ELSE scheduled[k]
    BY <1>1, <1>2, <1>3, ExceptType
  <1>5. \A k \in DOMAIN scheduled : scheduled'[k].src = scheduled[k].src
    BY <1>3, <1>4
  <1>6. \A m \in Loops : m # l => loops[m].index = 0
    BY <1>1 DEF SuspendedInv, TypeOK
  <1>7. CASE \E k \in DOMAIN scheduled :
               /\ IsNextDue(k, i, loops[l].now)
               /\ ApplyFeeUpdate(submitted[scheduled[k].src], scheduled[k].src)
               /\ loops' = [loops EXCEPT ![l].index = k]
    <2>1. PICK k \in DOMAIN scheduled :
               /\ IsNextDue(k, i, loops[l].now)
               /\ ApplyFeeUpdate(submitted[scheduled[k].src], scheduled[k].src)
               /\ loops' = [loops EXCEPT ![l].index = k]
      BY <1>7
    <2>2. k \in Nat \ {0} /\ k # i /\ scheduled[k].status = "SCHEDULED"
      BY <1>1, <2>1 DEF IsNextDue, IsDue, TypeOK
    <2>3. \A m \in Loops : loops[m].index # k
      BY <1>6, <2>2
    <2>4. PICK e \in Entries : history' = history \cup {e} /\ e.src = scheduled[k].src
      BY <2>1, <2>2, <2>3, LoopTakesEffect
    <2>5. \A g, h \in history' : g.src = h.src /\ g.src > 0 => g = h
      BY <2>1, <2>2, <2>3, LoopTakesEffect
    <2>6. loops'[l].index = k /\ \A m \in Loops : m # l => loops'[m].index = 0
      BY <1>1, <1>6, <2>1
    <2>7. EffectInv'
      <3>1. \A j \in DOMAIN scheduled :
              (\E h \in history' : h.src = scheduled'[j].src)
                => scheduled'[j].status = "EXECUTED" \/ \E m \in Loops : loops'[m].index = j
        <4> SUFFICES ASSUME NEW j \in DOMAIN scheduled, j # i, j # k,
                            NEW h \in history', h.src = scheduled[j].src
                     PROVE  scheduled[j].status = "EXECUTED"
          BY <1>3, <1>4, <1>5, <2>6
        <4>1. h \in history
          BY <2>4 DEF EffectInv
        <4>2. \A m \in Loops : loops[m].index # j
          BY <1>1, <1>6
        <4>3. QED
          BY <4>1, <4>2 DEF EffectInv
      <3>2. QED
        BY <1>4, <1>5, <2>5, <3>1 DEF EffectInv
    <2>8. SuspendedInv'
      BY <1>2, <1>4, <2>2, <2>6 DEF SuspendedInv
    <2>9. \A n \in Nat : TookEffect(n)' <=> TookEffect(n)
      BY <1>4, <1>5, <2>4 DEF TookEffect
    <2>10. QED
      BY <2>7, <2>8, <2>9
  <1>8. CASE /\ loops' = [loops EXCEPT ![l] = [index |-> 0, now |-> 0]]
             /\ UNCHANGED <<configs, history>>
    <2>1. \A m \in Loops : loops'[m].index = 0
      BY <1>1, <1>6, <1>8
    <2>2. EffectInv'
      <3>1. \A j \in DOMAIN scheduled : j # i => \A m \in Loops : loops[m].index # j
        BY <1>1, <1>6
      <3>2. QED
        BY <1>3, <1>4, <1>5, <1>8, <3>1 DEF EffectInv
    <2>3. SuspendedInv'
      BY <1>2, <2>1 DEF SuspendedInv
    <2>4. \A n \in Nat : TookEffect(n)' <=> TookEffect(n)
      BY <1>4, <1>5, <1>8 DEF TookEffect
    <2>5. QED
      BY <2>2, <2>3, <2>4
  <1>9. QED
    BY <1>7, <1>8 DEF ContinueProcessing

\* Steps that leave the approval requests and their effects alone.
LEMMA SameDecisions ==
  ASSUME TypeOK, VotesInv, DecisionInv, UNCHANGED <<approvals, approving>>,
         \A r \in DOMAIN approvals : \A i \in Nat :
           i = approvals[r].src => (TookEffect(i)' <=> TookEffect(i))
  PROVE  VotesInv' /\ DecisionInv'
  <1>1. \A r \in DOMAIN approvals : approvals[r].src \in Nat
    BY SourceType
  <1>2. \A r \in DOMAIN approvals : Decided(r)' <=> Decided(r)
    BY DEF Decided
  <1>3. \A r \in DOMAIN approvals : Counted(approvals[r])'
    BY DEF VotesInv, Counted, RejectionsNeeded
  <1>4. VotesInv'
    BY <1>2, <1>3 DEF VotesInv
  <1>5. \A r \in DOMAIN approvals : \A i \in Nat : i = approvals[r].src => (TookEffect(i)' <=> Decided(r)')
    BY <1>1, <1>2 DEF DecisionInv
  <1>6. \A r \in DOMAIN approvals : TookEffect(approvals[r].src)' <=> Decided(r)'
    BY <1>1, <1>5
  <1>7. QED
    BY <1>4, <1>6 DEF DecisionInv

\* Steps on one approval request, whose effect follows its decision.
LEMMA OneDecision ==
  ASSUME TypeOK, VotesInv, DecisionInv, NEW r \in DOMAIN approvals, NEW b \in ApprovalRequests,
         b.src = approvals[r].src, approvals' = [approvals EXCEPT ![r] = b],
         NEW decided \in BOOLEAN, Decided(r)' <=> decided, Counted(b),
         decided => Len(b.approvals) >= b.threshold,
         approving' \ {r} = approving \ {r},
         \A i \in Nat : TookEffect(i)' <=> IF i = b.src THEN decided ELSE TookEffect(i)
  PROVE  VotesInv' /\ DecisionInv'
  <1>1. /\ DOMAIN approvals' = DOMAIN approvals
        /\ \A q \in DOMAIN approvals : approvals'[q] = IF q = r THEN b ELSE approvals[q]
    BY ExceptType DEF TypeOK
  <1>2. \A q \in DOMAIN approvals : approvals'[q].src = approvals[q].src /\ approvals[q].src \in Nat
    BY <1>1, SourceType
  <1>3. \A q \in DOMAIN approvals : q # r => (Decided(q)' <=> Decided(q))
    BY <1>1 DEF Decided
  <1>4. \A q \in DOMAIN approvals' :
          /\ Counted(approvals'[q])
          /\ Decided(q)' => Len(approvals'[q].approvals) >= approvals'[q].threshold
    BY <1>1, <1>3 DEF VotesInv
  <1>5. \A q \in DOMAIN approvals : TookEffect(approvals[q].src)' <=> Decided(q)'
    <2> SUFFICES ASSUME NEW q \in DOMAIN approvals, NEW i \in Nat, i = approvals[q].src
                 PROVE  TookEffect(i)' <=> Decided(q)'
      BY <1>2
    <2>1. CASE q = r
      BY <2>1
    <2>2. CASE q # r
      <3>1. i # b.src
        BY <2>2 DEF DecisionInv
      <3>2. QED
        BY <1>3, <2>2, <3>1 DEF DecisionInv
    <2>3. QED
      BY <2>1, <2>2
  <1>6. VotesInv'
    BY <1>4 DEF VotesInv
  <1>7. DecisionInv'
    BY <1>1, <1>2, <1>5 DEF DecisionInv
  <1>8. QED
    BY <1>6, <1>7

LEMMA UpdateDecided ==
  ASSUME TypeOK, RequestsInv, NEW u \in Users, NEW c \in Configs, NEW p \in Patches,
         NEW d \in RequestDates, UpdateConfiguration(u, c, p, d)
  PROVE  RequestsInv'
  <1> DEFINE s == Submission("direct", u, c, p, d)
             eff == EffectiveDateWithDelay(d)
  <1>1. /\ ScheduleOrApply(s, NextRequest, eff)
        /\ UNCHANGED <<approvals, settings, now, approving, loops>>
    BY DEF UpdateConfiguration
  <1>2. s \in Submissions /\ eff \in [kind : {"date", "text"}, at : Nat]
    BY SubmissionType, EffectiveDateType
  <1> HIDE DEF s, eff
  <1>3. /\ EffectInv'
        /\ \A i \in Nat : TookEffect(i)' <=> TookEffect(i) \/ i = NextRequest
        /\ \A k \in DOMAIN scheduled : k \in DOMAIN scheduled' /\ scheduled'[k] = scheduled[k]
    BY <1>1, <1>2, TakesEffect, FreshRequest DEF RequestsInv
  <1>4. VotesInv' /\ DecisionInv'
    BY <1>1, <1>3, SameDecisions, FreshRequest DEF RequestsInv
  <1>5. SuspendedInv'
    BY <1>1, <1>3 DEF RequestsInv, SuspendedInv, TypeOK
  <1>6. QED
    BY <1>1, <1>3, <1>4, <1>5 DEF RequestsInv, SettingsInv

LEMMA CreateDecided ==
  ASSUME TypeOK, RequestsInv, NEW u \in Users, NEW c \in Configs, NEW fees \in NewFees,
         CreateConfiguration(u, c, fees)
  PROVE  RequestsInv'
  <1> DEFINE e == [type |-> "FEE_CREATED", config |-> c, version |-> 1, fees |-> fees,
                   old |-> fees, by |-> u, src |-> 0, at |-> now]
  <1>1. /\ history' = history \cup {e} /\ e.src = 0
        /\ UNCHANGED <<approvals, scheduled, settings, now, approving, loops, submitted>>
    BY DEF CreateConfiguration
  <1> HIDE DEF e
  <1>2. \A i \in Nat \ {0} : TookEffect(i)' <=> TookEffect(i)
    BY <1>1 DEF TookEffect
  <1>3. EffectInv'
    <2>1. \A k \in DOMAIN scheduled : scheduled[k].src # 0
      BY SourceType
    <2>2. \A g, h \in history' : g.src = h.src /\ g.src > 0 => g = h
      BY <1>1 DEF RequestsInv, EffectInv
    <2>3. QED
      BY <1>1, <2>1, <2>2 DEF RequestsInv, EffectInv
  <1>4. VotesInv' /\ DecisionInv'
    BY <1>1, <1>2, SameDecisions, SourceType DEF RequestsInv
  <1>5. QED
    BY <1>1, <1>3, <1>4 DEF RequestsInv, SettingsInv, SuspendedInv

LEMMA CreateApprovalDecided ==
  ASSUME TypeOK, RequestsInv, NEW u \in Users, NEW c \in Configs, NEW p \in Patches,
         NEW d \in RequestDates, CreateApprovalRequest(u, c, p, d)
  PROVE  RequestsInv'
  <1> DEFINE signers == settings.multisigSigners
             threshold == settings.multisigApprovalThreshold
             votes == IF u \in signers THEN <<u>> ELSE <<>>
             a == [src |-> NextRequest, status |-> "PENDING", requiredSigners |-> signers,
                   threshold |-> threshold, approvals |-> votes, rejections |-> <<>>,
                   effectiveDate |-> EffectiveDateWithDelay(d)]
  <1>1. /\ approvals' = Append(approvals, a)
        /\ UNCHANGED <<configs, history, scheduled, settings, now, approving, loops>>
        /\ threshold > 1 /\ Cardinality(signers) >= threshold
    BY DEF CreateApprovalRequest, IsMultisigApprovalRequired, IsMultisigEnabled
  <1>2. /\ settings \in Settings /\ approvals \in Seq(ApprovalRequests)
        /\ threshold \in Int /\ IsFiniteSet(signers)
    BY FeeAssumption DEF TypeOK, Settings, RequestsInv, SettingsInv
  <1>3. votes \in Seq(Users) /\ Distinct(votes) /\ Distinct(<<>>)
    BY DEF Distinct
  <1>4. a \in ApprovalRequests
    BY <1>2, <1>3, FreshRequest, EffectiveDateType DEF ApprovalRequests, Settings
  <1>5. Counted(a)
    <2>1. Cardinality(signers) \in Nat
      BY <1>2, FS_CardinalityType
    <2>2. Len(a.rejections) = 0 /\ RejectionsNeeded(a) = Cardinality(signers) - threshold + 1
      BY DEF RejectionsNeeded
    <2>3. RejectionsNeeded(a) > 0 /\ RejectionsNeeded(a) \in Int
      BY <1>1, <1>2, <2>1, <2>2
    <2>4. QED
      BY <1>1, <1>2, <1>3, <2>2, <2>3 DEF Counted
  <1>6. a.src = NextRequest /\ a.status = "PENDING"
    OBVIOUS
  <1> HIDE DEF a, signers, threshold, votes
  <1> PICK n : n = Len(approvals) + 1
    OBVIOUS
  <1>7. /\ DOMAIN approvals = 1..Len(approvals) /\ Len(approvals) \in Nat
        /\ DOMAIN approvals' = 1..n /\ DOMAIN approvals' = DOMAIN approvals \cup {n}
        /\ \A r \in DOMAIN approvals : approvals'[r] = approvals[r]
        /\ approvals'[n] = a /\ n \notin DOMAIN approvals
    BY <1>1, <1>2, <1>4, AppendType
  <1>8. n \notin approving
    BY <1>7 DEF TypeOK
  <1>9. \A i \in Nat : TookEffect(i)' <=> TookEffect(i)
    BY <1>1 DEF TookEffect
  <1>10. \A r \in DOMAIN approvals : Decided(r)' <=> Decided(r)
    BY <1>1, <1>7 DEF Decided
  <1>11. ~Decided(n)'
    BY <1>1, <1>6, <1>7, <1>8 DEF Decided
  <1>12. VotesInv'
    <2>1. \A r \in DOMAIN approvals' :
            /\ Counted(approvals'[r])
            /\ Decided(r)' => Len(approvals'[r].approvals) >= approvals'[r].threshold
      BY <1>5, <1>7, <1>10, <1>11 DEF RequestsInv, VotesInv
    <2>2. QED
      BY <2>1 DEF VotesInv, Counted, RejectionsNeeded
  <1>13. DecisionInv'
    <2>1. \A r \in DOMAIN approvals : approvals[r].src # NextRequest /\ approvals[r].src \in Nat
      BY FreshRequest, SourceType
    <2>2. \A q, r \in DOMAIN approvals' : approvals'[q].src = approvals'[r].src => q = r
      BY <1>6, <1>7, <2>1 DEF RequestsInv, DecisionInv
    <2>3. \A r \in DOMAIN approvals : TookEffect(approvals[r].src)' <=> Decided(r)'
      BY <1>1, <1>7, <1>9, <1>10, <2>1 DEF RequestsInv, DecisionInv, TookEffect
    <2>4. ~TookEffect(approvals[n].src)'
      BY <1>1, <1>6, <1>7, FreshRequest DEF TookEffect
    <2>5. QED
      BY <1>7, <1>11, <2>2, <2>3, <2>4 DEF DecisionInv
  <1>14. SuspendedInv' /\ EffectInv'
    BY <1>1, <1>7 DEF RequestsInv, SuspendedInv, EffectInv, TypeOK
  <1>15. QED
    BY <1>1, <1>12, <1>13, <1>14 DEF RequestsInv, SettingsInv

LEMMA ApproveDecided ==
  ASSUME TypeOK, RequestsInv, SameTurn = FALSE, NEW u \in Users, NEW r \in DOMAIN approvals,
         ApproveApprovalRequest(u, r)
  PROVE  RequestsInv'
  <1> DEFINE a == approvals[r]
             votes == Append(a.approvals, u)
             b == [a EXCEPT !.approvals = votes]
  <1>1. /\ approving = {} /\ \A l \in Loops : loops[l].index = 0
        /\ a.status = "PENDING" /\ ~Voted(a.approvals, u)
        /\ approvals' = [approvals EXCEPT ![r] = b]
        /\ UNCHANGED <<settings, now, loops, submitted>>
    BY DEF ApproveApprovalRequest, MayStart, MayVote
  <1>2. \/ Len(votes) < a.threshold /\ UNCHANGED <<configs, history, scheduled, approving>>
        \/ /\ Len(votes) >= a.threshold
           /\ ScheduleOrApply(submitted[a.src], a.src, a.effectiveDate)
           /\ approving' = approving \cup {r}
    BY DEF ApproveApprovalRequest
  <1>3. /\ a \in ApprovalRequests /\ a.src \in Nat \ {0} /\ submitted[a.src] \in Submissions
        /\ a.effectiveDate \in [kind : {"date", "text"}, at : Nat]
        /\ a.approvals \in Seq(Users)
    BY SourceType DEF ApprovalRequests
  <1>4. ~Decided(r) /\ ~TookEffect(a.src) /\ Counted(a)
    BY <1>1 DEF Decided, RequestsInv, DecisionInv, VotesInv
  <1>5. votes \in Seq(Users) /\ Distinct(votes)
    BY <1>1, <1>3, <1>4, AppendType, DistinctAppend DEF Counted
  <1>6. /\ b \in ApprovalRequests /\ b.src = a.src /\ b.status = "PENDING" /\ b.approvals = votes
        /\ b.rejections = a.rejections /\ b.requiredSigners = a.requiredSigners
        /\ b.threshold = a.threshold
    BY <1>1, <1>3, <1>5 DEF ApprovalRequests
  <1> HIDE DEF b, votes
  <1>7. approvals'[r] = b /\ \A q \in DOMAIN approvals : approvals'[q].status = approvals[q].status
    BY <1>1, <1>3, <1>6, ExceptType DEF TypeOK
  <1>8. RejectionsNeeded(b) = RejectionsNeeded(a)
    BY <1>6 DEF RejectionsNeeded
  <1>9. CASE Len(votes) < a.threshold /\ UNCHANGED <<configs, history, scheduled, approving>>
    <2>1. Counted(b)
      BY <1>1, <1>4, <1>5, <1>6, <1>8 DEF Counted
    <2>2. Decided(r)' <=> FALSE
      BY <1>1, <1>6, <1>7, <1>9 DEF Decided
    <2>3. \A i \in Nat : TookEffect(i)' <=> IF i = b.src THEN FALSE ELSE TookEffect(i)
      BY <1>4, <1>6, <1>9 DEF TookEffect
    <2>4. VotesInv' /\ DecisionInv'
      BY <1>1, <1>6, <1>9, <2>1, <2>2, <2>3, OneDecision DEF RequestsInv
    <2>5. SuspendedInv' /\ EffectInv'
      BY <1>1, <1>9 DEF RequestsInv, SuspendedInv, EffectInv
    <2>6. QED
      BY <1>1, <2>4, <2>5 DEF RequestsInv, SettingsInv
  <1>10. CASE /\ Len(votes) >= a.threshold
              /\ ScheduleOrApply(submitted[a.src], a.src, a.effectiveDate)
              /\ approving' = approving \cup {r}
    <2>1. Counted(b) /\ Len(b.approvals) >= b.threshold
      BY <1>1, <1>4, <1>5, <1>6, <1>8, <1>10 DEF Counted
    <2>2. Decided(r)' <=> TRUE
      BY <1>10 DEF Decided
    <2>3. EffectInv' /\ \A i \in Nat : TookEffect(i)' <=> TookEffect(i) \/ i = a.src
      BY <1>1, <1>3, <1>4, <1>10, TakesEffect DEF RequestsInv
    <2>4. VotesInv' /\ DecisionInv'
      BY <1>1, <1>6, <1>10, <2>1, <2>2, <2>3, OneDecision DEF RequestsInv
    <2>5. SuspendedInv'
      BY <1>1, <1>6, <1>7, <1>10 DEF SuspendedInv
    <2>6. QED
      BY <1>1, <2>3, <2>4, <2>5 DEF RequestsInv, SettingsInv
  <1>11. QED
    BY <1>2, <1>9, <1>10

LEMMA FinishDecided ==
  ASSUME TypeOK, RequestsInv, NEW r \in DOMAIN approvals, FinishApproval(r)
  PROVE  RequestsInv'
  <1> DEFINE a == approvals[r]
             b == [a EXCEPT !.status = "APPROVED"]
  <1>1. /\ r \in approving /\ approving' = approving \ {r}
        /\ approvals' = [approvals EXCEPT ![r] = b]
        /\ UNCHANGED <<configs, history, scheduled, settings, now, loops, submitted>>
    BY DEF FinishApproval
  <1>2. a \in ApprovalRequests /\ a.src \in Nat /\ a.status = "PENDING"
    BY <1>1, SourceType DEF RequestsInv, SuspendedInv
  <1>3. Decided(r) /\ TookEffect(a.src) /\ Counted(a) /\ Len(a.approvals) >= a.threshold
    BY <1>1 DEF Decided, RequestsInv, DecisionInv, VotesInv
  <1>4. /\ b \in ApprovalRequests /\ b.src = a.src /\ b.status = "APPROVED"
        /\ b.approvals = a.approvals /\ b.rejections = a.rejections
        /\ b.requiredSigners = a.requiredSigners /\ b.threshold = a.threshold
    BY <1>2 DEF ApprovalRequests
  <1> HIDE DEF b
  <1>5. approvals'[r] = b /\ \A q \in DOMAIN approvals : q # r => approvals'[q] = approvals[q]
    BY <1>1, <1>2, <1>4, ExceptType DEF TypeOK
  <1>6. Counted(b) /\ Len(b.approvals) >= b.threshold
    BY <1>2, <1>3, <1>4 DEF Counted, RejectionsNeeded
  <1>7. Decided(r)' <=> TRUE
    BY <1>4, <1>5 DEF Decided
  <1>8. \A i \in Nat : TookEffect(i)' <=> IF i = b.src THEN TRUE ELSE TookEffect(i)
    BY <1>1, <1>3, <1>4 DEF TookEffect
  <1>9. VotesInv' /\ DecisionInv'
    BY <1>1, <1>4, <1>6, <1>7, <1>8, OneDecision DEF RequestsInv
  <1>10. SuspendedInv' /\ EffectInv'
    BY <1>1, <1>5 DEF RequestsInv, SuspendedInv, EffectInv, TypeOK
  <1>11. QED
    BY <1>1, <1>9, <1>10 DEF RequestsInv, SettingsInv

LEMMA RejectDecided ==
  ASSUME TypeOK, RequestsInv, SameTurn = FALSE, NEW u \in Users, NEW r \in DOMAIN approvals,
         RejectApprovalRequest(u, r)
  PROVE  RequestsInv'
  <1> DEFINE a == approvals[r]
             votes == Append(a.rejections, u)
             status == IF Len(votes) >= RejectionsNeeded(a) THEN "REJECTED" ELSE a.status
             b == [a EXCEPT !.rejections = votes, !.status = status]
  <1>1. /\ approving = {} /\ \A l \in Loops : loops[l].index = 0
        /\ a.status = "PENDING" /\ ~Voted(a.rejections, u)
        /\ approvals' = [approvals EXCEPT ![r] = b]
        /\ UNCHANGED <<configs, history, scheduled, settings, now, approving, loops, submitted>>
    BY DEF RejectApprovalRequest, MayStart, MayVote
  <1>2. a \in ApprovalRequests /\ a.src \in Nat /\ a.rejections \in Seq(Users)
    BY SourceType DEF ApprovalRequests
  <1>3. ~Decided(r) /\ ~TookEffect(a.src) /\ Counted(a)
    BY <1>1 DEF Decided, RequestsInv, DecisionInv, VotesInv
  <1>4. votes \in Seq(Users) /\ Distinct(votes)
    BY <1>1, <1>2, <1>3, AppendType, DistinctAppend DEF Counted
  <1>5. /\ b.src = a.src /\ b.status = status /\ b.approvals = a.approvals
        /\ b.rejections = votes /\ b.requiredSigners = a.requiredSigners
        /\ b.threshold = a.threshold /\ b \in ApprovalRequests
    <2> HIDE DEF votes
    <2>1. status \in {"PENDING", "REJECTED"}
      BY <1>1
    <2> HIDE DEF status
    <2>2. QED
      BY <1>2, <1>4, <2>1 DEF ApprovalRequests
  <1> HIDE DEF b, votes
  <1>6. approvals'[r] = b /\ \A q \in DOMAIN approvals : q # r => approvals'[q] = approvals[q]
    BY <1>1, <1>2, <1>5, ExceptType DEF TypeOK
  <1>7. Counted(b)
    BY <1>1, <1>3, <1>4, <1>5 DEF Counted, RejectionsNeeded
  <1>8. Decided(r)' <=> FALSE
    BY <1>1, <1>5, <1>6 DEF Decided
  <1>9. \A i \in Nat : TookEffect(i)' <=> IF i = b.src THEN FALSE ELSE TookEffect(i)
    BY <1>1, <1>3, <1>5 DEF TookEffect
  <1>10. VotesInv' /\ DecisionInv'
    BY <1>1, <1>5, <1>7, <1>8, <1>9, OneDecision DEF RequestsInv
  <1>11. SuspendedInv' /\ EffectInv'
    BY <1>1 DEF RequestsInv, SuspendedInv, EffectInv
  <1>12. QED
    BY <1>1, <1>10, <1>11 DEF RequestsInv, SettingsInv

LEMMA StepDecided ==
  SameTurn = FALSE /\ TypeOK /\ RequestsInv /\ [Next]_vars => RequestsInv'
  <1> SUFFICES ASSUME SameTurn = FALSE, TypeOK, RequestsInv, [Next]_vars PROVE RequestsInv'
    OBVIOUS
  <1> USE DEF RequestsInv
  <1>1. CASE UNCHANGED <<history, approvals, scheduled, approving, loops>> /\ SettingsInv'
    <2>1. VotesInv' /\ DecisionInv'
      BY <1>1, SameDecisions DEF TookEffect
    <2>2. QED
      BY <1>1, <2>1 DEF SuspendedInv, EffectInv
  <1>2. CASE UNCHANGED vars
    BY <1>1, <1>2 DEF vars, SettingsInv
  <1>3. CASE Tick
    BY <1>1, <1>3 DEF Tick, SettingsInv
  <1>4. CASE \E s \in SettingsValues : UpdateAdminSettings(s)
    BY <1>1, <1>4 DEF UpdateAdminSettings, SettingsInv
  <1>5. CASE \E u \in Users, c \in Configs :
               \E p \in Patches, d \in RequestDates : UpdateConfiguration(u, c, p, d)
    BY <1>5, UpdateDecided
  <1>6. CASE \E u \in Users, c \in Configs :
               \E p \in Patches, d \in RequestDates : CreateApprovalRequest(u, c, p, d)
    BY <1>6, CreateApprovalDecided
  <1>7. CASE \E u \in Users, c \in Configs : \E fees \in NewFees : CreateConfiguration(u, c, fees)
    BY <1>7, CreateDecided
  <1>8. CASE \E u \in Users, r \in DOMAIN approvals : ApproveApprovalRequest(u, r)
    BY <1>8, ApproveDecided
  <1>9. CASE \E u \in Users, r \in DOMAIN approvals : RejectApprovalRequest(u, r)
    BY <1>9, RejectDecided
  <1>10. CASE \E r \in DOMAIN approvals : FinishApproval(r)
    BY <1>10, FinishDecided
  <1>11. CASE \E l \in Loops : ProcessPendingScheduledUpdates(l)
    <2>1. EffectInv' /\ SuspendedInv' /\ \A i \in Nat : TookEffect(i)' <=> TookEffect(i)
      BY <1>11, ProcessOnce
    <2>2. UNCHANGED <<approvals, approving, settings>>
      BY <1>11 DEF ProcessPendingScheduledUpdates
    <2>3. QED
      BY <2>1, <2>2, SameDecisions DEF SettingsInv
  <1>12. CASE \E l \in Loops : ContinueProcessing(l)
    <2>1. EffectInv' /\ SuspendedInv' /\ \A i \in Nat : TookEffect(i)' <=> TookEffect(i)
      BY <1>12, ContinueOnce
    <2>2. UNCHANGED <<approvals, approving, settings>>
      BY <1>12 DEF ContinueProcessing
    <2>3. QED
      BY <2>1, <2>2, SameDecisions DEF SettingsInv
  <1>13. QED
    BY <1>2, <1>3, <1>4, <1>5, <1>6, <1>7, <1>8, <1>9, <1>10, <1>11, <1>12 DEF Next

LEMMA InitDecided == Init => RequestsInv
  BY FeeAssumption DEF Init, RequestsInv, SettingsInv, SuspendedInv, EffectInv, VotesInv, DecisionInv

LEMMA RequestsHold ==
  ASSUME SameTurn = FALSE
  PROVE  Spec => []RequestsInv
  <1>1. TypeOK /\ RequestsInv /\ [Next]_vars => RequestsInv'
    BY StepDecided
  <1>2. QED
    BY <1>1, InitDecided, TypeCorrect, PTL DEF Spec

\* For calls that do not share a turn: a request takes effect exactly when a
\* quorum of different signers stands behind it, with the signers and the
\* threshold of its creation, and never once enough have rejected it.
THEOREM QuorumHolds ==
  ASSUME SameTurn = FALSE
  PROVE  Spec => []QuorumDecides
  <1>1. TypeOK /\ RequestsInv => QuorumDecides
    <2> SUFFICES ASSUME TypeOK, RequestsInv, NEW r \in DOMAIN approvals
                 PROVE  LET a == approvals[r]
                        IN  /\ TookEffect(a.src) =>
                                 /\ Cardinality(Voters(a.approvals)) >= a.threshold
                                 /\ a.threshold > 1
                                 /\ Cardinality(Voters(a.rejections)) < RejectionsNeeded(a)
                            /\ TookEffect(a.src) <=> a.status = "APPROVED" \/ r \in approving
                            /\ a.status = "REJECTED" =>
                                 Cardinality(Voters(a.rejections)) >= RejectionsNeeded(a)
      BY DEF QuorumDecides
    <2> DEFINE a == approvals[r]
    <2>1. /\ a \in ApprovalRequests /\ a.threshold \in Int
          /\ a.approvals \in Seq(Users) /\ a.rejections \in Seq(Users)
      BY SourceType DEF ApprovalRequests
    <2>2. /\ Counted(a)
          /\ Decided(r) => Len(a.approvals) >= a.threshold
      BY DEF RequestsInv, VotesInv
    <2>3. /\ Cardinality(Voters(a.approvals)) = Len(a.approvals)
          /\ Cardinality(Voters(a.rejections)) = Len(a.rejections)
      BY <2>1, <2>2, VotersCounted DEF Counted
    <2>4. TookEffect(a.src) <=> Decided(r)
      BY DEF RequestsInv, DecisionInv
    <2>5. Decided(r) => a.status # "REJECTED"
      BY DEF Decided, RequestsInv, SuspendedInv
    <2>6. Cardinality(a.requiredSigners) \in Nat
      BY <2>2, FS_CardinalityType DEF Counted
    <2>7. RejectionsNeeded(a) \in Int /\ Len(a.rejections) \in Nat
      BY <2>1, <2>6 DEF RejectionsNeeded
    <2>8. a.status # "REJECTED" => Len(a.rejections) < RejectionsNeeded(a)
      BY <2>2, <2>7 DEF Counted
    <2>9. QED
      BY <2>2, <2>3, <2>4, <2>5, <2>8 DEF Counted, Decided
  <1>2. QED
    BY <1>1, RequestsHold, TypeCorrect, PTL

\* For calls that do not share a turn: no request is applied twice, scheduled
\* twice, or scheduled again after it was applied from the schedule.
THEOREM OnceHolds ==
  ASSUME SameTurn = FALSE
  PROVE  Spec => []TakesEffectOnce
  <1>1. TypeOK /\ RequestsInv => TakesEffectOnce
    <2> SUFFICES ASSUME TypeOK, RequestsInv, NEW src \in DOMAIN submitted
                 PROVE  /\ Cardinality({h \in history : h.src = src}) <= 1
                        /\ Cardinality({k \in DOMAIN scheduled : scheduled[k].src = src}) <= 1
      BY DEF TakesEffectOnce
    <2>1. src > 0
      BY SourceType
    <2>2. ASSUME NEW S, \A x, y \in S : x = y
          PROVE  Cardinality(S) <= 1
      <3>1. CASE S = {}
        BY <3>1, FS_EmptySet
      <3>2. CASE S # {}
        <4>1. PICK x : S = {x}
          BY <2>2, <3>2
        <4>2. QED
          BY <4>1, FS_Singleton
      <3>3. QED
        BY <3>1, <3>2
    <2>3. \A g, h \in {f \in history : f.src = src} : g = h
      BY <2>1 DEF RequestsInv, EffectInv
    <2>4. \A j, k \in {i \in DOMAIN scheduled : scheduled[i].src = src} : j = k
      BY DEF RequestsInv, EffectInv
    <2>5. QED
      BY <2>2, <2>3, <2>4
  <1>2. QED
    BY <1>1, RequestsHold, TypeCorrect, PTL

\* For calls that do not share a turn: APPROVED, REJECTED and EXECUTED are never
\* left, and a request keeps the quorum, the signers and the date it began with.
THEOREM FinalHolds ==
  ASSUME SameTurn = FALSE
  PROVE  Spec => DecisionsAreFinal
  <1> DEFINE Kept ==
        /\ \A r \in DOMAIN approvals :
             LET a == approvals[r]
                 b == approvals'[r]
             IN  /\ a.status # "PENDING" => b = a
                 /\ b.requiredSigners = a.requiredSigners
                 /\ b.threshold = a.threshold
                 /\ b.effectiveDate = a.effectiveDate
        /\ \A k \in DOMAIN scheduled :
             scheduled[k].status = "EXECUTED" => scheduled'[k] = scheduled[k]
  <1>1. TypeOK /\ RequestsInv /\ [Next]_vars => Kept
    <2> SUFFICES ASSUME TypeOK, RequestsInv, [Next]_vars PROVE Kept
      OBVIOUS
    <2>1. /\ approvals \in Seq(ApprovalRequests) /\ scheduled \in Seq(ScheduledUpdates)
          /\ \A r \in DOMAIN approvals : approvals[r] \in ApprovalRequests
      BY SourceType DEF TypeOK
    <2>2. CASE UNCHANGED <<approvals, scheduled>>
      BY <2>2
    <2>3. ASSUME NEW r \in DOMAIN approvals, NEW b \in ApprovalRequests,
                 approvals' = [approvals EXCEPT ![r] = b],
                 approvals[r].status = "PENDING",
                 b.requiredSigners = approvals[r].requiredSigners,
                 b.threshold = approvals[r].threshold,
                 b.effectiveDate = approvals[r].effectiveDate
          PROVE  \A q \in DOMAIN approvals :
                   LET a == approvals[q]
                   IN  /\ a.status # "PENDING" => approvals'[q] = a
                       /\ approvals'[q].requiredSigners = a.requiredSigners
                       /\ approvals'[q].threshold = a.threshold
                       /\ approvals'[q].effectiveDate = a.effectiveDate
      BY <2>3
    <2>4. ASSUME NEW s, NEW src, NEW eff, ScheduleOrApply(s, src, eff), src \in Nat, eff.at \in Nat
          PROVE  \A k \in DOMAIN scheduled : scheduled'[k] = scheduled[k]
      <3> DEFINE new == [src |-> src, at |-> eff.at, status |-> "SCHEDULED"]
      <3>1. new \in ScheduledUpdates
        BY <2>4 DEF ScheduledUpdates
      <3>2. scheduled' = scheduled \/ scheduled' = Append(scheduled, new)
        BY <2>4 DEF ScheduleOrApply, ScheduleFeeUpdate
      <3> HIDE DEF new
      <3>3. QED
        BY <2>1, <3>1, <3>2, AppendType
    <2>5. CASE \E u \in Users, c \in Configs :
                 \E p \in Patches, d \in RequestDates : UpdateConfiguration(u, c, p, d)
      <3>1. PICK u \in Users, c \in Configs, p \in Patches, d \in RequestDates :
              UpdateConfiguration(u, c, p, d)
        BY <2>5
      <3>2. /\ approvals' = approvals
            /\ ScheduleOrApply(Submission("direct", u, c, p, d), NextRequest, EffectiveDateWithDelay(d))
        BY <3>1 DEF UpdateConfiguration
      <3>3. EffectiveDateWithDelay(d).at \in Nat /\ NextRequest \in Nat
        BY EffectiveDateType, FreshRequest
      <3>4. \A k \in DOMAIN scheduled : scheduled'[k] = scheduled[k]
        BY <2>4, <3>2, <3>3
      <3>5. QED
        BY <3>2, <3>4
    <2>6. CASE \E u \in Users, c \in Configs :
                 \E p \in Patches, d \in RequestDates : CreateApprovalRequest(u, c, p, d)
      <3>1. PICK a : approvals' = Append(approvals, a) /\ scheduled' = scheduled
        BY <2>6 DEF CreateApprovalRequest
      <3>2. \A r \in DOMAIN approvals : approvals'[r] = approvals[r]
        BY <2>1, <3>1
      <3>3. QED
        BY <3>1, <3>2
    <2>7. CASE \E u \in Users, r \in DOMAIN approvals : ApproveApprovalRequest(u, r)
      <3>1. PICK u \in Users, r \in DOMAIN approvals : ApproveApprovalRequest(u, r)
        BY <2>7
      <3> DEFINE a == approvals[r]
                 votes == Append(a.approvals, u)
                 b == [a EXCEPT !.approvals = votes]
      <3>2. /\ a.status = "PENDING" /\ approvals' = [approvals EXCEPT ![r] = b]
            /\ scheduled' = scheduled \/ ScheduleOrApply(submitted[a.src], a.src, a.effectiveDate)
        BY <3>1 DEF ApproveApprovalRequest, MayVote
      <3>3. a \in ApprovalRequests /\ a.src \in Nat /\ a.effectiveDate.at \in Nat
        BY SourceType DEF ApprovalRequests
      <3>4. votes \in Seq(Users)
        BY <3>3, AppendType DEF ApprovalRequests
      <3>5. /\ b \in ApprovalRequests /\ b.requiredSigners = a.requiredSigners
            /\ b.threshold = a.threshold /\ b.effectiveDate = a.effectiveDate
        BY <3>3, <3>4 DEF ApprovalRequests
      <3>6. \A k \in DOMAIN scheduled : scheduled'[k] = scheduled[k]
        BY <2>4, <3>2, <3>3
      <3> HIDE DEF b
      <3>7. QED
        BY <2>3, <3>2, <3>5, <3>6
    <2>8. CASE \E u \in Users, r \in DOMAIN approvals : RejectApprovalRequest(u, r)
      <3>1. PICK u \in Users, r \in DOMAIN approvals : RejectApprovalRequest(u, r)
        BY <2>8
      <3> DEFINE a == approvals[r]
                 votes == Append(a.rejections, u)
                 status == IF Len(votes) >= RejectionsNeeded(a) THEN "REJECTED" ELSE a.status
                 b == [a EXCEPT !.rejections = votes, !.status = status]
      <3>2. a.status = "PENDING" /\ approvals' = [approvals EXCEPT ![r] = b] /\ scheduled' = scheduled
        BY <3>1 DEF RejectApprovalRequest, MayVote
      <3>3. a \in ApprovalRequests
        BY SourceType
      <3>4. votes \in Seq(Users) /\ status \in {"PENDING", "REJECTED"}
        BY <3>2, <3>3, AppendType DEF ApprovalRequests
      <3> HIDE DEF votes, status
      <3>5. /\ b \in ApprovalRequests /\ b.requiredSigners = a.requiredSigners
            /\ b.threshold = a.threshold /\ b.effectiveDate = a.effectiveDate
        BY <3>3, <3>4 DEF ApprovalRequests
      <3> HIDE DEF b
      <3>6. QED
        BY <2>3, <3>2, <3>5
    <2>9. CASE \E r \in DOMAIN approvals : FinishApproval(r)
      <3>1. PICK r \in DOMAIN approvals : FinishApproval(r)
        BY <2>9
      <3> DEFINE a == approvals[r]
                 b == [a EXCEPT !.status = "APPROVED"]
      <3>2. approvals' = [approvals EXCEPT ![r] = b] /\ scheduled' = scheduled /\ a.status = "PENDING"
        BY <3>1 DEF FinishApproval, RequestsInv, SuspendedInv
      <3>3. /\ b \in ApprovalRequests /\ b.requiredSigners = a.requiredSigners
            /\ b.threshold = a.threshold /\ b.effectiveDate = a.effectiveDate
        BY SourceType DEF ApprovalRequests
      <3> HIDE DEF b
      <3>4. QED
        BY <2>3, <3>2, <3>3
    <2>10. CASE \E l \in Loops : ContinueProcessing(l)
      <3>1. PICK l \in Loops : ContinueProcessing(l)
        BY <2>10
      <3> DEFINE i == loops[l].index
      <3>2. /\ scheduled' = [scheduled EXCEPT ![i].status = "EXECUTED"] /\ approvals' = approvals
            /\ scheduled[i].status = "SCHEDULED"
        BY <3>1 DEF ContinueProcessing, RequestsInv, SuspendedInv
      <3>3. \A k \in DOMAIN scheduled : k # i => scheduled'[k] = scheduled[k]
        BY <3>2
      <3>4. QED
        BY <3>2, <3>3
    <2>11. CASE \/ \E u \in Users, c \in Configs : \E fees \in NewFees : CreateConfiguration(u, c, fees)
                \/ \E l \in Loops : ProcessPendingScheduledUpdates(l)
                \/ \E s \in SettingsValues : UpdateAdminSettings(s)
                \/ Tick
                \/ UNCHANGED vars
      BY <2>2, <2>11 DEF CreateConfiguration, ProcessPendingScheduledUpdates, UpdateAdminSettings,
                         Tick, vars
    <2> HIDE DEF Kept
    <2>12. QED
      BY <2>5, <2>6, <2>7, <2>8, <2>9, <2>10, <2>11 DEF Next
  <1>2. QED
    BY <1>1, RequestsHold, TypeCorrect, PTL DEF Spec, DecisionsAreFinal

-------------------------------------------------------------------------------
(* The refinement.  Each step of the administration is read as a step of     *)
(* ChangeControl or as a stutter: what matters of it is which requests it    *)
(* applies, which it refuses, and which versions it makes.                   *)

Applied(src) == \E h \in history : h.src = src

Refused(src) ==
  \E r \in DOMAIN approvals : approvals[r].src = src /\ approvals[r].status = "REJECTED"

Change(i) ==
  [config |-> submitted[i].config, stage |-> StageOf(i),
   due |-> submitted[i].promised]

Changes == [i \in 1..Len(submitted) |-> Change(i)]
Versions == [c \in Configs |-> configs[c].version]

LEMMA Stages ==
  \A i \in Nat : StageOf(i) = IF Applied(i) THEN "applied" ELSE IF Refused(i) THEN "refused" ELSE "open"
  BY DEF StageOf, Applied, Refused

LEMMA StagesNext ==
  \A i \in Nat : StageOf(i)' = IF Applied(i)' THEN "applied" ELSE IF Refused(i)' THEN "refused" ELSE "open"
  BY DEF StageOf, Applied, Refused

\* A step that neither submits, applies, refuses nor creates is a stutter.
LEMMA Stutters ==
  ASSUME TypeOK, UNCHANGED <<submitted, now, configs, history>>,
         \A i \in Nat : Refused(i)' <=> Refused(i)
  PROVE  UNCHANGED <<Changes, Versions, now>>
  <1>1. \A i \in Nat : Applied(i)' <=> Applied(i)
    BY DEF Applied
  <1>2. \A i \in Nat : StageOf(i)' = StageOf(i)
    BY <1>1, Stages, StagesNext
  <1>3. \A i \in 1..Len(submitted) : i \in Nat
    OBVIOUS
  <1>4. Changes' = Changes
    BY <1>2, <1>3 DEF Changes, Change
  <1>5. QED
    BY <1>4 DEF Versions

\* A request that is neither applied nor refused and whose date has come is
\* applied: Apply.
LEMMA AppliesOpen ==
  ASSUME TypeOK, NEW src \in DOMAIN submitted, UNCHANGED <<submitted, now>>,
         ~Applied(src), ~Refused(src), Earliest(submitted, src) <= now,
         ApplyFeeUpdate(submitted[src], src), \A i \in Nat : Refused(i)' <=> Refused(i)
  PROVE  Control!Apply(src)
  <1> DEFINE s == submitted[src]
  <1>1. s \in Submissions /\ src \in Nat /\ DOMAIN submitted = 1..Len(submitted) /\ s.config \in Configs
    <2>1. s \in Submissions
      BY DEF TypeOK
    <2>2. QED
      BY <2>1, SourceType DEF Submissions
  <1>2. PICK e \in Entries : history' = history \cup {e} /\ e.src = src
    BY <1>1, ApplyType
  <1>3. \A i \in Nat : Applied(i)' <=> Applied(i) \/ i = src
    BY <1>2 DEF Applied
  <1>4. /\ StageOf(src) = "open" /\ StageOf(src)' = "applied"
        /\ \A i \in Nat : i # src => StageOf(i)' = StageOf(i)
    BY <1>1, <1>3, Stages, StagesNext
  <1>5. \A i \in 1..Len(submitted) : i \in Nat
    OBVIOUS
  <1>6. Changes' = [Changes EXCEPT ![src].stage = "applied"]
    BY <1>1, <1>4, <1>5 DEF Changes, Change
  <1>7. Versions' = [Versions EXCEPT ![s.config] = @ + 1]
    <2>1. configs' = [configs EXCEPT ![s.config] =
                        [version |-> configs[s.config].version + 1,
                         fees |-> Merge(configs[s.config].fees, s.patch)]]
      BY DEF ApplyFeeUpdate
    <2>2. configs \in [Configs -> [version : Nat, fees : Fees]]
      BY DEF TypeOK
    <2>3. QED
      BY <1>1, <2>1, <2>2 DEF Versions
  <1>8. /\ Changes[src].stage = "open" /\ Changes[src].due = Earliest(submitted, src)
        /\ Changes[src].config = s.config
    BY <1>1, <1>4 DEF Changes, Change, Earliest
  <1>9. QED
    BY <1>6, <1>7, <1>8 DEF Control!Apply, Changes, Change, Versions

\* What a submission adds: one change at the end, open or already applied.
LEMMA SubmissionMaps ==
  ASSUME TypeOK, NEW s \in Submissions, submitted' = Append(submitted, s), UNCHANGED now, NEW new, new = NextRequest,
         \A i \in Nat : i # new => (Applied(i)' <=> Applied(i)),
         \A i \in Nat : Refused(i)' <=> Refused(i)
  PROVE  Changes' = Append(Changes, [config |-> s.config,
                                     due |-> s.promised,
                                     stage |-> IF Applied(new)' THEN "applied" ELSE "open"])
  <1> DEFINE stage == IF Applied(new)' THEN "applied" ELSE "open"
             c == [config |-> s.config, due |-> s.promised, stage |-> stage]
  <1>1. submitted \in Seq(Submissions) /\ Len(submitted) \in Nat /\ new \in Nat /\ new = Len(submitted) + 1
    BY DEF TypeOK, NextRequest
  <1>2. /\ Len(submitted') = new /\ submitted'[new] = s
        /\ \A k \in 1..Len(submitted) : submitted'[k] = submitted[k]
    BY <1>1
  <1>3. ~Refused(new)'
    BY <1>1, FreshRequest DEF Refused
  <1>4. /\ StageOf(new)' = stage
        /\ \A i \in 1..Len(submitted) : StageOf(i)' = StageOf(i)
    <2>1. \A i \in 1..Len(submitted) : i \in Nat /\ i # new
      BY <1>1
    <2>2. QED
      BY <1>1, <1>3, <2>1, Stages, StagesNext
  <1> HIDE DEF stage
  <1>5. Change(new)' = c /\ \A i \in 1..Len(submitted) : Change(i)' = Change(i)
    BY <1>2, <1>4 DEF Change
  <1> HIDE DEF c
  <1>6. Changes' = [i \in 1..new |-> IF i = new THEN c ELSE Changes[i]]
    BY <1>1, <1>2, <1>5 DEF Changes
  <1>7. Append(Changes, c) = [i \in 1..new |-> IF i = new THEN c ELSE Changes[i]]
    <2> DEFINE S == {Change(i) : i \in 1..Len(submitted)} \cup {c}
    <2>1. Changes \in Seq(S) /\ Len(Changes) = Len(submitted) /\ c \in S
      BY <1>1 DEF Changes
    <2> HIDE DEF S
    <2>2. /\ Append(Changes, c) \in Seq(S) /\ DOMAIN Append(Changes, c) = 1..new
          /\ \A i \in 1..Len(submitted) : Append(Changes, c)[i] = Changes[i]
          /\ Append(Changes, c)[new] = c
      BY <1>1, <2>1, AppendType
    <2>3. \A i \in 1..new : Append(Changes, c)[i] = IF i = new THEN c ELSE Changes[i]
      BY <1>1, <2>2
    <2>4. Append(Changes, c) = [i \in DOMAIN Append(Changes, c) |-> Append(Changes, c)[i]]
      BY <2>2, LenProperties
    <2>5. QED
      BY <2>2, <2>3, <2>4
  <1>8. QED
    BY <1>6, <1>7 DEF stage, c

\* A request that is rejected before it had an effect: Refuse.
LEMMA RefusesOpen ==
  ASSUME TypeOK, NEW src \in DOMAIN submitted, UNCHANGED <<submitted, now, configs, history>>,
         ~Applied(src), ~Refused(src), \A i \in Nat : Refused(i)' <=> Refused(i) \/ i = src
  PROVE  Control!Refuse(src)
  <1>1. src \in Nat /\ DOMAIN submitted = 1..Len(submitted) /\ \A i \in 1..Len(submitted) : i \in Nat
    BY SourceType
  <1>2. \A i \in Nat : Applied(i)' <=> Applied(i)
    BY DEF Applied
  <1>3. /\ StageOf(src) = "open" /\ StageOf(src)' = "refused"
        /\ \A i \in Nat : i # src => StageOf(i)' = StageOf(i)
    BY <1>1, <1>2, Stages, StagesNext
  <1>4. Changes' = [Changes EXCEPT ![src].stage = "refused"]
    BY <1>1, <1>3 DEF Changes, Change
  <1>5. Changes[src].stage = "open" /\ Versions' = Versions
    BY <1>1, <1>3 DEF Changes, Change, Versions
  <1>6. QED
    BY <1>4, <1>5 DEF Control!Refuse, Changes, Change, Versions

LEMMA CreateMaps ==
  ASSUME TypeOK, NEW u \in Users, NEW c \in Configs, NEW fees \in NewFees,
         CreateConfiguration(u, c, fees)
  PROVE  Control!Create(c)
  <1> DEFINE e == [type |-> "FEE_CREATED", config |-> c, version |-> 1, fees |-> fees,
                   old |-> fees, by |-> u, src |-> 0, at |-> now]
  <1>1. /\ history' = history \cup {e} /\ e.src = 0
        /\ configs' = [configs EXCEPT ![c] = [version |-> 1, fees |-> fees]]
        /\ ~(configs[c].version > 0)
        /\ UNCHANGED <<approvals, now, submitted>>
    BY DEF CreateConfiguration, Exists
  <1>2. configs \in [Configs -> [version : Nat, fees : Fees]] /\ configs[c].version = 0
    BY <1>1 DEF TypeOK
  <1> HIDE DEF e
  <1>3. \A i \in Nat \ {0} : Applied(i)' <=> Applied(i)
    BY <1>1 DEF Applied
  <1>4. \A i \in Nat : Refused(i)' <=> Refused(i)
    BY <1>1 DEF Refused
  <1>5. \A i \in 1..Len(submitted) : i \in Nat \ {0} /\ StageOf(i)' = StageOf(i)
    BY <1>3, <1>4, Stages, StagesNext
  <1>6. Changes' = Changes
    BY <1>1, <1>5 DEF Changes, Change
  <1>7. Versions[c] = 0 /\ Versions' = [Versions EXCEPT ![c] = 1]
    BY <1>1, <1>2 DEF Versions
  <1>8. QED
    BY <1>1, <1>6, <1>7 DEF Control!Create, Changes, Change, Versions

Delays == 0..MaxTime \cup {s.timelockDelayMinutes : s \in SettingsValues \cup {InitialSettings}}

\* The promised date is ahead by the timelock in force or by what the request asks.
LEMMA PromisedDelay ==
  ASSUME TypeOK, RequestsInv, NEW d \in RequestDates
  PROVE  /\ PromisedDate(d) \in Nat
         /\ \E delay \in Delays : delay \in Nat /\ PromisedDate(d) = now + delay
  <1>1. d \in [kind : DateKinds, at : 0..MaxTime] /\ now \in Nat /\ MaxTime \in Nat
        /\ settings.timelockDelayMinutes \in Nat /\ DateKinds \subseteq {"none", "date", "text"}
    BY FeeAssumption DEF RequestDates, TypeOK
  <1>2. settings.timelockDelayMinutes \in Delays
    BY DEF RequestsInv, SettingsInv, Delays
  <1>3. \A n \in 0..MaxTime : n \in Delays /\ n \in Nat
    BY <1>1 DEF Delays
  <1>4. CASE PromisedDate(d) = now + settings.timelockDelayMinutes
    BY <1>1, <1>2, <1>4
  <1>5. CASE PromisedDate(d) = now
    <2>1. 0 \in 0..MaxTime /\ now = now + 0
      BY <1>1
    <2>2. QED
      BY <1>1, <1>3, <1>5, <2>1
  <1>6. CASE PromisedDate(d) = d.at /\ d.at > now + settings.timelockDelayMinutes
    <2>1. d.at - now \in 0..MaxTime /\ d.at = now + (d.at - now) /\ d.at \in Nat
      BY <1>1, <1>6
    <2>2. QED
      BY <1>3, <1>6, <2>1
  <1>7. QED
    BY <1>1, <1>4, <1>5, <1>6 DEF PromisedDate

\* Updates and approval requests, submitted: Submit.
LEMMA UpdateMaps ==
  ASSUME TypeOK, RequestsInv, NEW u \in Users, NEW c \in Configs,
         NEW p \in Patches, NEW d \in RequestDates, UpdateConfiguration(u, c, p, d)
  PROVE  \E delay \in Delays : Control!Submit(c, delay)
  <1> DEFINE s == Submission("direct", u, c, p, d)
             eff == EffectiveDateWithDelay(d)
  <1>0. PICK delay \in Delays : delay \in Nat /\ PromisedDate(d) = now + delay
    BY PromisedDelay
  <1>1. /\ ScheduleOrApply(s, NextRequest, eff) /\ configs[c].version > 0
        /\ submitted' = Append(submitted, s)
        /\ UNCHANGED <<approvals, settings, now, approving, loops>>
    BY DEF UpdateConfiguration, Exists
  <1>2. /\ s \in Submissions /\ s.promised = now + delay /\ s.config = c
        /\ eff \in [kind : {"date", "text"}, at : Nat]
        /\ IF eff.kind = "date" THEN eff.at >= now + delay ELSE delay = 0
    <2>1. IF eff.kind = "date" THEN eff.at >= PromisedDate(d) ELSE PromisedDate(d) = now
      BY EffectiveDateType
    <2>2. now \in Nat
      BY DEF TypeOK
    <2>3. eff.kind # "date" => delay = 0
      BY <1>0, <2>1, <2>2
    <2>4. QED
      BY <1>0, <2>1, <2>3, SubmissionType, EffectiveDateType
  <1>3. PICK new \in Nat \ {0} : new = NextRequest
    BY FreshRequest
  <1>4. /\ now \in Nat /\ delay \in Nat /\ configs \in [Configs -> [version : Nat, fees : Fees]]
    BY <1>0 DEF TypeOK
  <1> HIDE DEF s, eff, Delays
  <1>5. ~Applied(new)
    BY <1>3, FreshRequest DEF Applied, TookEffect
  <1>6. \A i \in Nat : Refused(i)' <=> Refused(i)
    BY <1>1 DEF Refused
  <1>7. Versions[c] > 0 /\ c \in Configs
    BY <1>1 DEF Versions
  <1>8. CASE LaterThanNow(eff) /\ UNCHANGED <<configs, history>>
    <2>1. ~Applied(new)' /\ \A i \in Nat : Applied(i)' <=> Applied(i)
      BY <1>5, <1>8 DEF Applied
    <2>2. Changes' = Append(Changes, [config |-> c, due |-> now + delay, stage |-> "open"])
      BY <1>1, <1>2, <1>3, <1>6, <1>0, <2>1, SubmissionMaps
    <2>3. Versions' = Versions
      BY <1>8 DEF Versions
    <2>4. Control!Submit(c, delay)
      BY <1>1, <1>7, <2>2, <2>3 DEF Control!Submit, Changes, Change, Versions
    <2>5. QED
      BY <2>4
  <1>9. CASE ~LaterThanNow(eff) /\ ApplyFeeUpdate(s, new)
    <2>1. delay = 0
      BY <1>2, <1>4, <1>9 DEF LaterThanNow
    <2>2. PICK e \in Entries : history' = history \cup {e} /\ e.src = new
      BY <1>2, <1>9, ApplyType
    <2>3. Applied(new)' /\ \A i \in Nat : i # new => (Applied(i)' <=> Applied(i))
      BY <2>2 DEF Applied
    <2>4. Changes' = Append(Changes, [config |-> c, due |-> now + delay, stage |-> "applied"])
      BY <1>1, <1>2, <1>3, <1>6, <1>0, <2>3, SubmissionMaps
    <2>5. Versions' = [Versions EXCEPT ![c] = @ + 1]
      <3>1. configs' = [configs EXCEPT ![c] = [version |-> configs[c].version + 1,
                                               fees |-> Merge(configs[c].fees, s.patch)]]
        BY <1>2, <1>9 DEF ApplyFeeUpdate
      <3>2. QED
        BY <1>4, <3>1 DEF Versions
    <2>6. now + delay = now
      BY <1>4, <2>1
    <2>7. Control!Submit(c, delay)
      BY <1>1, <1>7, <2>1, <2>4, <2>5, <2>6 DEF Control!Submit, Changes, Change, Versions
    <2>8. QED
      BY <2>7
  <1>10. QED
    BY <1>1, <1>3, <1>8, <1>9 DEF ScheduleOrApply

LEMMA CreateApprovalMaps ==
  ASSUME TypeOK, RequestsInv, NEW u \in Users, NEW c \in Configs,
         NEW p \in Patches, NEW d \in RequestDates, CreateApprovalRequest(u, c, p, d)
  PROVE  \E delay \in Delays : Control!Submit(c, delay)
  <1>0. PICK delay \in Delays : delay \in Nat /\ PromisedDate(d) = now + delay
    BY PromisedDelay
  <1> DEFINE s == Submission("approval", u, c, p, d)
             a == [src |-> NextRequest, status |-> "PENDING",
                   requiredSigners |-> settings.multisigSigners,
                   threshold |-> settings.multisigApprovalThreshold,
                   approvals |-> IF u \in settings.multisigSigners THEN <<u>> ELSE <<>>,
                   rejections |-> <<>>, effectiveDate |-> EffectiveDateWithDelay(d)]
  <1>1. /\ configs[c].version > 0
        /\ submitted' = Append(submitted, s) /\ approvals' = Append(approvals, a)
        /\ UNCHANGED <<configs, history, scheduled, settings, now, approving, loops>>
    BY DEF CreateApprovalRequest, Exists
  <1>2. s \in Submissions /\ s.promised = now + delay /\ s.config = c
    BY <1>0, SubmissionType
  <1>3. PICK new \in Nat \ {0} : new = NextRequest
    BY FreshRequest
  <1>4. a.status = "PENDING" /\ approvals \in Seq(ApprovalRequests)
    BY DEF TypeOK
  <1> HIDE DEF s, a, Delays
  <1>5. \A i \in Nat : Refused(i)' <=> Refused(i)
    <2>1. /\ DOMAIN approvals' = DOMAIN approvals \cup {Len(approvals) + 1}
          /\ approvals'[Len(approvals) + 1] = a
          /\ \A r \in DOMAIN approvals : approvals'[r] = approvals[r]
      BY <1>1, <1>4
    <2>2. QED
      BY <1>4, <2>1 DEF Refused
  <1>6. ~Applied(new)' /\ \A i \in Nat : Applied(i)' <=> Applied(i)
    BY <1>1, <1>3, FreshRequest DEF Applied, TookEffect
  <1>7. Changes' = Append(Changes, [config |-> c, due |-> now + delay, stage |-> "open"])
    BY <1>1, <1>2, <1>3, <1>5, <1>0, <1>6, SubmissionMaps
  <1>8. Control!Submit(c, delay)
    BY <1>1, <1>7 DEF Control!Submit, Changes, Change, Versions
  <1>9. QED
    BY <1>8

\* A vote that leaves the statuses alone refuses nothing.
LEMMA VoteRefusesNothing ==
  ASSUME TypeOK, NEW r \in DOMAIN approvals, NEW b \in ApprovalRequests,
         b.src = approvals[r].src, b.status # "REJECTED", approvals[r].status # "REJECTED",
         approvals' = [approvals EXCEPT ![r] = b]
  PROVE  \A i \in Nat : Refused(i)' <=> Refused(i)
  <1>1. /\ DOMAIN approvals' = DOMAIN approvals
        /\ \A q \in DOMAIN approvals : approvals'[q] = IF q = r THEN b ELSE approvals[q]
    BY ExceptType DEF TypeOK
  <1>2. QED
    BY <1>1 DEF Refused

\* An undecided approval request is neither applied nor refused.
LEMMA PendingIsOpen ==
  ASSUME TypeOK, RequestsInv, NEW r \in DOMAIN approvals, approvals[r].status = "PENDING",
         r \notin approving
  PROVE  ~Applied(approvals[r].src) /\ ~Refused(approvals[r].src)
  <1>1. ~TookEffect(approvals[r].src)
    BY DEF RequestsInv, DecisionInv, Decided
  <1>2. QED
    BY <1>1 DEF Applied, Refused, TookEffect, RequestsInv, DecisionInv

\* Nor is a request that waits in the schedule and in no loop's hands.
LEMMA ScheduledIsOpen ==
  ASSUME TypeOK, RequestsInv, NEW k \in DOMAIN scheduled, scheduled[k].status = "SCHEDULED",
         \A l \in Loops : loops[l].index # k
  PROVE  ~Applied(scheduled[k].src) /\ ~Refused(scheduled[k].src)
  <1>1. ~Applied(scheduled[k].src)
    BY DEF Applied, RequestsInv, EffectInv
  <1>2. TookEffect(scheduled[k].src)
    BY DEF TookEffect
  <1>3. \A r \in DOMAIN approvals : approvals[r].src = scheduled[k].src => Decided(r)
    BY <1>2 DEF RequestsInv, DecisionInv
  <1>4. \A r \in DOMAIN approvals : Decided(r) => approvals[r].status # "REJECTED"
    BY DEF Decided, RequestsInv, SuspendedInv
  <1>5. QED
    BY <1>1, <1>3, <1>4 DEF Refused

LEMMA ApproveMaps ==
  ASSUME TypeOK, RequestsInv, TimelockInv, SameTurn = FALSE, NEW u \in Users,
         NEW r \in DOMAIN approvals, ApproveApprovalRequest(u, r)
  PROVE  UNCHANGED <<Changes, Versions, now>> \/ \E i \in DOMAIN submitted : Control!Apply(i)
  <1> DEFINE a == approvals[r]
             votes == Append(a.approvals, u)
             b == [a EXCEPT !.approvals = votes]
  <1>1. /\ approving = {} /\ a.status = "PENDING"
        /\ approvals' = [approvals EXCEPT ![r] = b]
        /\ UNCHANGED <<settings, now, loops, submitted>>
        /\ UNCHANGED <<configs, history>> \/ ScheduleOrApply(submitted[a.src], a.src, a.effectiveDate)
    BY DEF ApproveApprovalRequest, MayStart, MayVote
  <1>2. /\ a \in ApprovalRequests /\ a.src \in DOMAIN submitted /\ a.src \in Nat
        /\ a.effectiveDate.at \in Nat
    BY SourceType DEF TypeOK, ApprovalRequests
  <1>3. b \in ApprovalRequests /\ b.src = a.src /\ b.status = "PENDING"
    <2>1. votes \in Seq(Users)
      BY <1>2, AppendType DEF ApprovalRequests
    <2>2. QED
      BY <1>1, <1>2, <2>1 DEF ApprovalRequests
  <1> HIDE DEF b
  <1>4. \A i \in Nat : Refused(i)' <=> Refused(i)
    BY <1>1, <1>3, VoteRefusesNothing
  <1>5. ~Applied(a.src) /\ ~Refused(a.src)
    BY <1>1, PendingIsOpen
  <1>6. CASE UNCHANGED <<configs, history>>
    BY <1>1, <1>4, <1>6, Stutters
  <1>7. CASE ~LaterThanNow(a.effectiveDate) /\ ApplyFeeUpdate(submitted[a.src], a.src)
    <2>1. Earliest(submitted, a.src) <= now
      <3>1. Timely(a.effectiveDate, submitted, a.src) /\ Earliest(submitted, a.src) \in Nat
        BY <1>2, EarliestType DEF TimelockInv
      <3>2. a.effectiveDate.at \in Nat /\ now \in Nat
        BY <1>2 DEF ApprovalRequests, TypeOK
      <3>3. QED
        BY <1>7, <3>1, <3>2 DEF Timely, LaterThanNow
    <2>2. PICK src \in DOMAIN submitted : src = a.src
      BY <1>2
    <2>3. Control!Apply(src)
      BY <1>1, <1>4, <1>5, <1>7, <2>1, <2>2, AppliesOpen
    <2>4. QED
      BY <2>3
  <1>8. QED
    BY <1>1, <1>6, <1>7 DEF ScheduleOrApply

LEMMA RejectMaps ==
  ASSUME TypeOK, RequestsInv, SameTurn = FALSE, NEW u \in Users,
         NEW r \in DOMAIN approvals, RejectApprovalRequest(u, r)
  PROVE  UNCHANGED <<Changes, Versions, now>> \/ \E i \in DOMAIN submitted : Control!Refuse(i)
  <1> DEFINE a == approvals[r]
             votes == Append(a.rejections, u)
             status == IF Len(votes) >= RejectionsNeeded(a) THEN "REJECTED" ELSE a.status
             b == [a EXCEPT !.rejections = votes, !.status = status]
  <1>1. /\ approving = {} /\ a.status = "PENDING"
        /\ approvals' = [approvals EXCEPT ![r] = b]
        /\ UNCHANGED <<configs, history, scheduled, settings, now, approving, loops, submitted>>
    BY DEF RejectApprovalRequest, MayStart, MayVote
  <1>2. a \in ApprovalRequests /\ a.src \in DOMAIN submitted /\ a.src \in Nat
    BY SourceType DEF TypeOK
  <1>3. votes \in Seq(Users) /\ status \in {"PENDING", "REJECTED"}
    BY <1>1, <1>2, AppendType DEF ApprovalRequests
  <1> HIDE DEF votes, status
  <1>4. b \in ApprovalRequests /\ b.src = a.src /\ b.status = status
    BY <1>2, <1>3 DEF ApprovalRequests
  <1> HIDE DEF b
  <1>5. ~Applied(a.src) /\ ~Refused(a.src)
    BY <1>1, PendingIsOpen
  <1>6. CASE status = "PENDING"
    <2>1. \A i \in Nat : Refused(i)' <=> Refused(i)
      BY <1>1, <1>4, <1>6, VoteRefusesNothing
    <2>2. QED
      BY <1>1, <2>1, Stutters
  <1>7. CASE status = "REJECTED"
    <2>1. PICK src \in DOMAIN submitted : src = a.src
      BY <1>2
    <2>2. /\ DOMAIN approvals' = DOMAIN approvals
          /\ \A q \in DOMAIN approvals : approvals'[q] = IF q = r THEN b ELSE approvals[q]
      BY <1>1, <1>4, ExceptType DEF TypeOK
    <2>3. \A i \in Nat : Refused(i)' <=> Refused(i) \/ i = src
      BY <1>1, <1>4, <1>7, <2>1, <2>2 DEF Refused
    <2>4. Control!Refuse(src)
      BY <1>1, <1>5, <2>1, <2>3, RefusesOpen
    <2>5. QED
      BY <2>4
  <1>8. QED
    BY <1>3, <1>6, <1>7

\* A loop applies the scheduled update k at a time t that is not ahead.
LEMMA LoopMaps ==
  ASSUME TypeOK, RequestsInv, TimelockInv, NEW k \in DOMAIN scheduled, NEW t \in Nat, t <= now,
         IsDue(k, t), \A l \in Loops : loops[l].index # k,
         ApplyFeeUpdate(submitted[scheduled[k].src], scheduled[k].src),
         UNCHANGED <<approvals, submitted, now>>
  PROVE  \E i \in DOMAIN submitted : Control!Apply(i)
  <1>1. scheduled[k].status = "SCHEDULED" /\ scheduled[k].at <= t
    BY DEF IsDue
  <1>2. scheduled[k] \in ScheduledUpdates /\ scheduled[k].at \in Nat
    BY SourceType DEF ScheduledUpdates
  <1>3. PICK src \in DOMAIN submitted : src = scheduled[k].src
    BY DEF TypeOK
  <1>4. Earliest(submitted, src) <= now
    BY <1>1, <1>2, <1>3, EarliestType DEF TimelockInv, TypeOK
  <1>5. ~Applied(src) /\ ~Refused(src)
    BY <1>1, <1>3, ScheduledIsOpen
  <1>6. \A i \in Nat : Refused(i)' <=> Refused(i)
    BY DEF Refused
  <1>7. Control!Apply(src)
    BY <1>3, <1>4, <1>5, <1>6, AppliesOpen
  <1>8. QED
    BY <1>7

LEMMA ProcessMaps ==
  ASSUME TypeOK, RequestsInv, TimelockInv, SameTurn = FALSE, NEW l \in Loops,
         ProcessPendingScheduledUpdates(l)
  PROVE  \E i \in DOMAIN submitted : Control!Apply(i)
  <1>1. PICK k \in DOMAIN scheduled :
          /\ IsNextDue(k, 0, now)
          /\ ApplyFeeUpdate(submitted[scheduled[k].src], scheduled[k].src)
    BY DEF ProcessPendingScheduledUpdates
  <1>2. /\ UNCHANGED <<approvals, submitted, now>>
        /\ \A m \in Loops : loops[m].index = 0
    BY DEF ProcessPendingScheduledUpdates, MayStart
  <1>3. now \in Nat /\ IsDue(k, now) /\ \A m \in Loops : loops[m].index # k
    BY <1>1, <1>2 DEF IsNextDue, TypeOK
  <1>4. QED
    BY <1>1, <1>2, <1>3, LoopMaps

LEMMA ContinueMaps ==
  ASSUME TypeOK, RequestsInv, TimelockInv, NEW l \in Loops, ContinueProcessing(l)
  PROVE  UNCHANGED <<Changes, Versions, now>> \/ \E i \in DOMAIN submitted : Control!Apply(i)
  <1> DEFINE i == loops[l].index
             t == loops[l].now
  <1>1. /\ i > 0 /\ i \in Nat /\ t \in Nat /\ t <= now
        /\ UNCHANGED <<approvals, settings, now, approving, submitted>>
    BY DEF ContinueProcessing, TypeOK, TimelockInv
  <1>2. \A m \in Loops : loops[m].index = i \/ loops[m].index = 0
    <2>1. \A m \in Loops : loops[m].index \in Nat
      BY DEF TypeOK
    <2>2. \A m \in Loops : loops[m].index > 0 => m = l
      BY <1>1 DEF RequestsInv, SuspendedInv
    <2>3. QED
      BY <2>1, <2>2
  <1>3. CASE \E k \in DOMAIN scheduled :
               /\ IsNextDue(k, i, t)
               /\ ApplyFeeUpdate(submitted[scheduled[k].src], scheduled[k].src)
    <2>1. PICK k \in DOMAIN scheduled :
               /\ IsNextDue(k, i, t)
               /\ ApplyFeeUpdate(submitted[scheduled[k].src], scheduled[k].src)
      BY <1>3
    <2>2. IsDue(k, t) /\ k > i
      BY <1>1, <2>1 DEF IsNextDue, TypeOK
    <2>3. \A m \in Loops : loops[m].index # k
      BY <1>1, <1>2, <2>2
    <2>4. QED
      BY <1>1, <2>1, <2>2, <2>3, LoopMaps
  <1>4. CASE UNCHANGED <<configs, history>>
    <2>1. \A n \in Nat : Refused(n)' <=> Refused(n)
      BY <1>1 DEF Refused
    <2>2. QED
      BY <1>1, <1>4, <2>1, Stutters
  <1>5. QED
    BY <1>3, <1>4 DEF ContinueProcessing

\* For calls that do not share a turn: the administration, with its approvals,
\* schedule and suspended calls, implements ChangeControl.
THEOREM ImplementsControl ==
  ASSUME SameTurn = FALSE
  PROVE  Spec => ImplementsChangeControl
  <1>1. Init => Control!Init
    <2> SUFFICES ASSUME Init PROVE Control!Init
      OBVIOUS
    <2>1. configs = [c \in Configs |-> IF c = Default
                                       THEN [version |-> 1, fees |-> DefaultFees]
                                       ELSE [version |-> 0, fees |-> NoFees]]
      BY DEF Init
    <2>2. Versions \in [Configs -> {0, 1}]
      BY <2>1 DEF Versions
    <2>3. submitted = <<>> /\ now = 0
      BY DEF Init
    <2>4. Changes = <<>>
      BY <2>3 DEF Changes
    <2>5. QED
      BY <2>2, <2>3, <2>4 DEF Control!Init, Changes, Change, Versions
  <1>2. TypeOK /\ RequestsInv /\ TimelockInv /\ [Next]_vars
          => Control!Next \/ UNCHANGED <<Changes, Versions, now>>
    <2> SUFFICES ASSUME TypeOK, RequestsInv, TimelockInv, [Next]_vars
                 PROVE  Control!Next \/ UNCHANGED <<Changes, Versions, now>>
      OBVIOUS
    <2>1. DOMAIN Changes = DOMAIN submitted
      BY SourceType DEF Changes
    <2>2. ASSUME NEW i \in DOMAIN submitted, Control!Apply(i) \/ Control!Refuse(i)
          PROVE  Control!Next
      BY <2>1, <2>2 DEF Control!Next, Changes, Change
    <2>3. CASE UNCHANGED vars
      BY <2>3, Stutters DEF vars, Refused
    <2>4. CASE Tick
      <3>1. now' = now + 1 /\ UNCHANGED <<configs, history, approvals, submitted>>
        BY <2>4 DEF Tick
      <3>2. UNCHANGED <<Changes, Versions>>
        BY <3>1 DEF Changes, Change, StageOf, Versions
      <3>3. Control!Tick
        BY <3>1, <3>2 DEF Control!Tick, Changes, Change, Versions
      <3>4. QED
        BY <3>3 DEF Control!Next
    <2>5. CASE \E s \in SettingsValues : UpdateAdminSettings(s)
      BY <2>5, Stutters DEF UpdateAdminSettings, Refused
    <2>6. CASE \E u \in Users, c \in Configs :
                 \E p \in Patches, d \in RequestDates : UpdateConfiguration(u, c, p, d)
      BY <2>6, UpdateMaps DEF Control!Next, Delays
    <2>7. CASE \E u \in Users, c \in Configs :
                 \E p \in Patches, d \in RequestDates : CreateApprovalRequest(u, c, p, d)
      BY <2>7, CreateApprovalMaps DEF Control!Next, Delays
    <2>8. CASE \E u \in Users, c \in Configs : \E fees \in NewFees : CreateConfiguration(u, c, fees)
      BY <2>8, CreateMaps DEF Control!Next
    <2>9. CASE \E u \in Users, r \in DOMAIN approvals : ApproveApprovalRequest(u, r)
      BY <2>2, <2>9, ApproveMaps
    <2>10. CASE \E u \in Users, r \in DOMAIN approvals : RejectApprovalRequest(u, r)
      BY <2>2, <2>10, RejectMaps
    <2>11. CASE \E r \in DOMAIN approvals : FinishApproval(r)
      <3>1. PICK r \in DOMAIN approvals : FinishApproval(r)
        BY <2>11
      <3> DEFINE b == [approvals[r] EXCEPT !.status = "APPROVED"]
      <3>2. /\ approvals' = [approvals EXCEPT ![r] = b] /\ r \in approving
            /\ UNCHANGED <<configs, history, scheduled, settings, now, loops, submitted>>
        BY <3>1 DEF FinishApproval
      <3>3. approvals[r] \in ApprovalRequests /\ approvals[r].status = "PENDING"
        BY <3>2, SourceType DEF RequestsInv, SuspendedInv
      <3>4. b \in ApprovalRequests /\ b.src = approvals[r].src /\ b.status = "APPROVED"
        BY <3>3 DEF ApprovalRequests
      <3> HIDE DEF b
      <3>5. \A i \in Nat : Refused(i)' <=> Refused(i)
        BY <3>2, <3>3, <3>4, VoteRefusesNothing
      <3>6. QED
        BY <3>2, <3>5, Stutters
    <2>12. CASE \E l \in Loops : ProcessPendingScheduledUpdates(l)
      BY <2>2, <2>12, ProcessMaps
    <2>13. CASE \E l \in Loops : ContinueProcessing(l)
      BY <2>2, <2>13, ContinueMaps
    <2>14. QED
      BY <2>3, <2>4, <2>5, <2>6, <2>7, <2>8, <2>9, <2>10, <2>11, <2>12, <2>13 DEF Next
  <1>3. TypeOK /\ RequestsInv /\ TimelockInv /\ [Next]_vars => [Control!Next]_<<Changes, Versions, now>>
    BY <1>2
  <1>4. QED
    BY <1>1, <1>3, DatesHold, RequestsHold, TypeCorrect, PTL
    DEF Spec, ImplementsChangeControl, Control!Spec, Changes, Change, Versions
===============================================================================
