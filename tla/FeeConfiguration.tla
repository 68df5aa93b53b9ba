--------------------------- MODULE FeeConfiguration ---------------------------
(***************************************************************************)
(* The fee administration of GasGuard                                      *)
(* (apps/api-service gas-estimation/services/fee-configuration.service.ts):*)
(* direct updates, multisig approval requests, the timelock that turns an  *)
(* update into a scheduled one, the processing of due updates, the version *)
(* history and the admin settings.                                         *)
(*                                                                         *)
(* All state lives in the memory of one Node process.  A call runs without *)
(* interruption up to an `await` of something that changed state; only two *)
(* calls then have work left: an approval that reached its quorum          *)
(* (`approving`) and a loop over the scheduled updates (`loops`).          *)
(* SameTurn says whether other calls may run while one is suspended: FALSE *)
(* for calls that arrive as HTTP requests (Node drains its microtasks      *)
(* before the next one), TRUE for callers that start several calls in one  *)
(* turn of the event loop.                                                 *)
(***************************************************************************)
EXTENDS Integers, Sequences, FiniteSets

CONSTANTS
  Configs,          \* ids a fee configuration may have
  Default,          \* the id of the configuration the constructor creates
  Users,            \* admin user ids
  DefaultFees,      \* the fees of the default configuration
  Patches,          \* the fee fields update requests may carry
  NewFees,          \* the fees createConfiguration may be called with
  InitialSettings,  \* the admin settings of the constructor
  SettingsValues,   \* the settings updateAdminSettings may merge to
  DateKinds,        \* how a request may give its effectiveDate
  Loops,            \* calls of processPendingScheduledUpdates at one time
  SameTurn,         \* may other calls run while one is suspended?
  MaxRequests,      \* bound on the update requests of a behaviour
  MaxTime           \* bound on the clock

\* `rest` stands for the tier multipliers, discounts and limits together.
FeeFields == {"base", "min", "max", "rest"}
Fees == [FeeFields -> Int]

Settings ==
  [allowFeeUpdates : BOOLEAN, requireApprovalForLargeChanges : BOOLEAN,
   largeChangeThreshold : Int, multisigSigners : SUBSET Users,
   multisigApprovalThreshold : Int, timelockDelayMinutes : Int]

ASSUME FeeAssumption ==
  /\ Default \in Configs
  /\ DefaultFees \in Fees
  /\ NewFees \subseteq Fees
  /\ \A p \in Patches : /\ DOMAIN p \subseteq FeeFields
                        /\ \A f \in DOMAIN p : p[f] \in Int
  /\ InitialSettings \in Settings
  /\ InitialSettings.timelockDelayMinutes >= 0
  /\ SettingsValues \subseteq Settings
  /\ \A s \in SettingsValues \cup {InitialSettings} : IsFiniteSet(s.multisigSigners)
  /\ DateKinds \subseteq {"none", "date", "text"}
  /\ SameTurn \in BOOLEAN
  /\ MaxRequests \in Nat
  /\ MaxTime \in Nat

VARIABLES
  configs,      \* configurations: version (0 when absent) and fees of each id
  history,      \* configurationHistory with the change event of each entry
  approvals,    \* pendingApprovals, in order of creation
  scheduled,    \* scheduledUpdates, in order of creation
  settings,     \* adminSettings
  now,          \* the clock, in minutes
  approving,    \* approval requests whose quorum is being executed
  loops,        \* per loop: the scheduled update it waits for (0: idle), its `now`
  submitted     \* every update request accepted so far, with when and under what

vars == <<configs, history, approvals, scheduled, settings, now,
          approving, loops, submitted>>

-----------------------------------------------------------------------------
(* Values *)

\* An effectiveDate: absent, a Date (a JSON number compares like one), or the ISO
\* string by which a JSON body carries a date.
Date(t) == [kind |-> "date", at |-> t]
RequestDates == {d \in [kind : DateKinds, at : 0..MaxTime] : d.kind = "date" \/ d.at = 0}

MutLaterThanNow(d) == d.kind = "date" /\ d.at > now + 1

\* `>` between a date string and a Date compares NaN, which is never true.
LaterThanNow(d) == d.kind = "date" /\ d.at > now

MutEffectiveDateWithDelay(d) ==
  IF d.kind = "none" THEN Date(now + settings.timelockDelayMinutes) ELSE d

\* getEffectiveDateWithDelay: the string is not `<` the minimum date either.
EffectiveDateWithDelay(d) ==
  LET minimum == now + settings.timelockDelayMinutes
  IN  IF d.kind = "none" \/ (d.kind = "date" /\ d.at < minimum)
      THEN Date(minimum) ELSE d

\* applyUpdateRequest: the fields of the request over those of the configuration.
Merge(fees, patch) ==
  [f \in FeeFields |-> IF f \in DOMAIN patch THEN patch[f] ELSE fees[f]]

\* validateFeeUpdate looks at the price, the multipliers and the discounts only.
ValidUpdate(patch) == \A f \in DOMAIN patch \cap {"base", "rest"} : patch[f] >= 0

ValidNewConfiguration(fees) ==
  /\ \A f \in {"base", "min", "max"} : fees[f] >= 0
  /\ fees["max"] > 0 => fees["min"] <= fees["max"]

AbsoluteDifference(a, b) == IF a >= b THEN a - b ELSE b - a

\* checkIfApprovalRequired's comparison; with an old price of 0 the quotient is
\* Infinity (or NaN for no change), as the product form says.
IsLargeChange(fees, patch, percent) ==
  /\ "base" \in DOMAIN patch
  /\ AbsoluteDifference(patch["base"], fees["base"]) * 100 > percent * fees["base"]

IsMultisigEnabled ==
  /\ settings.requireApprovalForLargeChanges
  /\ settings.multisigSigners # {}
  /\ settings.multisigApprovalThreshold > 1

IsMultisigApprovalRequired(c, patch) ==
  IsMultisigEnabled /\ IsLargeChange(configs[c].fees, patch, settings.largeChangeThreshold)

Exists(c) == configs[c].version > 0

\* Other calls start only when nothing is suspended, unless SameTurn.
MayStart == SameTurn \/ (approving = {} /\ \A l \in Loops : loops[l].index = 0)

\* For the properties, what a request is promised when it is accepted: to wait for
\* its timelock and for the date it names.  A date that is a string promises
\* nothing in this code (ApprovedChangesWait says what the documents promise).
PromisedDate(d) ==
  LET minimum == now + settings.timelockDelayMinutes
  IN  CASE d.kind = "none" -> minimum
        [] d.kind = "date" -> IF d.at > minimum THEN d.at ELSE minimum
        [] d.kind = "text" -> now

\* What a request is, and (for the properties) what held when it was accepted.
Submission(kind, u, c, patch, d) ==
  [kind |-> kind, by |-> u, config |-> c, patch |-> patch, at |-> now,
   promised |-> PromisedDate(d),
   delay |-> settings.timelockDelayMinutes, multisig |-> IsMultisigEnabled,
   percent |-> settings.largeChangeThreshold]

NextRequest == Len(submitted) + 1

-----------------------------------------------------------------------------
(* Steps shared by the handlers *)

MutApplyFeeUpdate(s, src) ==
  LET current == configs[s.config]
      new     == [version |-> current.version + 1, fees |-> Merge(DefaultFees, s.patch)]
  IN  /\ configs' = [configs EXCEPT ![s.config] = new]
      /\ history' = history \cup
           {[type |-> "FEE_UPDATED", config |-> s.config, version |-> new.version,
             fees |-> new.fees, old |-> DefaultFees, by |-> s.by, src |-> src, at |-> now]}

\* applyFeeUpdate for request number src: the new version and its history entry.
ApplyFeeUpdate(s, src) ==
  LET current == configs[s.config]
      new     == [version |-> current.version + 1, fees |-> Merge(current.fees, s.patch)]
  IN  /\ configs' = [configs EXCEPT ![s.config] = new]
      /\ history' = history \cup
           {[type |-> "FEE_UPDATED", config |-> s.config, version |-> new.version,
             fees |-> new.fees, old |-> current.fees, by |-> s.by, src |-> src, at |-> now]}

ScheduleFeeUpdate(src, at) ==
  scheduled' = Append(scheduled, [src |-> src, at |-> at, status |-> "SCHEDULED"])

\* Schedule a request that is to wait for its date, apply any other at once.
ScheduleOrApply(s, src, effective) ==
  \/ /\ LaterThanNow(effective)
     /\ ScheduleFeeUpdate(src, effective.at)
     /\ UNCHANGED <<configs, history>>
  \/ /\ ~LaterThanNow(effective)
     /\ ApplyFeeUpdate(s, src)
     /\ UNCHANGED scheduled

-----------------------------------------------------------------------------
(* Handlers *)

UpdateConfiguration(u, c, patch, d) ==
  LET s == Submission("direct", u, c, patch, d)
  IN  /\ MayStart /\ Len(submitted) < MaxRequests
      /\ settings.allowFeeUpdates
      /\ Exists(c) /\ ValidUpdate(patch)
      /\ ~IsMultisigApprovalRequired(c, patch)
      /\ submitted' = Append(submitted, s)
      /\ ScheduleOrApply(s, NextRequest, EffectiveDateWithDelay(d))
      /\ UNCHANGED <<approvals, settings, now, approving, loops>>

CreateConfiguration(u, c, fees) ==
  /\ MayStart
  /\ ~Exists(c)
  /\ ValidNewConfiguration(fees)
  /\ configs' = [configs EXCEPT ![c] = [version |-> 1, fees |-> fees]]
  /\ history' = history \cup
       {[type |-> "FEE_CREATED", config |-> c, version |-> 1, fees |-> fees,
         old |-> fees, by |-> u, src |-> 0, at |-> now]}
  /\ UNCHANGED <<approvals, scheduled, settings, now, approving, loops, submitted>>

\* A requester who is a signer approves by asking.  The code's branch for a
\* request that is already approved is dead: multisig needs a threshold above 1.
CreateApprovalRequest(u, c, patch, d) ==
  /\ MayStart /\ Len(submitted) < MaxRequests
  /\ settings.allowFeeUpdates
  /\ Exists(c) /\ ValidUpdate(patch)
  /\ IsMultisigApprovalRequired(c, patch)
  /\ Cardinality(settings.multisigSigners) >= settings.multisigApprovalThreshold
  /\ submitted' = Append(submitted, Submission("approval", u, c, patch, d))
  /\ approvals' = Append(approvals,
       [src |-> NextRequest, status |-> "PENDING",
        requiredSigners |-> settings.multisigSigners,
        threshold |-> settings.multisigApprovalThreshold,
        approvals |-> IF u \in settings.multisigSigners THEN <<u>> ELSE <<>>,
        rejections |-> <<>>, effectiveDate |-> EffectiveDateWithDelay(d)])
  /\ UNCHANGED <<configs, history, scheduled, settings, now, approving, loops>>

MutVoted(votes, u) == FALSE
Voted(votes, u) == \E k \in DOMAIN votes : votes[k] = u

MutMayVote(u, r) == u \in settings.multisigSigners

\* The common head of approveApprovalRequest and rejectApprovalRequest: the
\* signers asked are the current ones, not those of the request.
MayVote(u, r) == approvals[r].status = "PENDING" /\ u \in settings.multisigSigners

\* approveApprovalRequest up to its await: the vote that completes the quorum
\* executes the request while its status still reads PENDING.
ApproveApprovalRequest(u, r) ==
  LET a     == approvals[r]
      votes == Append(a.approvals, u)
  IN  /\ MayStart
      /\ MayVote(u, r) /\ ~Voted(a.approvals, u)
      /\ approvals' = [approvals EXCEPT ![r].approvals = votes]
      /\ \/ /\ Len(votes) < a.threshold
            /\ UNCHANGED <<configs, history, scheduled, approving>>
         \/ /\ Len(votes) >= a.threshold
            /\ ScheduleOrApply(submitted[a.src], a.src, a.effectiveDate)
            /\ approving' = approving \cup {r}
      /\ UNCHANGED <<settings, now, loops, submitted>>

\* ... and after it.
FinishApproval(r) ==
  /\ r \in approving
  /\ approvals' = [approvals EXCEPT ![r].status = "APPROVED"]
  /\ approving' = approving \ {r}
  /\ UNCHANGED <<configs, history, scheduled, settings, now, loops, submitted>>

RejectionsNeeded(a) == Cardinality(a.requiredSigners) - a.threshold + 1

RejectApprovalRequest(u, r) ==
  LET a     == approvals[r]
      votes == Append(a.rejections, u)
  IN  /\ MayStart
      /\ MayVote(u, r) /\ ~Voted(a.rejections, u)
      /\ approvals' = [approvals EXCEPT
           ![r].rejections = votes,
           ![r].status = IF Len(votes) >= RejectionsNeeded(a) THEN "REJECTED" ELSE @]
      /\ UNCHANGED <<configs, history, scheduled, settings, now, approving, loops, submitted>>

-----------------------------------------------------------------------------
(* processPendingScheduledUpdates *)

MutIsDueAgain(k, t) == scheduled[k].at <= t
MutIsDueLater(k, t) == scheduled[k].status = "SCHEDULED" /\ scheduled[k].at < t
IsDue(k, t) == scheduled[k].status = "SCHEDULED" /\ scheduled[k].at <= t

\* k is the entry a loop that stands at i, begun at time t, applies next.
IsNextDue(k, i, t) ==
  /\ k \in (i + 1)..Len(scheduled)
  /\ IsDue(k, t)
  /\ \A j \in (i + 1)..(k - 1) : ~IsDue(j, t)

\* The call reaches its first due update (a call that finds none does nothing).
ProcessPendingScheduledUpdates(l) ==
  /\ MayStart
  /\ loops[l].index = 0
  /\ \E k \in DOMAIN scheduled :
       /\ IsNextDue(k, 0, now)
       /\ ApplyFeeUpdate(submitted[scheduled[k].src], scheduled[k].src)
       /\ loops' = [loops EXCEPT ![l] = [index |-> k, now |-> now]]
  /\ UNCHANGED <<approvals, scheduled, settings, now, approving, submitted>>

\* After the await the update is marked, then the loop goes on to the next due
\* one (entries added meanwhile included), or ends.
ContinueProcessing(l) ==
  LET i == loops[l].index
  IN  /\ i > 0
      /\ scheduled' = [scheduled EXCEPT ![i].status = "EXECUTED"]
      /\ \/ \E k \in DOMAIN scheduled :
              /\ IsNextDue(k, i, loops[l].now)
              /\ ApplyFeeUpdate(submitted[scheduled[k].src], scheduled[k].src)
              /\ loops' = [loops EXCEPT ![l].index = k]
         \/ /\ \A k \in DOMAIN scheduled : ~IsNextDue(k, i, loops[l].now)
            /\ loops' = [loops EXCEPT ![l] = [index |-> 0, now |-> 0]]
            /\ UNCHANGED <<configs, history>>
      /\ UNCHANGED <<approvals, settings, now, approving, submitted>>

ThresholdWithinSigners(s) ==
  s.multisigApprovalThreshold > 0 =>
    s.multisigApprovalThreshold <= Cardinality(s.multisigSigners)

SettingsAccepted(s) == ThresholdWithinSigners(s) /\ s.timelockDelayMinutes >= 0

UpdateAdminSettings(s) ==
  /\ MayStart
  /\ SettingsAccepted(s)
  /\ settings' = s
  /\ UNCHANGED <<configs, history, approvals, scheduled, now, approving, loops, submitted>>

Tick ==
  /\ now < MaxTime
  /\ now' = now + 1
  /\ UNCHANGED <<configs, history, approvals, scheduled, settings, approving, loops, submitted>>

-----------------------------------------------------------------------------
NoFees == [f \in FeeFields |-> 0]

Init ==
  /\ configs = [c \in Configs |-> IF c = Default
                                  THEN [version |-> 1, fees |-> DefaultFees]
                                  ELSE [version |-> 0, fees |-> NoFees]]
  /\ history = {}
  /\ approvals = <<>>
  /\ scheduled = <<>>
  /\ settings = InitialSettings
  /\ now = 0
  /\ approving = {}
  /\ loops = [l \in Loops |-> [index |-> 0, now |-> 0]]
  /\ submitted = <<>>

Next ==
  \/ \E u \in Users, c \in Configs :
       \/ \E p \in Patches, d \in RequestDates :
            \/ UpdateConfiguration(u, c, p, d)
            \/ CreateApprovalRequest(u, c, p, d)
       \/ \E fees \in NewFees : CreateConfiguration(u, c, fees)
  \/ \E u \in Users, r \in DOMAIN approvals :
       \/ ApproveApprovalRequest(u, r)
       \/ RejectApprovalRequest(u, r)
  \/ \E r \in DOMAIN approvals : FinishApproval(r)
  \/ \E l \in Loops : ProcessPendingScheduledUpdates(l) \/ ContinueProcessing(l)
  \/ \E s \in SettingsValues : UpdateAdminSettings(s)
  \/ Tick

Spec == Init /\ [][Next]_vars

(***************************************************************************)
(* Time passes and a suspended call is resumed: the runtime does both.     *)
(* That the processing endpoint is called again and again is an assumption *)
(* about the operator (nothing in the repository calls it by itself).      *)
(***************************************************************************)
Fairness ==
  /\ WF_vars(Tick)
  /\ WF_vars(\E r \in DOMAIN approvals : FinishApproval(r))
  /\ WF_vars(\E l \in Loops : ContinueProcessing(l))
  /\ WF_vars(\E l \in Loops : ProcessPendingScheduledUpdates(l))

FairSpec == Spec /\ Fairness

-----------------------------------------------------------------------------
(* Properties *)

Submissions ==
  [kind : {"direct", "approval"}, by : Users, config : Configs, patch : Patches,
   at : Nat, promised : Nat, delay : Nat, multisig : BOOLEAN, percent : Int]

Entries ==
  [type : {"FEE_CREATED", "FEE_UPDATED"}, config : Configs, version : Nat,
   fees : Fees, old : Fees, by : Users, src : Nat, at : Nat]

ApprovalRequests ==
  [src : Nat, status : {"PENDING", "APPROVED", "REJECTED"},
   requiredSigners : SUBSET Users, threshold : Int, approvals : Seq(Users),
   rejections : Seq(Users), effectiveDate : [kind : {"date", "text"}, at : Nat]]

ScheduledUpdates == [src : Nat, at : Nat, status : {"SCHEDULED", "EXECUTED"}]

\* Type invariant: every part of the service's state keeps its shape, every
\* reference from one part to another (src, approving, index) points to an entry.
TypeOK ==
  /\ configs \in [Configs -> [version : Nat, fees : Fees]]
  /\ history \in SUBSET Entries
  /\ approvals \in Seq(ApprovalRequests)
  /\ scheduled \in Seq(ScheduledUpdates)
  /\ settings \in Settings /\ settings.timelockDelayMinutes \in Nat
  /\ now \in Nat
  /\ approving \subseteq DOMAIN approvals
  /\ loops \in [Loops -> [index : Nat, now : Nat]]
  /\ submitted \in Seq(Submissions)
  /\ \A r \in DOMAIN approvals : approvals[r].src \in DOMAIN submitted
  /\ \A k \in DOMAIN scheduled : scheduled[k].src \in DOMAIN submitted
  /\ \A h \in history : h.src > 0 => h.src \in DOMAIN submitted
  /\ \A l \in Loops : loops[l].index > 0 => loops[l].index \in DOMAIN scheduled

EntriesOf(c, v) == {h \in history : h.config = c /\ h.version = v}

\* The audit trail is complete (applyFeeUpdate, lines 508-563): each version of
\* a configuration after the first has exactly one history entry, the entry's
\* old fees are those of the version before, the last entry is what is in force.
HistoryComplete ==
  /\ \A c \in Configs : \A v \in 2..configs[c].version : Cardinality(EntriesOf(c, v)) = 1
  /\ \A h \in history :
       /\ h.version <= configs[h.config].version
       /\ h.version = configs[h.config].version => h.fees = configs[h.config].fees
       /\ \A g \in EntriesOf(h.config, h.version + 1) : g.old = h.fees
       /\ h.config = Default /\ h.version = 2 => h.old = DefaultFees

\* A request takes effect once: two approvals, two processing loops or an
\* approval after another never apply or schedule the same request twice.
TakesEffectOnce ==
  \A src \in DOMAIN submitted :
    /\ Cardinality({h \in history : h.src = src}) <= 1
    /\ Cardinality({k \in DOMAIN scheduled : scheduled[k].src = src}) <= 1

\* No change is in force before the timelock of its submission is over
\* (AdminFeeSettings.timelockDelayMinutes, "Minimum delay before upgrade execution"),
\* nor before the date its request names, if that date is not given as a string:
\* through approvals, schedules, loops and changes of the timelock meanwhile.
TimelockRespected ==
  \A h \in history : h.src > 0 => h.at >= submitted[h.src].promised

\* "Approved changes wait until `timelockDelayMinutes` has elapsed"
\* (docs/FEE_CONFIGURATION_SYSTEM.md, Approval Workflow), whatever date they name.
ApprovedChangesWait ==
  \A h \in history :
    h.src > 0 /\ submitted[h.src].kind = "approval" =>
      h.at >= submitted[h.src].at + submitted[h.src].delay

TookEffect(src) ==
  \/ \E h \in history : h.src = src
  \/ \E k \in DOMAIN scheduled : scheduled[k].src = src

Voters(votes) == {votes[k] : k \in DOMAIN votes}

\* An approval request takes effect exactly when a quorum of different signers
\* stands behind it and never when enough have rejected it to block the quorum.
QuorumDecides ==
  \A r \in DOMAIN approvals :
    LET a == approvals[r]
    IN  /\ TookEffect(a.src) =>
             /\ Cardinality(Voters(a.approvals)) >= a.threshold
             /\ a.threshold > 1
             /\ Cardinality(Voters(a.rejections)) < RejectionsNeeded(a)
        /\ TookEffect(a.src) <=> a.status = "APPROVED" \/ r \in approving
        /\ a.status = "REJECTED" => Cardinality(Voters(a.rejections)) >= RejectionsNeeded(a)

\* A decision is final: APPROVED, REJECTED and EXECUTED are never left, and the
\* quorum, the signers and the date of a request stay those of its creation.
DecisionsAreFinal ==
  [][/\ \A r \in DOMAIN approvals :
          LET a == approvals[r]
              b == approvals'[r]
          IN  /\ a.status # "PENDING" => b = a
              /\ b.requiredSigners = a.requiredSigners
              /\ b.threshold = a.threshold
              /\ b.effectiveDate = a.effectiveDate
     /\ \A k \in DOMAIN scheduled :
          scheduled[k].status = "EXECUTED" => scheduled'[k] = scheduled[k]]_vars

\* A scheduled update whose date comes is executed, provided the processing
\* endpoint is called again and again.
DueUpdatesAreExecuted ==
  \A k \in 1..MaxRequests :
    (k \in DOMAIN scheduled /\ scheduled[k].at <= MaxTime)
      ~> (k \in DOMAIN scheduled /\ scheduled[k].status = "EXECUTED")

\* How this state reads as one of ChangeControl: a request is applied once its
\* history entry is written, refused once its approval request is REJECTED.  It is
\* due when PromisedDate says, so at once when its date is a string.
StageOf(src) ==
  IF \E h \in history : h.src = src THEN "applied"
  ELSE IF \E r \in DOMAIN approvals : /\ approvals[r].src = src
                                      /\ approvals[r].status = "REJECTED"
  THEN "refused" ELSE "open"

Control == INSTANCE ChangeControl WITH
  Delays  <- 0..MaxTime \cup {s.timelockDelayMinutes : s \in SettingsValues \cup {InitialSettings}},
  changes <- [i \in 1..Len(submitted) |->
                [config |-> submitted[i].config, stage |-> StageOf(i),
                 due |-> submitted[i].promised]],
  version <- [c \in Configs |-> configs[c].version],
  clock   <- now

\* The whole administration, with its approvals, its schedule and its suspended
\* calls, keeps the promise of ChangeControl.
ImplementsChangeControl == Control!Spec

\* "For large changes ... a multisig approval request is created"
\* (docs/FEE_CONFIGURATION_SYSTEM.md, Approval Workflow): no change that moves
\* the price further than the threshold comes from a direct update.
LargeChangesAreApproved ==
  \A h \in history :
    h.src > 0 =>
      LET s == submitted[h.src]
      IN  s.multisig /\ IsLargeChange(h.old, s.patch, s.percent) => s.kind = "approval"

=============================================================================
