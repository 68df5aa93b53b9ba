-------------------------------- MODULE RateLimit --------------------------------
(***************************************************************************)
(* The request limits of one API key (apps/api/src/rate-limiting): the     *)
(* guard that checks the count of every window and then increments all of  *)
(* them, the administration of tier, quota and counters, over Redis.       *)
(*                                                                         *)
(* Windows are aligned to multiples of their duration; their counts are    *)
(* keys that outlive them (each increment renews the expiry), so a count   *)
(* is never lost inside its window.  A call runs up to its next round trip *)
(* in one step.  isReady is asked before each round trip: without Redis,   *)
(* configuration and counts read as absent.                                *)
(***************************************************************************)
EXTENDS Integers, FiniteSets

CONSTANTS
  Requests,     \* requests the guard may handle at a time
  Admins,       \* administrative calls under way at a time
  Durations,    \* duration of each window, the shortest first
  Tiers,        \* plans
  TierQuotas,   \* limit of each window, per tier
  DefaultTier,  \* of the configuration
  FreeTier,
  Changes,      \* bodies of POST :key/quota: a tier or NoTier, limits of some windows
  MaxTime,      \* bound on the clock
  MaxCount      \* bound on the requests counted in the last window

NoTier == "none"
Windows == DOMAIN Durations
Longest == CHOOSE w \in Windows : \A v \in Windows : v <= w

ASSUME RateLimitAssumption ==
  /\ Windows = 1..Cardinality(Windows) /\ Windows # {}
  /\ IsFiniteSet(Windows) /\ IsFiniteSet(Requests) /\ IsFiniteSet(Tiers) /\ IsFiniteSet(Changes)
  /\ Durations \in [Windows -> Nat \ {0}]
  /\ NoTier \notin Tiers /\ {DefaultTier, FreeTier} \subseteq Tiers
  /\ TierQuotas \in [Tiers -> [Windows -> Nat \ {0}]]
  /\ \A c \in Changes : /\ c.tier \in Tiers \cup {NoTier}
                        /\ DOMAIN c.quota \subseteq Windows
                        /\ \A w \in DOMAIN c.quota : c.quota[w] \in Nat \ {0}
                        /\ c.tier # NoTier \/ DOMAIN c.quota # {}
  /\ MaxTime \in Nat /\ MaxCount \in Nat

VARIABLES
  counts,     \* per window and start: requests counted
  config,     \* the hash of the key: present, its tier, its own quota if it has one
  ready,      \* RedisService.isReady
  guards,     \* the requests in the guard
  admins,     \* the administrative calls under way
  now,
  blind       \* per window and start: counted after a check that did not see the counts

limitVars == <<counts, config, ready, guards, admins, now, blind>>

Start(w, t) == (t \div Durations[w]) * Durations[w]
Keys == {k \in Windows \X (0..MaxTime) : k[2] = Start(k[1], k[2])}
KeyOf(w) == <<w, Start(w, now)>>
CurrentKeys == {KeyOf(w) : w \in Windows}

NoQuota == [w \in Windows |-> 0]
NoConfig == [present |-> FALSE, tier |-> NoTier, quota |-> NoQuota]

\* getApiKeyConfig
ConfigRead == IF ready THEN config ELSE NoConfig

\* ??
Or(tier, default) == IF tier = NoTier THEN default ELSE tier

\* getQuotaForKey
QuotaOf(c) == IF c.quota # NoQuota THEN c.quota ELSE TierQuotas[Or(c.tier, DefaultTier)]

IdleGuard == [step |-> "idle", window |-> 1, quota |-> NoQuota, blind |-> FALSE]
IdleAdmin == [step |-> "idle", tier |-> NoTier, quota |-> NoQuota, read |-> NoConfig]

LimitInit ==
  /\ counts = [k \in Keys |-> 0] /\ blind = [k \in Keys |-> 0]
  /\ config = NoConfig
  /\ ready = TRUE
  /\ guards = [r \in Requests |-> IdleGuard]
  /\ admins = [a \in Admins |-> IdleAdmin]
  /\ now = 0

-----------------------------------------------------------------------------
(* RateLimitGuard.canActivate *)

\* Without Redis the guard refuses (strict) or admits without counting: neither
\* changes anything.
CanActivate(r) ==
  /\ guards[r].step = "idle" /\ ready
  /\ guards' = [guards EXCEPT ![r] = [IdleGuard EXCEPT !.step = "quota"]]
  /\ UNCHANGED <<counts, config, ready, admins, now, blind>>

ReadQuota(r) ==
  /\ guards[r].step = "quota"
  /\ guards' = [guards EXCEPT ![r].step = "count", ![r].quota = QuotaOf(ConfigRead)]
  /\ UNCHANGED <<counts, config, ready, admins, now, blind>>

\* Mutant: a window is full only once it is over its limit.
MutExceeded(count, limit) == count > limit

Exceeded(count, limit) == count >= limit

\* One window of checkLimit; the shortest is read once more for the header only.
CheckWindow(r) ==
  LET g == guards[r]
      count == IF ready THEN counts[KeyOf(g.window)] ELSE 0
  IN
  /\ g.step = "count"
  /\ guards' = [guards EXCEPT ![r] =
       IF Exceeded(count, g.quota[g.window]) THEN IdleGuard
       ELSE IF g.window = Longest THEN [g EXCEPT !.step = "increment", !.blind = @ \/ ~ready]
       ELSE [g EXCEPT !.window = @ + 1, !.blind = @ \/ ~ready]]
  /\ UNCHANGED <<counts, config, ready, admins, now, blind>>

\* incrementCounter: the pipeline increments the windows that are current by now
\* and notes the time in the key's hash.
Increment(r) ==
  /\ guards[r].step = "increment" /\ ready
  /\ counts[KeyOf(Longest)] < MaxCount
  /\ counts' = [k \in Keys |-> IF k \in CurrentKeys THEN counts[k] + 1 ELSE counts[k]]
  /\ blind' = [k \in Keys |->
       IF k \in CurrentKeys /\ guards[r].blind THEN blind[k] + 1 ELSE blind[k]]
  /\ config' = [config EXCEPT !.present = TRUE]
  /\ guards' = [guards EXCEPT ![r] = IdleGuard]
  /\ UNCHANGED <<ready, admins, now>>

\* Redis is gone, or the error of the pipeline is caught: admitted and not counted.
SkipIncrement(r) ==
  /\ guards[r].step = "increment"
  /\ guards' = [guards EXCEPT ![r] = IdleGuard]
  /\ UNCHANGED <<counts, config, ready, admins, now, blind>>

\* A read fails: the request ends with an error.
FailRead(r) ==
  /\ guards[r].step \in {"quota", "count"}
  /\ guards' = [guards EXCEPT ![r] = IdleGuard]
  /\ UNCHANGED <<counts, config, ready, admins, now, blind>>

-----------------------------------------------------------------------------
(* RateLimitAdminController *)

AfterTier(call) == IF call.quota # NoQuota THEN "readQuota" ELSE "idle"
At(call, step) == IF step = "idle" THEN IdleAdmin ELSE [call EXCEPT !.step = step]

\* POST :key/quota sets the tier, then the limits; 0 stands for a limit left out.
UpdateQuota(a) ==
  /\ admins[a].step = "idle" /\ ready
  /\ \E c \in Changes :
       LET limits == [w \in Windows |-> IF w \in DOMAIN c.quota THEN c.quota[w] ELSE 0] IN
       admins' = [admins EXCEPT ![a] =
         [IdleAdmin EXCEPT !.step = IF c.tier # NoTier THEN "readTier" ELSE "readQuota",
                           !.tier = c.tier, !.quota = limits]]
  /\ UNCHANGED <<counts, config, ready, guards, now, blind>>

\* setTier and updateQuota throw when Redis is not ready, and read the hash.
ReadConfig(a) ==
  /\ admins[a].step \in {"readTier", "readQuota"}
  /\ admins' = [admins EXCEPT ![a] =
       IF ready
       THEN [@ EXCEPT !.step = IF @ = "readTier" THEN "writeTier" ELSE "writeQuota", !.read = config]
       ELSE IdleAdmin]
  /\ UNCHANGED <<counts, config, ready, guards, now, blind>>

SetTier(a) ==
  /\ admins[a].step = "writeTier"
  /\ config' = [present |-> TRUE, tier |-> admins[a].tier, quota |-> admins[a].read.quota]
  /\ admins' = [admins EXCEPT ![a] = At(@, AfterTier(@))]
  /\ UNCHANGED <<counts, ready, guards, now, blind>>

\* A limit left out falls back to the key's own, else to that of the free tier.
FilledIn(quota, own) ==
  [w \in Windows |-> IF quota[w] # 0 THEN quota[w]
                     ELSE IF own # NoQuota THEN own[w] ELSE TierQuotas[FreeTier][w]]

SetQuota(a) ==
  LET read == admins[a].read IN
  /\ admins[a].step = "writeQuota"
  /\ config' = [present |-> TRUE, tier |-> Or(read.tier, DefaultTier),
                quota |-> FilledIn(admins[a].quota, read.quota)]
  /\ admins' = [admins EXCEPT ![a] = IdleAdmin]
  /\ UNCHANGED <<counts, ready, guards, now, blind>>

FailAdmin(a) ==
  /\ admins[a].step # "idle"
  /\ admins' = [admins EXCEPT ![a] = IdleAdmin]
  /\ UNCHANGED <<counts, config, ready, guards, now, blind>>

\* DELETE :key/reset
ResetCounter ==
  /\ ready
  /\ \E k \in CurrentKeys : counts[k] > 0
  /\ counts' = [k \in Keys |-> IF k \in CurrentKeys THEN 0 ELSE counts[k]]
  /\ blind' = [k \in Keys |-> IF k \in CurrentKeys THEN 0 ELSE blind[k]]
  /\ UNCHANGED <<config, ready, guards, admins, now>>

-----------------------------------------------------------------------------

ConnectionChanges ==
  /\ ready' = ~ready
  /\ UNCHANGED <<counts, config, guards, admins, now, blind>>

Tick ==
  /\ now < MaxTime
  /\ now' = now + 1
  /\ UNCHANGED <<counts, config, ready, guards, admins, blind>>

LimitNext ==
  \/ \E r \in Requests : \/ CanActivate(r) \/ ReadQuota(r) \/ CheckWindow(r)
                         \/ Increment(r) \/ SkipIncrement(r) \/ FailRead(r)
  \/ \E a \in Admins : \/ UpdateQuota(a) \/ ReadConfig(a) \/ SetTier(a) \/ SetQuota(a)
                       \/ FailAdmin(a)
  \/ ResetCounter \/ ConnectionChanges \/ Tick

LimitSpec == LimitInit /\ [][LimitNext]_limitVars

-----------------------------------------------------------------------------
(* Properties *)

\* The largest limit that a tier or a change can give to a window.
HighestLimit(w) ==
  LET limits == {TierQuotas[t][w] : t \in Tiers}
                  \cup {c.quota[w] : c \in {d \in Changes : w \in DOMAIN d.quota}}
  IN CHOOSE l \in limits : \A m \in limits : m <= l

\* canActivate checks in one round trip and counts in a later one: requests that
\* overlap may all pass, but no window counts more than one request less than may
\* overlap over its limit, apart from those that Redis hid the counts from; also
\* when the window turns, the limits change or the counters are reset meanwhile.
OverAdmissionBounded ==
  \A k \in Keys : counts[k] <= HighestLimit(k[1]) + Cardinality(Requests) - 1 + blind[k]
=================================================================================
