--------------------------- MODULE ServicesSafeProofs ---------------------------
(***************************************************************************)
(* The services of MCServicesSafe, for every value of their constants: the *)
(* request limits of an API key (OverAdmissionBounded), the cache of gas   *)
(* data (types, NothingStaleIsServed), the suspicious gas patterns (types, *)
(* PatternsAreBacked), the two rule engines for Soroban (TwinsAgree), the  *)
(* registry of analyzers (RegistryIsConsistent), the audit log             *)
(* (ReadersMissNothing) and the exports (ExportIsHonest).                  *)
(***************************************************************************)
EXTENDS RateLimit, GasCache, SuspiciousGas, SorobanRules, AnalyzerRegistry, AuditLog,
        Exports, DataInduction

-----------------------------------------------------------------------------
(* RateLimitGuard *)

Most(w) == HighestLimit(w) + Cardinality(Requests) - 1

Quotas == {q \in [Windows -> Nat] : \A w \in Windows : q[w] <= HighestLimit(w)}
Configs == [present : BOOLEAN, tier : Tiers \cup {NoTier}, quota : Quotas]

LimitTypeOK ==
  /\ counts \in [Keys -> Nat] /\ blind \in [Keys -> Nat]
  /\ config \in Configs
  /\ ready \in BOOLEAN
  /\ guards \in [Requests -> [step : {"idle", "quota", "count", "increment"}, window : Windows,
                              quota : Quotas, blind : BOOLEAN]]
  /\ admins \in [Admins -> [step : {"idle", "readTier", "readQuota", "writeTier", "writeQuota"},
                            tier : Tiers \cup {NoTier}, quota : Quotas, read : Configs]]
  /\ \A r \in Requests : guards[r].step \in {"idle", "quota"} => guards[r].window = 1
  /\ now \in Nat

Passed(w) ==
  {r \in Requests : /\ ~guards[r].blind
                    /\ \/ guards[r].step = "increment"
                       \/ guards[r].step = "count" /\ guards[r].window > w}

Bounded(k) ==
  /\ counts[k] <= Most(k[1]) + blind[k]
  /\ k[2] >= Start(k[1], now) => counts[k] + Cardinality(Passed(k[1])) <= Most(k[1]) + blind[k]
  /\ k[2] > Start(k[1], now) => counts[k] = 0 /\ blind[k] = 0

LimitInv == LimitTypeOK /\ \A k \in Keys : Bounded(k)

LEMMA LongestIs == Longest \in Windows /\ \A v \in Windows : v <= Longest
<1>1. PICK n \in Windows : \A m \in Windows : m <= n
  <2>1. Windows \subseteq Nat /\ IsFiniteSet(Windows) /\ Windows # {}
    <3>1. Cardinality(Windows) \in Nat
      BY RateLimitAssumption, FS_CardinalityType
    <3> QED BY <3>1, RateLimitAssumption
  <2> QED BY <2>1, GreatestNumber
<1> QED BY <1>1 DEF Longest

LEMMA WindowsAre ==
  /\ Windows \subseteq Nat \ {0} /\ 1 \in Windows
  /\ \A w \in Windows : w # Longest => w + 1 \in Windows
<1>1. Cardinality(Windows) \in Nat /\ Windows = 1..Cardinality(Windows) /\ Windows # {}
  BY RateLimitAssumption, FS_CardinalityType
<1>2. Cardinality(Windows) \in Windows
  BY <1>1
<1>3. Longest = Cardinality(Windows)
  BY <1>1, <1>2, LongestIs
<1> QED BY <1>1, <1>3

LEMMA StartIs ==
  ASSUME NEW w \in Windows, NEW t \in Nat
  PROVE  Start(w, t) \in Nat /\ Start(w, t + 1) \in Nat /\ Start(w, t) <= Start(w, t + 1)
<1> DEFINE d == Durations[w]
           p == t \div d
           q == (t + 1) \div d
<1>1. d \in Nat \ {0}
  BY RateLimitAssumption
<1> HIDE DEF d
<1>2. p \in Nat /\ q \in Nat
  BY <1>1
<1>3. p <= q
  BY <1>1
<1> HIDE DEF p, q
<1>4. p * d \in Nat /\ q * d \in Nat /\ p * d <= q * d
  <2>1. PICK e \in Nat : q = p + e
    BY <1>2, <1>3
  <2>2. q * d = p * d + e * d /\ e * d \in Nat /\ p * d \in Nat
    BY <1>1, <1>2, <2>1
  <2> QED BY <2>2
<1> QED BY <1>4 DEF Start, d, p, q

LEMMA HighestIs ==
  ASSUME NEW w \in Windows
  PROVE  /\ HighestLimit(w) \in Nat \ {0}
         /\ \A t \in Tiers : TierQuotas[t][w] <= HighestLimit(w)
         /\ \A c \in Changes : w \in DOMAIN c.quota => c.quota[w] <= HighestLimit(w)
<1> DEFINE given == {TierQuotas[t][w] : t \in Tiers}
           changed == {c.quota[w] : c \in {d \in Changes : w \in DOMAIN d.quota}}
           limits == given \cup changed
<1>1. IsFiniteSet(given)
  <2>1. IsFiniteSet(Tiers)
    BY RateLimitAssumption
  <2> DEFINE f == [t \in Tiers |-> TierQuotas[t][w]]
  <2>2. given = {f[t] : t \in Tiers}
    OBVIOUS
  <2>3. IsFiniteSet({f[t] : t \in Tiers})
    <3> HIDE DEF f
    <3> QED BY <2>1, ValuesAreFinite
  <2> QED BY <2>2, <2>3
<1>2. IsFiniteSet(changed)
  <2> DEFINE D == {d \in Changes : w \in DOMAIN d.quota}
  <2>1. IsFiniteSet(D)
    BY RateLimitAssumption, FS_Subset
  <2> DEFINE f == [c \in D |-> c.quota[w]]
  <2>2. changed = {f[c] : c \in D}
    OBVIOUS
  <2>3. IsFiniteSet({f[c] : c \in D})
    <3> HIDE DEF f, D
    <3> QED BY <2>1, ValuesAreFinite
  <2> QED BY <2>2, <2>3
<1>3. IsFiniteSet(limits)
  BY <1>1, <1>2, FS_Union
<1>4. limits \subseteq Nat \ {0} /\ limits # {}
  <2>1. ASSUME NEW t \in Tiers PROVE TierQuotas[t][w] \in Nat \ {0}
    BY RateLimitAssumption
  <2>2. ASSUME NEW c \in Changes, w \in DOMAIN c.quota PROVE c.quota[w] \in Nat \ {0}
    BY <2>2, RateLimitAssumption
  <2>3. TierQuotas[FreeTier][w] \in given
    BY RateLimitAssumption
  <2>4. given \subseteq Nat \ {0} /\ changed \subseteq Nat \ {0}
    BY <2>1, <2>2
  <2> HIDE DEF given, changed
  <2> QED BY <2>3, <2>4
<1>5. PICK n \in limits : \A m \in limits : m <= n
  <2> HIDE DEF limits
  <2>1. limits \subseteq Nat
    BY <1>4
  <2> QED BY <1>3, <1>4, <2>1, GreatestNumber
<1>6. HighestLimit(w) = CHOOSE l \in limits : \A m \in limits : m <= l
  BY DEF HighestLimit
<1>7. HighestLimit(w) \in limits /\ \A m \in limits : m <= HighestLimit(w)
  <2> HIDE DEF limits
  <2> QED BY <1>5, <1>6
<1> QED BY <1>4, <1>7

LEMMA PassedIs ==
  ASSUME NEW w \in Windows
  PROVE  /\ IsFiniteSet(Requests) /\ Cardinality(Requests) \in Nat
         /\ Passed(w) \subseteq Requests /\ IsFiniteSet(Passed(w))
         /\ Cardinality(Passed(w)) \in Nat /\ Cardinality(Passed(w)) <= Cardinality(Requests)
<1>1. IsFiniteSet(Requests) /\ Passed(w) \subseteq Requests
  BY RateLimitAssumption DEF Passed
<1> QED BY <1>1, FS_Subset, FS_CardinalityType

LEMMA PassedNextIs ==
  ASSUME NEW w \in Windows
  PROVE  /\ Passed(w)' \subseteq Requests /\ IsFiniteSet(Passed(w)')
         /\ Cardinality(Passed(w)') \in Nat /\ Cardinality(Passed(w)') <= Cardinality(Requests)
<1>1. IsFiniteSet(Requests) /\ Passed(w)' \subseteq Requests
  BY RateLimitAssumption DEF Passed
<1> QED BY <1>1, FS_Subset, FS_CardinalityType

LEMMA NumbersAre ==
  ASSUME LimitTypeOK, NEW k \in Keys
  PROVE  /\ k[1] \in Windows /\ k[2] \in Nat /\ k = <<k[1], k[2]>>
         /\ counts[k] \in Nat /\ blind[k] \in Nat
         /\ Start(k[1], now) \in Nat
         /\ Most(k[1]) \in Nat \cup {-1} \cup Int /\ Most(k[1]) >= Cardinality(Requests)
<1>1. k[1] \in Windows /\ k[2] \in 0..MaxTime /\ k = <<k[1], k[2]>>
  BY DEF Keys
<1>2. counts[k] \in Nat /\ blind[k] \in Nat /\ now \in Nat
  BY DEF LimitTypeOK
<1>3. MaxTime \in Nat
  BY RateLimitAssumption
<1>4. Cardinality(Requests) \in Nat /\ HighestLimit(k[1]) \in Nat \ {0}
  BY <1>1, PassedIs, HighestIs
<1>5. Start(k[1], now) \in Nat
  BY <1>1, <1>2, StartIs
<1> QED BY <1>1, <1>2, <1>3, <1>4, <1>5 DEF Most

(* A step that counts nothing and lets no request pass a window. *)
LEMMA NoneMorePasses ==
  ASSUME LimitInv, UNCHANGED <<counts, blind, now>>,
         \A w \in Windows : Passed(w)' \subseteq Passed(w)
  PROVE  \A k \in Keys : Bounded(k)'
<1> SUFFICES ASSUME NEW k \in Keys PROVE Bounded(k)'
  OBVIOUS
<1>1. LimitTypeOK /\ Bounded(k)
  BY DEF LimitInv
<1>2. k[1] \in Windows
  BY <1>1, NumbersAre
<1>3. Cardinality(Passed(k[1])') <= Cardinality(Passed(k[1]))
  BY <1>2, PassedIs, FS_Subset
<1>4. /\ counts[k] \in Nat /\ blind[k] \in Nat /\ Start(k[1], now) \in Nat
      /\ Most(k[1]) \in Int /\ k[2] \in Nat
  BY <1>1, NumbersAre
<1>5. Start(k[1], now)' = Start(k[1], now)
  BY DEF Start
<1>6. Cardinality(Passed(k[1])') \in Nat /\ Cardinality(Passed(k[1])) \in Nat
  BY <1>2, PassedIs, PassedNextIs
<1>7. counts'[k] = counts[k] /\ blind'[k] = blind[k]
  OBVIOUS
<1> QED BY <1>1, <1>3, <1>4, <1>5, <1>6, <1>7 DEF Bounded

LEMMA GuardsUnchanged ==
  ASSUME LimitInv, UNCHANGED <<counts, blind, now, guards>>
  PROVE  \A k \in Keys : Bounded(k)'
<1>1. \A w \in Windows : Passed(w)' \subseteq Passed(w)
  BY DEF Passed
<1> QED BY <1>1, NoneMorePasses

LEMMA CheckedWindow ==
  ASSUME LimitInv, NEW r \in Requests, CheckWindow(r)
  PROVE  \A k \in Keys : Bounded(k)'
<1> SUFFICES ASSUME NEW k \in Keys PROVE Bounded(k)'
  OBVIOUS
<1> DEFINE g == guards[r]
           w == k[1]
<1>1. LimitTypeOK /\ Bounded(k) /\ g.step = "count" /\ UNCHANGED <<counts, blind, now>>
  BY DEF LimitInv, CheckWindow
<1>2. /\ w \in Windows /\ k[2] \in Nat /\ k = <<w, k[2]>> /\ counts[k] \in Nat
      /\ blind[k] \in Nat /\ Start(w, now) \in Nat /\ Most(w) \in Int
      /\ Most(w) >= Cardinality(Requests)
  BY <1>1, NumbersAre
<1>3. g.window \in Windows /\ g.quota \in Quotas /\ g.blind \in BOOLEAN
  BY <1>1 DEF LimitTypeOK
<1>4. \A q \in Requests : q # r => guards'[q] = guards[q]
  BY <1>1 DEF CheckWindow, LimitTypeOK
<1>5. \/ guards'[r] = IdleGuard
      \/ /\ guards'[r].step = "increment" /\ guards'[r].blind = (g.blind \/ ~ready)
         /\ g.window = Longest
         /\ ~Exceeded(IF ready THEN counts[KeyOf(g.window)] ELSE 0, g.quota[g.window])
      \/ /\ guards'[r].step = "count" /\ guards'[r].window = g.window + 1
         /\ guards'[r].blind = (g.blind \/ ~ready)
         /\ ~Exceeded(IF ready THEN counts[KeyOf(g.window)] ELSE 0, g.quota[g.window])
  BY <1>1 DEF CheckWindow, LimitTypeOK
<1>6. Start(w, now)' = Start(w, now) /\ counts'[k] = counts[k] /\ blind'[k] = blind[k]
  BY <1>1 DEF Start
<1>7. CASE r \notin Passed(w)' \/ r \in Passed(w)
  <2>1. Passed(w)' \subseteq Passed(w)
    BY <1>4, <1>7 DEF Passed
  <2>2. Cardinality(Passed(w)') <= Cardinality(Passed(w))
    BY <1>2, <2>1, PassedIs, FS_Subset
  <2>3. /\ Cardinality(Passed(w)') \in Nat /\ Cardinality(Passed(w)) \in Nat
    BY <1>2, PassedIs, PassedNextIs
  <2> HIDE DEF w
  <2> QED BY <1>1, <1>2, <1>6, <2>2, <2>3 DEF Bounded, w
<1>8. CASE r \in Passed(w)' /\ r \notin Passed(w)
  <2>1. ~g.blind /\ ready /\ guards'[r] # IdleGuard
    <3>1. ~guards'[r].blind /\ guards'[r].step # "idle"
      BY <1>8 DEF Passed
    <3>2. IdleGuard.step = "idle"
      BY DEF IdleGuard
    <3>3. guards'[r].blind = (g.blind \/ ~ready)
      BY <1>5, <3>1, <3>2
    <3>4. ~(g.blind \/ ~ready)
      BY <3>1, <3>3, Zenon
    <3> QED BY <3>1, <3>2, <3>4
  <2>2. g.window = w
    <3>1. ~(g.window > w)
      BY <1>1, <1>8, <2>1 DEF Passed
    <3>2. g.window = Longest \/ g.window + 1 > w
      BY <1>5, <1>8, <2>1 DEF Passed
    <3>3. w <= Longest /\ w \in Nat /\ g.window \in Nat
      BY <1>2, <1>3, LongestIs, WindowsAre
    <3> QED BY <3>1, <3>2, <3>3
  <2>3. ~(counts[KeyOf(w)] >= g.quota[w])
    BY <1>5, <2>1, <2>2 DEF Exceeded
  <2>4. g.quota[w] \in Nat /\ g.quota[w] <= HighestLimit(w) /\ HighestLimit(w) \in Nat
    BY <1>2, <1>3, HighestIs DEF Quotas
  <2>5. Cardinality(Passed(w)') \in Nat /\ Cardinality(Passed(w)') <= Cardinality(Requests)
        /\ Cardinality(Requests) \in Nat
    BY <1>2, PassedIs, PassedNextIs
  <2>6. ASSUME k[2] >= Start(w, now)
        PROVE  counts[k] + Cardinality(Passed(w)') <= Most(w) + blind[k]
    <3>1. CASE k[2] = Start(w, now)
      <4>1. k = KeyOf(w)
        BY <1>2, <3>1 DEF KeyOf
      <4>2. counts[k] < HighestLimit(w)
        BY <1>2, <2>3, <2>4, <4>1
      <4> HIDE DEF w
      <4> QED BY <1>2, <2>4, <2>5, <4>2 DEF Most
    <3>2. CASE k[2] > Start(w, now)
      <4>1. counts[k] = 0
        BY <1>1, <3>2 DEF Bounded
      <4> HIDE DEF w
      <4> QED BY <1>2, <2>5, <4>1
    <3> QED BY <1>2, <2>6, <3>1, <3>2
  <2> HIDE DEF w
  <2> QED BY <1>1, <1>2, <1>6, <2>6 DEF Bounded, w
<1> QED BY <1>7, <1>8

LEMMA Incremented ==
  ASSUME LimitInv, NEW r \in Requests, Increment(r)
  PROVE  \A k \in Keys : Bounded(k)'
<1> SUFFICES ASSUME NEW k \in Keys PROVE Bounded(k)'
  OBVIOUS
<1> DEFINE g == guards[r]
           w == k[1]
<1>1. LimitTypeOK /\ Bounded(k) /\ g.step = "increment" /\ now' = now
  BY DEF LimitInv, Increment
<1>2. /\ w \in Windows /\ k[2] \in Nat /\ k = <<w, k[2]>> /\ counts[k] \in Nat
      /\ blind[k] \in Nat /\ Start(w, now) \in Nat /\ Most(w) \in Int
      /\ Most(w) >= Cardinality(Requests)
  BY <1>1, NumbersAre
<1>3. /\ counts'[k] = IF k \in CurrentKeys THEN counts[k] + 1 ELSE counts[k]
      /\ blind'[k] = IF k \in CurrentKeys /\ g.blind THEN blind[k] + 1 ELSE blind[k]
  BY DEF Increment
<1>4. k \in CurrentKeys <=> k[2] = Start(w, now)
  BY <1>2 DEF CurrentKeys, KeyOf
<1>5. Start(w, now)' = Start(w, now)
  BY <1>1 DEF Start
<1>6. Passed(w)' = Passed(w) \ {r}
  BY <1>1 DEF Increment, Passed, IdleGuard, LimitTypeOK
<1>7. /\ Cardinality(Passed(w)') \in Nat /\ Cardinality(Passed(w)) \in Nat
      /\ Cardinality(Passed(w)') <= Cardinality(Passed(w)) /\ IsFiniteSet(Passed(w))
  BY <1>2, <1>6, PassedIs, PassedNextIs, FS_Subset
<1>8. ~g.blind => Cardinality(Passed(w)') = Cardinality(Passed(w)) - 1
  <2>1. ~g.blind => r \in Passed(w)
    BY <1>1 DEF Passed
  <2>2. r \in Passed(w) => Cardinality(Passed(w) \ {r}) = Cardinality(Passed(w)) - 1
    <3>1. PICK S : S = Passed(w)
      OBVIOUS
    <3>2. IsFiniteSet(S)
      BY <1>7, <3>1
    <3>3. r \in S => Cardinality(S \ {r}) = Cardinality(S) - 1
      BY <3>2, FS_RemoveElement
    <3> QED BY <3>1, <3>3
  <2>3. PICK P : P = Passed(w)'
    OBVIOUS
  <2>4. P = Passed(w) \ {r}
    BY <1>6, <2>3
  <2> QED BY <2>1, <2>2, <2>3, <2>4
<1>9. CASE k[2] = Start(w, now)
  <2>1. counts'[k] = counts[k] + 1 /\ blind'[k] = IF g.blind THEN blind[k] + 1 ELSE blind[k]
    BY <1>3, <1>4, <1>9
  <2>2. counts[k] + Cardinality(Passed(w)) <= Most(w) + blind[k]
    BY <1>1, <1>2, <1>9 DEF Bounded
  <2>3. counts'[k] + Cardinality(Passed(w)') <= Most(w) + blind'[k]
    BY <1>2, <1>7, <1>8, <2>1, <2>2
  <2>4. counts'[k] <= Most(w) + blind'[k]
    BY <1>2, <1>7, <2>1, <2>3
  <2> HIDE DEF w
  <2> QED BY <1>2, <1>5, <1>9, <2>3, <2>4 DEF Bounded, w
<1>10. CASE k[2] # Start(w, now)
  <2>1. counts'[k] = counts[k] /\ blind'[k] = blind[k]
    BY <1>3, <1>4, <1>10
  <2> HIDE DEF w
  <2> QED BY <1>1, <1>2, <1>5, <1>7, <2>1 DEF Bounded, w
<1> QED BY <1>9, <1>10

LEMMA CountersReset ==
  ASSUME LimitInv, ResetCounter
  PROVE  \A k \in Keys : Bounded(k)'
<1> SUFFICES ASSUME NEW k \in Keys PROVE Bounded(k)'
  OBVIOUS
<1> DEFINE w == k[1]
<1>1. LimitTypeOK /\ Bounded(k) /\ UNCHANGED <<guards, now>>
  BY DEF LimitInv, ResetCounter
<1>2. /\ w \in Windows /\ k[2] \in Nat /\ k = <<w, k[2]>> /\ counts[k] \in Nat
      /\ blind[k] \in Nat /\ Start(w, now) \in Nat /\ Most(w) \in Int
      /\ Most(w) >= Cardinality(Requests)
  BY <1>1, NumbersAre
<1>3. \/ counts'[k] = counts[k] /\ blind'[k] = blind[k]
      \/ counts'[k] = 0 /\ blind'[k] = 0
  BY DEF ResetCounter
<1>4. Start(w, now)' = Start(w, now) /\ Passed(w)' = Passed(w)
  BY <1>1 DEF Start, Passed
<1>5. Cardinality(Passed(w)) \in Nat /\ Cardinality(Passed(w)) <= Cardinality(Requests)
      /\ Cardinality(Requests) \in Nat
  BY <1>2, PassedIs
<1> HIDE DEF w
<1> QED BY <1>1, <1>2, <1>3, <1>4, <1>5 DEF Bounded, w

LEMMA TimePasses ==
  ASSUME LimitInv, Tick
  PROVE  \A k \in Keys : Bounded(k)'
<1> SUFFICES ASSUME NEW k \in Keys PROVE Bounded(k)'
  OBVIOUS
<1> DEFINE w == k[1]
<1>1. LimitTypeOK /\ Bounded(k) /\ UNCHANGED <<guards, counts, blind>> /\ now' = now + 1
  BY DEF LimitInv, Tick
<1>2. /\ w \in Windows /\ k[2] \in Nat /\ counts[k] \in Nat /\ now \in Nat
      /\ blind[k] \in Nat /\ Start(w, now) \in Nat /\ Most(w) \in Int
  BY <1>1, NumbersAre DEF LimitTypeOK
<1>3. Start(w, now)' \in Nat /\ Start(w, now)' >= Start(w, now)
  <2>1. Start(w, now)' = Start(w, now + 1)
    BY <1>1 DEF Start
  <2> QED BY <1>2, <2>1, StartIs
<1>4. Passed(w)' = Passed(w)
  BY <1>1 DEF Passed
<1>5. Cardinality(Passed(w)) \in Nat
  BY <1>2, PassedIs
<1>6. counts'[k] = counts[k] /\ blind'[k] = blind[k]
  BY <1>1
<1> HIDE DEF w
<1> QED BY <1>1, <1>2, <1>3, <1>4, <1>5, <1>6 DEF Bounded, w

LEMMA QuotasAre ==
  /\ NoQuota \in Quotas
  /\ \A t \in Tiers : TierQuotas[t] \in Quotas
<1>1. ASSUME NEW w \in Windows PROVE 0 <= HighestLimit(w)
  BY HighestIs
<1>2. NoQuota \in Quotas
  BY <1>1 DEF NoQuota, Quotas
<1>3. ASSUME NEW t \in Tiers PROVE TierQuotas[t] \in Quotas
  <2>1. TierQuotas[t] \in [Windows -> Nat]
    BY RateLimitAssumption
  <2> QED BY <2>1, HighestIs DEF Quotas
<1> QED BY <1>2, <1>3

LEMMA LimitInitOK == LimitInit => LimitInv
<1> SUFFICES ASSUME LimitInit PROVE LimitInv
  OBVIOUS
<1>1. LimitTypeOK
  BY QuotasAre, WindowsAre
    DEF LimitInit, LimitTypeOK, IdleGuard, IdleAdmin, NoConfig, Configs
<1>2. ASSUME NEW k \in Keys PROVE Bounded(k)
  <2>1. counts[k] = 0 /\ blind[k] = 0
    BY DEF LimitInit
  <2>2. k[1] \in Windows /\ Most(k[1]) \in Int /\ Most(k[1]) >= Cardinality(Requests)
    BY <1>1, NumbersAre
  <2>3. Cardinality(Passed(k[1])) \in Nat /\ Cardinality(Passed(k[1])) <= Cardinality(Requests)
        /\ Cardinality(Requests) \in Nat
    BY <2>2, PassedIs
  <2> QED BY <2>1, <2>2, <2>3 DEF Bounded
<1> QED BY <1>1, <1>2 DEF LimitInv

LEMMA ConfigIs ==
  ASSUME LimitTypeOK
  PROVE  ConfigRead \in Configs /\ \A c \in Configs : QuotaOf(c) \in Quotas
<1>1. NoConfig \in Configs
  BY QuotasAre DEF NoConfig, Configs
<1>2. ConfigRead \in Configs
  BY <1>1 DEF ConfigRead, LimitTypeOK
<1>3. ASSUME NEW c \in Configs PROVE QuotaOf(c) \in Quotas
  <2>1. Or(c.tier, DefaultTier) \in Tiers
    BY RateLimitAssumption DEF Or, Configs
  <2> QED BY <2>1, QuotasAre DEF QuotaOf, Configs
<1> QED BY <1>2, <1>3

LEMMA FilledInIs ==
  ASSUME NEW q \in Quotas, NEW own \in Quotas
  PROVE  FilledIn(q, own) \in Quotas
<1>1. TierQuotas[FreeTier] \in Quotas
  BY RateLimitAssumption, QuotasAre
<1> QED BY <1>1 DEF FilledIn, Quotas

LEMMA AskedIs ==
  ASSUME NEW c \in Changes
  PROVE  [w \in Windows |-> IF w \in DOMAIN c.quota THEN c.quota[w] ELSE 0] \in Quotas
<1>1. ASSUME NEW w \in Windows, w \in DOMAIN c.quota
      PROVE  c.quota[w] \in Nat /\ c.quota[w] <= HighestLimit(w)
  BY <1>1, HighestIs, RateLimitAssumption
<1>2. ASSUME NEW w \in Windows PROVE 0 <= HighestLimit(w)
  BY HighestIs
<1> QED BY <1>1, <1>2 DEF Quotas

LEMMA GuardSteps ==
  ASSUME LimitInv, NEW r \in Requests,
         CanActivate(r) \/ ReadQuota(r) \/ CheckWindow(r) \/ Increment(r) \/ SkipIncrement(r)
           \/ FailRead(r)
  PROVE  LimitTypeOK'
<1>1. LimitTypeOK
  BY DEF LimitInv
<1>2. IdleGuard.window = 1 /\ 1 \in Windows /\ NoQuota \in Quotas
  BY WindowsAre, QuotasAre DEF IdleGuard
<1>3. CASE CanActivate(r)
  BY <1>1, <1>2, <1>3 DEF CanActivate, LimitTypeOK, IdleGuard
<1>4. CASE ReadQuota(r)
  <2>1. QuotaOf(ConfigRead) \in Quotas
    BY <1>1, ConfigIs
  <2> QED BY <1>1, <1>4, <2>1, ZenonT(30) DEF ReadQuota, LimitTypeOK
<1>5. CASE CheckWindow(r)
  <2>1. guards[r].window # Longest => guards[r].window + 1 \in Windows
    BY <1>1, WindowsAre DEF LimitTypeOK
  <2> DEFINE g == guards[r]
             Steps == {"idle", "quota", "count", "increment"}
             Guards == [step : Steps, window : Windows, quota : Quotas, blind : BOOLEAN]
  <2>2. guards \in [Requests -> Guards] /\ g \in Guards /\ g.step = "count"
    BY <1>1, <1>5 DEF CheckWindow, LimitTypeOK
  <2>3. PICK b \in BOOLEAN : b = (g.blind \/ ~ready)
    OBVIOUS
  <2>4. PICK h : /\ guards' = [guards EXCEPT ![r] = h]
                 /\ \/ h = IdleGuard
                    \/ h = [g EXCEPT !.step = "increment", !.blind = @ \/ ~ready]
                    \/ /\ g.window # Longest
                       /\ h = [g EXCEPT !.window = @ + 1, !.blind = @ \/ ~ready]
    BY <1>5 DEF CheckWindow
  <2>5. PICK st \in Steps, wi \in Windows, qu \in Quotas, bl \in BOOLEAN :
          g = [step |-> st, window |-> wi, quota |-> qu, blind |-> bl]
    BY <2>2
  <2>6. h \in Guards /\ (h.step \in {"idle", "quota"} => h.window = 1)
    <3>1. CASE h = IdleGuard
      BY <1>2, <3>1 DEF IdleGuard
    <3>2. CASE h = [g EXCEPT !.step = "increment", !.blind = @ \/ ~ready]
      <4>1. h = [g EXCEPT !.step = "increment", !.blind = b]
        BY <2>3, <3>2, Zenon
      <4>2. h = [step |-> "increment", window |-> wi, quota |-> qu, blind |-> b]
        <5>1. h = [[step |-> st, window |-> wi, quota |-> qu, blind |-> bl]
                     EXCEPT !.step = "increment", !.blind = b]
          BY <2>5, <4>1, Zenon
        <5> QED BY <5>1
      <4> QED BY <4>2
    <3>3. CASE g.window # Longest /\ h = [g EXCEPT !.window = @ + 1, !.blind = @ \/ ~ready]
      <4>1. h = [g EXCEPT !.window = @ + 1, !.blind = b]
        BY <2>3, <3>3, Zenon
      <4>2. h = [step |-> st, window |-> wi + 1, quota |-> qu, blind |-> b] /\ g.window = wi
            /\ st = "count"
        <5>1. h = [[step |-> st, window |-> wi, quota |-> qu, blind |-> bl]
                     EXCEPT !.window = g.window + 1, !.blind = b]
          BY <2>5, <4>1, Zenon
        <5>2. g.window = wi /\ g.step = st
          BY <2>5
        <5>3. h = [[step |-> st, window |-> wi, quota |-> qu, blind |-> bl]
                     EXCEPT !.window = wi + 1, !.blind = b]
          BY <5>1, <5>2, Zenon
        <5> QED BY <2>2, <5>2, <5>3
      <4>3. wi + 1 \in Windows
        BY <2>1, <3>3, <4>2
      <4> QED BY <4>2, <4>3
    <3> HIDE DEF g
    <3> QED BY <2>4, <3>1, <3>2, <3>3
  <2>7. \A q \in Requests : guards'[q] = IF q = r THEN h ELSE guards[q]
    BY <2>2, <2>4
  <2>8. guards' \in [Requests -> Guards]
    BY <2>2, <2>4, <2>6
  <2>9. \A q \in Requests : guards[q].step \in {"idle", "quota"} => guards[q].window = 1
    BY <1>1 DEF LimitTypeOK
  <2>10. UNCHANGED <<counts, config, ready, admins, now, blind>>
    BY <1>5 DEF CheckWindow
  <2> HIDE DEF g
  <2>11. \A q \in Requests : guards'[q].step \in {"idle", "quota"} => guards'[q].window = 1
    BY <2>6, <2>7, <2>9
  <2> QED BY <1>1, <2>8, <2>10, <2>11 DEF LimitTypeOK
<1>6. CASE Increment(r)
  <2>1. counts' \in [Keys -> Nat] /\ blind' \in [Keys -> Nat]
    BY <1>1, <1>6 DEF Increment, LimitTypeOK
  <2>2. config' \in Configs
    BY <1>1, <1>6 DEF Increment, LimitTypeOK, Configs
  <2> QED BY <1>1, <1>2, <1>6, <2>1, <2>2 DEF Increment, LimitTypeOK, IdleGuard
<1>7. CASE SkipIncrement(r)
  BY <1>1, <1>2, <1>7 DEF SkipIncrement, LimitTypeOK, IdleGuard
<1>8. CASE FailRead(r)
  BY <1>1, <1>2, <1>8 DEF FailRead, LimitTypeOK, IdleGuard
<1> QED BY <1>3, <1>4, <1>5, <1>6, <1>7, <1>8

LEMMA AdminSteps ==
  ASSUME LimitInv, NEW a \in Admins,
         UpdateQuota(a) \/ ReadConfig(a) \/ SetTier(a) \/ SetQuota(a) \/ FailAdmin(a)
  PROVE  LimitTypeOK' /\ UNCHANGED <<counts, blind, now, guards>>
<1>1. LimitTypeOK
  BY DEF LimitInv
<1> DEFINE Calls == [step : {"idle", "readTier", "readQuota", "writeTier", "writeQuota"},
                     tier : Tiers \cup {NoTier}, quota : Quotas, read : Configs]
<1>2. IdleAdmin \in Calls
  BY QuotasAre DEF IdleAdmin, NoConfig, Configs
<1>3. admins \in [Admins -> Calls] /\ config \in Configs
  BY <1>1 DEF LimitTypeOK
<1>4. admins' \in [Admins -> Calls] /\ config' \in Configs
      /\ UNCHANGED <<counts, blind, now, guards, ready>>
  <2>1. CASE UpdateQuota(a)
    <3>1. PICK c \in Changes :
            admins' = [admins EXCEPT ![a] =
              [IdleAdmin EXCEPT !.step = IF c.tier # NoTier THEN "readTier" ELSE "readQuota",
                 !.tier = c.tier,
                 !.quota = [w \in Windows |-> IF w \in DOMAIN c.quota THEN c.quota[w] ELSE 0]]]
      BY <2>1 DEF UpdateQuota
    <3>2. c.tier \in Tiers \cup {NoTier}
      BY RateLimitAssumption
    <3>3. [w \in Windows |-> IF w \in DOMAIN c.quota THEN c.quota[w] ELSE 0] \in Quotas
      BY AskedIs
    <3> QED BY <1>2, <1>3, <2>1, <3>1, <3>2, <3>3 DEF UpdateQuota
  <2>2. CASE ReadConfig(a)
    BY <1>2, <1>3, <2>2 DEF ReadConfig
  <2>3. CASE SetTier(a)
    BY <1>2, <1>3, <2>3 DEF SetTier, At, AfterTier, Configs
  <2>4. CASE SetQuota(a)
    <3>1. admins[a] \in Calls /\ admins[a].read \in Configs /\ admins[a].read.quota \in Quotas
      BY <1>3 DEF Configs
    <3>2. FilledIn(admins[a].quota, admins[a].read.quota) \in Quotas
      BY <3>1, FilledInIs
    <3>3. Or(admins[a].read.tier, DefaultTier) \in Tiers
      BY <3>1, RateLimitAssumption DEF Or, Configs
    <3> QED BY <1>2, <1>3, <2>4, <3>2, <3>3 DEF SetQuota, Configs
  <2>5. CASE FailAdmin(a)
    BY <1>2, <1>3, <2>5 DEF FailAdmin
  <2> QED BY <2>1, <2>2, <2>3, <2>4, <2>5
<1> QED BY <1>1, <1>4 DEF LimitTypeOK

LEMMA LimitStep == LimitInv /\ [LimitNext]_limitVars => LimitInv'
<1> SUFFICES ASSUME LimitInv, [LimitNext]_limitVars PROVE LimitInv'
  OBVIOUS
<1>1. LimitTypeOK
  BY DEF LimitInv
<1>2. ASSUME NEW r \in Requests, CanActivate(r) \/ ReadQuota(r) \/ SkipIncrement(r) \/ FailRead(r)
      PROVE  LimitInv'
  <2>1. UNCHANGED <<counts, blind, now>>
    BY <1>2 DEF CanActivate, ReadQuota, SkipIncrement, FailRead
  <2>2. \A w \in Windows : Passed(w)' \subseteq Passed(w)
    <3> SUFFICES ASSUME NEW w \in Windows PROVE Passed(w)' \subseteq Passed(w)
      OBVIOUS
    <3>1. guards \in [Requests -> [step : {"idle", "quota", "count", "increment"}, window : Windows,
                              quota : Quotas, blind : BOOLEAN]]
      BY <1>1 DEF LimitTypeOK
    <3>2. guards[r].step \in {"idle", "quota"} => guards[r].window = 1
      BY <1>1 DEF LimitTypeOK
    <3>3. ~(1 > w)
      BY WindowsAre
    <3>4. \A q \in Requests : q # r => guards'[q] = guards[q]
      BY <1>2, <3>1 DEF CanActivate, ReadQuota, SkipIncrement, FailRead
    <3>5. guards'[r].step \in {"idle", "quota"} \/ (guards'[r].step = "count" /\ guards'[r].window = 1)
      BY <1>2, <3>1, <3>2 DEF CanActivate, ReadQuota, SkipIncrement, FailRead, IdleGuard
    <3>6. r \notin Passed(w)'
      BY <3>3, <3>5 DEF Passed
    <3> QED BY <3>4, <3>6 DEF Passed
  <2> QED BY <1>2, <2>1, <2>2, NoneMorePasses, GuardSteps DEF LimitInv
<1>3. ASSUME NEW r \in Requests, CheckWindow(r) PROVE LimitInv'
  BY <1>3, CheckedWindow, GuardSteps DEF LimitInv
<1>4. ASSUME NEW r \in Requests, Increment(r) PROVE LimitInv'
  BY <1>4, Incremented, GuardSteps DEF LimitInv
<1>5. ASSUME NEW a \in Admins,
             UpdateQuota(a) \/ ReadConfig(a) \/ SetTier(a) \/ SetQuota(a) \/ FailAdmin(a)
      PROVE  LimitInv'
  BY <1>5, AdminSteps, GuardsUnchanged DEF LimitInv
<1>6. CASE ResetCounter
  <2>1. LimitTypeOK'
    BY <1>1, <1>6 DEF ResetCounter, LimitTypeOK
  <2> QED BY <1>6, <2>1, CountersReset DEF LimitInv
<1>7. CASE ConnectionChanges
  <2>1. LimitTypeOK' /\ UNCHANGED <<counts, blind, now, guards>>
    BY <1>1, <1>7 DEF ConnectionChanges, LimitTypeOK
  <2> QED BY <2>1, GuardsUnchanged DEF LimitInv
<1>8. CASE Tick
  <2>1. LimitTypeOK'
    BY <1>1, <1>8 DEF Tick, LimitTypeOK
  <2> QED BY <1>8, <2>1, TimePasses DEF LimitInv
<1>9. CASE UNCHANGED limitVars
  <2>1. LimitTypeOK' /\ UNCHANGED <<counts, blind, now, guards>>
    BY <1>1, <1>9 DEF limitVars, LimitTypeOK
  <2> QED BY <2>1, GuardsUnchanged DEF LimitInv
<1> QED BY <1>2, <1>3, <1>4, <1>5, <1>6, <1>7, <1>8, <1>9 DEF LimitNext

(* No window of an API key counts more requests than its highest limit and one less than *)
(* may overlap, apart from those that passed while Redis hid the counts (canActivate,    *)
(* incrementCounter): whatever the limits are changed to, the counters reset or the      *)
(* window turned between a check and its count.                                          *)
THEOREM OverAdmissionHolds == LimitSpec => []OverAdmissionBounded
<1>1. LimitInv => OverAdmissionBounded
  BY DEF LimitInv, Bounded, Most, OverAdmissionBounded
<1> QED BY <1>1, LimitInitOK, LimitStep, PTL DEF LimitSpec

-----------------------------------------------------------------------------
(* The cache of gas data *)

FillStates == [step : {"idle", "fetch", "set"}, key : CacheKeys]

(* The store in use holds nothing alive for the key, whether it answers or not. *)
DeadInStore(k) ==
  IF backend = "memory" THEN memoryStore[k] = NoValue \/ memoryStore[k] < cacheNow
  ELSE redisStore[k] = NoValue \/ redisStore[k] <= cacheNow

(* A deleted key stays dead also in a Redis that cannot be reached just now, and nobody *)
(* is about to fill it, or one that was spared, with something fetched before.         *)
GoneForGood == \A k \in gone : ~Filling(k) /\ (DeadInStore(k) \/ k \in spared)

CacheInv == CacheTypeOK /\ TimersGuardEntries /\ GoneForGood

LEMMA IdleFillTyped == IdleFill \in FillStates /\ IdleFill.step = "idle"
<1>1. (CHOOSE k \in CacheKeys : TRUE) \in CacheKeys
  BY GasCacheAssumption
<1> QED BY <1>1 DEF IdleFill, FillStates

LEMMA CacheStarts == CacheInit => CacheInv
<1> SUFFICES ASSUME CacheInit PROVE CacheInv
  OBVIOUS
<1>1. fills \in [Fills -> FillStates]
  BY IdleFillTyped DEF CacheInit
<1>2. /\ redisStore \in [CacheKeys -> Nat] /\ memoryStore \in [CacheKeys -> Nat]
      /\ timers \in [CacheKeys -> Nat]
  BY DEF CacheInit, NoValue, NoTimer
<1>3. 0 \in 0..MaxRetry /\ 0 \in 0..MaxPurges
  BY GasCacheAssumption
<1>4. CacheTypeOK
  BY <1>1, <1>2, <1>3 DEF CacheInit, CacheTypeOK, FillStates
<1> QED BY <1>4 DEF CacheInit, CacheInv, TimersGuardEntries, GoneForGood, NoValue

(* What is dead in Redis, or in memory, is not alive. *)
LEMMA DeadIsNotLive ==
  ASSUME CacheTypeOK, NEW k \in CacheKeys, DeadInStore(k)
  PROVE  ~Live(Cached(k))
BY DEF CacheTypeOK, DeadInStore, Live, Cached, NoValue

LEMMA GetKeeps ==
  ASSUME CacheInv, NEW f \in Fills, Get(f)
  PROVE  CacheInv'
<1> USE DEF CacheInv
<1>1. PICK k \in CacheKeys :
        /\ fills' = IF Live(Cached(k)) THEN fills
                    ELSE [fills EXCEPT ![f] = [step |-> "fetch", key |-> k]]
        /\ memoryStore' = IF backend = "memory" /\ ~Live(memoryStore[k])
                          THEN [memoryStore EXCEPT ![k] = NoValue] ELSE memoryStore
        /\ gone' = IF Live(Cached(k)) THEN gone ELSE gone \ {k}
        /\ spared' = IF Live(Cached(k)) THEN spared ELSE spared \ {k}
  BY DEF Get
<1>2. UNCHANGED <<backend, connected, retryCount, reachable, redisStore, timers, purge, cacheNow, purges>>
  BY DEF Get
<1>3. /\ fills' \in [Fills -> FillStates] /\ gone' \subseteq gone /\ spared' \subseteq gone'
      /\ \A i \in gone' : i \in spared => i \in spared'
  BY <1>1 DEF CacheTypeOK, FillStates
<1>4. memoryStore' \in [CacheKeys -> Nat] /\ \A i \in CacheKeys : memoryStore'[i] \in {memoryStore[i], NoValue}
  BY <1>1 DEF CacheTypeOK, NoValue
<1>5. CacheTypeOK'
  BY <1>2, <1>3, <1>4 DEF CacheTypeOK, FillStates
<1>6. TimersGuardEntries'
  BY <1>2, <1>4 DEF TimersGuardEntries
<1>7. ASSUME NEW i \in gone' PROVE ~Filling(i)' /\ (DeadInStore(i)' \/ i \in spared')
  <2>1. i \in gone /\ i \in CacheKeys /\ ~Filling(i) /\ (DeadInStore(i) \/ i \in spared')
    BY <1>3, <1>7 DEF GoneForGood, CacheTypeOK
  <2>2. DeadInStore(i)' \/ i \in spared'
    BY <1>2, <1>4, <2>1 DEF DeadInStore
  <2>3. ~Filling(i)'
    BY <1>1, <2>1, <1>7 DEF Filling, CacheTypeOK
  <2> QED BY <2>2, <2>3
<1> QED BY <1>5, <1>6, <1>7 DEF GoneForGood

LEMMA FetchKeeps ==
  ASSUME CacheInv, NEW f \in Fills, Fetch(f)
  PROVE  CacheInv'
<1> USE DEF CacheInv
<1>1. PICK step \in {"idle", "set"} : fills' = [fills EXCEPT ![f].step = step]
  BY DEF Fetch
<1>2. /\ UNCHANGED <<backend, connected, retryCount, reachable, redisStore, memoryStore, timers,
                     purge, cacheNow, purges, gone, spared>>
      /\ fills[f].step = "fetch"
  BY DEF Fetch
<1>3. fills' \in [Fills -> FillStates]
  BY <1>1 DEF CacheTypeOK, FillStates
<1>4. \A i : Filling(i)' => Filling(i)
  BY <1>1, <1>2, <1>3 DEF Filling, CacheTypeOK, FillStates
<1>5. CacheTypeOK' /\ TimersGuardEntries'
  BY <1>2, <1>3 DEF CacheTypeOK, FillStates, TimersGuardEntries
<1> QED BY <1>2, <1>4, <1>5 DEF GoneForGood, DeadInStore

LEMMA SetKeeps ==
  ASSUME CacheInv, NEW f \in Fills, Set(f)
  PROVE  CacheInv'
<1> USE DEF CacheInv
<1> DEFINE k == fills[f].key
<1>1. /\ UNCHANGED <<backend, connected, retryCount, reachable, purge, cacheNow, purges, gone, spared>>
      /\ fills[f].step = "set" /\ fills' = [fills EXCEPT ![f] = IdleFill]
      /\ k \in CacheKeys
  BY DEF Set, CacheTypeOK
<1>2. k \notin gone
  BY <1>1 DEF GoneForGood, Filling
<1>3. cacheNow + TTL \in Nat
  BY GasCacheAssumption DEF CacheTypeOK
<1>4. fills' \in [Fills -> FillStates] /\ \A i : Filling(i)' => Filling(i)
  BY <1>1, IdleFillTyped DEF CacheTypeOK, FillStates, Filling
<1>5. /\ redisStore' \in [CacheKeys -> Nat] /\ memoryStore' \in [CacheKeys -> Nat]
      /\ timers' \in [CacheKeys -> Nat]
      /\ \A i \in CacheKeys \ {k} : /\ redisStore'[i] = redisStore[i] /\ timers'[i] = timers[i]
                                    /\ memoryStore'[i] = memoryStore[i]
      /\ \/ memoryStore'[k] = memoryStore[k] /\ timers'[k] = timers[k]
         \/ memoryStore'[k] = timers'[k]
  BY <1>1, <1>3 DEF Set, CacheTypeOK
<1>6. CacheTypeOK'
  BY <1>1, <1>4, <1>5 DEF CacheTypeOK, FillStates
<1>7. TimersGuardEntries'
  BY <1>5 DEF TimersGuardEntries
<1>8. ASSUME NEW i \in gone PROVE ~Filling(i)' /\ (DeadInStore(i)' \/ i \in spared)
  <2>1. i \in CacheKeys \ {k} /\ ~Filling(i) /\ (DeadInStore(i) \/ i \in spared)
    BY <1>2 DEF GoneForGood, CacheTypeOK
  <2> QED BY <1>1, <1>4, <1>5, <2>1 DEF DeadInStore
<1> QED BY <1>1, <1>6, <1>7, <1>8 DEF GoneForGood

(* Deletions: what they do to the stores, for any keys. *)
LEMMA DeleteKeeps ==
  ASSUME CacheInv, NEW keys \in SUBSET CacheKeys, NEW asked \in SUBSET keys,
         Delete(keys, asked), purge' \subseteq CacheKeys,
         purges' \in 0..MaxPurges,
         UNCHANGED <<backend, connected, retryCount, reachable, fills, cacheNow>>
  PROVE  CacheInv'
<1> USE DEF CacheInv
<1>1. /\ redisStore' \in [CacheKeys -> Nat] /\ memoryStore' \in [CacheKeys -> Nat]
      /\ timers' \in [CacheKeys -> Nat] /\ gone' \subseteq CacheKeys /\ spared' \subseteq gone'
  BY DEF Delete, CacheTypeOK, NoValue, NoTimer
<1>2. CacheTypeOK'
  BY <1>1 DEF CacheTypeOK
<1>3. TimersGuardEntries'
  BY DEF TimersGuardEntries, Delete, CacheTypeOK
<1>4. \A i \in CacheKeys : /\ redisStore'[i] \in {redisStore[i], NoValue}
                           /\ memoryStore'[i] \in {memoryStore[i], NoValue}
  BY DEF Delete
<1>5. ASSUME NEW i \in gone' PROVE ~Filling(i)' /\ (DeadInStore(i)' \/ i \in spared')
  <2>1. ~Filling(i)' /\ i \in CacheKeys
    BY <1>1, <1>5 DEF GoneForGood, Filling, Delete
  <2>2. CASE i \in asked /\ Answers
    <3>1. backend' = backend /\ (backend = "memory" => memoryStore'[i] = NoValue)
          /\ (backend # "memory" => redisStore'[i] = NoValue)
      BY <2>1, <2>2 DEF Delete, CacheTypeOK
    <3> QED BY <2>1, <3>1 DEF DeadInStore
  <2>3. CASE ~(i \in asked /\ Answers) /\ i \notin gone \ spared
    <3>1. i \in spared \cup (gone' \ gone)
      BY <1>5, <2>3
    <3>2. i \in spared'
      BY <2>3, <3>1 DEF Delete
    <3> QED BY <2>1, <3>2
  <2>4. CASE i \in gone \ spared
    BY <1>4, <2>1, <2>4 DEF GoneForGood, DeadInStore
  <2> QED BY <2>1, <2>2, <2>3, <2>4
<1> QED BY <1>2, <1>3, <1>5 DEF GoneForGood

LEMMA InvalidationKeeps ==
  ASSUME CacheInv, Invalidate \/ ClearAll \/ FindKeys \/ DeleteFound
  PROVE  CacheInv'
<1>1. purges < MaxPurges => purges + 1 \in 0..MaxPurges
  BY GasCacheAssumption DEF CacheInv, CacheTypeOK
<1>2. CASE Invalidate
  <2>1. PICK k \in CacheKeys : Delete({k}, {k})
    BY <1>2 DEF Invalidate
  <2> QED BY <1>1, <1>2, <2>1, DeleteKeeps DEF Invalidate, CacheInv, CacheTypeOK
<1>3. CASE ClearAll
  BY <1>1, <1>3, DeleteKeeps DEF ClearAll, CacheInv, CacheTypeOK
<1>4. CASE FindKeys
  <2>1. purge' \subseteq CacheKeys
    BY <1>4 DEF FindKeys
  <2>2. CacheTypeOK'
    BY <1>1, <1>4, <2>1 DEF FindKeys, CacheInv, CacheTypeOK
  <2> QED BY <1>4, <2>2 DEF FindKeys, CacheInv, TimersGuardEntries, GoneForGood, DeadInStore, Filling
<1>5. CASE DeleteFound
  <2>1. PICK keys \in SUBSET CacheKeys, asked \in SUBSET CacheKeys :
          asked \subseteq keys /\ Delete(keys, asked)
    BY <1>5 DEF DeleteFound, CacheInv, CacheTypeOK
  <2> QED BY <1>5, <2>1, DeleteKeeps DEF DeleteFound, CacheInv, CacheTypeOK
<1> QED BY <1>2, <1>3, <1>4, <1>5

(* The client's events, the timers and the time. *)
LEMMA ClientKeeps ==
  ASSUME CacheInv, RedisError \/ Reconnecting \/ RedisConnects \/ RedisComesOrGoes
  PROVE  CacheInv'
<1> USE DEF CacheInv
<1>1. CASE RedisError \/ RedisConnects \/ RedisComesOrGoes
  <2>1. CacheTypeOK'
    <3>1. CASE RedisError
      BY <3>1 DEF RedisError, CacheTypeOK
    <3>2. CASE RedisConnects
      <4>1. 0 \in 0..MaxRetry
        BY GasCacheAssumption
      <4> QED BY <3>2, <4>1 DEF RedisConnects, CacheTypeOK
    <3>3. CASE RedisComesOrGoes
      <4>1. reachable' \in BOOLEAN
        BY <3>3 DEF RedisComesOrGoes
      <4> QED BY <3>3, <4>1 DEF RedisComesOrGoes, CacheTypeOK
    <3> QED BY <1>1, <3>1, <3>2, <3>3
  <2>2. UNCHANGED <<backend, redisStore, memoryStore, timers, fills, cacheNow, gone, spared>>
    BY <1>1 DEF RedisError, RedisConnects, RedisComesOrGoes
  <2> QED BY <2>1, <2>2 DEF TimersGuardEntries, GoneForGood, DeadInStore, Filling
<1>2. CASE Reconnecting /\ retryCount >= MaxRetry
  <2>1. /\ memoryStore' \in [CacheKeys -> Nat] /\ timers' \in [CacheKeys -> Nat]
        /\ \A i \in CacheKeys : memoryStore'[i] = NoValue
        /\ backend' = "memory"
    BY <1>2 DEF Reconnecting, NoValue, NoTimer
  <2>2. CacheTypeOK'
    BY <1>2, <2>1 DEF Reconnecting, CacheTypeOK
  <2>3. gone' = gone /\ fills' = fills /\ spared' = spared
    BY <1>2 DEF Reconnecting
  <2>4. \A i \in gone : ~Filling(i)' /\ (DeadInStore(i)' \/ i \in spared)
    BY <2>1, <2>3 DEF GoneForGood, DeadInStore, Filling, CacheTypeOK
  <2> QED BY <2>1, <2>2, <2>3, <2>4 DEF TimersGuardEntries, GoneForGood
<1>3. CASE Reconnecting /\ ~(retryCount >= MaxRetry)
  <2>1. retryCount + 1 \in 0..MaxRetry
    BY <1>3, GasCacheAssumption DEF CacheTypeOK
  <2>2. CacheTypeOK'
    BY <1>3, <2>1 DEF Reconnecting, CacheTypeOK
  <2> QED BY <1>3, <2>2 DEF Reconnecting, TimersGuardEntries, GoneForGood, DeadInStore, Filling
<1> QED BY <1>1, <1>2, <1>3

LEMMA TimeKeeps ==
  ASSUME CacheInv, TimerFires \/ CacheTick
  PROVE  CacheInv'
<1> USE DEF CacheInv
<1>1. CASE TimerFires
  <2>1. PICK k \in CacheKeys : /\ memoryStore' = [memoryStore EXCEPT ![k] = NoValue]
                               /\ timers' = [timers EXCEPT ![k] = NoTimer]
    BY <1>1 DEF TimerFires
  <2>2. CacheTypeOK'
    BY <1>1, <2>1 DEF TimerFires, CacheTypeOK, NoValue, NoTimer
  <2>3. TimersGuardEntries'
    BY <2>1 DEF TimersGuardEntries, CacheTypeOK
  <2>4. \A i \in gone : ~Filling(i)' /\ (DeadInStore(i)' \/ i \in spared)
    BY <1>1, <2>1 DEF TimerFires, GoneForGood, DeadInStore, Filling, CacheTypeOK
  <2> QED BY <1>1, <2>2, <2>3, <2>4 DEF TimerFires, GoneForGood
<1>2. CASE CacheTick
  <2>1. CacheTypeOK' /\ TimersGuardEntries'
    BY <1>2 DEF CacheTick, CacheTypeOK, TimersGuardEntries
  <2>2. \A i \in gone : ~Filling(i)' /\ (DeadInStore(i)' \/ i \in spared)
    BY <1>2 DEF CacheTick, GoneForGood, DeadInStore, Filling, CacheTypeOK
  <2> QED BY <1>2, <2>1, <2>2 DEF CacheTick, GoneForGood
<1> QED BY <1>1, <1>2

LEMMA CacheKept == CacheInv /\ [CacheNext]_cacheVars => CacheInv'
<1> SUFFICES ASSUME CacheInv, [CacheNext]_cacheVars PROVE CacheInv'
  OBVIOUS
<1>1. CASE \E f \in Fills : Get(f) \/ Fetch(f) \/ Set(f)
  BY <1>1, GetKeeps, FetchKeeps, SetKeeps
<1>2. CASE Invalidate \/ ClearAll \/ FindKeys \/ DeleteFound
  BY <1>2, InvalidationKeeps
<1>3. CASE RedisError \/ Reconnecting \/ RedisConnects \/ RedisComesOrGoes
  BY <1>3, ClientKeeps
<1>4. CASE TimerFires \/ CacheTick
  BY <1>4, TimeKeeps
<1>5. CASE UNCHANGED cacheVars
  BY <1>5 DEF cacheVars, CacheInv, CacheTypeOK, TimersGuardEntries, GoneForGood, DeadInStore, Filling
<1> QED BY <1>1, <1>2, <1>3, <1>4, <1>5 DEF CacheNext

(* Both stores of the cache, the timers and the calls under way keep their types. *)
THEOREM CacheTypeCorrect == CacheSpec => []CacheTypeOK
<1>1. CacheInv => CacheTypeOK
  BY DEF CacheInv
<1> QED BY <1>1, CacheStarts, CacheKept, PTL DEF CacheSpec

(* Through every fall-back, reconnection and expiry: an entry in memory has its own   *)
(* timer, and what an invalidation was to delete while nobody filled it is not served  *)
(* again, but for the keys it spared: Redis was silent, or the memory store deleted one. *)
THEOREM NothingStaleIsServedHolds == CacheSpec => []NothingStaleIsServed
<1>1. CacheInv => NothingStaleIsServed
  BY DeadIsNotLive DEF CacheInv, GoneForGood, NothingStaleIsServed, InvalidatedStaysGone, CacheTypeOK
<1> QED BY <1>1, CacheStarts, CacheKept, PTL DEF CacheSpec

-----------------------------------------------------------------------------
(* Suspicious gas patterns *)

(* No more detections, and no other severity, than concerned the pattern. *)
Backed(p, t) == p.flagged \in 1..t.detections /\ p.severity \in t.first..t.highest

SoundDetection(call) ==
  /\ call.row # 0 => call.row \in DOMAIN patterns /\ Backed(call.entity, tally[call.row])
  /\ (call.step \in {"load", "update"}) = (call.row # 0)
  /\ call.step \in {"flag", "insert"} => call.result.severity \in 1..3

SoundReview(call) ==
  /\ call.row # 0 => /\ call.row \in DOMAIN patterns /\ Backed(call.entity, tally[call.row])
                     /\ call.entity.status # "active"
  /\ call.step \in {"load", "update"} => call.row # 0

(* A settled pattern is decided and no detection holds what it was before. *)
Final(i) == patterns[i].status # "active" /\ \A d \in Detections : detections[d].row # i

SuspicionInv ==
  /\ SuspicionTypeOK
  /\ \A i \in DOMAIN patterns : Backed(patterns[i], tally[i])
  /\ \A d \in Detections : SoundDetection(detections[d])
  /\ \A r \in Reviewers : SoundReview(reviews[r])
  /\ \A i \in settled : Final(i)

LEMMA IdleTyped ==
  /\ NotSuspicious \in Findings /\ NoPattern \in PatternStates
  /\ IdleDetection \in DetectionStates /\ IdleReview \in ReviewStates
<1>1. NotSuspicious \in Findings /\ NoPattern \in PatternStates
  BY DEF NotSuspicious, NoPattern, Findings, FindingTypes, PatternStates
<1> QED BY <1>1 DEF IdleDetection, IdleReview, DetectionStates, ReviewStates

(* What the detectors find. *)
LEMMA UsageTyped ==
  ASSUME NEW tx, NEW b, NEW text
  PROVE  AbnormalGasUsage(tx, b, text) \in Findings
BY DEF AbnormalGasUsage, NotSuspicious, Suspicious, Infinite, Findings, FindingTypes

LEMMA FrequencyTyped ==
  ASSUME NEW count, NEW b
  PROVE  FrequencyAnomaly(count, b) \in Findings
BY DEF FrequencyAnomaly, NotSuspicious, Suspicious, Infinite, Findings, FindingTypes

LEMMA PriceTyped ==
  ASSUME NEW tx, NEW b
  PROVE  GasPriceManipulation(tx, b) \in Findings
BY DEF GasPriceManipulation, NotSuspicious, Suspicious, Infinite, Findings, FindingTypes

(* A save writes columns of the entity or leaves those of the row. *)
LEMMA MergedTyped ==
  ASSUME NEW row \in PatternStates, NEW loaded \in PatternStates, NEW entity \in PatternStates
  PROVE  /\ Merged(row, loaded, entity) \in PatternStates
         /\ Merged(row, loaded, entity).flagged \in {row.flagged, entity.flagged}
         /\ Merged(row, loaded, entity).severity \in {row.severity, entity.severity}
         /\ Merged(row, loaded, entity).status \in {row.status, entity.status}
<1> DEFINE m == Merged(row, loaded, entity)
<1>1. DOMAIN row = {"type", "severity", "flagged", "deleted", "status"}
  BY DEF PatternStates
<1>2. m = [f \in {"type", "severity", "flagged", "deleted", "status"} |->
             IF entity[f] # loaded[f] THEN entity[f] ELSE row[f]]
  BY <1>1 DEF Merged
<1>3. /\ m.type \in {row.type, entity.type} /\ m.severity \in {row.severity, entity.severity}
      /\ m.flagged \in {row.flagged, entity.flagged} /\ m.deleted \in {row.deleted, entity.deleted}
      /\ m.status \in {row.status, entity.status}
  BY <1>2
<1>4. m = [type |-> m.type, severity |-> m.severity, flagged |-> m.flagged,
           deleted |-> m.deleted, status |-> m.status]
  BY <1>2
<1>5. m \in PatternStates
  BY <1>3, <1>4 DEF PatternStates
<1> QED BY <1>3, <1>5

(* What becomes of settled: the hypothesis is what each step has to show. *)
LEMMA SettledStays ==
  ASSUME SuspicionInv, Settle, DOMAIN patterns \subseteq DOMAIN patterns',
         \A i \in settled : /\ patterns'[i].status # "active"
                            /\ \A d \in Detections : detections'[d].row # i
  PROVE  /\ settled' \subseteq DOMAIN patterns'
         /\ \A i \in settled' : Final(i)'
<1>1. settled \subseteq DOMAIN patterns
  BY DEF SuspicionInv, SuspicionTypeOK
<1> QED BY <1>1 DEF Settle, Held, Decided, Final

(* A detection goes on and nothing else changes. *)
LEMMA DetectionStep ==
  ASSUME SuspicionInv, NEW d \in Detections, NEW call \in DetectionStates, Become(d, call),
         UNCHANGED <<patterns, reviews, tally>>, baseline' \in Baselines \cup {NoBaseline},
         Settle, SoundDetection(call), call.row \notin settled
  PROVE  SuspicionInv'
<1> USE DEF SuspicionInv
<1>1. /\ detections' \in [Detections -> DetectionStates]
      /\ \A e \in Detections : detections'[e] = IF e = d THEN call ELSE detections[e]
  BY DEF Become, SuspicionTypeOK
<1>2. \A i \in settled : /\ patterns'[i].status # "active"
                         /\ \A e \in Detections : detections'[e].row # i
  BY <1>1 DEF Final
<1>3. settled' \subseteq DOMAIN patterns' /\ \A i \in settled' : Final(i)'
  BY <1>2, SettledStays
<1>4. SuspicionTypeOK'
  BY <1>1, <1>3 DEF SuspicionTypeOK
<1>5. \A e \in Detections : SoundDetection(detections[e])'
  BY <1>1 DEF SoundDetection
<1>6. \A r \in Reviewers : SoundReview(reviews[r])'
  BY DEF SoundReview
<1> QED BY <1>3, <1>4, <1>5, <1>6

LEMMA DetectorSteps ==
  ASSUME SuspicionInv, NEW d \in Detections,
         \/ ProcessTransaction(d) \/ DetectAbnormalGasUsage(d) \/ DetectFrequencyAnomaly(d)
         \/ LoadPattern(d) \/ LogDetection(d) \/ FailDetection(d)
  PROVE  SuspicionInv'
<1>0. /\ 0 \notin settled /\ baseline \in Baselines \cup {NoBaseline}
      /\ detections[d] \in DetectionStates /\ SoundDetection(detections[d])
      /\ detections[d].row \notin settled
  <2>1. 0 \notin settled
    BY DEF SuspicionInv, SuspicionTypeOK
  <2>2. baseline \in Baselines \cup {NoBaseline} /\ detections[d] \in DetectionStates
    BY DEF SuspicionInv, SuspicionTypeOK
  <2>3. SoundDetection(detections[d]) /\ detections[d].row \notin settled
    BY DEF SuspicionInv, Final
  <2> QED BY <2>1, <2>2, <2>3
<1>1. SoundDetection(IdleDetection) /\ IdleDetection.row = 0
  BY DEF SoundDetection, IdleDetection
<1>2. CASE ProcessTransaction(d)
  <2>1. PICK tx \in GasTxs : Become(d, [IdleDetection EXCEPT !.step = "baseline", !.tx = tx])
    BY <1>2 DEF ProcessTransaction
  <2> DEFINE call == [IdleDetection EXCEPT !.step = "baseline", !.tx = tx]
  <2>2. call \in DetectionStates /\ SoundDetection(call) /\ call.row = 0
    <3>1. call \in DetectionStates
      BY IdleTyped DEF DetectionStates
    <3>2. call.row = 0 /\ call.step = "baseline"
      BY DEF IdleDetection
    <3> HIDE DEF call
    <3> QED BY <3>1, <3>2 DEF SoundDetection
  <2> HIDE DEF call
  <2> QED BY <1>0, <1>2, <2>1, <2>2, DetectionStep DEF ProcessTransaction, call
<1>3. CASE LogDetection(d) \/ FailDetection(d)
  BY <1>0, <1>1, <1>3, IdleTyped, DetectionStep DEF LogDetection, FailDetection
<1>4. CASE LoadPattern(d)
  <2> DEFINE call == [detections[d] EXCEPT !.step = "update", !.loaded = patterns[detections[d].row]]
  <2>1. detections[d].row \in DOMAIN patterns /\ patterns[detections[d].row] \in PatternStates
    BY <1>0, <1>4 DEF LoadPattern, SoundDetection, SuspicionInv, SuspicionTypeOK
  <2>2. /\ call \in DetectionStates /\ call.row = detections[d].row
        /\ call.entity = detections[d].entity /\ call.step = "update"
    BY <1>0, <2>1 DEF DetectionStates
  <2>3. SoundDetection(call)
    BY <1>0, <1>4, <2>1, <2>2 DEF SoundDetection, LoadPattern
  <2>4. Become(d, call)
    BY <1>4 DEF LoadPattern
  <2> HIDE DEF call
  <2> QED BY <1>0, <1>4, <2>2, <2>3, <2>4, DetectionStep DEF LoadPattern
<1>5. ASSUME NEW call \in DetectionStates, call.row = 0, NEW result \in Findings,
             NEW next \in {"frequency", "done"}, Conclude(d, call, result, next),
             UNCHANGED <<patterns, reviews, tally>>, baseline' \in Baselines \cup {NoBaseline},
             Settle
      PROVE  SuspicionInv'
  <2> DEFINE flag == [IdleDetection EXCEPT !.step = "flag", !.result = result]
             on == [call EXCEPT !.step = next]
  <2>1. CASE result.severity > 0
    <3>1. flag \in DetectionStates /\ flag.row = 0 /\ SoundDetection(flag)
      <4>1. flag \in DetectionStates
        BY IdleTyped DEF DetectionStates
      <4>2. flag.row = 0 /\ flag.step = "flag" /\ flag.result = result
        BY DEF IdleDetection
      <4>3. result.severity \in 1..3
        BY <2>1 DEF Findings
      <4> HIDE DEF flag
      <4> QED BY <4>1, <4>2, <4>3 DEF SoundDetection
    <3>2. Become(d, flag)
      BY <1>5, <2>1 DEF Conclude
    <3> HIDE DEF flag
    <3> QED BY <1>0, <1>5, <3>1, <3>2, DetectionStep
  <2>2. CASE ~(result.severity > 0) /\ next = "done"
    <3>1. Become(d, IdleDetection)
      BY <1>5, <2>2 DEF Conclude
    <3> QED BY <1>0, <1>1, <1>5, <3>1, IdleTyped, DetectionStep
  <2>3. CASE ~(result.severity > 0) /\ next = "frequency"
    <3>1. on \in DetectionStates /\ on.row = 0 /\ SoundDetection(on)
      BY <1>5, <2>3 DEF DetectionStates, SoundDetection
    <3>2. Become(d, on)
      BY <1>5, <2>3 DEF Conclude
    <3> HIDE DEF on
    <3> QED BY <1>0, <1>5, <3>1, <3>2, DetectionStep
  <2> QED BY <2>1, <2>2, <2>3
<1>6. CASE DetectAbnormalGasUsage(d)
  <2>1. PICK b \in Baselines \cup {NoBaseline} :
          /\ GetOrComputeBaseline(b)
          /\ Conclude(d, [detections[d] EXCEPT !.b = b],
                      AbnormalGasUsage(detections[d].tx, b, baseline # NoBaseline), "frequency")
    BY <1>6 DEF DetectAbnormalGasUsage
  <2> DEFINE call == [detections[d] EXCEPT !.b = b]
             result == AbnormalGasUsage(detections[d].tx, b, baseline # NoBaseline)
  <2>2. call \in DetectionStates /\ call.row = 0
    BY <1>0, <1>6 DEF DetectionStates, DetectAbnormalGasUsage, SoundDetection
  <2>3. result \in Findings
    BY UsageTyped
  <2>4. baseline' \in Baselines \cup {NoBaseline}
    BY <1>0, <2>1 DEF GetOrComputeBaseline
  <2>5. UNCHANGED <<patterns, reviews, tally>> /\ Settle
    BY <1>6 DEF DetectAbnormalGasUsage
  <2>6. Conclude(d, call, result, "frequency")
    BY <2>1
  <2> HIDE DEF call, result
  <2> QED BY <1>5, <2>2, <2>3, <2>4, <2>5, <2>6
<1>7. CASE DetectFrequencyAnomaly(d)
  <2>1. PICK count \in TxCounts, b \in Baselines \cup {NoBaseline} :
          /\ GetOrComputeBaseline(b)
          /\ Conclude(d, detections[d],
                      IF FrequencyAnomaly(count, b).severity > 0 THEN FrequencyAnomaly(count, b)
                      ELSE GasPriceManipulation(detections[d].tx, detections[d].b), "done")
    BY <1>7 DEF DetectFrequencyAnomaly
  <2> DEFINE result == IF FrequencyAnomaly(count, b).severity > 0 THEN FrequencyAnomaly(count, b)
                       ELSE GasPriceManipulation(detections[d].tx, detections[d].b)
  <2>2. detections[d].row = 0
    BY <1>0, <1>7 DEF DetectFrequencyAnomaly, SoundDetection
  <2>3. result \in Findings
    BY FrequencyTyped, PriceTyped
  <2>4. baseline' \in Baselines \cup {NoBaseline}
    BY <1>0, <2>1 DEF GetOrComputeBaseline
  <2>5. UNCHANGED <<patterns, reviews, tally>> /\ Settle
    BY <1>7 DEF DetectFrequencyAnomaly
  <2>6. Conclude(d, detections[d], result, "done")
    BY <2>1
  <2> HIDE DEF result
  <2> QED BY <1>0, <1>5, <2>2, <2>3, <2>4, <2>5, <2>6
<1> QED BY <1>2, <1>3, <1>4, <1>6, <1>7

(* Of two severities the worse. *)
LEMMA WorseOfTwo ==
  ASSUME NEW s \in 1..3, NEW t \in 1..3
  PROVE  /\ Worse(s, t) \in 1..3 /\ Worse(s, t) >= s /\ Worse(s, t) >= t
         /\ Worse(s, t) \in {s, t}
BY DEF Worse

LEMMA OneMore ==
  ASSUME NEW p \in PatternStates, NEW t \in TallyStates, Backed(p, t), NEW s \in 1..3,
         NEW q \in PatternStates, q.flagged = p.flagged + 1, q.severity = Worse(p.severity, s),
         NEW u \in TallyStates, u.detections = t.detections + 1, u.first = t.first,
         u.highest = Worse(t.highest, s)
  PROVE  Backed(q, u)
<1>1. /\ p.severity \in 1..3 /\ p.flagged \in Nat /\ q.severity \in 1..3 /\ q.flagged \in Nat
      /\ t.first \in 1..3 /\ t.highest \in 1..3 /\ t.detections \in Nat
      /\ u.first \in 1..3 /\ u.highest \in 1..3 /\ u.detections \in Nat
  BY DEF PatternStates, TallyStates
<1>2. q.flagged \in 1..u.detections
  BY <1>1 DEF Backed
<1>3. q.severity \in u.first..u.highest
  BY <1>1 DEF Backed, Worse
<1> QED BY <1>2, <1>3 DEF Backed

LEMMA FindKeeps ==
  ASSUME SuspicionInv, NEW d \in Detections, FindActivePattern(d)
  PROVE  SuspicionInv'
<1> DEFINE call == detections[d]
<1>0. /\ 0 \notin settled /\ call \in DetectionStates /\ call.step = "flag"
      /\ call.result.severity \in 1..3 /\ call.row = 0
      /\ UNCHANGED <<patterns, baseline, reviews>> /\ Settle
      /\ baseline \in Baselines \cup {NoBaseline}
  <2>1. 0 \notin settled
    BY DEF SuspicionInv, SuspicionTypeOK
  <2>2. call \in DetectionStates /\ SoundDetection(call) /\ call.step = "flag"
        /\ baseline \in Baselines \cup {NoBaseline}
    BY DEF SuspicionInv, SuspicionTypeOK, FindActivePattern
  <2>3. UNCHANGED <<patterns, baseline, reviews>> /\ Settle
    BY DEF FindActivePattern
  <2> QED BY <2>1, <2>2, <2>3 DEF SoundDetection
<1>1. CASE Become(d, IdleDetection) /\ UNCHANGED tally
  <2>1. SoundDetection(IdleDetection) /\ IdleDetection.row = 0
    BY DEF SoundDetection, IdleDetection
  <2> QED BY <1>0, <1>1, <2>1, IdleTyped, DetectionStep
<1>2. CASE Become(d, [call EXCEPT !.step = "insert"]) /\ UNCHANGED tally
  <2> DEFINE on == [call EXCEPT !.step = "insert"]
  <2>1. on \in DetectionStates /\ on.row = 0 /\ SoundDetection(on)
    BY <1>0 DEF DetectionStates, SoundDetection
  <2> HIDE DEF on
  <2> QED BY <1>0, <1>2, <2>1, DetectionStep DEF on
<1>3. ASSUME NEW i \in ActiveOfType(call.result.type),
             Become(d, [IdleDetection EXCEPT !.step = "load", !.row = i,
                          !.entity = Higher(patterns[i], call.result.severity)]),
             tally' = [tally EXCEPT ![i].detections = @ + 1,
                                    ![i].highest = Worse(@, call.result.severity)]
      PROVE  SuspicionInv'
  <2> DEFINE entity == Higher(patterns[i], call.result.severity)
             on == [IdleDetection EXCEPT !.step = "load", !.row = i, !.entity = entity]
  <2>1. PICK n \in Nat : patterns \in [1..n -> PatternStates] /\ tally \in [1..n -> TallyStates]
    BY DEF SuspicionInv, SuspicionTypeOK
  <2>2. /\ i \in 1..n /\ patterns[i] \in PatternStates /\ tally[i] \in TallyStates
        /\ Backed(patterns[i], tally[i]) /\ patterns[i].status = "active" /\ i \notin settled
    BY <2>1 DEF ActiveOfType, SuspicionInv, Final
  <2>3. /\ tally' \in [1..n -> TallyStates]
        /\ \A j \in 1..n \ {i} : tally'[j] = tally[j]
        /\ tally'[i].detections = tally[i].detections + 1 /\ tally'[i].first = tally[i].first
        /\ tally'[i].highest = Worse(tally[i].highest, call.result.severity)
    <3>1. Worse(tally[i].highest, call.result.severity) \in 1..3 /\ tally[i].detections + 1 \in Nat
      BY <1>0, <2>2, WorseOfTwo DEF TallyStates
    <3> QED BY <1>3, <2>1, <2>2, <3>1 DEF TallyStates
  <2>4. /\ entity \in PatternStates /\ entity.flagged = patterns[i].flagged + 1
        /\ entity.severity = Worse(patterns[i].severity, call.result.severity)
    <3>1. Worse(patterns[i].severity, call.result.severity) \in 1..3 /\ patterns[i].flagged + 1 \in Nat
      BY <1>0, <2>2, WorseOfTwo DEF PatternStates
    <3> QED BY <2>2, <3>1 DEF PatternStates, Higher
  <2>5. Backed(entity, tally'[i])
    <3>1. tally'[i] \in TallyStates
      BY <2>2, <2>3
    <3> HIDE DEF call, entity
    <3> QED BY <1>0, <2>2, <2>3, <2>4, <3>1, OneMore
  <2>6. ASSUME NEW j \in 1..n, NEW p \in PatternStates, Backed(p, tally[j]) PROVE Backed(p, tally'[j])
    <3>1. tally'[j].detections >= tally[j].detections /\ tally'[j].first = tally[j].first
          /\ tally'[j].highest >= tally[j].highest
      <4>1. tally[j] \in TallyStates
        BY <2>1
      <4>2. CASE j # i
        BY <2>3, <4>1, <4>2 DEF TallyStates
      <4>3. CASE j = i
        BY <1>0, <2>3, <4>1, <4>3, WorseOfTwo DEF TallyStates
      <4> QED BY <4>2, <4>3
    <3>2. /\ tally[j] \in TallyStates /\ tally'[j] \in TallyStates /\ p.flagged \in Nat
          /\ p.severity \in 1..3
      BY <2>1, <2>3 DEF PatternStates
    <3> QED BY <2>6, <3>1, <3>2 DEF Backed, TallyStates
  <2>7. /\ on \in DetectionStates /\ on.row = i /\ on.entity = entity /\ on.step = "load"
    <3> HIDE DEF entity
    <3>1. i \in Nat
      BY <2>1, <2>2
    <3> QED BY <2>4, <3>1, IdleTyped DEF DetectionStates
  <2>8. /\ detections' \in [Detections -> DetectionStates]
        /\ \A e \in Detections : detections'[e] = IF e = d THEN on ELSE detections[e]
    BY <1>3, <2>7 DEF Become, SuspicionInv, SuspicionTypeOK
  <2> HIDE DEF call, entity, on
  <2>9. /\ settled' \subseteq DOMAIN patterns' /\ \A j \in settled' : Final(j)'
    <3>1. \A j \in settled : /\ patterns'[j].status # "active"
                             /\ \A e \in Detections : detections'[e].row # j
      BY <1>0, <2>2, <2>7, <2>8 DEF SuspicionInv, Final
    <3>2. DOMAIN patterns \subseteq DOMAIN patterns'
      BY <1>0
    <3> QED BY <1>0, <3>1, <3>2, SettledStays
  <2>10. SuspicionTypeOK'
    BY <1>0, <2>1, <2>3, <2>8, <2>9 DEF SuspicionInv, SuspicionTypeOK
  <2>11. \A e \in Detections : SoundDetection(detections[e])'
    <3> SUFFICES ASSUME NEW e \in Detections PROVE SoundDetection(detections[e])'
      OBVIOUS
    <3>1. CASE e = d
      BY <1>0, <2>1, <2>2, <2>5, <2>7, <2>8, <3>1 DEF SoundDetection
    <3>2. CASE e # d
      <4>1. detections[e] \in DetectionStates /\ detections[e].entity \in PatternStates
            /\ SoundDetection(detections[e])
        BY DEF SuspicionInv, SuspicionTypeOK, DetectionStates
      <4> QED BY <1>0, <2>1, <2>6, <2>8, <3>2, <4>1 DEF SoundDetection
    <3> QED BY <3>1, <3>2
  <2>12. \A r \in Reviewers : SoundReview(reviews[r])'
    <3> SUFFICES ASSUME NEW r \in Reviewers PROVE SoundReview(reviews[r])'
      OBVIOUS
    <3>1. reviews[r].entity \in PatternStates /\ SoundReview(reviews[r])
      BY DEF SuspicionInv, SuspicionTypeOK, ReviewStates
    <3> QED BY <1>0, <2>1, <2>6, <3>1 DEF SoundReview
  <2>13. \A j \in DOMAIN patterns' : Backed(patterns'[j], tally'[j])
    BY <1>0, <2>1, <2>6 DEF SuspicionInv
  <2> QED BY <2>9, <2>10, <2>11, <2>12, <2>13 DEF SuspicionInv
<1> QED BY <1>1, <1>2, <1>3 DEF FindActivePattern

(* A new pattern is backed by the detection it is made of, and concerns no call yet. *)
LEMMA InsertKeeps ==
  ASSUME SuspicionInv, NEW d \in Detections, InsertPattern(d)
  PROVE  SuspicionInv'
<1> DEFINE severity == detections[d].result.severity
           row == [type |-> detections[d].result.type, severity |-> severity, status |-> "active",
                   flagged |-> 1, deleted |-> FALSE]
           count == [detections |-> 1, first |-> severity, highest |-> severity]
           done == [IdleDetection EXCEPT !.step = "log"]
<1>1. PICK n \in Nat : patterns \in [1..n -> PatternStates] /\ tally \in [1..n -> TallyStates]
  BY DEF SuspicionInv, SuspicionTypeOK
<1>2. severity \in 1..3 /\ detections[d].result.type \in FindingTypes
  <2>1. detections[d].result \in Findings /\ SoundDetection(detections[d])
    BY DEF SuspicionInv, SuspicionTypeOK, DetectionStates
  <2> QED BY <2>1 DEF InsertPattern, SoundDetection, Findings
<1>3. row \in PatternStates /\ count \in TallyStates /\ Backed(row, count)
  BY <1>2 DEF PatternStates, TallyStates, Backed
<1>4. done \in DetectionStates /\ done.row = 0 /\ done.step = "log"
  BY IdleTyped DEF DetectionStates, IdleDetection
<1>5. /\ patterns' = Append(patterns, row) /\ tally' = Append(tally, count)
      /\ Become(d, done) /\ UNCHANGED <<baseline, reviews>> /\ Settle
  BY DEF InsertPattern
<1> HIDE DEF row, count, done
<1>6. /\ patterns' \in [1..(n + 1) -> PatternStates] /\ patterns'[n + 1] = row
      /\ \A i \in 1..n : patterns'[i] = patterns[i]
  <2>1. patterns \in Seq(PatternStates) /\ Len(patterns) = n
    BY <1>1
  <2>2. patterns' \in Seq(PatternStates) /\ Len(patterns') = n + 1
    BY <1>3, <1>5, <2>1, AppendProperties
  <2>3. \A i \in 1..n : patterns'[i] = patterns[i]
    BY <1>3, <1>5, <2>1, AppendProperties
  <2>4. patterns'[n + 1] = row
    BY <1>3, <1>5, <2>1, AppendProperties
  <2>5. patterns' \in [1..(n + 1) -> PatternStates]
    BY <2>2, LenProperties
  <2> QED BY <2>3, <2>4, <2>5
<1>7. /\ tally' \in [1..(n + 1) -> TallyStates] /\ tally'[n + 1] = count
      /\ \A i \in 1..n : tally'[i] = tally[i]
  <2>1. tally \in Seq(TallyStates) /\ Len(tally) = n
    BY <1>1
  <2>2. tally' \in Seq(TallyStates) /\ Len(tally') = n + 1
    BY <1>3, <1>5, <2>1, AppendProperties
  <2>3. \A i \in 1..n : tally'[i] = tally[i]
    BY <1>3, <1>5, <2>1, AppendProperties
  <2>4. tally'[n + 1] = count
    BY <1>3, <1>5, <2>1, AppendProperties
  <2>5. tally' \in [1..(n + 1) -> TallyStates]
    BY <2>2, LenProperties
  <2> QED BY <2>3, <2>4, <2>5
<1>8. /\ detections' \in [Detections -> DetectionStates]
      /\ \A e \in Detections : detections'[e] = IF e = d THEN done ELSE detections[e]
  BY <1>4, <1>5 DEF Become, SuspicionInv, SuspicionTypeOK
<1>9. settled' \subseteq DOMAIN patterns' /\ \A i \in settled' : Final(i)'
  <2>1. settled \subseteq 1..n /\ DOMAIN patterns \subseteq DOMAIN patterns'
    BY <1>1, <1>6 DEF SuspicionInv, SuspicionTypeOK
  <2>2. \A i \in settled : /\ patterns'[i].status # "active"
                           /\ \A e \in Detections : detections'[e].row # i
    BY <1>4, <1>6, <1>8, <2>1 DEF SuspicionInv, Final
  <2> QED BY <1>5, <2>1, <2>2, SettledStays
<1>10. SuspicionTypeOK'
  <2>1. n + 1 \in Nat
    OBVIOUS
  <2> QED BY <1>5, <1>6, <1>7, <1>8, <1>9, <2>1 DEF SuspicionInv, SuspicionTypeOK
<1>11. \A e \in Detections : SoundDetection(detections[e])'
  <2> SUFFICES ASSUME NEW e \in Detections PROVE SoundDetection(detections[e])'
    OBVIOUS
  <2>1. SoundDetection(detections[e])
    BY DEF SuspicionInv
  <2>2. CASE e = d
    BY <1>4, <1>8, <2>2 DEF SoundDetection
  <2>3. CASE e # d
    <3>1. PICK call : call = detections[e]
      OBVIOUS
    <3>2. call = detections'[e]
      BY <1>8, <2>3, <3>1
    <3>3. /\ call.row # 0 => call.row \in DOMAIN patterns /\ Backed(call.entity, tally[call.row])
          /\ (call.step \in {"load", "update"}) = (call.row # 0)
          /\ call.step \in {"flag", "insert"} => call.result.severity \in 1..3
      BY <2>1, <3>1 DEF SoundDetection
    <3>4. \A i \in DOMAIN patterns : i \in DOMAIN patterns' /\ tally'[i] = tally[i]
      BY <1>1, <1>6, <1>7
    <3>5. call.row # 0 => call.row \in DOMAIN patterns' /\ Backed(call.entity, tally'[call.row])
      BY <3>3, <3>4
    <3> QED BY <3>2, <3>3, <3>5 DEF SoundDetection
  <2> QED BY <2>2, <2>3
<1>12. \A r \in Reviewers : SoundReview(reviews[r])'
  BY <1>1, <1>5, <1>6, <1>7 DEF SuspicionInv, SoundReview
<1>13. \A i \in DOMAIN patterns' : Backed(patterns'[i], tally'[i])
  <2> SUFFICES ASSUME NEW i \in 1..(n + 1) PROVE Backed(patterns'[i], tally'[i])
    BY <1>6
  <2>1. CASE i = n + 1
    BY <1>3, <1>6, <1>7, <2>1
  <2>2. CASE i \in 1..n
    BY <1>1, <1>6, <1>7, <2>2 DEF SuspicionInv
  <2> QED BY <2>1, <2>2
<1> QED BY <1>9, <1>10, <1>11, <1>12, <1>13 DEF SuspicionInv

(* What a save leaves in the row is as well backed as the row and the entity were, and *)
(* decided if both were.                                                               *)
LEMMA SavedSound ==
  ASSUME NEW call, call.row \in DOMAIN patterns, patterns[call.row] \in PatternStates,
         call.entity \in PatternStates, call.loaded \in PatternStates,
         Backed(patterns[call.row], tally[call.row]), Backed(call.entity, tally[call.row])
  PROVE  /\ Saved(call) \in PatternStates /\ Backed(Saved(call), tally[call.row])
         /\ Saved(call).status \in {patterns[call.row].status, call.entity.status}
<1> DEFINE m == Merged(patterns[call.row], call.loaded, call.entity)
<1>1. /\ m \in PatternStates
      /\ m.flagged \in {patterns[call.row].flagged, call.entity.flagged}
      /\ m.severity \in {patterns[call.row].severity, call.entity.severity}
      /\ m.status \in {patterns[call.row].status, call.entity.status}
  BY MergedTyped
<1>2. Saved(call) \in {call.entity, patterns[call.row], m}
  BY DEF Saved
<1> HIDE DEF m
<1>3. Backed(m, tally[call.row])
  BY <1>1 DEF Backed
<1> QED BY <1>1, <1>2, <1>3

(* A row is replaced by a sound one. *)
LEMMA RowReplaced ==
  ASSUME SuspicionInv, NEW i \in DOMAIN patterns, NEW p \in PatternStates,
         patterns' = [patterns EXCEPT ![i] = p], tally' = tally, baseline' = baseline,
         Backed(p, tally[i]), i \in settled => p.status # "active",
         detections' \in [Detections -> DetectionStates], reviews' \in [Reviewers -> ReviewStates],
         \A d \in Detections : \/ detections'[d] = detections[d]
                               \/ detections'[d].row = 0 /\ detections'[d].step \in {"log", "idle"},
         \A r \in Reviewers : \/ reviews'[r] = reviews[r]
                              \/ reviews'[r].row = 0 /\ reviews'[r].step = "idle",
         Settle
  PROVE  SuspicionInv'
<1>1. PICK n \in Nat : patterns \in [1..n -> PatternStates] /\ tally \in [1..n -> TallyStates]
  BY DEF SuspicionInv, SuspicionTypeOK
<1>2. /\ patterns' \in [1..n -> PatternStates]
      /\ \A j \in 1..n : patterns'[j] = IF j = i THEN p ELSE patterns[j]
  BY <1>1
<1>3. settled' \subseteq DOMAIN patterns' /\ \A j \in settled' : Final(j)'
  <2>1. settled \subseteq 1..n /\ 0 \notin settled
    BY <1>1 DEF SuspicionInv, SuspicionTypeOK
  <2>2. \A j \in settled : /\ patterns'[j].status # "active"
                           /\ \A e \in Detections : detections'[e].row # j
    BY <1>2, <2>1 DEF SuspicionInv, Final
  <2>3. DOMAIN patterns \subseteq DOMAIN patterns'
    BY <1>1, <1>2
  <2> QED BY <2>2, <2>3, SettledStays
<1>4. SuspicionTypeOK'
  BY <1>1, <1>2, <1>3 DEF SuspicionInv, SuspicionTypeOK
<1>5. \A e \in Detections : SoundDetection(detections[e])'
  BY <1>1, <1>2 DEF SuspicionInv, SoundDetection
<1>6. \A r \in Reviewers : SoundReview(reviews[r])'
  BY <1>1, <1>2 DEF SuspicionInv, SoundReview
<1>7. \A j \in DOMAIN patterns' : Backed(patterns'[j], tally'[j])
  BY <1>1, <1>2 DEF SuspicionInv
<1> QED BY <1>3, <1>4, <1>5, <1>6, <1>7 DEF SuspicionInv

LEMMA UpdateKeeps ==
  ASSUME SuspicionInv, NEW d \in Detections, UpdatePattern(d)
  PROVE  SuspicionInv'
<1> DEFINE call == detections[d]
           done == [IdleDetection EXCEPT !.step = "log"]
<1>1. /\ call \in DetectionStates /\ call.row \in DOMAIN patterns
      /\ patterns[call.row] \in PatternStates
      /\ Backed(patterns[call.row], tally[call.row]) /\ Backed(call.entity, tally[call.row])
      /\ call.row \notin settled
  <2>1. call \in DetectionStates /\ SoundDetection(call) /\ call.step = "update"
        /\ call.row \notin settled
    BY DEF SuspicionInv, SuspicionTypeOK, UpdatePattern, Final
  <2>2. call.row \in DOMAIN patterns /\ Backed(call.entity, tally[call.row])
    BY <2>1 DEF SoundDetection
  <2> QED BY <2>1, <2>2 DEF SuspicionInv, SuspicionTypeOK
<1>2. call.entity \in PatternStates /\ call.loaded \in PatternStates
  BY <1>1 DEF DetectionStates
<1>3. done \in DetectionStates /\ done.row = 0 /\ done.step = "log"
  BY IdleTyped DEF DetectionStates, IdleDetection
<1>4. /\ patterns' = [patterns EXCEPT ![call.row] = Saved(call)] /\ Become(d, done)
      /\ UNCHANGED <<baseline, reviews, tally>> /\ Settle
  BY DEF UpdatePattern
<1> HIDE DEF call, done
<1>5. Saved(call) \in PatternStates /\ Backed(Saved(call), tally[call.row])
  BY <1>1, <1>2, SavedSound
<1>6. /\ detections' \in [Detections -> DetectionStates]
      /\ \A e \in Detections : detections'[e] = IF e = d THEN done ELSE detections[e]
  BY <1>3, <1>4 DEF Become, SuspicionInv, SuspicionTypeOK
<1>7. reviews' \in [Reviewers -> ReviewStates] /\ reviews' = reviews
  BY <1>4 DEF SuspicionInv, SuspicionTypeOK
<1> QED BY <1>1, <1>3, <1>4, <1>5, <1>6, <1>7, RowReplaced

(* A decision goes on and nothing else changes. *)
LEMMA ReviewStep ==
  ASSUME SuspicionInv, NEW r \in Reviewers, NEW call \in ReviewStates,
         reviews' = [reviews EXCEPT ![r] = call],
         UNCHANGED <<patterns, baseline, detections, tally>>, Settle, SoundReview(call)
  PROVE  SuspicionInv'
<1> USE DEF SuspicionInv
<1>1. /\ reviews' \in [Reviewers -> ReviewStates]
      /\ \A s \in Reviewers : reviews'[s] = IF s = r THEN call ELSE reviews[s]
  BY DEF SuspicionTypeOK
<1>2. settled' \subseteq DOMAIN patterns' /\ \A i \in settled' : Final(i)'
  BY SettledStays DEF Final
<1>3. SuspicionTypeOK'
  BY <1>1, <1>2 DEF SuspicionTypeOK
<1>4. \A e \in Detections : SoundDetection(detections[e])'
  BY DEF SoundDetection
<1>5. \A s \in Reviewers : SoundReview(reviews[s])'
  BY <1>1 DEF SoundReview
<1> QED BY <1>2, <1>3, <1>4, <1>5

LEMMA DecisionSteps ==
  ASSUME SuspicionInv, NEW r \in Reviewers,
         Decide(r) \/ LoadDecided(r) \/ SaveDecision(r) \/ FailDecision(r)
  PROVE  SuspicionInv'
<1>0. reviews[r] \in ReviewStates /\ SoundReview(reviews[r])
  BY DEF SuspicionInv, SuspicionTypeOK
<1>1. IdleReview \in ReviewStates /\ SoundReview(IdleReview) /\ IdleReview.row = 0
      /\ IdleReview.step = "idle"
  BY IdleTyped DEF SoundReview, IdleReview
<1>2. CASE Decide(r)
  <2>1. PICK i \in DOMAIN patterns, status \in {"reviewed", "cleared", "confirmed_abuse"} :
          reviews' = [reviews EXCEPT ![r] =
            [step |-> "load", row |-> i, entity |-> [patterns[i] EXCEPT !.status = status],
             loaded |-> NoPattern]]
    BY <1>2 DEF Decide
  <2> DEFINE entity == [patterns[i] EXCEPT !.status = status]
             call == [step |-> "load", row |-> i, entity |-> entity, loaded |-> NoPattern]
  <2>2. patterns[i] \in PatternStates /\ Backed(patterns[i], tally[i]) /\ i \in Nat \ {0}
    BY DEF SuspicionInv, SuspicionTypeOK
  <2>3. /\ entity \in PatternStates /\ entity.flagged = patterns[i].flagged
        /\ entity.severity = patterns[i].severity /\ entity.status # "active"
    BY <2>2 DEF PatternStates
  <2> HIDE DEF entity
  <2>4. call \in ReviewStates /\ SoundReview(call)
    <3>1. call \in ReviewStates
      BY <2>2, <2>3, IdleTyped DEF ReviewStates
    <3>2. Backed(entity, tally[i])
      BY <2>2, <2>3 DEF Backed
    <3> QED BY <2>2, <2>3, <3>1, <3>2 DEF SoundReview
  <2>5. reviews' = [reviews EXCEPT ![r] = call]
    BY <2>1 DEF entity
  <2> HIDE DEF call
  <2> QED BY <1>2, <2>4, <2>5, ReviewStep DEF Decide
<1>3. CASE LoadDecided(r)
  <2> DEFINE call == [reviews[r] EXCEPT !.step = "update", !.loaded = patterns[reviews[r].row]]
  <2>1. reviews[r].row # 0 /\ reviews[r].row \in DOMAIN patterns
    BY <1>0, <1>3 DEF LoadDecided, SoundReview
  <2>2. patterns[reviews[r].row] \in PatternStates
    BY <2>1 DEF SuspicionInv, SuspicionTypeOK
  <2>3. /\ call \in ReviewStates /\ call.row = reviews[r].row /\ call.step = "update"
        /\ call.entity = reviews[r].entity
    BY <1>0, <2>2 DEF ReviewStates
  <2>4. SoundReview(call)
    BY <1>0, <2>1, <2>3 DEF SoundReview
  <2>5. reviews' = [reviews EXCEPT ![r] = call]
    BY <1>3 DEF LoadDecided
  <2> HIDE DEF call
  <2> QED BY <1>3, <2>3, <2>4, <2>5, ReviewStep DEF LoadDecided
<1>4. CASE SaveDecision(r)
  <2> DEFINE call == reviews[r]
  <2>1. /\ call.row \in DOMAIN patterns /\ Backed(call.entity, tally[call.row])
        /\ call.entity.status # "active" /\ call.entity \in PatternStates
        /\ call.loaded \in PatternStates
    BY <1>0, <1>4 DEF SaveDecision, SoundReview, ReviewStates
  <2>2. /\ patterns[call.row] \in PatternStates /\ Backed(patterns[call.row], tally[call.row])
        /\ call.row \in settled => patterns[call.row].status # "active"
    BY <2>1 DEF SuspicionInv, SuspicionTypeOK, Final
  <2> HIDE DEF call
  <2>3. /\ Saved(call) \in PatternStates /\ Backed(Saved(call), tally[call.row])
        /\ call.row \in settled => Saved(call).status # "active"
    BY <2>1, <2>2, SavedSound
  <2>4. /\ patterns' = [patterns EXCEPT ![call.row] = Saved(call)]
        /\ reviews' = [reviews EXCEPT ![r] = IdleReview]
        /\ UNCHANGED <<baseline, detections, tally>> /\ Settle
    BY <1>4 DEF SaveDecision, call
  <2>5. /\ reviews' \in [Reviewers -> ReviewStates]
        /\ \A s \in Reviewers : reviews'[s] = IF s = r THEN IdleReview ELSE reviews[s]
    BY <1>1, <2>4 DEF SuspicionInv, SuspicionTypeOK
  <2>6. detections' \in [Detections -> DetectionStates] /\ detections' = detections
    BY <2>4 DEF SuspicionInv, SuspicionTypeOK
  <2> QED BY <1>1, <2>1, <2>3, <2>4, <2>5, <2>6, RowReplaced
<1>5. CASE FailDecision(r)
  BY <1>1, <1>5, ReviewStep DEF FailDecision
<1> QED BY <1>2, <1>3, <1>4, <1>5

(* Deletion changes neither what backs a pattern nor how it was decided. *)
LEMMA ClearKeeps ==
  ASSUME SuspicionInv, ClearOldFlags
  PROVE  SuspicionInv'
<1>1. PICK n \in Nat : patterns \in [1..n -> PatternStates] /\ tally \in [1..n -> TallyStates]
  BY DEF SuspicionInv, SuspicionTypeOK
<1>2. UNCHANGED <<baseline, detections, reviews, tally>> /\ Settle
  BY DEF ClearOldFlags
<1>3. \A i \in 1..n : patterns'[i] = [patterns[i] EXCEPT !.deleted = @ \/ patterns[i].status = "cleared"]
  BY <1>1 DEF ClearOldFlags
<1>4. ASSUME NEW i \in 1..n
      PROVE  /\ patterns'[i] \in PatternStates /\ patterns'[i].flagged = patterns[i].flagged
             /\ patterns'[i].severity = patterns[i].severity /\ patterns'[i].status = patterns[i].status
  <2>1. (patterns[i].deleted \/ patterns[i].status = "cleared") \in BOOLEAN
    OBVIOUS
  <2> QED BY <1>1, <1>3, <2>1 DEF PatternStates
<1>5. patterns' \in [1..n -> PatternStates]
  BY <1>1, <1>4 DEF ClearOldFlags
<1>6. settled' \subseteq DOMAIN patterns' /\ \A i \in settled' : Final(i)'
  <2>1. settled \subseteq 1..n /\ DOMAIN patterns \subseteq DOMAIN patterns'
    BY <1>1, <1>5 DEF SuspicionInv, SuspicionTypeOK
  <2>2. \A i \in settled : /\ patterns'[i].status # "active"
                           /\ \A e \in Detections : detections'[e].row # i
    BY <1>2, <1>4, <2>1 DEF SuspicionInv, Final
  <2> QED BY <1>2, <2>1, <2>2, SettledStays
<1>7. SuspicionTypeOK'
  BY <1>1, <1>2, <1>5, <1>6 DEF SuspicionInv, SuspicionTypeOK
<1>8. /\ \A e \in Detections : SoundDetection(detections[e])'
      /\ \A r \in Reviewers : SoundReview(reviews[r])'
  BY <1>1, <1>2, <1>5 DEF SuspicionInv, SoundDetection, SoundReview
<1>9. \A i \in DOMAIN patterns' : Backed(patterns'[i], tally'[i])
  BY <1>1, <1>2, <1>4, <1>5 DEF SuspicionInv, Backed
<1> QED BY <1>6, <1>7, <1>8, <1>9 DEF SuspicionInv

LEMMA BaselineKeeps ==
  ASSUME SuspicionInv, UpdateBaseline
  PROVE  SuspicionInv'
<1>1. UNCHANGED <<patterns, detections, reviews, tally>> /\ Settle
      /\ baseline' \in Baselines \cup {NoBaseline}
  BY DEF UpdateBaseline, SuspicionInv, SuspicionTypeOK
<1>2. settled' \subseteq DOMAIN patterns' /\ \A i \in settled' : Final(i)'
  BY <1>1, SettledStays DEF SuspicionInv, Final
<1> QED BY <1>1, <1>2 DEF SuspicionInv, SuspicionTypeOK, SoundDetection, SoundReview

LEMMA NothingFlaggedYet == SuspicionInit => SuspicionInv
<1> SUFFICES ASSUME SuspicionInit PROVE SuspicionInv
  OBVIOUS
<1>1. patterns \in [1..0 -> PatternStates] /\ tally \in [1..0 -> TallyStates] /\ DOMAIN patterns = {}
  BY DEF SuspicionInit
<1>2. /\ detections \in [Detections -> DetectionStates] /\ reviews \in [Reviewers -> ReviewStates]
      /\ \A d \in Detections : detections[d] = IdleDetection
      /\ \A r \in Reviewers : reviews[r] = IdleReview
  BY IdleTyped DEF SuspicionInit
<1>3. SoundDetection(IdleDetection) /\ SoundReview(IdleReview)
  BY DEF SoundDetection, SoundReview, IdleDetection, IdleReview
<1>4. SuspicionTypeOK
  BY <1>1, <1>2 DEF SuspicionInit, SuspicionTypeOK
<1> QED BY <1>1, <1>2, <1>3, <1>4 DEF SuspicionInit, SuspicionInv

LEMMA SuspicionKept == SuspicionInv /\ [SuspicionNext]_suspicionVars => SuspicionInv'
<1> SUFFICES ASSUME SuspicionInv, [SuspicionNext]_suspicionVars PROVE SuspicionInv'
  OBVIOUS
<1>1. ASSUME NEW d \in Detections,
             \/ ProcessTransaction(d) \/ DetectAbnormalGasUsage(d) \/ DetectFrequencyAnomaly(d)
             \/ FindActivePattern(d) \/ InsertPattern(d) \/ LoadPattern(d) \/ UpdatePattern(d)
             \/ LogDetection(d) \/ FailDetection(d)
      PROVE  SuspicionInv'
  BY <1>1, DetectorSteps, FindKeeps, InsertKeeps, UpdateKeeps
<1>2. ASSUME NEW r \in Reviewers,
             Decide(r) \/ LoadDecided(r) \/ SaveDecision(r) \/ FailDecision(r)
      PROVE  SuspicionInv'
  BY <1>2, DecisionSteps
<1>3. CASE ClearOldFlags \/ UpdateBaseline
  BY <1>3, ClearKeeps, BaselineKeeps
<1>4. CASE UNCHANGED suspicionVars
  BY <1>4 DEF suspicionVars, SuspicionInv, SuspicionTypeOK, SoundDetection, SoundReview, Final
<1> QED BY <1>1, <1>2, <1>3, <1>4 DEF SuspicionNext

(* Patterns, baselines and what the calls hold of them keep their types. *)
THEOREM SuspicionTypeCorrect == SuspicionSpec => []SuspicionTypeOK
<1>1. SuspicionInv => SuspicionTypeOK
  BY DEF SuspicionInv
<1> QED BY <1>1, NothingFlaggedYet, SuspicionKept, PTL DEF SuspicionSpec

(* However detections and reviews overlap, fail and save over one another: a pattern   *)
(* counts no more detections and no other severities than it had, and a decision that   *)
(* has settled stands.                                                                   *)
THEOREM PatternsAreBackedHolds == SuspicionSpec => []PatternsAreBacked
<1>1. SuspicionInv => PatternsAreBacked
  BY DEF SuspicionInv, Backed, Final, SuspicionTypeOK, PatternsAreBacked
<1> QED BY <1>1, NothingFlaggedYet, SuspicionKept, PTL DEF SuspicionSpec

-----------------------------------------------------------------------------
(* SorobanAnalyzer and SorobanRuleEngine *)

(* What the checks of the analyzer report carries their own ids. *)
LEMMA AnalyzerRules ==
  ASSUME NEW c
  PROVE  /\ \A v \in CheckExpensiveOperations(c) :
              v.rule \in {"expensive-string-operation", "vec-without-capacity", "unnecessary-clone"}
         /\ \A v \in CheckParameterValidation(c) : v.rule = "missing-address-validation"
         /\ \A v \in CheckReturnValues(c) : v.rule = "missing-error-handling"
         /\ \A v \in CheckUnboundedLoops(c) : v.rule = "unbounded-loop"
         /\ \A v \in CheckStoragePatterns(c) : v.rule = "inefficient-storage-access"
         /\ \A v \in AnalyzeContractStructure(c) :
              v.rule \in {"missing-constructor", "missing-admin-pattern"}
         /\ \A v \in AnalyzeContractType(c) :
              v.rule \in {"unused-state-variable", "inefficient-integer-type", "string-instead-of-symbol", "private-contract-field"}
<1>1. \A v \in CheckExpensiveOperations(c) :
       v.rule \in {"expensive-string-operation", "vec-without-capacity", "unnecessary-clone"}
  BY DEF CheckExpensiveOperations, OnFunctions, OnFields, OnContract, Finding
<1>2. \A v \in CheckParameterValidation(c) : v.rule = "missing-address-validation"
  BY DEF CheckParameterValidation, OnFunctions, OnFields, OnContract, Finding
<1>3. \A v \in CheckReturnValues(c) : v.rule = "missing-error-handling"
  BY DEF CheckReturnValues, OnFunctions, OnFields, OnContract, Finding
<1>4. \A v \in CheckUnboundedLoops(c) : v.rule = "unbounded-loop"
  <2> DEFINE I == {j \in DOMAIN c.functions :
                     Has(c.functions[j], {"for ", "while "}) /\ ~Has(c.functions[j], {".len()", "range("})}
  <2>1. CheckUnboundedLoops(c) = {Finding("unbounded-loop", "High", "function", i) : i \in I}
    BY DEF CheckUnboundedLoops, OnFunctions
  <2> HIDE DEF I
  <2> QED BY <2>1 DEF Finding
<1>5. \A v \in CheckStoragePatterns(c) : v.rule = "inefficient-storage-access"
  BY DEF CheckStoragePatterns, OnFunctions, OnFields, OnContract, Finding
<1>6. \A v \in AnalyzeContractStructure(c) :
       v.rule \in {"missing-constructor", "missing-admin-pattern"}
  BY DEF AnalyzeContractStructure, OnFunctions, OnFields, OnContract, Finding
<1>7. \A v \in AnalyzeContractType(c) :
       v.rule \in {"unused-state-variable", "inefficient-integer-type", "string-instead-of-symbol", "private-contract-field"}
  BY DEF AnalyzeContractType, OnFunctions, OnFields, OnContract, Finding
<1> QED BY <1>1, <1>2, <1>3, <1>4, <1>5, <1>6, <1>7

(* So does what the rules of the engine report. *)
LEMMA EngineRules ==
  ASSUME NEW c
  PROVE  /\ \A v \in UnusedStateVariablesRule(c) : v.rule = "soroban-unused-state-variables"
         /\ \A v \in InefficientStorageAccessRule(c) : v.rule = "soroban-inefficient-storage"
         /\ \A v \in UnboundedLoopRule(c) : v.rule = "soroban-unbounded-loop"
         /\ \A v \in ExpensiveStringOperationsRule(c) : v.rule = "soroban-expensive-strings"
         /\ \A v \in MissingConstructorRule(c) : v.rule = "soroban-missing-constructor"
         /\ \A v \in AdminPatternRule(c) : v.rule = "soroban-admin-pattern"
         /\ \A v \in InefficientIntegerTypesRule(c) : v.rule = "soroban-inefficient-integers"
         /\ \A v \in MissingErrorHandlingRule(c) : v.rule = "soroban-missing-error-handling"
         /\ \A v \in EmergencyWithdrawalRule(c) : v.rule = "soroban-emergency-withdrawal"
         /\ \A v \in GovernanceVotingRule(c) : v.rule = "soroban-governance-voting"
         /\ \A v \in ClaimExpirationRule(c) : v.rule = "soroban-claim-expiration"
         /\ \A v \in AntiFrontRunningRule(c) : v.rule = "soroban-anti-front-running"
         /\ \A v \in SecureRandomnessRule(c) : v.rule = "soroban-secure-randomness"
         /\ \A v \in UpgradeVersionTrackingRule(c) :
              v.rule = "soroban-upgrade-version-tracking"
<1>1. \A v \in UnusedStateVariablesRule(c) : v.rule = "soroban-unused-state-variables"
  BY DEF UnusedStateVariablesRule, OnFunctions, OnFields, OnContract, Finding
<1>2. \A v \in InefficientStorageAccessRule(c) : v.rule = "soroban-inefficient-storage"
  BY DEF InefficientStorageAccessRule, OnFunctions, OnFields, OnContract, Finding
<1>3. \A v \in UnboundedLoopRule(c) : v.rule = "soroban-unbounded-loop"
  <2> DEFINE I == {j \in DOMAIN c.functions :
                     Has(c.functions[j], {"loop {", "while ", "for "}) /\ ~Has(c.functions[j], {".len()", "range(", ".."})}
  <2>1. UnboundedLoopRule(c) = {Finding("soroban-unbounded-loop", "High", "function", i) : i \in I}
    BY DEF UnboundedLoopRule, OnFunctions
  <2> HIDE DEF I
  <2> QED BY <2>1 DEF Finding
<1>4. \A v \in ExpensiveStringOperationsRule(c) : v.rule = "soroban-expensive-strings"
  BY DEF ExpensiveStringOperationsRule, OnFunctions, OnFields, OnContract, Finding
<1>5. \A v \in MissingConstructorRule(c) : v.rule = "soroban-missing-constructor"
  BY DEF MissingConstructorRule, OnFunctions, OnFields, OnContract, Finding
<1>6. \A v \in AdminPatternRule(c) : v.rule = "soroban-admin-pattern"
  BY DEF AdminPatternRule, OnFunctions, OnFields, OnContract, Finding
<1>7. \A v \in InefficientIntegerTypesRule(c) : v.rule = "soroban-inefficient-integers"
  BY DEF InefficientIntegerTypesRule, OnFunctions, OnFields, OnContract, Finding
<1>8. \A v \in MissingErrorHandlingRule(c) : v.rule = "soroban-missing-error-handling"
  BY DEF MissingErrorHandlingRule, OnFunctions, OnFields, OnContract, Finding
<1>9. \A v \in EmergencyWithdrawalRule(c) : v.rule = "soroban-emergency-withdrawal"
  BY DEF EmergencyWithdrawalRule, OnFunctions, OnFields, OnContract, Finding
<1>10. \A v \in GovernanceVotingRule(c) : v.rule = "soroban-governance-voting"
  BY DEF GovernanceVotingRule, OnFunctions, OnFields, OnContract, Finding
<1>11. \A v \in ClaimExpirationRule(c) : v.rule = "soroban-claim-expiration"
  BY DEF ClaimExpirationRule, OnFunctions, OnFields, OnContract, Finding
<1>12. \A v \in AntiFrontRunningRule(c) : v.rule = "soroban-anti-front-running"
  BY DEF AntiFrontRunningRule, OnFunctions, OnFields, OnContract, Finding
<1>13. \A v \in SecureRandomnessRule(c) : v.rule = "soroban-secure-randomness"
  BY DEF SecureRandomnessRule, OnFunctions, OnFields, OnContract, Finding
<1>14. \A v \in UpgradeVersionTrackingRule(c) :
       v.rule = "soroban-upgrade-version-tracking"
  BY DEF UpgradeVersionTrackingRule, OnFunctions, OnFields, OnContract, Finding
<1> QED BY <1>1, <1>2, <1>3, <1>4, <1>5, <1>6, <1>7, <1>8, <1>9, <1>10, <1>11, <1>12, <1>13, <1>14

LEMMA PlacesOf ==
  ASSUME NEW rule, NEW severity, NEW kind, NEW I
  PROVE  {<<v.kind, v.which>> : v \in {Finding(rule, severity, kind, i) : i \in I}}
           = {<<kind, i>> : i \in I}
<1> DEFINE F == {Finding(rule, severity, kind, i) : i \in I}
<1>1. \A i : Finding(rule, severity, kind, i).kind = kind /\ Finding(rule, severity, kind, i).which = i
  BY DEF Finding
<1>2. \A p : (\E v \in F : p = <<v.kind, v.which>>) <=> (\E i \in I : p = <<kind, i>>)
  BY <1>1
<1> HIDE DEF F
<1>3. {<<v.kind, v.which>> : v \in F} = {<<kind, i>> : i \in I}
  BY <1>2
<1> QED BY <1>3 DEF F

(* Where the analyzer finds what a rule of the engine looks for too. *)
LEMMA AnalyzerPlaces ==
  ASSUME NEW c
  PROVE  /\ Places(AnalyzeContract(c), "unused-state-variable")
              = {<<"field", i>> : i \in {j \in DOMAIN c.fields : Unused(c.fields[j])}}
         /\ Places(AnalyzeContract(c), "inefficient-integer-type")
              = {<<"field", i>> : i \in {j \in DOMAIN c.fields : Wide(c.fields[j])}}
         /\ Places(AnalyzeContract(c), "missing-constructor")
              = IF ~HasConstructor(c) THEN {<<"contract", 0>>} ELSE {}
         /\ Places(AnalyzeContract(c), "missing-admin-pattern")
              = IF ~HasAdmin(c) THEN {<<"contract", 0>>} ELSE {}
         /\ Places(AnalyzeContract(c), "expensive-string-operation")
              = {<<"function", i>> : i \in {j \in DOMAIN c.functions :
                   Has(c.functions[j], {".to_string()", "String::from("})}}
         /\ Places(AnalyzeContract(c), "missing-error-handling")
              = {<<"function", i>> : i \in {j \in DOMAIN c.functions :
                   Named(c.functions[j], {"transfer", "mint", "burn"}) /\ ~c.functions[j].result}}
<1>1. Places(AnalyzeContract(c), "unused-state-variable")
       = {<<"field", i>> : i \in {j \in DOMAIN c.fields : Unused(c.fields[j])}}
  <2>1. {v \in AnalyzeContract(c) : v.rule = "unused-state-variable"}
          = {Finding("unused-state-variable", "Warning", "field", i) :
               i \in {j \in DOMAIN c.fields : Unused(c.fields[j])}}
    BY AnalyzerRules DEF AnalyzeContract, AnalyzeContractType, OnFields, Finding
  <2> DEFINE I == {j \in DOMAIN c.fields : Unused(c.fields[j])}
  <2> HIDE DEF I
  <2>2. {<<v.kind, v.which>> : v \in {Finding("unused-state-variable", "Warning", "field", i) : i \in I}}
          = {<<"field", i>> : i \in I}
    BY PlacesOf
  <2> QED BY <2>1, <2>2, Zenon DEF Places, I
<1>2. Places(AnalyzeContract(c), "inefficient-integer-type")
       = {<<"field", i>> : i \in {j \in DOMAIN c.fields : Wide(c.fields[j])}}
  <2>1. {v \in AnalyzeContract(c) : v.rule = "inefficient-integer-type"}
          = {Finding("inefficient-integer-type", "Info", "field", i) :
               i \in {j \in DOMAIN c.fields : Wide(c.fields[j])}}
    BY AnalyzerRules DEF AnalyzeContract, AnalyzeContractType, OnFields, Finding
  <2> DEFINE I == {j \in DOMAIN c.fields : Wide(c.fields[j])}
  <2> HIDE DEF I
  <2>2. {<<v.kind, v.which>> : v \in {Finding("inefficient-integer-type", "Info", "field", i) : i \in I}}
          = {<<"field", i>> : i \in I}
    BY PlacesOf
  <2> QED BY <2>1, <2>2, Zenon DEF Places, I
<1>3. Places(AnalyzeContract(c), "missing-constructor")
       = IF ~HasConstructor(c) THEN {<<"contract", 0>>} ELSE {}
  <2>1. {v \in AnalyzeContract(c) : v.rule = "missing-constructor"}
          = IF ~HasConstructor(c) THEN {Finding("missing-constructor", "Warning", "contract", 0)} ELSE {}
    BY AnalyzerRules DEF AnalyzeContract, AnalyzeContractStructure, OnContract, Finding
  <2>2. {<<v.kind, v.which>> : v \in {Finding("missing-constructor", "Warning", "contract", 0)}} = {<<"contract", 0>>}
    BY DEF Finding
  <2>3. {<<v.kind, v.which>> : v \in {}} = {}
    OBVIOUS
  <2> QED BY <2>1, <2>2, <2>3, Zenon DEF Places
<1>4. Places(AnalyzeContract(c), "missing-admin-pattern")
       = IF ~HasAdmin(c) THEN {<<"contract", 0>>} ELSE {}
  <2>1. {v \in AnalyzeContract(c) : v.rule = "missing-admin-pattern"}
          = IF ~HasAdmin(c) THEN {Finding("missing-admin-pattern", "Info", "contract", 0)} ELSE {}
    BY AnalyzerRules DEF AnalyzeContract, AnalyzeContractStructure, OnContract, Finding
  <2>2. {<<v.kind, v.which>> : v \in {Finding("missing-admin-pattern", "Info", "contract", 0)}} = {<<"contract", 0>>}
    BY DEF Finding
  <2>3. {<<v.kind, v.which>> : v \in {}} = {}
    OBVIOUS
  <2> QED BY <2>1, <2>2, <2>3, Zenon DEF Places
<1>5. Places(AnalyzeContract(c), "expensive-string-operation")
       = {<<"function", i>> : i \in {j \in DOMAIN c.functions :
            Has(c.functions[j], {".to_string()", "String::from("})}}
  <2>1. {v \in AnalyzeContract(c) : v.rule = "expensive-string-operation"}
          = {Finding("expensive-string-operation", "Medium", "function", i) :
               i \in {j \in DOMAIN c.functions : Has(c.functions[j], {".to_string()", "String::from("})}}
    BY AnalyzerRules DEF AnalyzeContract, CheckExpensiveOperations, OnFunctions, Finding
  <2> DEFINE I == {j \in DOMAIN c.functions : Has(c.functions[j], {".to_string()", "String::from("})}
  <2> HIDE DEF I
  <2>2. {<<v.kind, v.which>> : v \in {Finding("expensive-string-operation", "Medium", "function", i) : i \in I}}
          = {<<"function", i>> : i \in I}
    BY PlacesOf
  <2> QED BY <2>1, <2>2, Zenon DEF Places, I
<1>6. Places(AnalyzeContract(c), "missing-error-handling")
       = {<<"function", i>> : i \in {j \in DOMAIN c.functions :
            Named(c.functions[j], {"transfer", "mint", "burn"}) /\ ~c.functions[j].result}}
  <2>1. {v \in AnalyzeContract(c) : v.rule = "missing-error-handling"}
          = {Finding("missing-error-handling", "Medium", "function", i) :
               i \in {j \in DOMAIN c.functions : Named(c.functions[j], {"transfer", "mint", "burn"}) /\ ~c.functions[j].result}}
    BY AnalyzerRules DEF AnalyzeContract, CheckReturnValues, OnFunctions, Finding
  <2> DEFINE I == {j \in DOMAIN c.functions : Named(c.functions[j], {"transfer", "mint", "burn"}) /\ ~c.functions[j].result}
  <2> HIDE DEF I
  <2>2. {<<v.kind, v.which>> : v \in {Finding("missing-error-handling", "Medium", "function", i) : i \in I}}
          = {<<"function", i>> : i \in I}
    BY PlacesOf
  <2> QED BY <2>1, <2>2, Zenon DEF Places, I
<1> QED BY <1>1, <1>2, <1>3, <1>4, <1>5, <1>6

(* Where those rules find it. *)
LEMMA EnginePlaces ==
  ASSUME NEW c
  PROVE  /\ Places(DefaultRules(c), "soroban-unused-state-variables")
              = {<<"field", i>> : i \in {j \in DOMAIN c.fields : Unused(c.fields[j])}}
         /\ Places(DefaultRules(c), "soroban-inefficient-integers")
              = {<<"field", i>> : i \in {j \in DOMAIN c.fields : Wide(c.fields[j])}}
         /\ Places(DefaultRules(c), "soroban-missing-constructor")
              = IF ~HasConstructor(c) THEN {<<"contract", 0>>} ELSE {}
         /\ Places(DefaultRules(c), "soroban-admin-pattern")
              = IF ~HasAdmin(c) THEN {<<"contract", 0>>} ELSE {}
         /\ Places(DefaultRules(c), "soroban-expensive-strings")
              = {<<"function", i>> : i \in {j \in DOMAIN c.functions :
                   Has(c.functions[j], {".to_string()", "String::from(", "format!("})}}
         /\ Places(DefaultRules(c), "soroban-missing-error-handling")
              = {<<"function", i>> : i \in {j \in DOMAIN c.functions :
                   Named(c.functions[j], {"transfer", "mint", "burn", "set"}) /\ ~c.functions[j].result}}
<1>1. Places(DefaultRules(c), "soroban-unused-state-variables")
       = {<<"field", i>> : i \in {j \in DOMAIN c.fields : Unused(c.fields[j])}}
  <2>1. {v \in DefaultRules(c) : v.rule = "soroban-unused-state-variables"}
          = {Finding("soroban-unused-state-variables", "Warning", "field", i) :
               i \in {j \in DOMAIN c.fields : Unused(c.fields[j])}}
    BY EngineRules DEF DefaultRules, UnusedStateVariablesRule, OnFields, Finding
  <2> DEFINE I == {j \in DOMAIN c.fields : Unused(c.fields[j])}
  <2> HIDE DEF I
  <2>2. {<<v.kind, v.which>> : v \in {Finding("soroban-unused-state-variables", "Warning", "field", i) : i \in I}}
          = {<<"field", i>> : i \in I}
    BY PlacesOf
  <2> QED BY <2>1, <2>2, Zenon DEF Places, I
<1>2. Places(DefaultRules(c), "soroban-inefficient-integers")
       = {<<"field", i>> : i \in {j \in DOMAIN c.fields : Wide(c.fields[j])}}
  <2>1. {v \in DefaultRules(c) : v.rule = "soroban-inefficient-integers"}
          = {Finding("soroban-inefficient-integers", "Info", "field", i) :
               i \in {j \in DOMAIN c.fields : Wide(c.fields[j])}}
    BY EngineRules DEF DefaultRules, InefficientIntegerTypesRule, OnFields, Finding
  <2> DEFINE I == {j \in DOMAIN c.fields : Wide(c.fields[j])}
  <2> HIDE DEF I
  <2>2. {<<v.kind, v.which>> : v \in {Finding("soroban-inefficient-integers", "Info", "field", i) : i \in I}}
          = {<<"field", i>> : i \in I}
    BY PlacesOf
  <2> QED BY <2>1, <2>2, Zenon DEF Places, I
<1>3. Places(DefaultRules(c), "soroban-missing-constructor")
       = IF ~HasConstructor(c) THEN {<<"contract", 0>>} ELSE {}
  <2>1. {v \in DefaultRules(c) : v.rule = "soroban-missing-constructor"}
          = IF ~HasConstructor(c) THEN {Finding("soroban-missing-constructor", "Warning", "contract", 0)} ELSE {}
    BY EngineRules DEF DefaultRules, MissingConstructorRule, OnContract, Finding
  <2>2. {<<v.kind, v.which>> : v \in {Finding("soroban-missing-constructor", "Warning", "contract", 0)}} = {<<"contract", 0>>}
    BY DEF Finding
  <2>3. {<<v.kind, v.which>> : v \in {}} = {}
    OBVIOUS
  <2> QED BY <2>1, <2>2, <2>3, Zenon DEF Places
<1>4. Places(DefaultRules(c), "soroban-admin-pattern")
       = IF ~HasAdmin(c) THEN {<<"contract", 0>>} ELSE {}
  <2>1. {v \in DefaultRules(c) : v.rule = "soroban-admin-pattern"}
          = IF ~HasAdmin(c) THEN {Finding("soroban-admin-pattern", "Info", "contract", 0)} ELSE {}
    BY EngineRules DEF DefaultRules, AdminPatternRule, OnContract, Finding
  <2>2. {<<v.kind, v.which>> : v \in {Finding("soroban-admin-pattern", "Info", "contract", 0)}} = {<<"contract", 0>>}
    BY DEF Finding
  <2>3. {<<v.kind, v.which>> : v \in {}} = {}
    OBVIOUS
  <2> QED BY <2>1, <2>2, <2>3, Zenon DEF Places
<1>5. Places(DefaultRules(c), "soroban-expensive-strings")
       = {<<"function", i>> : i \in {j \in DOMAIN c.functions :
            Has(c.functions[j], {".to_string()", "String::from(", "format!("})}}
  <2>1. {v \in DefaultRules(c) : v.rule = "soroban-expensive-strings"}
          = {Finding("soroban-expensive-strings", "Medium", "function", i) :
               i \in {j \in DOMAIN c.functions : Has(c.functions[j], {".to_string()", "String::from(", "format!("})}}
    BY EngineRules DEF DefaultRules, ExpensiveStringOperationsRule, OnFunctions, Finding
  <2> DEFINE I == {j \in DOMAIN c.functions : Has(c.functions[j], {".to_string()", "String::from(", "format!("})}
  <2> HIDE DEF I
  <2>2. {<<v.kind, v.which>> : v \in {Finding("soroban-expensive-strings", "Medium", "function", i) : i \in I}}
          = {<<"function", i>> : i \in I}
    BY PlacesOf
  <2> QED BY <2>1, <2>2, Zenon DEF Places, I
<1>6. Places(DefaultRules(c), "soroban-missing-error-handling")
       = {<<"function", i>> : i \in {j \in DOMAIN c.functions :
            Named(c.functions[j], {"transfer", "mint", "burn", "set"}) /\ ~c.functions[j].result}}
  <2>1. {v \in DefaultRules(c) : v.rule = "soroban-missing-error-handling"}
          = {Finding("soroban-missing-error-handling", "Medium", "function", i) :
               i \in {j \in DOMAIN c.functions : Named(c.functions[j], {"transfer", "mint", "burn", "set"}) /\ ~c.functions[j].result}}
    BY EngineRules DEF DefaultRules, MissingErrorHandlingRule, OnFunctions, Finding
  <2> DEFINE I == {j \in DOMAIN c.functions : Named(c.functions[j], {"transfer", "mint", "burn", "set"}) /\ ~c.functions[j].result}
  <2> HIDE DEF I
  <2>2. {<<v.kind, v.which>> : v \in {Finding("soroban-missing-error-handling", "Medium", "function", i) : i \in I}}
          = {<<"function", i>> : i \in I}
    BY PlacesOf
  <2> QED BY <2>1, <2>2, Zenon DEF Places, I
<1> QED BY <1>1, <1>2, <1>3, <1>4, <1>5, <1>6

LEMMA TwinsOf == TwinsAgree
<1> DEFINE a == AnalyzeContract(contract)
           e == DefaultRules(contract)
<1>1. /\ Places(a, "unused-state-variable") = Places(e, "soroban-unused-state-variables")
      /\ Places(a, "inefficient-integer-type") = Places(e, "soroban-inefficient-integers")
      /\ Places(a, "missing-constructor") = Places(e, "soroban-missing-constructor")
      /\ Places(a, "missing-admin-pattern") = Places(e, "soroban-admin-pattern")
  BY AnalyzerPlaces, EnginePlaces, Zenon
<1>2. Places(a, "expensive-string-operation") \subseteq Places(e, "soroban-expensive-strings")
  BY AnalyzerPlaces, EnginePlaces DEF Has
<1>3. Places(a, "missing-error-handling") \subseteq Places(e, "soroban-missing-error-handling")
  BY AnalyzerPlaces, EnginePlaces DEF Named
<1> HIDE DEF a, e
<1>4. \A p \in SameAs : Places(a, p[1]) = Places(e, p[2])
  BY <1>1 DEF SameAs
<1>5. \A p \in Narrower : Places(a, p[1]) \subseteq Places(e, p[2])
  BY <1>2, <1>3 DEF Narrower
<1> QED BY <1>4, <1>5 DEF TwinsAgree, a, e

(* Whatever contract is analysed and whichever rules have been switched off and on, the  *)
(* four checks that SorobanAnalyzer and the engine have twice report the same places, and *)
(* two of the analyzer's report no place that the engine's do not (analyze_contract,     *)
(* default_rules).                                                                        *)
THEOREM TwinsAlwaysAgree == RulesSpec => []TwinsAgree
BY TwinsOf, PTL

-----------------------------------------------------------------------------
(* AnalyzerRegistry *)

(* Every registered analyzer is in the array of each of its languages. *)
Found == \A a \in analyzers : \A l \in AnalyzerLanguages[a] : a \in ToSet(languageMap[l])

RemovalStates ==
  [step : {"idle"}, of : {{}}] \cup [step : {"unregister"}, of : {{a} : a \in Analyzers}]
    \cup [step : {"disposeAll"}, of : SUBSET Analyzers]

(* Without overlapping removals the arrays hold what is registered, once, and whatever is  *)
(* being removed is still there, of one removal only.                                     *)
Orderly ==
  /\ \A l \in Languages :
       ToSet(languageMap[l]) \subseteq analyzers /\ IsInjective(languageMap[l])
  /\ \A r \in Removers : removals[r].step = "unregister" => removals[r].of \subseteq analyzers
  /\ \A r, s \in Removers : r # s =>
       /\ removals[r].of \cap removals[s].of = {}
       /\ removals[r].step = "disposeAll" => removals[s].step = "idle"

(* What an analysis has yet to run is ahead in the array it goes through, which changes  *)
(* with the registry as long as it is the registry's own.                                *)
Ahead == {analysis.list[i] : i \in analysis.next..Len(analysis.list)}

AnalysisStates ==
  [step : {"idle", "language", "analyzer", "done"}, todo : SUBSET Languages,
   language : Languages \cup {"none"}, list : Seq(Analyzers), lives : BOOLEAN,
   next : Nat \ {0}, due : SUBSET Analyzers, ran : SUBSET Analyzers, removed : BOOLEAN]

AnalysisOK ==
  /\ analysis \in AnalysisStates
  /\ analysis.lives => /\ analysis.language \in Languages
                       /\ analysis.list = languageMap[analysis.language]
  /\ ~analysis.removed =>
       /\ analysis.step \in {"language", "done"} => analysis.due \subseteq analysis.ran
       /\ analysis.step = "analyzer" => analysis.due \subseteq analysis.ran \cup Ahead

RegistersOK ==
  /\ analyzers \subseteq Analyzers
  /\ \A a, b \in analyzers : AnalyzerName[a] = AnalyzerName[b] => a = b
  /\ languageMap \in [Languages -> Seq(Analyzers)]
  /\ \A l \in Languages : \A a \in ToSet(languageMap[l]) : l \in AnalyzerLanguages[a]
  /\ removals \in [Removers -> RemovalStates]
  /\ racing \in BOOLEAN
  /\ Found
  /\ ~racing => Orderly

RegistryInv == RegistersOK /\ AnalysisOK

LEMMA RemoveFirstIs ==
  ASSUME NEW S, NEW s \in Seq(S), NEW e
  PROVE  /\ RemoveFirst(s, e) \in Seq(S)
         /\ ToSet(RemoveFirst(s, e)) \subseteq ToSet(s)
         /\ \A x \in ToSet(s) : x # e => x \in ToSet(RemoveFirst(s, e))
         /\ IsInjective(s) =>
              IsInjective(RemoveFirst(s, e)) /\ e \notin ToSet(RemoveFirst(s, e))
<1> DEFINE I == {i \in 1..Len(s) : s[i] = e}
           n == CHOOSE x \in I : \A y \in I : x <= y
<1>1. CASE ~\E i \in 1..Len(s) : s[i] = e
  <2>1. RemoveFirst(s, e) = s
    BY <1>1 DEF RemoveFirst
  <2>2. e \notin ToSet(s)
    BY <1>1 DEF ToSet
  <2> QED BY <2>1, <2>2
<1>2. CASE \E i \in 1..Len(s) : s[i] = e
  <2>1. I \subseteq Nat /\ I # {}
    BY <1>2
  <2>2. n \in I
    <3> HIDE DEF I
    <3>1. \E x \in I : \A y \in I : x <= y
      BY <2>1, LeastNumber
    <3> QED BY <3>1
  <2>3. RemoveFirst(s, e) = RemoveAt(s, n)
    BY <1>2, <2>1 DEF RemoveFirst, SelectInSeq, Min
  <2> DEFINE t == RemoveAt(s, n)
             m == Len(s)
  <2>4. n \in 1..m /\ s[n] = e /\ m \in Nat
    BY <2>2
  <2> HIDE DEF n
  <2>5. /\ t \in Seq(S) /\ Len(t) = m - 1
        /\ \A i \in 1..(m - 1) : t[i] = IF i < n THEN s[i] ELSE s[i + 1]
    <3> DEFINE p == SubSeq(s, 1, n - 1)
               q == SubSeq(s, n + 1, m)
    <3>1. /\ p \in Seq(S) /\ Len(p) = n - 1 /\ \A i \in 1..(n - 1) : p[i] = s[i]
      BY <2>4, SubSeqProperties
    <3>2. /\ q \in Seq(S) /\ Len(q) = m - n /\ \A i \in 1..(m - n) : q[i] = s[n + i]
      BY <2>4, SubSeqProperties
    <3>3. t = p \o q
      BY DEF RemoveAt
    <3> HIDE DEF p, q, t, m
    <3>4. /\ t \in Seq(S) /\ Len(t) = Len(p) + Len(q)
          /\ \A i \in 1..(Len(p) + Len(q)) :
               t[i] = IF i <= Len(p) THEN p[i] ELSE q[i - Len(p)]
      BY <3>1, <3>2, <3>3, ConcatProperties
    <3>5. ASSUME NEW i \in 1..(m - 1) PROVE t[i] = IF i < n THEN s[i] ELSE s[i + 1]
      <4>1. CASE i < n
        BY <2>4, <3>1, <3>2, <3>4, <4>1
      <4>2. CASE ~(i < n)
        <5>1. i - (n - 1) \in 1..(m - n) /\ ~(i <= n - 1) /\ i \in 1..(Len(p) + Len(q))
          BY <2>4, <3>1, <3>2, <4>2
        <5>2. t[i] = q[i - (n - 1)]
          BY <3>1, <3>4, <5>1
        <5>3. q[i - (n - 1)] = s[n + (i - (n - 1))] /\ n + (i - (n - 1)) = i + 1
          BY <2>4, <3>2, <5>1
        <5> QED BY <4>2, <5>2, <5>3
      <4> QED BY <4>1, <4>2
    <3> QED BY <2>4, <3>1, <3>2, <3>4, <3>5
  <2> HIDE DEF t
  <2>6. DOMAIN s = 1..m /\ DOMAIN t = 1..(m - 1)
    BY <2>4, <2>5
  <2>7. ToSet(t) \subseteq ToSet(s)
    BY <2>4, <2>5, <2>6, SMTT(30) DEF ToSet
  <2>8. ASSUME NEW x \in ToSet(s), x # e PROVE x \in ToSet(t)
    <3>1. PICK i \in 1..m : s[i] = x
      BY <2>6 DEF ToSet
    <3>2. i # n
      BY <2>4, <2>8, <3>1
    <3>3. CASE i < n
      BY <2>4, <2>5, <2>6, <3>1, <3>3 DEF ToSet
    <3>4. CASE i > n
      <4>1. i - 1 \in 1..(m - 1) /\ ~(i - 1 < n) /\ (i - 1) + 1 = i
        BY <2>4, <3>4
      <4>2. t[i - 1] = x
        BY <2>5, <3>1, <4>1
      <4> QED BY <2>6, <4>1, <4>2 DEF ToSet
    <3> QED BY <2>4, <3>2, <3>3, <3>4
  <2>9. ASSUME IsInjective(s) PROVE IsInjective(t) /\ e \notin ToSet(t)
    <3> HIDE DEF m
    <3>1. \A i, j \in 1..m : s[i] = s[j] => i = j
      BY <2>6, <2>9 DEF IsInjective
    <3>2. ASSUME NEW i \in 1..(m - 1), NEW j \in 1..(m - 1), t[i] = t[j] PROVE i = j
      <4>1. i + 1 \in 1..m /\ j + 1 \in 1..m /\ i \in 1..m /\ j \in 1..m
        BY <2>4
      <4> QED BY <2>4, <2>5, <3>1, <3>2, <4>1
    <3>3. ASSUME NEW i \in 1..(m - 1) PROVE t[i] # e
      <4>1. i + 1 \in 1..m /\ i \in 1..m
        BY <2>4
      <4> QED BY <2>4, <2>5, <3>1, <4>1
    <3> QED BY <2>6, <3>2, <3>3 DEF IsInjective, ToSet
  <2> QED BY <2>3, <2>5, <2>7, <2>8, <2>9 DEF t
<1> QED BY <1>1, <1>2

LEMMA AppendIs ==
  ASSUME NEW S, NEW s \in Seq(S), NEW e \in S
  PROVE  /\ Append(s, e) \in Seq(S) /\ ToSet(Append(s, e)) = ToSet(s) \cup {e}
         /\ IsInjective(s) /\ e \notin ToSet(s) => IsInjective(Append(s, e))
<1> DEFINE t == Append(s, e)
           m == Len(s)
<1>1. /\ m \in Nat /\ t \in Seq(S) /\ DOMAIN s = 1..m /\ DOMAIN t = 1..(m + 1) /\ t[m + 1] = e
      /\ \A i \in 1..m : t[i] = s[i]
  BY AppendProperties
<1> HIDE DEF t, m
<1>2. ToSet(t) = ToSet(s) \cup {e}
  <2>1. \A i \in 1..(m + 1) : i \in 1..m \/ i = m + 1
    BY <1>1
  <2>2. \A i \in 1..m : i \in 1..(m + 1)
    BY <1>1
  <2>3. m + 1 \in 1..(m + 1)
    BY <1>1
  <2>4. \A x : (\E i \in 1..(m + 1) : x = t[i]) <=> (\E i \in 1..m : x = s[i]) \/ x = e
    BY <1>1, <2>1, <2>2, <2>3
  <2> QED BY <1>1, <2>4 DEF ToSet
<1>3. ASSUME IsInjective(s), e \notin ToSet(s) PROVE IsInjective(t)
  <2>1. \A i, j \in 1..m : s[i] = s[j] => i = j
    BY <1>1, <1>3 DEF IsInjective
  <2>2. \A i \in 1..m : s[i] # e
    BY <1>1, <1>3 DEF ToSet
  <2>3. ASSUME NEW i \in 1..(m + 1), NEW j \in 1..(m + 1), t[i] = t[j] PROVE i = j
    BY <1>1, <2>1, <2>2, <2>3
  <2> QED BY <1>1, <2>3 DEF IsInjective
<1> QED BY <1>1, <1>2, <1>3 DEF t

LEMMA RegistryStarts == RegistryInit => RegistryInv
<1> SUFFICES ASSUME RegistryInit PROVE RegistryInv
  OBVIOUS
<1>1. <<>> \in Seq(Analyzers) /\ ToSet(<<>>) = {} /\ IsInjective(<<>>)
  BY DEF ToSet, IsInjective
<1>2. RegistersOK
  BY <1>1 DEF RegistryInit, RegistersOK, IdleRemoval, RemovalStates, Found, Orderly
<1>3. AnalysisOK
  BY <1>1 DEF RegistryInit, AnalysisOK, IdleAnalysis, AnalysisStates
<1> QED BY <1>2, <1>3 DEF RegistryInv

LEMMA RegistersRegister ==
  ASSUME RegistersOK, NEW a \in Analyzers, Register(a)
  PROVE  /\ RegistersOK'
         /\ \A l \in Languages : \/ languageMap'[l] = languageMap[l]
                               \/ languageMap'[l] = Append(languageMap[l], a)
<1>1. /\ analyzers' = analyzers \cup {a} /\ Registered(AnalyzerName[a]) = {}
      /\ languageMap' = Pushed(a) /\ UNCHANGED <<removals, racing>>
  BY DEF Register
<1>2. /\ analyzers \subseteq Analyzers /\ languageMap \in [Languages -> Seq(Analyzers)]
      /\ \A b, c \in analyzers : AnalyzerName[b] = AnalyzerName[c] => b = c
      /\ \A l \in Languages : \A b \in ToSet(languageMap[l]) : l \in AnalyzerLanguages[b]
      /\ removals \in [Removers -> RemovalStates] /\ racing \in BOOLEAN
      /\ Found /\ (~racing => Orderly)
  BY DEF RegistersOK
<1>3. ASSUME NEW l \in Languages
      PROVE  /\ languageMap[l] \in Seq(Analyzers)
             /\ \/ /\ l \in AnalyzerLanguages[a] /\ languageMap'[l] = Append(languageMap[l], a)
                   /\ ToSet(languageMap'[l]) = ToSet(languageMap[l]) \cup {a}
                   /\ languageMap'[l] \in Seq(Analyzers)
                   /\ IsInjective(languageMap[l]) /\ a \notin ToSet(languageMap[l])
                        => IsInjective(languageMap'[l])
                \/ l \notin AnalyzerLanguages[a] /\ languageMap'[l] = languageMap[l]
  <2>1. languageMap[l] \in Seq(Analyzers)
    BY <1>2
  <2>2. languageMap'[l] = IF l \in AnalyzerLanguages[a] THEN Append(languageMap[l], a)
                          ELSE languageMap[l]
    BY <1>1 DEF Pushed
  <2> QED BY <2>1, <2>2, AppendIs
<1>4. languageMap' \in [Languages -> Seq(Analyzers)]
  <2>1. languageMap' = [l \in Languages |-> languageMap'[l]]
    BY <1>1 DEF Pushed
  <2>2. \A l \in Languages : languageMap'[l] \in Seq(Analyzers)
    BY <1>3
  <2> QED BY <2>1, <2>2
<1>5. a \notin analyzers /\ \A b \in analyzers : AnalyzerName[b] # AnalyzerName[a]
  BY <1>1 DEF Registered
<1>6. \A b, c \in analyzers' : AnalyzerName[b] = AnalyzerName[c] => b = c
  BY <1>1, <1>2, <1>5
<1>7. \A l \in Languages : \A b \in ToSet(languageMap'[l]) : l \in AnalyzerLanguages[b]
  BY <1>2, <1>3
<1>8. Found'
  <2> SUFFICES ASSUME NEW b \in analyzers', NEW l \in AnalyzerLanguages[b]
               PROVE  b \in ToSet(languageMap'[l])
    BY DEF Found
  <2>1. b \in Analyzers
    BY <1>1, <1>2
  <2>2. l \in Languages
    BY <2>1 DEF Languages
  <2>3. b # a => b \in ToSet(languageMap[l])
    BY <1>1, <1>2 DEF Found
  <2> QED BY <1>3, <2>2, <2>3
<1>9. Orderly => Orderly'
  <2> SUFFICES ASSUME Orderly PROVE Orderly'
    OBVIOUS
  <2>1. \A l \in Languages :
          ToSet(languageMap'[l]) \subseteq analyzers' /\ IsInjective(languageMap'[l])
    BY <1>1, <1>3, <1>5 DEF Orderly
  <2> QED BY <1>1, <2>1 DEF Orderly
<1>10. RegistersOK'
  BY <1>1, <1>2, <1>4, <1>6, <1>7, <1>8, <1>9 DEF RegistersOK
<1> QED BY <1>3, <1>10

LEMMA RegistersDispose ==
  ASSUME RegistersOK, NEW r \in Removers, NEW step, NEW batch,
         \/ step = "unregister" /\ (\E a \in analyzers : batch = {a})
         \/ step = "disposeAll" /\ batch = analyzers,
         Dispose(r, step, batch)
  PROVE  RegistersOK'
<1>1. /\ removals[r].step = "idle" /\ UNCHANGED <<analyzers, languageMap>>
      /\ removals' = [removals EXCEPT ![r] = [step |-> step, of |-> batch]]
      /\ racing' = (racing \/ \E other \in Removers :
                       \/ removals[other].of \cap batch # {}
                       \/ /\ removals[other].step # "idle"
                          /\ "disposeAll" \in {step, removals[other].step})
  BY DEF Dispose
<1>2. /\ analyzers \subseteq Analyzers /\ removals \in [Removers -> RemovalStates]
      /\ racing \in BOOLEAN /\ Found /\ (~racing => Orderly)
  BY DEF RegistersOK
<1>3. [step |-> step, of |-> batch] \in RemovalStates
  BY <1>2 DEF RemovalStates
<1>4. removals' \in [Removers -> RemovalStates]
  BY <1>1, <1>2, <1>3
<1>5. \A s \in Removers : removals'[s] = IF s = r THEN [step |-> step, of |-> batch] ELSE removals[s]
  BY <1>1, <1>2
<1>6. racing' \in BOOLEAN
  BY <1>1
<1>7. ~racing' => Orderly'
  <2> SUFFICES ASSUME ~racing' PROVE Orderly'
    OBVIOUS
  <2>1. Orderly
    BY <1>1, <1>2
  <2>2. \A other \in Removers :
          /\ removals[other].of \cap batch = {}
          /\ removals[other].step = "idle" \/ "disposeAll" \notin {step, removals[other].step}
    BY <1>1
  <2>3. \A l \in Languages :
          ToSet(languageMap'[l]) \subseteq analyzers' /\ IsInjective(languageMap'[l])
    BY <1>1, <2>1 DEF Orderly
  <2>4. ASSUME NEW s \in Removers, removals'[s].step = "unregister"
        PROVE  removals'[s].of \subseteq analyzers'
    BY <1>1, <1>5, <2>1, <2>4 DEF Orderly
  <2>5. ASSUME NEW s \in Removers, NEW t \in Removers, s # t
        PROVE  /\ removals'[s].of \cap removals'[t].of = {}
               /\ removals'[s].step = "disposeAll" => removals'[t].step = "idle"
    <3>1. CASE s # r /\ t # r
      BY <1>5, <2>1, <2>5, <3>1 DEF Orderly
    <3>2. CASE s = r
      <4>1. removals'[s].of = batch /\ removals'[s].step = step /\ removals'[t] = removals[t]
        BY <1>5, <2>5, <3>2
      <4> QED BY <2>2, <4>1
    <3>3. CASE t = r
      <4>1. removals'[t].of = batch /\ removals'[t].step = step /\ removals'[s] = removals[s]
        BY <1>5, <2>5, <3>3
      <4> QED BY <2>2, <4>1
    <3> QED BY <3>1, <3>2, <3>3
  <2> QED BY <2>3, <2>4, <2>5 DEF Orderly
<1>8. Found'
  BY <1>1, <1>2 DEF Found
<1> QED BY <1>1, <1>2, <1>4, <1>6, <1>7, <1>8 DEF RegistersOK

LEMMA BecomesIdle ==
  ASSUME RegistersOK, NEW r \in Removers, removals' = [removals EXCEPT ![r] = IdleRemoval]
  PROVE  /\ removals' \in [Removers -> RemovalStates]
         /\ \A s \in Removers : removals'[s] = IF s = r THEN IdleRemoval ELSE removals[s]
         /\ IdleRemoval.of = {} /\ IdleRemoval.step = "idle"
         /\ \A s, t \in Removers :
              (/\ removals[s].of \cap removals[t].of = {}
               /\ removals[s].step = "disposeAll" => removals[t].step = "idle")
              => (/\ removals'[s].of \cap removals'[t].of = {}
                  /\ removals'[s].step = "disposeAll" => removals'[t].step = "idle")
<1>1. IdleRemoval \in RemovalStates /\ IdleRemoval.of = {} /\ IdleRemoval.step = "idle"
  BY DEF IdleRemoval, RemovalStates
<1>2. removals \in [Removers -> RemovalStates]
  BY DEF RegistersOK
<1>3. \A s \in Removers : removals'[s] = IF s = r THEN IdleRemoval ELSE removals[s]
  BY <1>2
<1> QED BY <1>1, <1>2, <1>3

LEMMA RegistersUnregistered ==
  ASSUME RegistersOK, NEW r \in Removers, Unregistered(r)
  PROVE  RegistersOK'
<1>1. removals[r].step = "unregister" /\ racing' = racing
      /\ removals' = [removals EXCEPT ![r] = IdleRemoval]
  BY DEF Unregistered
<1>2. /\ analyzers \subseteq Analyzers /\ languageMap \in [Languages -> Seq(Analyzers)]
      /\ \A b, c \in analyzers : AnalyzerName[b] = AnalyzerName[c] => b = c
      /\ \A l \in Languages : \A b \in ToSet(languageMap[l]) : l \in AnalyzerLanguages[b]
      /\ removals \in [Removers -> RemovalStates] /\ racing \in BOOLEAN
      /\ Found /\ (~racing => Orderly)
  BY DEF RegistersOK
<1>3. PICK a \in Analyzers : removals[r].of = {a}
  <2>1. removals[r] \in RemovalStates
    BY <1>2
  <2> QED BY <1>1, <2>1 DEF RemovalStates
<1>4. analyzers' = analyzers \ Registered(AnalyzerName[a]) /\ languageMap' = Spliced(a)
  BY <1>3 DEF Unregistered
<1>5. a \notin analyzers' /\ analyzers' \subseteq analyzers
  BY <1>4 DEF Registered
<1>6. ASSUME NEW l \in Languages
      PROVE  /\ languageMap'[l] \in Seq(Analyzers)
             /\ ToSet(languageMap'[l]) \subseteq ToSet(languageMap[l])
             /\ \A x \in ToSet(languageMap[l]) : x # a => x \in ToSet(languageMap'[l])
             /\ IsInjective(languageMap[l]) =>
                  IsInjective(languageMap'[l]) /\ a \notin ToSet(languageMap'[l])
  <2>1. languageMap[l] \in Seq(Analyzers)
    BY <1>2
  <2>2. languageMap'[l] = IF l \in AnalyzerLanguages[a] THEN RemoveFirst(languageMap[l], a)
                          ELSE languageMap[l]
    BY <1>4 DEF Spliced
  <2>3. l \notin AnalyzerLanguages[a] => a \notin ToSet(languageMap[l])
    BY <1>2
  <2> QED BY <2>1, <2>2, <2>3, RemoveFirstIs
<1>7. languageMap' \in [Languages -> Seq(Analyzers)]
  <2>1. languageMap' = [l \in Languages |-> languageMap'[l]]
    BY <1>4 DEF Spliced
  <2>2. \A l \in Languages : languageMap'[l] \in Seq(Analyzers)
    BY <1>6
  <2> QED BY <2>1, <2>2
<1>8. Found'
  <2> SUFFICES ASSUME NEW b \in analyzers', NEW l \in AnalyzerLanguages[b]
               PROVE  b \in ToSet(languageMap'[l])
    BY DEF Found
  <2>1. b \in analyzers /\ b \in Analyzers /\ b # a
    BY <1>2, <1>5
  <2>2. l \in Languages
    BY <2>1 DEF Languages
  <2>3. b \in ToSet(languageMap[l])
    BY <1>2, <2>1 DEF Found
  <2> QED BY <1>6, <2>1, <2>2, <2>3
<1>9. ~racing => Orderly'
  <2> SUFFICES ASSUME ~racing PROVE Orderly'
    OBVIOUS
  <2>1. Orderly
    BY <1>2
  <2>2. a \in analyzers
    BY <1>1, <1>3, <2>1 DEF Orderly
  <2>3. analyzers' = analyzers \ {a}
    BY <1>2, <1>4, <2>2 DEF Registered
  <2>4. \A l \in Languages :
          ToSet(languageMap'[l]) \subseteq analyzers' /\ IsInjective(languageMap'[l])
    BY <1>6, <2>1, <2>3 DEF Orderly
  <2>5. ASSUME NEW s \in Removers, removals'[s].step = "unregister"
        PROVE  removals'[s].of \subseteq analyzers'
    <3>1. s # r /\ removals'[s] = removals[s]
      BY <1>1, <2>5, BecomesIdle
    <3>2. removals[s].of \cap removals[r].of = {} /\ removals[s].of \subseteq analyzers
      BY <2>1, <2>5, <3>1 DEF Orderly
    <3> QED BY <1>3, <2>3, <3>1, <3>2
  <2>6. ASSUME NEW s \in Removers, NEW t \in Removers, s # t
        PROVE  /\ removals'[s].of \cap removals'[t].of = {}
               /\ removals'[s].step = "disposeAll" => removals'[t].step = "idle"
    BY <1>1, <2>1, <2>6, BecomesIdle DEF Orderly
  <2> QED BY <2>4, <2>5, <2>6 DEF Orderly
<1>10. /\ analyzers' \subseteq Analyzers
       /\ \A b, c \in analyzers' : AnalyzerName[b] = AnalyzerName[c] => b = c
       /\ \A l \in Languages : \A b \in ToSet(languageMap'[l]) : l \in AnalyzerLanguages[b]
  BY <1>2, <1>5, <1>6
<1>11. removals' \in [Removers -> RemovalStates]
  BY <1>1, BecomesIdle
<1> QED BY <1>1, <1>2, <1>7, <1>8, <1>9, <1>10, <1>11 DEF RegistersOK

LEMMA RegistersAllDisposed ==
  ASSUME RegistersOK, NEW r \in Removers, AllDisposed(r)
  PROVE  RegistersOK'
<1>1. /\ removals[r].step = "disposeAll" /\ racing' = racing /\ analyzers' = {}
      /\ languageMap' = [l \in Languages |-> <<>>]
      /\ removals' = [removals EXCEPT ![r] = IdleRemoval]
  BY DEF AllDisposed
<1>2. racing \in BOOLEAN /\ (~racing => Orderly)
  BY DEF RegistersOK
<1>3. <<>> \in Seq(Analyzers) /\ ToSet(<<>>) = {} /\ IsInjective(<<>>)
  BY DEF ToSet, IsInjective
<1>4. ~racing => Orderly'
  <2> SUFFICES ASSUME ~racing PROVE Orderly'
    OBVIOUS
  <2>1. Orderly
    BY <1>2
  <2>2. \A s \in Removers : removals'[s].step = "idle"
    BY <1>1, <2>1, BecomesIdle DEF Orderly
  <2>3. \A l \in Languages :
          ToSet(languageMap'[l]) \subseteq analyzers' /\ IsInjective(languageMap'[l])
    BY <1>1, <1>3
  <2>4. ASSUME NEW s \in Removers, NEW t \in Removers, s # t
        PROVE  removals'[s].of \cap removals'[t].of = {}
    BY <1>1, <2>1, <2>4, BecomesIdle DEF Orderly
  <2> QED BY <2>2, <2>3, <2>4 DEF Orderly
<1>5. removals' \in [Removers -> RemovalStates]
  BY <1>1, BecomesIdle
<1>6. languageMap' \in [Languages -> Seq(Analyzers)]
  BY <1>1, <1>3
<1>7. \A l \in Languages : ToSet(languageMap'[l]) = {}
  BY <1>1, <1>3
<1> QED BY <1>1, <1>2, <1>4, <1>5, <1>6, <1>7 DEF RegistersOK, Found

LEMMA RegistersDisposeFails ==
  ASSUME RegistersOK, NEW r \in Removers, DisposeFails(r)
  PROVE  RegistersOK'
<1>1. /\ UNCHANGED <<analyzers, languageMap, racing>>
      /\ removals' = [removals EXCEPT ![r] = IdleRemoval]
  BY DEF DisposeFails
<1>2. Orderly => Orderly'
  <2> SUFFICES ASSUME Orderly PROVE Orderly'
    OBVIOUS
  <2>1. \A l \in Languages :
          ToSet(languageMap'[l]) \subseteq analyzers' /\ IsInjective(languageMap'[l])
    BY <1>1 DEF Orderly
  <2>2. ASSUME NEW s \in Removers, removals'[s].step = "unregister"
        PROVE  removals'[s].of \subseteq analyzers'
    <3>1. removals'[s] = removals[s]
      BY <1>1, <2>2, BecomesIdle
    <3> QED BY <1>1, <2>2, <3>1 DEF Orderly
  <2>3. ASSUME NEW s \in Removers, NEW t \in Removers, s # t
        PROVE  /\ removals'[s].of \cap removals'[t].of = {}
               /\ removals'[s].step = "disposeAll" => removals'[t].step = "idle"
    BY <1>1, <2>3, BecomesIdle DEF Orderly
  <2> QED BY <2>1, <2>2, <2>3 DEF Orderly
<1>3. removals' \in [Removers -> RemovalStates]
  BY <1>1, BecomesIdle
<1> QED BY <1>1, <1>2, <1>3 DEF RegistersOK, Found

LEMMA FollowedIs ==
  ASSUME AnalysisOK, NEW map, map \in [Languages -> Seq(Analyzers)]
  PROVE  /\ Follow(map) \in AnalysisStates
         /\ Follow(map).lives => /\ Follow(map).language \in Languages
                                 /\ Follow(map).list = map[Follow(map).language]
         /\ Follow(map).step = analysis.step /\ Follow(map).removed = analysis.removed
         /\ Follow(map).next = analysis.next /\ Follow(map).language = analysis.language
         /\ Follow(map).due = analysis.due /\ Follow(map).ran = analysis.ran
         /\ Follow(map).list = IF analysis.lives THEN map[analysis.language] ELSE analysis.list
<1>1. analysis \in AnalysisStates
  BY DEF AnalysisOK
<1>2. CASE analysis.lives
  <2>1. analysis.language \in Languages
    BY <1>2 DEF AnalysisOK
  <2>2. PICK b \in BOOLEAN : b = (map[analysis.language] # <<>>)
    OBVIOUS
  <2>3. Follow(map) = [analysis EXCEPT !.list = map[analysis.language], !.lives = b]
    BY <1>2, <2>2, Zenon DEF Follow
  <2> QED BY <1>1, <1>2, <2>1, <2>3 DEF AnalysisStates
<1>3. CASE ~analysis.lives
  BY <1>1, <1>3 DEF Follow
<1> QED BY <1>2, <1>3

LEMMA AnalysisRegister ==
  ASSUME RegistersOK, AnalysisOK, NEW a \in Analyzers, Register(a)
  PROVE  AnalysisOK'
<1>1. analysis' = Follow(languageMap')
  BY DEF Register
<1>2. languageMap' \in [Languages -> Seq(Analyzers)]
      /\ languageMap \in [Languages -> Seq(Analyzers)]
  BY RegistersRegister DEF RegistersOK
<1>3. /\ analysis' \in AnalysisStates
      /\ analysis'.lives => /\ analysis'.language \in Languages
                            /\ analysis'.list = languageMap'[analysis'.language]
      /\ analysis'.step = analysis.step /\ analysis'.removed = analysis.removed
      /\ analysis'.next = analysis.next
      /\ analysis'.due = analysis.due /\ analysis'.ran = analysis.ran
      /\ analysis'.list = IF analysis.lives THEN languageMap'[analysis.language] ELSE analysis.list
  BY <1>1, <1>2, FollowedIs
<1>4. analysis.list \in Seq(Analyzers) /\ analysis.next \in Nat \ {0}
      /\ (analysis.lives => /\ analysis.language \in Languages
                            /\ analysis.list = languageMap[analysis.language])
  BY DEF AnalysisOK, AnalysisStates
<1>5. analysis'.list = analysis.list \/ analysis'.list = Append(analysis.list, a)
  BY <1>3, <1>4, RegistersRegister
<1>6. Ahead \subseteq Ahead'
  <2> DEFINE n == analysis.next
             s == analysis.list
             t == analysis'.list
  <2>1. \A i \in n..Len(s) : i \in n..Len(t) /\ t[i] = s[i]
    <3>1. CASE t = s
      BY <3>1
    <3>2. CASE t = Append(s, a)
      <4>1. /\ Len(t) = Len(s) + 1 /\ Len(s) \in Nat
            /\ \A i \in 1..Len(s) : t[i] = s[i]
        BY <1>4, <3>2, AppendProperties
      <4> QED BY <1>4, <4>1
    <3> QED BY <1>5, <3>1, <3>2
  <2> QED BY <1>3, <2>1 DEF Ahead
<1> QED BY <1>3, <1>6 DEF AnalysisOK

LEMMA AnalysisRemoved ==
  ASSUME RegistersOK, RegistersOK', AnalysisOK, NEW r \in Removers,
         Unregistered(r) \/ AllDisposed(r)
  PROVE  AnalysisOK'
<1>1. CASE Unregistered(r)
  <2>1. analysis' = [Follow(languageMap') EXCEPT !.removed = TRUE]
    BY <1>1 DEF Unregistered
  <2>2. languageMap' \in [Languages -> Seq(Analyzers)]
    BY DEF RegistersOK
  <2> DEFINE f == Follow(languageMap')
  <2>3. f \in AnalysisStates /\ (f.lives => /\ f.language \in Languages
                                           /\ f.list = languageMap'[f.language])
    BY <2>2, FollowedIs
  <2> HIDE DEF f
  <2>4. analysis' = [f EXCEPT !.removed = TRUE]
    BY <2>1 DEF f
  <2> QED BY <2>3, <2>4 DEF AnalysisOK, AnalysisStates
<1>2. CASE AllDisposed(r)
  BY <1>2 DEF AllDisposed, AnalysisOK, AnalysisStates
<1> QED BY <1>1, <1>2

LEMMA AnalysisSteps ==
  ASSUME RegistersOK, AnalysisOK,
         AnalyzeFile \/ AnalyzeMultiple \/ AnalyzeLanguage \/ AnalyzeNext \/ MergeResults
  PROVE  AnalysisOK'
<1>1. /\ languageMap' = languageMap /\ analyzers \subseteq Analyzers
      /\ languageMap \in [Languages -> Seq(Analyzers)] /\ Found
  BY DEF RegistersOK, AnalyzeFile, AnalyzeMultiple, AnalyzeLanguage, AnalyzeNext, MergeResults,
         Others
<1>2. IdleAnalysis \in AnalysisStates /\ ~IdleAnalysis.lives /\ IdleAnalysis.step = "idle"
  BY DEF IdleAnalysis, AnalysisStates
<1>3. CASE AnalyzeFile
  <2>0. PICK l \in Languages :
          \E chosen \in {ToSet(languageMap[l])} \cup {{a} : a \in analyzers} :
            analysis' = [IdleAnalysis EXCEPT !.step = "done", !.due = chosen, !.ran = chosen]
    BY <1>3 DEF AnalyzeFile
  <2>1. PICK chosen \in {ToSet(languageMap[l])} \cup {{a} : a \in analyzers} :
          analysis' = [IdleAnalysis EXCEPT !.step = "done", !.due = chosen, !.ran = chosen]
    BY <2>0
  <2>2. chosen \subseteq Analyzers
    <3>1. languageMap[l] \in Seq(Analyzers)
      BY <1>1
    <3>2. ToSet(languageMap[l]) \subseteq Analyzers
      BY <3>1 DEF ToSet
    <3> QED BY <1>1, <3>2
  <2>3. analysis' \in AnalysisStates /\ ~analysis'.lives /\ analysis'.step = "done"
        /\ analysis'.due = analysis'.ran
    BY <1>2, <2>1, <2>2 DEF AnalysisStates
  <2> QED BY <2>3 DEF AnalysisOK
<1>4. CASE AnalyzeMultiple
  <2>1. PICK some \in SUBSET Languages \ {{}} :
          analysis' = [IdleAnalysis EXCEPT !.step = "language", !.todo = some]
    BY <1>4 DEF AnalyzeMultiple
  <2>2. analysis' \in AnalysisStates /\ ~analysis'.lives /\ analysis'.step = "language"
        /\ analysis'.due = {}
    <3>1. some \in SUBSET Languages /\ IdleAnalysis.due = {}
      BY DEF IdleAnalysis
    <3> QED BY <1>2, <2>1, <3>1 DEF AnalysisStates
  <2> QED BY <2>2 DEF AnalysisOK
<1>5. CASE AnalyzeLanguage
  <2>1. CASE analysis' = [analysis EXCEPT !.step = "done"]
    BY <1>1, <1>5, <2>1 DEF AnalyzeLanguage, AnalysisOK, AnalysisStates
  <2>2. CASE \E l \in analysis.todo :
          analysis' =
            [analysis EXCEPT !.step = "analyzer", !.todo = @ \ {l}, !.language = l,
               !.list = languageMap[l], !.lives = languageMap[l] # <<>>, !.next = 1,
               !.due = @ \cup {a \in analyzers : l \in AnalyzerLanguages[a]}]
    <3>1. PICK l \in analysis.todo :
          analysis' =
            [analysis EXCEPT !.step = "analyzer", !.todo = @ \ {l}, !.language = l,
               !.list = languageMap[l], !.lives = languageMap[l] # <<>>, !.next = 1,
               !.due = @ \cup {a \in analyzers : l \in AnalyzerLanguages[a]}]
      BY <2>2
    <3>2. l \in Languages /\ analysis \in AnalysisStates
      BY DEF AnalysisOK, AnalysisStates
    <3>3. languageMap[l] \in Seq(Analyzers)
      BY <1>1, <3>2
    <3>4. PICK b \in BOOLEAN : b = (languageMap[l] # <<>>)
      OBVIOUS
    <3>5. analysis' =
            [analysis EXCEPT !.step = "analyzer", !.todo = @ \ {l}, !.language = l,
               !.list = languageMap[l], !.lives = b, !.next = 1,
               !.due = @ \cup {a \in analyzers : l \in AnalyzerLanguages[a]}]
      BY <3>1, <3>4, Zenon
    <3>6. /\ analysis' \in AnalysisStates /\ analysis'.language = l
          /\ analysis'.list = languageMap[l] /\ analysis'.step = "analyzer"
          /\ analysis'.next = 1 /\ analysis'.removed = analysis.removed
          /\ analysis'.ran = analysis.ran
          /\ analysis'.due = analysis.due \cup {a \in analyzers : l \in AnalyzerLanguages[a]}
      <4> DEFINE here == {a \in analyzers : l \in AnalyzerLanguages[a]}
                 new == languageMap[l]
                 rest == analysis.todo \ {l}
                 due == analysis.due \cup here
      <4>1. here \subseteq Analyzers /\ new \in Seq(Analyzers)
        BY <1>1, <3>3
      <4>2. due \in SUBSET Analyzers /\ rest \in SUBSET Languages
        BY <3>2, <4>1 DEF AnalysisStates
      <4>3. analysis' = [analysis EXCEPT !.step = "analyzer", !.todo = rest, !.language = l,
                           !.list = new, !.lives = b, !.next = 1, !.due = due]
        BY <3>5
      <4> HIDE DEF here, new, rest, due
      <4>5. PICK st, to, la, li, lv, ne, du, ra, re :
              /\ analysis = [step |-> st, todo |-> to, language |-> la, list |-> li, lives |-> lv,
                             next |-> ne, due |-> du, ran |-> ra, removed |-> re]
              /\ ra \in SUBSET Analyzers /\ re \in BOOLEAN
        BY <3>2 DEF AnalysisStates
      <4>6. analysis' = [step |-> "analyzer", todo |-> rest, language |-> l, list |-> new,
                         lives |-> b, next |-> 1, due |-> due, ran |-> ra, removed |-> re]
        BY <4>3, <4>5
      <4>4. /\ analysis' \in AnalysisStates /\ analysis'.language = l
            /\ analysis'.list = new /\ analysis'.step = "analyzer"
            /\ analysis'.next = 1 /\ analysis'.removed = analysis.removed
            /\ analysis'.ran = analysis.ran /\ analysis'.due = due
        BY <3>2, <4>1, <4>2, <4>5, <4>6 DEF AnalysisStates
      <4> QED BY <4>4 DEF here, new, due
    <3>7. Ahead' = ToSet(languageMap[l])
      <4>1. DOMAIN languageMap[l] = 1..Len(languageMap[l])
        BY <3>3
      <4> QED BY <3>6, <4>1 DEF Ahead, ToSet
    <3>8. {a \in analyzers : l \in AnalyzerLanguages[a]} \subseteq ToSet(languageMap[l])
      BY <1>1 DEF Found
    <3>9. ~analysis.removed => analysis.due \subseteq analysis.ran
      BY <1>5 DEF AnalysisOK, AnalyzeLanguage
    <3> QED BY <1>1, <3>2, <3>6, <3>7, <3>8, <3>9 DEF AnalysisOK
  <2> QED BY <1>5, <2>1, <2>2 DEF AnalyzeLanguage
<1>6. CASE AnalyzeNext
  <2> DEFINE s == analysis.list
             n == analysis.next
  <2>1. analysis \in AnalysisStates /\ s \in Seq(Analyzers) /\ Len(s) \in Nat
        /\ n \in Nat \ {0} /\ (~analysis.removed => analysis.due \subseteq analysis.ran \cup Ahead)
    BY <1>6 DEF AnalysisOK, AnalysisStates, AnalyzeNext
  <2>2. CASE n > Len(s) /\ analysis' = [analysis EXCEPT !.step = "language", !.list = <<>>,
                                                       !.lives = FALSE]
    <3>1. Ahead = {}
      BY <2>1, <2>2 DEF Ahead
    <3>2. <<>> \in Seq(Analyzers)
      OBVIOUS
    <3>3. /\ analysis' \in AnalysisStates /\ ~analysis'.lives /\ analysis'.step = "language"
          /\ analysis'.removed = analysis.removed
          /\ analysis'.due = analysis.due /\ analysis'.ran = analysis.ran
      BY <2>1, <2>2, <3>2 DEF AnalysisStates
    <3> QED BY <2>1, <3>1, <3>3 DEF AnalysisOK
  <2>3. CASE analysis' = IdleAnalysis
    BY <1>2, <2>3 DEF AnalysisOK
  <2>4. CASE n <= Len(s) /\ analysis' = [analysis EXCEPT !.next = @ + 1, !.ran = @ \cup {s[n]}]
    <3>1. s[n] \in Analyzers
      BY <2>1, <2>4
    <3>2. /\ analysis' \in AnalysisStates /\ analysis'.lives = analysis.lives
          /\ analysis'.language = analysis.language /\ analysis'.list = s
          /\ analysis'.next = n + 1 /\ analysis'.removed = analysis.removed
          /\ analysis'.step = analysis.step
          /\ analysis'.due = analysis.due /\ analysis'.ran = analysis.ran \cup {s[n]}
      <4> DEFINE more == analysis.ran \cup {s[n]}
                 m == n + 1
      <4>1. more \in SUBSET Analyzers /\ m \in Nat \ {0}
        BY <2>1, <3>1 DEF AnalysisStates
      <4>2. analysis' = [analysis EXCEPT !.next = m, !.ran = more]
        BY <2>4
      <4> HIDE DEF more, m, s, n
      <4>3. /\ analysis' \in AnalysisStates /\ analysis'.lives = analysis.lives
            /\ analysis'.language = analysis.language /\ analysis'.list = analysis.list
            /\ analysis'.next = m /\ analysis'.removed = analysis.removed
            /\ analysis'.step = analysis.step
            /\ analysis'.due = analysis.due /\ analysis'.ran = more
        BY <2>1, <4>1, <4>2 DEF AnalysisStates
      <4> QED BY <4>3 DEF more, m, s
    <3>3. Ahead \subseteq Ahead' \cup {s[n]}
      <4>1. \A i \in n..Len(s) : i = n \/ i \in (n + 1)..Len(s)
        BY <2>1
      <4> QED BY <3>2, <4>1 DEF Ahead
    <3>4. analysis.step = "analyzer"
      BY <1>6 DEF AnalyzeNext
    <3>5. analysis.lives => /\ analysis.language \in Languages
                            /\ analysis.list = languageMap[analysis.language]
      BY DEF AnalysisOK
    <3> QED BY <1>1, <2>1, <3>2, <3>3, <3>4, <3>5 DEF AnalysisOK
  <2> QED BY <1>6, <2>2, <2>3, <2>4 DEF AnalyzeNext
<1>7. CASE MergeResults
  BY <1>2, <1>7 DEF MergeResults, AnalysisOK
<1> QED BY <1>3, <1>4, <1>5, <1>6, <1>7

LEMMA Unaffected ==
  /\ RegistersOK /\ UNCHANGED <<analyzers, languageMap, removals, racing>> => RegistersOK'
  /\ AnalysisOK /\ UNCHANGED <<languageMap, analysis>> => AnalysisOK'
BY DEF RegistersOK, Found, Orderly, AnalysisOK, Ahead

LEMMA RegistryStep == RegistryInv /\ [RegistryNext]_registryVars => RegistryInv'
<1> SUFFICES ASSUME RegistryInv, [RegistryNext]_registryVars PROVE RegistryInv'
  OBVIOUS
<1>1. RegistersOK /\ AnalysisOK
  BY DEF RegistryInv
<1>2. ASSUME NEW a \in Analyzers, Register(a) PROVE RegistryInv'
  BY <1>1, <1>2, RegistersRegister, AnalysisRegister DEF RegistryInv
<1>3. ASSUME NEW r \in Removers, Unregister(r) PROVE RegistryInv'
  <2>1. PICK name \in Names : Registered(name) # {}
                              /\ Dispose(r, "unregister", Registered(name))
    BY <1>3 DEF Unregister
  <2>2. \E a \in analyzers : Registered(name) = {a}
    <3>1. PICK a \in analyzers : AnalyzerName[a] = name
      BY <2>1 DEF Registered
    <3>2. \A b \in analyzers : AnalyzerName[b] = name => b = a
      BY <1>1, <3>1 DEF RegistersOK
    <3> QED BY <3>1, <3>2 DEF Registered
  <2>3. UNCHANGED <<languageMap, analysis>>
    BY <2>1 DEF Dispose
  <2> QED BY <1>1, <2>1, <2>2, <2>3, RegistersDispose, Unaffected DEF RegistryInv
<1>4. ASSUME NEW r \in Removers, DisposeAll(r) PROVE RegistryInv'
  <2>1. Dispose(r, "disposeAll", analyzers) /\ UNCHANGED <<languageMap, analysis>>
    BY <1>4 DEF DisposeAll, Dispose
  <2> QED BY <1>1, <2>1, RegistersDispose, Unaffected DEF RegistryInv
<1>5. ASSUME NEW r \in Removers, Unregistered(r) PROVE RegistryInv'
  BY <1>1, <1>5, RegistersUnregistered, AnalysisRemoved DEF RegistryInv
<1>6. ASSUME NEW r \in Removers, AllDisposed(r) PROVE RegistryInv'
  BY <1>1, <1>6, RegistersAllDisposed, AnalysisRemoved DEF RegistryInv
<1>7. ASSUME NEW r \in Removers, DisposeFails(r) PROVE RegistryInv'
  <2>1. UNCHANGED <<languageMap, analysis>>
    BY <1>7 DEF DisposeFails
  <2> QED BY <1>1, <1>7, <2>1, RegistersDisposeFails, Unaffected DEF RegistryInv
<1>8. CASE AnalyzeFile \/ AnalyzeMultiple \/ AnalyzeLanguage \/ AnalyzeNext \/ MergeResults
  <2>1. UNCHANGED <<analyzers, languageMap, removals, racing>>
    BY <1>8 DEF AnalyzeFile, AnalyzeMultiple, AnalyzeLanguage, AnalyzeNext, MergeResults, Others
  <2> QED BY <1>1, <1>8, <2>1, AnalysisSteps, Unaffected DEF RegistryInv
<1>9. CASE UNCHANGED registryVars
  BY <1>1, <1>9, Unaffected DEF registryVars, RegistryInv
<1> QED BY <1>2, <1>3, <1>4, <1>5, <1>6, <1>7, <1>8, <1>9 DEF RegistryNext

(* Every registered analyzer is found under each of its languages and, without removals   *)
(* that overlap on one, a language holds those registered, each once; an analysis that    *)
(* ends ran all that were due, if none was removed meanwhile (register, unregister,       *)
(* disposeAll, analyzeMultiple): for any analyzers, languages and calls in flight.        *)
THEOREM RegistryStaysConsistent == RegistrySpec => []RegistryIsConsistent
<1>1. RegistryInv => RegistryIsConsistent
  <2> SUFFICES ASSUME RegistryInv PROVE RegistryIsConsistent
    OBVIOUS
  <2>1. \A a \in analyzers : \A l \in AnalyzerLanguages[a] : Contains(languageMap[l], a)
    <3> SUFFICES ASSUME NEW a \in analyzers, NEW l \in AnalyzerLanguages[a]
                 PROVE  Contains(languageMap[l], a)
      OBVIOUS
    <3>1. a \in Analyzers /\ languageMap \in [Languages -> Seq(Analyzers)]
          /\ a \in ToSet(languageMap[l])
      BY DEF RegistryInv, RegistersOK, Found
    <3>2. l \in Languages
      BY <3>1 DEF Languages
    <3>3. languageMap[l] \in Seq(Analyzers)
      BY <3>1, <3>2
    <3> QED BY <3>1, <3>3 DEF ToSet, Contains
  <2>2. ~racing => \A l \in Languages :
          ToSet(languageMap[l]) \subseteq analyzers /\ IsInjective(languageMap[l])
    BY DEF RegistryInv, RegistersOK, Orderly
  <2>3. analysis.step = "done" /\ ~analysis.removed => analysis.due \subseteq analysis.ran
    BY DEF RegistryInv, AnalysisOK
  <2> QED BY <2>1, <2>2, <2>3 DEF RegistryIsConsistent
<1> QED BY <1>1, RegistryStarts, RegistryStep, PTL DEF RegistrySpec

-----------------------------------------------------------------------------
(* AuditLog *)

Rows ==
  [id : Nat, at : Nat, kind : KeyEvents \cup {"GasTransaction", "APIRequest"},
   outcome : {"success", "failure"}]
Readers ==
  [step : {"idle", "reading", "done", "latest"}, filter : AuditFilters \cup {IdleReader.filter},
   order : SortOrders \cup {""}, limit : Nat, offset : Nat, start : SUBSET Rows,
   seen : SUBSET Rows, cleaned : BOOLEAN]

AuditTypeOK ==
  /\ IsFiniteSet(auditRows) /\ auditRows \subseteq Rows /\ saving \subseteq Rows
  /\ events \in Nat /\ stamp \in Nat
  /\ reader \in Readers

\* Those of the rows that an order puts before one.
Before(row, rows, order) == {s \in rows : IF order = "DESC" THEN s.at > row.at ELSE s.at < row.at}

Exempt == reader.order = "ASC" /\ reader.cleaned

\* As long as a client has not been given a row, the pages it was given are all of rows
\* before that one.
ReaderInv ==
  /\ reader.step = "reading" =>
       /\ reader.start \cap auditRows \subseteq MatchingRows(reader.filter)
       /\ ~Exempt =>
            \A row \in reader.start \cap auditRows :
              \/ row \in reader.seen \/ SharesItsTime(row)
              \/ Cardinality(Before(row, MatchingRows(reader.filter), SortOrder(reader.order)))
                   >= reader.offset
  /\ ReadersMissNothing

\* A row is saved once: what is to be saved is not there and was not.
Numbered ==
  /\ saving \cap (auditRows \cup reader.start) = {}
  /\ \A row \in saving \cup auditRows \cup reader.start : row.id <= events

AuditInv == AuditTypeOK /\ Numbered /\ ReaderInv

LEMMA ReaderTyped ==
  ASSUME NEW s \in {"idle", "reading", "done", "latest"}, NEW f \in AuditFilters \cup {IdleReader.filter},
         NEW o \in SortOrders \cup {""}, NEW l \in Nat, NEW n \in Nat, NEW b \in SUBSET Rows,
         NEW e \in SUBSET Rows, NEW c \in BOOLEAN
  PROVE  [step |-> s, filter |-> f, order |-> o, limit |-> l, offset |-> n, start |-> b, seen |-> e,
          cleaned |-> c] \in Readers
BY DEF Readers

\* A page that lacks a row is full, and all on it and skipped for it is before the row.
LEMMA PageIsBefore ==
  ASSUME NEW rows \in SUBSET Rows, IsFiniteSet(rows), NEW order \in {"ASC", "DESC"},
         NEW limit \in Nat, NEW offset \in Nat, NEW page \in Pages(rows, order, limit, offset),
         NEW row \in rows \ page, \A s \in rows \ {row} : s.at # row.at,
         Cardinality(Before(row, rows, order)) >= offset
  PROVE  /\ Cardinality(page) = limit
         /\ Cardinality(Before(row, rows, order)) >= offset + limit
<1> DEFINE B == Before(row, rows, order)
<1>1. PICK skipped \in SUBSET (rows \ page) :
        /\ Cardinality(skipped) = AtMost(offset, rows)
        /\ Cardinality(page) = AtMost(limit, rows \ skipped)
        /\ InOrder(skipped, rows \ skipped, order)
        /\ InOrder(page, rows \ (skipped \cup page), order)
  BY DEF Pages
<1>2. page \in SUBSET rows /\ \A s \in rows : s.at \in Nat
  BY DEF Pages, Rows
<1>3. B \in SUBSET rows /\ row \notin B /\ page \cap skipped = {}
  BY <1>1, <1>2 DEF Before
<1>4. /\ IsFiniteSet(page) /\ IsFiniteSet(skipped) /\ IsFiniteSet(B) /\ IsFiniteSet(rows \ skipped)
      /\ Cardinality(page) \in Nat /\ Cardinality(skipped) \in Nat /\ Cardinality(B) \in Nat
      /\ Cardinality(rows \ skipped) \in Nat /\ Cardinality(rows) \in Nat
  BY <1>1, <1>2, <1>3, FS_Subset, FS_CardinalityType
<1>5. Cardinality(skipped) <= offset
  BY <1>1, <1>4 DEF AtMost
<1>6. row \notin skipped
  <2> SUFFICES ASSUME row \in skipped PROVE FALSE
    OBVIOUS
  <2>1. \A s \in B : s \in skipped
    <3> SUFFICES ASSUME NEW s \in B, s \notin skipped PROVE FALSE
      OBVIOUS
    <3>1. s \in rows \ skipped
      BY <1>3
    <3>2. IF order = "DESC" THEN row.at >= s.at ELSE row.at <= s.at
      BY <1>1, <3>1 DEF InOrder
    <3>3. IF order = "DESC" THEN s.at > row.at ELSE s.at < row.at
      BY DEF Before
    <3> QED BY <1>2, <1>3, <3>2, <3>3
  <2>2. B \cup {row} \subseteq skipped
    BY <2>1
  <2>3. Cardinality(B \cup {row}) = Cardinality(B) + 1
    BY <1>3, <1>4, FS_AddElement
  <2>4. Cardinality(B \cup {row}) <= Cardinality(skipped)
    BY <1>4, <2>2, FS_Subset
  <2> QED BY <1>4, <1>5, <2>3, <2>4
<1>7. skipped \cup page \subseteq B
  <2> SUFFICES ASSUME NEW s \in skipped \cup page PROVE s \in B
    OBVIOUS
  <2>1. row \in rows \ skipped /\ row \in rows \ (skipped \cup page)
    BY <1>6
  <2>2. IF order = "DESC" THEN s.at >= row.at ELSE s.at <= row.at
    BY <1>1, <2>1 DEF InOrder
  <2>3. s \in rows /\ s # row
    BY <1>1, <1>2, <1>6
  <2>4. s.at # row.at /\ s.at \in Nat /\ row.at \in Nat
    BY <1>2, <2>3
  <2> QED BY <2>2, <2>3, <2>4 DEF Before
<1>8. Cardinality(page) = limit
  <2> SUFFICES ASSUME Cardinality(page) # limit PROVE FALSE
    OBVIOUS
  <2>1. Cardinality(page) = Cardinality(rows \ skipped)
    BY <1>1, <1>4 DEF AtMost
  <2>2. page \subseteq rows \ skipped
    BY <1>2, <1>3
  <2>3. page = rows \ skipped
    BY <1>4, <2>1, <2>2, FS_Subset
  <2> QED BY <1>6, <2>3
<1>9. Cardinality(skipped) = offset
  <2>1. Cardinality(B) <= Cardinality(rows)
    BY <1>3, FS_Subset
  <2>2. Cardinality(B \cup {row}) = Cardinality(B) + 1 /\ B \cup {row} \subseteq rows
    BY <1>3, <1>4, FS_AddElement
  <2>3. Cardinality(B \cup {row}) <= Cardinality(rows)
    BY <2>2, FS_Subset
  <2> QED BY <1>1, <1>4, <2>2, <2>3 DEF AtMost
<1>10. Cardinality(skipped \cup page) = offset + limit
  <2>1. Cardinality(skipped \cup page) = Cardinality(skipped) + Cardinality(page) - Cardinality(skipped \cap page)
    BY <1>4, FS_Union
  <2>2. Cardinality(skipped \cap page) = 0
    <3>1. skipped \cap page = {}
      BY <1>3
    <3> QED BY <3>1, FS_EmptySet
  <2> QED BY <1>4, <1>8, <1>9, <2>1, <2>2
<1>11. Cardinality(skipped \cup page) <= Cardinality(B)
  BY <1>4, <1>7, FS_Subset
<1> QED BY <1>8, <1>10, <1>11

\* What is answered of the latest rows leaves out none newer than one it holds.
LEMMA LatestIsLatest ==
  ASSUME NEW rows \in SUBSET Rows, IsFiniteSet(rows), NEW limit \in Nat,
         NEW page \in Pages(rows, "DESC", limit, 0), NEW row \in rows \ page
  PROVE  Cardinality(page) = limit /\ \A s \in page : s.at >= row.at
<1>1. PICK skipped \in SUBSET (rows \ page) :
        /\ Cardinality(skipped) = AtMost(0, rows)
        /\ Cardinality(page) = AtMost(limit, rows \ skipped)
        /\ InOrder(page, rows \ (skipped \cup page), "DESC")
  BY DEF Pages
<1>2. page \in SUBSET rows
  BY DEF Pages
<1>3. /\ IsFiniteSet(page) /\ IsFiniteSet(skipped)
      /\ Cardinality(page) \in Nat /\ Cardinality(rows) \in Nat
  BY <1>1, <1>2, FS_Subset, FS_CardinalityType
<1>4. Cardinality(skipped) = 0
  BY <1>1, <1>3 DEF AtMost
<1>5. skipped = {}
  BY <1>3, <1>4, FS_EmptySet
<1>6. Cardinality(page) = limit
  <2> SUFFICES ASSUME Cardinality(page) # limit PROVE FALSE
    OBVIOUS
  <2>1. Cardinality(page) = Cardinality(rows)
    BY <1>1, <1>3, <1>5 DEF AtMost
  <2>2. page = rows
    BY <1>2, <1>3, <2>1, FS_Subset
  <2> QED BY <2>2
<1>7. \A s \in page : s.at >= row.at
  BY <1>1, <1>5 DEF InOrder
<1> QED BY <1>6, <1>7


\* What is emitted is stamped and numbered, and saved later.
LEMMA EmitTyped ==
  ASSUME AuditTypeOK, Numbered,
         NEW event, event.kind \in KeyEvents \cup {"GasTransaction", "APIRequest"},
         event.outcome \in {"success", "failure"}, Emit(event), auditRows' = auditRows,
         reader'.start \in {reader.start} \cup SUBSET auditRows
  PROVE  saving' \subseteq Rows /\ events' \in Nat /\ Numbered'
<1>1. PICK new : new = Row(event)
  OBVIOUS
<1>2. new \in Rows /\ new.id = events + 1
  BY <1>1 DEF Row, Rows, AuditTypeOK
<1>3. events \in Nat /\ \A row \in saving \cup auditRows \cup reader.start : row.id \in Nat
  BY DEF AuditTypeOK, Rows, Readers
<1>4. \A row \in saving \cup auditRows \cup reader.start : row # new
  BY <1>2, <1>3 DEF Numbered
<1>5. reader'.start \subseteq reader.start \cup auditRows
  OBVIOUS
<1>6. CASE UNCHANGED <<events, saving>>
  BY <1>3, <1>5, <1>6 DEF AuditTypeOK, Numbered
<1>7. CASE events' = events + 1 /\ saving' = saving \cup {new}
  <2>1. saving' \cap (auditRows' \cup reader'.start) = {}
    BY <1>4, <1>5, <1>7 DEF Numbered
  <2>2. \A row \in saving' \cup auditRows' \cup reader'.start : row.id <= events'
    BY <1>2, <1>3, <1>5, <1>7 DEF Numbered
  <2> QED BY <1>2, <1>3, <1>7, <2>1, <2>2 DEF AuditTypeOK, Numbered
<1> QED BY <1>1, <1>6, <1>7 DEF Emit

LEMMA InterceptTyped ==
  ASSUME AuditTypeOK, Numbered, Intercept, auditRows' = auditRows,
         reader'.start \in {reader.start} \cup SUBSET auditRows
  PROVE  saving' \subseteq Rows /\ events' \in Nat /\ Numbered'
<1>1. PICK event : event = ApiRequestEvent(200)
  OBVIOUS
<1>2. event.kind = "APIRequest" /\ event.outcome = "success"
  BY <1>1 DEF ApiRequestEvent
<1>3. Emit(event)
  BY <1>1 DEF Intercept
<1> QED BY <1>2, <1>3, EmitTyped

\* A reader depends on its own state and on the rows.
LEMMA ReaderUnmoved ==
  ASSUME ReaderInv, UNCHANGED <<auditRows, reader>>
  PROVE  ReaderInv'
BY ZenonT(30) DEF ReaderInv, ReadersMissNothing, MatchingRows, SharesItsTime, Exempt, Before

LEMMA AuditBegins == AuditInit => AuditInv
<1> SUFFICES ASSUME AuditInit PROVE AuditInv
  OBVIOUS
<1>1. IsFiniteSet(auditRows)
  BY FS_EmptySet DEF AuditInit
<1>2. reader \in Readers /\ reader.step = "idle" /\ reader.start = {}
  BY DEF AuditInit, IdleReader, Readers
<1> QED BY <1>1, <1>2 DEF AuditInit, AuditInv, AuditTypeOK, Numbered, ReaderInv, ReadersMissNothing

\* What a reader awaits stays there, and no row before it goes: a row is saved late or
\* others are deleted.
LEMMA RowsMayChange ==
  ASSUME AuditInv, UNCHANGED <<saving, events, stamp>> \/ reader' = reader, IsFiniteSet(auditRows'),
         auditRows' \subseteq Rows,
         reader' = reader \/ reader' = [reader EXCEPT !.cleaned = TRUE],
         reader.start \cap auditRows' \subseteq auditRows,
         \A row \in reader.start \cap auditRows' : ~SharesItsTime(row)' => ~SharesItsTime(row),
         ~Exempt' => \A row \in reader.start \cap auditRows' :
           Before(row, auditRows, SortOrder(reader.order)) \subseteq auditRows'
  PROVE  ReaderInv'
<1>1. reader \in Readers
  BY DEF AuditInv, AuditTypeOK
<1>2. /\ reader'.step = reader.step /\ reader'.start = reader.start /\ reader'.seen = reader.seen
      /\ reader'.filter = reader.filter /\ reader'.order = reader.order
      /\ reader'.limit = reader.limit /\ reader'.offset = reader.offset
      /\ reader.cleaned => reader'.cleaned
  BY <1>1 DEF Readers
<1>3. ~Exempt' => ~Exempt
  BY <1>2 DEF Exempt
<1>4. \A row \in auditRows \cap auditRows' :
        row \in MatchingRows(reader.filter) <=> row \in MatchingRows(reader.filter)'
  BY <1>2 DEF MatchingRows
<1>5. MatchingRows(reader.filter) \subseteq auditRows /\ MatchingRows(reader.filter)' \subseteq auditRows'
  BY DEF MatchingRows
<1>6. ASSUME reader.step = "reading"
      PROVE  /\ reader'.start \cap auditRows' \subseteq MatchingRows(reader.filter)'
             /\ ~Exempt' =>
                  \A row \in reader'.start \cap auditRows' :
                    \/ row \in reader'.seen \/ SharesItsTime(row)'
                    \/ Cardinality(Before(row, MatchingRows(reader.filter)', SortOrder(reader'.order)))
                         >= reader'.offset
  <2>1. reader.start \cap auditRows \subseteq MatchingRows(reader.filter)
    BY <1>6 DEF AuditInv, ReaderInv
  <2>2. reader'.start \cap auditRows' \subseteq MatchingRows(reader.filter)'
    BY <1>2, <1>4, <2>1
  <2>3. ASSUME ~Exempt', NEW row \in reader.start \cap auditRows', row \notin reader.seen,
               ~SharesItsTime(row)'
        PROVE  Cardinality(Before(row, MatchingRows(reader.filter)', SortOrder(reader.order)))
                 >= reader.offset
    <3> DEFINE B == Before(row, MatchingRows(reader.filter), SortOrder(reader.order))
               C == Before(row, MatchingRows(reader.filter)', SortOrder(reader.order))
    <3>1. Cardinality(B) >= reader.offset
      BY <1>3, <1>6, <2>3 DEF AuditInv, ReaderInv
    <3>2. B \subseteq Before(row, auditRows, SortOrder(reader.order))
      BY <1>5 DEF Before
    <3>3. B \subseteq auditRows'
      BY <2>3, <3>2
    <3>4. B \subseteq C
      BY <1>4, <1>5, <3>3 DEF Before
    <3>5. C \subseteq auditRows'
      BY <1>5 DEF Before
    <3>6. IsFiniteSet(C) /\ Cardinality(C) \in Nat /\ Cardinality(B) \in Nat /\ Cardinality(B) <= Cardinality(C)
      BY <3>4, <3>5, FS_Subset, FS_CardinalityType
    <3>7. reader.offset \in Nat
      BY <1>1 DEF Readers
    <3> QED BY <3>1, <3>6, <3>7
  <2> QED BY <1>2, <2>2, <2>3
<1>7. ReadersMissNothing'
  <2>1. ReadersMissNothing
    BY DEF AuditInv, ReaderInv
  <2>2. ASSUME reader.step = "done", ~Exempt', NEW row \in reader.start \cap auditRows', ~SharesItsTime(row)'
        PROVE  row \in reader.seen
    BY <1>3, <2>1, <2>2 DEF ReadersMissNothing, Exempt
  <2> QED BY <1>2, <2>1, <2>2 DEF ReadersMissNothing, Exempt
<1> QED BY <1>2, <1>6, <1>7 DEF ReaderInv

LEMMA SaveRowKeeps ==
  ASSUME AuditInv, SaveRow
  PROVE  AuditInv'
<1>1. PICK new \in saving : /\ saving' = saving \ {new}
                            /\ auditRows' \in {auditRows \cup {new}, auditRows}
                            /\ UNCHANGED <<events, stamp, reader>>
  BY DEF SaveRow
<1>2. IsFiniteSet(auditRows \cup {new}) /\ auditRows \cup {new} \subseteq Rows
  BY FS_AddElement DEF AuditInv, AuditTypeOK
<1>3. AuditTypeOK'
  BY <1>1, <1>2 DEF AuditInv, AuditTypeOK
<1>4. new \notin auditRows /\ new \notin reader.start
  BY DEF AuditInv, Numbered
<1>5. Numbered'
  BY <1>1, <1>4 DEF AuditInv, Numbered
<1>6. \A row \in auditRows : ~SharesItsTime(row)' => ~SharesItsTime(row)
  BY <1>1 DEF SharesItsTime
<1>7. reader.start \cap auditRows' \subseteq auditRows /\ auditRows \subseteq auditRows'
  BY <1>1, <1>4
<1>8. \A row : Before(row, auditRows, SortOrder(reader.order)) \subseteq auditRows'
  BY <1>7 DEF Before
<1>9. ReaderInv'
  BY <1>1, <1>3, <1>6, <1>7, <1>8, RowsMayChange DEF AuditTypeOK
<1> QED BY <1>3, <1>5, <1>9 DEF AuditInv

LEMMA CleanupKeeps ==
  ASSUME AuditInv, RetentionCleanup
  PROVE  AuditInv'
<1>1. PICK cutoff \in 0 .. stamp : auditRows' = {row \in auditRows : row.at >= cutoff}
  BY DEF RetentionCleanup
<1>2. /\ reader' = [reader EXCEPT !.cleaned = TRUE] /\ UNCHANGED <<saving, events, stamp>>
      /\ reader \in Readers
  BY DEF RetentionCleanup, AuditInv, AuditTypeOK
<1>3. auditRows' \subseteq auditRows
  BY <1>1
<1>4. reader' \in Readers /\ reader'.start = reader.start /\ reader'.cleaned /\ reader'.order = reader.order
  BY <1>2 DEF Readers
<1>5. AuditTypeOK'
  BY <1>2, <1>3, <1>4, FS_Subset DEF AuditInv, AuditTypeOK
<1>6. Numbered'
  BY <1>2, <1>3, <1>4 DEF AuditInv, Numbered
<1>7. cutoff \in Nat /\ \A row \in auditRows : row.at \in Nat
  BY DEF AuditInv, AuditTypeOK, Rows
<1>8. ASSUME NEW row \in auditRows', ~SharesItsTime(row)' PROVE ~SharesItsTime(row)
  BY <1>1, <1>8 DEF SharesItsTime
<1>9. ASSUME ~Exempt', NEW row \in auditRows'
      PROVE  Before(row, auditRows, SortOrder(reader.order)) \subseteq auditRows'
  <2>1. reader.order # "ASC" /\ reader.order \in {"", "ASC", "DESC"}
    BY <1>2, <1>4, <1>9, AuditLogAssumption DEF Exempt, Readers
  <2>2. SortOrder(reader.order) = "DESC"
    BY <2>1 DEF SortOrder
  <2>3. \A s \in auditRows : s.at > row.at => s \in auditRows'
    BY <1>1, <1>7
  <2> QED BY <2>2, <2>3 DEF Before
<1>10. ReaderInv'
  BY <1>2, <1>3, <1>5, <1>8, <1>9, RowsMayChange DEF AuditTypeOK
<1> QED BY <1>5, <1>6, <1>10 DEF AuditInv

\* What a client reads.
LEMMA StartReadingKeeps ==
  ASSUME AuditInv, StartReading
  PROVE  AuditInv'
<1>1. PICK filter \in AuditFilters, order \in SortOrders, limit \in PageLimits :
        reader' = [IdleReader EXCEPT !.step = "reading", !.filter = filter, !.order = order,
                     !.limit = limit, !.start = MatchingRows(filter)]
  BY DEF StartReading
<1>2. UNCHANGED <<auditRows, saving, events, stamp>>
  BY DEF StartReading
<1>3. PICK rows : rows = MatchingRows(filter)
  OBVIOUS
<1>4. rows \subseteq auditRows /\ rows \subseteq Rows /\ limit \in Nat
  BY <1>3, AuditLogAssumption DEF MatchingRows, AuditInv, AuditTypeOK
<1>5. reader' = [step |-> "reading", filter |-> filter, order |-> order, limit |-> limit, offset |-> 0,
                 start |-> rows, seen |-> {}, cleaned |-> FALSE]
  BY <1>1, <1>3 DEF IdleReader
<1>6. /\ reader' \in Readers /\ reader'.start = rows /\ reader'.filter = filter
      /\ reader'.offset = 0 /\ reader'.step = "reading"
  BY <1>4, <1>5 DEF Readers
<1>7. AuditTypeOK' /\ Numbered'
  BY <1>2, <1>4, <1>6 DEF AuditInv, AuditTypeOK, Numbered
<1>8. MatchingRows(filter)' = rows
  BY <1>2, <1>3 DEF MatchingRows
<1>9. ASSUME NEW row PROVE Cardinality(Before(row, rows, SortOrder(reader'.order))) >= 0
  <2>1. IsFiniteSet(rows) /\ Before(row, rows, SortOrder(reader'.order)) \subseteq rows
    BY <1>4, FS_Subset DEF AuditInv, AuditTypeOK, Before
  <2>2. Cardinality(Before(row, rows, SortOrder(reader'.order))) \in Nat
    BY <2>1, FS_Subset, FS_CardinalityType
  <2> QED BY <2>2
<1>10. ReaderInv'
  BY <1>6, <1>8, <1>9 DEF ReaderInv, ReadersMissNothing
<1> QED BY <1>7, <1>10 DEF AuditInv

LEMMA GetLogsKeeps ==
  ASSUME AuditInv, GetLogs
  PROVE  AuditInv'
<1> DEFINE rows == MatchingRows(reader.filter)
           order == SortOrder(reader.order)
           limit == LimitOf(reader.limit)
<1>1. PICK page \in Pages(rows, order, limit, reader.offset) :
        reader' = [reader EXCEPT !.seen = @ \cup page, !.offset = @ + limit,
                     !.step = IF Cardinality(page) < limit THEN "done" ELSE @]
  BY DEF GetLogs
<1>2. reader.step = "reading" /\ Intercept /\ UNCHANGED <<auditRows, stamp>>
  BY DEF GetLogs
<1>3. /\ reader \in Readers /\ auditRows \subseteq Rows /\ IsFiniteSet(auditRows)
      /\ AuditTypeOK /\ Numbered /\ ReaderInv
  BY DEF AuditInv, AuditTypeOK
<1>4. rows \subseteq auditRows /\ IsFiniteSet(rows) /\ rows \in SUBSET Rows
  BY <1>3, FS_Subset DEF MatchingRows
<1>5. limit \in Nat /\ order \in {"ASC", "DESC"} /\ reader.offset \in Nat
  BY <1>3, AuditLogAssumption DEF Readers, LimitOf, SortOrder
<1>6. page \in SUBSET rows
  BY DEF Pages
<1>7. IsFiniteSet(page) /\ Cardinality(page) \in Nat
  BY <1>4, <1>6, FS_Subset, FS_CardinalityType
<1> HIDE DEF rows, order, limit
<1>8. /\ reader'.seen = reader.seen \cup page /\ reader'.offset = reader.offset + limit
      /\ reader'.step = (IF Cardinality(page) < limit THEN "done" ELSE "reading")
      /\ reader'.start = reader.start /\ reader'.filter = reader.filter
      /\ reader'.order = reader.order /\ reader'.cleaned = reader.cleaned
      /\ reader' \in Readers
  <2> DEFINE f == reader.filter
             o == reader.order
             l == reader.limit
             n == reader.offset
             b == reader.start
             e == reader.seen
             c == reader.cleaned
             s == IF Cardinality(page) < limit THEN "done" ELSE "reading"
  <2>1. /\ f \in AuditFilters \cup {IdleReader.filter} /\ o \in SortOrders \cup {""} /\ l \in Nat
        /\ n \in Nat /\ b \in SUBSET Rows /\ e \in SUBSET Rows /\ c \in BOOLEAN
        /\ s \in {"idle", "reading", "done", "latest"}
        /\ reader = [step |-> "reading", filter |-> f, order |-> o, limit |-> l, offset |-> n,
                     start |-> b, seen |-> e, cleaned |-> c]
    BY <1>2, <1>3 DEF Readers
  <2> HIDE DEF f, o, l, n, b, e, c, s
  <2>2. reader' = [step |-> s, filter |-> f, order |-> o, limit |-> l, offset |-> n + limit,
                   start |-> b, seen |-> e \cup page, cleaned |-> c]
    BY <1>1, <2>1 DEF s
  <2>3. n + limit \in Nat
    <3>1. n \in Nat /\ limit \in Nat
      BY <1>5, <2>1
    <3> QED BY <3>1
  <2>4. e \cup page \in SUBSET Rows
    BY <1>4, <1>6, <2>1
  <2>5. reader' \in Readers
    BY <2>1, <2>2, <2>3, <2>4, ReaderTyped
  <2> QED BY <2>1, <2>2, <2>5 DEF f, o, l, n, b, e, c, s
<1>9. AuditTypeOK' /\ Numbered'
  BY <1>2, <1>3, <1>8, InterceptTyped DEF AuditTypeOK
<1>10. reader.start \cap auditRows \subseteq rows
  BY <1>2, <1>3 DEF ReaderInv, rows
<1>11. rows = MatchingRows(reader.filter)' /\ order = SortOrder(reader'.order)
  BY <1>2, <1>8 DEF rows, order, MatchingRows
<1>12. \A row : SharesItsTime(row)' <=> SharesItsTime(row)
  BY <1>2 DEF SharesItsTime
<1>13. ASSUME ~Exempt, NEW row \in reader.start \cap auditRows, row \notin reader'.seen,
              ~SharesItsTime(row)
       PROVE  /\ Cardinality(page) = limit
              /\ Cardinality(Before(row, rows, order)) >= reader.offset + limit
  <2>1. row \in rows \ page
    BY <1>8, <1>10, <1>13
  <2>2. Cardinality(Before(row, rows, order)) >= reader.offset
    BY <1>2, <1>3, <1>8, <1>13 DEF ReaderInv, rows, order
  <2>3. \A s \in rows \ {row} : s.at # row.at
    BY <1>4, <1>13 DEF SharesItsTime
  <2> QED BY <1>4, <1>5, <2>1, <2>2, <2>3, PageIsBefore
<1>14. Exempt' <=> Exempt
  BY <1>8 DEF Exempt
<1>15. ReaderInv'
  <2>1. reader'.step = "reading" =>
          /\ reader'.start \cap auditRows' \subseteq MatchingRows(reader.filter)'
          /\ ~Exempt' =>
               \A row \in reader'.start \cap auditRows' :
                 \/ row \in reader'.seen \/ SharesItsTime(row)'
                 \/ Cardinality(Before(row, MatchingRows(reader.filter)', SortOrder(reader'.order)))
                      >= reader'.offset
    BY <1>2, <1>8, <1>10, <1>11, <1>12, <1>13, <1>14
  <2>2. reader'.step = "done" /\ ~Exempt' =>
          \A row \in reader'.start \cap auditRows' : row \in reader'.seen \/ SharesItsTime(row)'
    BY <1>2, <1>5, <1>7, <1>8, <1>12, <1>13, <1>14
  <2>3. reader'.step # "latest"
    BY <1>8
  <2> QED BY <2>1, <2>2, <2>3 DEF ReaderInv, ReadersMissNothing, Exempt
<1> QED BY <1>9, <1>15 DEF AuditInv

\* The answers of the latest rows, whatever they were asked for by.
LEMMA LatestKeeps ==
  ASSUME AuditInv, NEW filter \in AuditFilters \cup {IdleReader.filter}, NEW rows \in SUBSET auditRows,
         NEW limit \in Nat, NEW page \in Pages(rows, "DESC", limit, 0),
         reader' = [IdleReader EXCEPT !.step = "latest", !.filter = filter, !.limit = limit,
                      !.start = rows, !.seen = page],
         Intercept, UNCHANGED <<auditRows, stamp>>
  PROVE  AuditInv'
<1>1. auditRows \subseteq Rows /\ IsFiniteSet(auditRows) /\ AuditTypeOK /\ Numbered
  BY DEF AuditInv, AuditTypeOK
<1>2. rows \in SUBSET Rows /\ IsFiniteSet(rows)
  BY <1>1, FS_Subset
<1>3. page \in SUBSET rows
  BY DEF Pages
<1>4. reader' = [step |-> "latest", filter |-> filter, order |-> "", limit |-> limit, offset |-> 0,
                 start |-> rows, seen |-> page, cleaned |-> FALSE]
  BY DEF IdleReader
<1>5. /\ reader' \in Readers /\ reader'.step = "latest" /\ reader'.start = rows
      /\ reader'.seen = page /\ reader'.limit = limit
  <2>1. "" \in SortOrders \cup {""} /\ rows \subseteq Rows /\ page \subseteq Rows /\ 0 \in Nat
    BY <1>2, <1>3
  <2>2. "latest" \in {"idle", "reading", "done", "latest"} /\ FALSE \in BOOLEAN
    OBVIOUS
  <2>3. [step |-> "latest", filter |-> filter, order |-> "", limit |-> limit, offset |-> 0,
         start |-> rows, seen |-> page, cleaned |-> FALSE] \in Readers
    BY <2>1, <2>2, ReaderTyped, Zenon
  <2>4. reader' \in Readers
    BY <1>4, <2>3
  <2> QED BY <1>4, <2>4
<1>6. AuditTypeOK' /\ Numbered'
  BY <1>1, <1>5, InterceptTyped DEF AuditTypeOK
<1>7. \A row \in rows \ page : Cardinality(page) = limit /\ \A s \in page : s.at >= row.at
  BY <1>2, LatestIsLatest
<1>8. ReaderInv'
  BY <1>5, <1>7 DEF ReaderInv, ReadersMissNothing
<1> QED BY <1>6, <1>8 DEF AuditInv

LEMMA AuditStep == AuditInv /\ [AuditNext]_auditVars => AuditInv'
<1> SUFFICES ASSUME AuditInv, [AuditNext]_auditVars PROVE AuditInv'
  OBVIOUS
<1>1. AuditTypeOK /\ Numbered /\ ReaderInv
  BY DEF AuditInv
<1>2. CASE StampPasses
  BY <1>1, <1>2, ReaderUnmoved DEF StampPasses, AuditInv, AuditTypeOK, Numbered
<1>3. CASE ServiceEvent
  <2>1. PICK event \in ApiKeyEvents \cup {GasTransactionEvent} : Emit(event)
    BY <1>3 DEF ServiceEvent
  <2>2. event.kind \in KeyEvents \cup {"GasTransaction", "APIRequest"} /\ event.outcome = "success"
    BY DEF ApiKeyEvents, GasTransactionEvent
  <2>3. UNCHANGED <<auditRows, stamp, reader>>
    BY <1>3 DEF ServiceEvent
  <2>4. saving' \subseteq Rows /\ events' \in Nat /\ Numbered'
    BY <1>1, <2>1, <2>2, <2>3, EmitTyped
  <2> QED BY <1>1, <2>3, <2>4, ReaderUnmoved DEF AuditInv, AuditTypeOK
<1>4. CASE Request
  <2>1. saving' \subseteq Rows /\ events' \in Nat /\ Numbered'
    BY <1>1, <1>4, InterceptTyped DEF Request
  <2> QED BY <1>1, <1>4, <2>1, ReaderUnmoved DEF Request, AuditInv, AuditTypeOK
<1>5. CASE FindLatest
  <2>1. PICK filter \in AuditFilters : \E page \in Pages(MatchingRows(filter), "DESC", LatestLimit, 0) :
          reader' = [IdleReader EXCEPT !.step = "latest", !.filter = filter, !.limit = LatestLimit,
                       !.start = MatchingRows(filter), !.seen = page]
    BY <1>5 DEF FindLatest
  <2>2. MatchingRows(filter) \in SUBSET auditRows /\ LatestLimit \in Nat
    BY AuditLogAssumption DEF MatchingRows
  <2>3. PICK page \in Pages(MatchingRows(filter), "DESC", LatestLimit, 0) :
          reader' = [IdleReader EXCEPT !.step = "latest", !.filter = filter, !.limit = LatestLimit,
                       !.start = MatchingRows(filter), !.seen = page]
    BY <2>1
  <2> QED BY <1>5, <2>2, <2>3, LatestKeeps DEF FindLatest
<1>6. CASE ExportLogs
  <2>1. PICK page \in Pages(auditRows, "DESC", DefaultLimit, 0) :
          reader' = [IdleReader EXCEPT !.step = "latest", !.limit = DefaultLimit,
                       !.start = auditRows, !.seen = page]
    BY <1>6 DEF ExportLogs, SortOrder
  <2>2. reader' = [IdleReader EXCEPT !.step = "latest", !.filter = IdleReader.filter,
                     !.limit = DefaultLimit, !.start = auditRows, !.seen = page]
    BY <2>1 DEF IdleReader
  <2>3. DefaultLimit \in Nat
    BY AuditLogAssumption
  <2> QED BY <1>6, <2>2, <2>3, LatestKeeps DEF ExportLogs
<1>7. CASE Leave
  <2>1. reader' \in Readers /\ reader'.step = "idle" /\ reader'.start = {}
    BY <1>7 DEF Leave, IdleReader, Readers
  <2> QED BY <1>1, <1>7, <2>1 DEF Leave, AuditInv, AuditTypeOK, Numbered, ReaderInv, ReadersMissNothing
<1>8. CASE UNCHANGED auditVars
  BY <1>1, <1>8, ReaderUnmoved DEF auditVars, AuditInv, AuditTypeOK, Numbered
<1> QED
  BY <1>2, <1>3, <1>4, <1>5, <1>6, <1>7, <1>8, SaveRowKeeps, CleanupKeeps, StartReadingKeeps, GetLogsKeeps
     DEF AuditNext

\* A client that asks for page after page misses no row that was there all along, but one
\* that shares its time, or when the oldest come first and some are deleted: for any
\* number of rows, filters, limits and late saves (findWithFilters, deleteOlderThan).
THEOREM ReadersNeverMiss == AuditSpec => []ReadersMissNothing
<1>1. AuditInv => ReadersMissNothing
  BY DEF AuditInv, ReaderInv
<1> QED BY <1>1, AuditBegins, AuditStep, PTL DEF AuditSpec

-----------------------------------------------------------------------------
(* ExportsService *)

Block == [time : Nat, tx : TxKinds]

(* Times along a chain grow. *)
ChainOK(chain) ==
  /\ chain \in Seq(Block) /\ Len(chain) >= 1
  /\ \A i, j \in 1..Len(chain) : i < j => chain[i].time < chain[j].time

(* A transaction that an export from one time to another has to list. *)
Asked(chain, from, to, n) ==
  /\ chain[n].tx.own /\ chain[n].time >= from /\ chain[n].time <= to
  /\ chain[n].tx.logs > 0

(* One that an export must not miss: its block is not before the first that was          *)
(* estimated, or blocks took the average time since.                                     *)
Due(chain, e, n) ==
  /\ Asked(chain, e.from, e.to, n)
  /\ n >= e.first \/ chain[n].time + (e.latest - n) * BlockTime <= e.to

Sorting(chain, records) ==
  {rows \in [1 .. Cardinality(records) -> records] :
     \A i, j \in DOMAIN rows : i < j => chain[rows[i]].time < chain[rows[j]].time}

FirstSorting(chain, records) == CHOOSE rows \in Sorting(chain, records) : TRUE

LEMMA ByTimeIsFirst == ASSUME NEW records PROVE ByTime(records) = FirstSorting(blocks, records)
BY DEF ByTime, FirstSorting, Sorting

LEMMA BlockTyped ==
  ASSUME NEW chain, ChainOK(chain), NEW n \in 1..Len(chain)
  PROVE  /\ chain[n] \in Block /\ chain[n].time \in Nat
         /\ chain[n].tx.own \in BOOLEAN /\ chain[n].tx.logs \in Nat
<1>1. chain[n] \in Block
  BY DEF ChainOK
<1>2. chain[n].time \in Nat /\ chain[n].tx \in TxKinds
  BY <1>1 DEF Block
<1>3. chain[n].tx \in [own : BOOLEAN, logs : Nat]
  BY <1>2, ExportsAssumption
<1> QED BY <1>1, <1>2, <1>3

(* One more block. *)
LEMMA ChainGrows ==
  ASSUME NEW chain, ChainOK(chain), NEW gap \in Gaps, NEW kind \in TxKinds, NEW longer,
         longer = Append(chain, [time |-> chain[Len(chain)].time + gap, tx |-> kind])
  PROVE  /\ ChainOK(longer) /\ Len(longer) = Len(chain) + 1
         /\ \A i \in 1..Len(chain) : longer[i] = chain[i]
<1> DEFINE k == Len(chain)
           block == [time |-> chain[k].time + gap, tx |-> kind]
<1>1. k \in Nat /\ k >= 1 /\ chain \in Seq(Block) /\ chain[k] \in Block /\ gap \in Nat \ {0}
  BY ExportsAssumption DEF ChainOK
<1>2. chain[k].time \in Nat
  BY <1>1 DEF Block
<1>3. block \in Block
  BY <1>1, <1>2 DEF Block
<1>4. /\ longer \in Seq(Block) /\ Len(longer) = k + 1
      /\ \A i \in 1..k : longer[i] = chain[i]
      /\ longer[k + 1] = block
  <2> HIDE DEF k, block
  <2> QED BY <1>1, <1>3, AppendProperties DEF k, block
<1>5. longer[k + 1].time = chain[k].time + gap
  BY <1>4
<1>6. \A i \in 1..k : chain[i].time \in Nat
  BY BlockTyped
<1> HIDE DEF k, block
<1>7. \A i \in 1..k : longer[i].time = chain[i].time
  BY <1>4
<1>8. ASSUME NEW i \in 1..(k + 1), NEW j \in 1..(k + 1), i < j
      PROVE  longer[i].time < longer[j].time
  <2>0. j \in 1..k \/ j = k + 1
    BY <1>1
  <2>1. i \in 1..k /\ i \in Int
    BY <1>1, <1>8
  <2>2. CASE j \in 1..k
    <3>1. chain[i].time < chain[j].time
      BY <2>1, <2>2, <1>8 DEF ChainOK, k
    <3> QED BY <2>1, <2>2, <3>1, <1>7
  <2>3. CASE j = k + 1
    <3>1. i = k \/ chain[i].time < chain[k].time
      BY <2>1, <1>1 DEF ChainOK, k
    <3>2. longer[i].time = chain[i].time /\ longer[j].time = chain[k].time + gap
      BY <2>1, <2>3, <1>5, <1>7
    <3>3. chain[i].time \in Nat /\ chain[k].time \in Nat
      BY <2>1, <1>2, <1>6
    <3>4. PICK x \in Nat, y \in Nat : x = chain[i].time /\ y = chain[k].time
      BY <3>3
    <3>5. (i = k => x = y) /\ (i # k => x < y)
      BY <3>1, <3>4
    <3>6. x < y + gap
      BY <3>5, <3>4, <1>1
    <3> QED BY <3>2, <3>4, <3>6
  <2> QED BY <2>0, <2>2, <2>3
<1>9. ChainOK(longer)
  <2>1. longer \in Seq(Block) /\ Len(longer) >= 1
    BY <1>1, <1>4
  <2>2. \A i, j \in 1..Len(longer) : i < j => longer[i].time < longer[j].time
    BY <1>4, <1>8
  <2> QED BY <2>1, <2>2 DEF ChainOK
<1> QED BY <1>4, <1>9 DEF k

(* Any set of blocks can be sorted by time, and a sorting lists all of them. *)
LEMMA SortingExists ==
  ASSUME NEW chain, ChainOK(chain), NEW records \in SUBSET (1..Len(chain))
  PROVE  Sorting(chain, records) # {}
<1> DEFINE D == 1..Len(chain)
           X == {U \in SUBSET D : Sorting(chain, U) # {}}
<1>1. Len(chain) \in Nat /\ IsFiniteSet(D) /\ D \subseteq Nat
  <2>1. Len(chain) \in Nat
    BY DEF ChainOK
  <2>2. IsFiniteSet(1..Len(chain))
    BY <2>1, FS_Interval
  <2> QED BY <2>1, <2>2
<1>2. \A U \in SUBSET D : IsFiniteSet(U) /\ Cardinality(U) \in Nat
  BY <1>1, FS_Subset, FS_CardinalityType
<1>3. ASSUME NEW U \in SUBSET D, \A W \in SUBSET U : W # U => W \in X PROVE U \in X
  <2>1. CASE U = {}
    <3>1. Cardinality(U) = 0 /\ 1..0 = {}
      BY <2>1, FS_EmptySet
    <3> DEFINE none == [i \in 1..Cardinality(U) |-> i]
    <3>2. none \in [1..Cardinality(U) -> U] /\ DOMAIN none = {}
      BY <3>1
    <3> HIDE DEF none
    <3>3. none \in Sorting(chain, U)
      BY <3>2 DEF Sorting
    <3> QED BY <3>3
  <2>2. CASE U # {}
    <3>1. PICK u \in U : \A m \in U : m <= u
      BY <1>1, <1>2, <2>2, GreatestNumber
    <3> DEFINE W == U \ {u}
               k == Cardinality(W)
    <3>2. W \in SUBSET U /\ W # U
      BY <3>1
    <3>3. k \in Nat /\ Cardinality(U) = k + 1
      BY <3>1, <1>2, FS_RemoveElement
    <3>4. PICK rows : rows \in Sorting(chain, W)
      BY <3>2, <1>3
    <3>5. /\ rows \in [1..k -> W]
          /\ \A i, j \in 1..k : i < j => chain[rows[i]].time < chain[rows[j]].time
      BY <3>4 DEF Sorting
    <3> HIDE DEF k
    <3> DEFINE more == [i \in 1..(k + 1) |-> IF i = k + 1 THEN u ELSE rows[i]]
    <3>6. /\ more \in [1..(k + 1) -> U] /\ DOMAIN more = 1..(k + 1)
          /\ more[k + 1] = u /\ \A i \in 1..k : more[i] = rows[i]
      <4>1. \A i \in 1..(k + 1) : i # k + 1 => i \in 1..k
        BY <3>3
      <4>2. \A i \in 1..k : i \in 1..(k + 1) /\ i # k + 1
        BY <3>3
      <4>3. k + 1 \in 1..(k + 1)
        BY <3>3
      <4> QED BY <3>1, <3>5, <4>1, <4>2, <4>3
    <3> HIDE DEF more
    <3>7. ASSUME NEW i \in 1..(k + 1), NEW j \in 1..(k + 1), i < j
          PROVE  chain[more[i]].time < chain[more[j]].time
      <4>1. i \in 1..k
        BY <3>3, <3>7
      <4>2. CASE j \in 1..k
        BY <4>1, <4>2, <3>5, <3>6, <3>7
      <4>3. CASE j = k + 1
        <5>1. rows[i] \in W /\ rows[i] <= u /\ rows[i] # u
          BY <4>1, <3>1, <3>5
        <5>4. rows[i] \in 1..Len(chain) /\ u \in 1..Len(chain)
          BY <5>1, <3>1, <3>2
        <5>2. rows[i] \in 1..Len(chain) /\ u \in 1..Len(chain) /\ rows[i] < u
          BY <5>1, <5>4, <1>1
        <5>3. chain[rows[i]].time < chain[u].time
          BY <5>2 DEF ChainOK
        <5> QED BY <4>1, <4>3, <5>3, <3>6
      <4> QED BY <4>2, <4>3, <3>3
    <3>8. more \in Sorting(chain, U)
      BY <3>3, <3>6, <3>7 DEF Sorting
    <3> QED BY <3>8
  <2> QED BY <2>1, <2>2
<1>4. SUBSET D \subseteq X
  <2> HIDE DEF D, X
  <2> QED BY <1>1, <1>3, InductionOverSets
<1> QED BY <1>4

LEMMA FirstSorted ==
  ASSUME NEW chain, ChainOK(chain), NEW records \in SUBSET (1..Len(chain)),
         NEW rows, rows = FirstSorting(chain, records)
  PROVE  /\ Cardinality(records) \in Nat
         /\ rows \in Seq(records) /\ Len(rows) = Cardinality(records)
         /\ \A i, j \in 1..Len(rows) : i < j => chain[rows[i]].time < chain[rows[j]].time
         /\ \A n \in records : \E i \in 1..Len(rows) : rows[i] = n
<1> DEFINE k == Cardinality(records)
<1>1. rows \in Sorting(chain, records)
  BY SortingExists DEF FirstSorting
<1>2. IsFiniteSet(records) /\ k \in Nat
  <2>1. Len(chain) \in Nat
    BY DEF ChainOK
  <2>2. IsFiniteSet(1..Len(chain))
    BY <2>1, FS_Interval
  <2> QED BY <2>2, FS_Subset, FS_CardinalityType
<1>3. /\ rows \in [1..k -> records]
      /\ \A i, j \in 1..k : i < j => chain[rows[i]].time < chain[rows[j]].time
  BY <1>1 DEF Sorting
<1>4. ASSUME NEW i \in 1..k, NEW j \in 1..k, i # j PROVE rows[i] # rows[j]
  <2>1. \A n \in 1..Len(chain) : chain[n].time \in Nat
    BY BlockTyped
  <2>2. rows[i] \in 1..Len(chain) /\ rows[j] \in 1..Len(chain)
    BY <1>3
  <2>3. i < j \/ j < i
    BY <1>2, <1>4
  <2> QED BY <1>3, <2>1, <2>2, <2>3
<1>5. rows \in Injection(1..k, records)
  BY <1>3, <1>4 DEF Injection, IsInjective
<1>6. Cardinality(1..k) = k
  BY <1>2, FS_Interval
<1>7. rows \in Surjection(1..k, records)
  BY <1>2, <1>5, <1>6, FS_Injection
<1>8. \A n \in records : \E i \in 1..k : rows[i] = n
  BY <1>7 DEF Surjection
<1>9. rows \in Seq(records) /\ Len(rows) = k
  BY <1>2, <1>3
<1> QED BY <1>2, <1>3, <1>8, <1>9

(* What is sorted stays so while the chain grows. *)
LEMMA SortingStays ==
  ASSUME NEW chain, NEW longer, \A i \in 1..Len(chain) : longer[i] = chain[i],
         NEW records \in SUBSET (1..Len(chain))
  PROVE  FirstSorting(longer, records) = FirstSorting(chain, records)
<1>1. ASSUME NEW rows \in [1 .. Cardinality(records) -> records],
             NEW i \in DOMAIN rows
      PROVE  longer[rows[i]] = chain[rows[i]]
  OBVIOUS
<1>2. Sorting(longer, records) = Sorting(chain, records)
  BY <1>1, Zenon DEF Sorting
<1> QED BY <1>2 DEF FirstSorting

(* How far an export is: what is read and listed so far, all of it asked for, and what *)
(* is not lost of what has to be listed.                                               *)
ExportSteps == {"idle", "range", "logs", "records", "stream", "ended"}

ExportType ==
  [step : ExportSteps, from : Int, to : Int,
   first : Int, latest : Nat, next : Int, hashes : SUBSET Nat, records : SUBSET Nat,
   rows : Seq(Nat), buffered : Int, whole : BOOLEAN]

NoneLost(chain, e) ==
  e.whole =>
    \A n \in 1..e.latest : Due(chain, e, n) =>
      /\ e.step = "logs" => n \in e.hashes \/ n >= e.next
      /\ e.step = "records" => n \in e.hashes \/ n \in e.records
      /\ e.step \in {"stream", "ended"} => n \in e.records

Written(chain, e) ==
  /\ e.step \notin {"stream", "ended"} => e.rows = <<>>
  /\ e.step = "stream" => e.next = Len(e.rows) + 1
  /\ e.step = "ended" => Len(e.rows) = Cardinality(e.records)
  /\ e.step \in {"stream", "ended"} =>
       /\ Len(e.rows) <= Cardinality(e.records)
       /\ \A i \in 1..Len(e.rows) : e.rows[i] = FirstSorting(chain, e.records)[i]

Listed(chain, e) ==
  /\ e \in ExportType
  /\ e.latest <= Len(chain)
  /\ e.hashes \subseteq 1..e.latest /\ \A n \in e.hashes : chain[n].tx.logs > 0
  /\ e.records \subseteq 1..e.latest
  /\ \A n \in e.records : Asked(chain, e.from, e.to, n)
  /\ e.step \in {"range", "logs"} => e.records = {}
  /\ e.step = "logs" => e.next >= 1

ExportOK(chain, e) == Listed(chain, e) /\ NoneLost(chain, e) /\ Written(chain, e)

LEMMA NoExportOK ==
  ASSUME NEW chain, ChainOK(chain)
  PROVE  ExportOK(chain, NoExport)
<1>1. Len(chain) \in Nat
  BY DEF ChainOK
<1>2. NoExport \in ExportType
  <2>0. << >> \in Seq(Nat) /\ Unset \in Int
    BY DEF Unset
  <2>1. PICK none \in Seq(Nat), unset \in Int : none = << >> /\ unset = Unset
    BY <2>0, Zenon
  <2>2. NoExport = [step |-> "idle", from |-> unset, to |-> unset, first |-> 1, latest |-> 0,
                    next |-> 1, hashes |-> {}, records |-> {}, rows |-> none, buffered |-> 0,
                    whole |-> TRUE]
    BY <2>1 DEF NoExport
  <2> QED BY <2>2 DEF ExportType, ExportSteps
<1>3. Listed(chain, NoExport)
  BY <1>1, <1>2 DEF Listed, NoExport
<1>4. NoneLost(chain, NoExport) /\ Written(chain, NoExport)
  BY DEF NoneLost, Written, NoExport
<1> QED BY <1>3, <1>4 DEF ExportOK

(* An export does not notice that the chain grows. *)
LEMMA GrowthIsHarmless ==
  ASSUME NEW chain, ChainOK(chain), NEW longer, Len(longer) = Len(chain) + 1,
         \A i \in 1..Len(chain) : longer[i] = chain[i], NEW e, ExportOK(chain, e)
  PROVE  ExportOK(longer, e)
<1>1. Len(chain) \in Nat /\ e.latest \in Nat /\ e.latest <= Len(chain)
  BY DEF ChainOK, ExportOK, Listed, ExportType
<1>2. 1..e.latest \subseteq 1..Len(chain)
  BY <1>1
<1>3. \A n \in 1..e.latest : longer[n] = chain[n]
  BY <1>2
<1>4. \A n \in 1..e.latest : /\ Asked(longer, e.from, e.to, n) <=> Asked(chain, e.from, e.to, n)
                             /\ Due(longer, e, n) <=> Due(chain, e, n)
  BY <1>3, Zenon DEF Asked, Due
<1>5. Listed(longer, e)
  <2>1. Listed(chain, e)
    BY DEF ExportOK
  <2>2. e.hashes \subseteq 1..e.latest /\ e.records \subseteq 1..e.latest
    BY <2>1 DEF Listed
  <2>3. \A n \in e.hashes : longer[n].tx.logs > 0
    BY <2>1, <2>2, <1>3 DEF Listed
  <2>4. \A n \in e.records : Asked(longer, e.from, e.to, n)
    BY <2>1, <2>2, <1>4 DEF Listed
  <2>5. e.latest <= Len(longer)
    BY <1>1
  <2> QED BY <2>1, <2>3, <2>4, <2>5 DEF Listed
<1>6. NoneLost(longer, e)
  BY <1>4, Zenon DEF ExportOK, NoneLost
<1>7. FirstSorting(longer, e.records) = FirstSorting(chain, e.records)
  <2>1. e.records \in SUBSET (1..Len(chain))
    BY <1>2 DEF ExportOK, Listed
  <2> QED BY <2>1, SortingStays
<1>8. Written(longer, e)
  BY <1>7 DEF ExportOK, Written
<1> QED BY <1>5, <1>6, <1>8 DEF ExportOK

LEMMA RangeResolved ==
  ASSUME NEW chain, ChainOK(chain), NEW from \in Int, NEW to \in Int,
         NEW none \in Seq(Nat), none = << >>, NEW latest \in Nat, latest = Len(chain), NEW x,
         x = [step |-> "range", from |-> from, to |-> to, first |-> 1, latest |-> latest,
              next |-> 1, hashes |-> {}, records |-> {}, rows |-> none, buffered |-> 0,
              whole |-> TRUE]
  PROVE  ExportOK(chain, x)
<1>1. x \in ExportType
  BY DEF ExportType, ExportSteps
<1>2. /\ x.step = "range" /\ x.latest = latest /\ x.hashes = {} /\ x.records = {}
      /\ x.rows = none
  OBVIOUS
<1>3. Listed(chain, x)
  BY <1>1, <1>2 DEF Listed
<1>4. NoneLost(chain, x) /\ Written(chain, x)
  BY <1>2 DEF NoneLost, Written
<1> QED BY <1>3, <1>4 DEF ExportOK

(* As many blocks as the time that they may take, rounded up. *)
LEMMA CeilingOfDivision ==
  ASSUME NEW a \in Int, NEW d \in Nat \ {0}, NEW k \in Int, k * d <= a
  PROVE  CeilDiv(a, d) \in Int /\ CeilDiv(a, d) >= k
<1>1. (-a) \div d \in Int
  OBVIOUS
<1>2. PICK q \in Int : q = (-a) \div d
  BY <1>1
<1>3. d * q <= -a
  BY <1>2
<1>4. CASE q > -k
  <2>1. PICK m \in Nat \ {0} : q = m - k
    BY <1>4
  <2>2. d * q = d * m - k * d
    BY <2>1
  <2>3. d * m >= d
    BY <2>1
  <2>4. PICK u \in Int, v \in Int : u = d * m /\ v = k * d
    BY <2>1
  <2>5. u - v <= -a /\ u >= d /\ v <= a
    BY <1>3, <2>2, <2>3, <2>4
  <2> QED BY <2>5
<1>5. CASE q <= -k
  BY <1>2, <1>5 DEF CeilDiv
<1> QED BY <1>2, <1>4, <1>5 DEF CeilDiv

(* A block from the start on since which blocks took the average time is one of those *)
(* that are estimated.                                                                *)
LEMMA FirstIsEarlyEnough ==
  ASSUME NEW latest \in Int, NEW from \in Int, NEW to \in Int, NEW n \in Int, NEW time \in Int,
         time >= from, time + (latest - n) * BlockTime <= to
  PROVE  n >= Greater(1, latest - CeilDiv(to - from, BlockTime)) \/ n < 1
<1>1. BlockTime \in Nat \ {0}
  BY ExportsAssumption
<1>2. PICK a \in Int, k \in Int : a = to - from /\ k = latest - n
  OBVIOUS
<1>3. k * BlockTime \in Int
  BY <1>1
<1>4. k * BlockTime <= a
  BY <1>2, <1>3
<1>5. CeilDiv(a, BlockTime) \in Int /\ CeilDiv(a, BlockTime) >= k
  BY <1>1, <1>4, CeilingOfDivision
<1> QED BY <1>2, <1>5 DEF Greater

LEMMA BlocksEstimated ==
  ASSUME NEW chain, ChainOK(chain), NEW e, ExportOK(chain, e), e.step = "range",
         NEW from \in Int, NEW to \in Int,
         NEW first, first = Greater(1, e.latest - CeilDiv(to - from, BlockTime)),
         NEW x \in ExportType, x.step = "logs", x.from = from, x.to = to, x.next = first,
         x.first = first, x.latest = e.latest, x.hashes = e.hashes, x.records = e.records,
         x.rows = e.rows
  PROVE  ExportOK(chain, x)
<1>1. Listed(chain, e) /\ Written(chain, e) /\ e \in ExportType /\ e.records = {}
  BY DEF ExportOK, Listed
<1>2. first \in Int /\ first >= 1
  <2>1. to - from \in Int /\ BlockTime \in Nat \ {0} /\ e.latest \in Nat
    BY <1>1, ExportsAssumption, SMTT(30) DEF ExportType
  <2>2. (-(to - from)) \div BlockTime \in Int
    BY <2>1
  <2>3. CeilDiv(to - from, BlockTime) \in Int
    BY <2>2 DEF CeilDiv
  <2> QED BY <2>1, <2>3 DEF Greater
<1>3. x.records = {}
  BY <1>1
<1>4. Listed(chain, x)
  BY <1>1, <1>2, <1>3 DEF Listed
<1>5. ASSUME NEW n \in 1..x.latest, Due(chain, x, n)
      PROVE  n >= x.next
  <2>1. PICK latest \in Nat : latest = e.latest /\ latest <= Len(chain) /\ Len(chain) \in Nat
    BY <1>1 DEF Listed, ExportType, ChainOK
  <2>2. n \in 1..latest /\ n \in 1..Len(chain) /\ n >= 1
    BY <2>1
  <2>3. PICK time \in Int : time = chain[n].time
    BY <2>2, BlockTyped
  <2>4. time >= from /\ (n >= first \/ time + (latest - n) * BlockTime <= to)
    BY <1>5, <2>1, <2>3 DEF Due, Asked
  <2>5. CASE n >= first
    BY <2>5
  <2>6. CASE time + (latest - n) * BlockTime <= to
    <3>1. n \in Int /\ latest \in Int
      BY <2>2
    <3>2. n >= Greater(1, latest - CeilDiv(to - from, BlockTime)) \/ n < 1
      BY <2>4, <2>6, <3>1, FirstIsEarlyEnough, ZenonT(30)
    <3> QED BY <2>1, <2>2, <3>2
  <2> QED BY <2>4, <2>5, <2>6
<1>6. NoneLost(chain, x)
  BY <1>5 DEF NoneLost
<1>7. Written(chain, x)
  BY <1>1 DEF Written
<1> QED BY <1>4, <1>6, <1>7 DEF ExportOK

(* A chunk of logs that is read loses none of its blocks; one that is not is noted. *)
LEMMA LogsRead ==
  ASSUME NEW chain, ChainOK(chain), NEW e, ExportOK(chain, e), e.step = "logs",
         NEW found, NEW whole \in BOOLEAN, NEW x,
         x = [e EXCEPT !.next = @ + ChunkSize, !.hashes = @ \cup found, !.whole = whole],
         found \subseteq {n \in e.next .. ChunkEnd(e.next, e.latest) : chain[n].tx.logs > 0},
         whole => /\ e.whole
                  /\ found = {n \in e.next .. ChunkEnd(e.next, e.latest) : chain[n].tx.logs > 0}
  PROVE  ExportOK(chain, x)
<1>1. Listed(chain, e) /\ Written(chain, e) /\ NoneLost(chain, e) /\ e \in ExportType
  BY DEF ExportOK, Listed
<1>2. /\ e.next \in Int /\ e.next >= 1 /\ e.latest \in Nat /\ ChunkSize \in Nat \ {0}
      /\ e.hashes \subseteq 1..e.latest
  BY <1>1, ExportsAssumption DEF Listed, ExportType
<1>3. /\ ChunkEnd(e.next, e.latest) \in Int /\ ChunkEnd(e.next, e.latest) <= e.latest
      /\ \A n \in 1..e.latest : n >= e.next /\ n < e.next + ChunkSize =>
           n \in e.next .. ChunkEnd(e.next, e.latest)
  BY <1>2 DEF ChunkEnd
<1>4. found \subseteq 1..e.latest /\ \A n \in found : chain[n].tx.logs > 0
  BY <1>2, <1>3
<1>5. x \in ExportType
  <2>1. e.hashes \cup found \in SUBSET Nat /\ e.next + ChunkSize \in Int
    BY <1>2, <1>4
  <2> QED BY <1>1, <2>1 DEF ExportType
<1>6. /\ x.step = "logs" /\ x.from = e.from /\ x.to = e.to /\ x.latest = e.latest
      /\ x.first = e.first
      /\ x.next = e.next + ChunkSize /\ x.hashes = e.hashes \cup found
      /\ x.records = e.records /\ x.rows = e.rows /\ x.whole = whole
  BY <1>1 DEF ExportType
<1>7. Listed(chain, x)
  BY <1>1, <1>2, <1>4, <1>5, <1>6 DEF Listed
<1>8. ASSUME x.whole, NEW n \in 1..x.latest, Due(chain, x, n)
      PROVE  n \in x.hashes \/ n >= x.next
  <2>1. n \in 1..e.latest /\ Due(chain, e, n) /\ Asked(chain, e.from, e.to, n) /\ e.whole
        /\ found = {m \in e.next .. ChunkEnd(e.next, e.latest) : chain[m].tx.logs > 0}
    BY <1>6, <1>8 DEF Due
  <2>2. n \in e.hashes \/ n >= e.next
    BY <2>1, <1>1, <1>8 DEF NoneLost
  <2>3. CASE n \in e.hashes
    BY <2>3, <1>6
  <2>4. CASE n >= e.next /\ n < e.next + ChunkSize
    <3>1. n \in e.next .. ChunkEnd(e.next, e.latest) /\ chain[n].tx.logs > 0
      BY <2>1, <2>4, <1>3 DEF Asked
    <3> QED BY <3>1, <2>1, <1>6
  <2>5. n < e.next + ChunkSize \/ n >= e.next + ChunkSize
    BY <1>2
  <2> QED BY <2>2, <2>3, <2>4, <2>5, <1>6
<1>9. NoneLost(chain, x)
  BY <1>6, <1>8 DEF NoneLost
<1>10. Written(chain, x)
  BY <1>1, <1>6 DEF Written
<1> QED BY <1>7, <1>9, <1>10 DEF ExportOK

LEMMA LogsAllRead ==
  ASSUME NEW chain, ChainOK(chain), NEW e, ExportOK(chain, e), e.step = "logs",
         e.next > e.latest, NEW x, x = [e EXCEPT !.step = "records"]
  PROVE  ExportOK(chain, x)
<1>1. Listed(chain, e) /\ Written(chain, e) /\ NoneLost(chain, e) /\ e \in ExportType
  BY DEF ExportOK, Listed
<1>2. /\ x \in ExportType
      /\ x.step = "records" /\ x.from = e.from /\ x.to = e.to /\ x.latest = e.latest
      /\ x.first = e.first /\ x.hashes = e.hashes /\ x.records = e.records /\ x.rows = e.rows /\ x.whole = e.whole
  BY <1>1 DEF ExportType, ExportSteps
<1>3. Listed(chain, x)
  BY <1>1, <1>2 DEF Listed
<1>4. \A n \in 1..e.latest : ~(n >= e.next)
  BY <1>1 DEF ExportType
<1>5. NoneLost(chain, x)
  BY <1>1, <1>2, <1>4 DEF NoneLost, Due
<1>6. Written(chain, x)
  BY <1>1, <1>2 DEF Written
<1> QED BY <1>3, <1>5, <1>6 DEF ExportOK

(* A batch of transactions goes from the hashes to the records, but for those that may *)
(* be left out and those that cannot be read, which is noted.                          *)
LEMMA BatchParsed ==
  ASSUME NEW chain, ChainOK(chain), NEW e, ExportOK(chain, e), e.step = "records",
         NEW batch \in SUBSET e.hashes, NEW read \in SUBSET batch, NEW kept,
         kept = {n \in read : /\ chain[n].tx.own /\ chain[n].time >= e.from
                              /\ chain[n].time <= e.to},
         NEW whole \in BOOLEAN, whole => e.whole /\ read = batch, NEW x,
         x = [e EXCEPT !.hashes = @ \ batch, !.whole = whole, !.records = @ \cup kept]
  PROVE  ExportOK(chain, x)
<1>1. Listed(chain, e) /\ Written(chain, e) /\ NoneLost(chain, e) /\ e \in ExportType
  BY DEF ExportOK, Listed
<1>2. e.latest \in Nat /\ e.hashes \subseteq 1..e.latest /\ e.records \subseteq 1..e.latest
  BY <1>1 DEF Listed, ExportType
<1>3. kept \subseteq 1..e.latest /\ \A n \in kept : Asked(chain, e.from, e.to, n)
  <2>1. \A n \in kept : n \in e.hashes /\ chain[n].tx.logs > 0
    BY <1>1 DEF Listed
  <2> QED BY <1>2, <2>1 DEF Asked
<1>4. x \in ExportType
  <2>1. e.hashes \ batch \in SUBSET Nat /\ e.records \cup kept \in SUBSET Nat
    BY <1>2, <1>3
  <2> QED BY <1>1, <2>1 DEF ExportType
<1>5. /\ x.step = "records" /\ x.from = e.from /\ x.to = e.to /\ x.latest = e.latest
      /\ x.first = e.first
      /\ x.hashes = e.hashes \ batch /\ x.records = e.records \cup kept
      /\ x.rows = e.rows /\ x.whole = whole
  BY <1>1 DEF ExportType
<1>6. Listed(chain, x)
  BY <1>1, <1>2, <1>3, <1>4, <1>5 DEF Listed
<1>7. ASSUME x.whole, NEW n \in 1..x.latest, Due(chain, x, n)
      PROVE  n \in x.hashes \/ n \in x.records
  <2>1. /\ n \in 1..e.latest /\ Due(chain, e, n) /\ Asked(chain, e.from, e.to, n)
        /\ e.whole /\ read = batch
    BY <1>5, <1>7 DEF Due
  <2>2. n \in e.hashes \/ n \in e.records
    BY <2>1, <1>1, <1>7 DEF NoneLost
  <2>3. n \in batch => n \in kept
    BY <2>1 DEF Asked
  <2> QED BY <2>2, <2>3, <1>5
<1>8. NoneLost(chain, x)
  BY <1>5, <1>7 DEF NoneLost
<1>9. Written(chain, x)
  BY <1>1, <1>5 DEF Written
<1> QED BY <1>6, <1>8, <1>9 DEF ExportOK

LEMMA RecordsAreFinite ==
  ASSUME NEW chain, ChainOK(chain), NEW e, Listed(chain, e)
  PROVE  e.records \in SUBSET (1..Len(chain)) /\ Cardinality(e.records) \in Nat
<1>1. Len(chain) \in Nat /\ e.latest <= Len(chain) /\ e.latest \in Nat
  BY DEF ChainOK, Listed, ExportType
<1>2. e.records \in SUBSET (1..Len(chain))
  BY <1>1 DEF Listed
<1>3. IsFiniteSet(1..Len(chain))
  BY <1>1, FS_Interval
<1> QED BY <1>2, <1>3, FS_Subset, FS_CardinalityType

LEMMA StreamBuilt ==
  ASSUME NEW chain, ChainOK(chain), NEW e, ExportOK(chain, e), e.step = "records",
         e.hashes = {}, NEW x, x = [e EXCEPT !.step = "stream", !.next = 1]
  PROVE  ExportOK(chain, x)
<1>1. Listed(chain, e) /\ Written(chain, e) /\ NoneLost(chain, e) /\ e \in ExportType
  BY DEF ExportOK, Listed
<1>2. /\ x \in ExportType
      /\ x.step = "stream" /\ x.from = e.from /\ x.to = e.to /\ x.latest = e.latest
      /\ x.first = e.first /\ x.next = 1 /\ x.hashes = e.hashes /\ x.records = e.records /\ x.rows = e.rows
      /\ x.whole = e.whole
  <2>1. "stream" \in ExportSteps /\ 1 \in Int
    BY DEF ExportSteps
  <2> QED BY <1>1, <2>1 DEF ExportType
<1>3. Listed(chain, x)
  BY <1>1, <1>2 DEF Listed
<1>4. NoneLost(chain, x)
  BY <1>1, <1>2 DEF NoneLost, Due
<1>5. Cardinality(e.records) \in Nat
  BY <1>1, RecordsAreFinite
<1>6. x.rows = << >>
  BY <1>1, <1>2 DEF Written
<1>7. Len(x.rows) = 0 /\ 1..0 = {}
  BY <1>6
<1>8. Written(chain, x)
  BY <1>2, <1>5, <1>7 DEF Written
<1> QED BY <1>3, <1>4, <1>8 DEF ExportOK

Continued(s, t, m, n) == s \o SubSeq(t, m, n)

LEMMA PrefixContinued ==
  ASSUME NEW s \in Seq(Nat), NEW t \in Seq(Nat), NEW m \in Nat, m = Len(s) + 1,
         NEW n \in Nat, m <= n, n <= Len(t), \A i \in 1..Len(s) : s[i] = t[i],
         NEW v, v = Continued(s, t, m, n)
  PROVE  v \in Seq(Nat) /\ Len(v) = n /\ \A i \in 1..n : v[i] = t[i]
<1> DEFINE u == SubSeq(t, m, n)
<1>1. Len(s) \in Nat /\ Len(t) \in Nat /\ \A i \in m..n : t[i] \in Nat
  OBVIOUS
<1>2. /\ u \in Seq(Nat) /\ Len(u) = IF m <= n THEN n - m + 1 ELSE 0
      /\ \A i \in 1..(n - m + 1) : u[i] = t[m + i - 1]
  BY <1>1, SubSeqProperties
<1> HIDE DEF u
<1>3. Len(u) = n - m + 1
  BY <1>2
<1>4. /\ s \o u \in Seq(Nat) /\ Len(s \o u) = Len(s) + Len(u)
      /\ \A i \in 1..(Len(s) + Len(u)) :
           (s \o u)[i] = IF i <= Len(s) THEN s[i] ELSE u[i - Len(s)]
  BY <1>2, ConcatProperties
<1>5. Len(s) + Len(u) = n
  BY <1>1, <1>3
<1>6. ASSUME NEW i \in 1..n PROVE (s \o u)[i] = t[i]
  <2>1. CASE i <= Len(s)
    <3>1. i \in 1..Len(s)
      BY <2>1, <1>1
    <3> QED BY <2>1, <3>1, <1>4, <1>5
  <2>2. CASE ~(i <= Len(s))
    <3>1. i - Len(s) \in 1..(n - m + 1) /\ m + (i - Len(s)) - 1 = i
      BY <2>2, <1>1
    <3>2. u[i - Len(s)] = t[i]
      BY <3>1, <1>2
    <3> QED BY <2>2, <3>2, <1>4, <1>5
  <2> QED BY <2>1, <2>2
<1> QED BY <1>4, <1>5, <1>6 DEF u, Continued

(* The next rows of the sorting are appended to those written before. *)
LEMMA RowsWritten ==
  ASSUME NEW chain, ChainOK(chain), NEW e, ExportOK(chain, e), e.step = "stream",
         NEW sorted, sorted = FirstSorting(chain, e.records),
         NEW end, end \in Nat, e.next <= end, end <= Len(sorted),
         NEW rows, rows = Continued(e.rows, sorted, e.next, end),
         NEW x, x.step = "stream", x.from = e.from, x.to = e.to, x.latest = e.latest,
         x.first = e.first,
         x.next = end + 1, x.hashes = e.hashes, x.records = e.records, x.rows = rows,
         x.whole = e.whole, rows \in Seq(Nat) => x \in ExportType
  PROVE  ExportOK(chain, x)
<1>1. Listed(chain, e) /\ Written(chain, e) /\ NoneLost(chain, e) /\ e \in ExportType
  BY DEF ExportOK, Listed
<1>2. e.records \in SUBSET (1..Len(chain))
  BY <1>1, RecordsAreFinite
<1>3. sorted \in Seq(e.records) /\ Len(sorted) = Cardinality(e.records) /\ Len(sorted) \in Nat
  BY <1>2, FirstSorted
<1>4. sorted \in Seq(Nat)
  BY <1>1, <1>3 DEF ExportType
<1>5. e.rows \in Seq(Nat) /\ e.next \in Nat /\ e.next = Len(e.rows) + 1
  BY <1>1 DEF Written, ExportType
<1>6. \A i \in 1..Len(e.rows) : e.rows[i] = sorted[i]
  BY <1>1 DEF Written
<1>7. rows \in Seq(Nat) /\ Len(rows) = end /\ \A i \in 1..end : rows[i] = sorted[i]
  <2>1. PICK a \in Seq(Nat) : a = e.rows
    BY <1>5
  <2>2. PICK b \in Seq(Nat) : b = sorted
    BY <1>4
  <2>3. PICK m \in Nat : m = e.next
    BY <1>5
  <2>4. /\ m = Len(a) + 1 /\ m <= end /\ end <= Len(b)
        /\ \A i \in 1..Len(a) : a[i] = b[i]
    BY <1>5, <1>6, <2>1, <2>2, <2>3
  <2>5. rows = Continued(a, b, m, end)
    BY <2>1, <2>2, <2>3
  <2>6. rows \in Seq(Nat) /\ Len(rows) = end /\ \A i \in 1..end : rows[i] = b[i]
    BY <2>4, <2>5, PrefixContinued
  <2> QED BY <2>2, <2>6
<1>8. Listed(chain, x)
  BY <1>1, <1>5, <1>7 DEF Listed
<1>9. NoneLost(chain, x)
  BY <1>1 DEF NoneLost, Due
<1>10. Written(chain, x)
  BY <1>3, <1>7 DEF Written
<1> QED BY <1>8, <1>9, <1>10 DEF ExportOK

LEMMA StreamDrained ==
  ASSUME NEW chain, NEW e, ExportOK(chain, e), e.step = "stream",
         NEW x, x = [e EXCEPT !.buffered = 0]
  PROVE  ExportOK(chain, x)
<1>1. Listed(chain, e) /\ Written(chain, e) /\ NoneLost(chain, e) /\ e \in ExportType
  BY DEF ExportOK, Listed
<1>2. x \in ExportType
  <2>1. 0 \in Int
    OBVIOUS
  <2> QED BY <1>1, <2>1 DEF ExportType
<1>3. /\ x.step = e.step /\ x.from = e.from /\ x.to = e.to /\ x.latest = e.latest
      /\ x.first = e.first
      /\ x.next = e.next /\ x.hashes = e.hashes /\ x.records = e.records /\ x.rows = e.rows
      /\ x.whole = e.whole
  BY <1>1 DEF ExportType
<1>4. Listed(chain, x)
  BY <1>1, <1>2, <1>3 DEF Listed
<1>5. NoneLost(chain, x)
  BY <1>1, <1>3 DEF NoneLost, Due
<1>6. Written(chain, x)
  BY <1>1, <1>3 DEF Written
<1> QED BY <1>4, <1>5, <1>6 DEF ExportOK

LEMMA StreamEnded ==
  ASSUME NEW chain, ChainOK(chain), NEW e, ExportOK(chain, e), e.step = "stream",
         e.next > Cardinality(e.records), NEW x, x = [e EXCEPT !.step = "ended"]
  PROVE  ExportOK(chain, x)
<1>1. Listed(chain, e) /\ Written(chain, e) /\ NoneLost(chain, e) /\ e \in ExportType
  BY DEF ExportOK, Listed
<1>2. /\ x \in ExportType
      /\ x.step = "ended" /\ x.from = e.from /\ x.to = e.to /\ x.latest = e.latest
      /\ x.first = e.first
      /\ x.next = e.next /\ x.hashes = e.hashes /\ x.records = e.records /\ x.rows = e.rows
      /\ x.whole = e.whole
  BY <1>1 DEF ExportType, ExportSteps
<1>3. Listed(chain, x)
  BY <1>1, <1>2 DEF Listed
<1>4. NoneLost(chain, x)
  BY <1>1, <1>2 DEF NoneLost, Due
<1>5. Len(e.rows) = Cardinality(e.records)
  <2>1. /\ e.next = Len(e.rows) + 1 /\ Len(e.rows) <= Cardinality(e.records)
        /\ Len(e.rows) \in Nat
    BY <1>1 DEF Written, ExportType
  <2>2. Cardinality(e.records) \in Nat
    BY <1>1, RecordsAreFinite
  <2> QED BY <2>1, <2>2
<1>6. Written(chain, x)
  BY <1>1, <1>2, <1>5 DEF Written
<1> QED BY <1>3, <1>4, <1>6 DEF ExportOK

ExportsInv == ChainOK(blocks) /\ ExportOK(blocks, export)

LEMMA ExportsStart == ExportsInit => ExportsInv
<1> SUFFICES ASSUME ExportsInit PROVE ExportsInv
  OBVIOUS
<1>1. PICK kind \in TxKinds : blocks = <<[time |-> 0, tx |-> kind]>>
  BY DEF ExportsInit
<1>2. PICK block \in Block : block = [time |-> 0, tx |-> kind]
  BY DEF Block
<1>3. blocks = <<block>>
  BY <1>1, <1>2
<1>4. blocks \in Seq(Block) /\ Len(blocks) = 1 /\ blocks[1] = block
  BY <1>3
<1>5. \A i, j \in 1..Len(blocks) : i = 1 /\ j = 1
  BY <1>4
<1>6. ChainOK(blocks)
  <2>1. Len(blocks) >= 1 /\ \A i, j \in 1..Len(blocks) : ~(i < j)
    BY <1>4, <1>5
  <2> QED BY <1>4, <2>1 DEF ChainOK
<1> QED BY <1>6, NoExportOK DEF ExportsInit, ExportsInv

LEMMA ExportsStep == ExportsInv /\ [ExportsNext]_exportVars => ExportsInv'
<1> SUFFICES ASSUME ExportsInv, [ExportsNext]_exportVars PROVE ExportsInv'
  OBVIOUS
<1> USE DEF ExportsInv
<1>0. export \in ExportType /\ Listed(blocks, export)
  BY DEF ExportOK, Listed
<1>1. CASE NewBlock
  <2>1. PICK gap \in Gaps, kind \in TxKinds :
          blocks' = Append(blocks, [time |-> blocks[Len(blocks)].time + gap, tx |-> kind])
    BY <1>1 DEF NewBlock, Now
  <2>2. /\ ChainOK(blocks') /\ Len(blocks') = Len(blocks) + 1
        /\ \A i \in 1..Len(blocks) : blocks'[i] = blocks[i]
    BY <2>1, ChainGrows
  <2>3. export' = export
    BY <1>1 DEF NewBlock
  <2> QED BY <2>2, <2>3, GrowthIsHarmless
<1>2. CASE ResolveLatest
  <2>1. PICK from \in Dates \cup {Unset}, to \in Dates \cup {Unset} :
          export' = [NoExport EXCEPT !.step = "range", !.from = from, !.to = to,
                                     !.latest = Len(blocks)]
    BY <1>2 DEF ResolveLatest
  <2>2. from \in Int /\ to \in Int
    <3>1. Dates \subseteq Nat /\ Unset \in Int
      BY ExportsAssumption DEF Unset
    <3> QED BY <3>1
  <2>3. << >> \in Seq(Nat) /\ Len(blocks) \in Nat
    BY DEF ChainOK
  <2>4. PICK none \in Seq(Nat) : none = << >>
    BY <2>3, Zenon
  <2>5. PICK latest \in Nat : latest = Len(blocks)
    BY <2>3
  <2>6. export' = [step |-> "range", from |-> from, to |-> to, first |-> 1,
                   latest |-> latest, next |-> 1, hashes |-> {}, records |-> {},
                   rows |-> none, buffered |-> 0, whole |-> TRUE]
    BY <2>1, <2>4, <2>5 DEF NoExport
  <2>7. ExportOK(blocks, export')
    BY <2>2, <2>4, <2>5, <2>6, RangeResolved
  <2> QED BY <1>2, <2>7 DEF ResolveLatest
<1>3. CASE ResolveBlockRange
  <2> DEFINE to == IF export.to = Unset THEN Now ELSE export.to
             from == IF export.from = Unset THEN to - Lookback ELSE export.from
             first == Greater(1, export.latest - CeilDiv(to - from, BlockTime))
  <2>1. blocks[Len(blocks)].time \in Nat
    <3>1. Len(blocks) \in 1..Len(blocks)
      BY DEF ChainOK
    <3> QED BY <3>1, BlockTyped
  <2>2. to \in Int
    BY <1>0, <2>1 DEF Now, ExportType
  <2>3. from \in Int
    <3> HIDE DEF to
    <3> QED BY <1>0, <2>2, ExportsAssumption DEF ExportType
  <2>4. /\ export.step = "range" /\ blocks' = blocks
        /\ export' = [export EXCEPT !.step = "logs", !.from = from, !.to = to,
                        !.first = first, !.next = first]
    BY <1>3 DEF ResolveBlockRange
  <2>5. PICK f \in Int, t \in Int : f = from /\ t = to
    BY <2>2, <2>3
  <2>6. PICK x : x = first
    OBVIOUS
  <2> HIDE DEF to, from, first
  <2>7. /\ x = Greater(1, export.latest - CeilDiv(t - f, BlockTime))
        /\ export' = [export EXCEPT !.step = "logs", !.from = f, !.to = t, !.first = x,
                                    !.next = x]
    BY <2>4, <2>5, <2>6 DEF first
  <2>8. x \in Int
    <3>1. (-(t - f)) \div BlockTime \in Int /\ export.latest \in Nat
      BY <1>0, ExportsAssumption DEF ExportType
    <3>2. CeilDiv(t - f, BlockTime) \in Int
      BY <3>1 DEF CeilDiv
    <3> QED BY <2>7, <3>1, <3>2 DEF Greater
  <2>9. export' \in ExportType
    <3>1. "logs" \in ExportSteps
      BY DEF ExportSteps
    <3> QED BY <1>0, <2>5, <2>7, <2>8, <3>1, ZenonT(30) DEF ExportType
  <2>10. /\ export'.step = "logs" /\ export'.from = f /\ export'.to = t /\ export'.next = x
         /\ export'.first = x
         /\ export'.latest = export.latest /\ export'.hashes = export.hashes
         /\ export'.records = export.records /\ export'.rows = export.rows
    BY <1>0, <2>7 DEF ExportType
  <2>11. ExportOK(blocks, export')
    <3>1. PICK e : e = export
      OBVIOUS
    <3>2. PICK y : y = export'
      OBVIOUS
    <3>3. /\ y.step = "logs" /\ y.from = f /\ y.to = t /\ y.next = x /\ y.first = x
          /\ y.latest = e.latest /\ y.hashes = e.hashes /\ y.records = e.records
          /\ y.rows = e.rows /\ y \in ExportType
          /\ x = Greater(1, e.latest - CeilDiv(t - f, BlockTime))
          /\ ExportOK(blocks, e) /\ e.step = "range" /\ ChainOK(blocks)
      BY <2>4, <2>7, <2>9, <2>10, <3>1, <3>2
    <3>4. ExportOK(blocks, y)
      BY ONLY f \in Int, t \in Int, <3>3, BlocksEstimated
    <3> QED BY <3>2, <3>4
  <2> QED BY <2>4, <2>11
<1>4. CASE CollectWalletTxHashes
  <2> DEFINE all == {n \in export.next .. ChunkEnd(export.next, export.latest) :
                       blocks[n].tx.logs > 0}
  <2>1. export.step = "logs" /\ blocks' = blocks
    BY <1>4 DEF CollectWalletTxHashes
  <2>2. CASE export' = [export EXCEPT !.next = @ + ChunkSize, !.hashes = @ \cup all]
    <3>1. PICK w \in BOOLEAN : w = export.whole
      BY <1>0 DEF ExportType
    <3>2. export' = [export EXCEPT !.next = @ + ChunkSize, !.hashes = @ \cup all, !.whole = w]
      <4> HIDE DEF all
      <4> QED BY <2>2, <3>1, <1>0 DEF ExportType
    <3>3. ExportOK(blocks, export')
      BY <2>1, <3>1, <3>2, LogsRead
    <3> QED BY <2>1, <3>3
  <2>3. CASE export' = [export EXCEPT !.next = @ + ChunkSize, !.whole = FALSE]
    <3>1. PICK w \in BOOLEAN : w = FALSE
      OBVIOUS
    <3>2. PICK none : none = {}
      OBVIOUS
    <3>3. export' = [export EXCEPT !.next = @ + ChunkSize, !.hashes = @ \cup none, !.whole = w]
      BY <2>3, <3>1, <3>2, <1>0 DEF ExportType
    <3>4. none \subseteq all /\ ~w
      BY <3>1, <3>2
    <3>5. ExportOK(blocks, export')
      BY <2>1, <3>3, <3>4, LogsRead
    <3> QED BY <2>1, <3>5
  <2> QED BY <1>4, <2>2, <2>3 DEF CollectWalletTxHashes
<1>5. CASE CollectGasRecords
  BY <1>5, LogsAllRead DEF CollectGasRecords
<1>6. CASE ParseTxToRecord
  <2> DEFINE batch == {n \in export.hashes :
                         Cardinality({m \in export.hashes : m < n}) < BatchSize}
  <2>1. PICK read \in SUBSET batch :
          export' = [export EXCEPT !.hashes = @ \ batch, !.whole = @ /\ read = batch,
                                   !.records = @ \cup {n \in read : Matching(n)}]
    BY <1>6 DEF ParseTxToRecord
  <2>2. PICK b \in SUBSET export.hashes : b = batch
    OBVIOUS
  <2> HIDE DEF batch
  <2>3. PICK kept : kept = {n \in read : /\ blocks[n].tx.own /\ blocks[n].time >= export.from
                                         /\ blocks[n].time <= export.to}
    OBVIOUS
  <2>4. kept = {n \in read : Matching(n)}
    BY <2>3 DEF Matching
  <2>5. PICK w \in BOOLEAN : w = (export.whole /\ read = batch)
    OBVIOUS
  <2>6. export' = [export EXCEPT !.hashes = @ \ b, !.whole = w, !.records = @ \cup kept]
    BY <2>1, <2>2, <2>4, <2>5
  <2>7. w => export.whole /\ read = b
    BY <2>2, <2>5
  <2>8. read \in SUBSET b /\ export.step = "records" /\ blocks' = blocks
    BY <1>6, <2>2 DEF ParseTxToRecord
  <2>9. ExportOK(blocks, export')
    BY <2>3, <2>6, <2>7, <2>8, BatchParsed
  <2> QED BY <2>8, <2>9
<1>7. CASE BuildCsvStream
  <2>1. export.step = "records" /\ export.hashes = {} /\ blocks' = blocks
    BY <1>7 DEF BuildCsvStream
  <2>2. CASE export' = NoExport
    BY <2>1, <2>2, NoExportOK
  <2>3. CASE export' = [export EXCEPT !.step = "stream", !.next = 1]
    BY <2>1, <2>3, StreamBuilt
  <2> QED BY <1>7, <2>2, <2>3 DEF BuildCsvStream
<1>8. CASE WriteRows
  <2>1. PICK sorted : sorted = ByTime(export.records)
    OBVIOUS
  <2>2. sorted = FirstSorting(blocks, export.records)
    BY <2>1, ByTimeIsFirst
  <2>3. PICK end : end = IF export.next + WriteChunk > Len(sorted) THEN Len(sorted)
                         ELSE export.next + WriteChunk - 1
    OBVIOUS
  <2>4. /\ export.step = "stream" /\ export.next <= Len(sorted) /\ blocks' = blocks
        /\ export' = [export EXCEPT !.next = end + 1,
                        !.rows = @ \o SubSeq(sorted, export.next, end),
                        !.buffered = @ + (end + 1 - export.next)]
    BY <1>8, <2>1, <2>3 DEF WriteRows
  <2>5. /\ WriteChunk \in Nat \ {0} /\ Len(sorted) \in Nat /\ export.next \in Nat
        /\ export.buffered \in Int
    <3>1. export.records \in SUBSET (1..Len(blocks))
      BY <1>0, RecordsAreFinite
    <3>2. Len(sorted) \in Nat
      BY <2>2, <3>1, FirstSorted
    <3>3. export.next = Len(export.rows) + 1 /\ export.rows \in Seq(Nat)
      BY <1>0, <2>4 DEF ExportOK, Written, ExportType
    <3> QED BY <1>0, <3>2, <3>3, ExportsAssumption DEF ExportType
  <2>6. end \in Nat /\ export.next <= end /\ end <= Len(sorted)
    BY <2>3, <2>4, <2>5
  <2>7. PICK rows : rows = Continued(export.rows, sorted, export.next, end)
    OBVIOUS
  <2>8. PICK m \in Int, b \in Int :
          m = end + 1 /\ b = export.buffered + (end + 1 - export.next)
    BY <2>5, <2>6
  <2>9. export' = [export EXCEPT !.next = m, !.rows = rows, !.buffered = b]
    BY <2>4, <2>7, <2>8 DEF Continued
  <2>10. rows \in Seq(Nat) => export' \in ExportType
    BY <1>0, <2>8, <2>9 DEF ExportType
  <2>11. /\ export'.step = "stream" /\ export'.from = export.from /\ export'.to = export.to
         /\ export'.first = export.first
         /\ export'.latest = export.latest /\ export'.next = end + 1
         /\ export'.hashes = export.hashes /\ export'.records = export.records
         /\ export'.rows = rows /\ export'.whole = export.whole
    BY <1>0, <2>4, <2>8, <2>9 DEF ExportType
  <2>12. PICK x : x = export'
    OBVIOUS
  <2>13. ExportOK(blocks, x)
    <3>1. /\ x.step = "stream" /\ x.from = export.from /\ x.to = export.to
          /\ x.first = export.first
          /\ x.latest = export.latest /\ x.next = end + 1
          /\ x.hashes = export.hashes /\ x.records = export.records
          /\ x.rows = rows /\ x.whole = export.whole
          /\ (rows \in Seq(Nat) => x \in ExportType)
      BY <2>10, <2>11, <2>12
    <3>2. export.step = "stream"
      BY <2>4
    <3> QED BY <2>2, <2>6, <2>7, <3>1, <3>2, RowsWritten
  <2> QED BY <2>4, <2>12, <2>13
<1>9. CASE Drain
  BY <1>9, StreamDrained DEF Drain
<1>10. CASE EndStream
  BY <1>10, StreamEnded DEF EndStream
<1>11. CASE UNCHANGED exportVars
  BY <1>11 DEF exportVars
<1> QED BY <1>1, <1>2, <1>3, <1>4, <1>5, <1>6, <1>7, <1>8, <1>9, <1>10, <1>11 DEF ExportsNext

LEMMA ExportsInvHonest ==
  ASSUME ExportsInv
  PROVE  ExportIsHonest
<1> SUFFICES ASSUME export.step = "ended" PROVE ExportIsHonest
  BY DEF ExportIsHonest
<1>1. /\ ChainOK(blocks) /\ Listed(blocks, export) /\ NoneLost(blocks, export)
      /\ Written(blocks, export) /\ export \in ExportType
  BY DEF ExportsInv, ExportOK, Listed
<1>2. PICK sorted : sorted = FirstSorting(blocks, export.records)
  OBVIOUS
<1>3. /\ sorted \in Seq(export.records) /\ Len(sorted) = Cardinality(export.records)
      /\ \A i, j \in 1..Len(sorted) : i < j => blocks[sorted[i]].time < blocks[sorted[j]].time
      /\ \A n \in export.records : \E i \in 1..Len(sorted) : sorted[i] = n
  <2>1. export.records \in SUBSET (1..Len(blocks))
    BY <1>1, RecordsAreFinite
  <2> QED BY <1>1, <1>2, <2>1, FirstSorted, SMTT(30)
<1>4. /\ Len(export.rows) = Cardinality(export.records)
      /\ \A i \in 1..Len(export.rows) : export.rows[i] = sorted[i]
  BY <1>1, <1>2 DEF Written
<1>5. DOMAIN export.rows = 1..Len(sorted)
  BY <1>1, <1>3, <1>4 DEF ExportType
<1>6. \A i, j \in DOMAIN export.rows :
        i < j => blocks[export.rows[i]].time < blocks[export.rows[j]].time
  BY <1>3, <1>4, <1>5
<1>7. Exported = export.records
  <2>1. ASSUME NEW n \in Exported PROVE n \in export.records
    <3>1. PICK i \in 1..Len(sorted) : n = sorted[i]
      BY <1>3, <1>4, <1>5 DEF Exported
    <3> QED BY <1>3, <3>1
  <2>2. ASSUME NEW n \in export.records PROVE n \in Exported
    <3>1. PICK i \in 1..Len(sorted) : sorted[i] = n
      BY <1>3
    <3>2. i \in DOMAIN export.rows /\ export.rows[i] = n
      BY <1>3, <1>4, <1>5, <3>1
    <3> QED BY <3>2 DEF Exported
  <2> QED BY <2>1, <2>2
<1>8. \A n \in Exported : Matching(n) /\ blocks[n].tx.logs > 0
  BY <1>1, <1>7 DEF Listed, Asked, Matching
<1>9. ASSUME export.whole, NEW n \in 1..export.latest, Matching(n), blocks[n].tx.logs > 0,
             n >= export.first \/ OnAverage(n)
      PROVE  n \in Exported
  <2>1. Due(blocks, export, n)
    BY <1>9 DEF Asked, Due, Matching, OnAverage
  <2> QED BY <1>1, <1>7, <1>9, <2>1 DEF NoneLost
<1> QED BY <1>4, <1>6, <1>8, <1>9 DEF ExportIsHonest

(* An export that ends lists only transactions that were asked for, each once and in   *)
(* the order of time, whatever the sizes of its chunks and batches and however the     *)
(* chain grows; when no call to the node failed it misses none that was in the chain   *)
(* when it began from the first block that was estimated on, and none since which      *)
(* blocks took AVG_BLOCK_TIME at least (ExportsService.generateGasUsageStream).        *)
THEOREM ExportsAreHonest == ExportsSpec => []ExportIsHonest
<1>1. ExportsInit => ExportsInv
  BY ExportsStart
<1>2. ExportsInv /\ [ExportsNext]_exportVars => ExportsInv'
  BY ExportsStep
<1>3. ExportsInv => ExportIsHonest
  BY ExportsInvHonest
<1> QED BY <1>1, <1>2, <1>3, PTL DEF ExportsSpec

=============================================================================
