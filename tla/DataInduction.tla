------------------------------ MODULE DataInduction ------------------------------
(***************************************************************************)
(* Induction over the natural numbers and over the subsets of a finite     *)
(* set, stated with a set where the library's theorems have an operator    *)
(* (whose instances the provers do not find), and from them what the fold  *)
(* of a sequence with + and SumFunctionOnSet return: sums over a union, by *)
(* key, between bounds; counts by key; sets put in order.                  *)
(***************************************************************************)
EXTENDS Integers, Sequences, Functions, SequencesExt, FiniteSetTheorems, SequenceTheorems, TLAPS

(* Every nonempty set of finite subsets of S has one that none of the others is a   *)
(* proper subset of.                                                                 *)
LEMMA MinimalSet ==
  ASSUME NEW S, NEW X, X # {}, \A U \in X : IsFiniteSet(U) /\ U \subseteq S
  PROVE  \E U \in X : \A W \in X : W \subseteq U => W = U
<1>1. X \subseteq FiniteSubsetsOf(S)
  BY DEF FiniteSubsetsOf
<1>2. PICK U \in X : \A W \in X : <<W, U>> \notin StrictSubsetOrdering(S)
  BY <1>1, FS_StrictSubsetOrderingWellFounded, WFMin
<1>3. ASSUME NEW W \in X, W \subseteq U, W # U PROVE FALSE
  BY <1>2, <1>3 DEF StrictSubsetOrdering
<1> QED BY <1>3

(* Every nonempty set of natural numbers has a least one.                            *)
LEMMA LeastNumber ==
  ASSUME NEW T, T \subseteq Nat, T # {}
  PROVE  \E n \in T : \A m \in T : n <= m
<1> DEFINE X == {1..n : n \in T}
<1>1. \A n \in Nat : IsFiniteSet(1..n) /\ 1..n \subseteq Nat
  BY FS_Interval
<1>2. PICK U \in X : \A W \in X : W \subseteq U => W = U
  <2>1. X # {} /\ \A U \in X : IsFiniteSet(U) /\ U \subseteq Nat
    BY <1>1
  <2> HIDE DEF X
  <2> QED BY <2>1, MinimalSet
<1>3. PICK n \in T : U = 1..n
  OBVIOUS
<1>4. ASSUME NEW m \in T PROVE n <= m
  <2>1. CASE m < n
    <3>1. 1..m \subseteq 1..n /\ n \in 1..n /\ n \notin 1..m
      BY <2>1
    <3> QED BY <1>2, <1>3, <3>1
  <2> QED BY <2>1
<1> QED BY <1>4

(* Induction over the natural numbers, with a set for the predicate.                 *)
LEMMA InductionOverNat ==
  ASSUME NEW T, 0 \in T, \A n \in Nat : n \in T => n + 1 \in T
  PROVE  Nat \subseteq T
<1> SUFFICES ASSUME Nat \ T # {} PROVE FALSE
  OBVIOUS
<1>1. PICK n \in Nat \ T : \A m \in Nat \ T : n <= m
  BY LeastNumber
<1>2. n # 0 /\ n - 1 \in Nat
  OBVIOUS
<1>3. n - 1 \in T
  BY <1>1, <1>2
<1>4. (n - 1) + 1 \in T
  BY <1>2, <1>3
<1> QED BY <1>2, <1>4

(* A nonempty set of subsets of a finite set has a minimal one.                      *)
LEMMA MinimalSubset ==
  ASSUME NEW S, IsFiniteSet(S), NEW Y, Y \subseteq SUBSET S, Y # {}
  PROVE  \E U \in Y : \A W \in Y : W \subseteq U => W = U
<1>1. Y \subseteq FiniteSubsetsOf(S)
  BY FS_FiniteSubsetsOfFinite
<1>2. PICK U \in Y : \A W \in Y : <<W, U>> \notin StrictSubsetOrdering(S)
  BY <1>1, FS_StrictSubsetOrderingWellFounded, WFMin
<1>3. ASSUME NEW W \in Y, W \subseteq U, W # U PROVE FALSE
  BY <1>2, <1>3 DEF StrictSubsetOrdering
<1> QED BY <1>3

(* Induction over the subsets of a finite set.                                       *)
LEMMA InductionOverSets ==
  ASSUME NEW S, IsFiniteSet(S), NEW X,
         \A U \in SUBSET S : (\A W \in SUBSET U : W # U => W \in X) => U \in X
  PROVE  SUBSET S \subseteq X
<1> DEFINE Y == (SUBSET S) \ X
<1>1. Y \subseteq SUBSET S
  OBVIOUS
<1>2. ASSUME Y # {} PROVE FALSE
  <2>1. PICK U \in Y : \A W \in Y : W \subseteq U => W = U
    <3> HIDE DEF Y
    <3> QED BY <1>1, <1>2, MinimalSubset
  <2>2. \A W \in SUBSET U : W # U => W \in X
    BY <2>1
  <2> QED BY <2>1, <2>2
<1> QED BY <1>2

(* A finite nonempty set of natural numbers has a greatest one.                      *)
LEMMA GreatestNumber ==
  ASSUME NEW S, IsFiniteSet(S), S \subseteq Nat, S # {}
  PROVE  \E n \in S : \A m \in S : m <= n
<1> DEFINE X == {U \in SUBSET S : U = {} \/ \E n \in U : \A m \in U : m <= n}
<1>1. ASSUME NEW U \in SUBSET S, \A W \in SUBSET U : W # U => W \in X PROVE U \in X
  <2>1. CASE U = {}
    BY <2>1
  <2>2. CASE U # {}
    <3>1. PICK u \in U : TRUE
      BY <2>2
    <3> DEFINE W == U \ {u}
    <3>2. W \in SUBSET U /\ W # U
      BY <3>1
    <3>3. W = {} \/ \E n \in W : \A m \in W : m <= n
      BY <3>2, <1>1
    <3>4. CASE W = {}
      <4>1. \A m \in U : m = u
        BY <3>4
      <4> QED BY <3>1, <4>1
    <3>5. CASE \E n \in W : \A m \in W : m <= n
      <4>1. PICK n \in W : \A m \in W : m <= n
        BY <3>5
      <4>2. n \in Nat /\ u \in Nat /\ U \subseteq Nat
        BY <3>1
      <4>3. CASE n <= u
        <5>1. \A m \in U : m <= u
          BY <4>1, <4>2, <4>3
        <5> QED BY <5>1
      <4>4. CASE u <= n
        <5>1. \A m \in U : m <= n
          BY <4>1, <4>2, <4>4
        <5> QED BY <5>1, <4>1
      <4> QED BY <4>2, <4>3, <4>4
    <3> QED BY <3>3, <3>4, <3>5
  <2> QED BY <2>1, <2>2
<1>2. SUBSET S \subseteq X
  <2> HIDE DEF X
  <2> QED BY <1>1, InductionOverSets
<1> QED BY <1>2

(* The values that a function takes on a finite set are finite too, and no more.     *)
LEMMA ValuesAreFinite ==
  ASSUME NEW S, IsFiniteSet(S), NEW f
  PROVE  /\ IsFiniteSet({f[x] : x \in S})
         /\ Cardinality({f[x] : x \in S}) <= Cardinality(S)
<1> DEFINE T == {f[x] : x \in S}
           g == [x \in S |-> f[x]]
<1>1. g \in Surjection(S, T)
  BY DEF Surjection
<1> HIDE DEF g, T
<1>2. IsFiniteSet(T) /\ Cardinality(T) <= Cardinality(S)
  BY <1>1, FS_Surjection
<1> QED BY <1>2 DEF T

-----------------------------------------------------------------------------
(* Sums of sequences of integers *)

(* FoldSeq takes the elements in the order in which CHOOSE gives them.               *)
Chosen(s) == CHOOSE i \in s : TRUE

IsSum(g, D, f) ==
  g = [s \in SUBSET D |-> IF s = {} THEN 0 ELSE f[Chosen(s)] + g[s \ {Chosen(s)}]]

SumOfSeq(f) == (CHOOSE g : IsSum(g, DOMAIN f, f))[DOMAIN f]

LEMMA FoldIsSum ==
  ASSUME NEW f
  PROVE  FoldSeq(LAMBDA u, sum : u + sum, 0, f) = SumOfSeq(f)
BY DEF FoldSeq, FoldFunction, FoldFunctionOnSet, MapThenFoldSet, SumOfSeq, IsSum, Chosen

(* The recursive definition has a solution over the subsets of a finite set.         *)
LEMMA SumOverExists ==
  ASSUME NEW D, IsFiniteSet(D), NEW f
  PROVE  \E g : IsSum(g, D, f)
<1> DEFINE Value(g, s) == IF s = {} THEN 0 ELSE f[Chosen(s)] + g[s \ {Chosen(s)}]
           Upto(g, n) == \A s \in SUBSET D : Cardinality(s) <= n => g[s] = Value(g, s)
           T == {n \in Nat : \E g : Upto(g, n)}
<1>1. \A s \in SUBSET D : IsFiniteSet(s) /\ Cardinality(s) \in Nat
  BY FS_Subset, FS_CardinalityType
<1>2. \A s \in SUBSET D : s # {} => /\ Chosen(s) \in s
                                    /\ s \ {Chosen(s)} \in SUBSET D
                                    /\ Cardinality(s \ {Chosen(s)}) = Cardinality(s) - 1
  BY <1>1, FS_RemoveElement DEF Chosen
<1>3. \A s \in SUBSET D : Cardinality(s) = 0 <=> s = {}
  BY <1>1, FS_EmptySet
<1>4. 0 \in T
  <2> DEFINE g == [s \in SUBSET D |-> 0]
  <2>1. Upto(g, 0)
    BY <1>1, <1>3
  <2> QED BY <2>1
<1>5. ASSUME NEW n \in Nat, n \in T PROVE n + 1 \in T
  <2>1. PICK g : Upto(g, n)
    BY <1>5
  <2> DEFINE h == [s \in SUBSET D |-> IF Cardinality(s) <= n THEN g[s] ELSE Value(g, s)]
  <2>2. ASSUME NEW s \in SUBSET D PROVE Cardinality(s) <= n + 1 => h[s] = Value(h, s)
    <3>1. CASE s = {}
      BY <3>1, <2>1, <1>3
    <3>2. CASE s # {} /\ Cardinality(s) <= n + 1
      <4>1. Cardinality(s \ {Chosen(s)}) <= n /\ s \ {Chosen(s)} \in SUBSET D
        BY <3>2, <1>1, <1>2
      <4>2. h[s \ {Chosen(s)}] = g[s \ {Chosen(s)}]
        BY <4>1
      <4>3. h[s] = Value(g, s)
        BY <2>1
      <4> QED BY <4>2, <4>3
    <3> QED BY <3>1, <3>2
  <2>3. Upto(h, n + 1)
    BY <2>2
  <2> HIDE DEF h, Upto
  <2> QED BY <2>3
<1>6. Nat \subseteq T
  <2> HIDE DEF T
  <2> QED BY <1>4, <1>5, InductionOverNat
<1>7. PICK g : Upto(g, Cardinality(D))
  BY <1>1, <1>6
<1>8. \A s \in SUBSET D : Cardinality(s) <= Cardinality(D)
  BY FS_Subset
<1>9. \A s \in SUBSET D : g[s] = Value(g, s)
  BY <1>7, <1>8
<1> DEFINE h == [s \in SUBSET D |-> g[s]]
<1>10. \A s \in SUBSET D : h[s] = Value(h, s)
  BY <1>2, <1>9
<1>11. h = [s \in SUBSET D |-> h[s]]
  OBVIOUS
<1>12. h = [s \in SUBSET D |-> Value(h, s)]
  <2> HIDE DEF h
  <2> QED BY <1>10, <1>11
<1>13. IsSum(h, D, f)
  <2> HIDE DEF h
  <2> QED BY <1>12 DEF IsSum
<1> QED BY <1>13

(* Of a nonempty set any element may be taken first.                                 *)
LEMMA SumTakesAny ==
  ASSUME NEW D, IsFiniteSet(D), NEW f, \A i \in D : f[i] \in Int, NEW g, IsSum(g, D, f)
  PROVE  \A s \in SUBSET D : g[s] \in Int /\ \A i \in s : g[s] = f[i] + g[s \ {i}]
<1> DEFINE Good(s) == g[s] \in Int /\ \A i \in s : g[s] = f[i] + g[s \ {i}]
           X == {s \in SUBSET D : Good(s)}
<1>1. \A s \in SUBSET D : g[s] = IF s = {} THEN 0 ELSE f[Chosen(s)] + g[s \ {Chosen(s)}]
  BY Zenon DEF IsSum
<1>2. \A s : s # {} => Chosen(s) \in s
  BY DEF Chosen
<1>3. ASSUME NEW s \in SUBSET D, \A w \in SUBSET s : w # s => w \in X PROVE s \in X
  <2>1. CASE s = {}
    <3>1. g[s] = 0
      BY <2>1, <1>1
    <3> QED BY <2>1, <3>1
  <2>2. CASE s # {}
    <3> DEFINE c == Chosen(s)
    <3>1. c \in s /\ g[s] = f[c] + g[s \ {c}] /\ f[c] \in Int
      BY <2>2, <1>1, <1>2
    <3>2. \A i \in s : s \ {i} \in SUBSET s /\ s \ {i} # s
      OBVIOUS
    <3> HIDE DEF c
    <3>3. \A i \in s : Good(s \ {i})
      BY <3>2, <1>3
    <3>4. g[s] \in Int
      <4>1. g[s \ {c}] \in Int
        BY <3>1, <3>3
      <4> QED BY <3>1, <4>1
    <3>5. ASSUME NEW i \in s, i # c PROVE g[s] = f[i] + g[s \ {i}]
      <4>1. i \in s \ {c} /\ c \in s \ {i}
        BY <3>1, <3>5
      <4>2. g[s \ {c}] = f[i] + g[(s \ {c}) \ {i}] /\ g[s \ {i}] = f[c] + g[(s \ {i}) \ {c}]
        BY <4>1, <3>1, <3>3
      <4>3. (s \ {c}) \ {i} = (s \ {i}) \ {c}
        OBVIOUS
      <4>4. g[(s \ {i}) \ {c}] \in Int
        <5>1. (s \ {i}) \ {c} \in SUBSET s /\ (s \ {i}) \ {c} # s
          BY <3>1
        <5> QED BY <5>1, <1>3
      <4>5. f[i] \in Int /\ f[c] \in Int
        BY <3>1
      <4>6. PICK a \in Int, b \in Int, r \in Int :
              a = f[i] /\ b = f[c] /\ r = g[(s \ {i}) \ {c}]
        BY <4>4, <4>5
      <4>7. g[s] = b + (a + r) /\ g[s \ {i}] = b + r
        BY <3>1, <4>2, <4>3, <4>6
      <4>8. b + (a + r) = a + (b + r)
        OBVIOUS
      <4> QED BY <4>6, <4>7, <4>8, Zenon
    <3>6. Good(s)
      BY <3>1, <3>4, <3>5
    <3> QED BY <3>6
  <2> QED BY <2>1, <2>2
<1>4. SUBSET D \subseteq X
  <2> HIDE DEF X
  <2> QED BY <1>3, InductionOverSets
<1> QED BY <1>4

(* Two functions that agree on a set have the same sum over it.                      *)
LEMMA SumsAgree ==
  ASSUME NEW D, IsFiniteSet(D), NEW f, NEW E, D \subseteq E, NEW h,
         NEW g, IsSum(g, D, f), NEW k, IsSum(k, E, h), \A i \in D : f[i] = h[i]
  PROVE  g[D] = k[D]
<1> DEFINE X == {s \in SUBSET D : g[s] = k[s]}
<1>2. \A s : s # {} => Chosen(s) \in s
  BY DEF Chosen
<1>3. ASSUME NEW s \in SUBSET D, \A w \in SUBSET s : w # s => w \in X PROVE s \in X
  <2>1. /\ g[s] = IF s = {} THEN 0 ELSE f[Chosen(s)] + g[s \ {Chosen(s)}]
        /\ k[s] = IF s = {} THEN 0 ELSE h[Chosen(s)] + k[s \ {Chosen(s)}]
    <3>1. s \in SUBSET D /\ s \in SUBSET E
      OBVIOUS
    <3> QED BY <3>1, Zenon DEF IsSum
  <2>2. CASE s = {}
    BY <2>1, <2>2
  <2>3. CASE s # {}
    <3>1. Chosen(s) \in s /\ f[Chosen(s)] = h[Chosen(s)]
      BY <2>3, <1>2
    <3>2. s \ {Chosen(s)} \in SUBSET s /\ s \ {Chosen(s)} # s
      BY <3>1
    <3>3. g[s \ {Chosen(s)}] = k[s \ {Chosen(s)}]
      BY <3>2, <1>3
    <3> QED BY <2>1, <2>3, <3>1, <3>3
  <2> QED BY <2>2, <2>3
<1>4. SUBSET D \subseteq X
  <2> HIDE DEF X
  <2> QED BY <1>3, InductionOverSets
<1> QED BY <1>4

LEMMA PrefixesAgree ==
  ASSUME NEW n \in Nat, NEW f, NEW h, NEW g, IsSum(g, 1..n, f),
         NEW k, IsSum(k, 1..(n + 1), h), \A i \in 1..n : f[i] = h[i]
  PROVE  g[1..n] = k[1..n]
<1>1. IsFiniteSet(1..n) /\ 1..n \subseteq 1..(n + 1)
  BY FS_Interval
<1> QED BY <1>1, SumsAgree

(* The sum of a sequence with one more element.                                      *)
LEMMA SumAppend ==
  ASSUME NEW f \in Seq(Int), NEW x \in Int
  PROVE  /\ SumOfSeq(<<>>) = 0 /\ SumOfSeq(f) \in Int
         /\ SumOfSeq(Append(f, x)) = SumOfSeq(f) + x
<1> DEFINE n == Len(f)
           h == Append(f, x)
<1>1. n \in Nat /\ DOMAIN f = 1..n /\ DOMAIN h = 1..(n + 1) /\ DOMAIN << >> = {}
      /\ h[n + 1] = x /\ (\A i \in 1..n : h[i] = f[i])
      /\ (\A i \in 1..n : f[i] \in Int)
      /\ (\A i \in 1..(n + 1) : h[i] \in Int)
  OBVIOUS
<1>2. IsFiniteSet(1..n) /\ IsFiniteSet(1..(n + 1)) /\ IsFiniteSet({})
  BY <1>1, FS_Interval, FS_EmptySet
<1> DEFINE g == CHOOSE a : IsSum(a, DOMAIN f, f)
           k == CHOOSE a : IsSum(a, DOMAIN h, h)
           z == CHOOSE a : IsSum(a, DOMAIN << >>, << >>)
<1>3. SumOfSeq(f) = g[1..n] /\ SumOfSeq(h) = k[1..(n + 1)] /\ SumOfSeq(<<>>) = z[{}]
  BY <1>1 DEF SumOfSeq
<1> HIDE DEF h, n
<1>4. IsSum(g, 1..n, f) /\ IsSum(k, 1..(n + 1), h) /\ IsSum(z, {}, <<>>)
  BY <1>1, <1>2, SumOverExists
<1> HIDE DEF g, k, z
<1>5. z[{}] = 0
  BY <1>4, Zenon DEF IsSum
<1>6. g[1..n] \in Int
  BY <1>1, <1>2, <1>4, SumTakesAny
<1>7. k[1..(n + 1)] = h[n + 1] + k[(1..(n + 1)) \ {n + 1}]
  <2> DEFINE D == 1..(n + 1)
  <2>1. IsFiniteSet(D) /\ (\A i \in D : h[i] \in Int) /\ IsSum(k, D, h)
    BY <1>1, <1>2, <1>4
  <2> HIDE DEF D
  <2>3. \A s \in SUBSET D : k[s] \in Int /\ \A i \in s : k[s] = h[i] + k[s \ {i}]
    BY <2>1, SumTakesAny
  <2> USE DEF D
  <2>2. 1..(n + 1) \in SUBSET (1..(n + 1)) /\ n + 1 \in 1..(n + 1)
    BY <1>1
  <2> QED BY <2>3, <2>2
<1>8. (1..(n + 1)) \ {n + 1} = 1..n /\ 1..n \subseteq 1..(n + 1)
  BY <1>1
<1>9. g[1..n] = k[1..n]
  <2>1. \A i \in 1..n : f[i] = h[i]
    BY <1>1
  <2> QED BY <1>1, <1>4, <2>1, PrefixesAgree
<1>10. k[1..(n + 1)] = x + g[1..n]
  BY <1>1, <1>7, <1>8, <1>9
<1>11. SumOfSeq(h) = SumOfSeq(f) + x
  BY <1>3, <1>6, <1>10
<1> QED BY <1>3, <1>5, <1>6, <1>11 DEF h

LEMMA SumOfNone == SumOfSeq(<<>>) = 0
<1>1. <<>> \in Seq(Int) /\ 0 \in Int
  OBVIOUS
<1> QED BY <1>1, SumAppend

(* The same for the elements from one index on. *)
LEMMA SumFromOn ==
  ASSUME NEW f \in Seq(Int), NEW x \in Int, NEW m \in 0..Len(f)
  PROVE  /\ SumOfSeq(SubSeq(f, m + 1, Len(f))) \in Int
         /\ SumOfSeq(SubSeq(Append(f, x), m + 1, Len(Append(f, x))))
              = SumOfSeq(SubSeq(f, m + 1, Len(f))) + x
<1> DEFINE n == Len(f)
           h == Append(f, x)
           s == SubSeq(f, m + 1, n)
           t == SubSeq(h, m + 1, n + 1)
<1>1. n \in Nat /\ Len(h) = n + 1 /\ h[n + 1] = x
      /\ (\A i \in 1..n : h[i] = f[i] /\ f[i] \in Int) /\ (\A i \in 1..(n + 1) : h[i] \in Int)
  BY AppendProperties
<1> HIDE DEF h, n
<1>2. /\ s \in Seq(Int) /\ Len(s) = n - m
      /\ \A i \in 1..(n - m) : s[i] = f[m + i]
  <2>1. \A i \in (m + 1)..n : f[i] \in Int
    BY <1>1
  <2>2. /\ s \in Seq(Int) /\ Len(s) = IF m + 1 <= n THEN n - (m + 1) + 1 ELSE 0
        /\ \A i \in 1..(n - (m + 1) + 1) : s[i] = f[m + 1 + i - 1]
    BY <1>1, <2>1, SubSeqProperties
  <2>3. m \in Nat /\ m <= n
    BY DEF n
  <2> HIDE DEF s
  <2> QED BY <1>1, <2>2, <2>3
<1>3. /\ t \in Seq(Int) /\ Len(t) = n - m + 1
      /\ \A i \in 1..(n - m + 1) : t[i] = h[m + i]
  <2>1. \A i \in (m + 1)..(n + 1) : h[i] \in Int
    BY <1>1
  <2>2. /\ t \in Seq(Int) /\ Len(t) = IF m + 1 <= n + 1 THEN n + 1 - (m + 1) + 1 ELSE 0
        /\ \A i \in 1..(n + 1 - (m + 1) + 1) : t[i] = h[m + 1 + i - 1]
    BY <1>1, <2>1, SubSeqProperties
  <2>3. m \in Nat /\ m <= n
    BY DEF n
  <2> HIDE DEF t
  <2> QED BY <1>1, <2>2, <2>3
<1> HIDE DEF s, t
<1>4. m \in Nat /\ m <= n /\ n - m \in Nat
  BY <1>1 DEF n
<1> DEFINE u == Append(s, x)
<1>5. /\ u \in Seq(Int) /\ Len(u) = n - m + 1
      /\ \A i \in 1..(n - m) : u[i] = s[i]
      /\ u[n - m + 1] = x
  BY <1>2, AppendProperties
<1> HIDE DEF u
<1>6. \A i \in 1..(n - m + 1) : t[i] = u[i]
  <2> SUFFICES ASSUME NEW i \in 1..(n - m + 1) PROVE t[i] = u[i]
    OBVIOUS
  <2>1. CASE i = n - m + 1
    BY <2>1, <1>1, <1>3, <1>4, <1>5, SMTT(30)
  <2>2. CASE i \in 1..(n - m)
    BY <2>2, <1>1, <1>2, <1>3, <1>4, <1>5
  <2> QED BY <2>1, <2>2, <1>4
<1>7. t = u
  BY <1>3, <1>5, <1>6, SeqEqual
<1>8. SumOfSeq(s) \in Int /\ SumOfSeq(u) = SumOfSeq(s) + x
  BY <1>2, SumAppend DEF u
<1>9. SubSeq(Append(f, x), m + 1, Len(Append(f, x))) = t
  BY <1>1 DEF t, h
<1> QED BY <1>7, <1>8, <1>9 DEF s, n

-----------------------------------------------------------------------------
(* SumFunctionOnSet of the community modules, by the same recursive definition.      *)
LEMMA SumOnSetIs ==
  ASSUME NEW f, NEW S
  PROVE  SumFunctionOnSet(f, S) = (CHOOSE g : IsSum(g, S, f))[S]
BY DEF SumFunctionOnSet, FoldFunctionOnSet, MapThenFoldSet, IsSum, Chosen

(* What does not depend on the function's values outside the set.                    *)
LEMMA SumOnSetAgrees ==
  ASSUME NEW S, IsFiniteSet(S), NEW f, NEW h, \A i \in S : f[i] = h[i]
  PROVE  SumFunctionOnSet(f, S) = SumFunctionOnSet(h, S)
<1>1. PICK g : IsSum(g, S, f) /\ SumFunctionOnSet(f, S) = g[S]
  BY SumOverExists, SumOnSetIs
<1>2. PICK k : IsSum(k, S, h) /\ SumFunctionOnSet(h, S) = k[S]
  BY SumOverExists, SumOnSetIs
<1>3. g[S] = k[S]
  BY <1>1, <1>2, SumsAgree
<1> QED BY <1>1, <1>2, <1>3

LEMMA SumOverPart ==
  ASSUME NEW D, IsFiniteSet(D), NEW f, NEW g, IsSum(g, D, f), NEW s \in SUBSET D
  PROVE  SumFunctionOnSet(f, s) = g[s]
<1>1. IsFiniteSet(s)
  BY FS_Subset
<1>2. PICK k : IsSum(k, s, f) /\ SumFunctionOnSet(f, s) = k[s]
  BY <1>1, SumOverExists, SumOnSetIs
<1>3. s \subseteq D /\ \A i \in s : f[i] = f[i]
  OBVIOUS
<1>4. k[s] = g[s]
  BY <1>1, <1>2, <1>3, SumsAgree
<1> QED BY <1>2, <1>4

(* The sum over a finite set of integers' function: nothing, and with any element    *)
(* taken first.                                                                      *)
LEMMA SumOnSet ==
  ASSUME NEW S, IsFiniteSet(S), NEW f, \A i \in S : f[i] \in Int
  PROVE  /\ SumFunctionOnSet(f, {}) = 0
         /\ SumFunctionOnSet(f, S) \in Int
         /\ \A i \in S : SumFunctionOnSet(f, S) = f[i] + SumFunctionOnSet(f, S \ {i})
<1>1. PICK g : IsSum(g, S, f)
  BY SumOverExists
<1>2. \A s \in SUBSET S : SumFunctionOnSet(f, s) = g[s]
  BY <1>1, SumOverPart
<1>3. \A s \in SUBSET S : g[s] \in Int /\ \A i \in s : g[s] = f[i] + g[s \ {i}]
  BY <1>1, SumTakesAny
<1>4. g[{}] = 0
  <2>1. {} \in SUBSET S
    OBVIOUS
  <2> QED BY <1>1, <2>1, Zenon DEF IsSum
<1>5. {} \in SUBSET S /\ S \in SUBSET S /\ \A i \in S : S \ {i} \in SUBSET S
  OBVIOUS
<1> QED BY <1>2, <1>3, <1>4, <1>5

LEMMA SumAddsOne ==
  ASSUME NEW S, IsFiniteSet(S), NEW x, x \notin S, NEW f, \A i \in S \cup {x} : f[i] \in Int
  PROVE  /\ SumFunctionOnSet(f, S) \in Int
         /\ SumFunctionOnSet(f, S \cup {x}) = SumFunctionOnSet(f, S) + f[x]
<1>1. IsFiniteSet(S \cup {x})
  BY FS_AddElement
<1>2. x \in S \cup {x} /\ (S \cup {x}) \ {x} = S
  OBVIOUS
<1>3. SumFunctionOnSet(f, S \cup {x}) = f[x] + SumFunctionOnSet(f, (S \cup {x}) \ {x})
  BY <1>1, <1>2, SumOnSet
<1>4. SumFunctionOnSet(f, S) \in Int
  BY SumOnSet
<1>5. f[x] \in Int
  BY <1>2
<1>6. PICK a \in Int, b \in Int : a = SumFunctionOnSet(f, S) /\ b = f[x]
  BY <1>4, <1>5
<1>7. SumFunctionOnSet(f, S \cup {x}) = b + a
  BY <1>2, <1>3, <1>6
<1> QED BY <1>6, <1>7

(* Of two functions, the one that is nowhere greater has the lower sum.              *)
LEMMA SumMonotone ==
  ASSUME NEW S, IsFiniteSet(S), NEW f, NEW h,
         \A i \in S : f[i] \in Int /\ h[i] \in Int /\ f[i] <= h[i]
  PROVE  SumFunctionOnSet(f, S) <= SumFunctionOnSet(h, S)
<1> DEFINE Sum(e, s) == SumFunctionOnSet(e, s)
           X == {s \in SUBSET S : Sum(f, s) <= Sum(h, s)}
<1>1. ASSUME NEW s \in SUBSET S, \A w \in SUBSET s : w # s => w \in X PROVE s \in X
  <2>1. IsFiniteSet(s) /\ \A i \in s : f[i] \in Int /\ h[i] \in Int /\ f[i] <= h[i]
    BY FS_Subset
  <2>2. CASE s = {}
    <3>1. Sum(f, s) = 0 /\ Sum(h, s) = 0
      BY <2>1, <2>2, SumOnSet
    <3> QED BY <3>1
  <2>3. CASE s # {}
    <3>1. PICK i \in s : TRUE
      BY <2>3
    <3>2. PICK w \in SUBSET s : w = s \ {i} /\ w # s
      <4>1. s \ {i} \in SUBSET s /\ s \ {i} # s
        BY <3>1
      <4> QED BY <4>1
    <3>3. Sum(f, w) <= Sum(h, w)
      BY <1>1, <3>2
    <3>4. IsFiniteSet(w) /\ \A j \in w : f[j] \in Int /\ h[j] \in Int
      BY <2>1, <3>2, FS_Subset
    <3>5. Sum(f, w) \in Int /\ Sum(h, w) \in Int
      BY <3>4, SumOnSet
    <3>6. Sum(f, s) = f[i] + Sum(f, w) /\ Sum(h, s) = h[i] + Sum(h, w)
      BY <2>1, <3>1, <3>2, SumOnSet
    <3>7. f[i] \in Int /\ h[i] \in Int /\ f[i] <= h[i]
      BY <2>1, <3>1
    <3> HIDE DEF Sum
    <3>8. Sum(f, s) <= Sum(h, s)
      BY <3>3, <3>5, <3>6, <3>7
    <3> QED BY <3>8
  <2> QED BY <2>2, <2>3
<1>2. SUBSET S \subseteq X
  <2> HIDE DEF X
  <2> QED BY <1>1, InductionOverSets
<1>3. S \in X
  <2> HIDE DEF X
  <2> QED BY <1>2
<1> QED BY <1>3

(* The sum of a constant.                                                            *)
LEMMA SumOfConstant ==
  ASSUME NEW S, IsFiniteSet(S), NEW f, NEW c \in Int, \A i \in S : f[i] = c
  PROVE  SumFunctionOnSet(f, S) = c * Cardinality(S)
<1> DEFINE Sum(s) == SumFunctionOnSet(f, s)
           X == {s \in SUBSET S : Sum(s) = c * Cardinality(s)}
<1>1. ASSUME NEW s \in SUBSET S, \A w \in SUBSET s : w # s => w \in X PROVE s \in X
  <2>1. IsFiniteSet(s) /\ \A i \in s : f[i] = c /\ f[i] \in Int
    BY FS_Subset
  <2>2. CASE s = {}
    <3>1. Sum(s) = 0 /\ Cardinality(s) = 0
      BY <2>1, <2>2, SumOnSet, FS_EmptySet
    <3> QED BY <3>1
  <2>3. CASE s # {}
    <3>1. PICK i \in s : TRUE
      BY <2>3
    <3>2. PICK w \in SUBSET s : w = s \ {i} /\ w # s
      <4>1. s \ {i} \in SUBSET s /\ s \ {i} # s
        BY <3>1
      <4> QED BY <4>1
    <3>3. Sum(w) = c * Cardinality(w)
      BY <1>1, <3>2
    <3>4. Cardinality(w) = Cardinality(s) - 1 /\ Cardinality(s) \in Nat
      BY <2>1, <3>1, <3>2, FS_RemoveElement, FS_CardinalityType
    <3>5. Sum(s) = c + Sum(w)
      BY <2>1, <3>1, <3>2, SumOnSet
    <3>6. \A n \in Int : c + c * (n - 1) = c * n
      OBVIOUS
    <3> HIDE DEF Sum
    <3>7. Sum(s) = c * Cardinality(s)
      BY <3>3, <3>4, <3>5, <3>6
    <3> QED BY <3>7
  <2> QED BY <2>2, <2>3
<1>2. SUBSET S \subseteq X
  <2> HIDE DEF X
  <2> QED BY <1>1, InductionOverSets
<1>3. S \in X
  <2> HIDE DEF X
  <2> QED BY <1>2
<1> QED BY <1>3

LEMMA SumOfUnion ==
  ASSUME NEW A, IsFiniteSet(A), NEW B, IsFiniteSet(B), A \cap B = {},
         NEW f, \A i \in A \cup B : f[i] \in Int
  PROVE  SumFunctionOnSet(f, A \cup B) = SumFunctionOnSet(f, A) + SumFunctionOnSet(f, B)
<1> DEFINE Sum(s) == SumFunctionOnSet(f, s)
           X == {s \in SUBSET B : Sum(A \cup s) = Sum(A) + Sum(s)}
<1>1. ASSUME NEW s \in SUBSET B, \A w \in SUBSET s : w # s => w \in X PROVE s \in X
  <2>1. IsFiniteSet(s) /\ IsFiniteSet(A \cup s) /\ \A i \in A \cup s : f[i] \in Int
    BY FS_Subset, FS_Union
  <2>2. CASE s = {}
    <3>1. Sum(s) = 0 /\ A \cup s = A /\ Sum(A) \in Int
      BY <2>1, <2>2, SumOnSet
    <3>2. PICK a \in Int : a = Sum(A)
      BY <3>1
    <3>3. Sum(A \cup s) = a
      BY <3>1, <3>2
    <3>4. a = a + 0
      OBVIOUS
    <3>5. Sum(A \cup s) = Sum(A) + Sum(s)
      BY <3>1, <3>2, <3>3, <3>4, Zenon
    <3> QED BY <3>5
  <2>3. CASE s # {}
    <3>1. PICK i \in s : TRUE
      BY <2>3
    <3>2. PICK w \in SUBSET s : w = s \ {i} /\ w # s
      <4>1. s \ {i} \in SUBSET s /\ s \ {i} # s
        BY <3>1
      <4> QED BY <4>1
    <3>3. Sum(A \cup w) = Sum(A) + Sum(w)
      BY <1>1, <3>2
    <3>4. IsFiniteSet(w) /\ IsFiniteSet(A \cup w)
      BY <2>1, <3>2, FS_Subset, FS_Union
    <3>5. Sum(A) \in Int /\ Sum(w) \in Int /\ f[i] \in Int
      BY <2>1, <3>1, <3>2, <3>4, SumOnSet
    <3>6. Sum(s) = f[i] + Sum(w)
      BY <2>1, <3>1, <3>2, SumOnSet
    <3>7. (A \cup s) \ {i} = A \cup w /\ i \in A \cup s
      BY <3>1, <3>2
    <3>8. Sum(A \cup s) = f[i] + Sum(A \cup w)
      BY <2>1, <3>7, SumOnSet
    <3> HIDE DEF Sum
    <3>9. Sum(A \cup s) = Sum(A) + Sum(s)
      BY <3>3, <3>5, <3>6, <3>8
    <3> QED BY <3>9
  <2> QED BY <2>2, <2>3
<1>2. SUBSET B \subseteq X
  <2> HIDE DEF X
  <2> QED BY <1>1, InductionOverSets
<1>3. B \in X
  <2> HIDE DEF X
  <2> QED BY <1>2
<1> QED BY <1>3

(* A sum lies between what it would be of the least and of the greatest.             *)
LEMMA SumBetween ==
  ASSUME NEW S, IsFiniteSet(S), NEW f, NEW low \in Nat, NEW high \in Nat,
         \A i \in S : f[i] \in Nat /\ low <= f[i] /\ f[i] <= high
  PROVE  /\ low * Cardinality(S) <= SumFunctionOnSet(f, S)
         /\ SumFunctionOnSet(f, S) <= high * Cardinality(S)
<1> DEFINE a == [i \in S |-> low]
           b == [i \in S |-> high]
<1>1. /\ \A i \in S : a[i] = low /\ b[i] = high
      /\ \A i \in S : a[i] \in Int /\ f[i] \in Int /\ a[i] <= f[i]
      /\ \A i \in S : b[i] \in Int /\ f[i] \in Int /\ f[i] <= b[i]
  OBVIOUS
<1>2. low \in Int /\ high \in Int
  OBVIOUS
<1> HIDE DEF a, b
<1>3. SumFunctionOnSet(a, S) = low * Cardinality(S)
  BY <1>1, <1>2, SumOfConstant
<1>4. SumFunctionOnSet(b, S) = high * Cardinality(S)
  BY <1>1, <1>2, SumOfConstant
<1>5. SumFunctionOnSet(a, S) <= SumFunctionOnSet(f, S)
  BY <1>1, SumMonotone
<1>6. SumFunctionOnSet(f, S) <= SumFunctionOnSet(b, S)
  BY <1>1, SumMonotone
<1> QED BY <1>3, <1>4, <1>5, <1>6

LEMMA SumOfNaturals ==
  ASSUME NEW S, IsFiniteSet(S), NEW f, \A i \in S : f[i] \in Nat
  PROVE  SumFunctionOnSet(f, S) \in Nat
<1> DEFINE a == [i \in S |-> 0]
<1>1. \A i \in S : a[i] = 0 /\ a[i] \in Int /\ f[i] \in Int /\ a[i] <= f[i]
  OBVIOUS
<1> HIDE DEF a
<1>2. SumFunctionOnSet(a, S) = 0 * Cardinality(S)
  BY <1>1, SumOfConstant
<1>3. Cardinality(S) \in Nat
  BY FS_CardinalityType
<1>4. SumFunctionOnSet(a, S) <= SumFunctionOnSet(f, S) /\ SumFunctionOnSet(f, S) \in Int
  BY <1>1, SumMonotone, SumOnSet
<1> QED BY <1>2, <1>3, <1>4

\* The members with a key.
Keyed(S, key, k) == {i \in S : key[i] = k}

(* Sums by key add up to the sum: each element is in one group only, and in one.     *)
LEMMA SumByKey ==
  ASSUME NEW S, IsFiniteSet(S), NEW v, \A i \in S : v[i] \in Int,
         NEW K, IsFiniteSet(K), NEW key, \A i \in S : key[i] \in K,
         NEW t, \A k \in K : t[k] = SumFunctionOnSet(v, Keyed(S, key, k))
  PROVE  SumFunctionOnSet(t, K) = SumFunctionOnSet(v, S)
<1> DEFINE Sum(e, s) == SumFunctionOnSet(e, s)
           Of(L) == {i \in S : key[i] \in L}
           Only(k) == Keyed(S, key, k)
           X == {L \in SUBSET K : Sum(t, L) = Sum(v, Of(L))}
<1>1. \A k \in K : /\ IsFiniteSet(Only(k)) /\ (\A i \in Only(k) : v[i] \in Int)
                   /\ t[k] = Sum(v, Only(k)) /\ t[k] \in Int
  <2> SUFFICES ASSUME NEW k \in K
               PROVE  /\ IsFiniteSet(Only(k)) /\ (\A i \in Only(k) : v[i] \in Int)
                      /\ t[k] = Sum(v, Only(k)) /\ t[k] \in Int
    OBVIOUS
  <2>1. Only(k) \subseteq S
    BY DEF Keyed
  <2>2. IsFiniteSet(Only(k)) /\ \A i \in Only(k) : v[i] \in Int
    BY <2>1, FS_Subset
  <2>3. Sum(v, Only(k)) \in Int
    BY <2>2, SumOnSet
  <2> QED BY <2>2, <2>3
<1>2. ASSUME NEW L \in SUBSET K, \A w \in SUBSET L : w # L => w \in X PROVE L \in X
  <2>1. IsFiniteSet(L) /\ \A k \in L : t[k] \in Int
    BY <1>1, FS_Subset
  <2>2. CASE L = {}
    <3>1. Of(L) = {} /\ IsFiniteSet({})
      BY <2>2, FS_EmptySet
    <3>2. Sum(t, L) = 0 /\ Sum(v, Of(L)) = 0
      <4>1. Sum(t, {}) = 0
        BY <2>1, SumOnSet
      <4>2. Sum(v, {}) = 0
        BY SumOnSet
      <4> QED BY <2>2, <3>1, <4>1, <4>2
    <3> QED BY <3>2
  <2>3. CASE L # {}
    <3>1. PICK k \in L : TRUE
      BY <2>3
    <3>2. PICK w \in SUBSET L : w = L \ {k} /\ w # L
      <4>1. L \ {k} \in SUBSET L /\ L \ {k} # L
        BY <3>1
      <4> QED BY <4>1
    <3>3. Sum(t, w) = Sum(v, Of(w))
      BY <1>2, <3>2
    <3>4. Of(L) = Of(w) \cup Only(k) /\ Of(w) \cap Only(k) = {} /\ Of(w) \subseteq S
      BY <3>1, <3>2 DEF Keyed
    <3>5. IsFiniteSet(Of(w)) /\ \A i \in Of(w) \cup Only(k) : v[i] \in Int
      BY <3>4, FS_Subset
    <3>6. Sum(v, Of(L)) = Sum(v, Of(w)) + Sum(v, Only(k))
      <4>1. IsFiniteSet(Only(k))
        BY <1>1, <3>1
      <4> HIDE DEF Of, Only
      <4> QED BY <3>4, <3>5, <4>1, SumOfUnion
    <3>7. Sum(t, L) = t[k] + Sum(t, w)
      BY <2>1, <3>1, <3>2, SumOnSet
    <3>8. Sum(v, Of(w)) \in Int
      <4> HIDE DEF Of, Only
      <4> QED BY <3>5, SumOnSet
    <3>9. t[k] = Sum(v, Only(k)) /\ t[k] \in Int
      BY <1>1, <3>1
    <3> HIDE DEF Sum, Of, Only
    <3>10. Sum(t, L) = Sum(v, Of(L))
      BY <3>3, <3>6, <3>7, <3>8, <3>9
    <3> QED BY <3>10
  <2> QED BY <2>2, <2>3
<1>3. SUBSET K \subseteq X
  <2> HIDE DEF X
  <2> QED BY <1>2, InductionOverSets
<1>4. K \in X
  <2> HIDE DEF X
  <2> QED BY <1>3
<1>5. Of(K) = S
  OBVIOUS
<1> QED BY <1>4, <1>5

(* Members counted by a key: the parts together are as many as the whole.            *)
LEMMA CountByKey ==
  ASSUME NEW S, IsFiniteSet(S), NEW key, NEW K, K = {key[i] : i \in S},
         NEW t, \A k \in K : t[k] = Cardinality(Keyed(S, key, k))
  PROVE  SumFunctionOnSet(t, K) = Cardinality(S)
<1> DEFINE one == [i \in S |-> 1]
<1>1. IsFiniteSet(K)
  BY ValuesAreFinite
<1>2. \A i \in S : one[i] = 1 /\ one[i] \in Int
  OBVIOUS
<1> HIDE DEF one
<1>3. ASSUME NEW T, T \in SUBSET S PROVE SumFunctionOnSet(one, T) = Cardinality(T)
  <2>1. IsFiniteSet(T) /\ \A i \in T : one[i] = 1
    BY <1>2, <1>3, FS_Subset
  <2>2. SumFunctionOnSet(one, T) = 1 * Cardinality(T)
    BY <2>1, SumOfConstant
  <2>3. Cardinality(T) \in Nat
    BY <2>1, FS_CardinalityType
  <2> QED BY <2>2, <2>3
<1>4. \A k \in K : t[k] = SumFunctionOnSet(one, Keyed(S, key, k))
  <2>1. \A k \in K : Keyed(S, key, k) \in SUBSET S
    BY DEF Keyed
  <2> QED BY <2>1, <1>3
<1>5. \A i \in S : key[i] \in K
  OBVIOUS
<1>6. SumFunctionOnSet(t, K) = SumFunctionOnSet(one, S)
  BY <1>1, <1>2, <1>4, <1>5, SumByKey
<1>7. S \in SUBSET S
  OBVIOUS
<1> QED BY <1>3, <1>6, <1>7

-----------------------------------------------------------------------------
\* The elements of a set of numbers in increasing order.
Increasing(s) == \A i, j \in DOMAIN s : i < j => s[i] < s[j]

(* Every finite set of numbers can be put in order.                                  *)
LEMMA OrderExists ==
  ASSUME NEW S, IsFiniteSet(S), S \subseteq Nat
  PROVE  \E s \in [1..Cardinality(S) -> S] : Increasing(s)
<1> DEFINE X == {U \in SUBSET S : \E s \in [1..Cardinality(U) -> U] : Increasing(s)}
<1>1. ASSUME NEW U \in SUBSET S, \A W \in SUBSET U : W # U => W \in X PROVE U \in X
  <2>1. IsFiniteSet(U) /\ Cardinality(U) \in Nat
    BY FS_Subset, FS_CardinalityType
  <2>2. CASE U = {}
    <3>1. Cardinality(U) = 0 /\ 1..0 = {}
      BY <2>2, FS_EmptySet
    <3> DEFINE none == [i \in 1..Cardinality(U) |-> i]
    <3>2. none \in [1..Cardinality(U) -> U] /\ DOMAIN none = {}
      BY <3>1
    <3> HIDE DEF none
    <3>3. Increasing(none)
      BY <3>2 DEF Increasing
    <3> QED BY <3>2, <3>3
  <2>3. CASE U # {}
    <3>1. PICK u \in U : \A m \in U : m <= u
      BY <2>1, <2>3, GreatestNumber
    <3>2. PICK W \in SUBSET U : W = U \ {u} /\ W # U
      <4>1. U \ {u} # U /\ U \ {u} \in SUBSET U
        OBVIOUS
      <4> QED BY <4>1
    <3>3. PICK k \in Nat : k = Cardinality(W) /\ Cardinality(U) = k + 1
      <4>1. IsFiniteSet(W) /\ Cardinality(U) = Cardinality(W) + 1 /\ Cardinality(W) \in Nat
        BY <2>1, <3>2, FS_Subset, FS_RemoveElement, FS_CardinalityType
      <4> QED BY <4>1
    <3>4. PICK s \in [1..k -> W] : Increasing(s)
      BY <1>1, <3>2, <3>3
    <3> DEFINE more == [i \in 1..(k + 1) |-> IF i = k + 1 THEN u ELSE s[i]]
    <3>5. /\ more \in [1..(k + 1) -> U] /\ DOMAIN more = 1..(k + 1)
          /\ more[k + 1] = u /\ \A i \in 1..k : more[i] = s[i]
      <4>1. \A i \in 1..(k + 1) : i # k + 1 => i \in 1..k
        OBVIOUS
      <4>2. \A i \in 1..k : i \in 1..(k + 1) /\ i # k + 1
        OBVIOUS
      <4> QED BY <3>2, <3>4, <4>1, <4>2
    <3> HIDE DEF more
    <3>6. ASSUME NEW i \in 1..(k + 1), NEW j \in 1..(k + 1), i < j PROVE more[i] < more[j]
      <4>1. i \in 1..k
        BY <3>6
      <4>2. CASE j \in 1..k
        BY <4>1, <4>2, <3>4, <3>5, <3>6 DEF Increasing
      <4>3. CASE j = k + 1
        <5>1. s[i] \in W
          BY <4>1, <3>4
        <5>2. s[i] \in Nat /\ u \in Nat /\ s[i] <= u /\ s[i] # u
          BY <5>1, <3>1, <3>2
        <5> QED BY <4>1, <4>3, <5>2, <3>5
      <4> QED BY <4>2, <4>3
    <3>7. Increasing(more)
      BY <3>5, <3>6 DEF Increasing
    <3> QED BY <3>3, <3>5, <3>7
  <2> QED BY <2>2, <2>3
<1>2. SUBSET S \subseteq X
  <2> HIDE DEF X
  <2> QED BY <1>1, InductionOverSets
<1> QED BY <1>2

(* And what is put in order is all of it. *)
LEMMA OrderListsAll ==
  ASSUME NEW S, IsFiniteSet(S), S \subseteq Nat,
         NEW s \in [1..Cardinality(S) -> S], Increasing(s)
  PROVE  \A x \in S : \E i \in 1..Cardinality(S) : s[i] = x
<1>1. PICK k \in Nat : k = Cardinality(S)
  BY FS_CardinalityType
<1>2. ASSUME NEW i \in 1..k, NEW j \in 1..k, i # j PROVE s[i] # s[j]
  <2>1. i < j \/ j < i
    BY <1>2
  <2>2. s[i] \in Nat /\ s[j] \in Nat
    BY <1>1
  <2> QED BY <1>1, <2>1, <2>2 DEF Increasing
<1>3. s \in Injection(1..k, S)
  BY <1>1, <1>2 DEF Injection, IsInjective
<1>4. IsFiniteSet(1..k) /\ Cardinality(1..k) = k
  BY FS_Interval
<1>5. s \in Surjection(1..k, S)
  BY <1>1, <1>3, <1>4, FS_Injection
<1> QED BY <1>1, <1>5 DEF Surjection

(* A finite set that a relation orders has a first element.                          *)
LEMMA FirstExists ==
  ASSUME NEW S, IsFiniteSet(S), S # {}, NEW R,
         \A x, y \in S : x # y => <<x, y>> \in R \/ <<y, x>> \in R,
         \A x, y, z \in S : <<x, y>> \in R /\ <<y, z>> \in R => <<x, z>> \in R
  PROVE  \E x \in S : \A y \in S : y = x \/ <<x, y>> \in R
<1> DEFINE First(U) == \E x \in U : \A y \in U : y = x \/ <<x, y>> \in R
           X == {U \in SUBSET S : U = {} \/ First(U)}
<1>1. ASSUME NEW U \in SUBSET S, \A W \in SUBSET U : W # U => W \in X PROVE U \in X
  <2> SUFFICES ASSUME U # {} PROVE First(U)
    OBVIOUS
  <2>1. PICK u \in U : TRUE
    OBVIOUS
  <2>2. PICK W \in SUBSET U : W = U \ {u} /\ W # U
    <3>1. U \ {u} \in SUBSET U /\ U \ {u} # U
      BY <2>1
    <3> QED BY <3>1
  <2>3. W = {} \/ First(W)
    BY <1>1, <2>2
  <2>4. CASE W = {}
    BY <2>1, <2>2, <2>4
  <2>5. CASE First(W)
    <3>1. PICK x \in W : \A y \in W : y = x \/ <<x, y>> \in R
      BY <2>5
    <3>2. x \in U /\ x # u /\ \A y \in U : y = u \/ y \in W
      BY <2>2, <3>1
    <3>3. CASE <<x, u>> \in R
      BY <3>1, <3>2, <3>3
    <3>4. CASE <<u, x>> \in R
      <4>1. \A y \in W : <<u, y>> \in R
        BY <2>1, <2>2, <3>1, <3>2, <3>4
      <4> QED BY <2>1, <3>2, <4>1
    <3> QED BY <2>1, <3>2, <3>3, <3>4
  <2> QED BY <2>3, <2>4, <2>5
<1>2. SUBSET S \subseteq X
  <2> HIDE DEF X
  <2> QED BY <1>1, InductionOverSets
<1>3. S \in X
  <2> HIDE DEF X
  <2> QED BY <1>2
<1> QED BY <1>3

(* A positive factor keeps the order of integers.                                    *)
LEMMA Multiplied ==
  ASSUME NEW c \in Nat \ {0}, NEW x \in Int, NEW y \in Int
  PROVE  c * x <= c * y <=> x <= y
<1>1. CASE x <= y
  <2>1. PICK z \in Nat : y = x + z
    <3>1. y - x \in Nat /\ y = x + (y - x)
      BY <1>1
    <3> QED BY <3>1
  <2>2. c * y = c * x + c * z /\ c * z >= 0
    BY <2>1
  <2>3. PICK u \in Int, v \in Int, w \in Int : u = c * x /\ v = c * y /\ w = c * z
    BY <2>1
  <2> QED BY <1>1, <2>2, <2>3
<1>2. CASE ~(x <= y)
  <2>1. PICK z \in Nat : x = y + z + 1
    <3>1. x - y - 1 \in Nat /\ x = y + (x - y - 1) + 1
      BY <1>2
    <3> QED BY <3>1
  <2>2. c * x = c * y + c * z + c /\ c * z >= 0
    BY <2>1
  <2>3. PICK u \in Int, v \in Int, w \in Int : u = c * x /\ v = c * y /\ w = c * z
    BY <2>1
  <2> QED BY <1>2, <2>2, <2>3
<1> QED BY <1>1, <1>2

-----------------------------------------------------------------------------
\* An order of the elements of a set, all of them comparable, and those that come before one.
Linear(S, R) ==
  /\ \A x \in S : <<x, x>> \notin R
  /\ \A x, y \in S : x # y => <<x, y>> \in R \/ <<y, x>> \in R
  /\ \A x, y, z \in S : <<x, y>> \in R /\ <<y, z>> \in R => <<x, z>> \in R

Preceding(S, R, x) == {y \in S : <<y, x>> \in R}

LEMMA LinearOnPart ==
  ASSUME NEW S, NEW R, Linear(S, R), NEW U \in SUBSET S
  PROVE  Linear(U, R)
BY DEF Linear

(* The more come before an element, the later it is.                                 *)
LEMMA PrecedingOrders ==
  ASSUME NEW S, IsFiniteSet(S), NEW R, Linear(S, R), NEW x \in S, NEW y \in S
  PROVE  /\ Cardinality(Preceding(S, R, x)) \in 0 .. Cardinality(S) - 1
         /\ <<x, y>> \in R => Cardinality(Preceding(S, R, x)) < Cardinality(Preceding(S, R, y))
<1>1. ASSUME NEW T \in SUBSET S, NEW U \in SUBSET T, NEW u \in T, u \notin U
      PROVE  Cardinality(U) \in Nat /\ Cardinality(T) \in Nat /\ Cardinality(U) < Cardinality(T)
  <2>1. IsFiniteSet(T) /\ IsFiniteSet(U)
    BY FS_Subset
  <2>2. U \cup {u} \in SUBSET T /\ IsFiniteSet(U \cup {u})
    BY <1>1, <2>1, FS_AddElement
  <2>3. Cardinality(U \cup {u}) = Cardinality(U) + 1
    BY <1>1, <2>1, FS_AddElement
  <2>4. Cardinality(U \cup {u}) <= Cardinality(T)
    BY <2>1, <2>2, FS_Subset
  <2>5. Cardinality(U) \in Nat /\ Cardinality(T) \in Nat
    BY <2>1, FS_CardinalityType
  <2> QED BY <2>3, <2>4, <2>5
<1>2. /\ Preceding(S, R, x) \in SUBSET S /\ Preceding(S, R, y) \in SUBSET S
      /\ x \notin Preceding(S, R, x)
  BY DEF Preceding, Linear
<1>3. Cardinality(Preceding(S, R, x)) \in 0 .. Cardinality(S) - 1
  <2>1. S \in SUBSET S
    OBVIOUS
  <2>2. /\ Cardinality(Preceding(S, R, x)) \in Nat /\ Cardinality(S) \in Nat
        /\ Cardinality(Preceding(S, R, x)) < Cardinality(S)
    BY <1>1, <1>2, <2>1
  <2> QED BY <2>2
<1>4. ASSUME <<x, y>> \in R
      PROVE  Cardinality(Preceding(S, R, x)) < Cardinality(Preceding(S, R, y))
  <2>1. Preceding(S, R, x) \in SUBSET Preceding(S, R, y) /\ x \in Preceding(S, R, y)
    BY <1>4 DEF Preceding, Linear
  <2> QED BY <1>1, <1>2, <2>1
<1> QED BY <1>3, <1>4

(* In each place there is an element.                                                *)
LEMMA PlaceExists ==
  ASSUME NEW S, IsFiniteSet(S), NEW R, Linear(S, R), NEW p \in 1 .. Cardinality(S)
  PROVE  \E x \in S : Cardinality(Preceding(S, R, x)) = p - 1
<1> DEFINE Placed(U) == \A q \in 1 .. Cardinality(U) :
                          \E x \in U : Cardinality(Preceding(U, R, x)) = q - 1
           X == {U \in SUBSET S : Placed(U)}
<1>1. ASSUME NEW U \in SUBSET S, \A W \in SUBSET U : W # U => W \in X PROVE U \in X
  <2>1. IsFiniteSet(U) /\ Linear(U, R) /\ Cardinality(U) \in Nat
    BY FS_Subset, FS_CardinalityType, LinearOnPart
  <2>2. CASE U = {}
    <3>1. Cardinality(U) = 0
      BY <2>2, FS_EmptySet
    <3> QED BY <3>1
  <2>3. CASE U # {}
    <3> DEFINE Q == {t \in U \X U : <<t[2], t[1]>> \in R}
    <3>1. \A x, y \in U : <<x, y>> \in Q <=> <<y, x>> \in R
      OBVIOUS
    <3> HIDE DEF Q
    <3>2. \A x, y \in U : x # y => <<x, y>> \in Q \/ <<y, x>> \in Q
      BY <2>1, <3>1 DEF Linear
    <3>3. \A x, y, z \in U : <<x, y>> \in Q /\ <<y, z>> \in Q => <<x, z>> \in Q
      BY <2>1, <3>1 DEF Linear
    <3>4. PICK last \in U : \A y \in U : y = last \/ <<last, y>> \in Q
      BY <2>1, <2>3, <3>2, <3>3, FirstExists
    <3>5. \A y \in U : y = last \/ <<y, last>> \in R
      BY <3>1, <3>4
    <3>6. PICK W \in SUBSET U : W = U \ {last} /\ W # U
      <4>1. U \ {last} \in SUBSET U /\ U \ {last} # U
        BY <3>4
      <4> QED BY <4>1
    <3>7. Placed(W)
      BY <1>1, <3>6
    <3>8. Cardinality(W) = Cardinality(U) - 1
      BY <2>1, <3>6, FS_RemoveElement
    <3>9. ASSUME NEW q \in 1 .. Cardinality(U)
          PROVE  \E x \in U : Cardinality(Preceding(U, R, x)) = q - 1
      <4>1. CASE q = Cardinality(U)
        <5>1. Preceding(U, R, last) = W
          BY <2>1, <3>5, <3>6 DEF Preceding, Linear
        <5> QED BY <3>8, <4>1, <5>1
      <4>2. CASE q # Cardinality(U)
        <5>1. q \in 1 .. Cardinality(W)
          BY <2>1, <3>8, <4>2
        <5>2. PICK x \in W : Cardinality(Preceding(W, R, x)) = q - 1
          BY <3>7, <5>1
        <5>3. x \in U /\ <<x, last>> \in R
          BY <3>5, <3>6
        <5>4. <<last, x>> \notin R
          BY <2>1, <5>3 DEF Linear
        <5>5. Preceding(U, R, x) = Preceding(W, R, x)
          BY <3>6, <5>4 DEF Preceding
        <5> QED BY <5>2, <5>3, <5>5
      <4> QED BY <4>1, <4>2
    <3> QED BY <3>9
  <2> QED BY <2>2, <2>3
<1>2. SUBSET S \subseteq X
  <2> HIDE DEF X
  <2> QED BY <1>1, InductionOverSets
<1>3. S \in X
  <2> HIDE DEF X
  <2> QED BY <1>2
<1> QED BY <1>3
=============================================================================
