-------------------------- MODULE PixelCacheProofs --------------------------
(***************************************************************************)
(* Proofs about PixelCache, for any keys, values, sizes and budgets: its   *)
(* invariant, then what its steps may do, then the order and number of its *)
(* entries as CacheHistory observes them.                                  *)
(***************************************************************************)
EXTENDS CacheHistory, FiniteSetTheorems, SequenceTheorems, TLAPS

-----------------------------------------------------------------------------
(* Induction on the natural numbers stated over sets, so that it can be    *)
(* cited with a set in the place of a predicate.                           *)

(* A set that holds 0, and n + 1 whenever it holds n, holds every natural  *)
(* number.  The least counterexample is found through the intervals 1..n,  *)
(* which strict inclusion orders well-foundedly.  Used for the running     *)
(* totals of the cache's books.                                            *)
LEMMA NatSetInduction ==
  ASSUME NEW S, 0 \in S, \A n \in Nat : n \in S => n + 1 \in S
  PROVE  Nat \subseteq S
<1> DEFINE T == Nat \ S
           R == StrictSubsetOrdering(Nat)
           F == FiniteSubsetsOf(Nat)
           I == {1..n : n \in T}
<1> SUFFICES ASSUME T # {} PROVE FALSE
  OBVIOUS
<1>1. ASSUME NEW n \in Nat PROVE 1..n \in F
  <2>1. IsFiniteSet(1..n)
    BY FS_Interval
  <2>2. 1..n \in SUBSET Nat
    OBVIOUS
  <2> QED BY <2>1, <2>2 DEF FiniteSubsetsOf
<1>2. I \subseteq F /\ I # {}
  BY <1>1
<1>3. IsWellFoundedOn(R, F)
  BY FS_StrictSubsetOrderingWellFounded
<1> HIDE DEF R, F
<1>4. PICK m \in I : \A y \in I : ~ (<<y, m>> \in R)
  BY <1>2, <1>3, WFMin
<1>5. PICK x \in T : m = 1..x
  BY <1>4
<1>6. x # 0 /\ x \in Nat
  OBVIOUS
<1>7. 1..(x - 1) \in I
  <2>1. x - 1 \in Nat /\ x - 1 \notin S
    BY <1>6
  <2> QED BY <2>1
<1>8. 1..(x - 1) \subseteq 1..x /\ x \in 1..x /\ x \notin 1..(x - 1)
  BY <1>6
<1>9. <<1..(x - 1), 1..x>> \in R
  BY <1>8, <1>6 DEF R, StrictSubsetOrdering
<1> QED
  BY <1>9, <1>7, <1>4, <1>5

(* A non-empty set of naturals has a least element: the number of entries  *)
(* an eviction loop pops is the least one that makes its condition false.  *)
LEMMA LeastNatural ==
  ASSUME NEW S \in SUBSET Nat, S # {}
  PROVE  \E n \in S : \A m \in 0..(n - 1) : m \notin S
<1> SUFFICES ASSUME \A n \in S : \E m \in 0..(n - 1) : m \in S PROVE FALSE
  OBVIOUS
<1> DEFINE A == {n \in Nat : \A m \in 0..n : m \notin S}
<1>1. 0 \in A
  <2>1. 0 \notin S
    OBVIOUS
  <2> QED BY <2>1
<1>2. ASSUME NEW n \in Nat, n \in A PROVE n + 1 \in A
  <2>1. n + 1 \notin S
    BY <1>2
  <2> QED BY <1>2, <2>1
<1>3. Nat \subseteq A
  <2> HIDE DEF A
  <2> QED BY <1>1, <1>2, NatSetInduction
<1>4. PICK n \in S : TRUE
  OBVIOUS
<1>5. n \in Nat /\ n \in 0..n /\ n \in A
  BY <1>3
<1> QED
  BY <1>5

(* A non-empty set of naturals up to k has a greatest element: the deepest *)
(* derived level that is resident.                                         *)
LEMMA GreatestNatural ==
  ASSUME NEW k \in Nat, NEW S \in SUBSET (0..k), S # {}
  PROVE  \E n \in S : \A m \in S : n >= m
<1> DEFINE D == {k - j : j \in S}
<1>1. D \in SUBSET Nat /\ D # {}
  <2>1. ASSUME NEW j \in S PROVE k - j \in Nat
    <3>1. j \in 0..k
      OBVIOUS
    <3> QED BY <3>1
  <2>2. PICK j \in S : TRUE
    OBVIOUS
  <2>3. k - j \in D
    OBVIOUS
  <2> QED BY <2>1, <2>3
<1>2. PICK d \in D : \A m \in 0..(d - 1) : m \notin D
  <2> HIDE DEF D
  <2> QED BY <1>1, LeastNatural
<1>3. PICK x \in S : d = k - x
  OBVIOUS
<1>4. ASSUME NEW y \in S PROVE x >= y
  <2>1. x \in 0..k /\ y \in 0..k /\ k - y \in D
    OBVIOUS
  <2> HIDE DEF D
  <2>2. CASE y > x
    <3>1. k - y \in 0..(d - 1)
      BY <1>3, <2>1, <2>2
    <3> QED BY <3>1, <2>1, <1>2
  <2> QED BY <2>1, <2>2
<1> QED
  BY <1>4

-----------------------------------------------------------------------------
(* Sums over a sequence of entries. *)

(* g is the running total of weight over s. *)
Running(g, weight, s) ==
  g = [n \in 0..Len(s) |-> IF n = 0 THEN 0 ELSE g[n - 1] + weight[s[n]]]

(* Running totals exist, so that Total is what its definition says.        *)
LEMMA TotalIsRunning ==
  ASSUME NEW weight, NEW s, Len(s) \in Nat
  PROVE  \E g : Running(g, weight, s) /\ Total(weight, s) = g[Len(s)]
<1> DEFINE Upto(g, n) ==
             g = [i \in 0..n |-> IF i = 0 THEN 0 ELSE g[i - 1] + weight[s[i]]]
           A == {n \in Nat : \E g : Upto(g, n)}
<1>1. 0 \in A
  <2> DEFINE g == [i \in 0..0 |-> 0]
  <2>1. Upto(g, 0)
    OBVIOUS
  <2> QED BY <2>1
<1>2. ASSUME NEW n \in Nat, n \in A PROVE n + 1 \in A
  <2>1. PICK g : Upto(g, n)
    BY <1>2
  <2> DEFINE h == [i \in 0..(n + 1) |-> IF i <= n THEN g[i] ELSE g[n] + weight[s[n + 1]]]
             r == [i \in 0..(n + 1) |-> IF i = 0 THEN 0 ELSE h[i - 1] + weight[s[i]]]
  <2>2. ASSUME NEW i \in 0..(n + 1) PROVE h[i] = r[i]
    <3>1. CASE i = 0
      BY <2>1, <3>1
    <3>2. CASE i \in 1..n
      <4>1. i - 1 \in 0..n /\ i \in 0..n /\ i # 0
        BY <3>2
      <4>2. g[i] = g[i - 1] + weight[s[i]]
        BY <2>1, <4>1
      <4> QED BY <4>1, <4>2
    <3>3. CASE i = n + 1
      BY <3>3
    <3> QED BY <3>1, <3>2, <3>3
  <2>3. Upto(h, n + 1)
    <3>1. h = r
      BY <2>2
    <3> QED BY <3>1
  <2> HIDE DEF h, Upto
  <2> QED BY <2>3
<1>3. Len(s) \in A
  <2> HIDE DEF A
  <2> QED BY <1>1, <1>2, NatSetInduction
<1>4. PICK g : Upto(g, Len(s))
  BY <1>3
<1> DEFINE sum == CHOOSE f : Upto(f, Len(s))
<1>5. Upto(sum, Len(s))
  BY <1>4
<1>6. Total(weight, s) = sum[Len(s)]
  BY DEF Total
<1> QED
  BY <1>5, <1>6 DEF Running

(* Running totals over sequences that agree on a prefix agree there.       *)
LEMMA RunningAgree ==
  ASSUME NEW weight, NEW s, NEW t, NEW f, NEW g, NEW n \in Nat,
         Len(s) \in Nat, Len(t) \in Nat, n <= Len(s), n <= Len(t),
         Running(f, weight, s), Running(g, weight, t),
         \A i \in 1..n : s[i] = t[i]
  PROVE  \A k \in 0..n : f[k] = g[k]
<1> DEFINE A == {k \in Nat : k <= n => f[k] = g[k]}
<1>1. 0 \in A
  BY DEF Running
<1>2. ASSUME NEW k \in Nat, k \in A PROVE k + 1 \in A
  <2> SUFFICES ASSUME k + 1 <= n PROVE f[k + 1] = g[k + 1]
    OBVIOUS
  <2>1. /\ k + 1 \in 0..Len(s) /\ k + 1 \in 0..Len(t)
        /\ k + 1 \in 1..n /\ k + 1 # 0 /\ (k + 1) - 1 = k
    OBVIOUS
  <2>2. f[k + 1] = f[k] + weight[s[k + 1]]
    BY <2>1 DEF Running
  <2>3. g[k + 1] = g[k] + weight[t[k + 1]]
    BY <2>1 DEF Running
  <2> QED BY <1>2, <2>1, <2>2, <2>3
<1>3. Nat \subseteq A
  <2> HIDE DEF A
  <2> QED BY <1>1, <1>2, NatSetInduction
<1> QED
  BY <1>3

(* Weights are natural numbers, and so are running totals.                 *)
LEMMA RunningType ==
  ASSUME NEW E, NEW weight \in [E -> Nat], NEW s \in Seq(E), NEW g,
         Running(g, weight, s)
  PROVE  \A k \in 0..Len(s) : g[k] \in Nat
<1> DEFINE A == {k \in Nat : k <= Len(s) => g[k] \in Nat}
<1>0. Len(s) \in Nat
  BY LenProperties
<1>1. 0 \in A
  BY <1>0 DEF Running
<1>2. ASSUME NEW k \in Nat, k \in A PROVE k + 1 \in A
  <2> SUFFICES ASSUME k + 1 <= Len(s) PROVE g[k + 1] \in Nat
    OBVIOUS
  <2>1. /\ k + 1 \in 0..Len(s) /\ k + 1 \in 1..Len(s)
        /\ k + 1 # 0 /\ (k + 1) - 1 = k /\ k <= Len(s)
    BY <1>0
  <2>2. g[k + 1] = g[k] + weight[s[k + 1]]
    BY <2>1 DEF Running
  <2>3. s[k + 1] \in E
    BY <2>1, ElementOfSeq
  <2>4. weight[s[k + 1]] \in Nat
    BY <2>3
  <2>5. g[k] \in Nat
    BY <1>2, <2>1
  <2> QED BY <2>2, <2>4, <2>5
<1>3. Nat \subseteq A
  <2> HIDE DEF A
  <2> QED BY <1>1, <1>2, NatSetInduction
<1> QED
  BY <1>3, <1>0

(* Totals of natural weights are natural numbers.                          *)
LEMMA TotalType ==
  ASSUME NEW E, NEW weight \in [E -> Nat], NEW s \in Seq(E)
  PROVE  Total(weight, s) \in Nat
<1>1. Len(s) \in Nat
  BY LenProperties
<1>2. PICK g : Running(g, weight, s) /\ Total(weight, s) = g[Len(s)]
  BY <1>1, TotalIsRunning
<1>3. g[Len(s)] \in Nat
  BY <1>1, <1>2, RunningType
<1> QED
  BY <1>2, <1>3

(* Nothing resident, nothing booked.                                       *)
LEMMA TotalEmpty ==
  ASSUME NEW weight
  PROVE  Total(weight, << >>) = 0
<1>1. Len(<< >>) = 0
  OBVIOUS
<1>2. PICK g : Running(g, weight, << >>) /\ Total(weight, << >>) = g[0]
  BY <1>1, TotalIsRunning
<1> QED
  BY <1>1, <1>2 DEF Running

(* The total of a single entry is its weight.                              *)
LEMMA TotalOne ==
  ASSUME NEW E, NEW weight \in [E -> Nat], NEW e \in E
  PROVE  Total(weight, <<e>>) = weight[e]
<1> DEFINE s == <<e>>
<1>1. Len(s) = 1 /\ s[1] = e
  OBVIOUS
<1>2. PICK g : Running(g, weight, s) /\ Total(weight, s) = g[1]
  BY <1>1, TotalIsRunning
<1> HIDE DEF s
<1>3. g[1] = g[0] + weight[s[1]] /\ g[0] = 0
  BY <1>1, <1>2 DEF Running
<1> QED
  BY <1>1, <1>2, <1>3 DEF s

(* The total of a concatenation is the sum of the totals.                  *)
LEMMA TotalConcat ==
  ASSUME NEW E, NEW weight \in [E -> Nat], NEW s \in Seq(E), NEW t \in Seq(E)
  PROVE  Total(weight, s \o t) = Total(weight, s) + Total(weight, t)
<1> DEFINE u == s \o t
           m == Len(s)
           n == Len(t)
<1>1. /\ m \in Nat /\ n \in Nat /\ Len(u) = m + n /\ u \in Seq(E)
      /\ \A i \in 1..m : u[i] = s[i]
      /\ \A i \in 1..n : u[m + i] = t[i]
  <2>1. m \in Nat /\ n \in Nat
    BY LenProperties
  <2>2. /\ u \in Seq(E) /\ Len(u) = m + n
        /\ \A i \in 1..(m + n) : u[i] = IF i <= m THEN s[i] ELSE t[i - m]
    BY ConcatProperties
  <2> HIDE DEF u, m, n
  <2>3. \A i \in 1..m : u[i] = s[i]
    BY <2>1, <2>2
  <2>4. ASSUME NEW i \in 1..n PROVE u[m + i] = t[i]
    <3>1. m + i \in 1..(m + n) /\ ~(m + i <= m) /\ (m + i) - m = i
      BY <2>1
    <3> QED BY <2>2, <3>1
  <2> QED BY <2>1, <2>2, <2>3, <2>4
<1> HIDE DEF u
<1>2. PICK f : Running(f, weight, u) /\ Total(weight, u) = f[m + n]
  <2>1. Len(u) \in Nat
    BY <1>1
  <2>2. \E f : Running(f, weight, u) /\ Total(weight, u) = f[Len(u)]
    BY <2>1, TotalIsRunning
  <2> QED BY <2>2, <1>1
<1>3. PICK g : Running(g, weight, s) /\ Total(weight, s) = g[m]
  BY <1>1, TotalIsRunning
<1>4. PICK h : Running(h, weight, t) /\ Total(weight, t) = h[n]
  BY <1>1, TotalIsRunning
<1>5. f[m] = g[m]
  <2>1. Len(u) \in Nat /\ Len(s) \in Nat /\ m \in Nat
    BY <1>1
  <2>2. m <= Len(u) /\ m <= Len(s)
    BY <1>1
  <2>3. \A i \in 1..m : u[i] = s[i]
    BY <1>1
  <2>4. Running(f, weight, u) /\ Running(g, weight, s)
    BY <1>2, <1>3
  <2> HIDE DEF m
  <2>5. \A k \in 0..m : f[k] = g[k]
    BY <2>1, <2>2, <2>3, <2>4, RunningAgree
  <2> QED BY <2>1, <2>5
<1>6. /\ \A k \in 0..m : g[k] \in Nat
      /\ \A k \in 0..n : h[k] \in Nat
      /\ \A k \in 0..(m + n) : f[k] \in Nat
  BY <1>1, <1>2, <1>3, <1>4, RunningType
<1> DEFINE A == {k \in Nat : k <= n => f[m + k] = g[m] + h[k]}
<1>7. 0 \in A
  <2>1. h[0] = 0
    BY <1>1, <1>4 DEF Running
  <2>2. g[m] \in Nat /\ m + 0 = m
    BY <1>1, <1>6
  <2> QED BY <1>5, <2>1, <2>2
<1>8. ASSUME NEW k \in Nat, k \in A PROVE k + 1 \in A
  <2> HIDE DEF m, n
  <2> SUFFICES ASSUME k + 1 <= n PROVE f[m + (k + 1)] = g[m] + h[k + 1]
    OBVIOUS
  <2>1. /\ k + 1 \in 0..n /\ k + 1 \in 1..n /\ k \in 0..n /\ m \in 0..m
        /\ m + (k + 1) \in 0..(m + n) /\ m + (k + 1) # 0
        /\ (m + (k + 1)) - 1 = m + k /\ (k + 1) - 1 = k /\ k + 1 # 0
    BY <1>1
  <2>2. f[m + (k + 1)] = f[m + k] + weight[u[m + (k + 1)]]
    BY <2>1, <1>1, <1>2 DEF Running
  <2>3. h[k + 1] = h[k] + weight[t[k + 1]]
    BY <2>1, <1>4 DEF Running, n
  <2>4. u[m + (k + 1)] = t[k + 1]
    BY <2>1, <1>1
  <2>5. f[m + k] = g[m] + h[k]
    BY <1>8, <2>1
  <2>6. t[k + 1] \in E
    BY <2>1, ElementOfSeq DEF n
  <2>7. weight[t[k + 1]] \in Nat /\ h[k] \in Nat /\ g[m] \in Nat
    BY <2>6, <2>1, <1>6
  <2> QED BY <2>2, <2>3, <2>4, <2>5, <2>7
<1>9. Nat \subseteq A
  <2> HIDE DEF A
  <2> QED BY <1>7, <1>8, NatSetInduction
<1>10. f[m + n] = g[m] + h[n]
  <2>1. n \in A
    BY <1>9, <1>1
  <2> QED BY <2>1, <1>1
<1> QED
  BY <1>2, <1>3, <1>4, <1>10 DEF u

-----------------------------------------------------------------------------
(* The list operations of the cache. *)

(* The keys of the entries of s are pairwise distinct. *)
Distinct(s) == \A i, j \in DOMAIN s : s[i].key = s[j].key => i = j

(* The three books of account() add up natural numbers.                    *)
LEMMA WeightTypes ==
  /\ Sizes \in [Entry -> Nat]
  /\ DerivedSizes \in [Entry -> Nat]
  /\ DerivedOnes \in [Entry -> Nat]
<1>1. \A e \in Entry : e.value \in Value
  BY DEF Entry
<1>2. \A e \in Entry : SizeOf[e.value] \in Nat
  BY <1>1, SizeAssumption
<1> QED
  BY <1>2 DEF Sizes, DerivedSizes, DerivedOnes

(* Moving an entry to the end permutes the list: same length, same totals, *)
(* same keys, still distinct.                                              *)
LEMMA MoveToEnd ==
  ASSUME NEW s \in Seq(Entry), NEW i \in 1..Len(s), NEW t,
         t = MovedToEnd(s, i)
  PROVE  /\ t \in Seq(Entry)
         /\ Len(t) = Len(s)
         /\ \A j \in 1..Len(s) :
              t[j] = IF j < i THEN s[j] ELSE IF j < Len(s) THEN s[j + 1] ELSE s[i]
         /\ \A weight \in [Entry -> Nat] : Total(weight, t) = Total(weight, s)
<1> DEFINE n == Len(s)
           A == SubSeq(s, 1, i - 1)
           B == SubSeq(s, i + 1, n)
           e == s[i]
<1>1. n \in Nat /\ i \in Int /\ e \in Entry
  BY LenProperties, ElementOfSeq
<1>2. /\ A \in Seq(Entry) /\ Len(A) = i - 1
      /\ \A j \in 1..(i - 1) : A[j] = s[j]
  <2>1. \A j \in 1..(i - 1) : s[j] \in Entry
    BY <1>1, ElementOfSeq
  <2> QED BY <1>1, <2>1, SubSeqProperties
<1>3. /\ B \in Seq(Entry) /\ Len(B) = n - i
      /\ \A j \in 1..(n - i) : B[j] = s[i + j]
  <2>1. \A j \in (i + 1)..n : s[j] \in Entry
    BY <1>1, ElementOfSeq
  <2>2. /\ B \in Seq(Entry)
        /\ Len(B) = IF i + 1 <= n THEN n - (i + 1) + 1 ELSE 0
        /\ \A j \in 1..(n - (i + 1) + 1) : B[j] = s[(i + 1) + j - 1]
    BY <1>1, <2>1, SubSeqProperties
  <2>3. n - (i + 1) + 1 = n - i /\ \A j \in Int : (i + 1) + j - 1 = i + j
    BY <1>1
  <2> HIDE DEF B
  <2>4. Len(B) = n - i
    BY <1>1, <2>2
  <2>5. ASSUME NEW j \in 1..(n - i) PROVE B[j] = s[i + j]
    <3>1. j \in Int /\ j \in 1..(n - (i + 1) + 1)
      BY <1>1
    <3>2. (i + 1) + j - 1 = i + j
      BY <1>1, <3>1
    <3> QED BY <3>1, <3>2, <2>2
  <2> QED BY <2>2, <2>4, <2>5
<1>4. RemoveAt(s, i) = A \o B
  BY DEF RemoveAt
<1> HIDE DEF A, B
<1>5. /\ A \o B \in Seq(Entry) /\ Len(A \o B) = n - 1
      /\ \A j \in 1..(n - 1) : (A \o B)[j] = IF j < i THEN s[j] ELSE s[j + 1]
  <2>1. /\ A \o B \in Seq(Entry)
        /\ Len(A \o B) = Len(A) + Len(B)
        /\ \A j \in 1..(Len(A) + Len(B)) :
             (A \o B)[j] = IF j <= Len(A) THEN A[j] ELSE B[j - Len(A)]
    BY <1>2, <1>3, ConcatProperties
  <2>2. ASSUME NEW j \in 1..(n - 1)
        PROVE  (A \o B)[j] = IF j < i THEN s[j] ELSE s[j + 1]
    <3>1. CASE j < i
      BY <1>1, <1>2, <1>3, <2>1, <3>1
    <3>2. CASE ~(j < i)
      <4>1. j - (i - 1) \in 1..(n - i) /\ i + (j - (i - 1)) = j + 1
        BY <1>1, <3>2
      <4>2. (A \o B)[j] = B[j - (i - 1)]
        BY <1>1, <1>2, <1>3, <2>1, <3>2
      <4> QED BY <1>1, <1>3, <3>2, <4>1, <4>2
    <3> QED BY <3>1, <3>2
  <2> QED BY <1>1, <1>2, <1>3, <2>1, <2>2
<1>6. /\ t \in Seq(Entry) /\ Len(t) = n
      /\ \A j \in 1..(n - 1) : t[j] = (A \o B)[j]
      /\ t[n] = e
  <2>1. t = Append(A \o B, e)
    BY <1>4 DEF MovedToEnd
  <2>2. /\ t \in Seq(Entry) /\ Len(t) = Len(A \o B) + 1
        /\ \A j \in 1..Len(A \o B) : t[j] = (A \o B)[j]
        /\ t[Len(A \o B) + 1] = e
    BY <2>1, <1>1, <1>5, AppendProperties
  <2> QED BY <2>2, <1>5, <1>1
<1>7. ASSUME NEW weight \in [Entry -> Nat]
      PROVE  Total(weight, t) = Total(weight, s)
  <2> DEFINE C == SubSeq(s, i, n)
  <2>1. s = A \o C /\ C \in Seq(Entry)
    <3>1. s = SubSeq(s, 1, n)
      BY SubSeqFull
    <3>2. SubSeq(s, 1, i - 1) \o SubSeq(s, (i - 1) + 1, n) = SubSeq(s, 1, n)
      <4>1. 1 \in 1..(n + 1) /\ i - 1 \in (1 - 1)..n /\ n \in (i - 1)..n
        BY <1>1
      <4> QED BY <4>1, ConcatAdjacentSubSeq
    <3>3. (i - 1) + 1 = i
      BY <1>1
    <3>4. C \in Seq(Entry)
      <4>1. \A j \in i..n : s[j] \in Entry
        BY <1>1, ElementOfSeq
      <4> QED BY <1>1, <4>1, SubSeqProperties
    <3> QED BY <3>1, <3>2, <3>3, <3>4 DEF A
  <2>2. C = <<e>> \o B
    <3>1. n \in i..n
      BY <1>1
    <3> QED BY <3>1, SubSeqRecursiveFirst DEF B
  <2>3. t = (A \o B) \o <<e>>
    <3>1. t = Append(A \o B, e)
      BY <1>4 DEF MovedToEnd
    <3> QED BY <3>1, <1>1, <1>5, AppendIsConcat
  <2>4. <<e>> \in Seq(Entry)
    BY <1>1
  <2> HIDE DEF C, e
  <2>5. Total(weight, s) = Total(weight, A) + Total(weight, C)
    BY <2>1, <1>2, TotalConcat
  <2>6. Total(weight, C) = Total(weight, <<e>>) + Total(weight, B)
    BY <2>2, <2>4, <1>3, TotalConcat
  <2>7. Total(weight, t) = Total(weight, A \o B) + Total(weight, <<e>>)
    BY <2>3, <2>4, <1>5, TotalConcat
  <2>8. Total(weight, A \o B) = Total(weight, A) + Total(weight, B)
    BY <1>2, <1>3, TotalConcat
  <2>9. /\ Total(weight, A) \in Nat /\ Total(weight, B) \in Nat
        /\ Total(weight, <<e>>) \in Nat
    BY <1>2, <1>3, <2>4, TotalType
  <2> QED BY <2>5, <2>6, <2>7, <2>8, <2>9
<1>8. ASSUME NEW j \in 1..n
      PROVE  t[j] = IF j < i THEN s[j] ELSE IF j < n THEN s[j + 1] ELSE s[i]
  <2>1. CASE j = n
    BY <2>1, <1>1, <1>6
  <2>2. CASE j # n
    <3>1. j \in 1..(n - 1)
      BY <2>2, <1>1
    <3> QED BY <3>1, <1>1, <1>5, <1>6
  <2> QED BY <2>1, <2>2
<1> QED
  BY <1>6, <1>7, <1>8

(* Moving an entry to the end leaves the keys distinct.                    *)
LEMMA MoveToEndDistinct ==
  ASSUME NEW s \in Seq(Entry), NEW i \in 1..Len(s), Distinct(s), NEW t,
         t = MovedToEnd(s, i)
  PROVE  Distinct(t)
<1> DEFINE n == Len(s)
           from(j) == IF j < i THEN j ELSE IF j < n THEN j + 1 ELSE i
<1>1. n \in Nat /\ DOMAIN s = 1..n
  BY LenProperties
<1>2. /\ t \in Seq(Entry) /\ Len(t) = n
      /\ \A j \in 1..n : t[j] = IF j < i THEN s[j] ELSE IF j < n THEN s[j + 1] ELSE s[i]
  BY MoveToEnd
<1>3. DOMAIN t = 1..n
  BY <1>2, LenProperties
<1> HIDE DEF n
<1>4. \A j \in 1..n : from(j) \in 1..n /\ t[j] = s[from(j)]
  BY <1>1, <1>2 DEF n
<1>5. ASSUME NEW j \in 1..n, NEW k \in 1..n, from(j) = from(k) PROVE j = k
  BY <1>1, <1>5 DEF n
<1> HIDE DEF from
<1>6. ASSUME NEW j \in 1..n, NEW k \in 1..n, t[j].key = t[k].key PROVE j = k
  <2>1. s[from(j)].key = s[from(k)].key
    BY <1>4, <1>6
  <2>2. from(j) = from(k)
    BY <2>1, <1>1, <1>4 DEF Distinct
  <2> QED BY <2>2, <1>5
<1> QED
  BY <1>3, <1>6 DEF Distinct

(* evict_for() stops: the least number of pops after which the room fits,  *)
(* or which leaves nothing, exists.                                        *)
LEMMA PopsExists ==
  ASSUME NEW S, lru \in Seq(S), NEW room, NEW limit
  PROVE  LET n == Pops(room, limit)
         IN  /\ n \in 0..Len(lru)
             /\ Fits(n, room, limit) \/ n = Len(lru)
             /\ \A m \in 0..(n - 1) : ~Fits(m, room, limit)
<1> DEFINE Enough == {n \in 0..Len(lru) : Fits(n, room, limit) \/ n = Len(lru)}
<1>1. Len(lru) \in Nat
  BY LenProperties
<1>2. Enough \in SUBSET Nat /\ Len(lru) \in Enough
  BY <1>1
<1>3. PICK n \in Enough : \A m \in 0..(n - 1) : m \notin Enough
  <2> HIDE DEF Enough
  <2> QED BY <1>2, LeastNatural
<1>4. \A m \in 0..(n - 1) : m \in 0..Len(lru)
  BY <1>1
<1>5. /\ n \in 0..Len(lru)
      /\ Fits(n, room, limit) \/ n = Len(lru)
      /\ \A m \in 0..(n - 1) : ~Fits(m, room, limit)
  BY <1>3, <1>4
<1> QED
  BY <1>5 DEF Pops

(* The popped and the kept entries make up the list.                       *)
LEMMA PoppedAndKept ==
  ASSUME lru \in Seq(Entry), NEW n \in 0..Len(lru)
  PROVE  /\ Popped(n) \in Seq(Entry)
         /\ Kept(n) \in Seq(Entry)
         /\ Len(Kept(n)) = Len(lru) - n
         /\ \A j \in 1..(Len(lru) - n) : Kept(n)[j] = lru[n + j]
         /\ \A weight \in [Entry -> Nat] :
              /\ Total(weight, lru) = Total(weight, Popped(n)) + Total(weight, Kept(n))
              /\ Total(weight, Popped(n)) \in Nat
              /\ Total(weight, Kept(n)) \in Nat
<1>1. Len(lru) \in Nat /\ n \in Int
  BY LenProperties
<1>2. Popped(n) \in Seq(Entry)
  <2>1. \A j \in 1..n : lru[j] \in Entry
    BY <1>1, ElementOfSeq
  <2> QED BY <1>1, <2>1, SubSeqProperties DEF Popped
<1>3. /\ Kept(n) \in Seq(Entry)
      /\ Len(Kept(n)) = IF n + 1 <= Len(lru) THEN Len(lru) - (n + 1) + 1 ELSE 0
      /\ \A j \in 1..(Len(lru) - (n + 1) + 1) : Kept(n)[j] = lru[(n + 1) + j - 1]
  <2>1. \A j \in (n + 1)..Len(lru) : lru[j] \in Entry
    BY <1>1, ElementOfSeq
  <2> QED BY <1>1, <2>1, SubSeqProperties DEF Kept
<1>4. Len(Kept(n)) = Len(lru) - n
  BY <1>1, <1>3
<1>5. ASSUME NEW j \in 1..(Len(lru) - n) PROVE Kept(n)[j] = lru[n + j]
  <2>1. j \in Int /\ j \in 1..(Len(lru) - (n + 1) + 1)
    BY <1>1
  <2>2. (n + 1) + j - 1 = n + j
    BY <1>1, <2>1
  <2> QED BY <2>1, <2>2, <1>3
<1>6. lru = Popped(n) \o Kept(n)
  <2>1. 1 \in 1..(Len(lru) + 1) /\ n \in (1 - 1)..Len(lru) /\ Len(lru) \in n..Len(lru)
    BY <1>1
  <2>2. SubSeq(lru, 1, n) \o SubSeq(lru, n + 1, Len(lru)) = SubSeq(lru, 1, Len(lru))
    BY <2>1, ConcatAdjacentSubSeq
  <2> QED BY <2>2, SubSeqFull DEF Popped, Kept
<1>7. ASSUME NEW weight \in [Entry -> Nat]
      PROVE  /\ Total(weight, lru) = Total(weight, Popped(n)) + Total(weight, Kept(n))
             /\ Total(weight, Popped(n)) \in Nat
             /\ Total(weight, Kept(n)) \in Nat
  BY <1>2, <1>3, <1>6, TotalConcat, TotalType
<1> QED
  BY <1>2, <1>3, <1>4, <1>5, <1>7

(* When everything has been popped no byte is left.                        *)
LEMMA KeptNothing ==
  ASSUME lru \in Seq(Entry), NEW weight
  PROVE  Total(weight, Kept(Len(lru))) = 0
<1>1. Len(lru) \in Nat
  BY LenProperties
<1>2. Kept(Len(lru)) = << >>
  BY <1>1, SubSeqEmpty DEF Kept
<1> QED
  BY <1>2, TotalEmpty

(* An entry of a new key after what was kept leaves the keys distinct.     *)
LEMMA KeptDistinct ==
  ASSUME lru \in Seq(Entry), Distinct(lru), NEW n \in 0..Len(lru)
  PROVE  Distinct(Kept(n))
<1>1. Len(lru) \in Nat /\ DOMAIN lru = 1..Len(lru)
  BY LenProperties
<1>2. /\ Kept(n) \in Seq(Entry) /\ Len(Kept(n)) = Len(lru) - n
      /\ \A j \in 1..(Len(lru) - n) : Kept(n)[j] = lru[n + j]
  BY PoppedAndKept
<1>3. DOMAIN Kept(n) = 1..(Len(lru) - n)
  BY <1>2, LenProperties
<1>4. ASSUME NEW i \in 1..(Len(lru) - n), NEW j \in 1..(Len(lru) - n),
             Kept(n)[i].key = Kept(n)[j].key
      PROVE  i = j
  <2>1. n + i \in 1..Len(lru) /\ n + j \in 1..Len(lru)
    BY <1>1
  <2>2. lru[n + i].key = lru[n + j].key
    BY <1>2, <1>4
  <2>3. n + i = n + j
    BY <1>1, <2>1, <2>2 DEF Distinct
  <2> QED BY <2>3
<1> QED
  BY <1>3, <1>4 DEF Distinct

(* Appending an entry under a key that is not there leaves them distinct.  *)
LEMMA AppendDistinct ==
  ASSUME NEW s \in Seq(Entry), Distinct(s), NEW e \in Entry,
         \A i \in DOMAIN s : s[i].key # e.key
  PROVE  Distinct(Append(s, e))
<1> DEFINE t == Append(s, e)
<1>1. Len(s) \in Nat /\ DOMAIN s = 1..Len(s)
  BY LenProperties
<1>2. /\ t \in Seq(Entry) /\ Len(t) = Len(s) + 1
      /\ \A i \in 1..Len(s) : t[i] = s[i]
      /\ t[Len(s) + 1] = e
  BY AppendProperties
<1>3. DOMAIN t = 1..(Len(s) + 1)
  BY <1>2, LenProperties
<1> HIDE DEF t
<1>4. ASSUME NEW i \in 1..(Len(s) + 1), NEW j \in 1..(Len(s) + 1),
             t[i].key = t[j].key
      PROVE  i = j
  <2>1. CASE i \in 1..Len(s) /\ j \in 1..Len(s)
    BY <1>1, <1>2, <1>4, <2>1 DEF Distinct
  <2>2. CASE i = Len(s) + 1 /\ j \in 1..Len(s)
    BY <1>1, <1>2, <1>4, <2>2
  <2>3. CASE i \in 1..Len(s) /\ j = Len(s) + 1
    BY <1>1, <1>2, <1>4, <2>3
  <2>4. CASE i = Len(s) + 1 /\ j = Len(s) + 1
    BY <2>4
  <2> QED BY <1>1, <2>1, <2>2, <2>3, <2>4
<1> QED
  BY <1>3, <1>4 DEF Distinct, t

(* One entry more adds its weight to the total.                            *)
LEMMA TotalAppend ==
  ASSUME NEW E, NEW weight \in [E -> Nat], NEW s \in Seq(E), NEW e \in E
  PROVE  Total(weight, Append(s, e)) = Total(weight, s) + weight[e]
<1>1. Append(s, e) = s \o <<e>> /\ <<e>> \in Seq(E)
  BY AppendIsConcat
<1>2. Total(weight, s \o <<e>>) = Total(weight, s) + Total(weight, <<e>>)
  BY <1>1, TotalConcat
<1> QED
  BY <1>1, <1>2, TotalOne

-----------------------------------------------------------------------------
(* What the operations do to the list, whatever its entries are known to   *)
(* be: for every set S that holds the entries before, and the one that is  *)
(* inserted, the entries afterwards are in S.                              *)

(* A part of a sequence is one of the same elements.                       *)
LEMMA PartIsSeq ==
  ASSUME NEW S, NEW s \in Seq(S), NEW m \in Nat, NEW n \in Int, 1 <= m, n <= Len(s)
  PROVE  SubSeq(s, m, n) \in Seq(S)
<1>1. Len(s) \in Nat
  BY LenProperties
<1>2. \A j \in m..n : s[j] \in S
  BY <1>1, ElementOfSeq
<1> QED
  BY <1>2, SubSeqProperties

(* A resident key is found where the list holds it.                        *)
LEMMA ResidentEntry ==
  ASSUME NEW S, lru \in Seq(S), NEW k \in Resident
  PROVE  /\ IndexOf(k) \in 1..Len(lru)
         /\ lru[IndexOf(k)] \in S
         /\ lru[IndexOf(k)].key = k
<1>1. \E i \in DOMAIN lru : lru[i].key = k
  BY DEF Resident
<1>2. IndexOf(k) \in DOMAIN lru /\ lru[IndexOf(k)].key = k
  BY <1>1 DEF IndexOf
<1> QED
  BY <1>2, LenProperties, ElementOfSeq

(* A lookup reorders the entries.                                          *)
LEMMA GetKeeps ==
  ASSUME NEW S, lru \in Seq(S), NEW k, Get(k)
  PROVE  lru' \in Seq(S)
<1> DEFINE i == IndexOf(k)
<1>1. k \in Resident /\ lru' = Append(RemoveAt(lru, i), lru[i])
  BY DEF Get, Touch, MovedToEnd
<1>2. i \in DOMAIN lru /\ lru[i] \in S
  BY <1>1, ResidentEntry
<1>3. Len(lru) \in Nat /\ i \in 1..Len(lru)
  BY <1>2, LenProperties
<1> HIDE DEF i
<1>4. /\ SubSeq(lru, 1, i - 1) \in Seq(S)
      /\ SubSeq(lru, i + 1, Len(lru)) \in Seq(S)
  BY <1>3, PartIsSeq
<1>5. RemoveAt(lru, i) \in Seq(S)
  BY <1>4, ConcatProperties DEF RemoveAt
<1> QED
  BY <1>1, <1>2, <1>5, AppendProperties

(* What an eviction leaves.                                                *)
LEMMA KeptIsSeq ==
  ASSUME NEW S, lru \in Seq(S), NEW room, NEW limit
  PROVE  Kept(Pops(room, limit)) \in Seq(S)
<1>1. Len(lru) \in Nat /\ Pops(room, limit) \in 0..Len(lru)
  BY LenProperties, PopsExists
<1> QED
  BY <1>1, PartIsSeq DEF Kept

(* An insertion adds the value it was given, or nothing.                   *)
LEMMA InsertKeeps ==
  ASSUME NEW S, lru \in Seq(S), NEW k, NEW v, [key |-> k, value |-> v] \in S,
         InsertOrGet(k, v)
  PROVE  lru' \in Seq(S)
<1>1. CASE InsertLost(k)
  BY <1>1, GetKeeps DEF InsertLost
<1>2. CASE InsertOversized(k, v)
  BY <1>2 DEF InsertOversized
<1>3. CASE InsertNew(k, v)
  <2>1. PICK room, limit : lru' = Append(Kept(Pops(room, limit)), [key |-> k, value |-> v])
    BY <1>3 DEF InsertNew
  <2> QED BY <2>1, KeptIsSeq, AppendProperties
<1> QED
  BY <1>1, <1>2, <1>3 DEF InsertOrGet

(* Clearing and a change of budget only remove.                            *)
LEMMA RemovingKeeps ==
  ASSUME NEW S, lru \in Seq(S), Clear \/ \E b \in Budgets : SetBudget(b)
  PROVE  lru' \in Seq(S)
<1>1. CASE Clear
  BY <1>1, EmptySeq DEF Clear
<1>2. ASSUME NEW b \in Budgets, SetBudget(b) PROVE lru' \in Seq(S)
  BY <1>2, KeptIsSeq DEF SetBudget
<1> QED
  BY <1>1, <1>2

-----------------------------------------------------------------------------
(* The invariant. *)

(* WithinBudget is not inductive by itself: that popping everything makes  *)
(* room at all needs the books to agree with the entries, and that needs   *)
(* their types.                                                            *)
IInv == TypeOK /\ UniqueKeys /\ Accounted /\ WithinBudget

(* PixelCache::new establishes the invariant.                              *)
LEMMA InitIInv == Init => IInv
<1> SUFFICES ASSUME Init PROVE IInv
  OBVIOUS
<1>1. /\ lru = << >> /\ budget \in Nat
      /\ bytes = 0 /\ evictions = 0 /\ oversized = 0
      /\ derivedEntries = 0 /\ derivedBytes = 0
  BY BudgetAssumption DEF Init
<1>2. TypeOK
  BY <1>1 DEF TypeOK
<1>3. UniqueKeys
  BY <1>1 DEF UniqueKeys
<1>4. Accounted
  BY <1>1, TotalEmpty DEF Accounted
<1>5. WithinBudget
  BY <1>1 DEF WithinBudget
<1> QED
  BY <1>2, <1>3, <1>4, <1>5 DEF IInv

(* A lookup permutes the list and touches no book. *)
LEMMA GetPreserves ==
  ASSUME IInv, NEW k \in Key, Get(k)
  PROVE  IInv'
<1> DEFINE i == IndexOf(k)
<1>1. lru \in Seq(Entry) /\ k \in Resident /\ lru' = MovedToEnd(lru, i)
  BY DEF IInv, TypeOK, Get, Touch
<1>2. i \in 1..Len(lru)
  BY <1>1, ResidentEntry
<1>3. /\ lru' \in Seq(Entry)
      /\ \A weight \in [Entry -> Nat] : Total(weight, lru') = Total(weight, lru)
  BY <1>1, <1>2, MoveToEnd
<1>4. UNCHANGED <<bytes, budget, evictions, oversized, derivedEntries, derivedBytes>>
  BY DEF Get
<1>5. TypeOK'
  BY <1>3, <1>4 DEF IInv, TypeOK
<1>6. UniqueKeys'
  <2>1. Distinct(lru)
    BY DEF IInv, UniqueKeys, Distinct
  <2>2. Distinct(lru')
    BY <1>1, <1>2, <2>1, MoveToEndDistinct
  <2> QED BY <2>2 DEF UniqueKeys, Distinct
<1>7. Accounted'
  <2>1. /\ Total(Sizes, lru') = Total(Sizes, lru)
        /\ Total(DerivedOnes, lru') = Total(DerivedOnes, lru)
        /\ Total(DerivedSizes, lru') = Total(DerivedSizes, lru)
    BY <1>3, WeightTypes
  <2>2. Sizes' = Sizes /\ DerivedOnes' = DerivedOnes /\ DerivedSizes' = DerivedSizes
    BY DEF Sizes, DerivedOnes, DerivedSizes
  <2> QED BY <1>4, <2>1, <2>2 DEF IInv, Accounted
<1>8. WithinBudget'
  BY <1>4 DEF IInv, WithinBudget
<1> QED
  BY <1>5, <1>6, <1>7, <1>8 DEF IInv

(* What evict_for() leaves: the books net of what it popped are those of   *)
(* what it kept, and the room asked for fits if it is no more than limit.  *)
LEMMA AfterEviction ==
  ASSUME IInv, NEW room \in Nat, NEW limit \in Nat, room <= limit,
         NEW n, n = Pops(room, limit)
  PROVE  /\ n \in 0..Len(lru)
         /\ Kept(n) \in Seq(Entry)
         /\ Distinct(Kept(n))
         /\ bytes - Total(Sizes, Popped(n)) = Total(Sizes, Kept(n))
         /\ derivedEntries - Total(DerivedOnes, Popped(n)) = Total(DerivedOnes, Kept(n))
         /\ derivedBytes - Total(DerivedSizes, Popped(n)) = Total(DerivedSizes, Kept(n))
         /\ \A weight \in [Entry -> Nat] : Total(weight, Kept(n)) \in Nat
         /\ Total(Sizes, Kept(n)) + room <= limit
<1>1. lru \in Seq(Entry) /\ Distinct(lru) /\ Accounted /\ Len(lru) \in Nat
  BY LenProperties DEF IInv, TypeOK, UniqueKeys, Distinct
<1>2. n \in 0..Len(lru) /\ (Fits(n, room, limit) \/ n = Len(lru))
  BY <1>1, PopsExists
<1>3. /\ Kept(n) \in Seq(Entry)
      /\ \A weight \in [Entry -> Nat] :
           /\ Total(weight, lru) = Total(weight, Popped(n)) + Total(weight, Kept(n))
           /\ Total(weight, Popped(n)) \in Nat
           /\ Total(weight, Kept(n)) \in Nat
  BY <1>1, <1>2, PoppedAndKept
<1>4. Distinct(Kept(n))
  BY <1>1, <1>2, KeptDistinct
<1>5. /\ bytes - Total(Sizes, Popped(n)) = Total(Sizes, Kept(n))
      /\ derivedEntries - Total(DerivedOnes, Popped(n)) = Total(DerivedOnes, Kept(n))
      /\ derivedBytes - Total(DerivedSizes, Popped(n)) = Total(DerivedSizes, Kept(n))
  <2>1. \A weight \in [Entry -> Nat] :
          Total(weight, lru) - Total(weight, Popped(n)) = Total(weight, Kept(n))
    BY <1>3
  <2>2. /\ Total(Sizes, lru) - Total(Sizes, Popped(n)) = Total(Sizes, Kept(n))
        /\ Total(DerivedOnes, lru) - Total(DerivedOnes, Popped(n))
             = Total(DerivedOnes, Kept(n))
        /\ Total(DerivedSizes, lru) - Total(DerivedSizes, Popped(n))
             = Total(DerivedSizes, Kept(n))
    BY <2>1, WeightTypes
  <2> QED BY <2>2, <1>1 DEF Accounted
<1>6. Total(Sizes, Kept(n)) + room <= limit
  <2>1. CASE Fits(n, room, limit)
    BY <2>1, <1>5 DEF Fits, Popped
  <2>2. CASE n = Len(lru)
    BY <2>2, <1>1, KeptNothing
  <2> QED BY <1>2, <2>1, <2>2
<1> QED
  BY <1>2, <1>3, <1>4, <1>5, <1>6

(* An insertion that evicts keeps the invariant: what it frees makes room  *)
(* for what it adds, and the books follow both.                            *)
LEMMA InsertNewPreserves ==
  ASSUME IInv, NEW k \in Key, NEW v \in Value, InsertNew(k, v)
  PROVE  IInv'
<1> DEFINE n == Pops(SizeOf[v], budget)
           e == [key |-> k, value |-> v]
<1>1. /\ k \notin Resident /\ SizeOf[v] <= budget
      /\ lru' = Append(Kept(n), e)
      /\ Account(Popped(n), <<e>>)
      /\ evictions' = evictions + n
      /\ UNCHANGED <<budget, oversized>>
  BY DEF InsertNew
<1>2. e \in Entry /\ SizeOf[v] \in Nat /\ budget \in Nat
  BY SizeAssumption DEF Entry, IInv, TypeOK
<1>3. /\ n \in 0..Len(lru)
      /\ Kept(n) \in Seq(Entry)
      /\ Distinct(Kept(n))
      /\ bytes - Total(Sizes, Popped(n)) = Total(Sizes, Kept(n))
      /\ derivedEntries - Total(DerivedOnes, Popped(n)) = Total(DerivedOnes, Kept(n))
      /\ derivedBytes - Total(DerivedSizes, Popped(n)) = Total(DerivedSizes, Kept(n))
      /\ \A weight \in [Entry -> Nat] : Total(weight, Kept(n)) \in Nat
      /\ Total(Sizes, Kept(n)) + SizeOf[v] <= budget
  BY <1>1, <1>2, AfterEviction
<1>4. Len(lru) \in Nat /\ lru \in Seq(Entry)
  BY LenProperties DEF IInv, TypeOK
<1> HIDE DEF n, e
<1>5. lru' \in Seq(Entry)
  BY <1>1, <1>2, <1>3, AppendProperties
<1>6. /\ Total(Sizes, lru') = Total(Sizes, Kept(n)) + Sizes[e]
      /\ Total(DerivedOnes, lru') = Total(DerivedOnes, Kept(n)) + DerivedOnes[e]
      /\ Total(DerivedSizes, lru') = Total(DerivedSizes, Kept(n)) + DerivedSizes[e]
  BY <1>1, <1>2, <1>3, WeightTypes, TotalAppend
<1>7. /\ Total(Sizes, <<e>>) = Sizes[e]
      /\ Total(DerivedOnes, <<e>>) = DerivedOnes[e]
      /\ Total(DerivedSizes, <<e>>) = DerivedSizes[e]
  BY <1>2, WeightTypes, TotalOne
<1>8. Sizes[e] \in Nat /\ DerivedOnes[e] \in Nat /\ DerivedSizes[e] \in Nat
  BY <1>2, WeightTypes
<1>9. Sizes[e] = SizeOf[v]
  BY <1>2 DEF Sizes, e
<1>10. /\ bytes' = Total(Sizes, lru')
       /\ derivedEntries' = Total(DerivedOnes, lru')
       /\ derivedBytes' = Total(DerivedSizes, lru')
  BY <1>1, <1>3, <1>6, <1>7 DEF Account
<1>11. /\ Total(Sizes, lru') \in Nat
       /\ Total(DerivedOnes, lru') \in Nat
       /\ Total(DerivedSizes, lru') \in Nat
  BY <1>5, WeightTypes, TotalType
<1>12. TypeOK'
  <2>1. evictions' \in Nat /\ oversized' \in Nat /\ budget' \in Nat
    BY <1>1, <1>3, <1>4 DEF IInv, TypeOK
  <2> QED BY <1>5, <1>10, <1>11, <2>1 DEF TypeOK
<1>13. UniqueKeys'
  <2>1. ASSUME NEW i \in DOMAIN Kept(n) PROVE Kept(n)[i].key # e.key
    <3>1. i \in 1..(Len(lru) - n) /\ n + i \in 1..Len(lru) /\ Kept(n)[i] = lru[n + i]
      <4>1. /\ Len(Kept(n)) = Len(lru) - n
            /\ \A j \in 1..(Len(lru) - n) : Kept(n)[j] = lru[n + j]
        BY <1>3, <1>4, PoppedAndKept
      <4>2. DOMAIN Kept(n) = 1..Len(Kept(n))
        BY <1>3, LenProperties
      <4> QED BY <4>1, <4>2, <1>3, <1>4
    <3>2. lru[n + i].key \in Resident
      BY <3>1, <1>4, LenProperties DEF Resident
    <3> QED BY <3>1, <3>2, <1>1 DEF e
  <2>2. Distinct(Append(Kept(n), e))
    BY <2>1, <1>2, <1>3, AppendDistinct
  <2> QED BY <2>2, <1>1 DEF UniqueKeys, Distinct
<1>14. Accounted'
  <2>1. Sizes' = Sizes /\ DerivedOnes' = DerivedOnes /\ DerivedSizes' = DerivedSizes
    BY DEF Sizes, DerivedOnes, DerivedSizes
  <2> QED BY <1>10, <2>1 DEF Accounted
<1>15. WithinBudget'
  BY <1>1, <1>3, <1>6, <1>9, <1>10 DEF WithinBudget
<1> QED
  BY <1>12, <1>13, <1>14, <1>15 DEF IInv

(* A new budget keeps it, for enough is evicted at once.                   *)
LEMMA SetBudgetPreserves ==
  ASSUME IInv, NEW b \in Budgets, SetBudget(b)
  PROVE  IInv'
<1> DEFINE n == Pops(0, b)
<1>1. /\ budget' = b /\ lru' = Kept(n)
      /\ Account(Popped(n), << >>)
      /\ evictions' = evictions + n
      /\ oversized' = oversized
  BY DEF SetBudget
<1>2. b \in Nat /\ Len(lru) \in Nat
  BY BudgetAssumption, LenProperties DEF IInv, TypeOK
<1>3. /\ n \in 0..Len(lru)
      /\ Kept(n) \in Seq(Entry)
      /\ Distinct(Kept(n))
      /\ bytes - Total(Sizes, Popped(n)) = Total(Sizes, Kept(n))
      /\ derivedEntries - Total(DerivedOnes, Popped(n)) = Total(DerivedOnes, Kept(n))
      /\ derivedBytes - Total(DerivedSizes, Popped(n)) = Total(DerivedSizes, Kept(n))
      /\ \A weight \in [Entry -> Nat] : Total(weight, Kept(n)) \in Nat
      /\ Total(Sizes, Kept(n)) + 0 <= b
  BY <1>2, AfterEviction
<1> HIDE DEF n
<1>4. /\ Total(Sizes, lru') \in Nat
      /\ Total(DerivedOnes, lru') \in Nat
      /\ Total(DerivedSizes, lru') \in Nat
  BY <1>1, <1>3, WeightTypes
<1>5. /\ bytes' = Total(Sizes, lru')
      /\ derivedEntries' = Total(DerivedOnes, lru')
      /\ derivedBytes' = Total(DerivedSizes, lru')
  BY <1>1, <1>3, <1>4, TotalEmpty DEF Account
<1>6. TypeOK'
  <2>1. evictions' \in Nat /\ oversized' \in Nat
    BY <1>1, <1>2, <1>3 DEF IInv, TypeOK
  <2> QED BY <1>1, <1>2, <1>3, <1>4, <1>5, <2>1 DEF TypeOK
<1>7. UniqueKeys'
  BY <1>1, <1>3 DEF UniqueKeys, Distinct
<1>8. Accounted'
  <2>1. Sizes' = Sizes /\ DerivedOnes' = DerivedOnes /\ DerivedSizes' = DerivedSizes
    BY DEF Sizes, DerivedOnes, DerivedSizes
  <2> QED BY <1>5, <2>1 DEF Accounted
<1>9. WithinBudget'
  BY <1>1, <1>2, <1>3, <1>4, <1>5 DEF WithinBudget
<1> QED
  BY <1>6, <1>7, <1>8, <1>9 DEF IInv

(* Dropping everything keeps it.                                           *)
LEMMA ClearPreserves ==
  ASSUME IInv, Clear
  PROVE  IInv'
<1>1. /\ lru' = << >> /\ bytes' = 0 /\ derivedEntries' = 0 /\ derivedBytes' = 0
      /\ UNCHANGED <<budget, evictions, oversized>>
  BY DEF Clear
<1>2. TypeOK'
  BY <1>1 DEF IInv, TypeOK
<1>3. UniqueKeys'
  BY <1>1 DEF UniqueKeys
<1>4. Accounted'
  BY <1>1, TotalEmpty DEF Accounted
<1>5. WithinBudget'
  BY <1>1 DEF IInv, TypeOK, WithinBudget
<1> QED
  BY <1>2, <1>3, <1>4, <1>5 DEF IInv

(* So does a step that leaves the cache alone.                             *)
LEMMA StutterPreserves ==
  ASSUME IInv, UNCHANGED vars
  PROVE  IInv'
BY DEF IInv, TypeOK, UniqueKeys, Accounted, WithinBudget, vars,
       Sizes, DerivedOnes, DerivedSizes

(* Refusing a value only counts the refusal.                               *)
LEMMA OversizedPreserves ==
  ASSUME IInv, NEW k \in Key, NEW v \in Value, InsertOversized(k, v)
  PROVE  IInv'
<1>1. /\ oversized' = oversized + 1
      /\ UNCHANGED <<lru, bytes, budget, evictions, derivedEntries, derivedBytes>>
  BY DEF InsertOversized
<1> QED
  BY <1>1 DEF IInv, TypeOK, UniqueKeys, Accounted, WithinBudget,
              Sizes, DerivedOnes, DerivedSizes

(* The invariant is inductive: every method of the cache keeps it.         *)
LEMMA NextIInv == IInv /\ [Next]_vars => IInv'
<1> SUFFICES ASSUME IInv, [Next]_vars PROVE IInv'
  OBVIOUS
<1>1. ASSUME NEW k \in Key, Get(k) PROVE IInv'
  BY <1>1, GetPreserves
<1>2. ASSUME NEW k \in Key, NEW v \in Value, InsertOrGet(k, v) PROVE IInv'
  <2>1. CASE InsertLost(k)
    BY <2>1, GetPreserves DEF InsertLost
  <2>2. CASE InsertOversized(k, v)
    BY <2>2, OversizedPreserves
  <2>3. CASE InsertNew(k, v)
    BY <2>3, InsertNewPreserves
  <2> QED BY <1>2, <2>1, <2>2, <2>3 DEF InsertOrGet
<1>3. CASE Clear
  BY <1>3, ClearPreserves
<1>4. ASSUME NEW b \in Budgets, SetBudget(b) PROVE IInv'
  BY <1>4, SetBudgetPreserves
<1>5. CASE UNCHANGED vars
  BY <1>5, StutterPreserves
<1> QED
  BY <1>1, <1>2, <1>3, <1>4, <1>5 DEF Next

(* Every reachable cache is well typed, holds each key once, keeps its     *)
(* three books exact and stays within its budget, whatever the keys, the   *)
-----------------------------------------------------------------------------
(* What the operations do to the number of entries. *)

(* A lookup neither adds nor removes.                                      *)
LEMMA GetCounts ==
  ASSUME IInv, NEW k \in Key, Get(k)
  PROVE  Len(lru') = Len(lru) /\ UNCHANGED <<evictions, oversized, derivedEntries>>
<1>1. lru \in Seq(Entry) /\ k \in Resident /\ lru' = MovedToEnd(lru, IndexOf(k))
  BY DEF IInv, TypeOK, Get, Touch
<1>2. IndexOf(k) \in 1..Len(lru)
  BY <1>1, ResidentEntry
<1> QED
  BY <1>1, <1>2, MoveToEnd DEF Get

(* An insertion of a key that is not resident adds one entry, or counts    *)
(* one refusal; what it removes it counts as evicted.                      *)
LEMMA InsertCounts ==
  ASSUME IInv, NEW k \in Key, NEW v \in Value, InsertOrGet(k, v)
  PROVE  /\ Len(lru') + evictions' + oversized'
              = Len(lru) + evictions + oversized + (IF k \in Resident THEN 0 ELSE 1)
         /\ derivedEntries' <= derivedEntries + (IF k \in DerivedKey THEN 1 ELSE 0)
<1>0. /\ lru \in Seq(Entry) /\ Len(lru) \in Nat
      /\ evictions \in Nat /\ oversized \in Nat /\ derivedEntries \in Nat
  BY LenProperties DEF IInv, TypeOK
<1>1. CASE InsertLost(k)
  BY <1>0, <1>1, GetCounts DEF InsertLost, Get
<1>2. CASE InsertOversized(k, v)
  BY <1>0, <1>2 DEF InsertOversized
<1>3. CASE InsertNew(k, v)
  <2> DEFINE n == Pops(SizeOf[v], budget)
             e == [key |-> k, value |-> v]
  <2>1. /\ k \notin Resident
        /\ lru' = Append(Kept(n), e)
        /\ derivedEntries' = derivedEntries - Total(DerivedOnes, Popped(n))
                               + Total(DerivedOnes, <<e>>)
        /\ evictions' = evictions + n /\ oversized' = oversized
    BY <1>3 DEF InsertNew, Account
  <2>2. n \in 0..Len(lru)
    BY <1>0, PopsExists
  <2>3. e \in Entry
    BY DEF Entry
  <2> HIDE DEF n, e
  <2>4. /\ Kept(n) \in Seq(Entry) /\ Len(Kept(n)) = Len(lru) - n
        /\ Popped(n) \in Seq(Entry)
    BY <1>0, <2>2, PoppedAndKept
  <2>5. Len(lru') = Len(lru) - n + 1
    BY <2>1, <2>3, <2>4, AppendProperties
  <2>6. Total(DerivedOnes, Popped(n)) \in Nat /\ Total(DerivedOnes, <<e>>) = DerivedOnes[e]
    BY <2>3, <2>4, WeightTypes, TotalType, TotalOne
  <2>7. DerivedOnes[e] = IF k \in DerivedKey THEN 1 ELSE 0
    BY <2>3 DEF DerivedOnes, e
  <2> QED BY <1>0, <2>1, <2>2, <2>5, <2>6, <2>7
<1> QED
  BY <1>1, <1>2, <1>3 DEF InsertOrGet

(* A new budget counts what it evicts.                                     *)
LEMMA SetBudgetCounts ==
  ASSUME IInv, NEW b \in Budgets, SetBudget(b)
  PROVE  /\ Len(lru') + evictions' = Len(lru) + evictions
         /\ oversized' = oversized
         /\ derivedEntries' <= derivedEntries
<1> DEFINE n == Pops(0, b)
<1>0. lru \in Seq(Entry) /\ Len(lru) \in Nat /\ evictions \in Nat /\ derivedEntries \in Nat
  BY LenProperties DEF IInv, TypeOK
<1>1. /\ lru' = Kept(n) /\ evictions' = evictions + n /\ oversized' = oversized
      /\ derivedEntries' = derivedEntries - Total(DerivedOnes, Popped(n))
                             + Total(DerivedOnes, << >>)
  BY DEF SetBudget, Account
<1>2. n \in 0..Len(lru)
  BY <1>0, PopsExists
<1> HIDE DEF n
<1>3. Len(Kept(n)) = Len(lru) - n /\ Popped(n) \in Seq(Entry)
  BY <1>0, <1>2, PoppedAndKept
<1>4. Total(DerivedOnes, Popped(n)) \in Nat /\ Total(DerivedOnes, << >>) = 0
  BY <1>3, WeightTypes, TotalType, TotalEmpty
<1> QED
  BY <1>0, <1>1, <1>2, <1>3, <1>4

-----------------------------------------------------------------------------
(* Every reachable cache satisfies the invariant, whatever the keys, their *)
(* sizes and the budgets set (src/src/cache.rs:250-316).                   *)
THEOREM Invariance == Spec => []IInv
<1>1. Init => IInv
  BY InitIInv
<1>2. IInv /\ [Next]_vars => IInv'
  BY NextIInv
<1> QED
  BY <1>1, <1>2, PTL DEF Spec

(* The accounted size never exceeds the budget, also after set_budget.     *)
THEOREM BudgetHolds == Spec => []WithinBudget
<1>1. IInv => WithinBudget
  BY DEF IInv
<1> QED
  BY <1>1, Invariance, PTL

(* bytes, derived_entries and derived_bytes are sums over what is resident,*)
(* one entry a key; no unsigned subtraction of account() goes below zero.  *)
THEOREM BooksExact == Spec => []BooksKept
<1>1. IInv => BooksKept
  BY DEF IInv, BooksKept
<1> QED
  BY <1>1, Invariance, PTL

(* The invariant in the form the proofs below use it.                      *)
LEMMA ListFacts ==
  ASSUME IInv
  PROVE  /\ lru \in Seq(Entry) /\ Len(lru) \in Nat /\ DOMAIN lru = 1..Len(lru)
         /\ Distinct(lru)
BY LenProperties DEF IInv, TypeOK, UniqueKeys, Distinct

(* A resident key's value is that of the one entry that holds it.          *)
LEMMA ValueOfEntry ==
  ASSUME IInv, NEW i \in DOMAIN lru
  PROVE  ValueOf(lru[i].key) = lru[i].value
<1>1. IndexOf(lru[i].key) \in DOMAIN lru /\ lru[IndexOf(lru[i].key)].key = lru[i].key
  BY DEF IndexOf
<1>2. IndexOf(lru[i].key) = i
  BY <1>1 DEF IInv, UniqueKeys
<1> QED
  BY <1>2 DEF ValueOf

(* Kept entries are entries of the list, further back.                     *)
LEMMA KeptEntries ==
  ASSUME IInv, NEW n \in 0..Len(lru)
  PROVE  /\ DOMAIN Kept(n) = 1..(Len(lru) - n)
         /\ Kept(n) \in Seq(Entry)
         /\ \A j \in DOMAIN Kept(n) : n + j \in DOMAIN lru /\ Kept(n)[j] = lru[n + j]
<1>1. lru \in Seq(Entry) /\ Len(lru) \in Nat /\ DOMAIN lru = 1..Len(lru)
  BY ListFacts
<1>2. /\ Kept(n) \in Seq(Entry) /\ Len(Kept(n)) = Len(lru) - n
      /\ \A j \in 1..(Len(lru) - n) : Kept(n)[j] = lru[n + j]
  BY <1>1, PoppedAndKept
<1>3. DOMAIN Kept(n) = 1..(Len(lru) - n)
  BY <1>2, LenProperties
<1>4. \A j \in 1..(Len(lru) - n) : n + j \in 1..Len(lru)
  BY <1>1
<1> QED
  BY <1>1, <1>2, <1>3, <1>4

-----------------------------------------------------------------------------
(* What a step leaves in the list is either new or was there.              *)

(* An insertion puts a new key behind what it keeps.                       *)
LEMMA AfterInsertion ==
  ASSUME IInv, NEW k \in Key, NEW v \in Value, InsertNew(k, v),
         NEW n, n = Pops(SizeOf[v], budget)
  PROVE  /\ n \in 0..Len(lru)
         /\ DOMAIN lru' = 1..(Len(lru) - n + 1)
         /\ \A j \in 1..(Len(lru) - n) : n + j \in DOMAIN lru /\ lru'[j] = lru[n + j]
         /\ lru'[Len(lru) - n + 1] = [key |-> k, value |-> v]
         /\ k \notin Resident
         /\ evictions' = evictions + n
<1> DEFINE e == [key |-> k, value |-> v]
<1>1. lru \in Seq(Entry) /\ Len(lru) \in Nat /\ DOMAIN lru = 1..Len(lru)
  BY ListFacts
<1>2. n \in 0..Len(lru)
  BY <1>1, PopsExists
<1>3. /\ k \notin Resident /\ lru' = Append(Kept(n), e)
      /\ evictions' = evictions + n /\ e \in Entry
  BY DEF InsertNew, Entry
<1>4. /\ Kept(n) \in Seq(Entry) /\ DOMAIN Kept(n) = 1..(Len(lru) - n)
      /\ \A j \in DOMAIN Kept(n) : n + j \in DOMAIN lru /\ Kept(n)[j] = lru[n + j]
  BY <1>2, KeptEntries
<1>5. Len(Kept(n)) = Len(lru) - n
  BY <1>1, <1>2, PoppedAndKept
<1> HIDE DEF e
<1>6. /\ lru' \in Seq(Entry) /\ Len(lru') = Len(Kept(n)) + 1
      /\ \A j \in 1..Len(Kept(n)) : lru'[j] = Kept(n)[j]
      /\ lru'[Len(Kept(n)) + 1] = e
  BY <1>3, <1>4, AppendProperties
<1>7. DOMAIN lru' = 1..(Len(lru) - n + 1)
  BY <1>5, <1>6, LenProperties
<1> QED
  BY <1>2, <1>3, <1>4, <1>5, <1>6, <1>7 DEF e

(* A change of budget only keeps.                                          *)
LEMMA AfterBudgetChange ==
  ASSUME IInv, NEW b \in Budgets, SetBudget(b),
         NEW n, n = Pops(0, b)
  PROVE  /\ n \in 0..Len(lru)
         /\ DOMAIN lru' = 1..(Len(lru) - n)
         /\ \A j \in DOMAIN lru' : n + j \in DOMAIN lru /\ lru'[j] = lru[n + j]
         /\ evictions' = evictions + n
<1>1. n \in 0..Len(lru)
  BY ListFacts, PopsExists
<1>2. lru' = Kept(n) /\ evictions' = evictions + n
  BY DEF SetBudget
<1> QED
  BY <1>1, <1>2, KeptEntries

(* Of the entries whose key was resident, a step invents none.             *)
LEMMA EntriesStay ==
  ASSUME IInv, [Next]_vars
  PROVE  \A j \in DOMAIN lru' :
           lru'[j].key \in Resident => \E i \in DOMAIN lru : lru[i] = lru'[j]
<1> DEFINE Stay == \A j \in DOMAIN lru' :
                     lru'[j].key \in Resident => \E i \in DOMAIN lru : lru[i] = lru'[j]
<1> SUFFICES Stay
  OBVIOUS
<1>0. lru \in Seq(Entry) /\ Len(lru) \in Nat /\ DOMAIN lru = 1..Len(lru)
  BY ListFacts
<1>1. ASSUME NEW k \in Key, Get(k) PROVE Stay
  <2> DEFINE i == IndexOf(k)
  <2>1. i \in 1..Len(lru) /\ lru' = MovedToEnd(lru, i)
    BY <1>0, <1>1, ResidentEntry DEF Get, Touch
  <2> HIDE DEF i
  <2>2. /\ lru' \in Seq(Entry) /\ Len(lru') = Len(lru)
        /\ \A j \in 1..Len(lru) :
             lru'[j] = IF j < i THEN lru[j] ELSE IF j < Len(lru) THEN lru[j + 1] ELSE lru[i]
    <3>1. lru \in Seq(Entry)
      BY <1>0
    <3> QED BY <3>1, <2>1, MoveToEnd
  <2>3. DOMAIN lru' = 1..Len(lru)
    BY <2>2, LenProperties
  <2>4. ASSUME NEW j \in 1..Len(lru) PROVE \E m \in 1..Len(lru) : lru[m] = lru'[j]
    <3>1. CASE j < i
      BY <2>2, <3>1
    <3>2. CASE ~(j < i) /\ j < Len(lru)
      <4>1. j + 1 \in 1..Len(lru)
        BY <1>0, <3>2
      <4> QED BY <2>2, <3>2, <4>1
    <3>3. CASE ~(j < i) /\ ~(j < Len(lru))
      BY <2>1, <2>2, <3>3
    <3> QED BY <3>1, <3>2, <3>3
  <2> QED BY <1>0, <2>3, <2>4
<1>2. ASSUME NEW k \in Key, NEW v \in Value, InsertNew(k, v) PROVE Stay
  <2> DEFINE n == Pops(SizeOf[v], budget)
  <2>1. /\ n \in 0..Len(lru)
        /\ DOMAIN lru' = 1..(Len(lru) - n + 1)
        /\ \A j \in 1..(Len(lru) - n) : n + j \in DOMAIN lru /\ lru'[j] = lru[n + j]
        /\ lru'[Len(lru) - n + 1] = [key |-> k, value |-> v]
        /\ k \notin Resident
    BY <1>2, AfterInsertion
  <2> HIDE DEF n
  <2>2. ASSUME NEW j \in DOMAIN lru', lru'[j].key \in Resident PROVE j \in 1..(Len(lru) - n)
    BY <1>0, <2>1, <2>2
  <2> QED BY <2>1, <2>2
<1>3. ASSUME NEW b \in Budgets, SetBudget(b) PROVE Stay
  BY <1>3, AfterBudgetChange
<1>4. CASE lru' = << >>
  BY <1>4
<1>5. CASE lru' = lru
  BY <1>5
<1>6. ASSUME NEW k \in Key, NEW v \in Value, InsertOrGet(k, v) PROVE Stay
  BY <1>1, <1>2, <1>5, <1>6 DEF InsertOrGet, InsertLost, InsertOversized
<1>7. CASE Clear
  BY <1>4, <1>7 DEF Clear
<1>8. CASE UNCHANGED vars
  BY <1>5, <1>8 DEF vars
<1> HIDE DEF Stay
<1> QED
  BY <1>1, <1>3, <1>6, <1>7, <1>8 DEF Next

-----------------------------------------------------------------------------
(* A key that stays resident keeps its value: whoever inserted it first    *)
(* has decided what every reader is handed (src/src/cache.rs:288-302).     *)
THEOREM FirstValueStays == Spec => FirstValueWins
<1>1. ASSUME IInv, IInv', [Next]_vars, NEW k \in Resident \cap Resident'
      PROVE  ValueOf(k)' = ValueOf(k)
  <2>1. PICK j \in DOMAIN lru' : lru'[j].key = k
    BY DEF Resident
  <2>2. PICK i \in DOMAIN lru : lru[i] = lru'[j]
    BY <1>1, <2>1, EntriesStay
  <2>3. ValueOf(k) = lru[i].value
    BY <1>1, <2>1, <2>2, ValueOfEntry
  <2>4. ValueOf(k)' = lru'[j].value
    <3>1. IndexOf(k)' \in DOMAIN lru' /\ lru'[IndexOf(k)'].key = k
      BY <2>1 DEF IndexOf
    <3>2. IndexOf(k)' = j
      BY <1>1, <2>1, <3>1 DEF IInv, UniqueKeys
    <3> QED BY <3>2 DEF ValueOf
  <2> QED BY <2>2, <2>3, <2>4
<1>2. IInv /\ IInv' /\ [Next]_vars
        => [\A k \in Resident \cap Resident' : ValueOf(k)' = ValueOf(k)]_vars
  BY <1>1
<1> QED
  BY <1>2, Invariance, PTL DEF Spec, FirstValueWins

(* An eviction takes a prefix of the recency order: an entry that leaves   *)
(* comes before every entry that stays (evict_for, cache.rs:270-280).      *)
THEOREM EvictionOrder == Spec => EvictsLeastRecent
<1> DEFINE Oldest == evictions' > evictions =>
                       \A i, j \in DOMAIN lru :
                         lru[i].key \notin Resident' /\ lru[j].key \in Resident' => i < j
<1>1. ASSUME IInv, NEW k \in Key, NEW v \in Value, InsertNew(k, v) PROVE Oldest
  <2> DEFINE n == Pops(SizeOf[v], budget)
  <2>0. Len(lru) \in Nat /\ DOMAIN lru = 1..Len(lru)
    BY <1>1, ListFacts
  <2>1. /\ n \in 0..Len(lru)
        /\ DOMAIN lru' = 1..(Len(lru) - n + 1)
        /\ \A j \in 1..(Len(lru) - n) : n + j \in DOMAIN lru /\ lru'[j] = lru[n + j]
        /\ lru'[Len(lru) - n + 1] = [key |-> k, value |-> v]
        /\ k \notin Resident
    BY <1>1, AfterInsertion
  <2> HIDE DEF n
  <2>2. ASSUME NEW i \in DOMAIN lru, lru[i].key \notin Resident' PROVE i <= n
    <3> SUFFICES ASSUME i > n PROVE FALSE
      BY <2>0, <2>1
    <3>1. i - n \in 1..(Len(lru) - n) /\ i - n \in DOMAIN lru' /\ n + (i - n) = i
      BY <2>0, <2>1
    <3>2. lru'[i - n] = lru[i]
      BY <2>1, <3>1
    <3> QED BY <2>2, <3>1, <3>2 DEF Resident
  <2>3. ASSUME NEW j \in DOMAIN lru, lru[j].key \in Resident' PROVE j > n
    <3>1. PICK m \in DOMAIN lru' : lru'[m].key = lru[j].key
      BY <2>3 DEF Resident
    <3>2. lru'[m].key \in Resident
      BY <3>1 DEF Resident
    <3>3. m \in 1..(Len(lru) - n)
      <4>1. m # Len(lru) - n + 1
        BY <2>1, <3>2
      <4>2. m \in 1..(Len(lru) - n + 1) /\ n \in 0..Len(lru)
        BY <2>1
      <4> QED BY <2>0, <4>1, <4>2
    <3>4. n + m = j
      BY <1>1, <2>1, <3>1, <3>3 DEF IInv, UniqueKeys
    <3> QED BY <2>0, <2>1, <3>3, <3>4
  <2> QED BY <2>0, <2>1, <2>2, <2>3
<1>2. ASSUME IInv, NEW b \in Budgets, SetBudget(b) PROVE Oldest
  <2> DEFINE n == Pops(0, b)
  <2>0. Len(lru) \in Nat /\ DOMAIN lru = 1..Len(lru)
    BY <1>2, ListFacts
  <2>1. /\ n \in 0..Len(lru)
        /\ DOMAIN lru' = 1..(Len(lru) - n)
        /\ \A j \in DOMAIN lru' : n + j \in DOMAIN lru /\ lru'[j] = lru[n + j]
    BY <1>2, AfterBudgetChange
  <2> HIDE DEF n
  <2>2. ASSUME NEW i \in DOMAIN lru, lru[i].key \notin Resident' PROVE i <= n
    <3> SUFFICES ASSUME i > n PROVE FALSE
      BY <2>0, <2>1
    <3>1. i - n \in DOMAIN lru' /\ n + (i - n) = i
      BY <2>0, <2>1
    <3>2. lru'[i - n] = lru[i]
      BY <2>1, <3>1
    <3> QED BY <2>2, <3>1, <3>2 DEF Resident
  <2>3. ASSUME NEW j \in DOMAIN lru, lru[j].key \in Resident' PROVE j > n
    <3>1. PICK m \in DOMAIN lru' : lru'[m].key = lru[j].key
      BY <2>3 DEF Resident
    <3>2. n + m = j
      BY <1>2, <2>1, <3>1 DEF IInv, UniqueKeys
    <3> QED BY <2>0, <2>1, <3>1, <3>2
  <2> QED BY <2>0, <2>1, <2>2, <2>3
<1>3. ASSUME IInv, evictions' = evictions PROVE Oldest
  BY <1>3 DEF IInv, TypeOK
<1>4. ASSUME IInv, [Next]_vars PROVE Oldest
  <2> HIDE DEF Oldest
  <2>1. ASSUME NEW k \in Key, NEW v \in Value, InsertOrGet(k, v) PROVE Oldest
    BY <1>1, <1>3, <1>4, <2>1 DEF InsertOrGet, InsertLost, InsertOversized, Get
  <2> QED BY <1>2, <1>3, <1>4, <2>1 DEF Next, Get, Clear, vars
<1>5. IInv /\ [Next]_vars => [Oldest]_vars
  BY <1>4
<1> QED
  BY <1>5, Invariance, PTL DEF Spec, EvictsLeastRecent

(* The last entry popped, put back, would be booked again.                 *)
LEMMA OnePopFewer ==
  ASSUME IInv, NEW n \in 1..Len(lru)
  PROVE  /\ bytes - Total(Sizes, SubSeq(lru, 1, n - 1))
              = Total(Sizes, Kept(n)) + SizeOf[lru[n].value]
         /\ bytes - Total(Sizes, Popped(n)) = Total(Sizes, Kept(n))
         /\ Total(Sizes, Kept(n)) \in Nat /\ SizeOf[lru[n].value] \in Nat
<1>1. lru \in Seq(Entry) /\ Len(lru) \in Nat
  BY ListFacts
<1>2. n \in 0..Len(lru) /\ n - 1 \in 0..Len(lru) /\ (n - 1) + 1 = n
  BY <1>1
<1>3. Sizes \in [Entry -> Nat] /\ bytes = Total(Sizes, lru)
  BY WeightTypes DEF IInv, Accounted
<1>4. lru[n] \in Entry
  BY <1>1, ElementOfSeq
<1>5. Kept(n - 1) = <<lru[n]>> \o Kept(n)
  <2>1. n \in 1..Len(lru) /\ Len(lru) \in n..Len(lru)
    BY <1>1
  <2>2. SubSeq(lru, n, Len(lru)) = <<lru[n]>> \o SubSeq(lru, n + 1, Len(lru))
    BY <1>1, <2>1, SubSeqRecursiveFirst
  <2> QED BY <1>2, <2>2 DEF Kept
<1>6. /\ Kept(n) \in Seq(Entry)
      /\ Total(Sizes, lru) = Total(Sizes, Popped(n)) + Total(Sizes, Kept(n))
      /\ Total(Sizes, Popped(n)) \in Nat
      /\ Total(Sizes, Kept(n)) \in Nat
  BY <1>1, <1>2, <1>3, PoppedAndKept
<1>7. /\ Total(Sizes, lru) = Total(Sizes, Popped(n - 1)) + Total(Sizes, Kept(n - 1))
      /\ Total(Sizes, Popped(n - 1)) \in Nat
      /\ Total(Sizes, Kept(n - 1)) \in Nat
  BY <1>1, <1>2, <1>3, PoppedAndKept
<1>8. Total(Sizes, Kept(n - 1)) = Sizes[lru[n]] + Total(Sizes, Kept(n))
  <2>1. <<lru[n]>> \in Seq(Entry)
    BY <1>4
  <2>2. Total(Sizes, <<lru[n]>> \o Kept(n)) = Total(Sizes, <<lru[n]>>) + Total(Sizes, Kept(n))
    BY <2>1, <1>3, <1>6, TotalConcat
  <2>3. Total(Sizes, <<lru[n]>>) = Sizes[lru[n]]
    BY <1>3, <1>4, TotalOne
  <2> QED BY <1>5, <2>2, <2>3
<1>9. Sizes[lru[n]] = SizeOf[lru[n].value] /\ Sizes[lru[n]] \in Nat
  BY <1>3, <1>4 DEF Sizes
<1> QED
  BY <1>3, <1>6, <1>7, <1>8, <1>9 DEF Popped

(* The loop of evict_for() stops at the first entry whose removal makes    *)
(* room: with one entry fewer popped the bound would have been exceeded    *)
(* (src/src/cache.rs:270-280).                                             *)
THEOREM EvictionMinimal == Spec => EvictsNoMoreThanNeeded
<1> DEFINE Needed == evictions' > evictions =>
                       bytes' + SizeOf[lru[evictions' - evictions].value] > budget'
<1>1. ASSUME IInv, NEW k \in Key, NEW v \in Value, InsertNew(k, v) PROVE Needed
  <2> DEFINE n == Pops(SizeOf[v], budget)
             e == [key |-> k, value |-> v]
  <2>1. /\ bytes' = bytes - Total(Sizes, Popped(n)) + Total(Sizes, <<e>>)
        /\ evictions' = evictions + n /\ budget' = budget
    BY <1>1 DEF InsertNew, Account
  <2>2. e \in Entry /\ SizeOf[v] \in Nat /\ budget \in Nat /\ evictions \in Nat
    BY <1>1, SizeAssumption DEF Entry, IInv, TypeOK
  <2>3. n \in 0..Len(lru) /\ \A m \in 0..(n - 1) : ~Fits(m, SizeOf[v], budget)
    BY <1>1, ListFacts, PopsExists
  <2>4. Total(Sizes, <<e>>) = SizeOf[v]
    <3>1. Total(Sizes, <<e>>) = Sizes[e]
      BY <2>2, WeightTypes, TotalOne
    <3> QED BY <3>1, <2>2 DEF Sizes
  <2> HIDE DEF n, e
  <2> SUFFICES ASSUME evictions' > evictions
               PROVE  bytes' + SizeOf[lru[evictions' - evictions].value] > budget'
    OBVIOUS
  <2>5. n \in 1..Len(lru) /\ n - 1 \in 0..(n - 1) /\ evictions' - evictions = n
    BY <1>1, <2>1, <2>2, <2>3, ListFacts
  <2>6. ~(bytes - Total(Sizes, SubSeq(lru, 1, n - 1)) + SizeOf[v] <= budget)
    BY <2>3, <2>5 DEF Fits
  <2>7. /\ bytes - Total(Sizes, SubSeq(lru, 1, n - 1))
             = Total(Sizes, Kept(n)) + SizeOf[lru[n].value]
        /\ bytes - Total(Sizes, Popped(n)) = Total(Sizes, Kept(n))
        /\ Total(Sizes, Kept(n)) \in Nat /\ SizeOf[lru[n].value] \in Nat
    BY <1>1, <2>5, OnePopFewer
  <2>8. bytes' = Total(Sizes, Kept(n)) + SizeOf[v]
    BY <2>1, <2>4, <2>7
  <2>9. ~(Total(Sizes, Kept(n)) + SizeOf[lru[n].value] + SizeOf[v] <= budget)
    BY <2>6, <2>7
  <2>10. bytes' + SizeOf[lru[n].value] > budget
    BY <2>2, <2>7, <2>8, <2>9
  <2> QED BY <2>1, <2>5, <2>10
<1>2. ASSUME IInv, NEW b \in Budgets, SetBudget(b) PROVE Needed
  <2> DEFINE n == Pops(0, b)
  <2>1. /\ bytes' = bytes - Total(Sizes, Popped(n)) + Total(Sizes, << >>)
        /\ evictions' = evictions + n /\ budget' = b
    BY <1>2 DEF SetBudget, Account
  <2>2. b \in Nat /\ evictions \in Nat /\ Total(Sizes, << >>) = 0
    BY <1>2, BudgetAssumption, TotalEmpty DEF IInv, TypeOK
  <2>3. n \in 0..Len(lru) /\ \A m \in 0..(n - 1) : ~Fits(m, 0, b)
    BY <1>2, ListFacts, PopsExists
  <2> HIDE DEF n
  <2> SUFFICES ASSUME evictions' > evictions
               PROVE  bytes' + SizeOf[lru[evictions' - evictions].value] > budget'
    OBVIOUS
  <2>4. n \in 1..Len(lru) /\ n - 1 \in 0..(n - 1) /\ evictions' - evictions = n
    BY <1>2, <2>1, <2>2, <2>3, ListFacts
  <2>5. ~(bytes - Total(Sizes, SubSeq(lru, 1, n - 1)) + 0 <= b)
    BY <2>3, <2>4 DEF Fits
  <2>6. /\ bytes - Total(Sizes, SubSeq(lru, 1, n - 1))
             = Total(Sizes, Kept(n)) + SizeOf[lru[n].value]
        /\ bytes - Total(Sizes, Popped(n)) = Total(Sizes, Kept(n))
        /\ Total(Sizes, Kept(n)) \in Nat /\ SizeOf[lru[n].value] \in Nat
    BY <1>2, <2>4, OnePopFewer
  <2> QED BY <2>1, <2>2, <2>4, <2>5, <2>6
<1>3. ASSUME IInv, evictions' = evictions PROVE Needed
  BY <1>3 DEF IInv, TypeOK
<1>4. ASSUME IInv, [Next]_vars PROVE Needed
  <2> HIDE DEF Needed
  <2>1. ASSUME NEW k \in Key, NEW v \in Value, InsertOrGet(k, v) PROVE Needed
    BY <1>1, <1>3, <1>4, <2>1 DEF InsertOrGet, InsertLost, InsertOversized, Get
  <2> QED BY <1>2, <1>3, <1>4, <2>1 DEF Next, Get, Clear, vars
<1>5. IInv /\ [Next]_vars => [Needed]_vars
  BY <1>4
<1> QED
  BY <1>5, Invariance, PTL DEF Spec, EvictsNoMoreThanNeeded

-----------------------------------------------------------------------------
(* The history of the cache: when its keys were used, what came and went.  *)

(* What both observations rest on: no use is in the future.                *)
HInv ==
  /\ IInv
  /\ clock \in Nat /\ lastUse \in [Key -> Nat]
  /\ \A k \in Key : lastUse[k] <= clock
  /\ entered \in Nat /\ cleared \in Nat
  /\ RecencyOrder
  /\ NothingLost

LEMMA InitHInv == HInit => HInv
<1> SUFFICES ASSUME HInit PROVE HInv
  OBVIOUS
<1>1. IInv /\ lru = << >> /\ evictions = 0
  BY InitIInv DEF HInit, Init
<1>2. Len(lru) = 0 /\ DOMAIN lru = {}
  BY <1>1
<1> QED
  BY <1>1, <1>2 DEF HInit, HInv, RecencyOrder, NothingLost

(* The keys of the list are keys.                                          *)
LEMMA KeyOfEntry ==
  ASSUME IInv, NEW i \in DOMAIN lru
  PROVE  lru[i].key \in Key /\ lru[i].key \in Resident
<1>1. lru[i] \in Entry
  BY ListFacts, ElementOfSeq
<1> QED
  BY <1>1 DEF Entry, Resident

(* The used key's time is now, all others keep theirs.                     *)
LEMMA UseStamps ==
  ASSUME HInv, Tick, NEW k \in Key, Use(k)
  PROVE  /\ clock' \in Nat /\ clock' = clock + 1
         /\ lastUse' \in [Key -> Nat]
         /\ lastUse'[k] = clock'
         /\ \A q \in Key \ {k} : lastUse'[q] = lastUse[q]
         /\ \A q \in Key : lastUse[q] < clock' /\ lastUse'[q] <= clock'
<1>1. clock' \in Nat /\ clock' = clock + 1
  BY DEF HInv, Tick
<1>2. lastUse' = [lastUse EXCEPT ![k] = clock'] /\ lastUse \in [Key -> Nat]
  BY DEF Use, HInv
<1>3. \A q \in Key : lastUse[q] \in Nat /\ lastUse[q] <= clock
  BY DEF HInv
<1>4. clock \in Nat
  BY DEF HInv
<1>5. \A q \in Key : lastUse[q] < clock'
  BY <1>1, <1>3, <1>4
<1>6. lastUse'[k] = clock' /\ \A q \in Key \ {k} : lastUse'[q] = lastUse[q]
  BY <1>2
<1>7. \A q \in Key : lastUse'[q] <= clock'
  BY <1>1, <1>3, <1>5, <1>6
<1> QED
  BY <1>1, <1>2, <1>5, <1>6, <1>7

(* A lookup puts the entry it finds last, where the latest use belongs.    *)
LEMMA GetKeepsOrder ==
  ASSUME HInv, Tick, NEW k \in Key, Get(k), Use(k)
  PROVE  RecencyOrder'
<1> DEFINE x == IndexOf(k)
           L == Len(lru)
           from(j) == IF j < x THEN j ELSE IF j < L THEN j + 1 ELSE x
<1>1. /\ IInv /\ lru \in Seq(Entry) /\ L \in Nat /\ DOMAIN lru = 1..L
      /\ Distinct(lru) /\ k \in Resident /\ lru' = MovedToEnd(lru, x)
  BY ListFacts DEF HInv, Get, Touch
<1>2. x \in 1..L /\ lru[x].key = k
  BY <1>1, ResidentEntry
<1>3. DOMAIN lru' = 1..L /\ \A j \in 1..L : lru'[j] = lru[from(j)]
  <2> HIDE DEF x
  <2>1. /\ lru' \in Seq(Entry) /\ Len(lru') = Len(lru)
        /\ \A j \in 1..Len(lru) :
             lru'[j] = IF j < x THEN lru[j] ELSE IF j < Len(lru) THEN lru[j + 1] ELSE lru[x]
    <3>1. lru \in Seq(Entry) /\ x \in 1..Len(lru) /\ lru' = MovedToEnd(lru, x)
      BY <1>1, <1>2
    <3> QED BY <3>1, MoveToEnd
  <2>2. DOMAIN lru' = 1..L
    BY <2>1, LenProperties
  <2> QED BY <2>1, <2>2
<1>4. \A j \in 1..L : from(j) \in 1..L /\ (j < L => from(j) # x) /\ (j = L => from(j) = x)
  <2> HIDE DEF x, L
  <2> QED BY <1>1, <1>2
<1>5. \A i, j \in 1..L : i < j /\ j < L => from(i) < from(j)
  BY <1>1, <1>2
<1> HIDE DEF x, from
<1>6. \A j \in 1..L : lru[j].key \in Key /\ (j # x => lru[j].key # k)
  BY <1>1, <1>2, KeyOfEntry DEF Distinct
<1>7. SUFFICES ASSUME NEW i \in 1..L, NEW j \in 1..L, i < j
               PROVE  lastUse'[lru'[i].key] < lastUse'[lru'[j].key]
  BY <1>3 DEF RecencyOrder
<1>8. i < L
  BY <1>1, <1>7
<1>9. lastUse'[lru'[i].key] = lastUse[lru[from(i)].key] /\ lru[from(i)].key \in Key
  BY <1>3, <1>4, <1>6, <1>8, UseStamps
<1>10. CASE j = L
  <2>1. lastUse'[lru'[j].key] = clock'
    <3>1. from(j) = x /\ lru'[j] = lru[x]
      BY <1>3, <1>4, <1>10
    <3> QED BY <1>2, <3>1, UseStamps
  <2> QED BY <1>9, <2>1, UseStamps
<1>11. CASE j < L
  <2>1. lastUse'[lru'[j].key] = lastUse[lru[from(j)].key]
    BY <1>3, <1>4, <1>6, <1>11, UseStamps
  <2>2. from(i) < from(j) /\ from(i) \in DOMAIN lru /\ from(j) \in DOMAIN lru
    BY <1>1, <1>4, <1>5, <1>7, <1>11
  <2> QED BY <1>9, <2>1, <2>2 DEF HInv, RecencyOrder
<1> QED
  BY <1>1, <1>10, <1>11

(* An insertion puts the newcomer last, and leaves the rest in order.      *)
LEMMA InsertKeepsOrder ==
  ASSUME HInv, Tick, NEW k \in Key, NEW v \in Value, InsertNew(k, v), Use(k)
  PROVE  RecencyOrder'
<1> DEFINE n == Pops(SizeOf[v], budget)
           m == Len(lru) - n + 1
<1>1. IInv /\ Len(lru) \in Nat /\ DOMAIN lru = 1..Len(lru)
  BY ListFacts DEF HInv
<1>2. /\ n \in 0..Len(lru)
      /\ DOMAIN lru' = 1..m
      /\ \A j \in 1..(m - 1) : n + j \in DOMAIN lru /\ lru'[j] = lru[n + j]
      /\ lru'[m].key = k
      /\ k \notin Resident
  <2>1. n \in 0..Len(lru) /\ m - 1 = Len(lru) - n
    BY <1>1, PopsExists, ListFacts
  <2>2. /\ DOMAIN lru' = 1..m /\ k \notin Resident
        /\ \A j \in 1..(Len(lru) - n) : n + j \in DOMAIN lru /\ lru'[j] = lru[n + j]
        /\ lru'[m] = [key |-> k, value |-> v]
    BY <1>1, AfterInsertion
  <2> HIDE DEF n, m
  <2> QED BY <2>1, <2>2
<1> HIDE DEF n
<1>3. m \in Nat
  BY <1>1, <1>2
<1> HIDE DEF m
<1>4. SUFFICES ASSUME NEW i \in 1..m, NEW j \in 1..m, i < j
               PROVE  lastUse'[lru'[i].key] < lastUse'[lru'[j].key]
  BY <1>2 DEF RecencyOrder
<1>5. i \in 1..(m - 1)
  BY <1>3, <1>4
<1>6. ASSUME NEW q \in 1..(m - 1)
      PROVE  /\ lru[n + q].key \in Key
             /\ lastUse'[lru'[q].key] = lastUse[lru[n + q].key]
  <2>1. lru[n + q].key \in Key /\ lru[n + q].key # k
    BY <1>1, <1>2, KeyOfEntry
  <2> QED BY <1>2, <2>1, UseStamps
<1>7. CASE j = m
  BY <1>2, <1>5, <1>6, <1>7, UseStamps
<1>8. CASE j \in 1..(m - 1)
  <2>1. n + i < n + j /\ n + i \in DOMAIN lru /\ n + j \in DOMAIN lru
    BY <1>1, <1>2, <1>4, <1>5, <1>8
  <2> QED BY <1>5, <1>6, <1>8, <2>1 DEF HInv, RecencyOrder
<1> QED
  BY <1>3, <1>7, <1>8

(* Entries of the list further back are still in order.                    *)
LEMMA SetBudgetKeepsOrder ==
  ASSUME HInv, NEW b \in Budgets, SetBudget(b), lastUse' = lastUse
  PROVE  RecencyOrder'
<1> DEFINE n == Pops(0, b)
<1>1. IInv /\ Len(lru) \in Nat /\ DOMAIN lru = 1..Len(lru)
  BY ListFacts DEF HInv
<1>2. /\ n \in 0..Len(lru)
      /\ DOMAIN lru' = 1..(Len(lru) - n)
      /\ \A j \in DOMAIN lru' : n + j \in DOMAIN lru /\ lru'[j] = lru[n + j]
  BY <1>1, AfterBudgetChange
<1> HIDE DEF n
<1>3. SUFFICES ASSUME NEW i \in DOMAIN lru', NEW j \in DOMAIN lru', i < j
               PROVE  lastUse[lru'[i].key] < lastUse[lru'[j].key]
  BY DEF RecencyOrder
<1>4. n + i < n + j
  BY <1>1, <1>2, <1>3
<1> QED
  BY <1>2, <1>4 DEF HInv, RecencyOrder

(* Every operation keeps the list in the order of use and the books of     *)
(* what came and went.                                                     *)
LEMMA GetPreservesHistory ==
  ASSUME HInv, Tick, NEW k \in Key, Get(k), Use(k), UNCHANGED <<entered, cleared>>
  PROVE  HInv'
<1>1. IInv' /\ Len(lru') = Len(lru) /\ UNCHANGED <<evictions, oversized, derivedEntries>>
  BY GetPreserves, GetCounts DEF HInv
<1>2. RecencyOrder'
  BY GetKeepsOrder
<1> QED
  BY <1>1, <1>2, UseStamps DEF HInv, NothingLost

LEMMA InsertPreservesHistory ==
  ASSUME HInv, Tick, NEW k \in Key, NEW v \in Value, InsertOrGet(k, v), Use(k),
         entered' = entered + (IF k \notin Resident /\ k \in Resident' THEN 1 ELSE 0),
         cleared' = cleared
  PROVE  HInv'
<1>1. CASE InsertLost(k)
  <2>1. Get(k) /\ k \in Resident
    BY <1>1 DEF InsertLost, Get
  <2>2. entered' = entered
    BY <2>1 DEF HInv
  <2> QED BY <2>1, <2>2, GetPreservesHistory
<1>2. CASE InsertOversized(k, v)
  <2>1. /\ UNCHANGED <<lru, bytes, budget, evictions, derivedEntries, derivedBytes>>
        /\ k \notin Resident
    BY <1>2 DEF InsertOversized
  <2>2. IInv'
    BY <1>2, OversizedPreserves DEF HInv
  <2>3. Resident' = Resident
    BY <2>1 DEF Resident
  <2>4. entered' = entered /\ NothingLost'
    BY <2>1, <2>3 DEF HInv, NothingLost
  <2>5. \A i \in DOMAIN lru : lastUse'[lru[i].key] = lastUse[lru[i].key]
    BY <2>1, KeyOfEntry, UseStamps DEF HInv
  <2>6. RecencyOrder'
    BY <2>1, <2>5 DEF HInv, RecencyOrder
  <2> QED BY <2>2, <2>4, <2>6, UseStamps DEF HInv
<1>3. CASE InsertNew(k, v)
  <2>1. IInv' /\ RecencyOrder'
    BY <1>3, InsertNewPreserves, InsertKeepsOrder DEF HInv
  <2>2. k \notin Resident /\ oversized' = oversized
    BY <1>3 DEF InsertNew
  <2>3. k \in Resident'
    <3> DEFINE n == Pops(SizeOf[v], budget)
               m == Len(lru) - n + 1
    <3>1. n \in 0..Len(lru) /\ Len(lru) \in Nat
      BY PopsExists, ListFacts DEF HInv
    <3>2. DOMAIN lru' = 1..m /\ lru'[m] = [key |-> k, value |-> v]
      <4>1. IInv
        BY DEF HInv
      <4> QED BY <1>3, <4>1, AfterInsertion
    <3> HIDE DEF n
    <3> QED BY <3>1, <3>2 DEF Resident
  <2>4. Len(lru') + evictions' + oversized' = Len(lru) + evictions + oversized + 1
    BY <2>2, InsertCounts DEF HInv
  <2>5. /\ Len(lru) \in Nat /\ evictions \in Nat /\ oversized \in Nat
        /\ Len(lru') \in Nat /\ evictions' \in Nat
    BY <2>1, LenProperties DEF HInv, IInv, TypeOK
  <2>6. entered' = entered + 1
    BY <2>2, <2>3
  <2>7. NothingLost' /\ entered' \in Nat
    <3>1. /\ entered \in Nat /\ cleared \in Nat /\ cleared' = cleared
          /\ entered = Len(lru) + evictions + cleared
      BY DEF HInv, NothingLost
    <3>2. entered' = Len(lru') + evictions' + cleared'
      BY <2>2, <2>4, <2>5, <2>6, <3>1, SMTT(40)
    <3> QED BY <2>6, <3>1, <3>2 DEF NothingLost
  <2> QED BY <2>1, <2>7, UseStamps DEF HInv
<1> QED
  BY <1>1, <1>2, <1>3 DEF InsertOrGet

LEMMA ClearPreservesHistory ==
  ASSUME HInv, Tick, Clear, cleared' = cleared + Len(lru), UNCHANGED <<lastUse, entered>>
  PROVE  HInv'
<1>1. IInv' /\ lru' = << >> /\ evictions' = evictions
  BY ClearPreserves DEF HInv, Clear
<1>2. Len(lru') = 0 /\ DOMAIN lru' = {}
  BY <1>1
<1>3. Len(lru) \in Nat /\ evictions \in Nat
  BY ListFacts DEF HInv, IInv, TypeOK
<1>4. NothingLost' /\ cleared' \in Nat
  BY <1>1, <1>2, <1>3 DEF HInv, NothingLost
<1>5. clock' \in Nat /\ \A k \in Key : lastUse[k] <= clock'
  BY DEF HInv, Tick
<1> QED
  BY <1>1, <1>2, <1>4, <1>5 DEF HInv, RecencyOrder

LEMMA SetBudgetPreservesHistory ==
  ASSUME HInv, Tick, NEW b \in Budgets, SetBudget(b),
         UNCHANGED <<lastUse, entered, cleared>>
  PROVE  HInv'
<1>1. IInv' /\ RecencyOrder'
  BY SetBudgetPreserves, SetBudgetKeepsOrder DEF HInv
<1>2. Len(lru') + evictions' = Len(lru) + evictions
  BY SetBudgetCounts DEF HInv
<1>3. NothingLost'
  BY <1>1, <1>2 DEF HInv, NothingLost
<1>4. clock' \in Nat /\ \A k \in Key : lastUse[k] <= clock'
  BY DEF HInv, Tick
<1> QED
  BY <1>1, <1>3, <1>4 DEF HInv

LEMMA NextHInv == HInv /\ [HNext]_hvars => HInv'
<1> SUFFICES ASSUME HInv, [HNext]_hvars PROVE HInv'
  OBVIOUS
<1>1. CASE UNCHANGED hvars
  <2>1. UNCHANGED vars
    BY <1>1 DEF hvars
  <2>2. IInv' /\ lru' = lru /\ evictions' = evictions
    BY <2>1, StutterPreserves DEF HInv, vars
  <2> QED BY <1>1, <2>2 DEF HInv, hvars, history, RecencyOrder, NothingLost
<1>2. CASE HNext
  BY <1>2, GetPreservesHistory, InsertPreservesHistory, ClearPreservesHistory,
     SetBudgetPreservesHistory DEF HNext
<1> QED
  BY <1>1, <1>2

(* For any keys, sizes, budgets and sequence of operations, the list is    *)
(* ordered by last use: what evict_for pops first is what nobody looked    *)
(* up or inserted for the longest (src/src/cache.rs:269-302).              *)
THEOREM ListIsByLastUse == HSpec => []RecencyOrder
<1>1. HInit => HInv
  BY InitHInv
<1>2. HInv /\ [HNext]_hvars => HInv'
  BY NextHInv
<1>3. HInv => RecencyOrder
  BY DEF HInv
<1> QED
  BY <1>1, <1>2, <1>3, PTL DEF HSpec

(* And no entry leaves it uncounted: whatever entered is resident, was     *)
(* evicted, or was cleared (src/src/cache.rs:226, 275, 304-310).           *)
THEOREM EntriesAreAccountedFor == HSpec => []NothingLost
<1>1. HInit => HInv
  BY InitHInv
<1>2. HInv /\ [HNext]_hvars => HInv'
  BY NextHInv
<1>3. HInv => NothingLost
  BY DEF HInv
<1> QED
  BY <1>1, <1>2, <1>3, PTL DEF HSpec
=============================================================================
