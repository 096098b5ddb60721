-------------------------- MODULE SequentialProofs --------------------------
(***************************************************************************)
(* Proofs about the parts that one process goes through alone.  Toolbox:   *)
(* what the lead is told happened did, in that order, and it is told of a  *)
(* file once; a report that is stored cites what was found before it.      *)
(* Completion: an answer is taken as the model gave it, its native calls   *)
(* or those in its text, however its deltas interleave.  Benchmark: a row  *)
(* scores chunks of its own conversation, and the report of the systems    *)
(* explains itself.  Before them, what Keep and Arranged return.           *)
(***************************************************************************)
EXTENDS Benchmark, Completion, Toolbox,
        FiniteSetTheorems, SequenceTheorems, WellFoundedInduction, TLAPS

-----------------------------------------------------------------------------
(* Induction over the natural numbers, from the least counterexample.      *)

LEMMA LeastNumber ==
  ASSUME NEW T \in SUBSET Nat, T # {}
  PROVE  \E n \in T : \A m \in T : n <= m
<1> DEFINE R == {p \in Nat \X Nat : p[1] < p[2]}
<1>1. IsWellFoundedOn(R, Nat)
  BY NatLessThanWellFounded DEF OpToRel
<1>2. \E n \in T : \A m \in T : <<m, n>> \notin R
  <2> HIDE DEF R
  <2>1. QED
    BY <1>1, WFMin
<1>3. PICK n \in T : \A m \in T : <<m, n>> \notin R
  BY <1>2
<1>4. \A m \in T : m \in Nat /\ n \in Nat /\ ~(m < n)
  BY <1>3
<1>5. QED
  BY <1>4

LEMMA Induction ==
  ASSUME NEW T \in SUBSET Nat, 0 \in T, \A n \in T : n + 1 \in T
  PROVE  T = Nat
<1>1. SUFFICES ASSUME Nat \ T # {} PROVE FALSE
  OBVIOUS
<1>2. PICK n \in Nat \ T : \A m \in Nat \ T : n <= m
  BY <1>1, LeastNumber
<1>3. n # 0 /\ n - 1 \in Nat
  BY <1>2
<1>4. n - 1 \in T
  BY <1>2, <1>3
<1>5. QED
  BY <1>3, <1>4

-----------------------------------------------------------------------------
(* Lists.                                                                  *)

\* What appending does.
LEMMA AppendIs ==
  ASSUME NEW S, NEW s \in Seq(S), NEW x
  PROVE  /\ Len(s) \in Nat /\ Len(Append(s, x)) = Len(s) + 1
         /\ DOMAIN s = 1 .. Len(s) /\ DOMAIN Append(s, x) = 1 .. Len(s) + 1
         /\ \A i \in 1 .. Len(s) : Append(s, x)[i] = s[i] /\ s[i] \in S
         /\ Append(s, x)[Len(s) + 1] = x
OBVIOUS

LEMMA RangeOfAppend ==
  ASSUME NEW S, NEW s \in Seq(S), NEW x
  PROVE  Range(Append(s, x)) = Range(s) \cup {x}
BY AppendIs DEF Range

\* A list that is not empty is one with an element appended.
LEMMA LastSplit ==
  ASSUME NEW S, NEW n \in Nat, NEW s \in Seq(S), Len(s) = n + 1
  PROVE  \E p \in Seq(S), x \in S : Len(p) = n /\ s = Append(p, x)
<1>1. PICK p : p = [i \in 1 .. n |-> s[i]]
  OBVIOUS
<1>2. PICK x \in S : x = s[n + 1]
  OBVIOUS
<1>3. p \in Seq(S) /\ Len(p) = n /\ s = Append(p, x)
  BY <1>1, <1>2
<1>4. QED
  BY <1>3

\* kept of Keep, on the first n elements of s.
Grown(k, x, V) == IF x \in V THEN Append(k, x) ELSE k
IsKept(f, s, V, n) == f = [i \in 0 .. n |-> IF i = 0 THEN <<>> ELSE Grown(f[i - 1], s[i], V)]

LEMMA KeptExists ==
  ASSUME NEW s, NEW V, Len(s) \in Nat
  PROVE  \E f : IsKept(f, s, V, Len(s)) /\ Keep(s, V) = f[Len(s)]
<1> DEFINE T == {n \in Nat : \E f : IsKept(f, s, V, n)}
<1>1. 0 \in T
  <2>1. IsKept([i \in 0 .. 0 |-> <<>>], s, V, 0)
    BY DEF IsKept
  <2>2. QED
    BY <2>1
<1>2. ASSUME NEW n \in T
      PROVE  n + 1 \in T
  <2>1. PICK f : IsKept(f, s, V, n)
    OBVIOUS
  <2> DEFINE g == [i \in 0 .. n + 1 |-> IF i <= n THEN f[i] ELSE Grown(f[n], s[n + 1], V)]
  <2>2. IsKept(g, s, V, n + 1)
    BY <2>1 DEF IsKept
  <2>3. QED
    BY <2>2
<1>3. T = Nat
  <2> HIDE DEF T
  <2>1. T \in SUBSET Nat
    BY DEF T
  <2>2. QED
    BY <1>1, <1>2, <2>1, Induction
<1>4. \E f : IsKept(f, s, V, Len(s))
  BY <1>3
<1>5. Keep(s, V) = (CHOOSE f : IsKept(f, s, V, Len(s)))[Len(s)]
  BY DEF Keep, IsKept, Grown
<1>6. QED
  BY <1>4, <1>5

LEMMA KeepEmpty ==
  ASSUME NEW V
  PROVE  Keep(<<>>, V) = <<>>
<1>1. PICK e : e = <<>>
  OBVIOUS
<1>2. Len(e) = 0
  BY <1>1
<1>3. PICK f : IsKept(f, e, V, 0) /\ Keep(e, V) = f[0]
  BY <1>2, KeptExists
<1>4. QED
  BY <1>1, <1>3 DEF IsKept

LEMMA KeepAppend ==
  ASSUME NEW S, NEW s \in Seq(S), NEW x, NEW V
  PROVE  Keep(Append(s, x), V) = IF x \in V THEN Append(Keep(s, V), x) ELSE Keep(s, V)
<1>1. PICK m : m = Append(s, x)
  OBVIOUS
<1>2. PICK n \in Nat : n = Len(s) /\ Len(m) = n + 1 /\ m[n + 1] = x /\ \A i \in 1 .. n : m[i] = s[i]
  BY <1>1, AppendIs
<1>3. PICK f : IsKept(f, s, V, n) /\ Keep(s, V) = f[n]
  BY <1>2, KeptExists
<1>4. PICK g : IsKept(g, m, V, n + 1) /\ Keep(m, V) = g[n + 1]
  BY <1>2, KeptExists
<1> DEFINE T == {i \in Nat : i <= n => g[i] = f[i]}
<1>5. 0 \in T
  BY <1>3, <1>4 DEF IsKept
<1>6. ASSUME NEW i \in T
      PROVE  i + 1 \in T
  <2>1. SUFFICES ASSUME i + 1 <= n PROVE g[i + 1] = f[i + 1]
    OBVIOUS
  <2>2. i \in Nat /\ g[i] = f[i] /\ i + 1 \in 1 .. n /\ i + 1 # 0 /\ i + 1 - 1 = i
    BY <2>1
  <2>3. g[i + 1] = Grown(g[i], m[i + 1], V)
    BY <1>4, <2>2 DEF IsKept
  <2>4. f[i + 1] = Grown(f[i], s[i + 1], V)
    BY <1>3, <2>2 DEF IsKept
  <2>5. QED
    BY <1>2, <2>2, <2>3, <2>4
<1>7. T = Nat
  <2> HIDE DEF T
  <2>1. T \in SUBSET Nat
    BY DEF T
  <2>2. QED
    BY <1>5, <1>6, <2>1, Induction
<1>8. g[n] = f[n]
  BY <1>7
<1>9. g[n + 1] = Grown(g[n], m[n + 1], V)
  BY <1>4 DEF IsKept
<1>10. QED
  BY <1>1, <1>2, <1>3, <1>4, <1>8, <1>9 DEF Grown

\* Only what is in the list decides.
LEMMA KeepSame ==
  ASSUME NEW S, NEW s \in Seq(S), NEW V, NEW W, V \cap Range(s) = W \cap Range(s)
  PROVE  Keep(s, V) = Keep(s, W)
<1> DEFINE Good(k) == V \cap Range(k) = W \cap Range(k) => Keep(k, V) = Keep(k, W)
           T == {n \in Nat : \A k \in Seq(S) : Len(k) = n => Good(k)}
<1>1. 0 \in T
  <2>1. \A k \in Seq(S) : Len(k) = 0 => k = <<>>
    OBVIOUS
  <2>2. QED
    BY <2>1, KeepEmpty
<1>2. ASSUME NEW n \in T
      PROVE  n + 1 \in T
  <2>1. SUFFICES ASSUME NEW k \in Seq(S), Len(k) = n + 1, V \cap Range(k) = W \cap Range(k)
                 PROVE  Keep(k, V) = Keep(k, W)
    OBVIOUS
  <2>2. PICK p \in Seq(S), x \in S : Len(p) = n /\ k = Append(p, x)
    <3>1. n \in Nat
      OBVIOUS
    <3> HIDE DEF T
    <3>2. QED
      BY <2>1, <3>1, LastSplit
  <2>3. Range(k) = Range(p) \cup {x}
    BY <2>2, RangeOfAppend
  <2>4. Keep(p, V) = Keep(p, W)
    BY <2>1, <2>2, <2>3
  <2>5. x \in V <=> x \in W
    BY <2>1, <2>3
  <2>6. Keep(k, V) = Grown(Keep(p, V), x, V) /\ Keep(k, W) = Grown(Keep(p, W), x, W)
    BY <2>2, KeepAppend DEF Grown
  <2>7. QED
    BY <2>4, <2>5, <2>6 DEF Grown
<1>3. T = Nat
  <2> HIDE DEF T
  <2>1. T \in SUBSET Nat
    BY DEF T
  <2>2. QED
    BY <1>1, <1>2, <2>1, Induction
<1>4. QED
  BY <1>3

\* What is kept, and in which order: g says where each element was.
KeptAt(s, V, g) ==
  LET L == Keep(s, V) IN
  /\ L \in Seq(Range(s)) /\ g \in [1 .. Len(L) -> 1 .. Len(s)]
  /\ \A i \in 1 .. Len(L) : L[i] = s[g[i]] /\ s[g[i]] \in V
  /\ \A i, j \in 1 .. Len(L) : i < j => g[i] < g[j]
  /\ \A i \in 1 .. Len(s) : s[i] \in V => \E j \in 1 .. Len(L) : g[j] = i

LEMMA KeepShape ==
  ASSUME NEW S, NEW s \in Seq(S), NEW V
  PROVE  \E g : KeptAt(s, V, g)
<1> DEFINE T == {n \in Nat : \A k \in Seq(S) : Len(k) = n => \E g : KeptAt(k, V, g)}
<1>1. 0 \in T
  <2>1. SUFFICES ASSUME NEW k \in Seq(S), Len(k) = 0 PROVE \E g : KeptAt(k, V, g)
    OBVIOUS
  <2>2. k = <<>>
    BY <2>1
  <2>3. Keep(k, V) = <<>>
    BY <2>2, KeepEmpty
  <2>4. KeptAt(k, V, <<>>)
    BY <2>1, <2>3 DEF KeptAt
  <2>5. QED
    BY <2>4
<1>2. ASSUME NEW n \in T
      PROVE  n + 1 \in T
  <2>1. SUFFICES ASSUME NEW k \in Seq(S), Len(k) = n + 1
                 PROVE  \E g : KeptAt(k, V, g)
    OBVIOUS
  <2>2. PICK p \in Seq(S), x \in S : Len(p) = n /\ k = Append(p, x)
    <3>1. n \in Nat
      OBVIOUS
    <3> HIDE DEF T
    <3>2. QED
      BY <2>1, <3>1, LastSplit
  <2>3. Range(k) = Range(p) \cup {x}
    BY <2>2, RangeOfAppend
  <2>4. PICK f : KeptAt(p, V, f)
    BY <2>2
  <2>5. \A i \in 1 .. n : k[i] = p[i]
    BY <2>2, AppendIs
  <2>6. k[n + 1] = x
    BY <2>2, AppendIs
  <2>7. PICK P : P = Keep(p, V)
    OBVIOUS
  <2>8. P \in Seq(Range(k))
    BY <2>3, <2>4, <2>7 DEF KeptAt
  <2>9. CASE x \in V
    <3>1. PICK L : L = Append(P, x)
      OBVIOUS
    <3>2. Keep(k, V) = L
      BY <2>2, <2>7, <2>9, <3>1, KeepAppend
    <3>3. PICK m \in Nat : m = Len(P) /\ Len(L) = m + 1 /\ L[m + 1] = x /\ \A i \in 1 .. m : L[i] = P[i]
      BY <2>8, <3>1, AppendIs
    <3>4. L \in Seq(Range(k))
      BY <2>3, <2>8, <3>1
    <3> DEFINE g == [i \in 1 .. m + 1 |-> IF i = m + 1 THEN n + 1 ELSE f[i]]
    <3>5. g \in [1 .. m + 1 -> 1 .. n + 1]
      BY <2>2, <2>4, <2>7, <3>3 DEF KeptAt
    <3>6. ASSUME NEW i \in 1 .. m + 1
          PROVE  L[i] = k[g[i]] /\ k[g[i]] \in V
      <4>1. CASE i = m + 1
        BY <2>6, <2>9, <3>3, <4>1
      <4>2. CASE i # m + 1
        <5>1. i \in 1 .. m /\ g[i] = f[i]
          BY <4>2
        <5>2. f[i] \in 1 .. n /\ P[i] = p[f[i]] /\ p[f[i]] \in V
          BY <2>2, <2>4, <2>7, <3>3, <5>1 DEF KeptAt
        <5>3. L[i] = P[i] /\ k[f[i]] = p[f[i]]
          BY <2>5, <3>3, <5>1, <5>2
        <5>4. QED
          BY <5>1, <5>2, <5>3
      <4>3. QED
        BY <4>1, <4>2
    <3>7. ASSUME NEW i \in 1 .. m + 1, NEW j \in 1 .. m + 1, i < j
          PROVE  g[i] < g[j]
      <4>1. f \in [1 .. m -> 1 .. n] /\ \A a, b \in 1 .. m : a < b => f[a] < f[b]
        BY <2>2, <2>4, <2>7, <3>3 DEF KeptAt
      <4>2. i \in 1 .. m /\ g[i] = f[i] /\ f[i] \in 1 .. n
        BY <3>7, <4>1
      <4>3. CASE j = m + 1
        BY <4>2, <4>3
      <4>4. CASE j # m + 1
        <5>1. j \in 1 .. m /\ g[j] = f[j]
          BY <4>4
        <5>2. QED
          BY <3>7, <4>1, <4>2, <5>1
      <4>5. QED
        BY <4>3, <4>4
    <3>8. ASSUME NEW i \in 1 .. n + 1, k[i] \in V
          PROVE  \E j \in 1 .. m + 1 : g[j] = i
      <4>1. CASE i = n + 1
        BY <4>1
      <4>2. CASE i \in 1 .. n
        BY <2>2, <2>4, <2>5, <2>7, <3>3, <3>8, <4>2 DEF KeptAt
      <4>3. QED
        BY <4>1, <4>2
    <3> HIDE DEF g
    <3>9. KeptAt(k, V, g)
      BY <2>1, <3>2, <3>3, <3>4, <3>5, <3>6, <3>7, <3>8 DEF KeptAt
    <3>10. QED
      BY <3>9
  <2>10. CASE x \notin V
    <3>1. Keep(k, V) = P
      BY <2>2, <2>7, <2>10, KeepAppend
    <3>2. KeptAt(k, V, f)
      <4>1. ASSUME NEW i \in 1 .. n + 1, k[i] \in V
            PROVE  i \in 1 .. n
        BY <2>6, <2>10, <4>1
      <4>2. /\ f \in [1 .. Len(P) -> 1 .. n]
            /\ \A i \in 1 .. Len(P) : P[i] = p[f[i]] /\ p[f[i]] \in V
            /\ \A i, j \in 1 .. Len(P) : i < j => f[i] < f[j]
            /\ \A i \in 1 .. n : p[i] \in V => \E j \in 1 .. Len(P) : f[j] = i
        BY <2>2, <2>4, <2>7 DEF KeptAt
      <4>3. f \in [1 .. Len(P) -> 1 .. n + 1]
        BY <4>2
      <4>4. \A i \in 1 .. Len(P) : P[i] = k[f[i]] /\ k[f[i]] \in V
        BY <2>5, <4>2
      <4>5. \A i \in 1 .. n + 1 : k[i] \in V => \E j \in 1 .. Len(P) : f[j] = i
        BY <2>5, <4>1, <4>2
      <4>6. QED
        BY <2>1, <2>8, <3>1, <4>2, <4>3, <4>4, <4>5 DEF KeptAt
    <3>3. QED
      BY <3>2
  <2>11. QED
    BY <2>9, <2>10
<1>3. T = Nat
  <2> HIDE DEF T
  <2>1. T \in SUBSET Nat
    BY DEF T
  <2>2. QED
    BY <1>1, <1>2, <2>1, Induction
<1>4. QED
  BY <1>3

\* A list of anything.
IsList(s) == s \in Seq(Range(s))

LEMMA ListAppend ==
  ASSUME NEW s, IsList(s), NEW x
  PROVE  IsList(Append(s, x)) /\ Range(Append(s, x)) = Range(s) \cup {x}
<1>1. Range(Append(s, x)) = Range(s) \cup {x}
  BY RangeOfAppend DEF IsList
<1>2. Append(s, x) \in Seq(Range(s) \cup {x})
  <2>1. s \in Seq(Range(s) \cup {x})
    <3>1. \A S, R : S \subseteq R => \A l \in Seq(S) : l \in Seq(R)
      OBVIOUS
    <3>2. QED
      BY <3>1 DEF IsList
  <2>2. QED
    BY <2>1
<1>3. QED
  BY <1>1, <1>2 DEF IsList

\* Keeping what a test lets through, of a list that grows.
LEMMA TestAppend ==
  ASSUME NEW s, IsList(s), NEW x, NEW V, NEW W, V \cap Range(s) = W \cap Range(s)
  PROVE  /\ x \in V => Keep(Append(s, x), V) = Append(Keep(s, W), x)
         /\ x \notin V => Keep(Append(s, x), V) = Keep(s, W)
<1>1. Keep(s, V) = Keep(s, W)
  BY KeepSame DEF IsList
<1>2. Keep(Append(s, x), V) = IF x \in V THEN Append(Keep(s, V), x) ELSE Keep(s, V)
  BY KeepAppend DEF IsList
<1>3. QED
  BY <1>1, <1>2

LEMMA KeepIsList ==
  ASSUME NEW s, IsList(s), NEW V
  PROVE  IsList(Keep(s, V)) /\ Range(Keep(s, V)) \subseteq Range(s)
<1>1. PICK g : KeptAt(s, V, g)
  BY KeepShape DEF IsList
<1>2. PICK L : L = Keep(s, V)
  OBVIOUS
<1>3. L \in Seq(Range(s))
  BY <1>1, <1>2 DEF KeptAt
<1>4. L \in Seq(Range(L)) /\ Range(L) \subseteq Range(s)
  BY <1>3 DEF Range
<1>5. QED
  BY <1>2, <1>4 DEF IsList

LEMMA ListIsSeq ==
  ASSUME NEW s, IsList(s)
  PROVE  Len(s) \in Nat /\ DOMAIN s = 1 .. Len(s) /\ \A i \in 1 .. Len(s) : s[i] \in Range(s)
BY DEF IsList, Range

\* The positions of what is kept.
Picked(k, s, V, g) ==
  /\ Len(k) \in Nat /\ DOMAIN k = 1 .. Len(k) /\ Len(s) \in Nat /\ DOMAIN s = 1 .. Len(s)
  /\ g \in [DOMAIN k -> DOMAIN s]
  /\ \A i \in DOMAIN k : k[i] = s[g[i]] /\ s[g[i]] \in V
  /\ \A i, j \in DOMAIN k : i < j => g[i] < g[j]
  /\ \A i \in DOMAIN s : s[i] \in V => \E j \in DOMAIN k : g[j] = i

LEMMA KeepPositions ==
  ASSUME NEW s, IsList(s), NEW V
  PROVE  \E g : Picked(Keep(s, V), s, V, g)
<1>1. PICK g : KeptAt(s, V, g)
  BY KeepShape DEF IsList
<1>2. PICK k : k = Keep(s, V)
  OBVIOUS
<1>3. k \in Seq(Range(s))
  BY <1>1, <1>2 DEF KeptAt
<1>4. Len(k) \in Nat /\ DOMAIN k = 1 .. Len(k) /\ Len(s) \in Nat /\ DOMAIN s = 1 .. Len(s)
  BY <1>3, ListIsSeq
<1>5. /\ g \in [1 .. Len(k) -> 1 .. Len(s)]
      /\ \A i \in 1 .. Len(k) : k[i] = s[g[i]] /\ s[g[i]] \in V
      /\ \A i, j \in 1 .. Len(k) : i < j => g[i] < g[j]
      /\ \A i \in 1 .. Len(s) : s[i] \in V => \E j \in 1 .. Len(k) : g[j] = i
  BY <1>1, <1>2 DEF KeptAt
<1>6. Picked(k, s, V, g)
  BY <1>4, <1>5 DEF Picked
<1>7. QED
  BY <1>2, <1>6

LEMMA RangeOfKeep ==
  ASSUME NEW s, IsList(s), NEW V
  PROVE  Range(Keep(s, V)) = Range(s) \cap V
<1>1. PICK k : k = Keep(s, V)
  OBVIOUS
<1>2. PICK g : Picked(k, s, V, g)
  BY <1>1, KeepPositions
<1>3. \A i \in DOMAIN k : k[i] \in Range(s) \cap V
  BY <1>2 DEF Range, Picked
<1>4. \A i \in DOMAIN s : s[i] \in V => s[i] \in Range(k)
  BY <1>2 DEF Range, Picked
<1>5. Range(k) \subseteq Range(s) \cap V
  BY <1>3 DEF Range
<1>6. Range(s) \cap V \subseteq Range(k)
  BY <1>4 DEF Range
<1>7. QED
  BY <1>1, <1>5, <1>6

LEMMA KeepNone ==
  ASSUME NEW s, IsList(s), NEW V
  PROVE  Keep(s, V) = <<>> <=> Range(s) \cap V = {}
<1>1. PICK k : k = Keep(s, V)
  OBVIOUS
<1>2. IsList(k) /\ Range(k) = Range(s) \cap V
  BY <1>1, KeepIsList, RangeOfKeep
<1>3. k = <<>> <=> Range(k) = {}
  BY <1>2 DEF IsList, Range
<1>4. QED
  BY <1>1, <1>2, <1>3

\* Induction on a list: what holds of <<>>, and of one more element.
Inductive(Good, S) ==
  /\ Good \subseteq Seq(S) /\ <<>> \in Good
  /\ \A s \in Seq(S), x \in S : s \in Good => Append(s, x) \in Good

LEMMA ListInduction ==
  ASSUME NEW S, NEW Good, Inductive(Good, S)
  PROVE  Good = Seq(S)
<1>0. ASSUME NEW n \in Nat, NEW s \in Seq(S), Len(s) = n + 1
      PROVE  \E p \in Seq(S), x \in S : Len(p) = n /\ s = Append(p, x)
  BY <1>0, LastSplit
<1> DEFINE T == {n \in Nat : \A s \in Seq(S) : Len(s) = n => s \in Good}
<1>1. 0 \in T
  <2>1. \A s \in Seq(S) : Len(s) = 0 => s = <<>>
    OBVIOUS
  <2>2. QED
    BY <2>1 DEF Inductive
<1>2. ASSUME NEW n \in T
      PROVE  n + 1 \in T
  <2>1. SUFFICES ASSUME NEW s \in Seq(S), Len(s) = n + 1 PROVE s \in Good
    OBVIOUS
  <2>2. PICK p \in Seq(S), x \in S : Len(p) = n /\ s = Append(p, x)
    BY <1>0, <2>1
  <2>3. p \in Good
    BY <2>2
  <2>4. QED
    BY <2>2, <2>3 DEF Inductive
<1>3. T = Nat
  <2> HIDE DEF T
  <2>1. T \in SUBSET Nat
    BY DEF T
  <2>2. QED
    BY <1>1, <1>2, <2>1, Induction
<1>4. \A s \in Seq(S) : Len(s) \in Nat
  OBVIOUS
<1>5. QED
  BY <1>3, <1>4 DEF Inductive

LEMMA KeepAll ==
  ASSUME NEW s, IsList(s), NEW V, Range(s) \subseteq V
  PROVE  Keep(s, V) = s
<1> DEFINE S == Range(s)
           Good == {k \in Seq(S) : Keep(k, V) = k}
<1>1. <<>> \in Good
  BY KeepEmpty
<1>2. ASSUME NEW k \in Seq(S), NEW x \in S, k \in Good
      PROVE  Append(k, x) \in Good
  <2>1. PICK u : u = Append(k, x)
    OBVIOUS
  <2>2. Keep(u, V) = Append(Keep(k, V), x)
    BY <2>1, KeepAppend
  <2>3. QED
    BY <1>2, <2>1, <2>2
<1>3. Good = Seq(S)
  <2>1. Good \subseteq Seq(S)
    OBVIOUS
  <2> HIDE DEF Good
  <2>2. Inductive(Good, S)
    BY <1>1, <1>2, <2>1 DEF Inductive
  <2>3. QED
    BY <2>2, ListInduction
<1>4. QED
  BY <1>3 DEF IsList

LEMMA KeepTwice ==
  ASSUME NEW s, IsList(s), NEW V, NEW W
  PROVE  Keep(Keep(s, V), W) = Keep(s, V \cap W)
<1> DEFINE S == Range(s)
           Good == {k \in Seq(S) : Keep(Keep(k, V), W) = Keep(k, V \cap W)}
<1>1. <<>> \in Good
  BY KeepEmpty
<1>2. ASSUME NEW k \in Seq(S), NEW x \in S, k \in Good
      PROVE  Append(k, x) \in Good
  <2>1. PICK u, a : u = Append(k, x) /\ a = Keep(k, V)
    OBVIOUS
  <2>2. a \in Seq(S)
    <3>1. IsList(k) /\ Range(k) \subseteq S
      BY DEF IsList, Range
    <3>2. IsList(a) /\ Range(a) \subseteq S
      BY <2>1, <3>1, KeepIsList
    <3>3. \A P, R : P \subseteq R => \A l \in Seq(P) : l \in Seq(R)
      OBVIOUS
    <3>4. QED
      BY <3>2, <3>3 DEF IsList
  <2>3. Keep(u, V) = IF x \in V THEN Append(a, x) ELSE a
    BY <2>1, KeepAppend
  <2>4. Keep(u, V \cap W) = IF x \in V \cap W THEN Append(Keep(k, V \cap W), x) ELSE Keep(k, V \cap W)
    BY <2>1, KeepAppend
  <2>5. Keep(Append(a, x), W) = IF x \in W THEN Append(Keep(a, W), x) ELSE Keep(a, W)
    BY <2>2, KeepAppend
  <2>6. Keep(a, W) = Keep(k, V \cap W)
    BY <1>2, <2>1
  <2>7. Keep(Keep(u, V), W) = Keep(u, V \cap W)
    <3>1. CASE x \in V /\ x \in W
      BY <2>3, <2>4, <2>5, <2>6, <3>1
    <3>2. CASE x \in V /\ x \notin W
      BY <2>3, <2>4, <2>5, <2>6, <3>2
    <3>3. CASE x \notin V
      BY <2>3, <2>4, <2>6, <3>3
    <3>4. QED
      BY <3>1, <3>2, <3>3
  <2>8. u \in Seq(S)
    BY <2>1
  <2>9. QED
    BY <2>1, <2>7, <2>8
<1>3. Good = Seq(S)
  <2>1. Good \subseteq Seq(S)
    OBVIOUS
  <2> HIDE DEF Good
  <2>2. Inductive(Good, S)
    BY <1>1, <1>2, <2>1 DEF Inductive
  <2>3. QED
    BY <2>2, ListInduction
<1>4. QED
  BY <1>3 DEF IsList

\* Keeping V and keeping W count what keeping both does.
LEMMA KeepApart ==
  ASSUME NEW s, IsList(s), NEW V, NEW W, V \cap W = {}
  PROVE  Len(Keep(s, V \cup W)) = Len(Keep(s, V)) + Len(Keep(s, W))
<1> DEFINE S == Range(s)
           L(k, U) == Len(Keep(k, U))
           Good == {k \in Seq(S) : L(k, V \cup W) = L(k, V) + L(k, W)}
<1>1. <<>> \in Good
  BY KeepEmpty
<1>2. ASSUME NEW k \in Seq(S), NEW x \in S, k \in Good
      PROVE  Append(k, x) \in Good
  <2>1. PICK u : u = Append(k, x)
    OBVIOUS
  <2>2. ASSUME NEW U
        PROVE  L(k, U) \in Nat /\ L(u, U) = IF x \in U THEN L(k, U) + 1 ELSE L(k, U)
    <3>1. PICK a : a = Keep(k, U)
      OBVIOUS
    <3>2. Keep(u, U) = IF x \in U THEN Append(a, x) ELSE a
      BY <2>1, <3>1, KeepAppend
    <3>3. IsList(a)
      <4>1. IsList(k)
        BY DEF IsList, Range
      <4>2. QED
        BY <3>1, <4>1, KeepIsList
    <3>4. Len(a) \in Nat /\ Len(Append(a, x)) = Len(a) + 1
      BY <3>3, AppendIs DEF IsList
    <3>5. QED
      BY <3>1, <3>2, <3>4
  <2>3. u \in Seq(S)
    BY <2>1
  <2> HIDE DEF L
  <2>4. L(k, V \cup W) = L(k, V) + L(k, W)
    BY <1>2
  <2>5. L(u, V \cup W) = L(u, V) + L(u, W)
    BY <2>2, <2>4
  <2>6. QED
    BY <2>1, <2>3, <2>5
<1>3. Good = Seq(S)
  <2>1. Good \subseteq Seq(S)
    OBVIOUS
  <2> HIDE DEF Good
  <2>2. Inductive(Good, S)
    BY <1>1, <1>2, <2>1 DEF Inductive
  <2>3. QED
    BY <2>2, ListInduction
<1>4. QED
  BY <1>3 DEF IsList

LEMMA KeepConcat ==
  ASSUME NEW s, IsList(s), NEW t, IsList(t), NEW V
  PROVE  Len(Keep(s \o t, V)) = Len(Keep(s, V)) + Len(Keep(t, V))
<1> DEFINE S == Range(t)
           L(k) == Len(Keep(k, V))
           Good == {k \in Seq(S) : L(s \o k) = L(s) + L(k)}
<1>0. PICK R : R = Range(s) \cup Range(t)
  OBVIOUS
<1>1. ASSUME NEW k \in Seq(R)
      PROVE  L(k) \in Nat
  <2>1. IsList(k)
    BY DEF IsList, Range
  <2>2. IsList(Keep(k, V))
    BY <2>1, KeepIsList
  <2>3. QED
    BY <2>2, ListIsSeq
<1>2. s \in Seq(R) /\ Seq(S) \subseteq Seq(R)
  <2>1. \A P, Q : P \subseteq Q => \A l \in Seq(P) : l \in Seq(Q)
    OBVIOUS
  <2>2. QED
    BY <1>0, <2>1 DEF IsList
<1>3. <<>> \in Good
  <2>1. s \o <<>> = s
    BY <1>2
  <2>2. L(<<>>) = 0
    BY KeepEmpty
  <2>3. L(s) \in Nat
    BY <1>1, <1>2
  <2> HIDE DEF L
  <2>4. QED
    BY <2>1, <2>2, <2>3
<1>4. ASSUME NEW k \in Seq(S), NEW x \in S, k \in Good
      PROVE  Append(k, x) \in Good
  <2>1. PICK u, a : u = Append(k, x) /\ a = s \o k
    OBVIOUS
  <2>2. a \in Seq(R) /\ k \in Seq(R) /\ s \o u = Append(a, x) /\ u \in Seq(S)
    BY <1>2, <2>1
  <2>3. ASSUME NEW l \in Seq(R)
        PROVE  L(Append(l, x)) = IF x \in V THEN L(l) + 1 ELSE L(l)
    <3>1. PICK b : b = Keep(l, V)
      OBVIOUS
    <3>2. Keep(Append(l, x), V) = IF x \in V THEN Append(b, x) ELSE b
      BY <3>1, KeepAppend
    <3>3. IsList(b)
      <4>1. IsList(l)
        BY DEF IsList, Range
      <4>2. QED
        BY <3>1, <4>1, KeepIsList
    <3>4. Len(Append(b, x)) = Len(b) + 1
      BY <3>3, AppendIs DEF IsList
    <3>5. QED
      BY <3>1, <3>2, <3>4
  <2>4. L(s) \in Nat /\ L(k) \in Nat /\ L(a) \in Nat
    BY <1>1, <1>2, <2>2
  <2> HIDE DEF L
  <2>5. L(a) = L(s) + L(k)
    BY <1>4, <2>1
  <2>6. L(Append(a, x)) = L(s) + L(u)
    <3>1. L(Append(a, x)) = IF x \in V THEN L(a) + 1 ELSE L(a)
      BY <2>2, <2>3
    <3>2. L(u) = IF x \in V THEN L(k) + 1 ELSE L(k)
      BY <2>1, <2>2, <2>3
    <3>3. QED
      BY <2>4, <2>5, <3>1, <3>2
  <2>7. QED
    BY <2>1, <2>2, <2>6
<1>5. Good = Seq(S)
  <2>1. Good \subseteq Seq(S)
    OBVIOUS
  <2> HIDE DEF Good
  <2>2. Inductive(Good, S)
    BY <1>3, <1>4, <2>1 DEF Inductive
  <2>3. QED
    BY <2>2, ListInduction
<1>6. QED
  BY <1>5 DEF IsList

-----------------------------------------------------------------------------
(* Toolbox: one list in another, in its order.                             *)

LEMMA InOrderGrows ==
  ASSUME NEW s, NEW t, IsList(t), NEW x, InOrderIn(s, t)
  PROVE  InOrderIn(s, Append(t, x))
<1>1. PICK at \in [DOMAIN s -> DOMAIN t] :
        \A i, k \in DOMAIN s : s[i] = t[at[i]] /\ (i < k => at[i] < at[k])
  BY DEF InOrderIn
<1>2. PICK u : u = Append(t, x)
  OBVIOUS
<1>3. DOMAIN t \subseteq DOMAIN u /\ \A i \in DOMAIN t : u[i] = t[i]
  BY <1>2, AppendIs DEF IsList
<1>4. at \in [DOMAIN s -> DOMAIN u]
  BY <1>3
<1>5. \A i, k \in DOMAIN s : s[i] = u[at[i]] /\ (i < k => at[i] < at[k])
  BY <1>1, <1>3
<1>6. InOrderIn(s, u)
  BY <1>4, <1>5 DEF InOrderIn
<1>7. QED
  BY <1>2, <1>6

LEMMA InOrderBothGrow ==
  ASSUME NEW s, IsList(s), NEW t, IsList(t), NEW x, InOrderIn(s, t)
  PROVE  InOrderIn(Append(s, x), Append(t, x))
<1>1. PICK at \in [DOMAIN s -> DOMAIN t] :
        \A i, k \in DOMAIN s : s[i] = t[at[i]] /\ (i < k => at[i] < at[k])
  BY DEF InOrderIn
<1>2. PICK u : u = Append(t, x)
  OBVIOUS
<1>3. PICK r : r = Append(s, x)
  OBVIOUS
<1>4. PICK m \in Nat : m = Len(t) /\ DOMAIN t = 1 .. m /\ DOMAIN u = 1 .. m + 1
                       /\ u[m + 1] = x /\ \A i \in 1 .. m : u[i] = t[i]
  BY <1>2, AppendIs DEF IsList
<1>5. PICK n \in Nat : n = Len(s) /\ DOMAIN s = 1 .. n /\ DOMAIN r = 1 .. n + 1
                       /\ r[n + 1] = x /\ \A i \in 1 .. n : r[i] = s[i]
  BY <1>3, AppendIs DEF IsList
<1> DEFINE be == [i \in 1 .. n + 1 |-> IF i = n + 1 THEN m + 1 ELSE at[i]]
<1>6. be \in [DOMAIN r -> DOMAIN u]
  BY <1>4, <1>5
<1>7. ASSUME NEW i \in 1 .. n + 1, NEW k \in 1 .. n + 1
      PROVE  r[i] = u[be[i]] /\ (i < k => be[i] < be[k])
  <2>1. r[i] = u[be[i]]
    <3>1. CASE i = n + 1
      BY <1>4, <1>5, <3>1
    <3>2. CASE i # n + 1
      <4>1. i \in 1 .. n /\ be[i] = at[i]
        BY <3>2
      <4>2. at[i] \in 1 .. m /\ s[i] = t[at[i]]
        BY <1>1, <1>4, <1>5, <4>1
      <4>3. r[i] = s[i] /\ u[at[i]] = t[at[i]]
        BY <1>4, <1>5, <4>1, <4>2
      <4>4. QED
        BY <4>1, <4>2, <4>3
    <3>3. QED
      BY <3>1, <3>2
  <2>2. i < k => be[i] < be[k]
    BY <1>1, <1>4, <1>5
  <2>3. QED
    BY <2>1, <2>2
<1> HIDE DEF be
<1>8. InOrderIn(r, u)
  BY <1>5, <1>6, <1>7 DEF InOrderIn
<1>9. QED
  BY <1>2, <1>3, <1>8

LEMMA AboutsAppend ==
  ASSUME NEW k, IsList(k), NEW n
  PROVE  IsList(Abouts(k)) /\ Abouts(Append(k, n)) = Append(Abouts(k), n.about)
<1>1. Len(k) \in Nat /\ DOMAIN k = 1 .. Len(k)
  BY DEF IsList
<1>2. IsList(Abouts(k)) /\ Len(Abouts(k)) = Len(k)
  BY <1>1 DEF Abouts, IsList, Range
<1>3. Abouts(Append(k, n)) = Append(Abouts(k), n.about)
  <2>1. PICK u : u = Append(k, n)
    OBVIOUS
  <2>2. DOMAIN u = 1 .. Len(k) + 1 /\ u[Len(k) + 1] = n /\ \A i \in 1 .. Len(k) : u[i] = k[i]
    BY <2>1, AppendIs DEF IsList
  <2>3. PICK a : a = Abouts(k)
    OBVIOUS
  <2>4. a \in Seq(Range(a)) /\ Len(a) = Len(k) /\ \A i \in 1 .. Len(k) : a[i] = k[i].about
    BY <1>1, <1>2, <2>3 DEF IsList, Abouts
  <2>5. PICK b : b = Append(a, n.about)
    OBVIOUS
  <2>6. b = [i \in 1 .. Len(k) + 1 |-> IF i = Len(k) + 1 THEN n.about ELSE a[i]]
    BY <1>1, <2>4, <2>5
  <2>7. Abouts(u) = [i \in 1 .. Len(k) + 1 |-> u[i].about]
    BY <2>2 DEF Abouts
  <2>8. \A i \in 1 .. Len(k) + 1 : u[i].about = IF i = Len(k) + 1 THEN n.about ELSE a[i]
    BY <1>1, <2>2, <2>4
  <2>9. Abouts(u) = b
    BY <2>6, <2>7, <2>8
  <2>10. QED
    BY <2>1, <2>3, <2>5, <2>9
<1>4. QED
  BY <1>2, <1>3

-----------------------------------------------------------------------------
(* Toolbox: what a call does.                                              *)

IsWorld(w) ==
  w = [seeds |-> w.seeds, brief |-> w.brief, steps |-> w.steps, files |-> w.files,
       artifacts |-> w.artifacts, queued |-> w.queued, journal |-> w.journal, lost |-> w.lost]

Reports == {"is now", "Wrote"}
ReadOnly(w, X) == \A x \in X : x.world = w /\ x.said \notin Reports

LEMMA OutReadOnly ==
  ASSUME NEW w, NEW said, NEW about, NEW urls
  PROVE  /\ Out(w, said, about, urls).world = w /\ Out(w, said, about, urls).said = said
         /\ said \notin Reports => ReadOnly(w, {Out(w, said, about, urls)})
BY DEF Out, ReadOnly

LEMMA OutIs ==
  ASSUME NEW w, NEW said, NEW about, NEW urls, NEW x, x = Out(w, said, about, urls)
  PROVE  x.world = w /\ x.said = said /\ x.about = about /\ x.urls = urls
BY DEF Out

LEMMA SaysReadOnly ==
  ASSUME NEW w, NEW said, said \notin Reports
  PROVE  ReadOnly(w, Says(w, said))
BY OutReadOnly DEF Says

LEMMA BothReadOnly ==
  ASSUME NEW w, NEW A, NEW B, ReadOnly(w, A), ReadOnly(w, B)
  PROVE  ReadOnly(w, A \cup B)
BY DEF ReadOnly

LEMMA SearchReadOnly ==
  ASSUME NEW w, NEW args
  PROVE  ReadOnly(w, WebSearch(w, args))
<1>1. ReadOnly(w, Says(w, "failed")) /\ ReadOnly(w, Says(w, "rejected"))
  BY SaysReadOnly DEF Reports
<1> DEFINE H(found) == Out(w, IF ProviderSearch(found) = <<>> THEN "failed" ELSE "hits", <<>>,
                           UrlsOf(ProviderSearch(found)))
<1>2. ASSUME NEW found
      PROVE  H(found).world = w /\ H(found).said \notin Reports
  BY DEF Out, Reports
<1> HIDE DEF H
<1>3. ReadOnly(w, {H(found) : found \in Results})
  BY <1>2 DEF ReadOnly
<1>4. ReadOnly(w, Says(w, "failed") \cup {H(found) : found \in Results})
  BY <1>1, <1>3, BothReadOnly
<1>5. ReadOnly(w, SearchBlocking(w))
  BY <1>1, <1>4 DEF SearchBlocking, H
<1>6. QED
  BY <1>1, <1>5 DEF WebSearch

LEMMA PaperReadOnly ==
  ASSUME NEW w, NEW url, NEW pieces, NEW wanted
  PROVE  ReadOnly(w, FormatPaper(w, url, pieces, wanted))
<1>1. \A part, said : said \notin Reports => ReadOnly(w, {Out(w, said, <<part.title>>, {url} \cup LinksIn(part.lines))})
  BY OutReadOnly
<1>2. ReadOnly(w, {Out(w, "no section", <<>>, {url})})
  BY OutReadOnly DEF Reports
<1>3. {"sections", "section", "excerpt"} \cap Reports = {}
  BY DEF Reports
<1>4. QED
  BY <1>1, <1>2, <1>3 DEF FormatPaper

LEMMA FetchReadOnly ==
  ASSUME NEW w, NEW args
  PROVE  ReadOnly(w, FetchUrl(w, args))
<1>1. CASE args.url \notin DOMAIN Pages
  BY <1>1, SaysReadOnly DEF FetchUrl, Reports
<1>2. CASE args.url \in DOMAIN Pages
  <2>1. PICK url, wanted : url = args.url /\ wanted = args.section
    OBVIOUS
  <2>2. PICK page : page = Pages[url]
    OBVIOUS
  <2>3. page.kind \in {"gone", "blank", "html", "pdf", "arxiv"}
    BY <1>2, <2>1, <2>2, ToolboxAssumption
  <2>4. FetchUrl(w, args) = FetchBlocking(w, url, wanted)
    BY <1>2, <2>1 DEF FetchUrl
  <2>5. /\ ReadOnly(w, {Out(w, "failed", <<>>, {url})})
        /\ ReadOnly(w, {Out(w, "page", <<>>, {url} \cup LinksIn(page.lines))})
        /\ ReadOnly(w, {Out(w, "not read", <<>>, {url})})
        /\ ReadOnly(w, {})
    <3>1. ReadOnly(w, {})
      BY DEF ReadOnly
    <3>2. {"failed", "page", "not read"} \cap Reports = {}
      BY DEF Reports
    <3>3. QED
      BY <3>1, <3>2, OutReadOnly
  <2>6. /\ ReadOnly(w, FormatPaper(w, url, TextSections(page.lines), wanted))
        /\ ReadOnly(w, FormatPaper(w, url, HtmlSections(page.lines), wanted))
    BY PaperReadOnly
  <2>7. ReadOnly(w, {Out(w, "not read", <<>>, {url})}
                    \cup FormatPaper(w, url, TextSections(page.lines), wanted))
    BY <2>5, <2>6, BothReadOnly
  <2>8. ReadOnly(w, FetchArxiv(w, url, page.lines, wanted))
    <3>1. ReadOnly(w, IF HtmlSections(page.lines) = <<>> THEN {}
                      ELSE FormatPaper(w, url, HtmlSections(page.lines), wanted))
      BY <2>5, <2>6
    <3>2. QED
      BY <2>7, <3>1, BothReadOnly DEF FetchArxiv
  <2>9. ReadOnly(w, FetchBlocking(w, url, wanted))
    BY <2>2, <2>3, <2>5, <2>7, <2>8 DEF FetchBlocking
  <2>10. QED
    BY <2>4, <2>9
<1>3. QED
  BY <1>1, <1>2

LEMMA EdgarReadOnly ==
  ASSUME NEW w, NEW args
  PROVE  ReadOnly(w, Edgar(w, args))
<1>1. ReadOnly(w, Says(w, "failed")) /\ ReadOnly(w, Says(w, "rejected"))
  BY SaysReadOnly DEF Reports
<1>2. \A forms : ReadOnly(w, {Out(w, IF forms = <<>> THEN "nothing found" ELSE "filings", <<>>, UrlsOf(forms))})
  BY OutReadOnly DEF Reports
<1>3. \A forms : ReadOnly(w, Says(w, "failed")
        \cup {Out(w, IF forms = <<>> THEN "nothing found" ELSE "filings", <<>>, UrlsOf(forms))})
  BY <1>1, <1>2, BothReadOnly
<1>4. QED
  BY <1>1, <1>3 DEF Edgar

LEMMA ReadFileReadOnly ==
  ASSUME NEW w, NEW args
  PROVE  ReadOnly(w, ReadFile(w, args))
<1>1. /\ ReadOnly(w, Says(w, "rejected")) /\ ReadOnly(w, Says(w, "refused"))
      /\ ReadOnly(w, Says(w, "is an upload"))
  BY SaysReadOnly DEF Reports
<1> DEFINE T(f) == Out(w, "text", args.path, f.text)
<1>2. ASSUME NEW f
      PROVE  T(f).world = w /\ T(f).said \notin Reports
  BY DEF Out, Reports
<1> HIDE DEF T
<1>3. ReadOnly(w, {T(f) : f \in Draft(w, args.path)})
  BY <1>2 DEF ReadOnly
<1>4. ReadOnly(w, ReadBlocking(w, args.path))
  BY <1>1, <1>3 DEF ReadBlocking, T
<1>5. QED
  BY <1>1, <1>4 DEF ReadFile

LEMMA DelegateReadOnly ==
  ASSUME NEW w, NEW args
  PROVE  ReadOnly(w, Delegate(w, args))
<1>1. ReadOnly(w, Says(w, "rejected")) /\ ReadOnly(w, Says(w, "no coworker"))
  BY SaysReadOnly DEF Reports
<1> DEFINE T(urls) == Out(w, "handed off", <<FindCoworker(args.coworker)[1].id>>, urls)
<1>2. ASSUME NEW urls
      PROVE  T(urls).world = w /\ T(urls).said \notin Reports
  BY DEF Out, Reports
<1> HIDE DEF T
<1>3. ReadOnly(w, {T(urls) : urls \in AnyLinks})
  BY <1>2 DEF ReadOnly
<1>4. QED
  BY <1>1, <1>3 DEF Delegate, T

\* A call of the graph queues something at most.
LEMMA KgIs ==
  ASSUME NEW w, IsWorld(w), NEW args, NEW x \in Kg(w, args)
  PROVE  /\ x.said \notin Reports /\ IsWorld(x.world)
         /\ x.world.seeds = w.seeds /\ x.world.brief = w.brief /\ x.world.journal = w.journal
         /\ x.world.artifacts = w.artifacts /\ x.world.lost = w.lost /\ x.world.steps = w.steps
<1>1. ReadOnly(w, KgReadFile(w, args.title))
  <2> DEFINE T(m) == Out(w, IF NamedSeeds(m.seeds, args.title) = <<>> THEN "no upload"
                            ELSE IF NamedSeeds(m.seeds, args.title)[1].text THEN "material" ELSE "no text",
                         <<args.title>>, m.urls)
  <2>1. ASSUME NEW m
        PROVE  T(m).world = w /\ T(m).said \notin Reports
    BY DEF Out, Reports
  <2> HIDE DEF T
  <2>2. ReadOnly(w, {T(m) : m \in Readable(w)})
    BY <2>1 DEF ReadOnly
  <2>3. ReadOnly(w, Says(w, "rejected"))
    BY SaysReadOnly DEF Reports
  <2>4. args.title # "" =>
          KgReadFile(w, args.title) = {T(m) : m \in Readable(w)}
    BY DEF KgReadFile, T
  <2>5. args.title = "" => KgReadFile(w, args.title) = Says(w, "rejected")
    BY DEF KgReadFile
  <2>6. QED
    BY <2>2, <2>3, <2>4, <2>5
<1>2. ReadOnly(w, KgQuery(w))
  <2> DEFINE U(files) == [i \in DOMAIN files |-> files[i].id]
             T(m) == Out(w, "graph", U(UploadedFiles(m.seeds)), m.urls)
  <2>1. ASSUME NEW m
        PROVE  T(m).world = w /\ T(m).said \notin Reports
    BY DEF Out, Reports
  <2> HIDE DEF T
  <2>2. ReadOnly(w, {T(m) : m \in Readable(w)})
    BY <2>1 DEF ReadOnly
  <2>3. ReadOnly(w, Says(w, "not reachable"))
    BY SaysReadOnly DEF Reports
  <2>4. PICK X : X = {T(m) : m \in Readable(w)}
    OBVIOUS
  <2>5. KgQuery(w) = Says(w, "not reachable") \cup X
    BY <2>4 DEF KgQuery, T
  <2>6. ReadOnly(w, X)
    BY <2>2, <2>4
  <2>7. PICK Y : Y = Says(w, "not reachable")
    OBVIOUS
  <2>8. ReadOnly(w, Y \cup X)
    BY <2>3, <2>6, <2>7, BothReadOnly
  <2>9. QED
    BY <2>5, <2>7, <2>8
<1>3. CASE x.world = w /\ x.said \notin Reports
  BY <1>3
<1>4. CASE x \in KgWrite(w, args.title)
  <2>1. \/ x = Out(w, "rejected", <<>>, {}) \/ x = Out(w, "not reachable", <<>>, {})
        \/ x = Out([w EXCEPT !.queued = Append(w.queued, args.title)], "Queued", <<>>, {})
    BY <1>4 DEF KgWrite, Says
  <2>2. PICK q : q = Append(w.queued, args.title)
    OBVIOUS
  <2>3. {"rejected", "not reachable", "Queued"} \cap Reports = {}
    BY DEF Reports
  <2>4. CASE x = Out(w, "rejected", <<>>, {}) \/ x = Out(w, "not reachable", <<>>, {})
    <3>1. x.world = w /\ x.said \in {"rejected", "not reachable"}
      <4>1. CASE x = Out(w, "rejected", <<>>, {})
        BY <4>1 DEF Out
      <4>2. CASE x = Out(w, "not reachable", <<>>, {})
        BY <4>2 DEF Out
      <4>3. QED
        BY <2>4, <4>1, <4>2
    <3>2. QED
      BY <1>3, <2>3, <3>1
  <2>5. CASE x = Out([w EXCEPT !.queued = q], "Queued", <<>>, {})
    <3>1. x.world = [w EXCEPT !.queued = q] /\ x.said = "Queued"
      BY <2>5, OutIs
    <3>2. QED
      BY <2>3, <3>1 DEF IsWorld
  <2>6. QED
    BY <2>1, <2>2, <2>4, <2>5
<1>5. QED
  BY <1>1, <1>2, <1>3, <1>4 DEF Kg, ReadOnly

\* What a call leaves of the world, and what it reports of it.
Entry(kind, about) == [kind |-> kind, about |-> about]
StoredBy(w, call, r) ==
  \/ r \in w.artifacts
  \/ r.kind # "report"
  \/ Tool(call) = "write_report" /\ r.body = call.args.body /\ r.after = Len(notes)
     /\ ~ReportError(r.body, sources)
Kept(w, v) ==
  /\ IsWorld(v) /\ v.seeds = w.seeds /\ v.brief = w.brief
  /\ v.lost \in {w.lost, TRUE}
\* A step changes as the journal has it, or becomes active.
StepMoves(w, v, i, s) ==
  /\ v.journal = Append(w.journal, Entry("step", <<i, s>>))
  /\ DOMAIN v.steps = DOMAIN w.steps
  /\ \A k \in DOMAIN w.steps : v.steps[k] \in {w.steps[k], "active"} \/ (k = i /\ v.steps[k] = s)
Moves(w, v) == v.steps = w.steps \/ \E i, s : StepMoves(w, v, i, s)
Told(w, call, x) ==
  \/ x.world.journal = w.journal /\ x.said \notin Reports
  \/ Tool(call) = "advance" /\ x.said = "is now"
     /\ x.world.journal = Append(w.journal, Entry("step", x.about))
  \/ Tool(call) = "advance" /\ x.said \notin Reports /\ x.world.lost = TRUE
     /\ \E a : x.world.journal = Append(w.journal, Entry("step", a))
  \/ Tool(call) = "write_file" /\ x.said = "Wrote"
     /\ x.world.journal = Append(w.journal, Entry("file", x.about))
Does(w, call, x) ==
  /\ Kept(w, x.world) /\ Told(w, call, x) /\ Moves(w, x.world)
  /\ \A r \in x.world.artifacts : StoredBy(w, call, r)

LEMMA ReadOnlyDoes ==
  ASSUME NEW w, IsWorld(w), NEW call, NEW x, x.world = w, x.said \notin Reports
  PROVE  Does(w, call, x)
BY DEF Does, Kept, Told, StoredBy, Moves

LEMMA StoreDoes ==
  ASSUME NEW w, IsWorld(w), NEW item, NEW x \in StoreArtifact(w, item)
  PROVE  /\ Kept(w, x.world) /\ x.world.journal = w.journal /\ x.said \notin Reports
         /\ x.world.steps = w.steps
         /\ x.world.artifacts \subseteq w.artifacts \cup {item}
<1>1. PICK arts : arts = {y \in w.artifacts : y.name # item.name} \cup {item}
  OBVIOUS
<1>2. Stored(w, item) = [w EXCEPT !.artifacts = arts] /\ arts \subseteq w.artifacts \cup {item}
  BY <1>1 DEF Stored
<1>3. PICK st, lo : st = Stored(w, item) /\ lo = LosesAnswer(Stored(w, item))
  OBVIOUS
<1>4. \/ x = Out(st, "Stored", <<item.name>>, {}) \/ x = Out(w, "was not stored", <<>>, {})
      \/ x = Out(lo, "was not stored", <<>>, {})
  BY <1>3 DEF StoreArtifact
<1>5. x.world \in {w, Stored(w, item), LosesAnswer(Stored(w, item))} /\ x.said \notin Reports
  <2>1. {"Stored", "was not stored"} \cap Reports = {}
    BY DEF Reports
  <2>2. x.world \in {w, st, lo} /\ x.said \in {"Stored", "was not stored"}
    <3>1. CASE x = Out(st, "Stored", <<item.name>>, {})
      BY <3>1 DEF Out
    <3>2. CASE x = Out(w, "was not stored", <<>>, {})
      BY <3>2 DEF Out
    <3>3. CASE x = Out(lo, "was not stored", <<>>, {})
      BY <3>3 DEF Out
    <3>4. QED
      BY <1>4, <3>1, <3>2, <3>3
  <2>3. QED
    BY <1>3, <2>1, <2>2
<1>6. ASSUME NEW v, v \in {w, [w EXCEPT !.artifacts = arts]}
      PROVE  /\ IsWorld(v) /\ v.seeds = w.seeds /\ v.brief = w.brief /\ v.journal = w.journal
             /\ v.lost = w.lost /\ v.artifacts \in {w.artifacts, arts} /\ v.steps = w.steps
  BY <1>6 DEF IsWorld
<1>7. ASSUME NEW v, IsWorld(v), NEW u, u = LosesAnswer(v)
      PROVE  /\ IsWorld(u) /\ u.seeds = v.seeds /\ u.brief = v.brief /\ u.journal = v.journal
             /\ u.lost = TRUE /\ u.artifacts = v.artifacts /\ u.steps = v.steps
  BY <1>7 DEF IsWorld, LosesAnswer
<1>8. Kept(w, x.world) /\ x.world.journal = w.journal /\ x.world.steps = w.steps
      /\ x.world.artifacts \in {w.artifacts, arts}
  <2>1. CASE x.world \in {w, [w EXCEPT !.artifacts = arts]}
    BY <1>6, <2>1 DEF Kept
  <2>2. CASE x.world = LosesAnswer([w EXCEPT !.artifacts = arts])
    <3>1. PICK v : v = [w EXCEPT !.artifacts = arts]
      OBVIOUS
    <3>2. /\ IsWorld(v) /\ v.seeds = w.seeds /\ v.brief = w.brief /\ v.journal = w.journal
          /\ v.lost = w.lost /\ v.artifacts \in {w.artifacts, arts} /\ v.steps = w.steps
      BY <1>6, <3>1
    <3>3. PICK u : u = x.world
      OBVIOUS
    <3>4. /\ IsWorld(u) /\ u.seeds = v.seeds /\ u.brief = v.brief /\ u.journal = v.journal
          /\ u.lost = TRUE /\ u.artifacts = v.artifacts /\ u.steps = v.steps
      <4>1. u = LosesAnswer(v)
        BY <2>2, <3>1, <3>3
      <4>2. QED
        BY <1>7, <3>2, <4>1
    <3>5. QED
      BY <3>2, <3>3, <3>4 DEF Kept
  <2>3. QED
    BY <1>2, <1>5, <2>1, <2>2
<1>9. QED
  BY <1>2, <1>5, <1>8

LEMMA StepApplied ==
  ASSUME NEW steps, NEW idx, NEW state, NEW next, next = ApplyStep(steps, idx, state)
  PROVE  /\ DOMAIN next = DOMAIN steps
         /\ \A k \in DOMAIN steps :
              next[k] \in {steps[k], "active"} \/ (k = idx /\ next[k] = state)
<1>1. PICK set : set = [steps EXCEPT ![idx] = state]
  OBVIOUS
<1>2. DOMAIN set = DOMAIN steps /\ \A k \in DOMAIN steps : set[k] = IF k = idx THEN state ELSE steps[k]
  BY <1>1
<1>3. next = set \/ \E p : next = [set EXCEPT ![p] = "active"]
  BY <1>1 DEF ApplyStep
<1>4. CASE next = set
  BY <1>2, <1>4
<1>5. ASSUME NEW p, next = [set EXCEPT ![p] = "active"]
      PROVE  /\ DOMAIN next = DOMAIN set
             /\ \A k \in DOMAIN set : next[k] = set[k] \/ next[k] = "active"
  BY <1>5
<1>6. QED
  BY <1>2, <1>3, <1>4, <1>5

LEMMA PlanDoes ==
  ASSUME NEW w, IsWorld(w), NEW call, Tool(call) = "advance", NEW x \in Plan(w, call.args)
  PROVE  Does(w, call, x)
<1>0. PICK idx, state : idx = MatchStep(call.args.label) /\ state = call.args.state
  OBVIOUS
<1>1. PICK a : a = <<idx, state>>
  OBVIOUS
<1>2. PICK v : v = Moved(w, idx, state)
  OBVIOUS
<1>3. PICK j : j = Append(w.journal, Entry("step", a))
  OBVIOUS
<1>4. PICK st : st = ApplyStep(w.steps, idx, state)
  OBVIOUS
<1>5. v = [w EXCEPT !.steps = st, !.journal = j]
  BY <1>1, <1>2, <1>3, <1>4 DEF Moved, Entry
<1>6. /\ IsWorld(v) /\ v.seeds = w.seeds /\ v.brief = w.brief /\ v.journal = j
      /\ v.lost = w.lost /\ v.artifacts = w.artifacts /\ v.steps = st
  BY <1>5 DEF IsWorld
<1>7. PICK u : u = LosesAnswer(v)
  OBVIOUS
<1>8. /\ IsWorld(u) /\ u.seeds = w.seeds /\ u.brief = w.brief /\ u.journal = j
      /\ u.lost = TRUE /\ u.artifacts = w.artifacts /\ u.steps = st
  BY <1>6, <1>7 DEF IsWorld, LosesAnswer
<1>16. Moves(w, v) /\ Moves(w, u)
  <2>1. /\ DOMAIN st = DOMAIN w.steps
        /\ \A k \in DOMAIN w.steps : st[k] \in {w.steps[k], "active"} \/ (k = idx /\ st[k] = state)
    BY <1>4, StepApplied
  <2>2. j = Append(w.journal, Entry("step", <<idx, state>>))
    BY <1>1, <1>3
  <2>3. ASSUME NEW y, y.journal = j, y.steps = st
        PROVE  Moves(w, y)
    <3>1. StepMoves(w, y, idx, state)
      BY <2>1, <2>2, <2>3 DEF StepMoves
    <3>2. QED
      BY <3>1 DEF Moves
  <2>4. QED
    BY <1>6, <1>8, <2>3
<1>9. \/ x = Out(w, "rejected", <<>>, {}) \/ x = Out(w, "was not applied", <<>>, {})
      \/ x = Out(v, "is now", a, {}) \/ x = Out(u, "was not applied", <<>>, {})
  <2>1. x \in Says(w, "rejected") \/ x \in UpdateStep(w, idx, state)
    BY <1>0 DEF Plan
  <2>2. CASE x \in Says(w, "rejected")
    BY <2>2 DEF Says
  <2>3. CASE x \in UpdateStep(w, idx, state)
    BY <1>1, <1>2, <1>7, <2>3 DEF UpdateStep
  <2>4. QED
    BY <2>1, <2>2, <2>3
<1>10. {"rejected", "was not applied"} \cap Reports = {}
  BY DEF Reports
<1>11. \/ x.world = w /\ x.said \notin Reports
       \/ x.world = v /\ x.said = "is now" /\ x.about = a
       \/ x.world = u /\ x.said \notin Reports
  <2>1. \/ x.world = w /\ x.said \in {"rejected", "was not applied"}
        \/ x.world = v /\ x.said = "is now" /\ x.about = a
        \/ x.world = u /\ x.said = "was not applied"
    <3>1. CASE x = Out(w, "rejected", <<>>, {})
      BY <3>1 DEF Out
    <3>2. CASE x = Out(w, "was not applied", <<>>, {})
      BY <3>2 DEF Out
    <3>3. CASE x = Out(v, "is now", a, {})
      BY <3>3 DEF Out
    <3>4. CASE x = Out(u, "was not applied", <<>>, {})
      BY <3>4 DEF Out
    <3>5. QED
      BY <1>9, <3>1, <3>2, <3>3, <3>4
  <2>2. QED
    BY <1>10, <2>1
<1>12. CASE x.world = w /\ x.said \notin Reports
  BY <1>12, ReadOnlyDoes
<1>13. CASE x.world = v /\ x.said = "is now" /\ x.about = a
  <2>1. Kept(w, v) /\ \A r \in v.artifacts : StoredBy(w, call, r)
    BY <1>6 DEF Kept, StoredBy
  <2>2. Told(w, call, x)
    BY <1>3, <1>6, <1>13 DEF Told
  <2>3. QED
    BY <1>13, <1>16, <2>1, <2>2 DEF Does
<1>14. CASE x.world = u /\ x.said \notin Reports
  <2>1. Kept(w, u) /\ \A r \in u.artifacts : StoredBy(w, call, r)
    BY <1>8 DEF Kept, StoredBy
  <2>2. Told(w, call, x)
    BY <1>3, <1>8, <1>14 DEF Told
  <2>3. QED
    BY <1>14, <1>16, <2>1, <2>2 DEF Does
<1>15. QED
  BY <1>11, <1>12, <1>13, <1>14

LEMMA WriteFileDoes ==
  ASSUME NEW w, IsWorld(w), NEW call, Tool(call) = "write_file", NEW x \in WriteFile(w, call.args)
  PROVE  Does(w, call, x)
<1>1. PICK path, text : path = call.args.path /\ text = call.args.text
  OBVIOUS
<1>2. PICK v : v = Wrote(w, path, text)
  OBVIOUS
<1>3. PICK j : j = Append(w.journal, Entry("file", path))
  OBVIOUS
<1>4. PICK fs : fs = (w.files \ Draft(w, path)) \cup {[path |-> path, text |-> text]}
  OBVIOUS
<1>5. v = [w EXCEPT !.files = fs, !.journal = j]
  BY <1>2, <1>3, <1>4 DEF Wrote, Entry
<1>6. /\ IsWorld(v) /\ v.seeds = w.seeds /\ v.brief = w.brief /\ v.journal = j
      /\ v.lost = w.lost /\ v.artifacts = w.artifacts /\ v.steps = w.steps
  BY <1>5 DEF IsWorld
<1>7. \A y, said, b : LET o == Out(y, said, b, {}) IN o.world = y /\ o.said = said /\ o.about = b
  BY DEF Out
<1>8. {"rejected", "refused"} \cap Reports = {}
  BY DEF Reports
<1>9. CASE path = <<>> \/ ~WorkPath(path)
  <2>1. x.world = w /\ x.said \notin Reports
    BY <1>1, <1>7, <1>8, <1>9 DEF WriteFile, Says
  <2>2. QED
    BY <2>1, ReadOnlyDoes
<1>10. PICK item : item = [name |-> Last(path), kind |-> "file", body |-> <<>>, after |-> 0]
  OBVIOUS
<1>11. CASE ~(path = <<>> \/ ~WorkPath(path))
  <2>1. PICK u : /\ x = Out(u, "Wrote", path, {})
                 /\ u = v \/ \E y \in StoreArtifact(v, item) : u = y.world
    <3>1. CASE Last(path) = ".h"
      BY <1>1, <1>2, <1>11, <3>1 DEF WriteFile
    <3>2. CASE Last(path) # ".h"
      <4> DEFINE T(y) == Out(y.world, "Wrote", path, {})
      <4>1. x \in {T(y) : y \in StoreArtifact(v, item)}
        BY <1>1, <1>2, <1>10, <1>11, <3>2 DEF WriteFile
      <4>2. PICK y \in StoreArtifact(v, item) : x = T(y)
        BY <4>1
      <4>3. QED
        BY <4>2
    <3>3. QED
      BY <3>1, <3>2
  <2>2. x.world = u /\ x.said = "Wrote" /\ x.about = path
    BY <1>7, <2>1
  <2>3. Kept(v, u) /\ u.journal = v.journal /\ u.steps = v.steps /\ u.artifacts \subseteq v.artifacts \cup {item}
    <3>1. CASE u = v
      BY <1>6, <3>1 DEF Kept
    <3>2. CASE \E y \in StoreArtifact(v, item) : u = y.world
      BY <1>6, <3>2, StoreDoes
    <3>3. QED
      BY <2>1, <3>1, <3>2
  <2>4. Kept(w, u)
    BY <1>6, <2>3 DEF Kept
  <2>5. Told(w, call, x)
    BY <1>3, <1>6, <2>2, <2>3 DEF Told
  <2>6. item.kind # "report"
    BY <1>10
  <2>7. \A r \in u.artifacts : StoredBy(w, call, r)
    BY <1>6, <2>3, <2>6 DEF StoredBy
  <2>8. Moves(w, u)
    BY <1>6, <2>3 DEF Moves
  <2>9. QED
    BY <2>2, <2>4, <2>5, <2>7, <2>8 DEF Does
<1>12. QED
  BY <1>9, <1>11

LEMMA WriteReportDoes ==
  ASSUME NEW w, IsWorld(w), NEW call, Tool(call) = "write_report", NEW x \in WriteReport(w, call.args)
  PROVE  Does(w, call, x)
<1>1. CASE ReportError(call.args.body, sources)
  <2>1. x.world = w /\ x.said \notin Reports
    BY <1>1, SaysReadOnly DEF WriteReport, ReadOnly, Reports
  <2>2. QED
    BY <2>1, ReadOnlyDoes
<1>2. CASE ~ReportError(call.args.body, sources)
  <2>1. PICK item : item = [name |-> call.args.file, kind |-> "report", body |-> call.args.body,
                            after |-> Len(notes)]
    OBVIOUS
  <2>2. x \in StoreArtifact(w, item)
    BY <1>2, <2>1 DEF WriteReport
  <2>3. /\ Kept(w, x.world) /\ x.world.journal = w.journal /\ x.said \notin Reports /\ x.world.steps = w.steps
        /\ x.world.artifacts \subseteq w.artifacts \cup {item}
    BY <2>2, StoreDoes
  <2>4. StoredBy(w, call, item)
    BY <1>2, <2>1 DEF StoredBy
  <2>5. \A r \in x.world.artifacts : StoredBy(w, call, r)
    BY <2>3, <2>4 DEF StoredBy
  <2>6. QED
    BY <2>3, <2>5 DEF Does, Told, Moves
<1>3. QED
  BY <1>1, <1>2

LEMMA WriteDeckDoes ==
  ASSUME NEW w, IsWorld(w), NEW call, NEW x \in WriteDeck(w, call.args)
  PROVE  Does(w, call, x)
<1>1. CASE ~Slides(call.args.slides)
  <2>1. x.world = w /\ x.said \notin Reports
    BY <1>1, SaysReadOnly DEF WriteDeck, ReadOnly, Reports
  <2>2. QED
    BY <2>1, ReadOnlyDoes
<1>2. CASE Slides(call.args.slides)
  <2>1. PICK item : item = [name |-> call.args.file, kind |-> "deck", body |-> <<>>, after |-> Len(notes)]
    OBVIOUS
  <2>2. x \in StoreArtifact(w, item)
    BY <1>2, <2>1 DEF WriteDeck
  <2>3. /\ Kept(w, x.world) /\ x.world.journal = w.journal /\ x.said \notin Reports /\ x.world.steps = w.steps
        /\ x.world.artifacts \subseteq w.artifacts \cup {item}
    BY <2>2, StoreDoes
  <2>4. item.kind # "report"
    BY <2>1
  <2>5. \A r \in x.world.artifacts : StoredBy(w, call, r)
    BY <2>3, <2>4 DEF StoredBy
  <2>6. QED
    BY <2>3, <2>5 DEF Does, Told, Moves
<1>3. QED
  BY <1>1, <1>2

LEMMA RunDoes ==
  ASSUME NEW w, IsWorld(w), NEW call, NEW x \in Run(w, call)
  PROVE  Does(w, call, x)
<1>1. PICK tool : tool = Tool(call)
  OBVIOUS
<1>2. PICK args : args = call.args
  OBVIOUS
<1>3. /\ ReadOnly(w, Says(w, "no such tool")) /\ ReadOnly(w, Says(w, "failed"))
      /\ ReadOnly(w, SaysLinks(w, "text"))
  <2> DEFINE T(urls) == Out(w, "text", <<>>, urls)
  <2>1. ASSUME NEW urls
        PROVE  T(urls).world = w /\ T(urls).said \notin Reports
    BY DEF Out, Reports
  <2> HIDE DEF T
  <2>2. ReadOnly(w, {T(urls) : urls \in AnyLinks})
    BY <2>1 DEF ReadOnly
  <2>3. ReadOnly(w, SaysLinks(w, "text"))
    BY <2>2 DEF SaysLinks, T
  <2>4. QED
    BY <2>3, SaysReadOnly DEF Reports
<1>4. \/ x \in Says(w, "no such tool")
      \/ x \in WebSearch(w, args)
      \/ x \in FetchUrl(w, args)
      \/ x \in Edgar(w, args)
      \/ tool = "write_file" /\ x \in WriteFile(w, args) \cup Says(w, "failed")
      \/ x \in ReadFile(w, args)
      \/ x \in Kg(w, args)
      \/ tool = "advance" /\ x \in Plan(w, args)
      \/ tool = "write_report" /\ x \in WriteReport(w, args)
      \/ x \in WriteDeck(w, args)
      \/ x \in Delegate(w, args)
      \/ x \in SaysLinks(w, "text")
  BY <1>1, <1>2 DEF Run
<1>5. CASE x.world = w /\ x.said \notin Reports
  BY <1>5, ReadOnlyDoes
<1>6. CASE x \in Kg(w, args)
  <2>1. /\ x.said \notin Reports /\ IsWorld(x.world)
        /\ x.world.seeds = w.seeds /\ x.world.brief = w.brief /\ x.world.journal = w.journal
        /\ x.world.artifacts = w.artifacts /\ x.world.lost = w.lost /\ x.world.steps = w.steps
    BY <1>6, KgIs
  <2>2. QED
    BY <2>1 DEF Does, Kept, Told, StoredBy, Moves
<1>7. QED
  BY <1>1, <1>2, <1>3, <1>4, <1>5, <1>6, SearchReadOnly, FetchReadOnly, EdgarReadOnly, ReadFileReadOnly,
     DelegateReadOnly, PlanDoes, WriteFileDoes, WriteReportDoes, WriteDeckDoes DEF ReadOnly

-----------------------------------------------------------------------------
(* Toolbox: what the lead is told happened did.                            *)

Reported(s, name, said) == Abouts(Keep(s, {n \in Range(s) : n.name = name /\ n.said = said}))
Recorded(j, kind) == Abouts(Keep(j, {e \in Range(j) : e.kind = kind}))

LEMMA ReportedAppend ==
  ASSUME NEW s, IsList(s), NEW x, NEW name, NEW said
  PROVE  /\ IsList(Reported(s, name, said))
         /\ Reported(Append(s, x), name, said) =
              IF x.name = name /\ x.said = said THEN Append(Reported(s, name, said), x.about)
              ELSE Reported(s, name, said)
<1>1. PICK t : t = Append(s, x)
  OBVIOUS
<1> DEFINE V == {n \in Range(t) : n.name = name /\ n.said = said}
           W == {n \in Range(s) : n.name = name /\ n.said = said}
<1>2. Range(t) = Range(s) \cup {x}
  BY <1>1, ListAppend
<1>3. V \cap Range(s) = W \cap Range(s)
  BY <1>2
<1>4. x \in V <=> (x.name = name /\ x.said = said)
  BY <1>2
<1>5. /\ x \in V => Keep(Append(s, x), V) = Append(Keep(s, W), x)
      /\ x \notin V => Keep(Append(s, x), V) = Keep(s, W)
  <2> HIDE DEF V, W
  <2>1. QED
    BY <1>3, TestAppend
<1>6. IsList(Keep(s, W))
  <2> HIDE DEF W
  <2>1. QED
    BY KeepIsList
<1>7. /\ IsList(Abouts(Keep(s, W)))
      /\ Abouts(Append(Keep(s, W), x)) = Append(Abouts(Keep(s, W)), x.about)
  <2> HIDE DEF W
  <2>1. QED
    BY <1>6, AboutsAppend
<1>8. Reported(t, name, said) = Abouts(Keep(t, V)) /\ Reported(s, name, said) = Abouts(Keep(s, W))
  BY DEF Reported
<1> HIDE DEF V, W
<1>9. QED
  BY <1>1, <1>4, <1>5, <1>7, <1>8

LEMMA RecordedAppend ==
  ASSUME NEW s, IsList(s), NEW x, NEW kind
  PROVE  /\ IsList(Recorded(s, kind))
         /\ Recorded(Append(s, x), kind) =
              IF x.kind = kind THEN Append(Recorded(s, kind), x.about) ELSE Recorded(s, kind)
<1>1. PICK t : t = Append(s, x)
  OBVIOUS
<1> DEFINE V == {n \in Range(t) : n.kind = kind}
           W == {n \in Range(s) : n.kind = kind}
<1>2. Range(t) = Range(s) \cup {x}
  BY <1>1, ListAppend
<1>3. V \cap Range(s) = W \cap Range(s)
  BY <1>2
<1>4. x \in V <=> x.kind = kind
  BY <1>2
<1>5. /\ x \in V => Keep(Append(s, x), V) = Append(Keep(s, W), x)
      /\ x \notin V => Keep(Append(s, x), V) = Keep(s, W)
  <2> HIDE DEF V, W
  <2>1. QED
    BY <1>3, TestAppend
<1>6. IsList(Keep(s, W))
  <2> HIDE DEF W
  <2>1. QED
    BY KeepIsList
<1>7. /\ IsList(Abouts(Keep(s, W)))
      /\ Abouts(Append(Keep(s, W), x)) = Append(Abouts(Keep(s, W)), x.about)
  <2> HIDE DEF W
  <2>1. QED
    BY <1>6, AboutsAppend
<1>8. Recorded(t, kind) = Abouts(Keep(t, V)) /\ Recorded(s, kind) = Abouts(Keep(s, W))
  BY DEF Recorded
<1> HIDE DEF V, W
<1>9. QED
  BY <1>1, <1>4, <1>5, <1>7, <1>8

\* The notes that report something and the journal of it, as both grow: D and
\* H become E and J.
Follows(D, H) == IsList(D) /\ IsList(H) /\ InOrderIn(D, H)

LEMMA FollowsGrow ==
  ASSUME NEW D, NEW H, NEW E, NEW J, Follows(D, H),
         \/ E = D /\ J = H
         \/ \E a : E = Append(D, a) /\ J = Append(H, a)
         \/ E = D /\ (\E a : J = Append(H, a))
  PROVE  Follows(E, J)
<1>1. CASE E = D /\ J = H
  BY <1>1 DEF Follows
<1>2. ASSUME NEW a, E = Append(D, a), J = Append(H, a)
      PROVE  Follows(E, J)
  <2>1. InOrderIn(E, J)
    BY <1>2, InOrderBothGrow DEF Follows
  <2>2. IsList(E) /\ IsList(J)
    BY <1>2, ListAppend DEF Follows
  <2>3. QED
    BY <1>2, <2>1, <2>2 DEF Follows
<1>3. ASSUME NEW a, E = D, J = Append(H, a)
      PROVE  Follows(E, J)
  <2>1. InOrderIn(E, J)
    BY <1>3, InOrderGrows DEF Follows
  <2>2. IsList(E) /\ IsList(J)
    BY <1>3, ListAppend DEF Follows
  <2>3. QED
    BY <1>3, <2>1, <2>2 DEF Follows
<1>4. QED
  BY <1>1, <1>2, <1>3

ByName(ns) == \A n \in Range(ns) : n.name \notin DOMAIN Aliases
Faithful(w, ns) == w.lost = FALSE /\ ByName(ns)

Tells(w, ns, name, said, kind) ==
  /\ Follows(Reported(ns, name, said), Recorded(w.journal, kind))
  /\ Faithful(w, ns) => Reported(ns, name, said) = Recorded(w.journal, kind)

\* A step that is neither as the plan began it nor active is as the journal
\* has it.
PlanTold(w) ==
  /\ DOMAIN w.steps = DOMAIN Steps
  /\ \A i \in DOMAIN Steps :
       w.steps[i] \in {NewPlan[i], "active"} \/ <<i, w.steps[i]>> \in Range(Recorded(w.journal, "step"))

LEMMA PlanStaysTold ==
  ASSUME NEW w, IsList(w.journal), PlanTold(w), NEW call, NEW x, Does(w, call, x)
  PROVE  PlanTold(x.world)
<1>1. PICK v : v = x.world
  OBVIOUS
<1>2. PICK H, J : H = Recorded(w.journal, "step") /\ J = Recorded(v.journal, "step")
  OBVIOUS
<1>3. ASSUME NEW e, v.journal = Append(w.journal, e)
      PROVE  Range(J) = IF e.kind = "step" THEN Range(H) \cup {e.about} ELSE Range(H)
  <2>1. IsList(Recorded(w.journal, "step"))
        /\ Recorded(Append(w.journal, e), "step") =
             IF e.kind = "step" THEN Append(Recorded(w.journal, "step"), e.about)
             ELSE Recorded(w.journal, "step")
    BY RecordedAppend
  <2>2. IsList(H) /\ J = IF e.kind = "step" THEN Append(H, e.about) ELSE H
    BY <1>2, <1>3, <2>1
  <2>3. QED
    BY <2>2, ListAppend
<1>4. Range(H) \subseteq Range(J)
  <2>1. v.journal = w.journal \/ \E e : v.journal = Append(w.journal, e)
    BY <1>1 DEF Does, Told
  <2>2. QED
    BY <1>2, <1>3, <2>1
<1>5. CASE v.steps = w.steps
  BY <1>1, <1>2, <1>4, <1>5 DEF PlanTold
<1>6. ASSUME NEW i, NEW s, StepMoves(w, v, i, s)
      PROVE  PlanTold(v)
  <2>1. PICK e : e = Entry("step", <<i, s>>) /\ e.kind = "step" /\ e.about = <<i, s>>
    <3>1. PICK e : e = Entry("step", <<i, s>>)
      OBVIOUS
    <3>2. e.kind = "step" /\ e.about = <<i, s>>
      BY <3>1 DEF Entry
    <3>3. QED
      BY <3>1, <3>2
  <2>2. <<i, s>> \in Range(J)
    BY <1>3, <1>6, <2>1 DEF StepMoves
  <2>3. QED
    BY <1>2, <1>4, <1>6, <2>2 DEF PlanTold, StepMoves
<1>7. Moves(w, v)
  BY <1>1 DEF Does
<1>8. QED
  BY <1>1, <1>5, <1>6, <1>7 DEF Moves

HandoffInv ==
  /\ IsList(notes) /\ IsWorld(world) /\ IsList(world.journal) /\ world.lost \in BOOLEAN
  /\ PlanTold(world)
  /\ Tells(world, notes, "advance", "is now", "step")
  /\ Tells(world, notes, "write_file", "Wrote", "file")
  /\ handoff.done =>
       /\ handoff.steps = Reported(notes, "advance", "is now")
       /\ handoff.files = Reported(notes, "write_file", "Wrote")

IsNote(n, call, x) == n.name = call.name /\ n.said = x.said /\ n.about = x.about

IsReport(name, said, kind) ==
  \/ name = "advance" /\ said = "is now" /\ kind = "step"
  \/ name = "write_file" /\ said = "Wrote" /\ kind = "file"

\* One call: of the reports of one kind and its journal, and of both kinds.
LEMMA CallFollows ==
  ASSUME NEW w, IsList(w.journal), w.lost \in BOOLEAN, NEW ns, IsList(ns),
         NEW call, NEW x, Does(w, call, x), NEW n,
         IsNote(n, call, x),
         NEW name, NEW said, NEW kind,
         IsReport(name, said, kind),
         Tells(w, ns, name, said, kind)
  PROVE  Tells(x.world, Append(ns, n), name, said, kind)
<1>1. PICK D, E : D = Reported(ns, name, said) /\ E = Reported(Append(ns, n), name, said)
  OBVIOUS
<1>2. PICK H, J : H = Recorded(w.journal, kind) /\ J = Recorded(x.world.journal, kind)
  OBVIOUS
<1>3. x.world.lost = w.lost \/ x.world.lost = TRUE
  BY DEF Does, Kept
<1>4. Faithful(x.world, Append(ns, n)) => Faithful(w, ns) /\ call.name \notin DOMAIN Aliases
  <2>1. Range(Append(ns, n)) = Range(ns) \cup {n}
    BY ListAppend
  <2>2. QED
    BY <1>3, <2>1 DEF Faithful, ByName, IsNote
<1>5. /\ n.name = name /\ n.said = said => E = Append(D, n.about)
      /\ ~(n.name = name /\ n.said = said) => E = D
  <2>1. Reported(Append(ns, n), name, said) =
             IF n.name = name /\ n.said = said THEN Append(Reported(ns, name, said), n.about)
             ELSE Reported(ns, name, said)
    BY ReportedAppend
  <2>2. QED
    BY <1>1, <2>1
<1>6. ASSUME NEW e, x.world.journal = Append(w.journal, e)
      PROVE  /\ e.kind = kind => J = Append(H, e.about)
             /\ e.kind # kind => J = H
  <2>1. Recorded(Append(w.journal, e), kind) =
          IF e.kind = kind THEN Append(Recorded(w.journal, kind), e.about) ELSE Recorded(w.journal, kind)
    BY RecordedAppend
  <2>2. QED
    BY <1>2, <1>6, <2>1
<1>7. /\ call.name = "advance" => Tool(call) = "advance"
      /\ call.name = "write_file" => Tool(call) = "write_file"
      /\ call.name \notin DOMAIN Aliases => Tool(call) = call.name
  BY DEF Tool, Aliases
<1>8. n.name = call.name /\ n.said = x.said /\ n.about = x.about
  BY DEF IsNote
<1>9. \A k, a : Entry(k, a).kind = k /\ Entry(k, a).about = a
  BY DEF Entry
<1>10. \/ x.world.journal = w.journal /\ x.said \notin Reports
      \/ /\ Tool(call) = "advance" /\ x.said = "is now"
         /\ x.world.journal = Append(w.journal, Entry("step", x.about))
      \/ /\ Tool(call) = "advance" /\ x.said \notin Reports /\ x.world.lost = TRUE
         /\ \E a : x.world.journal = Append(w.journal, Entry("step", a))
      \/ /\ Tool(call) = "write_file" /\ x.said = "Wrote"
         /\ x.world.journal = Append(w.journal, Entry("file", x.about))
  BY DEF Does, Told
<1>11. said \in Reports /\ name \in {"advance", "write_file"} /\ kind \in {"step", "file"}
  BY DEF Reports, IsReport
<1>12. \/ E = D /\ J = H
       \/ \E a : E = Append(D, a) /\ J = Append(H, a)
       \/ E = D /\ (\E a : J = Append(H, a)) /\ ~Faithful(x.world, Append(ns, n))
  <2>1. CASE x.world.journal = w.journal /\ x.said \notin Reports
    BY <1>2, <1>5, <1>11, <1>8, <2>1
  <2>2. CASE /\ Tool(call) = "advance" /\ x.said = "is now"
             /\ x.world.journal = Append(w.journal, Entry("step", x.about))
    <3>1. PICK e : e = Entry("step", x.about) /\ e.kind = "step" /\ e.about = x.about
      <4>1. PICK e : e = Entry("step", x.about)
        OBVIOUS
      <4>2. e.kind = "step" /\ e.about = x.about
        BY <4>1 DEF Entry
      <4>3. QED
        BY <4>1, <4>2
    <3>2. x.world.journal = Append(w.journal, e)
      BY <2>2, <3>1
    <3>3. CASE kind = "step"
      <4>1. name = "advance" /\ said = "is now"
        BY <3>3 DEF IsReport
      <4>2. J = Append(H, x.about)
        BY <1>6, <3>1, <3>2, <3>3
      <4>3. CASE n.name = name
        BY <1>5, <1>8, <2>2, <4>1, <4>2, <4>3
      <4>4. CASE n.name # name
        <5>1. ~Faithful(x.world, Append(ns, n))
          BY <1>4, <1>7, <1>8, <2>2, <4>1, <4>4
        <5>2. QED
          BY <1>5, <4>2, <4>4, <5>1
      <4>5. QED
        BY <4>3, <4>4
    <3>4. CASE kind # "step"
      <4>1. name = "write_file" /\ said = "Wrote"
        BY <3>4 DEF IsReport
      <4>2. J = H
        BY <1>6, <3>1, <3>2, <3>4
      <4>3. E = D
        BY <1>5, <1>8, <2>2, <4>1
      <4>4. QED
        BY <4>2, <4>3
    <3>5. QED
      BY <3>3, <3>4
  <2>3. CASE /\ Tool(call) = "advance" /\ x.said \notin Reports /\ x.world.lost = TRUE
             /\ \E a : x.world.journal = Append(w.journal, Entry("step", a))
    <3>1. PICK a : x.world.journal = Append(w.journal, Entry("step", a))
      BY <2>3
    <3>2. PICK e : e = Entry("step", a) /\ e.about = a
      BY <1>9
    <3>3. E = D /\ (J = H \/ J = Append(H, a))
      BY <1>5, <1>6, <1>11, <1>8, <2>3, <3>1, <3>2
    <3>4. ~Faithful(x.world, Append(ns, n))
      BY <2>3 DEF Faithful
    <3>5. QED
      BY <3>3, <3>4
  <2>4. CASE /\ Tool(call) = "write_file" /\ x.said = "Wrote"
             /\ x.world.journal = Append(w.journal, Entry("file", x.about))
    <3>1. PICK e : e = Entry("file", x.about) /\ e.kind = "file" /\ e.about = x.about
      <4>1. PICK e : e = Entry("file", x.about)
        OBVIOUS
      <4>2. e.kind = "file" /\ e.about = x.about
        BY <4>1 DEF Entry
      <4>3. QED
        BY <4>1, <4>2
    <3>2. x.world.journal = Append(w.journal, e)
      BY <2>4, <3>1
    <3>3. CASE kind = "file"
      <4>1. name = "write_file" /\ said = "Wrote"
        BY <3>3 DEF IsReport
      <4>2. J = Append(H, x.about)
        BY <1>6, <3>1, <3>2, <3>3
      <4>3. CASE n.name = name
        BY <1>5, <1>8, <2>4, <4>1, <4>2, <4>3
      <4>4. CASE n.name # name
        <5>1. ~Faithful(x.world, Append(ns, n))
          BY <1>4, <1>7, <1>8, <2>4, <4>1, <4>4
        <5>2. QED
          BY <1>5, <4>2, <4>4, <5>1
      <4>5. QED
        BY <4>3, <4>4
    <3>4. CASE kind # "file"
      <4>1. name = "advance" /\ said = "is now"
        BY <3>4 DEF IsReport
      <4>2. J = H
        BY <1>6, <3>1, <3>2, <3>4
      <4>3. E = D
        BY <1>5, <1>8, <2>4, <4>1
      <4>4. QED
        BY <4>2, <4>3
    <3>5. QED
      BY <3>3, <3>4
  <2>5. QED
    BY <1>10, <2>1, <2>2, <2>3, <2>4
<1>13. Follows(E, J)
  <2>1. Follows(D, H)
    BY <1>1, <1>2 DEF Tells
  <2>2. QED
    BY <1>12, <2>1, FollowsGrow
<1>14. ASSUME Faithful(x.world, Append(ns, n))
       PROVE  E = J
  <2>1. D = H
    BY <1>1, <1>2, <1>4, <1>14 DEF Tells
  <2>2. QED
    BY <1>12, <1>14, <2>1
<1>15. QED
  BY <1>1, <1>2, <1>13, <1>14 DEF Tells

LEMMA NothingToTell ==
  ASSUME NEW w, w.journal = <<>>, NEW name, NEW said, NEW kind
  PROVE  Tells(w, <<>>, name, said, kind)
<1>1. PICK e : e = <<>>
  OBVIOUS
<1>2. \A V : Keep(e, V) = e
  BY <1>1, KeepEmpty
<1>3. Abouts(e) = e
  BY <1>1 DEF Abouts
<1>4. Reported(e, name, said) = e
  BY <1>2, <1>3 DEF Reported
<1>5. Recorded(e, kind) = e
  BY <1>2, <1>3 DEF Recorded
<1>6. IsList(e)
  BY <1>1 DEF IsList
<1>7. InOrderIn(e, e)
  <2>1. DOMAIN e = {} /\ e \in [DOMAIN e -> DOMAIN e]
    BY <1>1
  <2>2. QED
    BY <2>1 DEF InOrderIn
<1>8. QED
  BY <1>1, <1>4, <1>5, <1>6, <1>7 DEF Tells, Follows

\* The same journal tells the same.
LEMMA SameTells ==
  ASSUME NEW w, NEW v, v.journal = w.journal, v.lost = w.lost, NEW ns, NEW name, NEW said, NEW kind,
         Tells(w, ns, name, said, kind)
  PROVE  Tells(v, ns, name, said, kind)
BY DEF Tells, Faithful

LEMMA HandoffInvInit == TInit => HandoffInv
<1> SUFFICES ASSUME TInit PROVE HandoffInv
  OBVIOUS
<1>1. PICK seeds : world = [seeds |-> seeds, brief |-> seeds, steps |-> NewPlan, files |-> {},
                            artifacts |-> {}, queued |-> <<>>, journal |-> <<>>, lost |-> FALSE]
  BY DEF TInit
<1>2. IsWorld(world) /\ world.journal = <<>> /\ world.lost \in BOOLEAN
  BY <1>1 DEF IsWorld
<1>7. PlanTold(world)
  BY <1>1 DEF PlanTold, NewPlan
<1>3. notes = <<>> /\ handoff.done = FALSE
  BY DEF TInit
<1>4. IsList(notes) /\ IsList(world.journal)
  BY <1>2, <1>3 DEF IsList
<1>5. /\ Tells(world, notes, "advance", "is now", "step")
      /\ Tells(world, notes, "write_file", "Wrote", "file")
  BY <1>2, <1>3, NothingToTell
<1>6. QED
  BY <1>2, <1>3, <1>4, <1>5, <1>7 DEF HandoffInv

\* What a call is, with its note.
LEMMA CallIs ==
  ASSUME IsWorld(world), Call
  PROVE  \E call \in Calls : \E x \in Run(world, call) : \E n :
           /\ Does(world, call, x) /\ IsNote(n, call, x) /\ n.urls = x.urls
           /\ world' = x.world /\ notes' = Append(notes, n) /\ sources' = sources \cup x.urls
<1>1. PICK call \in Calls : \E x \in Run(world, call) :
        /\ world' = x.world
        /\ notes' = Append(notes, [name |-> call.name, said |-> x.said, about |-> x.about, urls |-> x.urls])
        /\ sources' = sources \cup x.urls
  BY DEF Call
<1>2. PICK x \in Run(world, call) :
        /\ world' = x.world
        /\ notes' = Append(notes, [name |-> call.name, said |-> x.said, about |-> x.about, urls |-> x.urls])
        /\ sources' = sources \cup x.urls
  BY <1>1
<1>3. PICK n : n = [name |-> call.name, said |-> x.said, about |-> x.about, urls |-> x.urls]
  OBVIOUS
<1>4. IsNote(n, call, x) /\ n.urls = x.urls
  BY <1>3 DEF IsNote
<1>5. Does(world, call, x)
  BY RunDoes
<1>6. QED
  BY <1>2, <1>3, <1>4, <1>5

LEMMA UploadIs ==
  ASSUME IsWorld(world), NEW f, Upload(f)
  PROVE  /\ IsWorld(world') /\ world'.journal = world.journal /\ world'.lost = world.lost
         /\ world'.brief = world.brief /\ world'.artifacts = world.artifacts
         /\ world'.steps = world.steps /\ world'.seeds = Append(world.seeds, f)
<1>1. PICK q : q = Append(world.seeds, f)
  OBVIOUS
<1>2. PICK v : v = world'
  OBVIOUS
<1>3. v = [world EXCEPT !.seeds = q]
  BY <1>1, <1>2 DEF Upload
<1>4. /\ IsWorld(v) /\ v.journal = world.journal /\ v.lost = world.lost
      /\ v.brief = world.brief /\ v.artifacts = world.artifacts /\ v.steps = world.steps /\ v.seeds = q
  BY <1>3 DEF IsWorld
<1>5. QED
  BY <1>1, <1>2, <1>4

LEMMA HandoffInvNext == HandoffInv /\ [TNext]_tvars => HandoffInv'
<1> SUFFICES ASSUME HandoffInv, [TNext]_tvars PROVE HandoffInv'
  OBVIOUS
<1>1. CASE Call
  <2>1. PICK call \in Calls : \E x \in Run(world, call) : \E n :
           /\ Does(world, call, x) /\ IsNote(n, call, x)
           /\ world' = x.world /\ notes' = Append(notes, n)
    BY <1>1, CallIs DEF HandoffInv
  <2>2. PICK x, n :
           /\ Does(world, call, x) /\ IsNote(n, call, x)
           /\ world' = x.world /\ notes' = Append(notes, n)
    BY <2>1
  <2>3. IsWorld(world') /\ world'.lost \in BOOLEAN
    BY <2>2 DEF Does, Kept, HandoffInv
  <2>4. IsList(notes')
    BY <2>2, ListAppend DEF HandoffInv
  <2>5. IsList(world'.journal)
    <3>1. x.world.journal = world.journal \/ \E e : x.world.journal = Append(world.journal, e)
      BY <2>2 DEF Does, Told
    <3>2. QED
      BY <2>2, <3>1, ListAppend DEF HandoffInv
  <2>6. ASSUME NEW name, NEW said, NEW kind, IsReport(name, said, kind), Tells(world, notes, name, said, kind)
        PROVE  Tells(world', notes', name, said, kind)
    <3>1. IsList(world.journal) /\ world.lost \in BOOLEAN /\ IsList(notes)
      BY DEF HandoffInv
    <3>2. Tells(x.world, Append(notes, n), name, said, kind)
      BY <2>2, <2>6, <3>1, CallFollows
    <3>3. QED
      BY <2>2, <3>2
  <2>7. IsReport("advance", "is now", "step") /\ IsReport("write_file", "Wrote", "file")
    BY DEF IsReport
  <2>8. /\ Tells(world', notes', "advance", "is now", "step")
        /\ Tells(world', notes', "write_file", "Wrote", "file")
    BY <2>6, <2>7 DEF HandoffInv
  <2>9. ~handoff'.done
    BY <1>1 DEF Call
  <2>10. PlanTold(world')
    <3>1. IsList(world.journal) /\ PlanTold(world)
      BY DEF HandoffInv
    <3>2. PlanTold(x.world)
      BY <2>2, <3>1, PlanStaysTold
    <3>3. QED
      BY <2>2, <3>2
  <2>11. QED
    BY <2>3, <2>4, <2>5, <2>8, <2>9, <2>10 DEF HandoffInv
<1>2. ASSUME NEW f \in Files, Upload(f)
      PROVE  HandoffInv'
  <2>1. /\ IsWorld(world') /\ world'.journal = world.journal /\ world'.lost = world.lost
        /\ world'.steps = world.steps
    BY <1>2, UploadIs DEF HandoffInv
  <2>2. notes' = notes /\ handoff' = handoff /\ ~handoff.done
    BY <1>2 DEF Upload
  <2>3. /\ Tells(world', notes, "advance", "is now", "step")
        /\ Tells(world', notes, "write_file", "Wrote", "file")
    BY <2>1, SameTells DEF HandoffInv
  <2>4. PlanTold(world')
    BY <2>1 DEF HandoffInv, PlanTold
  <2>5. QED
    BY <2>1, <2>2, <2>3, <2>4 DEF HandoffInv
<1>3. CASE Look
  BY <1>3 DEF Look, HandoffInv
<1>4. CASE HandOff
  <2>1. handoff'.steps = Abouts(NotesOf("advance", "is now")) /\ handoff'.files = Abouts(NotesOf("write_file", "Wrote"))
    BY <1>4 DEF HandOff, CoworkerHandoff
  <2>2. UNCHANGED <<world, notes>>
    BY <1>4 DEF HandOff
  <2>3. QED
    BY <2>1, <2>2 DEF HandoffInv, Reported, NotesOf
<1>5. CASE UNCHANGED tvars
  BY <1>5 DEF tvars, HandoffInv
<1>6. QED
  BY <1>1, <1>2, <1>3, <1>4, <1>5 DEF TNext, TDone

LEMMA HandoffInvHolds == TSpec => []HandoffInv
BY HandoffInvInit, HandoffInvNext, PTL DEF TSpec

(* Whatever tools an agent calls, in which order, and whichever answers of *)
(* the gateway are lost (Toolbox.run, coworker_handoff): the steps and the *)
(* files that the lead is told of were moved and written, in that order;   *)
(* and when no answer was lost and no tool was called by another name they *)
(* are all, and explain the plan up to the steps that became active.       *)
THEOREM HandoffTellsTheTruth == TSpec => []HandoffIsTrue
<1>1. HandoffInv => HandoffIsTrue
  <2> SUFFICES ASSUME HandoffInv, handoff.done
               PROVE  /\ InOrderIn(handoff.steps, Happened("step"))
                      /\ InOrderIn(handoff.files, Happened("file"))
                      /\ ~world.lost /\ (\A i \in DOMAIN notes : notes[i].name \notin DOMAIN Aliases) =>
                           /\ handoff.steps = Happened("step") /\ handoff.files = Happened("file")
                           /\ \A i \in DOMAIN Steps :
                                \/ world.steps[i] \in {NewPlan[i], "active"}
                                \/ <<i, world.steps[i]>> \in Range(handoff.steps)
    BY DEF HandoffIsTrue
  <2>1. Happened("step") = Recorded(world.journal, "step") /\ Happened("file") = Recorded(world.journal, "file")
    BY DEF Happened, Recorded
  <2>2. /\ handoff.steps = Reported(notes, "advance", "is now")
        /\ handoff.files = Reported(notes, "write_file", "Wrote")
    BY DEF HandoffInv
  <2>3. /\ Follows(handoff.steps, Happened("step")) /\ Follows(handoff.files, Happened("file"))
        /\ Faithful(world, notes) => handoff.steps = Happened("step") /\ handoff.files = Happened("file")
    BY <2>1, <2>2 DEF HandoffInv, Tells
  <2>4. ~world.lost /\ (\A i \in DOMAIN notes : notes[i].name \notin DOMAIN Aliases) => Faithful(world, notes)
    BY DEF Faithful, ByName, Range, HandoffInv
  <2>5. \A i \in DOMAIN Steps :
          world.steps[i] \in {NewPlan[i], "active"} \/ <<i, world.steps[i]>> \in Range(Happened("step"))
    BY <2>1 DEF HandoffInv, PlanTold
  <2>6. QED
    BY <2>3, <2>4, <2>5 DEF Follows
<1>2. QED
  BY <1>1, HandoffInvHolds, PTL

-----------------------------------------------------------------------------
(* Toolbox: a report that is stored cites what was found before it.        *)

LEMMA MaxIn ==
  ASSUME NEW n \in Nat, NEW S \in SUBSET (1 .. n), S # {}
  PROVE  Max(S) \in S
<1> DEFINE T == {m \in Nat : m <= n /\ n - m \in S}
<1>1. T # {}
  <2>1. PICK i \in S : TRUE
    OBVIOUS
  <2>2. n - i \in Nat /\ n - i <= n /\ n - (n - i) = i
    BY <2>1
  <2>3. QED
    BY <2>1, <2>2
<1>2. PICK m \in T : \A k \in T : m <= k
  <2> HIDE DEF T
  <2>1. T \in SUBSET Nat
    BY DEF T
  <2>2. QED
    BY <1>1, <2>1, LeastNumber
<1>3. n - m \in S
  BY <1>2
<1>4. ASSUME NEW y \in S
      PROVE  n - m >= y
  <2>1. n - y \in Nat /\ n - y <= n /\ n - (n - y) = y
    OBVIOUS
  <2>2. m <= n - y
    BY <1>2, <2>1
  <2>3. QED
    BY <2>1, <2>2
<1>5. \E x \in S : \A y \in S : x >= y
  BY <1>3, <1>4
<1>6. QED
  BY <1>5 DEF Max

Cites(r, ns) ==
  \A s \in Range(Spec.sections) :
    \E i \in DOMAIN r.body :
      /\ r.body[i].heading = s.heading /\ r.body[i].len >= s.min
      /\ s.cite => \E k \in 1 .. r.after : ns[k].urls \cap r.body[i].links # {}

\* What a report that passes the test has, when every link known is in a note.
LEMMA PassedCites ==
  ASSUME NEW ns, IsList(ns), NEW known, \A u \in known : \E k \in 1 .. Len(ns) : u \in ns[k].urls,
         NEW r, r.after = Len(ns), r.body \in Seq(Range(r.body)), \A b \in Range(r.body) : b.len \in Nat,
         ~ReportError(r.body, known)
  PROVE  Cites(r, ns)
<1>1. SUFFICES ASSUME NEW s \in Range(Spec.sections)
               PROVE  \E i \in DOMAIN r.body :
                        /\ r.body[i].heading = s.heading /\ r.body[i].len >= s.min
                        /\ s.cite => \E k \in 1 .. r.after : ns[k].urls \cap r.body[i].links # {}
  BY DEF Cites
<1>2. PICK body : body = r.body
  OBVIOUS
<1>3. PICK found : found = SectionBodies(body)
  OBVIOUS
<1>4. Spec.sections # <<>>
  BY DEF Range
<1>5. /\ s.heading \in DOMAIN found /\ ~(found[s.heading].len < s.min)
      /\ ~(s.cite /\ ~HasKnownLink(found[s.heading], known))
  BY <1>2, <1>3, <1>4 DEF ReportError
<1> DEFINE At == {i \in DOMAIN body : body[i].heading = s.heading}
<1>6. At # {} /\ found[s.heading] = body[Max(At)]
  BY <1>3, <1>5 DEF SectionBodies
<1>7. Len(body) \in Nat /\ DOMAIN body = 1 .. Len(body)
  BY <1>2
<1>8. PICK i : i = Max(At)
  OBVIOUS
<1>9. i \in At
  <2>1. At \in SUBSET (1 .. Len(body))
    BY <1>7
  <2> HIDE DEF At
  <2>2. QED
    BY <1>6, <1>7, <1>8, <2>1, MaxIn
<1>10. found[s.heading] = body[i] /\ i \in DOMAIN body /\ body[i].heading = s.heading
  BY <1>6, <1>8, <1>9
<1>11. body[i].len \in Nat /\ s.min \in Nat
  BY <1>2, <1>10, ToolboxAssumption DEF Range
<1>12. body[i].len >= s.min
  BY <1>5, <1>10, <1>11
<1>13. ASSUME s.cite
       PROVE  \E k \in 1 .. r.after : ns[k].urls \cap body[i].links # {}
  BY <1>5, <1>10, <1>13 DEF HasKnownLink
<1>14. QED
  BY <1>2, <1>10, <1>12, <1>13

SourcesInv ==
  /\ IsWorld(world) /\ IsList(notes)
  /\ \A u \in sources : \E k \in 1 .. Len(notes) : u \in notes[k].urls
  /\ \A r \in world.artifacts : r.kind = "report" => r.after \in 0 .. Len(notes) /\ Cites(r, notes)

LEMMA SourcesInvInit == TInit => SourcesInv
<1> SUFFICES ASSUME TInit PROVE SourcesInv
  OBVIOUS
<1>1. PICK seeds : world = [seeds |-> seeds, brief |-> seeds, steps |-> NewPlan, files |-> {},
                            artifacts |-> {}, queued |-> <<>>, journal |-> <<>>, lost |-> FALSE]
  BY DEF TInit
<1>2. IsWorld(world) /\ world.artifacts = {}
  BY <1>1 DEF IsWorld
<1>3. IsList(notes) /\ sources = {}
  BY DEF TInit, IsList
<1>4. QED
  BY <1>2, <1>3 DEF SourcesInv

LEMMA SourcesInvNext == SourcesInv /\ [TNext]_tvars => SourcesInv'
<1> SUFFICES ASSUME SourcesInv, [TNext]_tvars PROVE SourcesInv'
  OBVIOUS
<1>1. CASE Call
  <2>1. PICK call \in Calls : \E x \in Run(world, call) : \E n :
           /\ Does(world, call, x) /\ n.urls = x.urls
           /\ world' = x.world /\ notes' = Append(notes, n) /\ sources' = sources \cup x.urls
    BY <1>1, CallIs DEF SourcesInv
  <2>2. PICK x, n :
           /\ Does(world, call, x) /\ n.urls = x.urls
           /\ world' = x.world /\ notes' = Append(notes, n) /\ sources' = sources \cup x.urls
    BY <2>1
  <2>3. IsWorld(world')
    BY <2>2 DEF Does, Kept
  <2>4. IsList(notes')
    BY <2>2, ListAppend DEF SourcesInv
  <2>5. PICK m \in Nat : m = Len(notes) /\ Len(notes') = m + 1 /\ notes'[m + 1] = n
                         /\ \A k \in 1 .. m : notes'[k] = notes[k]
    BY <2>2, AppendIs DEF SourcesInv, IsList
  <2>6. \A u \in sources' : \E k \in 1 .. Len(notes') : u \in notes'[k].urls
    <3>1. SUFFICES ASSUME NEW u \in sources' PROVE \E k \in 1 .. m + 1 : u \in notes'[k].urls
      BY <2>5
    <3>2. CASE u \in sources
      BY <2>5, <3>2 DEF SourcesInv
    <3>3. CASE u \in x.urls
      BY <2>2, <2>5, <3>3
    <3>4. QED
      BY <2>2, <3>2, <3>3
  <2>7. ASSUME NEW r, r.after \in 0 .. m, Cites(r, notes)
        PROVE  Cites(r, notes')
    <3>1. \A k \in 1 .. r.after : notes'[k] = notes[k]
      BY <2>5, <2>7
    <3>2. QED
      BY <2>7, <3>1 DEF Cites
  <2>8. ASSUME NEW r \in world'.artifacts, r.kind = "report"
        PROVE  r.after \in 0 .. m /\ Cites(r, notes)
    <3>1. CASE r \in world.artifacts
      BY <2>5, <2>8, <3>1 DEF SourcesInv
    <3>2. CASE /\ Tool(call) = "write_report" /\ r.body = call.args.body /\ r.after = Len(notes)
               /\ ~ReportError(r.body, sources)
      <4>1. call.name = "write_report"
        BY <3>2 DEF Tool, Aliases
      <4>2. r.body \in Seq(Range(r.body)) /\ \A b \in Range(r.body) : b.len \in Nat
        BY <3>2, <4>1, ToolboxAssumption
      <4>3. Cites(r, notes)
        BY <3>2, <4>2, PassedCites DEF SourcesInv
      <4>4. QED
        BY <2>5, <3>2, <4>3
    <3>3. QED
      BY <2>2, <2>8, <3>1, <3>2 DEF Does, StoredBy
  <2>9. \A r \in world'.artifacts : r.kind = "report" => r.after \in 0 .. Len(notes') /\ Cites(r, notes')
    BY <2>5, <2>7, <2>8
  <2>10. QED
    BY <2>3, <2>4, <2>6, <2>9 DEF SourcesInv, Cites
<1>2. ASSUME NEW f \in Files, Upload(f)
      PROVE  SourcesInv'
  <2>1. IsWorld(world') /\ world'.artifacts = world.artifacts
    BY <1>2, UploadIs DEF SourcesInv
  <2>2. notes' = notes /\ sources' = sources
    BY <1>2 DEF Upload
  <2>3. QED
    BY <2>1, <2>2 DEF SourcesInv, Cites
<1>3. CASE Look
  BY <1>3 DEF Look, SourcesInv, Cites
<1>4. CASE HandOff
  BY <1>4 DEF HandOff, SourcesInv, Cites
<1>5. CASE UNCHANGED tvars
  BY <1>5 DEF tvars, SourcesInv, Cites
<1>6. QED
  BY <1>1, <1>2, <1>3, <1>4, <1>5 DEF TNext, TDone

LEMMA SourcesInvHolds == TSpec => []SourcesInv
BY SourcesInvInit, SourcesInvNext, PTL DEF TSpec

(* Whatever an agent searched, fetched and wrote (report_error,            *)
(* _has_known_link): a report that the project keeps has each section it   *)
(* was asked for, long enough, and a link in each section that has to cite *)
(* that a call made before the report returned.                            *)
THEOREM StoredReportsCite == TSpec => []ReportsAreSourced
<1>1. SourcesInv => ReportsAreSourced
  BY DEF SourcesInv, ReportsAreSourced, Cites
<1>2. QED
  BY <1>1, SourcesInvHolds, PTL

-----------------------------------------------------------------------------
(* Toolbox: an agent is told of a file once.                               *)

SeedIds(seeds) == {seeds[i].id : i \in DOMAIN seeds}
OneId(seeds) == \A i, j \in DOMAIN seeds : seeds[i].id = seeds[j].id => i = j

FilesInv ==
  /\ IsWorld(world) /\ IsList(world.seeds) /\ OneId(world.seeds)
  /\ seen \subseteq SeedIds(world.seeds)
  /\ IsList(told) /\ IsInjective(told) /\ Range(told) \subseteq seen
  /\ SeedIds(world.brief) \subseteq seen /\ Range(told) \cap SeedIds(world.brief) = {}
  /\ \A i \in DOMAIN world.seeds :
       world.seeds[i].id \in seen \ (SeedIds(world.brief) \cup Range(told)) => ~HasMaterial(world.seeds[i])

LEMMA FilesInvInit == TInit => FilesInv
<1> SUFFICES ASSUME TInit PROVE FilesInv
  OBVIOUS
<1>1. PICK seeds \in {<<>>} \cup {<<f>> : f \in Files} :
        /\ world = [seeds |-> seeds, brief |-> seeds, steps |-> NewPlan, files |-> {},
                    artifacts |-> {}, queued |-> <<>>, journal |-> <<>>, lost |-> FALSE]
        /\ seen = {seeds[i].id : i \in DOMAIN seeds}
  BY DEF TInit
<1>2. IsWorld(world) /\ world.seeds = seeds /\ world.brief = seeds
  BY <1>1 DEF IsWorld
<1>3. IsList(seeds) /\ OneId(seeds)
  <2>1. CASE seeds = <<>>
    BY <2>1 DEF IsList, OneId
  <2>2. CASE seeds # <<>>
    <3>1. PICK f \in Files : seeds = <<f>>
      BY <1>1, <2>2
    <3>2. DOMAIN seeds = {1} /\ seeds[1] = f /\ seeds \in Seq({f}) /\ Range(seeds) = {f}
      BY <3>1 DEF Range
    <3>3. QED
      BY <3>2 DEF IsList, OneId
  <2>3. QED
    BY <2>1, <2>2
<1>4. seen = SeedIds(seeds)
  BY <1>1 DEF SeedIds
<1>5. PICK e : e = <<>>
  OBVIOUS
<1>6. IsList(e) /\ IsInjective(e) /\ Range(e) = {}
  BY <1>5 DEF IsList, IsInjective, Range
<1>7. told = e
  BY <1>5 DEF TInit
<1>8. QED
  BY <1>2, <1>3, <1>4, <1>6, <1>7 DEF FilesInv

LEMMA ConcatIs ==
  ASSUME NEW s, IsList(s), NEW t, IsList(t), NEW r, r = s \o t
  PROVE  /\ IsList(r) /\ Range(r) = Range(s) \cup Range(t)
         /\ Len(s) \in Nat /\ Len(t) \in Nat /\ DOMAIN s = 1 .. Len(s) /\ DOMAIN t = 1 .. Len(t)
         /\ DOMAIN r = 1 .. Len(s) + Len(t)
         /\ \A i \in 1 .. Len(s) : r[i] = s[i]
         /\ \A i \in Len(s) + 1 .. Len(s) + Len(t) : r[i] = t[i - Len(s)]
<1>1. PICK S : S = Range(s) \cup Range(t)
  OBVIOUS
<1>2. s \in Seq(S) /\ t \in Seq(S)
  <2>1. \A P, R : P \subseteq R => \A l \in Seq(P) : l \in Seq(R)
    OBVIOUS
  <2>2. QED
    BY <1>1, <2>1 DEF IsList
<1>3. PICK m, n \in Nat : m = Len(s) /\ n = Len(t)
  BY <1>2
<1>4. /\ r \in Seq(S) /\ Len(r) = m + n /\ DOMAIN s = 1 .. m /\ DOMAIN t = 1 .. n /\ DOMAIN r = 1 .. m + n
      /\ \A i \in 1 .. m : r[i] = s[i]
      /\ \A i \in m + 1 .. m + n : r[i] = t[i - m]
  BY <1>2, <1>3
<1>5. Range(r) = S
  <2>1. Range(r) \subseteq S
    BY <1>4 DEF Range
  <2>2. Range(s) \subseteq Range(r)
    BY <1>4 DEF Range
  <2>3. ASSUME NEW j \in 1 .. n
        PROVE  t[j] \in Range(r)
    <3>1. m + j \in m + 1 .. m + n /\ (m + j) - m = j /\ m + j \in 1 .. m + n
      BY <1>3
    <3>2. r[m + j] = t[j]
      BY <1>4, <3>1
    <3>3. QED
      BY <1>4, <3>1, <3>2 DEF Range
  <2>4. Range(t) \subseteq Range(r)
    BY <1>4, <2>3 DEF Range
  <2>5. QED
    BY <1>1, <2>1, <2>2, <2>4
<1>6. QED
  BY <1>1, <1>3, <1>4, <1>5 DEF IsList

LEMMA InjectiveConcat ==
  ASSUME NEW s, IsList(s), IsInjective(s), NEW t, IsList(t), IsInjective(t), Range(s) \cap Range(t) = {}
  PROVE  IsInjective(s \o t)
<1>1. PICK r : r = s \o t
  OBVIOUS
<1>2. PICK m, n \in Nat :
        /\ DOMAIN s = 1 .. m /\ DOMAIN t = 1 .. n /\ DOMAIN r = 1 .. m + n
        /\ \A i \in 1 .. m : r[i] = s[i]
        /\ \A i \in m + 1 .. m + n : r[i] = t[i - m]
  <2>1. /\ Len(s) \in Nat /\ Len(t) \in Nat /\ DOMAIN s = 1 .. Len(s) /\ DOMAIN t = 1 .. Len(t)
        /\ DOMAIN r = 1 .. Len(s) + Len(t)
        /\ \A i \in 1 .. Len(s) : r[i] = s[i]
        /\ \A i \in Len(s) + 1 .. Len(s) + Len(t) : r[i] = t[i - Len(s)]
    BY <1>1, ConcatIs
  <2>2. PICK m, n : m = Len(s) /\ n = Len(t)
    OBVIOUS
  <2>3. QED
    BY <2>1, <2>2
<1>3. ASSUME NEW i \in 1 .. m + n, NEW j \in 1 .. m + n, r[i] = r[j]
      PROVE  i = j
  <2>1. ASSUME NEW k \in 1 .. m + n
        PROVE  \/ k \in 1 .. m /\ r[k] = s[k] /\ r[k] \in Range(s)
               \/ k \in m + 1 .. m + n /\ k - m \in 1 .. n /\ r[k] = t[k - m] /\ r[k] \in Range(t)
    BY <1>2 DEF Range
  <2>2. CASE i \in 1 .. m /\ j \in 1 .. m
    BY <1>2, <1>3, <2>2 DEF IsInjective
  <2>3. CASE i \in m + 1 .. m + n /\ j \in m + 1 .. m + n
    <3>1. i - m \in 1 .. n /\ j - m \in 1 .. n /\ t[i - m] = t[j - m]
      BY <1>2, <1>3, <2>3
    <3>2. i - m = j - m
      BY <1>2, <3>1 DEF IsInjective
    <3>3. QED
      BY <3>2
  <2>4. QED
    BY <1>3, <2>1, <2>2, <2>3
<1>4. QED
  BY <1>1, <1>2, <1>3 DEF IsInjective

\* One look: the files that are new, and what is told of them.
LEMMA FreshIs ==
  ASSUME NEW seeds, IsList(seeds), OneId(seeds), NEW known, NEW V, NEW new, new = Keep(seeds, V),
         NEW names, names = [i \in DOMAIN new |-> new[i].id]
  PROVE  /\ IsList(names) /\ IsInjective(names)
         /\ Range(names) = {seeds[i].id : i \in {j \in DOMAIN seeds : seeds[j] \in V}}
<1>1. PICK g : KeptAt(seeds, V, g)
  BY KeepShape DEF IsList
<1>2. PICK m, n \in Nat : m = Len(new) /\ n = Len(seeds) /\ DOMAIN new = 1 .. m /\ DOMAIN seeds = 1 .. n
  BY <1>1 DEF KeptAt, IsList
<1>3. /\ g \in [1 .. m -> 1 .. n]
      /\ \A i \in 1 .. m : new[i] = seeds[g[i]] /\ seeds[g[i]] \in V
      /\ \A i, j \in 1 .. m : i < j => g[i] < g[j]
      /\ \A i \in 1 .. n : seeds[i] \in V => \E j \in 1 .. m : g[j] = i
  BY <1>1, <1>2 DEF KeptAt
<1>4. DOMAIN names = 1 .. m /\ \A i \in 1 .. m : names[i] = seeds[g[i]].id
  BY <1>2, <1>3
<1>5. IsList(names)
  BY <1>2 DEF IsList, Range
<1>6. IsInjective(names)
  <2>1. SUFFICES ASSUME NEW i \in 1 .. m, NEW j \in 1 .. m, names[i] = names[j] PROVE i = j
    BY <1>4 DEF IsInjective
  <2>2. g[i] \in 1 .. n /\ g[j] \in 1 .. n /\ seeds[g[i]].id = seeds[g[j]].id
    BY <1>3, <1>4, <2>1
  <2>3. g[i] = g[j]
    BY <1>2, <2>2 DEF OneId
  <2>4. QED
    BY <1>3, <2>3
<1>7. Range(names) = {seeds[i].id : i \in {j \in DOMAIN seeds : seeds[j] \in V}}
  <2>1. ASSUME NEW i \in 1 .. m
        PROVE  names[i] \in {seeds[k].id : k \in {j \in DOMAIN seeds : seeds[j] \in V}}
    BY <1>2, <1>3, <1>4
  <2>2. ASSUME NEW k \in 1 .. n, seeds[k] \in V
        PROVE  seeds[k].id \in Range(names)
    <3>1. PICK j \in 1 .. m : g[j] = k
      BY <1>3, <2>2
    <3>2. QED
      BY <1>4, <3>1 DEF Range
  <2>3. PICK R : R = {seeds[i].id : i \in {j \in DOMAIN seeds : seeds[j] \in V}}
    OBVIOUS
  <2>4. ASSUME NEW x \in R
        PROVE  x \in Range(names)
    <3>1. PICK i \in {j \in DOMAIN seeds : seeds[j] \in V} : x = seeds[i].id
      BY <2>3, <2>4
    <3>2. QED
      BY <1>2, <2>2, <3>1
  <2>5. \A i \in 1 .. m : names[i] \in R
    BY <2>1, <2>3
  <2>6. Range(names) \subseteq R
    BY <1>4, <2>5 DEF Range
  <2>7. QED
    BY <2>3, <2>4, <2>6
<1>8. QED
  BY <1>5, <1>6, <1>7

LEMMA FilesInvNext == FilesInv /\ [TNext]_tvars => FilesInv'
<1> SUFFICES ASSUME FilesInv, [TNext]_tvars PROVE FilesInv'
  OBVIOUS
<1>1. ASSUME IsWorld(world'), world'.seeds = world.seeds, world'.brief = world.brief, UNCHANGED <<seen, told>>
      PROVE  FilesInv'
  BY <1>1 DEF FilesInv, SeedIds
<1>2. CASE Call
  <2>1. PICK call \in Calls : \E x \in Run(world, call) : \E n : Does(world, call, x) /\ world' = x.world
    BY <1>2, CallIs DEF FilesInv
  <2>2. PICK x : Does(world, call, x) /\ world' = x.world
    BY <2>1
  <2>3. IsWorld(world') /\ world'.seeds = world.seeds /\ world'.brief = world.brief
    BY <2>2 DEF Does, Kept
  <2>4. UNCHANGED <<seen, told>>
    BY <1>2 DEF Call
  <2>5. QED
    BY <1>1, <2>3, <2>4
<1>3. ASSUME NEW f \in Files, Upload(f)
      PROVE  FilesInv'
  <2>1. PICK seeds, more : seeds = world.seeds /\ more = Append(seeds, f)
    OBVIOUS
  <2>2. IsWorld(world') /\ world'.seeds = more /\ world'.brief = world.brief
    BY <1>3, <2>1, UploadIs DEF FilesInv
  <2>3. UNCHANGED <<seen, told>> /\ \A i \in DOMAIN seeds : seeds[i].id # f.id
    BY <1>3, <2>1 DEF Upload
  <2>4. PICK n \in Nat : /\ DOMAIN seeds = 1 .. n /\ DOMAIN more = 1 .. n + 1
                         /\ more[n + 1] = f /\ \A i \in 1 .. n : more[i] = seeds[i]
    BY <2>1, AppendIs DEF FilesInv, IsList
  <2>5. IsList(more)
    BY <2>1, ListAppend DEF FilesInv
  <2>6. OneId(more)
    <3>1. SUFFICES ASSUME NEW i \in 1 .. n + 1, NEW j \in 1 .. n + 1, more[i].id = more[j].id PROVE i = j
      BY <2>4 DEF OneId
    <3>2. CASE i \in 1 .. n /\ j \in 1 .. n
      BY <2>1, <2>4, <3>1, <3>2 DEF FilesInv, OneId
    <3>3. QED
      BY <2>3, <2>4, <3>1, <3>2
  <2>7. f.id \notin seen
    BY <2>1, <2>3 DEF FilesInv, SeedIds
  <2>8. seen \subseteq SeedIds(more)
    <3>1. SeedIds(seeds) \subseteq SeedIds(more)
      BY <2>4 DEF SeedIds
    <3>2. QED
      BY <2>1, <3>1 DEF FilesInv
  <2>9. ASSUME NEW i \in 1 .. n + 1, more[i].id \in seen \ (SeedIds(world.brief) \cup Range(told))
        PROVE  ~HasMaterial(more[i])
    <3>1. i \in 1 .. n
      BY <2>4, <2>7, <2>9
    <3>2. QED
      BY <2>1, <2>4, <2>9, <3>1 DEF FilesInv
  <2>10. QED
    BY <2>2, <2>3, <2>4, <2>5, <2>6, <2>8, <2>9 DEF FilesInv
<1>4. CASE Look
  <2>1. UNCHANGED world /\ \E seeds \in LoadProject(world) :
          LET fresh == FreshUploads(seeds, seen)
          IN seen' = fresh.known /\ told' = told \o [i \in DOMAIN fresh.new |-> fresh.new[i].id]
    BY <1>4 DEF Look
  <2>2. PICK seeds \in {world.seeds, <<>>} :
          LET fresh == FreshUploads(seeds, seen)
          IN seen' = fresh.known /\ told' = told \o [i \in DOMAIN fresh.new |-> fresh.new[i].id]
    BY <2>1 DEF LoadProject
  <2>3. PICK V : V = {s \in Materials(seeds) : s.id \notin seen}
    OBVIOUS
  <2>4. PICK new : new = Keep(seeds, V)
    OBVIOUS
  <2>5. PICK names : names = [i \in DOMAIN new |-> new[i].id]
    OBVIOUS
  <2>6. seen' = seen \cup SeedIds(seeds) /\ told' = told \o names
    BY <2>2, <2>3, <2>4, <2>5 DEF FreshUploads, SeedIds
  <2>7. IsList(seeds) /\ OneId(seeds)
    <3>1. CASE seeds = <<>>
      BY <3>1 DEF IsList, OneId
    <3>2. QED
      BY <2>2, <3>1 DEF FilesInv
  <2>8. /\ IsList(names) /\ IsInjective(names)
        /\ Range(names) = {seeds[i].id : i \in {j \in DOMAIN seeds : seeds[j] \in V}}
    BY <2>4, <2>5, <2>7, FreshIs
  <2>9. Range(names) \subseteq SeedIds(seeds) /\ Range(names) \cap seen = {}
    <3>1. \A s \in V : s.id \notin seen
      BY <2>3
    <3>2. QED
      BY <2>8, <3>1 DEF SeedIds
  <2>10. SeedIds(seeds) \subseteq SeedIds(world.seeds)
    <3>1. CASE seeds = <<>>
      BY <3>1 DEF SeedIds
    <3>2. QED
      BY <2>2, <3>1
  <2>11. IsList(told') /\ Range(told') = Range(told) \cup Range(names)
    BY <2>6, <2>8, ConcatIs DEF FilesInv
  <2>12. IsInjective(told')
    BY <2>6, <2>8, <2>9, InjectiveConcat DEF FilesInv
  <2>13. ASSUME NEW i \in DOMAIN world.seeds,
                world.seeds[i].id \in seen' \ (SeedIds(world.brief) \cup Range(told'))
         PROVE  ~HasMaterial(world.seeds[i])
    <3>1. CASE world.seeds[i].id \in seen
      BY <2>11, <2>13, <3>1 DEF FilesInv
    <3>2. CASE world.seeds[i].id \notin seen
      <4>1. seeds = world.seeds
        <5>1. CASE seeds = <<>>
          BY <2>6, <2>13, <3>2, <5>1 DEF SeedIds
        <5>2. QED
          BY <2>2, <5>1
      <4>2. SUFFICES ASSUME HasMaterial(seeds[i]) PROVE FALSE
        BY <4>1
      <4>3. seeds[i] \in V
        BY <2>3, <2>13, <3>2, <4>1, <4>2 DEF Materials, Range
      <4>4. seeds[i].id \in Range(names)
        BY <2>8, <2>13, <4>1, <4>3
      <4>5. QED
        BY <2>11, <2>13, <4>1, <4>4
    <3>3. QED
      BY <3>1, <3>2
  <2>14. QED
    <3>1. world' = world
      BY <2>1
    <3>2. IsWorld(world) /\ IsList(world.seeds) /\ OneId(world.seeds) /\ seen' \subseteq SeedIds(world.seeds)
      BY <2>6, <2>10 DEF FilesInv
    <3>3. Range(told') \subseteq seen' /\ SeedIds(world.brief) \subseteq seen'
      BY <2>6, <2>9, <2>11 DEF FilesInv
    <3>4. Range(told') \cap SeedIds(world.brief) = {}
      BY <2>9, <2>11 DEF FilesInv
    <3>5. QED
      BY <2>11, <2>12, <2>13, <3>1, <3>2, <3>3, <3>4 DEF FilesInv
<1>5. CASE HandOff
  BY <1>1, <1>5 DEF HandOff, FilesInv
<1>6. CASE UNCHANGED tvars
  BY <1>1, <1>6 DEF tvars, FilesInv
<1>7. QED
  BY <1>2, <1>3, <1>4, <1>5, <1>6 DEF TNext, TDone

LEMMA FilesInvHolds == TSpec => []FilesInv
BY FilesInvInit, FilesInvNext, PTL DEF TSpec

(* However uploads, failed reads of the project and looks at it interleave *)
(* (fresh_uploads, seen_seeds): an agent is told of no file twice and of   *)
(* none that it began with, and of every other one that it has seen with   *)
(* anything in it.                                                         *)
THEOREM NoFileIsToldTwice == TSpec => []FilesAreToldOnce
<1>1. FilesInv => FilesAreToldOnce
  BY DEF FilesInv, FilesAreToldOnce, SeedIds
<1>2. QED
  BY <1>1, FilesInvHolds, PTL

-----------------------------------------------------------------------------
(* Completion: the slots of the calls, as their pieces come.               *)

LEMMA MinOfOne ==
  ASSUME NEW k \in Nat
  PROVE  Min({k}) = k
BY DEF Min

\* The first m pieces of call i.
Upto(i, m) == [j \in 1 .. m |-> <<i, j>>]

LEMMA UptoGrows ==
  ASSUME NEW i, NEW m \in Nat
  PROVE  Append(Upto(i, m), <<i, m + 1>>) = Upto(i, m + 1)
<1>1. PICK u : u = Upto(i, m)
  OBVIOUS
<1>2. PICK S : S = {<<i, j>> : j \in 1 .. m}
  OBVIOUS
<1>3. \A j \in 1 .. m : <<i, j>> \in S
  BY <1>2
<1>4. u \in Seq(S) /\ Len(u) = m /\ \A j \in 1 .. m : u[j] = <<i, j>>
  BY <1>1, <1>3 DEF Upto
<1>5. PICK x : x = <<i, m + 1>>
  OBVIOUS
<1>6. PICK v : v = Append(u, x)
  OBVIOUS
<1>9. /\ v \in Seq(S \cup {x}) /\ Len(v) = m + 1 /\ v[m + 1] = x
      /\ \A j \in 1 .. m : v[j] = u[j]
  BY <1>4, <1>6
<1>10. \A j \in 1 .. m + 1 : v[j] = <<i, j>>
  <2>1. \A j \in 1 .. m + 1 : j \in 1 .. m \/ j = m + 1
    OBVIOUS
  <2>2. QED
    BY <1>4, <1>5, <1>9, <2>1
<1>11. v = [j \in 1 .. m + 1 |-> v[j]]
  BY <1>9
<1>7. Append(u, x) = [j \in 1 .. m + 1 |-> <<i, j>>]
  BY <1>6, <1>10, <1>11
<1>8. QED
  BY <1>1, <1>5, <1>7 DEF Upto

Numbered(p) == \A k \in DOMAIN p : p[k].by = "index"

LEMMA SlotIs ==
  ASSUME NEW p, Numbered(p), NEW i
  PROVE  Slot(p, <<"index", i>>) = {k \in DOMAIN p : p[k].key = i}
<1>1. PICK key : key = <<"index", i>>
  OBVIOUS
<1>2. key[1] = "index" /\ key[2] = i
  BY <1>1
<1>3. QED
  BY <1>1, <1>2 DEF Slot, Numbered

NamedCalls(calls) == IsList(calls) /\ \A c \in Range(calls) : c.name # "" /\ c.pieces \in Nat \ {0}

\* What the slots p are when got[i] pieces of call i have come.
SlotsOf(p, calls, got, how) ==
  /\ IsList(p) /\ Numbered(p)
  /\ \A k \in DOMAIN p : /\ p[k].key \in DOMAIN calls /\ got[p[k].key] > 0
                         /\ p[k].name = calls[p[k].key].name /\ p[k].args = Upto(p[k].key, got[p[k].key])
  /\ \A k, l \in DOMAIN p : p[k].key = p[l].key => k = l
  /\ \A i \in DOMAIN calls : got[i] > 0 => \E k \in DOMAIN p : p[k].key = i
  /\ how = "nvidia" => \A k \in DOMAIN p : p[k].key = k

\* The next piece of call i, and the name it comes with.
PieceIs(name, piece, calls, got, how, i) ==
  /\ piece = got[i] + 1
  /\ how = "nvidia" /\ piece = 1 => \A j \in 1 .. i - 1 : got[j] > 0
  /\ name = IF piece = 1 THEN calls[i].name ELSE ""

LEMMA PutIs ==
  ASSUME NEW calls, NamedCalls(calls), NEW got \in [DOMAIN calls -> Nat], NEW how, NEW p,
         SlotsOf(p, calls, got, how), NEW i \in DOMAIN calls,
         NEW piece, NEW name, PieceIs(name, piece, calls, got, how, i)
  PROVE  SlotsOf(Added(p, <<"index", i>>, name, i, piece), calls, [got EXCEPT ![i] = piece], how)
<1>1. PICK n \in Nat : n = Len(p) /\ DOMAIN p = 1 .. n
  BY DEF SlotsOf, IsList
<1>2. PICK had : had = [got EXCEPT ![i] = piece]
  OBVIOUS
<1>3. /\ had[i] = piece /\ \A j \in DOMAIN calls : j # i => had[j] = got[j]
      /\ piece = got[i] + 1 /\ piece > 0 /\ piece \in Nat
  <2>1. piece = got[i] + 1 /\ got[i] \in Nat
    BY DEF PieceIs
  <2>2. QED
    BY <1>2, <2>1
<1>4. PICK r : r = Added(p, <<"index", i>>, name, i, piece)
  OBVIOUS
<1>9. PICK key, by : key = <<by, i>> /\ by = "index"
  OBVIOUS
<1>10. key[1] = by /\ key[2] = i /\ r = Put(p, key, name, Append(Args(p, key), <<i, piece>>))
  BY <1>4, <1>9 DEF Added
<1>11. Slot(p, key) = {k \in DOMAIN p : p[k].key = i} /\ \A k \in DOMAIN p : p[k].by = by
  <2>1. Numbered(p)
    BY DEF SlotsOf
  <2>2. QED
    BY <1>9, <2>1, SlotIs DEF Numbered
<1>5. PICK m \in Nat : m = Len(calls) /\ DOMAIN calls = 1 .. m
  BY ListIsSeq DEF NamedCalls
<1>6. CASE Slot(p, key) # {}
  <2>1. PICK k \in DOMAIN p : p[k].key = i
    BY <1>6, <1>11
  <2>2. Slot(p, key) = {k}
    BY <1>11, <2>1 DEF SlotsOf
  <2>3. Args(p, key) = Upto(i, got[i])
    <3>1. Args(p, key) = p[k].args
      BY <1>1, <1>6, <2>1, <2>2, MinOfOne DEF Args
    <3>2. QED
      BY <2>1, <3>1 DEF SlotsOf
  <2>4. got[i] \in Nat /\ got[i] > 0 /\ piece # 1 /\ piece = got[i] + 1
    BY <1>3, <2>1 DEF SlotsOf
  <2>5. name = ""
    BY <2>4 DEF PieceIs
  <2>6. Append(Args(p, key), <<i, piece>>) = Upto(i, piece)
    BY <2>3, <2>4, UptoGrows
  <2>7. r = [j \in DOMAIN p |-> IF p[j].key # i THEN p[j]
                                ELSE [by |-> by, key |-> i, name |-> p[j].name, args |-> Upto(i, piece)]]
    <3>1. Opened(p, key) = p
      BY <1>6 DEF Opened
    <3>2. r = [j \in DOMAIN p |-> IF j \notin Slot(p, key) THEN p[j]
                                  ELSE [by |-> by, key |-> i, name |-> p[j].name, args |-> Upto(i, piece)]]
      BY <1>10, <2>5, <2>6, <3>1 DEF Put
    <3>3. QED
      BY <1>11, <3>2
  <2>8. DOMAIN r = 1 .. n /\ \A j \in 1 .. n : j # k => r[j] = p[j]
    BY <1>1, <2>1, <2>7 DEF SlotsOf
  <2>9. r[k].key = i /\ r[k].name = p[k].name /\ r[k].args = Upto(i, piece) /\ r[k].by = by
    BY <2>1, <2>7
  <2>10. IsList(r)
    BY <1>1, <2>7 DEF IsList, Range
  <2>11. \A j \in 1 .. n : r[j].key = p[j].key /\ r[j].name = p[j].name /\ r[j].by = by
    BY <1>1, <1>11, <2>1, <2>8, <2>9
  <2>12. ASSUME NEW j \in 1 .. n
         PROVE  /\ r[j].key \in DOMAIN calls /\ had[r[j].key] > 0
                /\ r[j].name = calls[r[j].key].name /\ r[j].args = Upto(r[j].key, had[r[j].key])
    <3>1. CASE j = k
      BY <1>1, <1>3, <2>1, <2>9, <2>11, <3>1 DEF SlotsOf
    <3>2. CASE j # k
      <4>1. p[j].key # i
        BY <1>1, <2>1, <3>2 DEF SlotsOf
      <4>2. QED
        BY <1>1, <1>3, <2>8, <3>2, <4>1 DEF SlotsOf
    <3>3. QED
      BY <3>1, <3>2
  <2>13. \A j, l \in 1 .. n : r[j].key = r[l].key => j = l
    <3>1. \A j, l \in 1 .. n : p[j].key = p[l].key => j = l
      BY <1>1 DEF SlotsOf
    <3>2. QED
      BY <2>11, <3>1
  <2>14. \A j \in DOMAIN calls : had[j] > 0 => \E l \in 1 .. n : r[l].key = j
    <3>1. SUFFICES ASSUME NEW j \in DOMAIN calls, had[j] > 0 PROVE \E l \in 1 .. n : p[l].key = j
      BY <2>11
    <3>2. CASE j = i
      BY <1>1, <2>1, <3>2
    <3>3. CASE j # i
      BY <1>1, <1>3, <3>1, <3>3 DEF SlotsOf
    <3>4. QED
      BY <3>2, <3>3
  <2>15. how = "nvidia" => \A j \in 1 .. n : r[j].key = j
    BY <1>1, <2>11 DEF SlotsOf
  <2>18. Numbered(r)
    BY <1>9, <2>8, <2>11 DEF Numbered
  <2>16. SlotsOf(r, calls, had, how)
    BY <2>8, <2>10, <2>12, <2>13, <2>14, <2>15, <2>18 DEF SlotsOf
  <2>17. QED
    BY <1>2, <1>4, <2>16
<1>7. CASE Slot(p, key) = {}
  <2>1. \A k \in DOMAIN p : p[k].key # i
    BY <1>7, <1>11
  <2>2. got[i] = 0 /\ piece = 1
    <3>1. ~(got[i] > 0)
      BY <2>1 DEF SlotsOf
    <3>2. got[i] \in Nat
      OBVIOUS
    <3>3. QED
      BY <1>3, <3>1, <3>2
  <2>3. name = calls[i].name /\ name # ""
    <3>1. calls[i] \in Range(calls)
      BY DEF Range
    <3>2. QED
      BY <2>2, <3>1 DEF NamedCalls, PieceIs
  <2>4. PICK new : new = [by |-> by, key |-> i, name |-> "", args |-> <<>>]
    OBVIOUS
  <2>5. PICK q : q = Append(p, new)
    OBVIOUS
  <2>6. DOMAIN q = 1 .. n + 1 /\ q[n + 1] = new /\ \A j \in 1 .. n : q[j] = p[j]
    BY <1>1, <2>5, AppendIs DEF SlotsOf, IsList
  <2>7. Append(Args(p, key), <<i, piece>>) = Upto(i, 1)
    <3>1. Args(p, key) = <<>>
      BY <1>7 DEF Args
    <3>2. Append(<<>>, <<i, 1>>) = Upto(i, 1)
      BY DEF Upto
    <3>3. QED
      BY <2>2, <3>1, <3>2
  <2>8. new.key = i /\ new.by = by
    BY <2>4
  <2>9. r = [j \in DOMAIN q |-> IF q[j].key # i THEN q[j]
                                ELSE [by |-> by, key |-> i, name |-> name, args |-> Upto(i, 1)]]
    <3>1. Opened(p, key) = q
      BY <1>7, <1>10, <2>4, <2>5 DEF Opened
    <3>2. r = [j \in DOMAIN q |-> IF j \notin Slot(q, key) THEN q[j]
                                  ELSE [by |-> by, key |-> i, name |-> name, args |-> Upto(i, 1)]]
      BY <1>10, <2>3, <2>7, <3>1 DEF Put
    <3>3. Numbered(q)
      BY <1>1, <1>9, <1>11, <2>6, <2>8 DEF Numbered
    <3>4. Slot(q, key) = {k \in DOMAIN q : q[k].key = i}
      BY <1>9, <3>3, SlotIs
    <3>5. QED
      BY <3>2, <3>4
  <2>10. DOMAIN r = 1 .. n + 1 /\ \A j \in 1 .. n : r[j] = p[j]
    <3>1. DOMAIN r = 1 .. n + 1
      BY <2>6, <2>9
    <3>2. ASSUME NEW j \in 1 .. n
          PROVE  r[j] = p[j]
      <4>1. q[j] = p[j] /\ p[j].key # i /\ j \in DOMAIN q
        BY <1>1, <2>1, <2>6
      <4>2. r[j] = IF q[j].key # i THEN q[j] ELSE [by |-> by, key |-> i, name |-> name, args |-> Upto(i, 1)]
        BY <2>9, <4>1
      <4>3. QED
        BY <4>1, <4>2
    <3>3. QED
      BY <3>1, <3>2
  <2>11. r[n + 1].key = i /\ r[n + 1].name = name /\ r[n + 1].args = Upto(i, 1) /\ r[n + 1].by = by
    <3>1. r[n + 1] = [by |-> by, key |-> i, name |-> name, args |-> Upto(i, 1)]
      BY <2>6, <2>8, <2>9
    <3>2. QED
      BY <3>1
  <2>12. IsList(r)
    <3>1. r = [j \in 1 .. n + 1 |-> r[j]]
      BY <2>6, <2>9
    <3>2. \A j \in 1 .. n + 1 : r[j] \in Range(r)
      BY <2>10 DEF Range
    <3>3. QED
      BY <3>1, <3>2 DEF IsList
  <2>13. ASSUME NEW j \in 1 .. n + 1
         PROVE  /\ r[j].key \in DOMAIN calls /\ had[r[j].key] > 0
                /\ r[j].name = calls[r[j].key].name /\ r[j].args = Upto(r[j].key, had[r[j].key])
    <3>1. CASE j = n + 1
      BY <1>3, <2>2, <2>3, <2>11, <3>1
    <3>2. CASE j \in 1 .. n
      <4>1. p[j].key # i
        BY <1>1, <2>1, <3>2
      <4>2. QED
        BY <1>1, <1>3, <2>10, <3>2, <4>1 DEF SlotsOf
    <3>3. QED
      BY <3>1, <3>2
  <2>14. \A j, l \in 1 .. n + 1 : r[j].key = r[l].key => j = l
    <3>1. SUFFICES ASSUME NEW j \in 1 .. n + 1, NEW l \in 1 .. n + 1, r[j].key = r[l].key PROVE j = l
      OBVIOUS
    <3>2. CASE j \in 1 .. n /\ l \in 1 .. n
      BY <1>1, <2>10, <3>1, <3>2 DEF SlotsOf
    <3>3. CASE ~(j \in 1 .. n /\ l \in 1 .. n)
      BY <1>1, <2>1, <2>10, <2>11, <3>1, <3>3
    <3>4. QED
      BY <3>2, <3>3
  <2>15. \A j \in DOMAIN calls : had[j] > 0 => \E l \in 1 .. n + 1 : r[l].key = j
    <3>1. SUFFICES ASSUME NEW j \in DOMAIN calls, had[j] > 0 PROVE \E l \in 1 .. n + 1 : r[l].key = j
      OBVIOUS
    <3>2. CASE j = i
      BY <2>11, <3>2
    <3>3. CASE j # i
      <4>1. PICK l \in DOMAIN p : p[l].key = j
        BY <1>3, <3>1, <3>3 DEF SlotsOf
      <4>2. QED
        BY <1>1, <2>10, <4>1
    <3>4. QED
      BY <3>2, <3>3
  <2>16. ASSUME how = "nvidia"
         PROVE  \A j \in 1 .. n + 1 : r[j].key = j
    <3>1. \A k \in 1 .. n : p[k].key = k
      BY <1>1, <2>16 DEF SlotsOf
    <3>2. i \in 1 .. m /\ ~(i <= n)
      BY <1>1, <1>5, <2>1, <3>1
    <3>3. ASSUME NEW j \in 1 .. i - 1
          PROVE  j \in 1 .. n
      <4>1. j \in DOMAIN calls /\ got[j] > 0
        BY <1>5, <2>2, <2>16, <3>2 DEF PieceIs
      <4>2. QED
        BY <1>1, <3>1, <4>1 DEF SlotsOf
    <3>4. i = n + 1
      <4>1. CASE i = 1
        BY <3>2, <4>1
      <4>2. CASE i # 1
        BY <3>2, <3>3, <4>2
      <4>3. QED
        BY <4>1, <4>2
    <3>5. QED
      BY <2>10, <2>11, <3>1, <3>4
  <2>19. Numbered(r)
    BY <1>1, <1>9, <1>11, <2>10, <2>11 DEF Numbered
  <2>17. SlotsOf(r, calls, had, how)
    BY <2>10, <2>12, <2>13, <2>14, <2>15, <2>16, <2>19 DEF SlotsOf
  <2>18. QED
    BY <1>2, <1>4, <2>17
<1>8. QED
  BY <1>6, <1>7

\* The calls, once all their pieces have come.
LEMMA ExtractIs ==
  ASSUME NamedCalls(answer.calls), NEW got, SlotsOf(pending, answer.calls, got, port),
         \A i \in DOMAIN answer.calls : got[i] = answer.calls[i].pieces
  PROVE  ExtractCalls(pending) =
           [i \in DOMAIN answer.calls |-> Made(answer.calls[i].name, answer.calls[i].pieces)]
<1>1. PICK p, calls : p = pending /\ calls = answer.calls
  OBVIOUS
<1>2. PICK n \in Nat : n = Len(calls) /\ DOMAIN calls = 1 .. n
  BY <1>1, ListIsSeq DEF NamedCalls
<1>3. PICK m \in Nat : m = Len(p) /\ DOMAIN p = 1 .. m
  BY <1>1 DEF SlotsOf, IsList
<1>4. PICK none : none = ""
  OBVIOUS
<1>5. \A i \in 1 .. n : calls[i].name # none /\ calls[i].pieces \in Nat /\ calls[i].pieces > 0
  <2>1. \A i \in 1 .. n : calls[i] \in Range(calls)
    BY <1>2 DEF Range
  <2>2. \A c \in Range(calls) : c.name # none /\ c.pieces \in Nat \ {0}
    BY <1>1, <1>4 DEF NamedCalls
  <2>3. QED
    BY <2>1, <2>2
<1>6. \A i \in 1 .. n : \E k \in 1 .. m : p[k].key = i
  <2>1. SUFFICES ASSUME NEW i \in 1 .. n PROVE \E k \in DOMAIN p : p[k].key = i
    BY <1>3
  <2>2. i \in DOMAIN answer.calls /\ got[i] > 0
    BY <1>1, <1>2, <1>5
  <2>3. QED
    BY <1>1, <2>2 DEF SlotsOf
<1>7. \A k \in 1 .. m : /\ p[k].key \in 1 .. n /\ p[k].name = calls[p[k].key].name
                        /\ p[k].args = Upto(p[k].key, calls[p[k].key].pieces)
  BY <1>1, <1>2, <1>3 DEF SlotsOf
<1>8. \A k, l \in 1 .. m : p[k].key = p[l].key => k = l
  BY <1>1, <1>3 DEF SlotsOf
<1>9. PICK o : o = InOrder(p)
  OBVIOUS
<1>10. /\ IsList(o) /\ DOMAIN o = 1 .. n
      /\ \A i \in 1 .. n : \E k \in 1 .. m : o[i] = p[k] /\ p[k].key = i
  <2>1. CASE port = "nvidia"
    <3>1. o = p /\ \A k \in 1 .. m : p[k].key = k
      BY <1>1, <1>3, <1>9, <2>1 DEF InOrder, SlotsOf
    <3>2. m = n
      <4>1. m > n => FALSE
        <5>1. \A k \in 1 .. m : k \in 1 .. n
          BY <1>7, <3>1
        <5>2. QED
          BY <5>1
      <4>2. n > m => FALSE
        <5>1. \A i \in 1 .. n : i \in 1 .. m
          BY <1>6, <3>1
        <5>2. QED
          BY <5>1
      <4>3. QED
        BY <4>1, <4>2
    <3>3. IsList(p)
      BY <1>1 DEF SlotsOf
    <3>4. QED
      BY <1>3, <3>1, <3>2, <3>3
  <2>2. CASE port # "nvidia"
    <3>2. PICK V : V = Keyed(p)
      OBVIOUS
    <3>10. V = 1 .. n
      <4>1. V = {p[k].key : k \in 1 .. m}
        BY <1>3, <3>2 DEF Keyed
      <4>2. V \subseteq 1 .. n
        BY <1>7, <4>1
      <4>3. 1 .. n \subseteq V
        BY <1>6, <4>1
      <4>4. QED
        BY <4>2, <4>3
    <3>1. PICK idx : idx = [i \in 1 .. Max({0} \cup V) |-> i]
      OBVIOUS
    <3>11. Max({0} \cup V) = n
      <4>1. {0} \cup V = 0 .. n
        BY <3>10
      <4>2. Max(0 .. n) = n
        BY DEF Max
      <4>3. QED
        BY <4>1, <4>2
    <3>3. DOMAIN idx = 1 .. n /\ (\A i \in 1 .. n : idx[i] = i) /\ IsList(idx)
      <4>1. PICK top : top = Max({0} \cup V)
        OBVIOUS
      <4>2. top = n /\ idx = [i \in 1 .. top |-> i]
        BY <3>1, <3>11, <4>1
      <4>3. idx = [i \in 1 .. n |-> i]
        BY <4>2
      <4>4. \A i \in 1 .. n : i \in Range(idx)
        BY <4>3 DEF Range
      <4>5. QED
        BY <4>3, <4>4 DEF IsList
    <3>4. Range(idx) \subseteq V
      BY <3>3, <3>10 DEF Range
    <3>5. Keep(idx, V) = idx
      BY <3>3, <3>4, KeepAll
    <3>6. o = [i \in DOMAIN idx |-> p[Min({k \in DOMAIN p : p[k].key = idx[i]})]]
      <4>1. o = Sorted(p)
        BY <1>9, <2>2 DEF InOrder
      <4>2. Keep([i \in 1 .. Max({0} \cup Keyed(p)) |-> i], Keyed(p)) = idx
        BY <3>1, <3>2, <3>5
      <4>3. QED
        BY <4>1, <4>2 DEF Sorted
    <3>7. ASSUME NEW i \in 1 .. n
          PROVE  \E k \in 1 .. m : o[i] = p[k] /\ p[k].key = i
      <4>1. PICK k \in 1 .. m : p[k].key = i
        BY <1>6
      <4>2. {l \in DOMAIN p : p[l].key = i} = {k}
        BY <1>3, <1>8, <4>1
      <4>3. Min({l \in DOMAIN p : p[l].key = i}) = k
        BY <4>2, MinOfOne
      <4>4. QED
        BY <3>3, <3>6, <4>1, <4>3
    <3>8. DOMAIN o = 1 .. n /\ IsList(o)
      <4>1. o = [i \in 1 .. n |-> o[i]]
        BY <3>3, <3>6
      <4>2. \A i \in 1 .. n : o[i] \in Range(o)
        BY <4>1 DEF Range
      <4>3. QED
        BY <4>1, <4>2 DEF IsList
    <3>9. QED
      BY <3>7, <3>8
  <2>3. QED
    BY <2>1, <2>2
<1>11. \A i \in 1 .. n : /\ o[i].key = i /\ o[i].name = calls[i].name /\ o[i].args = Upto(i, calls[i].pieces)
  BY <1>7, <1>10
<1>12. Named(o) = o
  <2>1. \A i \in 1 .. n : o[i].name # none
    BY <1>5, <1>11
  <2>2. \A s \in Range(o) : s.name # none
    BY <1>10, <2>1 DEF Range
  <2>3. PICK V : V = {s \in Range(o) : s.name # none}
    OBVIOUS
  <2>4. Range(o) \subseteq V /\ Named(o) = Keep(o, V)
    BY <1>4, <2>2, <2>3 DEF Named
  <2>5. QED
    BY <1>10, <2>4, KeepAll
<1>13. ExtractCalls(p) = [i \in DOMAIN o |-> Made(o[i].name, ParseArgs(o[i].args))]
  BY <1>1, <1>9, <1>12 DEF ExtractCalls
<1>14. ASSUME NEW i \in 1 .. n
       PROVE  Made(o[i].name, ParseArgs(o[i].args)) = Made(calls[i].name, calls[i].pieces)
  <2>1. ParseArgs(o[i].args) = calls[i].pieces
    <3>1. PICK args : args = o[i].args
      OBVIOUS
    <3>2. args = Whole(i) /\ i \in DOMAIN answer.calls
      BY <1>1, <1>2, <1>11, <3>1 DEF Whole, Upto
    <3>3. Len(args) = calls[i].pieces
      BY <1>1, <1>5, <3>2 DEF Whole
    <3>4. QED
      BY <3>1, <3>2, <3>3 DEF ParseArgs
  <2>2. QED
    BY <1>11, <2>1
<1>15. QED
  BY <1>1, <1>2, <1>10, <1>13, <1>14

-----------------------------------------------------------------------------
(* Completion: the calls that are written in the text.                     *)

LEMMA CountIs ==
  ASSUME NEW s, IsList(s), NEW V
  PROVE  Count(s, V) = Len(Keep(s, V)) /\ Count(s, V) \in Nat
<1>1. PICK k : k = Keep(s, V)
  OBVIOUS
<1>2. PICK g : Picked(k, s, V, g)
  BY <1>1, KeepPositions
<1>3. PICK m \in Nat : m = Len(k) /\ DOMAIN k = 1 .. m
  BY <1>2 DEF Picked
<1>4. PICK n \in Nat : DOMAIN s = 1 .. n
  BY <1>2 DEF Picked
<1>5. /\ g \in [1 .. m -> 1 .. n] /\ \A i \in 1 .. m : s[g[i]] \in V
      /\ \A i, j \in 1 .. m : i < j => g[i] < g[j]
      /\ \A i \in 1 .. n : s[i] \in V => \E j \in 1 .. m : g[j] = i
  BY <1>2, <1>3, <1>4 DEF Picked
<1>6. PICK at : at = {i \in DOMAIN s : s[i] \in V}
  OBVIOUS
<1>7. g \in [1 .. m -> at]
  BY <1>4, <1>5, <1>6
<1>8. \A a, b \in 1 .. m : g[a] = g[b] => a = b
  BY <1>5
<1>9. \A t \in at : \E j \in 1 .. m : g[j] = t
  BY <1>4, <1>5, <1>6
<1>10. g \in Injection(1 .. m, at)
  BY <1>7, <1>8 DEF Injection, IsInjective
<1>11. g \in Surjection(1 .. m, at)
  BY <1>7, <1>9 DEF Surjection
<1>12. ExistsBijection(1 .. m, at)
  BY <1>10, <1>11 DEF ExistsBijection, Bijection
<1>13. Cardinality(at) = m
  BY <1>12, FS_CountingElements
<1>14. QED
  BY <1>1, <1>3, <1>6, <1>13 DEF Count

LEMMA KeepWithin ==
  ASSUME NEW s, IsList(s), NEW V, NEW W, NEW U, V \cap W \cap Range(s) = U \cap Range(s)
  PROVE  Keep(Keep(s, V), W) = Keep(s, U)
<1>1. Keep(Keep(s, V), W) = Keep(s, V \cap W)
  BY KeepTwice
<1>2. Keep(s, V \cap W) = Keep(s, U)
  BY KeepSame DEF IsList
<1>3. QED
  BY <1>1, <1>2

LEMMA NamesIn ==
  ASSUME NEW text, NEW t \in Range(text)
  PROVE  t.name \in Tools(text)
BY DEF Tools, Range

\* What recovering the DSML calls leaves of a text: all its words and JSON.
LEMMA RecoverIs ==
  ASSUME NEW shown, IsList(shown), NEW P, P = Calling(shown, "dsml", Declared)
  PROVE  \E Q : /\ RecoverDsml(shown).text = Keep(shown, Q)
                /\ Q \subseteq Range(shown) /\ Q \cap P = {}
                /\ \A t \in Range(shown) : t.kind \in {"json", "words"} => t \in Q
                /\ P = {} => RecoverDsml(shown).text = shown
<1>1. PICK D : D = Keep(shown, P)
  OBVIOUS
<1>2. IsList(D) /\ (D = <<>> <=> P = {})
  <2>1. P \subseteq Range(shown)
    BY DEF Calling
  <2>2. QED
    BY <1>1, <2>1, KeepIsList, KeepNone
<1>3. CallsOf(shown, "dsml", Declared) = [i \in DOMAIN D |-> Made(D[i].name, 1)]
  BY <1>1 DEF CallsOf
<1>4. PICK c : c = CallsOf(shown, "dsml", Declared)
  OBVIOUS
<1>5. c = <<>> <=> D = <<>>
  <2>1. PICK m \in Nat : DOMAIN D = 1 .. m /\ m = Len(D)
    BY <1>2, ListIsSeq
  <2>2. c = <<>> <=> m = 0
    BY <1>3, <1>4, <2>1
  <2>3. D = <<>> <=> m = 0
    BY <1>2, <2>1 DEF IsList
  <2>4. QED
    BY <2>2, <2>3
<1>6. RecoverDsml(shown).text =
        IF c = <<>> THEN shown ELSE Without(Without(shown, "dsml", Declared), "wrapper", Tools(shown))
  BY <1>4 DEF RecoverDsml
<1>7. CASE D = <<>>
  <2>1. RecoverDsml(shown).text = shown /\ Keep(shown, Range(shown)) = shown
    BY <1>5, <1>6, <1>7, KeepAll
  <2>2. QED
    BY <1>2, <1>7, <2>1
<1>8. CASE D # <<>>
  <2>1. PICK V : V = Range(shown) \ P
    OBVIOUS
  <2>2. PICK u : u = Keep(shown, V)
    OBVIOUS
  <2>3. Without(shown, "dsml", Declared) = u /\ Range(u) = V
    <3>1. Range(u) = Range(shown) \cap V
      BY <2>2, RangeOfKeep
    <3>2. QED
      BY <2>1, <2>2, <3>1 DEF Without
  <2>4. PICK W : W = Range(u) \ Calling(u, "wrapper", Tools(shown))
    OBVIOUS
  <2>5. RecoverDsml(shown).text = Keep(u, W)
    BY <1>5, <1>6, <1>8, <2>3, <2>4 DEF Without
  <2>6. Keep(u, W) = Keep(shown, W)
    <3>1. V \cap W \cap Range(shown) = W \cap Range(shown)
      BY <2>3, <2>4
    <3>2. QED
      BY <2>2, <3>1, KeepWithin
  <2>7. W \subseteq Range(shown) /\ W \cap P = {}
    BY <2>1, <2>3, <2>4
  <2>8. ASSUME NEW t \in Range(shown), t.kind \in {"json", "words"}
        PROVE  t \in W
    BY <2>1, <2>3, <2>4, <2>8 DEF Calling
  <2>9. QED
    BY <1>2, <1>8, <2>5, <2>6, <2>7, <2>8
<1>9. QED
  BY <1>7, <1>8

MadeOf(D) == [i \in DOMAIN D |-> Made(D[i].name, 1)]

LEMMA MadeOfIs ==
  ASSUME NEW D, IsList(D)
  PROVE  IsList(MadeOf(D)) /\ Len(MadeOf(D)) = Len(D) /\ DOMAIN MadeOf(D) = DOMAIN D
<1>1. PICK m \in Nat : m = Len(D) /\ DOMAIN D = 1 .. m
  BY ListIsSeq
<1>2. PICK c : c = MadeOf(D)
  OBVIOUS
<1>3. c = [i \in 1 .. m |-> Made(D[i].name, 1)]
  BY <1>1, <1>2 DEF MadeOf
<1>4. IsList(c) /\ Len(c) = m /\ DOMAIN c = 1 .. m
  BY <1>3 DEF IsList, Range
<1>5. QED
  BY <1>1, <1>2, <1>4

\* The members of S that are in V are those of that name.
Naming(V, S, name) == \A r \in S : r \in V <=> r.name = name

\* How many calls of a list go to one tool.
LEMMA CallsCount ==
  ASSUME NEW D, IsList(D), NEW name,
         NEW V, Naming(V, Range(MadeOf(D)), name), NEW W, Naming(W, Range(D), name)
  PROVE  Len(Keep(MadeOf(D), V)) = Len(Keep(D, W))
<1>1. PICK c : c = MadeOf(D)
  OBVIOUS
<1>2. IsList(c) /\ DOMAIN c = DOMAIN D
  BY <1>1, MadeOfIs
<1>3. \A i \in DOMAIN D : c[i].name = D[i].name /\ c[i] \in Range(c) /\ D[i] \in Range(D)
  BY <1>1, <1>2 DEF MadeOf, Made, Range
<1>4. \A r \in Range(c) : r \in V <=> r.name = name
  BY <1>1 DEF Naming
<1>5. \A i \in DOMAIN D : c[i] \in V <=> D[i] \in W
  BY <1>3, <1>4 DEF Naming
<1>6. {i \in DOMAIN c : c[i] \in V} = {i \in DOMAIN D : D[i] \in W}
  BY <1>2, <1>5
<1>7. Count(c, V) = Count(D, W)
  BY <1>6 DEF Count
<1>8. Count(c, V) = Len(Keep(c, V))
  BY <1>2, CountIs
<1>9. Count(D, W) = Len(Keep(D, W))
  BY CountIs
<1>10. QED
  BY <1>1, <1>7, <1>8, <1>9

LEMMA KeptList ==
  ASSUME NEW s, IsList(s), NEW V, V \subseteq Range(s)
  PROVE  IsList(Keep(s, V)) /\ Range(Keep(s, V)) = V
<1>1. Range(Keep(s, V)) = Range(s) \cap V
  BY RangeOfKeep
<1>2. IsList(Keep(s, V))
  BY KeepIsList
<1>3. QED
  BY <1>1, <1>2

LEMMA LenOfConcat ==
  ASSUME NEW s, IsList(s), NEW t, IsList(t)
  PROVE  Len(s \o t) = Len(s) + Len(t)
BY ListIsSeq

\* What is recovered from a text: the rest of it, and the calls in it.
Recovered(shown, T, calls) ==
  T = RecoverDsml(shown).text /\ calls = RecoverDsml(shown).calls \o ParseToolCalls(T)

\* Each tool is called as often as the tokens run of a text name it.
EachRuns(calls, text, run) ==
  \A name : Cardinality({i \in DOMAIN calls : calls[i].name = name}) = Count(text, {u \in run : u.name = name})

LEMMA TakenFromText ==
  ASSUME NEW shown, IsList(shown), NEW T, NEW calls, Recovered(shown, T, calls)
  PROVE  /\ Words(WithoutJsonCalls(T)) = Words(shown)
         /\ Runnable(WithoutJsonCalls(T)) = {}
         /\ IsList(calls) /\ Len(calls) = Count(shown, Runnable(shown)) /\ Len(calls) \in Nat
         /\ EachRuns(calls, shown, Runnable(shown))
         /\ Runnable(shown) = {} => T = shown
<1>1. PICK P, J : P = Calling(shown, "dsml", Declared) /\ J = Calling(shown, "json", Tools(shown))
  OBVIOUS
<1>2. PICK Q : /\ T = Keep(shown, Q)
               /\ Q \subseteq Range(shown) /\ Q \cap P = {}
               /\ \A t \in Range(shown) : t.kind \in {"json", "words"} => t \in Q
               /\ P = {} => T = shown
  BY <1>1, RecoverIs DEF Recovered
<1>3. IsList(T) /\ Range(T) = Q
  <2>1. IsList(Keep(shown, Q)) /\ Range(Keep(shown, Q)) = Q
    BY <1>2, KeptList
  <2>2. QED
    BY <1>2, <2>1
<1>4. PICK JT : JT = Calling(T, "json", Tools(T))
  OBVIOUS
<1>5. JT = J
  <2>1. ASSUME NEW t
        PROVE  t \in JT <=> t \in J
    <3>1. t \in JT <=> t \in Q /\ t.kind = "json"
      BY <1>3, <1>4, NamesIn DEF Calling
    <3>2. t \in J <=> t \in Range(shown) /\ t.kind = "json"
      BY <1>1, NamesIn DEF Calling
    <3>3. QED
      BY <1>2, <3>1, <3>2
  <2>2. QED
    BY <2>1
<1>6. P \subseteq Range(shown) /\ J \subseteq Q /\ P \cap J = {} /\ Runnable(shown) = P \cup J
  BY <1>1, <1>2 DEF Calling, Runnable
<1>7. PICK sp : sp = WithoutJsonCalls(T)
  OBVIOUS
<1>8. PICK R : R = Q \ J
  OBVIOUS
<1>9. sp = Keep(T, R) /\ IsList(sp) /\ Range(sp) = R
  <2>1. sp = Keep(T, R)
    BY <1>3, <1>4, <1>5, <1>7, <1>8 DEF WithoutJsonCalls, Without
  <2>2. Range(sp) = Range(T) \cap R
    BY <1>3, <2>1, RangeOfKeep
  <2>3. QED
    BY <1>3, <1>8, <2>1, <2>2, KeepIsList
<1>10. sp = Keep(shown, R)
  <2>1. Q \cap R \cap Range(shown) = R \cap Range(shown)
    BY <1>8
  <2>2. QED
    BY <1>2, <1>9, <2>1, KeepWithin
<1>11. Words(sp) = Words(shown)
  <2>1. PICK V, W : V = {t \in Range(sp) : t.kind = "words"} /\ W = {t \in Range(shown) : t.kind = "words"}
    OBVIOUS
  <2>2. R \cap V \cap Range(shown) = W \cap Range(shown)
    <3>1. ASSUME NEW t \in Range(shown)
          PROVE  t \in R /\ t \in V <=> t \in W
      BY <1>1, <1>2, <1>8, <1>9, <2>1 DEF Calling
    <3>2. QED
      BY <3>1
  <2>3. Keep(sp, V) = Keep(shown, W)
    BY <1>10, <2>2, KeepWithin
  <2>4. QED
    BY <2>1, <2>3 DEF Words
<1>12. Runnable(sp) = {}
  <2>1. ASSUME NEW t \in Runnable(sp)
        PROVE  FALSE
    <3>1. t \in R /\ t \in Range(shown)
      BY <1>2, <1>8, <1>9, <2>1 DEF Runnable, Calling
    <3>2. t.kind = "json" \/ (t.kind = "dsml" /\ t.name \in Declared)
      BY <2>1 DEF Runnable, Calling
    <3>3. t \in J \/ t \in P
      BY <1>1, <3>1, <3>2, NamesIn DEF Calling
    <3>4. QED
      BY <1>2, <1>8, <3>1, <3>3
  <2>2. QED
    BY <2>1
<1>13. PICK DS, JS : DS = Keep(shown, P) /\ JS = Keep(shown, J)
  OBVIOUS
<1>14. IsList(DS) /\ Range(DS) = P /\ IsList(JS) /\ Range(JS) = J
  <2>1. J \subseteq Range(shown)
    BY <1>2, <1>6
  <2>2. IsList(Keep(shown, P)) /\ Range(Keep(shown, P)) = P
    BY <1>6, KeptList
  <2>3. IsList(Keep(shown, J)) /\ Range(Keep(shown, J)) = J
    BY <2>1, KeptList
  <2>4. QED
    BY <1>13, <2>2, <2>3
<1>15. PICK dc, jc : dc = MadeOf(DS) /\ jc = MadeOf(JS)
  OBVIOUS
<1>16. RecoverDsml(shown).calls = dc
  BY <1>1, <1>13, <1>15 DEF RecoverDsml, CallsOf, MadeOf
<1>17. ParseToolCalls(T) = jc
  <2>1. Keep(T, J) = JS
    <3>1. Q \cap J \cap Range(shown) = J \cap Range(shown)
      BY <1>6
    <3>2. QED
      BY <1>2, <1>13, <3>1, KeepWithin
  <2>2. QED
    BY <1>4, <1>5, <1>15, <2>1 DEF ParseToolCalls, CallsOf, MadeOf
<1>18. calls = dc \o jc
  BY <1>16, <1>17 DEF Recovered
<1>19. ASSUME NEW name
       PROVE  Cardinality({i \in DOMAIN calls : calls[i].name = name})
                = Count(shown, {u \in Runnable(shown) : u.name = name})
  <2>1. PICK V : V = {r \in Range(dc) \cup Range(jc) : r.name = name}
    OBVIOUS
  <2>2. PICK W : W = {t \in Range(shown) : t.name = name}
    OBVIOUS
  <2>3. IsList(dc) /\ Len(Keep(dc, V)) = Len(Keep(DS, W))
    <3>1. Naming(V, Range(MadeOf(DS)), name)
      BY <1>15, <2>1 DEF Naming
    <3>2. Naming(W, Range(DS), name)
      BY <1>6, <1>14, <2>2 DEF Naming
    <3>3. Len(Keep(MadeOf(DS), V)) = Len(Keep(DS, W))
      BY <1>14, <3>1, <3>2, CallsCount
    <3>4. IsList(MadeOf(DS))
      BY <1>14, MadeOfIs
    <3>5. QED
      BY <1>15, <3>3, <3>4
  <2>4. IsList(jc) /\ Len(Keep(jc, V)) = Len(Keep(JS, W))
    <3>1. Naming(V, Range(MadeOf(JS)), name)
      BY <1>15, <2>1 DEF Naming
    <3>2. Naming(W, Range(JS), name)
      BY <1>2, <1>6, <1>14, <2>2 DEF Naming
    <3>3. Len(Keep(MadeOf(JS), V)) = Len(Keep(JS, W))
      BY <1>14, <3>1, <3>2, CallsCount
    <3>4. IsList(MadeOf(JS))
      BY <1>14, MadeOfIs
    <3>5. QED
      BY <1>15, <3>3, <3>4
  <2>5. IsList(calls) /\ Range(calls) = Range(dc) \cup Range(jc)
    BY <1>18, <2>3, <2>4, ConcatIs
  <2>6. {i \in DOMAIN calls : calls[i].name = name} = {i \in DOMAIN calls : calls[i] \in V}
    <3>1. \A i \in DOMAIN calls : calls[i] \in Range(calls)
      BY DEF Range
    <3>2. QED
      BY <2>1, <2>5, <3>1
  <2>7. Cardinality({i \in DOMAIN calls : calls[i].name = name}) = Len(Keep(calls, V))
    <3>1. Cardinality({i \in DOMAIN calls : calls[i].name = name}) = Count(calls, V)
      BY <2>6 DEF Count
    <3>2. QED
      BY <2>5, <3>1, CountIs
  <2>8. Len(Keep(calls, V)) = Len(Keep(dc, V)) + Len(Keep(jc, V))
    BY <1>18, <2>3, <2>4, KeepConcat
  <2>9. Keep(DS, W) = Keep(shown, P \cap W) /\ Keep(JS, W) = Keep(shown, J \cap W)
    BY <1>13, KeepTwice
  <2>10. PICK A, B : A = P \cap W /\ B = J \cap W
    OBVIOUS
  <2>11. Len(Keep(shown, A \cup B)) = Len(Keep(shown, A)) + Len(Keep(shown, B))
    BY <1>6, <2>10, KeepApart
  <2>12. {u \in Runnable(shown) : u.name = name} = A \cup B
    BY <1>2, <1>6, <2>2, <2>10
  <2>13. Count(shown, A \cup B) = Len(Keep(shown, A \cup B))
    BY CountIs
  <2>14. QED
    BY <2>3, <2>4, <2>7, <2>8, <2>9, <2>10, <2>11, <2>12, <2>13
<1>20. IsList(calls) /\ Len(calls) = Count(shown, Runnable(shown)) /\ Len(calls) \in Nat
  <2>1. IsList(dc) /\ Len(dc) = Len(DS) /\ IsList(jc) /\ Len(jc) = Len(JS)
    <3>1. IsList(MadeOf(DS)) /\ Len(MadeOf(DS)) = Len(DS)
      BY <1>14, MadeOfIs
    <3>2. IsList(MadeOf(JS)) /\ Len(MadeOf(JS)) = Len(JS)
      BY <1>14, MadeOfIs
    <3>3. QED
      BY <1>15, <3>1, <3>2
  <2>2. IsList(calls) /\ Len(calls) = Len(DS) + Len(JS)
    <3>1. IsList(dc \o jc)
      BY <2>1, ConcatIs
    <3>2. Len(dc \o jc) = Len(dc) + Len(jc)
      BY <2>1, LenOfConcat
    <3>3. QED
      BY <1>18, <2>1, <3>1, <3>2
  <2>3. Len(Keep(shown, P \cup J)) = Len(DS) + Len(JS)
    BY <1>6, <1>13, KeepApart
  <2>4. Count(shown, P \cup J) = Len(Keep(shown, P \cup J)) /\ Count(shown, P \cup J) \in Nat
    BY CountIs
  <2>5. QED
    BY <1>6, <2>2, <2>3, <2>4
<1>21. Runnable(shown) = {} => T = shown
  BY <1>2, <1>6
<1>22. QED
  BY <1>7, <1>11, <1>12, <1>19, <1>20, <1>21 DEF EachRuns

LEMMA PartIs ==
  ASSUME NEW s, IsList(s), NEW a \in Nat, NEW b \in Nat, a >= 1, b <= Len(s)
  PROVE  IsList(SubSeq(s, a, b))
<1>1. PICK n \in Nat : n = Len(s) /\ DOMAIN s = 1 .. n
  BY ListIsSeq
<1>2. PICK r : r = SubSeq(s, a, b)
  OBVIOUS
<1>3. r = [i \in 1 .. (1 + b) - a |-> s[i + a - 1]]
  BY <1>1, <1>2 DEF IsList
<1>4. CASE a <= b
  <2>1. PICK m \in Nat : m = (1 + b) - a
    BY <1>4
  <2>2. r = [i \in 1 .. m |-> s[i + a - 1]]
    BY <1>3, <2>1
  <2>3. DOMAIN r = 1 .. m /\ r = [i \in 1 .. m |-> r[i]] /\ \A i \in 1 .. m : r[i] \in Range(r)
    BY <2>2 DEF Range
  <2>4. r \in Seq(Range(r))
    BY <2>3
  <2>5. QED
    BY <1>2, <2>4 DEF IsList
<1>5. CASE ~(a <= b)
  <2>1. 1 .. (1 + b) - a = {}
    BY <1>5
  <2>2. r = <<>>
    BY <1>3, <2>1
  <2>3. QED
    BY <1>2, <2>2 DEF IsList
<1>6. QED
  BY <1>4, <1>5

LEMMA MinIn ==
  ASSUME NEW n \in Nat, NEW T \in SUBSET (1 .. n), T # {}
  PROVE  Min(T) \in T
<1>1. T \in SUBSET Nat
  OBVIOUS
<1>2. PICK k \in T : \A m \in T : k <= m
  BY <1>1, LeastNumber
<1>3. QED
  BY <1>2 DEF Min

LEMMA VisibleIs ==
  ASSUME NEW text, IsList(text)
  PROVE  IsList(VisibleText(text))
<1>1. PICK n \in Nat : n = Len(text) /\ DOMAIN text = 1 .. n
  BY ListIsSeq
<1>2. PICK open, close : open = OfKind(text, "think") /\ close = OfKind(text, "/think")
  OBVIOUS
<1>3. open \in SUBSET (1 .. n) /\ close \in SUBSET (1 .. n)
  BY <1>1, <1>2 DEF OfKind
<1>4. PICK a : a = IF open = {} THEN 0 ELSE Min(open) - 1
  OBVIOUS
<1>5. a \in Nat /\ a <= n
  <2>1. CASE open = {}
    BY <1>4, <2>1
  <2>2. CASE open # {}
    <3>1. Min(open) \in 1 .. n
      BY <1>3, <2>2, MinIn
    <3>2. QED
      BY <1>4, <2>2, <3>1
  <2>3. QED
    BY <2>1, <2>2
<1>6. VisibleText(text) = IF close = {} THEN IF open = {} THEN text ELSE <<>>
                          ELSE SubSeq(text, 1, a) \o SubSeq(text, Min(close) + 1, n)
  BY <1>1, <1>2, <1>4 DEF VisibleText
<1>7. CASE close = {}
  <2>1. IsList(<<>>)
    BY DEF IsList
  <2>2. VisibleText(text) = text \/ VisibleText(text) = <<>>
    BY <1>6, <1>7
  <2>3. QED
    BY <2>1, <2>2
<1>8. CASE close # {}
  <2>1. Min(close) \in 1 .. n
    BY <1>3, <1>8, MinIn
  <2>2. IsList(SubSeq(text, 1, a))
    BY <1>1, <1>5, PartIs
  <2>3. IsList(SubSeq(text, Min(close) + 1, n))
    <3>1. PICK m : m = Min(close) + 1
      OBVIOUS
    <3>2. m \in Nat /\ m >= 1
      BY <2>1, <3>1
    <3>3. QED
      BY <1>1, <3>1, <3>2, PartIs
  <2>4. IsList(SubSeq(text, 1, a) \o SubSeq(text, Min(close) + 1, n))
    BY <2>2, <2>3, ConcatIs
  <2>5. QED
    BY <1>6, <1>8, <2>4
<1>9. QED
  BY <1>7, <1>8

\* A lead delegates at most once to each coworker that the text names.
LEMMA MentionsAre ==
  ASSUME NEW text
  PROVE  /\ Len(MentionDelegates(text)) <= Cardinality(Range(Roster) \cap Tools(text))
         /\ Cardinality(Range(Roster) \cap Tools(text)) \in Nat
<1>1. IsList(Roster) /\ IsInjective(Roster)
  BY CompletionAssumption DEF IsList
<1>2. PICK N : N = {text[i].name : i \in OfKind(text, "at")}
  OBVIOUS
<1>3. PICK B : B = Range(Roster) \cap Tools(text)
  OBVIOUS
<1>4. N \subseteq Tools(text)
  BY <1>2 DEF OfKind, Tools
<1>5. PICK k : k = Keep(Roster, N)
  OBVIOUS
<1>6. PICK g : Picked(k, Roster, N, g)
  BY <1>1, <1>5, KeepPositions
<1>7. PICK m \in Nat, n \in Nat : m = Len(k) /\ DOMAIN k = 1 .. m /\ n = Len(Roster) /\ DOMAIN Roster = 1 .. n
  BY <1>6 DEF Picked
<1>8. /\ g \in [1 .. m -> 1 .. n] /\ \A i \in 1 .. m : k[i] = Roster[g[i]] /\ Roster[g[i]] \in N
      /\ \A i, j \in 1 .. m : i < j => g[i] < g[j]
  BY <1>6, <1>7 DEF Picked
<1>9. MentionDelegates(text) = [i \in 1 .. m |-> Made(k[i], 1)]
  BY <1>2, <1>5, <1>7 DEF MentionDelegates
<1>10. Len(MentionDelegates(text)) = m
  BY <1>9
<1>11. PICK f : f = [i \in 1 .. m |-> Roster[g[i]]]
  OBVIOUS
<1>12. f \in Injection(1 .. m, B)
  <2>1. f \in [1 .. m -> B]
    BY <1>3, <1>4, <1>7, <1>8, <1>11 DEF Range
  <2>2. \A i, j \in 1 .. m : f[i] = f[j] => i = j
    <3>1. SUFFICES ASSUME NEW i \in 1 .. m, NEW j \in 1 .. m, f[i] = f[j] PROVE i = j
      OBVIOUS
    <3>2. g[i] = g[j]
      BY <1>1, <1>7, <1>8, <1>11, <3>1 DEF IsInjective
    <3>3. QED
      BY <1>8, <3>2
  <2>3. QED
    BY <2>1, <2>2 DEF Injection, IsInjective
<1>13. IsFiniteSet(B)
  <2>1. IsFiniteSet(1 .. n) /\ IsFiniteSet(1 .. m) /\ Cardinality(1 .. m) = m
    BY FS_Interval
  <2>2. Roster \in Surjection(1 .. n, Range(Roster))
    BY <1>1, <1>7 DEF Surjection, Range, IsList
  <2>3. IsFiniteSet(Range(Roster))
    BY <2>1, <2>2, FS_Surjection
  <2>4. QED
    BY <1>3, <2>3, FS_Subset
<1>14. Cardinality(1 .. m) <= Cardinality(B)
  BY <1>12, <1>13, FS_Injection
<1>15. Cardinality(1 .. m) = m
  BY FS_Interval
<1>16. Cardinality(B) \in Nat
  BY <1>13, FS_CardinalityType
<1>17. QED
  BY <1>3, <1>10, <1>14, <1>15, <1>16

-----------------------------------------------------------------------------
(* Completion: the outcome of an answer, and how much of it has been read. *)

\* The deltas have the index of their call, in one field.
Labelled(f) == f.index /\ ~f.both

\* What AnswerIsTaken says of an outcome, the answer, who asked and the form.
Taken(o, a, lead, f) ==
  LET shown == VisibleText(a.text)
  IN /\ Words(o.spoken) = Words(shown)
     /\ a.calls # <<>> /\ Labelled(f) =>
          o.calls = [i \in DOMAIN a.calls |-> Made(a.calls[i].name, a.calls[i].pieces)]
     /\ a.calls = <<>> =>
          /\ \A t \in Runnable(shown) :
               Cardinality({i \in DOMAIN o.calls : o.calls[i].name = t.name})
                 = Count(shown, {u \in Runnable(shown) : u.name = t.name})
          /\ Runnable(o.spoken) = {}
          /\ Len(o.calls) <= Count(shown, Runnable(shown))
               + (IF lead /\ Runnable(shown) = {} THEN Cardinality(Range(Roster) \cap Tools(shown)) ELSE 0)

LEMMA TakenIs == AnswerIsTaken <=> (outcome.stage = "done" /\ ~cut => Taken(outcome, answer, ask.lead, form))
BY DEF AnswerIsTaken, Taken, Ran, Labelled

IsAnswer(a) == IsList(a.text) /\ NamedCalls(a.calls)

LEMMA AnswersAre ==
  /\ \A a \in Answers : IsAnswer(a)
  /\ IsAnswer(StubAnswer)
<1>1. ASSUME NEW a \in Answers
      PROVE  IsAnswer(a)
  BY <1>1, CompletionAssumption DEF IsAnswer, IsList, NamedCalls
<1>2. IsAnswer(StubAnswer)
  <2>1. PICK w : w = [kind |-> "words", name |-> "stub"]
    OBVIOUS
  <2>2. StubAnswer.text = <<w>> /\ StubAnswer.calls = <<>>
    BY <2>1 DEF StubAnswer
  <2>3. IsList(<<w>>) /\ IsList(<<>>) /\ Range(<<>>) = {}
    BY DEF IsList, Range
  <2>4. QED
    BY <2>2, <2>3 DEF IsAnswer, NamedCalls
<1>3. QED
  BY <1>1, <1>2

\* The outcome of a whole answer.
LEMMA CompleteIs ==
  ASSUME NEW a, IsAnswer(a), parts = a.text, NEW f, NEW native,
         Labelled(f) \/ a.calls = <<>> =>
           native = [i \in DOMAIN a.calls |-> Made(a.calls[i].name, a.calls[i].pieces)],
         NEW o, o = Complete(native)
  PROVE  Taken(o, a, ask.lead, f)
<1>1. PICK shown : shown = VisibleText(a.text)
  OBVIOUS
<1>2. IsList(shown)
  BY <1>1, VisibleIs DEF IsAnswer
<1>3. PICK m \in Nat : m = Len(a.calls) /\ DOMAIN a.calls = 1 .. m /\ IsList(a.calls)
  BY ListIsSeq DEF IsAnswer, NamedCalls
<1>4. a.calls = <<>> <=> m = 0
  BY <1>3 DEF IsList
<1>5. /\ m = 0 => native = <<>>
      /\ native = <<>> /\ Labelled(f) => m = 0
  BY <1>3, <1>4
<1>6. PICK T, calls : T = RecoverDsml(shown).text /\ calls = RecoverDsml(shown).calls \o ParseToolCalls(T)
  OBVIOUS
<1>7. o = IF native # <<>> THEN [stage |-> "done", spoken |-> shown, calls |-> native]
          ELSE [stage |-> "done", spoken |-> WithoutJsonCalls(T),
                calls |-> IF calls = <<>> /\ ask.lead THEN MentionDelegates(T) ELSE calls]
  BY <1>1, <1>6 DEF Complete
<1>8. CASE native # <<>>
  <2>1. o.spoken = shown /\ o.calls = native
    BY <1>7, <1>8
  <2>2. a.calls # <<>>
    BY <1>4, <1>5, <1>8
  <2>3. QED
    BY <1>1, <2>1, <2>2 DEF Taken
<1>9. CASE native = <<>>
  <2>1. PICK run : run = Runnable(shown)
    OBVIOUS
  <2>2. PICK bound : bound = Cardinality(Range(Roster) \cap Tools(shown))
    OBVIOUS
  <2>3. o.spoken = WithoutJsonCalls(T) /\ o.calls = IF calls = <<>> /\ ask.lead THEN MentionDelegates(T) ELSE calls
    BY <1>7, <1>9
  <2>4. /\ Words(WithoutJsonCalls(T)) = Words(shown) /\ Runnable(WithoutJsonCalls(T)) = {}
        /\ IsList(calls) /\ Len(calls) = Count(shown, run) /\ Len(calls) \in Nat
        /\ EachRuns(calls, shown, run)
        /\ run = {} => T = shown
    <3>1. Recovered(shown, T, calls)
      BY <1>6 DEF Recovered
    <3>2. /\ Words(WithoutJsonCalls(T)) = Words(shown) /\ Runnable(WithoutJsonCalls(T)) = {}
          /\ IsList(calls) /\ Len(calls) = Count(shown, Runnable(shown)) /\ Len(calls) \in Nat
          /\ Runnable(shown) = {} => T = shown
      BY <1>2, <3>1, TakenFromText
    <3>3. EachRuns(calls, shown, Runnable(shown))
      BY <1>2, <3>1, TakenFromText
    <3>4. QED
      BY <2>1, <3>2, <3>3
  <2>5. calls = <<>> <=> run = {}
    <3>1. run \subseteq Range(shown)
      BY <2>1 DEF Runnable, Calling
    <3>2. Len(calls) = Len(Keep(shown, run))
      BY <1>2, <2>4, CountIs
    <3>3. IsList(Keep(shown, run))
      BY <1>2, KeepIsList
    <3>4. calls = <<>> <=> Keep(shown, run) = <<>>
      BY <2>4, <3>2, <3>3 DEF IsList
    <3>5. Keep(shown, run) = <<>> <=> Range(shown) \cap run = {}
      BY <1>2, KeepNone
    <3>6. QED
      BY <3>1, <3>4, <3>5
  <2>6. \A t \in run : Cardinality({i \in DOMAIN o.calls : o.calls[i].name = t.name})
                         = Count(shown, {u \in run : u.name = t.name})
    <3>1. SUFFICES ASSUME NEW t \in run
                   PROVE  Cardinality({i \in DOMAIN o.calls : o.calls[i].name = t.name})
                            = Count(shown, {u \in run : u.name = t.name})
      OBVIOUS
    <3>2. o.calls = calls
      BY <2>3, <2>5, <3>1
    <3>3. QED
      BY <2>4, <3>2 DEF EachRuns
  <2>7. Len(o.calls) <= Count(shown, run) + (IF ask.lead /\ run = {} THEN bound ELSE 0)
    <3>1. CASE calls = <<>> /\ ask.lead
      <4>1. run = {} /\ T = shown /\ o.calls = MentionDelegates(shown)
        BY <2>3, <2>4, <2>5, <3>1
      <4>2. Len(o.calls) <= bound /\ bound \in Nat
        BY <2>2, <4>1, MentionsAre
      <4>3. Count(shown, run) = 0
        <5>1. Len(calls) = 0
          BY <3>1
        <5>2. Len(calls) = Count(shown, run)
          BY <2>4
        <5>3. QED
          BY <5>1, <5>2
      <4>4. Len(o.calls) <= 0 + bound
        BY <4>2
      <4>5. QED
        BY <3>1, <4>1, <4>3, <4>4
    <3>2. CASE ~(calls = <<>> /\ ask.lead)
      <4>1. o.calls = calls /\ ~(ask.lead /\ run = {})
        BY <2>3, <2>5, <3>2
      <4>2. PICK c : c = Count(shown, run)
        OBVIOUS
      <4>3. c \in Nat /\ Len(calls) = c
        BY <2>4, <4>2
      <4>4. c <= c + 0
        BY <4>3
      <4>5. QED
        BY <4>1, <4>2, <4>3, <4>4
    <3>3. QED
      BY <3>1, <3>2
  <2>8. a.calls # <<>> => ~Labelled(f)
    BY <1>4, <1>5, <1>9
  <2>9. Words(o.spoken) = Words(shown) /\ Runnable(o.spoken) = {}
    BY <2>3, <2>4
  <2>10. QED
    BY <1>1, <2>1, <2>2, <2>6, <2>7, <2>8, <2>9 DEF Taken
<1>10. QED
  BY <1>8, <1>9

\* What has been read of the answer a, when got of it has come.
ReadSoFar(a, got, text, slots, how, f) ==
  /\ IsAnswer(a)
  /\ got = [text |-> got.text, calls |-> got.calls]
  /\ got.text \in 0 .. Len(a.text) /\ got.calls \in [DOMAIN a.calls -> Nat]
  /\ IsList(text) /\ Len(text) = got.text /\ \A i \in 1 .. got.text : text[i] = a.text[i]
  /\ Labelled(f) \/ a.calls = <<>> => SlotsOf(slots, a.calls, got.calls, how)

CInv == ReadSoFar(answer, sent, parts, pending, port, form) /\ AnswerIsTaken

LEMMA ListIsFcn ==
  ASSUME NEW s, IsList(s)
  PROVE  s = [i \in 1 .. Len(s) |-> s[i]]
<1>1. PICK S : s \in Seq(S)
  BY DEF IsList
<1>2. QED
  BY <1>1

LEMMA SameList ==
  ASSUME NEW s, IsList(s), NEW t, IsList(t), Len(s) = Len(t), \A i \in 1 .. Len(t) : s[i] = t[i]
  PROVE  s = t
<1>1. s = [i \in 1 .. Len(s) |-> s[i]] /\ t = [i \in 1 .. Len(t) |-> t[i]]
  BY ListIsFcn
<1>2. QED
  BY <1>1

LEMMA NothingIsRead ==
  ASSUME NEW a, IsAnswer(a), NEW how, NEW f
  PROVE  ReadSoFar(a, NothingSent(a), <<>>, <<>>, how, f)
<1>1. PICK none : none = [i \in DOMAIN a.calls |-> 0]
  OBVIOUS
<1>2. PICK got : got = [text |-> 0, calls |-> none]
  OBVIOUS
<1>3. got = NothingSent(a) /\ got.text = 0 /\ got.calls = none
  BY <1>1, <1>2 DEF NothingSent
<1>4. none \in [DOMAIN a.calls -> Nat] /\ \A i \in DOMAIN a.calls : ~(none[i] > 0)
  BY <1>1
<1>5. Len(a.text) \in Nat
  BY ListIsSeq DEF IsAnswer
<1>6. IsList(<<>>) /\ Len(<<>>) = 0 /\ DOMAIN <<>> = {}
  BY DEF IsList
<1>7. SlotsOf(<<>>, a.calls, none, how)
  BY <1>4, <1>6 DEF Numbered, SlotsOf
<1>8. QED
  BY <1>2, <1>3, <1>4, <1>5, <1>6, <1>7 DEF ReadSoFar

LEMMA CInvInit == CInit => CInv
<1>1. SUFFICES ASSUME CInit PROVE CInv
  OBVIOUS
<1>2. answer \in Answers \cup {StubAnswer}
  BY <1>1 DEF CInit
<1>3. IsAnswer(answer)
  BY <1>2, AnswersAre
<1>4. sent = NothingSent(answer) /\ parts = <<>> /\ pending = <<>>
  BY <1>1 DEF CInit
<1>5. ReadSoFar(answer, sent, parts, pending, port, form)
  BY <1>3, <1>4, NothingIsRead
<1>6. outcome.stage # "done"
  BY <1>1 DEF CInit, Open
<1>7. QED
  BY <1>5, <1>6 DEF CInv, AnswerIsTaken

LEMMA FailsKeeps ==
  ASSUME CInv, Fails, outcome.stage = "open"
  PROVE  CInv'
<1>1. CASE port = "nvidia" /\ ask.tools
  <2>1. ReadAgain
    BY <1>1 DEF Fails
  <2>2. answer' \in Answers /\ sent' = NothingSent(answer') /\ parts' = <<>> /\ pending' = <<>>
    BY <2>1 DEF ReadAgain, Retry
  <2>3. IsAnswer(answer')
    BY <2>2, AnswersAre
  <2>4. ReadSoFar(answer', sent', parts', pending', port', form')
    BY <2>2, <2>3, NothingIsRead
  <2>5. outcome'.stage # "done"
    BY <2>1 DEF ReadAgain, Retry
  <2>6. QED
    BY <2>4, <2>5 DEF CInv, AnswerIsTaken
<1>2. CASE ~(port = "nvidia" /\ ask.tools)
  <2>1. outcome' = [Open EXCEPT !.stage = "error"] /\ UNCHANGED <<port, answer, form, sent, parts, pending>>
    BY <1>2 DEF Fails
  <2>2. outcome'.stage # "done"
    BY <2>1 DEF Open
  <2>3. QED
    BY <2>1, <2>2 DEF CInv, AnswerIsTaken
<1>3. QED
  BY <1>1, <1>2

LEMMA CInvNext == CInv /\ [CNext]_cvars => CInv'
<1>1. SUFFICES ASSUME CInv, [CNext]_cvars PROVE CInv'
  OBVIOUS
<1>2. ReadSoFar(answer, sent, parts, pending, port, form)
  BY <1>1 DEF CInv
<1>3. CASE Text
  <2>1. PICK n : n = sent.text + 1
    OBVIOUS
  <2>2. PICK x : x = answer.text[n]
    OBVIOUS
  <2>3. /\ outcome'.stage # "done" /\ sent.text < Len(answer.text)
        /\ sent' = [sent EXCEPT !.text = n] /\ parts' = Append(parts, x)
        /\ UNCHANGED <<answer, form, pending, port>>
    BY <1>3, <2>1, <2>2 DEF Text
  <2>4. /\ IsAnswer(answer) /\ sent = [text |-> sent.text, calls |-> sent.calls]
        /\ sent.text \in 0 .. Len(answer.text) /\ sent.calls \in [DOMAIN answer.calls -> Nat]
        /\ IsList(parts) /\ Len(parts) = sent.text /\ \A i \in 1 .. sent.text : parts[i] = answer.text[i]
        /\ Labelled(form) \/ answer.calls = <<>> => SlotsOf(pending, answer.calls, sent.calls, port)
    BY <1>2 DEF ReadSoFar
  <2>5. Len(answer.text) \in Nat
    BY <2>4, ListIsSeq DEF IsAnswer
  <2>6. sent' = [text |-> n, calls |-> sent.calls] /\ n \in 0 .. Len(answer.text)
    BY <2>1, <2>3, <2>4, <2>5
  <2>7. sent'.text = n /\ sent'.calls = sent.calls
    BY <2>6
  <2>8. IsList(parts')
    BY <2>3, <2>4, ListAppend
  <2>9. Len(parts') = n /\ \A i \in 1 .. n : parts'[i] = answer.text[i]
    <3>1. PICK m \in Nat : m = sent.text
      BY <2>4, <2>5
    <3>2. parts \in Seq(Range(parts))
      BY <2>4 DEF IsList
    <3>3. /\ Len(parts') = m + 1 /\ parts'[m + 1] = x
          /\ \A i \in 1 .. m : parts'[i] = parts[i]
      BY <2>3, <2>4, <3>1, <3>2, AppendIs
    <3>4. \A i \in 1 .. m + 1 : i \in 1 .. m \/ i = m + 1
      OBVIOUS
    <3>5. \A i \in 1 .. m : parts'[i] = answer.text[i]
      BY <2>4, <3>1, <3>3
    <3>6. QED
      BY <2>1, <2>2, <3>1, <3>3, <3>4, <3>5
  <2>10. ReadSoFar(answer', sent', parts', pending', port', form')
    BY <2>3, <2>4, <2>6, <2>7, <2>8, <2>9 DEF ReadSoFar
  <2>11. QED
    BY <2>3, <2>10 DEF CInv, AnswerIsTaken
<1>4. CASE \E i \in DOMAIN answer.calls : Fragment(i)
  <2>1. PICK i \in DOMAIN answer.calls : Fragment(i)
    BY <1>4
  <2>2. PICK piece, name : /\ piece = sent.calls[i] + 1
                           /\ name = IF piece = 1 THEN answer.calls[i].name ELSE ""
    OBVIOUS
  <2>3. PICK had : had = [sent.calls EXCEPT ![i] = piece]
    OBVIOUS
  <2>5. /\ outcome'.stage # "done"
        /\ port = "nvidia" /\ piece = 1 => \A j \in 1 .. i - 1 : sent.calls[j] > 0
        /\ sent' = [sent EXCEPT !.calls = had] /\ UNCHANGED <<answer, form, parts, port>>
    BY <2>1, <2>2, <2>3 DEF Fragment
  <2>6. Labelled(form) => pending' = Added(pending, <<"index", i>>, name, i, piece)
    <3>1. pending' = IF port = "nvidia" THEN CollectCalls(pending, name, i, piece)
                     ELSE Accumulate(pending, name, i, piece)
      BY <2>1, <2>2 DEF Fragment
    <3>2. PICK key : key = <<"index", i>>
      OBVIOUS
    <3>3. form.index => \A number : KeyOf(name, i, piece, number) = key
      BY <3>2 DEF KeyOf
    <3>4. QED
      BY <3>1, <3>2, <3>3 DEF Accumulate, CollectCalls, Labelled
  <2>7. /\ IsAnswer(answer) /\ sent = [text |-> sent.text, calls |-> sent.calls]
        /\ sent.text \in 0 .. Len(answer.text) /\ sent.calls \in [DOMAIN answer.calls -> Nat]
        /\ IsList(parts) /\ Len(parts) = sent.text /\ \A j \in 1 .. sent.text : parts[j] = answer.text[j]
        /\ Labelled(form) => SlotsOf(pending, answer.calls, sent.calls, port)
    BY <1>2 DEF ReadSoFar
  <2>8. sent' = [text |-> sent.text, calls |-> had]
    BY <2>5, <2>7
  <2>9. sent'.text = sent.text /\ sent'.calls = had
    BY <2>8
  <2>10. PieceIs(name, piece, answer.calls, sent.calls, port, i)
    BY <2>2, <2>5 DEF PieceIs
  <2>11. ASSUME Labelled(form)
         PROVE  SlotsOf(pending', answer.calls, had, port)
    <3>1. NamedCalls(answer.calls)
      BY <2>7 DEF IsAnswer
    <3>2. SlotsOf(Added(pending, <<"index", i>>, name, i, piece), answer.calls,
                  [sent.calls EXCEPT ![i] = piece], port)
      BY <2>7, <2>10, <2>11, <3>1, PutIs
    <3>3. QED
      BY <2>3, <2>6, <2>11, <3>2
  <2>15. answer.calls # <<>>
    BY <2>1
  <2>12. had \in [DOMAIN answer.calls -> Nat]
    <3>1. PICK f : f = sent.calls
      OBVIOUS
    <3>2. f \in [DOMAIN answer.calls -> Nat]
      BY <2>7, <3>1
    <3>3. piece = f[i] + 1
      BY <2>2, <3>1
    <3>4. piece \in Nat
      BY <3>2, <3>3
    <3>5. had = [f EXCEPT ![i] = piece]
      BY <2>3, <3>1
    <3>6. QED
      BY <3>2, <3>4, <3>5
  <2>13. ReadSoFar(answer', sent', parts', pending', port', form')
    BY <2>5, <2>7, <2>8, <2>9, <2>11, <2>12, <2>15 DEF ReadSoFar
  <2>14. QED
    BY <2>5, <2>13 DEF CInv, AnswerIsTaken
<1>5. CASE Cut
  <2>1. outcome'.stage # "done" /\ UNCHANGED <<port, answer, form, sent, parts, pending>>
    BY <1>5 DEF Cut
  <2>2. QED
    BY <1>2, <2>1 DEF CInv, AnswerIsTaken
<1>6. CASE Breaks
  BY <1>1, <1>6, FailsKeeps DEF Breaks
<1>7. CASE StreamEnds
  <2>1. CASE Unsortable(pending) \/ (parts = <<>> /\ Named(pending) = <<>>)
    BY <1>1, <1>7, <2>1, FailsKeeps DEF StreamEnds
  <2>2. CASE ~(Unsortable(pending) \/ (parts = <<>> /\ Named(pending) = <<>>))
    <3>1. PICK native : native = ExtractCalls(pending)
      OBVIOUS
    <3>2. /\ outcome' = Complete(native)
          /\ UNCHANGED <<ask, port, answer, form, sent, parts, pending, cut>>
      BY <1>7, <2>2, <3>1 DEF StreamEnds
    <3>3. ASSUME ~cut
          PROVE  Taken(outcome', answer, ask.lead, form)
      <4>1. PICK all : all = [i \in DOMAIN answer.calls |-> answer.calls[i].pieces]
        OBVIOUS
      <4>2. sent = [text |-> Len(answer.text), calls |-> all]
        BY <1>7, <3>3, <4>1 DEF StreamEnds
      <4>3. sent.text = Len(answer.text) /\ sent.calls = all
        BY <4>2
      <4>4. /\ IsAnswer(answer) /\ IsList(parts) /\ Len(parts) = sent.text
            /\ \A i \in 1 .. sent.text : parts[i] = answer.text[i]
            /\ Labelled(form) \/ answer.calls = <<>> => SlotsOf(pending, answer.calls, sent.calls, port)
        BY <1>2 DEF ReadSoFar
      <4>5. parts = answer.text
        <5>1. IsList(answer.text)
          BY <4>4 DEF IsAnswer
        <5>2. QED
          BY <4>3, <4>4, <5>1, SameList
      <4>6. ASSUME Labelled(form) \/ answer.calls = <<>>
            PROVE  native = [i \in DOMAIN answer.calls |-> Made(answer.calls[i].name, answer.calls[i].pieces)]
        <5>1. NamedCalls(answer.calls)
          BY <4>4 DEF IsAnswer
        <5>2. \A i \in DOMAIN answer.calls : sent.calls[i] = answer.calls[i].pieces
          BY <4>1, <4>3
        <5>3. QED
          BY <3>1, <4>4, <4>6, <5>1, <5>2, ExtractIs
      <4>7. QED
        BY <3>2, <4>4, <4>5, <4>6, CompleteIs
    <3>4. QED
      BY <1>2, <3>2, <3>3, TakenIs DEF CInv, AnswerIsTaken, Taken, Ran, Labelled
  <2>3. QED
    BY <2>1, <2>2
<1>8. CASE CDone \/ UNCHANGED cvars
  <2>1. UNCHANGED <<ask, port, answer, form, sent, parts, pending, cut, outcome>>
    BY <1>8 DEF CDone, cvars
  <2>2. AnswerIsTaken'
    BY <1>1, <2>1 DEF CInv, AnswerIsTaken, Ran
  <2>3. QED
    BY <1>2, <2>1, <2>2 DEF CInv
<1>9. QED
  BY <1>1, <1>3, <1>4, <1>5, <1>6, <1>7, <1>8 DEF CNext

LEMMA CInvHolds == CSpec => []CInv
BY CInvInit, CInvNext, PTL DEF CSpec

\* However the deltas of an answer interleave and whatever was dropped and
\* asked for again before (accumulate, collect_calls, _complete), for any
\* answers, tools and coworkers: of an answer not cut off, no word of the
\* visible text is lost; without native calls, those in the visible text are
\* run, each once, and none is left in it; and native calls whose deltas have
\* their index, in one field, are run in order, each with all its arguments.
THEOREM AnswersAreTakenWhole == CSpec => []AnswerIsTaken
BY CInvHolds, PTL DEF CInv

-----------------------------------------------------------------------------
(* Sorting.                                                                *)

StrictOrder(before, S) ==
  /\ \A x \in S : <<x, x>> \notin before
  /\ \A x, y, z \in S : <<x, y>> \in before /\ <<y, z>> \in before => <<x, z>> \in before
  /\ \A x, y \in S : x = y \/ <<x, y>> \in before \/ <<y, x>> \in before

Below(S, before, x) == {y \in S : <<y, x>> \in before}

LEMMA RanksAre ==
  ASSUME NEW S, IsFiniteSet(S), NEW before, StrictOrder(before, S)
  PROVE  /\ \A x \in S : Cardinality(Below(S, before, x)) \in 0 .. Cardinality(S) - 1
         /\ \A x, y \in S : Cardinality(Below(S, before, x)) = Cardinality(Below(S, before, y)) => x = y
<1>1. PICK N \in Nat : N = Cardinality(S)
  BY FS_CardinalityType
<1>2. ASSUME NEW x \in S
      PROVE  /\ IsFiniteSet(Below(S, before, x)) /\ Cardinality(Below(S, before, x)) \in Nat
             /\ x \notin Below(S, before, x) /\ Below(S, before, x) \in SUBSET S
  <2>1. Below(S, before, x) \in SUBSET S /\ x \notin Below(S, before, x)
    BY DEF Below, StrictOrder
  <2>2. IsFiniteSet(Below(S, before, x))
    BY <2>1, FS_Subset
  <2>3. QED
    BY <2>1, <2>2, FS_CardinalityType
<1>3. ASSUME NEW x \in S
      PROVE  Cardinality(Below(S, before, x)) \in 0 .. N - 1
  <2>1. PICK b \in SUBSET S : b = Below(S, before, x) /\ x \notin b /\ Cardinality(b) \in Nat
    BY <1>2
  <2>2. Cardinality(b) <= N /\ (N = Cardinality(b) => S = b)
    BY <1>1, FS_Subset
  <2>3. Cardinality(b) # N
    BY <2>1, <2>2
  <2>4. QED
    BY <2>1, <2>2, <2>3
<1>4. ASSUME NEW x \in S, NEW y \in S, <<x, y>> \in before
      PROVE  Cardinality(Below(S, before, x)) # Cardinality(Below(S, before, y))
  <2>1. PICK a, b : a = Below(S, before, x) /\ b = Below(S, before, y)
    OBVIOUS
  <2>2. a \in SUBSET b /\ x \in b /\ x \notin a
    BY <1>4, <2>1 DEF Below, StrictOrder
  <2>3. IsFiniteSet(b)
    BY <1>2, <2>1
  <2>4. Cardinality(b) = Cardinality(a) => b = a
    BY <2>2, <2>3, FS_Subset
  <2>5. QED
    BY <2>1, <2>2, <2>4
<1>5. ASSUME NEW x \in S, NEW y \in S,
             Cardinality(Below(S, before, x)) = Cardinality(Below(S, before, y))
      PROVE  x = y
  <2>1. <<x, y>> \notin before /\ <<y, x>> \notin before
    BY <1>4, <1>5
  <2>2. QED
    BY <2>1 DEF StrictOrder
<1>6. QED
  BY <1>1, <1>3, <1>5

LEMMA ArrangedIs ==
  ASSUME NEW S, IsFiniteSet(S), NEW before, StrictOrder(before, S)
  PROVE  /\ IsList(Arranged(S, before)) /\ IsInjective(Arranged(S, before))
         /\ Range(Arranged(S, before)) = S
<1>1. PICK N \in Nat : N = Cardinality(S)
  BY FS_CardinalityType
<1>2. PICK rank : rank = [x \in S |-> Cardinality(Below(S, before, x)) + 1]
  OBVIOUS
<1>3. /\ \A x \in S : Cardinality(Below(S, before, x)) \in 0 .. N - 1
      /\ \A x, y \in S : Cardinality(Below(S, before, x)) = Cardinality(Below(S, before, y)) => x = y
  BY <1>1, RanksAre
<1>4. rank \in [S -> 1 .. N]
  BY <1>2, <1>3
<1>5. \A x, y \in S : rank[x] = rank[y] => x = y
  <2>1. SUFFICES ASSUME NEW x \in S, NEW y \in S, rank[x] = rank[y] PROVE x = y
    OBVIOUS
  <2>2. PICK a, b : a = Cardinality(Below(S, before, x)) /\ b = Cardinality(Below(S, before, y))
    OBVIOUS
  <2>3. a \in Nat /\ b \in Nat /\ a + 1 = b + 1
    BY <1>2, <1>3, <2>1, <2>2
  <2>4. a = b
    BY <2>3
  <2>5. QED
    BY <1>3, <2>2, <2>4
<1>6. IsFiniteSet(1 .. N) /\ Cardinality(1 .. N) = N
  BY FS_Interval
<1>7. rank \in Injection(S, 1 .. N)
  BY <1>4, <1>5 DEF Injection, IsInjective
<1>8. rank \in Surjection(S, 1 .. N)
  BY <1>1, <1>6, <1>7, FS_Injection
<1>9. \A n \in 1 .. N : \E x \in S : rank[x] = n
  BY <1>8 DEF Surjection
<1>10. PICK s : s = Arranged(S, before)
  OBVIOUS
<1>11. s = [n \in 1 .. N |-> CHOOSE x \in S : Cardinality(Below(S, before, x)) = n - 1]
  BY <1>1, <1>10 DEF Arranged, Below
<1>12. ASSUME NEW n \in 1 .. N
       PROVE  s[n] \in S /\ rank[s[n]] = n
  <2>1. PICK x \in S : rank[x] = n
    BY <1>9
  <2>2. Cardinality(Below(S, before, x)) = n - 1
    BY <1>2, <1>3, <2>1
  <2>3. s[n] \in S /\ Cardinality(Below(S, before, s[n])) = n - 1
    BY <1>11, <2>2
  <2>4. QED
    BY <1>2, <2>3
<1>13. s \in [1 .. N -> S]
  BY <1>11, <1>12
<1>14. IsList(s)
  BY <1>13 DEF IsList, Range
<1>15. IsInjective(s)
  BY <1>12, <1>13 DEF IsInjective
<1>16. Range(s) = S
  <2>1. \A x \in S : rank[x] \in 1 .. N /\ s[rank[x]] = x
    BY <1>4, <1>5, <1>12
  <2>2. QED
    BY <1>13, <2>1 DEF Range
<1>17. QED
  BY <1>10, <1>14, <1>15, <1>16

LEMMA InjectiveCount ==
  ASSUME NEW s, IsList(s), IsInjective(s)
  PROVE  Cardinality(Range(s)) = Len(s) /\ IsFiniteSet(Range(s))
<1>1. PICK n \in Nat : n = Len(s) /\ DOMAIN s = 1 .. n
  BY ListIsSeq
<1>2. IsFiniteSet(1 .. n) /\ Cardinality(1 .. n) = n
  BY FS_Interval
<1>3. s \in [1 .. n -> Range(s)]
  BY <1>1 DEF IsList, Range
<1>4. s \in Surjection(1 .. n, Range(s))
  BY <1>1, <1>3 DEF Surjection, Range
<1>5. s \in Injection(1 .. n, Range(s))
  BY <1>3 DEF Injection
<1>6. QED
  BY <1>1, <1>2, <1>4, <1>5, FS_Surjection

LEMMA ListIsFinite ==
  ASSUME NEW s, IsList(s)
  PROVE  IsFiniteSet(Range(s)) /\ Cardinality(Range(s)) <= Len(s) /\ IsFiniteSet(DOMAIN s)
<1>1. PICK n \in Nat : n = Len(s) /\ DOMAIN s = 1 .. n
  BY ListIsSeq
<1>2. IsFiniteSet(1 .. n) /\ Cardinality(1 .. n) = n
  BY FS_Interval
<1>3. s \in Surjection(1 .. n, Range(s))
  BY <1>1 DEF Surjection, Range, IsList
<1>4. QED
  BY <1>1, <1>2, <1>3, FS_Surjection

-----------------------------------------------------------------------------
(* Benchmark: what a conversation holds, and what the memories find in it. *)

LEMMA TurnsAreFinite ==
  ASSUME NEW c \in DOMAIN Samples
  PROVE  IsFiniteSet(Turns(c))
<1>1. PICK s : s = Samples[c].sessions
  OBVIOUS
<1>2. IsList(s) /\ \A i \in DOMAIN s : IsList(s[i].turns)
  BY <1>1, SamplesAssumption DEF IsList
<1>3. PICK F : F = {{i} \X DOMAIN s[i].turns : i \in DOMAIN s}
  OBVIOUS
<1>4. Turns(c) = UNION F
  BY <1>1, <1>3 DEF Turns
<1>5. IsFiniteSet(F)
  <2>1. PICK f : f = [i \in DOMAIN s |-> {i} \X DOMAIN s[i].turns]
    OBVIOUS
  <2>2. f \in Surjection(DOMAIN s, F)
    BY <1>3, <2>1 DEF Surjection
  <2>3. IsFiniteSet(DOMAIN s)
    BY <1>2, ListIsFinite
  <2>4. QED
    BY <2>2, <2>3, FS_Surjection
<1>6. ASSUME NEW T \in F
      PROVE  IsFiniteSet(T)
  <2>1. PICK i \in DOMAIN s : T = {i} \X DOMAIN s[i].turns
    BY <1>3, <1>6
  <2>2. IsFiniteSet({i})
    BY FS_Singleton
  <2>3. IsFiniteSet(DOMAIN s[i].turns)
    BY <1>2, ListIsFinite
  <2>4. QED
    BY <2>1, <2>2, <2>3, FS_Product
<1>7. QED
  BY <1>4, <1>5, <1>6, FS_UNION

LEMMA TurnsAre ==
  ASSUME NEW c \in DOMAIN Samples, NEW p \in Turns(c)
  PROVE  /\ p = <<p[1], p[2]>> /\ p[1] \in DOMAIN Samples[c].sessions /\ p[1] \in Nat /\ p[2] \in Nat
         /\ Samples[c].sessions[p[1]].number \in Nat
<1>1. PICK s : s = Samples[c].sessions
  OBVIOUS
<1>2. /\ IsList(s) /\ \A i \in DOMAIN s : IsList(s[i].turns) /\ s[i].number \in Nat
  BY <1>1, SamplesAssumption DEF IsList
<1>3. PICK i \in DOMAIN s : p \in {i} \X DOMAIN s[i].turns
  BY <1>1 DEF Turns
<1>4. i \in Nat
  BY <1>2, ListIsSeq
<1>5. DOMAIN s[i].turns \subseteq Nat
  BY <1>2, ListIsSeq
<1>6. PICK j \in DOMAIN s[i].turns : p = <<i, j>>
  BY <1>3
<1>7. QED
  BY <1>1, <1>2, <1>4, <1>5, <1>6

LEMMA EarlierIsOrder ==
  ASSUME NEW c \in DOMAIN Samples
  PROVE  StrictOrder({p \in Turns(c) \X Turns(c) : Earlier(c, p[1], p[2])}, Turns(c))
<1>1. PICK s : s = Samples[c].sessions
  OBVIOUS
<1>2. PICK T : T = Turns(c)
  OBVIOUS
<1>3. PICK R : R = {p \in T \X T : Earlier(c, p[1], p[2])}
  OBVIOUS
<1>4. \A p, q \in T : <<p, q>> \in R <=> Earlier(c, p, q)
  BY <1>3
<1>5. \A i, j \in DOMAIN s : s[i].number = s[j].number => i = j
  BY <1>1, SamplesAssumption
<1>6. PICK num : num = [p \in T |-> s[p[1]].number]
  OBVIOUS
<1>7. PICK pos : pos = [p \in T |-> p[2]]
  OBVIOUS
<1>8. ASSUME NEW p \in T
      PROVE  num[p] \in Nat /\ pos[p] \in Nat
  <2>1. p \in Turns(c)
    BY <1>2
  <2>2. s[p[1]].number \in Nat /\ p[2] \in Nat
    BY <1>1, <2>1, TurnsAre
  <2>3. QED
    BY <1>6, <1>7, <2>2
<1>9. \A p, q \in T : Earlier(c, p, q) <=> num[p] < num[q] \/ (num[p] = num[q] /\ pos[p] < pos[q])
  BY <1>1, <1>6, <1>7 DEF Earlier
<1>10. ASSUME NEW p \in T, NEW q \in T, num[p] = num[q], pos[p] = pos[q]
       PROVE  p = q
  <2>1. p \in Turns(c) /\ q \in Turns(c)
    BY <1>2
  <2>2. p = <<p[1], p[2]>> /\ p[1] \in DOMAIN s
    BY <1>1, <2>1, TurnsAre
  <2>3. q = <<q[1], q[2]>> /\ q[1] \in DOMAIN s
    BY <1>1, <2>1, TurnsAre
  <2>4. s[p[1]].number = s[q[1]].number /\ p[2] = q[2]
    BY <1>6, <1>7, <1>10
  <2>5. p[1] = q[1]
    BY <1>5, <2>2, <2>3, <2>4
  <2>6. QED
    BY <2>2, <2>3, <2>4, <2>5
<1>11. \A x \in T : ~Earlier(c, x, x)
  BY <1>8, <1>9
<1>12. \A x, y, z \in T : Earlier(c, x, y) /\ Earlier(c, y, z) => Earlier(c, x, z)
  BY <1>8, <1>9
<1>13. \A x, y \in T : x = y \/ Earlier(c, x, y) \/ Earlier(c, y, x)
  <2>1. SUFFICES ASSUME NEW x \in T, NEW y \in T, ~Earlier(c, x, y), ~Earlier(c, y, x) PROVE x = y
    OBVIOUS
  <2>2. num[x] = num[y] /\ pos[x] = pos[y]
    BY <1>8, <1>9, <2>1
  <2>3. QED
    BY <1>10, <2>2
<1>14. StrictOrder(R, T)
  BY <1>4, <1>11, <1>12, <1>13 DEF StrictOrder
<1>15. QED
  BY <1>2, <1>3, <1>14

LEMMA ChunksAre ==
  ASSUME NEW c \in DOMAIN Samples
  PROVE  /\ IsList(Chunks(c)) /\ IsInjective(Chunks(c))
         /\ \A x \in Range(Chunks(c)) : x.convo = c /\ x.id \in Ids(c) /\ IsFiniteSet(x.norms)
<1>1. PICK T, R : T = Turns(c) /\ R = {p \in Turns(c) \X Turns(c) : Earlier(c, p[1], p[2])}
  OBVIOUS
<1>2. IsFiniteSet(T) /\ StrictOrder(R, T)
  BY <1>1, TurnsAreFinite, EarlierIsOrder
<1>3. PICK o : o = Arranged(T, R)
  OBVIOUS
<1>4. IsList(o) /\ IsInjective(o) /\ Range(o) = T
  BY <1>2, <1>3, ArrangedIs
<1>5. PICK n \in Nat : DOMAIN o = 1 .. n
  BY <1>4, ListIsSeq
<1>6. PICK k : k = Chunks(c)
  OBVIOUS
<1>7. k = [i \in 1 .. n |-> Chunk(c, TurnAt(c, o[i]))]
  BY <1>1, <1>3, <1>5, <1>6 DEF Chunks
<1>8. \A i \in 1 .. n : o[i] \in Turns(c)
  BY <1>1, <1>4, <1>5 DEF Range
<1>9. \A p \in Turns(c) : IsFiniteSet(TurnAt(c, p).norms)
  BY SamplesAssumption
<1>10. \A p, q \in Turns(c) : TurnAt(c, p).id = TurnAt(c, q).id => p = q
  BY SamplesAssumption
<1>11. \A t : Chunk(c, t).convo = c /\ Chunk(c, t).id = t.id /\ Chunk(c, t).norms = t.norms
  BY DEF Chunk
<1>12. \A i \in 1 .. n : k[i].convo = c /\ k[i].id \in Ids(c) /\ IsFiniteSet(k[i].norms)
  <2>1. ASSUME NEW i \in 1 .. n
        PROVE  k[i].convo = c /\ k[i].id \in Ids(c) /\ IsFiniteSet(k[i].norms)
    <3>1. PICK p \in Turns(c) : p = o[i]
      BY <1>8
    <3>2. PICK t : t = TurnAt(c, p)
      OBVIOUS
    <3>3. k[i] = Chunk(c, t)
      BY <1>7, <3>1, <3>2
    <3>4. t.id \in Ids(c)
      <4>1. Ids(c) = {TurnAt(c, q).id : q \in Turns(c)}
        BY DEF Ids
      <4>2. TurnAt(c, p).id \in {TurnAt(c, q).id : q \in Turns(c)}
        BY <3>1
      <4>3. QED
        BY <3>2, <4>1, <4>2
    <3>5. IsFiniteSet(t.norms)
      BY <1>9, <3>2
    <3>6. QED
      BY <1>11, <3>3, <3>4, <3>5
  <2>2. QED
    BY <2>1
<1>13. IsList(k)
  BY <1>7 DEF IsList, Range
<1>14. IsInjective(k)
  <2>1. SUFFICES ASSUME NEW i \in 1 .. n, NEW j \in 1 .. n, k[i] = k[j] PROVE i = j
    BY <1>7 DEF IsInjective
  <2>2. k[i].id = TurnAt(c, o[i]).id /\ k[j].id = TurnAt(c, o[j]).id
    BY <1>7, <1>11
  <2>3. o[i] = o[j]
    BY <1>8, <1>10, <2>1, <2>2
  <2>4. QED
    BY <1>4, <1>5, <2>3 DEF IsInjective
<1>15. \A x \in Range(k) : x.convo = c /\ x.id \in Ids(c) /\ IsFiniteSet(x.norms)
  BY <1>7, <1>12 DEF Range
<1>16. QED
  BY <1>6, <1>13, <1>14, <1>15

LEMMA TopIs ==
  ASSUME NEW s, IsList(s), IsInjective(s)
  PROVE  /\ IsList(Top(s)) /\ IsInjective(Top(s)) /\ Range(Top(s)) \subseteq Range(s)
         /\ Len(Top(s)) \in Nat /\ Len(Top(s)) <= K
<1>1. PICK n \in Nat : n = Len(s) /\ DOMAIN s = 1 .. n
  BY ListIsSeq
<1>2. K \in Nat
  BY BenchmarkAssumption
<1>3. PICK m \in Nat : m = (IF K < n THEN K ELSE n) /\ m <= n /\ m <= K
  BY <1>2
<1>4. PICK r : r = Top(s)
  OBVIOUS
<1>5. r = [i \in 1 .. m |-> s[i]]
  <2>1. r = SubSeq(s, 1, m)
    BY <1>1, <1>3, <1>4 DEF Top
  <2>2. SubSeq(s, 1, m) = [i \in 1 .. m |-> s[i]]
    BY <1>1, <1>3 DEF IsList
  <2>3. QED
    BY <2>1, <2>2
<1>6. \A i \in 1 .. m : i \in 1 .. n /\ s[i] \in Range(s)
  BY <1>1, <1>3 DEF Range
<1>7. IsList(r) /\ Len(r) = m /\ Range(r) \subseteq Range(s)
  <2>1. DOMAIN r = 1 .. m /\ Len(r) = m
    BY <1>5
  <2>2. Range(r) \subseteq Range(s)
    BY <1>5, <1>6 DEF Range
  <2>3. r = [i \in 1 .. m |-> r[i]] /\ \A i \in 1 .. m : r[i] \in Range(r)
    BY <1>5 DEF Range
  <2>4. r \in Seq(Range(r))
    BY <2>3
  <2>5. QED
    BY <2>1, <2>2, <2>4 DEF IsList
<1>8. IsInjective(r)
  BY <1>1, <1>5, <1>6 DEF IsInjective
<1>9. QED
  BY <1>3, <1>4, <1>7, <1>8

\* What a question can be scored on: K chunks at most of the conversation, each once.
FairHits(h, c) ==
  IsList(h) /\ IsInjective(h) /\ Len(h) <= K /\ Range(h) \subseteq Range(Chunks(c))

LEMMA TopIsFair ==
  ASSUME NEW s, IsList(s), IsInjective(s), NEW c, Range(s) \subseteq Range(Chunks(c))
  PROVE  FairHits(Top(s), c)
BY TopIs DEF FairHits

LEMMA WeightIs ==
  ASSUME NEW m, NEW i, IsFiniteSet(m.chunks[i].norms), NEW norms
  PROVE  Weight(m, i, norms) \in Nat
<1>1. Idf \in Seq(Nat) /\ Idf # <<>>
  BY BenchmarkAssumption
<1>2. PICK top \in Nat : top = Idf[1]
  BY <1>1
<1>3. IsFiniteSet(1 .. top)
  BY FS_Interval
<1>4. PICK both : both = norms \cap m.chunks[i].norms
  OBVIOUS
<1>5. IsFiniteSet(both)
  BY <1>4, FS_Subset
<1>6. IsFiniteSet(both \X (1 .. top))
  BY <1>3, <1>5, FS_Product
<1>7. PICK P : P = {p \in both \X (1 .. top) : p[2] <= Idf[Degree(m, p[1]) + 1]}
  OBVIOUS
<1>8. IsFiniteSet(P)
  BY <1>6, <1>7, FS_Subset
<1>9. Weight(m, i, norms) = Cardinality(P)
  BY <1>2, <1>4, <1>7 DEF Weight
<1>10. QED
  BY <1>8, <1>9, FS_CardinalityType

\* Scores, and the order of the conversation among equals, leave no tie.
LEMMA ScoresOrder ==
  ASSUME NEW S \in SUBSET Nat, NEW score \in [S -> Nat]
  PROVE  StrictOrder({p \in S \X S : score[p[1]] > score[p[2]]
                                     \/ (score[p[1]] = score[p[2]] /\ p[1] < p[2])}, S)
<1>1. PICK R : R = {p \in S \X S : score[p[1]] > score[p[2]]
                                   \/ (score[p[1]] = score[p[2]] /\ p[1] < p[2])}
  OBVIOUS
<1>2. \A p, q \in S : <<p, q>> \in R <=> score[p] > score[q] \/ (score[p] = score[q] /\ p < q)
  BY <1>1
<1>3. \A p \in S : p \in Nat /\ score[p] \in Nat
  OBVIOUS
<1>4. \A x \in S : <<x, x>> \notin R
  BY <1>2, <1>3
<1>5. \A x, y, z \in S : <<x, y>> \in R /\ <<y, z>> \in R => <<x, z>> \in R
  <2>1. SUFFICES ASSUME NEW x \in S, NEW y \in S, NEW z \in S, <<x, y>> \in R, <<y, z>> \in R
                 PROVE  <<x, z>> \in R
    OBVIOUS
  <2>2. score[x] > score[y] \/ (score[x] = score[y] /\ x < y)
    BY <1>2, <2>1
  <2>3. score[y] > score[z] \/ (score[y] = score[z] /\ y < z)
    BY <1>2, <2>1
  <2>4. score[x] > score[z] \/ (score[x] = score[z] /\ x < z)
    BY <1>3, <2>2, <2>3
  <2>5. <<x, z>> \in R <=> score[x] > score[z] \/ (score[x] = score[z] /\ x < z)
    BY <1>2
  <2>6. QED
    BY <2>4, <2>5
<1>6. \A x, y \in S : x = y \/ <<x, y>> \in R \/ <<y, x>> \in R
  <2>1. SUFFICES ASSUME NEW x \in S, NEW y \in S, <<x, y>> \notin R, <<y, x>> \notin R
                 PROVE  x = y
    OBVIOUS
  <2>2. ~(score[x] > score[y]) /\ ~(score[x] = score[y] /\ x < y)
    BY <1>2, <2>1
  <2>3. ~(score[y] > score[x]) /\ ~(score[y] = score[x] /\ y < x)
    BY <1>2, <2>1
  <2>4. QED
    BY <1>3, <2>2, <2>3
<1>7. QED
  BY <1>1, <1>4, <1>5, <1>6 DEF StrictOrder

\* A choice of positions of a list, each once, is a list of different elements.
LEMMA PickedAre ==
  ASSUME NEW s, IsList(s), IsInjective(s), NEW o, IsList(o), IsInjective(o),
         Range(o) \subseteq DOMAIN s
  PROVE  /\ IsList([n \in DOMAIN o |-> s[o[n]]]) /\ IsInjective([n \in DOMAIN o |-> s[o[n]]])
         /\ Range([n \in DOMAIN o |-> s[o[n]]]) \subseteq Range(s)
<1>1. PICK len \in Nat : DOMAIN o = 1 .. len
  BY ListIsSeq
<1>2. PICK r : r = [n \in DOMAIN o |-> s[o[n]]]
  OBVIOUS
<1>3. \A n \in 1 .. len : r[n] = s[o[n]] /\ o[n] \in DOMAIN s
  BY <1>1, <1>2 DEF Range
<1>4. Range(r) \subseteq Range(s)
  BY <1>1, <1>2, <1>3 DEF Range
<1>5. IsInjective(r)
  BY <1>1, <1>2, <1>3 DEF IsInjective
<1>6. IsList(r)
  <2>1. DOMAIN r = 1 .. len /\ \A n \in 1 .. len : r[n] \in Range(r)
    BY <1>1, <1>2 DEF Range
  <2>2. r = [n \in 1 .. len |-> r[n]]
    BY <1>1, <1>2
  <2>3. r \in Seq(Range(r))
    BY <2>1, <2>2
  <2>4. QED
    BY <2>3 DEF IsList
<1>7. QED
  BY <1>2, <1>4, <1>5, <1>6

LEMMA RankedIsFair ==
  ASSUME NEW m, NEW c \in DOMAIN Samples, m.chunks = Chunks(c), NEW seeds, NEW hops
  PROVE  FairHits(Ranked(m, seeds, hops), c)
<1>1. PICK k : k = m.chunks
  OBVIOUS
<1>2. IsList(k) /\ IsInjective(k) /\ \A x \in Range(k) : IsFiniteSet(x.norms)
  BY <1>1, ChunksAre
<1>3. DOMAIN k \subseteq Nat /\ IsFiniteSet(DOMAIN k)
  BY <1>2, ListIsSeq, ListIsFinite
<1>4. PICK S : S = Found(m, seeds \cup hops)
  OBVIOUS
<1>5. S \subseteq DOMAIN k
  BY <1>1, <1>4 DEF Found, Mentions
<1>6. IsFiniteSet(S) /\ S \subseteq Nat
  BY <1>3, <1>5, FS_Subset
<1>7. PICK score : score = [i \in S |-> 100 * Weight(m, i, seeds) + 35 * Weight(m, i, hops)]
  OBVIOUS
<1>8. ASSUME NEW i \in S
      PROVE  100 * Weight(m, i, seeds) + 35 * Weight(m, i, hops) \in Nat
  <2>1. IsFiniteSet(k[i].norms)
    BY <1>2, <1>5 DEF Range
  <2>2. Weight(m, i, seeds) \in Nat /\ Weight(m, i, hops) \in Nat
    BY <1>1, <2>1, WeightIs
  <2>3. QED
    BY <2>2
<1>9. score \in [S -> Nat]
  BY <1>7, <1>8
<1>10. PICK R : R = {p \in S \X S : score[p[1]] > score[p[2]]
                                    \/ (score[p[1]] = score[p[2]] /\ p[1] < p[2])}
  OBVIOUS
<1>11. StrictOrder(R, S)
  BY <1>6, <1>9, <1>10, ScoresOrder
<1>12. PICK o : o = Arranged(S, R)
  OBVIOUS
<1>13. IsList(o) /\ IsInjective(o) /\ Range(o) = S
  BY <1>6, <1>11, <1>12, ArrangedIs
<1>14. PICK r : r = [n \in DOMAIN o |-> k[o[n]]]
  OBVIOUS
<1>15. IsList(r) /\ IsInjective(r) /\ Range(r) \subseteq Range(k)
  BY <1>2, <1>5, <1>13, <1>14, PickedAre
<1>16. Ranked(m, seeds, hops) = Top(r)
  BY <1>1, <1>4, <1>7, <1>10, <1>12, <1>14 DEF Ranked
<1>17. QED
  BY <1>1, <1>15, <1>16, TopIsFair

\* Each element of a list once, at its first place.
LEMMA OnceIs ==
  ASSUME NEW s, IsList(s)
  PROVE  IsList(Once(s)) /\ IsInjective(Once(s)) /\ Range(Once(s)) \subseteq Range(s)
<1>1. PICK len \in Nat : len = Len(s) /\ DOMAIN s = 1 .. len
  BY ListIsSeq
<1>2. PICK t : t = [i \in DOMAIN s |-> i]
  OBVIOUS
<1>3. IsList(t) /\ DOMAIN t = 1 .. len /\ \A i \in 1 .. len : t[i] = i
  <2>1. DOMAIN t = 1 .. len /\ \A i \in 1 .. len : t[i] = i /\ t[i] \in Range(t)
    BY <1>1, <1>2 DEF Range
  <2>2. t = [i \in 1 .. len |-> t[i]]
    BY <1>1, <1>2
  <2>3. t \in Seq(Range(t))
    BY <2>1, <2>2
  <2>4. QED
    BY <2>1, <2>3 DEF IsList
<1>4. PICK V : V = {i \in DOMAIN s : \A j \in 1 .. i - 1 : s[j] # s[i]}
  OBVIOUS
<1>5. PICK first : first = Keep(t, V)
  OBVIOUS
<1>6. IsList(first)
  BY <1>3, <1>5, KeepIsList
<1>7. PICK n \in Nat : n = Len(first) /\ DOMAIN first = 1 .. n
  BY <1>6, ListIsSeq
<1>8. PICK g : Picked(first, t, V, g)
  BY <1>3, <1>5, KeepPositions
<1>9. g \in [1 .. n -> 1 .. len] /\ \A a, b \in 1 .. n : a < b => g[a] < g[b]
  BY <1>3, <1>7, <1>8 DEF Picked
<1>10. \A a \in 1 .. n : first[a] = g[a] /\ g[a] \in V
  <2>1. \A a \in 1 .. n : first[a] = t[g[a]] /\ t[g[a]] \in V
    BY <1>7, <1>8 DEF Picked
  <2>2. QED
    BY <1>3, <1>9, <2>1
<1>11. PICK r : r = [a \in DOMAIN first |-> s[first[a]]]
  OBVIOUS
<1>12. \A a \in 1 .. n : first[a] \in 1 .. len /\ r[a] = s[first[a]]
  BY <1>7, <1>9, <1>10, <1>11
<1>13. Range(r) \subseteq Range(s)
  BY <1>1, <1>7, <1>11, <1>12 DEF Range
<1>14. ASSUME NEW a \in 1 .. n, NEW b \in 1 .. n, a < b
       PROVE  r[a] # r[b]
  <2>1. PICK i, j \in 1 .. len : i = first[a] /\ j = first[b]
    BY <1>12
  <2>2. i < j
    BY <1>9, <1>10, <1>14, <2>1
  <2>3. j \in V
    BY <1>10, <2>1
  <2>4. i \in 1 .. j - 1
    BY <2>1, <2>2
  <2>5. s[i] # s[j]
    BY <1>4, <2>3, <2>4
  <2>6. QED
    BY <1>12, <2>1, <2>5
<1>15. IsInjective(r)
  <2>1. DOMAIN r = 1 .. n
    BY <1>7, <1>11
  <2>2. SUFFICES ASSUME NEW a \in 1 .. n, NEW b \in 1 .. n, r[a] = r[b] PROVE a = b
    BY <2>1 DEF IsInjective
  <2>3. ~(a < b) /\ ~(b < a)
    BY <1>14, <2>2
  <2>4. QED
    BY <2>3
<1>16. IsList(r)
  <2>1. DOMAIN r = 1 .. n /\ \A a \in 1 .. n : r[a] \in Range(r)
    BY <1>7, <1>11 DEF Range
  <2>2. r = [a \in 1 .. n |-> r[a]]
    BY <1>7, <1>11
  <2>3. r \in Seq(Range(r))
    BY <2>1, <2>2
  <2>4. QED
    BY <2>3 DEF IsList
<1>17. Once(s) = r
  BY <1>2, <1>4, <1>5, <1>11 DEF Once
<1>18. QED
  BY <1>13, <1>15, <1>16, <1>17

\* A function on 1 .. n is a list.
LEMMA FunctionIsList ==
  ASSUME NEW n \in Nat, NEW S, NEW s \in [1 .. n -> S]
  PROVE  IsList(s) /\ Range(s) \subseteq S /\ Len(s) = n
<1>1. DOMAIN s = 1 .. n /\ \A a \in 1 .. n : s[a] \in Range(s) /\ s[a] \in S
  BY DEF Range
<1>2. s = [a \in 1 .. n |-> s[a]]
  OBVIOUS
<1>3. s \in Seq(Range(s)) /\ Len(s) = n
  BY <1>1, <1>2
<1>4. QED
  BY <1>1, <1>3 DEF IsList, Range

LEMMA BallIsFair ==
  ASSUME NEW m, NEW c \in DOMAIN Samples, m.chunks = Chunks(c), NEW h \in BallHits(m)
  PROVE  FairHits(h, c)
<1>1. PICK S : S = Range(Chunks(c))
  OBVIOUS
<1>2. PICK o \in SetToSeqs(S) : h = Top(o)
  BY <1>1 DEF BallHits
<1>3. IsList(Chunks(c))
  BY ChunksAre
<1>4. PICK n \in Nat : n = Cardinality(S)
  BY <1>1, <1>3, ListIsFinite, FS_CardinalityType
<1>5. o \in [1 .. n -> S] /\ \A i, j \in 1 .. n : i # j => o[i] # o[j]
  BY <1>2, <1>4 DEF SetToSeqs
<1>6. IsList(o) /\ Range(o) \subseteq S
  BY <1>5, FunctionIsList
<1>7. IsInjective(o)
  BY <1>5 DEF IsInjective
<1>8. QED
  BY <1>1, <1>2, <1>6, <1>7, TopIsFair

LEMMA LibraryIsFair ==
  ASSUME NEW m, NEW c \in DOMAIN Samples, m.chunks = Chunks(c), NEW h \in LibraryHits(m)
  PROVE  FairHits(h, c)
<1>1. PICK S : S = Range(Chunks(c))
  OBVIOUS
<1>2. PICK n \in 0 .. Window : \E s \in [1 .. n -> S] : h = Top(Once(s))
  BY <1>1 DEF LibraryHits
<1>3. PICK s \in [1 .. n -> S] : n \in Nat /\ h = Top(Once(s))
  BY <1>2
<1>4. IsList(s) /\ Range(s) \subseteq S
  BY <1>3, FunctionIsList
<1>5. IsList(Once(s)) /\ IsInjective(Once(s)) /\ Range(Once(s)) \subseteq S
  BY <1>4, OnceIs
<1>6. QED
  BY <1>1, <1>3, <1>5, TopIsFair

LEMMA HitsAreFair ==
  ASSUME NEW m, NEW c \in DOMAIN Samples, m.chunks = Chunks(c), NEW query, NEW h \in Hits(m, query)
  PROVE  FairHits(h, c)
<1>1. CASE h \in BallHits(m)
  BY <1>1, BallIsFair
<1>2. CASE h \in LibraryHits(m)
  BY <1>2, LibraryIsFair
<1>3. CASE h = GraphHits(m, query)
  BY <1>3, RankedIsFair DEF GraphHits
<1>4. QED
  BY <1>1, <1>2, <1>3 DEF Hits

LEMMA QuestionsAre ==
  ASSUME NEW c \in DOMAIN Samples
  PROVE  /\ IsList(Questions(c))
         /\ \A i \in DOMAIN Questions(c) :
              /\ Questions(c)[i].category \in Categories
              /\ IsFiniteSet(Gold(c, Questions(c)[i])) /\ Gold(c, Questions(c)[i]) # {}
<1>1. PICK s : s = Samples[c].qa
  OBVIOUS
<1>2. PICK V : V = {q \in Range(s) : q.category \in Categories /\ Gold(c, q) # {}}
  OBVIOUS
<1>3. PICK Q : Q = Questions(c)
  OBVIOUS
<1>4. Q = Keep(s, V)
  BY <1>1, <1>2, <1>3 DEF Questions
<1>5. IsList(s)
  BY <1>1, SamplesAssumption DEF IsList
<1>6. IsList(Q)
  BY <1>4, <1>5, KeepIsList
<1>7. Range(Q) = Range(s) \cap V
  BY <1>4, <1>5, RangeOfKeep
<1>8. IsFiniteSet(Ids(c))
  <2>1. PICK f : f = [p \in Turns(c) |-> TurnAt(c, p).id]
    OBVIOUS
  <2>2. f \in Surjection(Turns(c), Ids(c))
    BY <2>1 DEF Surjection, Ids
  <2>3. QED
    BY <2>2, TurnsAreFinite, FS_Surjection
<1>9. \A q : IsFiniteSet(Gold(c, q))
  BY <1>8, FS_Subset DEF Gold
<1>10. \A i \in DOMAIN Q : Q[i] \in V
  BY <1>7 DEF Range
<1>11. \A i \in DOMAIN Q : Q[i].category \in Categories /\ Gold(c, Q[i]) # {}
  BY <1>2, <1>10
<1>12. QED
  BY <1>3, <1>6, <1>9, <1>11

LEMMA DivisionGrows ==
  ASSUME NEW a \in Nat, NEW b \in Nat, a <= b, NEW d \in Nat, d > 0
  PROVE  a \div d <= b \div d /\ a \div d \in Nat
<1>1. PICK x, y \in Int : x = a \div d /\ y = b \div d
  OBVIOUS
<1>2. d * x <= a /\ a < d * x + d
  BY <1>1
<1>3. d * y <= b /\ b < d * y + d
  BY <1>1
<1>4. d * x < d * y + d
  BY <1>2, <1>3
<1>5. x < y + 1
  BY <1>4
<1>6. x \in Nat
  BY <1>2
<1>7. QED
  BY <1>1, <1>5, <1>6

LEMMA RecallIsFair ==
  ASSUME NEW gold, IsFiniteSet(gold), gold # {}, NEW h, IsList(h), Len(h) <= K
  PROVE  (Unit * Cardinality({h[i].id : i \in DOMAIN h} \cap gold)) \div Cardinality(gold)
           <= (Unit * (IF K < Cardinality(gold) THEN K ELSE Cardinality(gold))) \div Cardinality(gold)
<1>1. PICK u \in Nat : u = Unit
  BY BenchmarkAssumption
<1>2. PICK k \in Nat : k = K
  BY BenchmarkAssumption
<1>3. PICK g \in Nat : g = Cardinality(gold) /\ g > 0
  <2>1. Cardinality(gold) \in Nat
    BY FS_CardinalityType
  <2>2. Cardinality(gold) # 0
    BY FS_EmptySet
  <2>3. QED
    BY <2>1, <2>2
<1>4. PICK ids : ids = {h[i].id : i \in DOMAIN h}
  OBVIOUS
<1>5. PICK n \in Nat : n = Len(h) /\ DOMAIN h = 1 .. n
  BY ListIsSeq
<1>6. IsFiniteSet(ids) /\ Cardinality(ids) <= n
  <2>1. PICK f : f = [i \in 1 .. n |-> h[i].id]
    OBVIOUS
  <2>2. f \in Surjection(1 .. n, ids)
    BY <1>4, <1>5, <2>1 DEF Surjection
  <2>3. IsFiniteSet(1 .. n) /\ Cardinality(1 .. n) = n
    BY FS_Interval
  <2>4. QED
    BY <2>2, <2>3, FS_Surjection
<1>7. PICK x \in Nat : x = Cardinality(ids \cap gold)
  BY FS_Subset, FS_CardinalityType
<1>8. x <= g
  BY <1>3, <1>7, FS_Subset
<1>9. x <= n
  <2>1. PICK m \in Nat : m = Cardinality(ids)
    BY <1>6, FS_CardinalityType
  <2>2. ids \cap gold \in SUBSET ids
    OBVIOUS
  <2>3. x <= m
    BY <1>6, <1>7, <2>1, <2>2, FS_Subset
  <2>4. QED
    BY <1>6, <2>1, <2>3
<1>10. PICK y \in Nat : y = (IF k < g THEN k ELSE g)
  OBVIOUS
<1>11. x <= y
  BY <1>2, <1>5, <1>8, <1>9, <1>10
<1>12. u * x \in Nat /\ u * y \in Nat /\ u * x <= u * y
  BY <1>11
<1>13. (u * x) \div g <= (u * y) \div g
  BY <1>3, <1>12, DivisionGrows
<1>14. QED
  BY <1>1, <1>2, <1>3, <1>4, <1>7, <1>10, <1>13

-----------------------------------------------------------------------------
(* Benchmark: the scores.                                                  *)

FairRow(row) ==
  \E c \in DOMAIN Samples :
    row.qid[1] = c /\ FairHits(row.hits, c) /\ row.recall <= row.oracle

FairInv ==
  /\ convo \in DOMAIN Samples /\ asking \in Nat
  /\ DOMAIN agent = {"round", "searched", "hits"}
  /\ asking > 0 => memory.chunks = Chunks(convo) /\ FairHits(agent.hits, convo)
  /\ IsList(rows) /\ \A row \in Range(rows) : FairRow(row)

LEMMA NothingIsFair ==
  ASSUME NEW c
  PROVE  FairHits(<<>>, c)
<1>1. K \in Nat /\ K > 0
  BY BenchmarkAssumption
<1>2. IsList(<<>>) /\ IsInjective(<<>>) /\ Len(<<>>) = 0 /\ Range(<<>>) = {}
  BY DEF IsList, IsInjective, Range
<1>3. QED
  BY <1>1, <1>2 DEF FairHits

LEMMA IngestedIs ==
  ASSUME NEW m, NEW c \in DOMAIN Samples
  PROVE  Ingested(m, c).chunks = Chunks(c)
<1>1. PICK k : k = Chunks(c)
  OBVIOUS
<1>2. k \in Seq(Range(k))
  BY <1>1, ChunksAre DEF IsList
<1>3. <<>> \o k = k
  BY <1>2
<1>4. PICK st : st = Stashed(m)
  OBVIOUS
<1>5. Cleared(m) = [chunks |-> <<>>, pending |-> <<>>, stash |-> st]
  BY <1>4 DEF Cleared, NewMemory
<1>6. PICK w : w = [Cleared(m) EXCEPT !.pending = k]
  OBVIOUS
<1>7. w.chunks = <<>> /\ w.pending = k
  BY <1>5, <1>6
<1>8. Flushed(w).chunks = w.chunks \o w.pending
  BY DEF Flushed
<1>9. Ingested(m, c) = Flushed(w)
  BY <1>1, <1>6 DEF Ingested
<1>10. QED
  BY <1>1, <1>3, <1>7, <1>8, <1>9

LEMMA ConversationsAre ==
  /\ DOMAIN Samples = 1 .. Len(Samples) /\ Len(Samples) \in Nat /\ 1 \in DOMAIN Samples
  /\ DOMAIN Systems = 1 .. Len(Systems) /\ Len(Systems) \in Nat /\ 1 \in DOMAIN Systems
<1>1. Samples \in Seq(Range(Samples)) /\ Samples # <<>>
  BY BenchmarkAssumption
<1>2. Systems \in Seq({"kuzu_memory", "graph_kuzu", "poincare"}) /\ Systems # <<>>
  BY BenchmarkAssumption
<1>3. QED
  BY <1>1, <1>2

LEMMA FairStarts ==
  BInit => FairInv
<1>1. SUFFICES ASSUME BInit PROVE FairInv
  OBVIOUS
<1>2. convo \in DOMAIN Samples /\ asking = 0
  BY <1>1, ConversationsAre DEF BInit
<1>3. DOMAIN agent = {"round", "searched", "hits"}
  BY <1>1 DEF BInit, NewAgent
<1>4. rows = <<>>
  BY <1>1 DEF BInit
<1>5. IsList(rows) /\ Range(rows) = {}
  BY <1>4 DEF IsList, Range
<1>6. QED
  BY <1>2, <1>3, <1>5 DEF FairInv

LEMMA FairIngest ==
  ASSUME FairInv, Ingest
  PROVE  FairInv'
<1>1. convo' = convo /\ asking' = 1 /\ agent' = NewAgent /\ rows' = rows /\ memory' = Ingested(memory, convo)
  BY DEF Ingest
<1>2. convo \in DOMAIN Samples
  BY DEF FairInv
<1>3. memory'.chunks = Chunks(convo)
  BY <1>1, <1>2, IngestedIs
<1>4. agent'.hits = <<>> /\ DOMAIN agent' = {"round", "searched", "hits"}
  BY <1>1 DEF NewAgent
<1>5. FairHits(agent'.hits, convo)
  BY <1>4, NothingIsFair
<1>6. QED
  BY <1>1, <1>2, <1>3, <1>4, <1>5 DEF FairInv

LEMMA FairSearch ==
  ASSUME FairInv, Search
  PROVE  FairInv'
<1>1. PICK query : \E hits \in Hits(memory, query) :
         agent' = [round |-> agent.round + 1, searched |-> TRUE,
                   hits |-> IF agent.searched THEN agent.hits ELSE hits]
  BY DEF Search
<1>2. PICK hits \in Hits(memory, query) :
         agent' = [round |-> agent.round + 1, searched |-> TRUE,
                   hits |-> IF agent.searched THEN agent.hits ELSE hits]
  BY <1>1
<1>3. convo' = convo /\ asking' = asking /\ memory' = memory /\ rows' = rows
  BY DEF Search
<1>4. asking > 0 /\ asking \in Nat /\ convo \in DOMAIN Samples
  BY DEF Search, Asked, FairInv
<1>5. memory.chunks = Chunks(convo) /\ FairHits(agent.hits, convo)
  BY <1>4 DEF FairInv
<1>6. FairHits(hits, convo)
  BY <1>4, <1>5, HitsAreFair
<1>7. agent'.hits = agent.hits \/ agent'.hits = hits
  BY <1>2
<1>8. FairHits(agent'.hits, convo) /\ DOMAIN agent' = {"round", "searched", "hits"}
  BY <1>5, <1>6, <1>7, <1>2
<1>9. QED
  BY <1>3, <1>4, <1>5, <1>8 DEF FairInv

LEMMA FairAnswer ==
  ASSUME FairInv, Answer
  PROVE  FairInv'
<1>1. convo' = convo /\ asking' = asking + 1 /\ memory' = memory /\ agent' = NewAgent
  BY DEF Answer
<1>2. asking \in Nat /\ asking > 0 /\ asking <= Len(Questions(convo)) /\ convo \in DOMAIN Samples
  BY DEF Answer, Asked, FairInv
<1>3. memory.chunks = Chunks(convo) /\ FairHits(agent.hits, convo)
  BY <1>2 DEF FairInv
<1>4. agent'.hits = <<>> /\ DOMAIN agent' = {"round", "searched", "hits"}
  BY <1>1 DEF NewAgent
<1>5. FairHits(agent'.hits, convo)
  BY <1>4, NothingIsFair
<1>6. PICK q, h, gold : q = Questions(convo)[asking] /\ h = agent.hits /\ gold = Gold(convo, q)
  OBVIOUS
<1>7. asking \in DOMAIN Questions(convo)
  BY <1>2, QuestionsAre, ListIsSeq
<1>8. IsFiniteSet(gold) /\ gold # {}
  BY <1>2, <1>6, <1>7, QuestionsAre
<1>9. PICK rec, ora : /\ rec = (Unit * Cardinality({h[i].id : i \in DOMAIN h} \cap gold)) \div Cardinality(gold)
                      /\ ora = (Unit * (IF K < Cardinality(gold) THEN K ELSE Cardinality(gold)))
                                 \div Cardinality(gold)
  OBVIOUS
<1>10. rec <= ora
  BY <1>3, <1>6, <1>8, <1>9, RecallIsFair DEF FairHits
<1>11. PICK hit : hit = IF {h[i].id : i \in DOMAIN h} \cap gold # {} THEN 1 ELSE 0
  OBVIOUS
<1>12. PICK row : row = [system |-> Systems[system], qid |-> <<convo, asking>>, category |-> q.category,
                         hits |-> h, hit |-> hit, recall |-> rec, oracle |-> ora]
  OBVIOUS
<1>13. rows' = Append(rows, row)
  BY <1>6, <1>9, <1>11, <1>12 DEF Answer
<1>14. FairRow(row)
  BY <1>2, <1>3, <1>6, <1>10, <1>12 DEF FairRow
<1>15. IsList(rows) /\ \A x \in Range(rows) : FairRow(x)
  BY DEF FairInv
<1>16. IsList(rows') /\ Range(rows') = Range(rows) \cup {row}
  BY <1>13, <1>15, ListAppend
<1>17. \A x \in Range(rows') : FairRow(x)
  BY <1>14, <1>15, <1>16
<1>18. asking' \in Nat
  BY <1>1, <1>2
<1>19. QED
  BY <1>1, <1>2, <1>3, <1>4, <1>5, <1>16, <1>17, <1>18 DEF FairInv

LEMMA FairStep ==
  ASSUME FairInv, [BNext]_bvars
  PROVE  FairInv'
<1>1. CASE Ingest
  BY <1>1, FairIngest
<1>2. CASE Search
  BY <1>2, FairSearch
<1>3. CASE UnknownAction
  <2>1. PICK r : agent' = [agent EXCEPT !.round = r]
    BY <1>3 DEF UnknownAction
  <2>2. DOMAIN agent' = {"round", "searched", "hits"} /\ agent'.hits = agent.hits
    BY <2>1 DEF FairInv
  <2>3. convo' = convo /\ asking' = asking /\ memory' = memory /\ rows' = rows
    BY <1>3 DEF UnknownAction
  <2>4. QED
    BY <2>2, <2>3 DEF FairInv
<1>4. CASE Answer
  BY <1>4, FairAnswer
<1>5. CASE NextConversation
  <2>1. convo < Len(Samples) /\ convo' = convo + 1 /\ asking' = 0 /\ rows' = rows /\ agent' = agent
    BY <1>5 DEF NextConversation
  <2>2. convo' \in DOMAIN Samples
    BY <2>1, ConversationsAre DEF FairInv
  <2>3. QED
    BY <2>1, <2>2 DEF FairInv
<1>6. CASE NextSystem
  <2>1. convo' = 1 /\ asking' = 0 /\ rows' = rows /\ agent' = agent
    BY <1>6 DEF NextSystem
  <2>2. QED
    BY <2>1, ConversationsAre DEF FairInv
<1>7. CASE Compare
  BY <1>7 DEF Compare, FairInv
<1>8. CASE UNCHANGED bvars
  BY <1>8 DEF bvars, FairInv
<1>9. QED
  BY <1>1, <1>2, <1>3, <1>4, <1>5, <1>6, <1>7, <1>8 DEF BNext

LEMMA FairRows ==
  FairInv => ScoresAreFair
<1>1. SUFFICES ASSUME FairInv, NEW i \in DOMAIN rows
               PROVE  /\ \A j \in DOMAIN rows[i].hits : rows[i].hits[j].convo = rows[i].qid[1]
                      /\ Cardinality(Range(rows[i].hits)) = Len(rows[i].hits)
                      /\ rows[i].recall <= rows[i].oracle
  BY DEF ScoresAreFair
<1>2. rows[i] \in Range(rows)
  BY DEF Range
<1>3. FairRow(rows[i])
  BY <1>1, <1>2 DEF FairInv
<1>4. PICK c \in DOMAIN Samples :
        rows[i].qid[1] = c /\ FairHits(rows[i].hits, c) /\ rows[i].recall <= rows[i].oracle
  BY <1>3 DEF FairRow
<1>5. PICK h : h = rows[i].hits
  OBVIOUS
<1>6. IsList(h) /\ IsInjective(h) /\ Range(h) \subseteq Range(Chunks(c))
  BY <1>4, <1>5 DEF FairHits
<1>7. Cardinality(Range(h)) = Len(h)
  BY <1>6, InjectiveCount
<1>8. \A j \in DOMAIN h : h[j].convo = c
  <2>1. \A j \in DOMAIN h : h[j] \in Range(Chunks(c))
    BY <1>6 DEF Range
  <2>2. QED
    BY <2>1, ChunksAre
<1>9. QED
  BY <1>4, <1>5, <1>7, <1>8

(* Every row's hits are chunks of the conversation its question is about,  *)
(* each once, and its recall is no better than the oracle's: whatever the  *)
(* memories hold, whatever they rank first and whatever the client does.   *)
THEOREM ScoresAreAlwaysFair == BSpec => []ScoresAreFair
<1>1. BInit => FairInv
  BY FairStarts
<1>2. FairInv /\ [BNext]_bvars => FairInv'
  BY FairStep
<1>3. FairInv => ScoresAreFair
  BY FairRows
<1>4. QED
  BY <1>1, <1>2, <1>3, PTL DEF BSpec

-----------------------------------------------------------------------------
(* Lists in a strict order.                                                *)

Increasing(s, before) ==
  \A i, j \in DOMAIN s : i < j => <<s[i], s[j]>> \in before

LEMMA SortedRanks ==
  ASSUME NEW S, IsFiniteSet(S), NEW before, StrictOrder(before, S),
         NEW s, IsList(s), Increasing(s, before), Range(s) = S
  PROVE  /\ \A n \in DOMAIN s : Cardinality(Below(S, before, s[n])) = n - 1
         /\ IsInjective(s) /\ Len(s) = Cardinality(S)
<1>1. PICK len \in Nat : len = Len(s) /\ DOMAIN s = 1 .. len
  BY ListIsSeq
<1>2. \A i \in 1 .. len : s[i] \in S
  BY <1>1 DEF Range
<1>3. \A i, j \in 1 .. len : i < j => <<s[i], s[j]>> \in before
  BY <1>1 DEF Increasing
<1>4. \A x \in S : <<x, x>> \notin before
  BY DEF StrictOrder
<1>5. \A x, y \in S : <<x, y>> \in before => <<y, x>> \notin before
  BY <1>4 DEF StrictOrder
<1>6. ASSUME NEW i \in 1 .. len, NEW j \in 1 .. len, s[i] = s[j]
      PROVE  i = j
  <2>1. ~(i < j) /\ ~(j < i)
    <3>1. <<s[i], s[j]>> \notin before /\ <<s[j], s[i]>> \notin before
      BY <1>2, <1>4, <1>6
    <3>2. QED
      BY <1>3, <3>1
  <2>2. QED
    BY <2>1
<1>7. IsInjective(s)
  BY <1>1, <1>6 DEF IsInjective
<1>8. ASSUME NEW n \in 1 .. len
      PROVE  Cardinality(Below(S, before, s[n])) = n - 1
  <2>1. PICK m \in Nat : m = n - 1
    OBVIOUS
  <2>2. PICK f : f = [i \in 1 .. m |-> s[i]]
    OBVIOUS
  <2>3. PICK B : B = Below(S, before, s[n])
    OBVIOUS
  <2>4. \A i \in 1 .. m : i \in 1 .. len /\ f[i] = s[i] /\ f[i] \in B
    <3>1. ASSUME NEW i \in 1 .. m
          PROVE  i \in 1 .. len /\ f[i] = s[i] /\ f[i] \in B
      <4>1. i \in 1 .. len /\ i < n /\ f[i] = s[i]
        BY <2>1, <2>2
      <4>2. <<s[i], s[n]>> \in before /\ s[i] \in S
        BY <1>2, <1>3, <4>1
      <4>3. QED
        BY <2>3, <4>1, <4>2 DEF Below
    <3>2. QED
      BY <3>1
  <2>5. ASSUME NEW y \in B
        PROVE  \E i \in 1 .. m : f[i] = y
    <3>1. y \in S /\ <<y, s[n]>> \in before
      BY <2>3 DEF Below
    <3>2. PICK i \in 1 .. len : s[i] = y
      BY <1>1, <3>1 DEF Range
    <3>3. i # n
      BY <1>2, <1>4, <3>1, <3>2
    <3>4. ~(n < i)
      BY <1>2, <1>3, <1>5, <3>1, <3>2
    <3>5. i \in 1 .. m
      BY <2>1, <3>3, <3>4
    <3>6. QED
      BY <2>2, <3>2, <3>5
  <2>6. f \in [1 .. m -> B]
    BY <2>2, <2>4
  <2>7. f \in Surjection(1 .. m, B)
    BY <2>5, <2>6 DEF Surjection
  <2>8. f \in Injection(1 .. m, B)
    <3>1. \A i, j \in 1 .. m : f[i] = f[j] => i = j
      BY <1>6, <2>4
    <3>2. QED
      BY <2>6, <3>1 DEF Injection, IsInjective
  <2>9. IsFiniteSet(1 .. m) /\ Cardinality(1 .. m) = m
    BY FS_Interval
  <2>10. Cardinality(B) = m
    BY <2>7, <2>8, <2>9, FS_Surjection
  <2>11. QED
    BY <2>1, <2>3, <2>10
<1>9. Len(s) = Cardinality(S)
  BY <1>7, InjectiveCount
<1>10. QED
  BY <1>1, <1>7, <1>8, <1>9

\* What is sorted is determined by what is in it.
LEMMA SortedSame ==
  ASSUME NEW S, IsFiniteSet(S), NEW before, StrictOrder(before, S),
         NEW s, IsList(s), Increasing(s, before), Range(s) = S,
         NEW t, IsList(t), Increasing(t, before), Range(t) = S
  PROVE  s = t
<1>1. PICK len \in Nat : len = Len(s) /\ DOMAIN s = 1 .. len
  BY ListIsSeq
<1>2. Len(s) = Cardinality(S)
  BY SortedRanks
<1>3. Len(t) = Cardinality(S)
  BY SortedRanks
<1>4. DOMAIN t = 1 .. len
  BY <1>1, <1>2, <1>3, ListIsSeq
<1>5. ASSUME NEW n \in 1 .. len
      PROVE  s[n] = t[n]
  <2>1. Cardinality(Below(S, before, s[n])) = n - 1
    BY <1>1, SortedRanks
  <2>2. Cardinality(Below(S, before, t[n])) = n - 1
    BY <1>4, SortedRanks
  <2>3. s[n] \in S /\ t[n] \in S
    BY <1>1, <1>4 DEF Range
  <2>4. PICK x, y \in S : x = s[n] /\ y = t[n]
    BY <2>3
  <2>5. Cardinality(Below(S, before, x)) = Cardinality(Below(S, before, y))
    BY <2>1, <2>2, <2>4
  <2>6. x = y
    BY <2>5, RanksAre
  <2>7. QED
    BY <2>4, <2>6
<1>6. s = [n \in 1 .. len |-> s[n]] /\ t = [n \in 1 .. len |-> t[n]]
  BY <1>1, <1>4 DEF IsList
<1>7. QED
  BY <1>5, <1>6

-----------------------------------------------------------------------------
(* Benchmark: the questions, in the order in which they are asked.         *)

AllAsked == UNION {{c} \X DOMAIN Questions(c) : c \in DOMAIN Samples}
AskingOrder ==
  {p \in AllAsked \X AllAsked :
     p[1][1] < p[2][1] \/ (p[1][1] = p[2][1] /\ p[1][2] < p[2][2])}

LEMMA AskedAre ==
  ASSUME NEW q \in AllAsked
  PROVE  q = <<q[1], q[2]>> /\ q[1] \in DOMAIN Samples /\ q[1] \in Nat /\ q[2] \in Nat
<1>1. PICK c \in DOMAIN Samples : q \in {c} \X DOMAIN Questions(c)
  BY DEF AllAsked
<1>2. c \in Nat
  BY ConversationsAre
<1>3. DOMAIN Questions(c) \subseteq Nat
  BY QuestionsAre, ListIsSeq
<1>4. QED
  BY <1>1, <1>2, <1>3

LEMMA AskedAreFinite == IsFiniteSet(AllAsked)
<1>1. PICK F : F = {{c} \X DOMAIN Questions(c) : c \in DOMAIN Samples}
  OBVIOUS
<1>2. IsFiniteSet(F)
  <2>1. PICK f : f = [c \in DOMAIN Samples |-> {c} \X DOMAIN Questions(c)]
    OBVIOUS
  <2>2. f \in Surjection(DOMAIN Samples, F)
    BY <1>1, <2>1 DEF Surjection
  <2>3. IsFiniteSet(DOMAIN Samples)
    BY ConversationsAre, FS_Interval
  <2>4. QED
    BY <2>2, <2>3, FS_Surjection
<1>3. ASSUME NEW T \in F
      PROVE  IsFiniteSet(T)
  <2>1. PICK c \in DOMAIN Samples : T = {c} \X DOMAIN Questions(c)
    BY <1>1, <1>3
  <2>2. IsFiniteSet({c})
    BY FS_Singleton
  <2>3. IsFiniteSet(DOMAIN Questions(c))
    BY QuestionsAre, ListIsFinite
  <2>4. QED
    BY <2>1, <2>2, <2>3, FS_Product
<1>4. QED
  BY <1>1, <1>2, <1>3, FS_UNION DEF AllAsked

LEMMA AskedInOrder == StrictOrder(AskingOrder, AllAsked)
<1>1. PICK A : A = AllAsked
  OBVIOUS
<1>2. \A p, q \in A : <<p, q>> \in AskingOrder <=> p[1] < q[1] \/ (p[1] = q[1] /\ p[2] < q[2])
  BY <1>1 DEF AskingOrder
<1>3. \A p \in A : p = <<p[1], p[2]>> /\ p[1] \in Nat /\ p[2] \in Nat
  BY <1>1, AskedAre
<1>4. \A x \in A : <<x, x>> \notin AskingOrder
  BY <1>2, <1>3
<1>5. ASSUME NEW x \in A, NEW y \in A, NEW z \in A, <<x, y>> \in AskingOrder, <<y, z>> \in AskingOrder
      PROVE  <<x, z>> \in AskingOrder
  <2>1. x[1] < y[1] \/ (x[1] = y[1] /\ x[2] < y[2])
    BY <1>2, <1>5
  <2>2. y[1] < z[1] \/ (y[1] = z[1] /\ y[2] < z[2])
    BY <1>2, <1>5
  <2>3. x[1] < z[1] \/ (x[1] = z[1] /\ x[2] < z[2])
    BY <1>3, <2>1, <2>2
  <2>4. QED
    BY <1>2, <2>3
<1>6. ASSUME NEW x \in A, NEW y \in A, <<x, y>> \notin AskingOrder, <<y, x>> \notin AskingOrder
      PROVE  x = y
  <2>1. ~(x[1] < y[1] \/ (x[1] = y[1] /\ x[2] < y[2]))
    BY <1>2, <1>6
  <2>2. ~(y[1] < x[1] \/ (y[1] = x[1] /\ y[2] < x[2]))
    BY <1>2, <1>6
  <2>3. x[1] = y[1] /\ x[2] = y[2]
    BY <1>3, <2>1, <2>2
  <2>4. QED
    BY <1>3, <2>3
<1>7. QED
  BY <1>1, <1>4, <1>5, <1>6 DEF StrictOrder

\* What system s has been asked when it is the turn of question a of conversation c
\* with system sys.
DueAt(s, sys, c, a) ==
  {q \in AllAsked : s < sys \/ (s = sys /\ (q[1] < c \/ (q[1] = c /\ q[2] < a)))}

LEMMA AskedIsAsked ==
  /\ \A q \in AllAsked : q[2] \in 1 .. Len(Questions(q[1])) /\ Len(Questions(q[1])) \in Nat
  /\ \A c \in DOMAIN Samples, a \in Nat : a > 0 /\ a <= Len(Questions(c)) => <<c, a>> \in AllAsked
<1>1. \A c \in DOMAIN Samples : Len(Questions(c)) \in Nat /\ DOMAIN Questions(c) = 1 .. Len(Questions(c))
  BY QuestionsAre, ListIsSeq
<1>2. ASSUME NEW q \in AllAsked
      PROVE  q[2] \in 1 .. Len(Questions(q[1])) /\ Len(Questions(q[1])) \in Nat
  <2>1. PICK c \in DOMAIN Samples : q \in {c} \X DOMAIN Questions(c)
    BY DEF AllAsked
  <2>2. q[1] = c /\ q[2] \in DOMAIN Questions(c)
    BY <2>1
  <2>3. QED
    BY <1>1, <2>2
<1>3. ASSUME NEW c \in DOMAIN Samples, NEW a \in Nat, a > 0, a <= Len(Questions(c))
      PROVE  <<c, a>> \in AllAsked
  <2>1. a \in DOMAIN Questions(c)
    BY <1>1, <1>3
  <2>2. <<c, a>> \in {c} \X DOMAIN Questions(c)
    BY <2>1
  <2>3. QED
    BY <2>2 DEF AllAsked
<1>4. QED
  BY <1>2, <1>3

LEMMA DueStarts ==
  ASSUME NEW s \in DOMAIN Systems
  PROVE  DueAt(s, 1, 1, 0) = {}
<1>1. s \in Nat /\ s >= 1
  BY ConversationsAre
<1>2. \A q \in AllAsked : q[1] \in Nat /\ q[2] \in Nat /\ q[1] >= 1
  BY AskedAre, ConversationsAre
<1>3. QED
  BY <1>1, <1>2 DEF DueAt

LEMMA DueIngest ==
  ASSUME NEW s, NEW sys, NEW c
  PROVE  DueAt(s, sys, c, 1) = DueAt(s, sys, c, 0)
<1>1. \A q \in AllAsked : q[2] < 1 <=> q[2] < 0
  BY AskedIsAsked
<1>2. QED
  BY <1>1 DEF DueAt

LEMMA DueConversation ==
  ASSUME NEW s, NEW sys, NEW c \in Nat, NEW a \in Nat, a > Len(Questions(c))
  PROVE  DueAt(s, sys, c + 1, 0) = DueAt(s, sys, c, a)
<1>1. ASSUME NEW q \in AllAsked
      PROVE  (q[1] < c + 1 \/ (q[1] = c + 1 /\ q[2] < 0)) <=> (q[1] < c \/ (q[1] = c /\ q[2] < a))
  <2>1. q[1] \in Nat /\ q[2] \in Nat
    BY AskedAre
  <2>2. q[1] = c => q[2] < a
    BY AskedIsAsked
  <2>3. QED
    BY <2>1, <2>2
<1>2. QED
  BY <1>1 DEF DueAt

LEMMA DueSystem ==
  ASSUME NEW s \in Nat, NEW sys \in Nat, NEW a \in Nat, a > Len(Questions(Len(Samples)))
  PROVE  /\ DueAt(s, sys + 1, 1, 0) = DueAt(s, sys, Len(Samples), a)
         /\ s <= sys => DueAt(s, sys, Len(Samples), a) = AllAsked
<1>1. PICK n \in Nat : n = Len(Samples) /\ DOMAIN Samples = 1 .. n
  BY ConversationsAre
<1>2. ASSUME NEW q \in AllAsked
      PROVE  /\ q[1] < n \/ (q[1] = n /\ q[2] < a)
             /\ ~(q[1] < 1 \/ (q[1] = 1 /\ q[2] < 0))
  <2>1. q[1] \in 1 .. n /\ q[2] \in Nat
    BY <1>1, AskedAre
  <2>2. q[1] = n => q[2] < a
    BY <1>1, AskedIsAsked
  <2>3. QED
    BY <2>1, <2>2
<1>3. \A q \in AllAsked : q \in DueAt(s, sys, n, a) <=> s <= sys
  BY <1>2 DEF DueAt
<1>4. \A q \in AllAsked : q \in DueAt(s, sys + 1, 1, 0) <=> s <= sys
  BY <1>2 DEF DueAt
<1>5. DueAt(s, sys, n, a) \subseteq AllAsked /\ DueAt(s, sys + 1, 1, 0) \subseteq AllAsked
  BY DEF DueAt
<1>6. QED
  BY <1>1, <1>3, <1>4, <1>5

LEMMA DueAnswer ==
  ASSUME NEW s \in Nat, NEW sys \in Nat, NEW c \in DOMAIN Samples, NEW a \in Nat,
         a > 0, a <= Len(Questions(c))
  PROVE  DueAt(s, sys, c, a + 1) = DueAt(s, sys, c, a) \cup (IF s = sys THEN {<<c, a>>} ELSE {})
<1>1. <<c, a>> \in AllAsked /\ c \in Nat
  BY AskedIsAsked, ConversationsAre
<1>2. ASSUME NEW q \in AllAsked
      PROVE  q[1] < c \/ (q[1] = c /\ q[2] < a + 1) <=> q[1] < c \/ (q[1] = c /\ q[2] < a) \/ q = <<c, a>>
  <2>1. q = <<q[1], q[2]>> /\ q[1] \in Nat /\ q[2] \in Nat
    BY AskedAre
  <2>2. q = <<c, a>> <=> q[1] = c /\ q[2] = a
    BY <2>1
  <2>3. QED
    BY <1>1, <2>1, <2>2
<1>3. CASE s = sys
  BY <1>1, <1>2, <1>3 DEF DueAt
<1>4. CASE s # sys
  BY <1>4 DEF DueAt
<1>5. QED
  BY <1>3, <1>4

-----------------------------------------------------------------------------
(* Benchmark: the rows of the systems.                                     *)

AskedOf(r, name) == {r[i].qid : i \in {j \in DOMAIN r : r[j].system = name}}
RowIsWhole(x) == x.category \in 1 .. 5 /\ x.hit \in {0, 1}

\* Each system answered the questions due to it, once each and in their order.
RowsAre(r, sys, c, a) ==
  /\ IsList(r)
  /\ \A i \in DOMAIN r : RowIsWhole(r[i])
  /\ \A i, j \in DOMAIN r :
       i < j /\ r[i].system = r[j].system => <<r[i].qid, r[j].qid>> \in AskingOrder
  /\ \A s \in DOMAIN Systems : AskedOf(r, Systems[s]) = DueAt(s, sys, c, a)

LEMMA RowsStart == RowsAre(<<>>, 1, 1, 0)
<1>1. IsList(<<>>) /\ DOMAIN <<>> = {}
  BY DEF IsList, Range
<1>2. \A name : AskedOf(<<>>, name) = {}
  BY <1>1 DEF AskedOf
<1>3. QED
  BY <1>1, <1>2, DueStarts DEF RowsAre

LEMMA RowsStay ==
  ASSUME NEW r, NEW sys, NEW c, NEW a, RowsAre(r, sys, c, a),
         NEW sys2, NEW c2, NEW a2,
         \A s \in DOMAIN Systems : DueAt(s, sys2, c2, a2) = DueAt(s, sys, c, a)
  PROVE  RowsAre(r, sys2, c2, a2)
BY DEF RowsAre

LEMMA RowsGrow ==
  ASSUME NEW r, NEW sys \in DOMAIN Systems, NEW c \in DOMAIN Samples, NEW a \in Nat,
         a > 0, a <= Len(Questions(c)), RowsAre(r, sys, c, a),
         NEW x, RowIsWhole(x), x.system = Systems[sys], x.qid = <<c, a>>
  PROVE  RowsAre(Append(r, x), sys, c, a + 1)
<1>1. PICK w : w = Append(r, x)
  OBVIOUS
<1>2. IsList(r)
  BY DEF RowsAre
<1>3. PICK n \in Nat : /\ DOMAIN r = 1 .. n /\ DOMAIN w = 1 .. n + 1
                       /\ \A i \in 1 .. n : w[i] = r[i]
                       /\ w[n + 1] = x
  BY <1>1, <1>2, AppendIs DEF IsList
<1>4. IsList(w)
  BY <1>1, <1>2, ListAppend
<1>5. \A i \in 1 .. n + 1 : i \in 1 .. n \/ i = n + 1
  OBVIOUS
<1>6. \A i \in 1 .. n + 1 : RowIsWhole(w[i])
  BY <1>3, <1>5 DEF RowsAre
<1>7. <<c, a>> \in AllAsked /\ c \in Nat
  BY AskedIsAsked, ConversationsAre
<1>8. AskedOf(r, Systems[sys]) = DueAt(sys, sys, c, a)
  BY DEF RowsAre
<1>9. ASSUME NEW i \in 1 .. n, r[i].system = Systems[sys]
      PROVE  <<r[i].qid, <<c, a>>>> \in AskingOrder
  <2>1. PICK q : q = r[i].qid
    OBVIOUS
  <2>2. q \in AskedOf(r, Systems[sys])
    BY <1>3, <1>9, <2>1 DEF AskedOf
  <2>3. q \in AllAsked /\ (q[1] < c \/ (q[1] = c /\ q[2] < a))
    <3>1. sys \in Nat
      BY ConversationsAre
    <3>2. q \in DueAt(sys, sys, c, a)
      BY <1>8, <2>2
    <3>3. QED
      BY <3>1, <3>2 DEF DueAt
  <2>4. QED
    BY <1>7, <2>1, <2>3 DEF AskingOrder
<1>10. ASSUME NEW i \in 1 .. n + 1, NEW j \in 1 .. n + 1, i < j, w[i].system = w[j].system
       PROVE  <<w[i].qid, w[j].qid>> \in AskingOrder
  <2>1. i \in 1 .. n /\ w[i] = r[i]
    BY <1>3, <1>10
  <2>2. CASE j \in 1 .. n
    <3>1. r[i].system = r[j].system /\ w[j] = r[j]
      BY <1>3, <1>10, <2>1, <2>2
    <3>2. <<r[i].qid, r[j].qid>> \in AskingOrder
      BY <1>3, <1>10, <2>1, <2>2, <3>1 DEF RowsAre
    <3>3. QED
      BY <2>1, <3>1, <3>2
  <2>3. CASE j = n + 1
    <3>1. w[j] = x
      BY <1>3, <2>3
    <3>2. r[i].system = Systems[sys]
      BY <1>10, <2>1, <3>1
    <3>3. <<r[i].qid, <<c, a>>>> \in AskingOrder
      BY <1>9, <2>1, <3>2
    <3>4. QED
      BY <2>1, <3>1, <3>3
  <2>4. QED
    BY <1>5, <2>2, <2>3
<1>11. ASSUME NEW name
       PROVE  AskedOf(w, name) = AskedOf(r, name) \cup (IF name = Systems[sys] THEN {<<c, a>>} ELSE {})
  <2>1. \A i \in 1 .. n : w[i].system = r[i].system /\ w[i].qid = r[i].qid
    BY <1>3
  <2>2. w[n + 1].system = Systems[sys] /\ w[n + 1].qid = <<c, a>>
    BY <1>3
  <2>3. n + 1 \in 1 .. n + 1 /\ \A i \in 1 .. n : i \in 1 .. n + 1
    OBVIOUS
  <2>4. ASSUME NEW q \in AskedOf(w, name)
        PROVE  q \in AskedOf(r, name) \/ (name = Systems[sys] /\ q = <<c, a>>)
    <3>1. PICK i \in 1 .. n + 1 : w[i].system = name /\ q = w[i].qid
      BY <1>3 DEF AskedOf
    <3>2. CASE i \in 1 .. n
      BY <1>3, <2>1, <3>1, <3>2 DEF AskedOf
    <3>3. CASE i = n + 1
      BY <2>2, <3>1, <3>3
    <3>4. QED
      BY <1>5, <3>2, <3>3
  <2>5. ASSUME NEW q \in AskedOf(r, name)
        PROVE  q \in AskedOf(w, name)
    <3>1. PICK i \in 1 .. n : r[i].system = name /\ q = r[i].qid
      BY <1>3 DEF AskedOf
    <3>2. w[i].system = name /\ q = w[i].qid /\ i \in DOMAIN w
      BY <1>3, <2>1, <2>3, <3>1
    <3>3. QED
      BY <3>2 DEF AskedOf
  <2>6. name = Systems[sys] => <<c, a>> \in AskedOf(w, name)
    <3>1. SUFFICES ASSUME name = Systems[sys] PROVE <<c, a>> \in AskedOf(w, name)
      OBVIOUS
    <3>2. n + 1 \in DOMAIN w /\ w[n + 1].system = name /\ w[n + 1].qid = <<c, a>>
      BY <1>3, <2>2, <2>3, <3>1
    <3>3. n + 1 \in {j \in DOMAIN w : w[j].system = name}
      BY <3>2
    <3>4. QED
      BY <3>2, <3>3 DEF AskedOf
  <2>7. QED
    BY <2>4, <2>5, <2>6
<1>12. ASSUME NEW s \in DOMAIN Systems
       PROVE  AskedOf(w, Systems[s]) = DueAt(s, sys, c, a + 1)
  <2>1. s \in Nat /\ sys \in Nat
    BY ConversationsAre
  <2>2. Systems[s] = Systems[sys] <=> s = sys
    BY BenchmarkAssumption DEF IsInjective
  <2>3. AskedOf(r, Systems[s]) = DueAt(s, sys, c, a)
    BY DEF RowsAre
  <2>4. DueAt(s, sys, c, a + 1) = DueAt(s, sys, c, a) \cup (IF s = sys THEN {<<c, a>>} ELSE {})
    BY <2>1, DueAnswer
  <2>5. AskedOf(w, Systems[s]) = AskedOf(r, Systems[s]) \cup (IF Systems[s] = Systems[sys] THEN {<<c, a>>} ELSE {})
    BY <1>11
  <2>6. QED
    BY <2>2, <2>3, <2>4, <2>5
<1>13. RowsAre(w, sys, c, a + 1)
  BY <1>3, <1>4, <1>6, <1>10, <1>12 DEF RowsAre
<1>14. QED
  BY <1>1, <1>13

\* Every system has answered every question.
AllAnswered(r) ==
  /\ IsList(r)
  /\ \A i \in DOMAIN r : RowIsWhole(r[i])
  /\ \A i, j \in DOMAIN r :
       i < j /\ r[i].system = r[j].system => <<r[i].qid, r[j].qid>> \in AskingOrder
  /\ \A name \in Range(Systems) : AskedOf(r, name) = AllAsked

LEMMA RowsEnd ==
  ASSUME NEW r, NEW a \in Nat, a > Len(Questions(Len(Samples))),
         RowsAre(r, Len(Systems), Len(Samples), a)
  PROVE  AllAnswered(r)
<1>1. PICK n \in Nat : n = Len(Systems) /\ DOMAIN Systems = 1 .. n
  BY ConversationsAre
<1>2. ASSUME NEW name \in Range(Systems)
      PROVE  AskedOf(r, name) = AllAsked
  <2>1. PICK s \in 1 .. n : name = Systems[s]
    BY <1>1 DEF Range
  <2>2. AskedOf(r, name) = DueAt(s, n, Len(Samples), a)
    BY <1>1, <2>1 DEF RowsAre
  <2>3. DueAt(s, n, Len(Samples), a) = AllAsked
    BY <2>1, DueSystem
  <2>4. QED
    BY <2>2, <2>3
<1>3. QED
  BY <1>2 DEF AllAnswered, RowsAre

LEMMA AsksAre ==
  ASSUME AllAnswered(rows), NEW name \in Range(Systems)
  PROVE  IsList(Asks(name)) /\ Increasing(Asks(name), AskingOrder) /\ Range(Asks(name)) = AllAsked
<1>1. PICK V : V = {x \in Range(rows) : x.system = name}
  OBVIOUS
<1>2. PICK k : k = Keep(rows, V)
  OBVIOUS
<1>3. PICK g : Picked(k, rows, V, g)
  BY <1>2, KeepPositions DEF AllAnswered
<1>4. PICK n \in Nat, m \in Nat : DOMAIN k = 1 .. n /\ DOMAIN rows = 1 .. m
  BY <1>3 DEF Picked
<1>5. PICK s : s = Asks(name)
  OBVIOUS
<1>6. s = [i \in 1 .. n |-> k[i].qid]
  BY <1>1, <1>2, <1>4, <1>5 DEF Asks, Mine
<1>7. \A i \in 1 .. n : g[i] \in 1 .. m /\ k[i] = rows[g[i]] /\ rows[g[i]] \in V
  BY <1>3, <1>4 DEF Picked
<1>8. \A i, j \in 1 .. n : i < j => g[i] < g[j]
  BY <1>3, <1>4 DEF Picked
<1>9. \A i \in 1 .. m : rows[i] \in V => \E j \in 1 .. n : g[j] = i
  BY <1>3, <1>4 DEF Picked
<1>10. \A i \in 1 .. n : s[i] = rows[g[i]].qid /\ rows[g[i]].system = name
  BY <1>1, <1>6, <1>7
<1>11. AskedOf(rows, name) = AllAsked
  BY DEF AllAnswered
<1>12. \A i \in 1 .. n : s[i] \in AllAsked
  BY <1>4, <1>7, <1>10, <1>11 DEF AskedOf
<1>13. s \in [1 .. n -> AllAsked]
  BY <1>6, <1>12
<1>14. IsList(s) /\ Range(s) \subseteq AllAsked
  BY <1>13, FunctionIsList
<1>15. Increasing(s, AskingOrder)
  <2>1. SUFFICES ASSUME NEW i \in 1 .. n, NEW j \in 1 .. n, i < j
                 PROVE  <<s[i], s[j]>> \in AskingOrder
    BY <1>13 DEF Increasing
  <2>2. PICK u, v \in 1 .. m : u = g[i] /\ v = g[j] /\ u < v
    BY <1>7, <1>8, <2>1
  <2>3. rows[u].system = rows[v].system
    BY <1>10, <2>2
  <2>4. <<rows[u].qid, rows[v].qid>> \in AskingOrder
    BY <1>4, <2>2, <2>3 DEF AllAnswered
  <2>5. QED
    BY <1>10, <2>2, <2>4
<1>16. ASSUME NEW q \in AllAsked
       PROVE  q \in Range(s)
  <2>1. PICK i \in 1 .. m : rows[i].system = name /\ rows[i].qid = q
    BY <1>4, <1>11 DEF AskedOf
  <2>2. rows[i] \in V
    BY <1>1, <1>4, <2>1 DEF Range
  <2>3. PICK j \in 1 .. n : g[j] = i
    BY <1>9, <2>2
  <2>4. s[j] = q
    BY <1>10, <2>1, <2>3
  <2>5. QED
    BY <1>13, <2>4 DEF Range
<1>17. QED
  BY <1>5, <1>14, <1>15, <1>16

\* Rows of one system about one question are one row.
LEMMA OneRow ==
  ASSUME AllAnswered(rows), NEW name, NEW i \in RowsOf(name), NEW j \in RowsOf(name),
         rows[i].qid = rows[j].qid, name \in Range(Systems)
  PROVE  i = j
<1>1. IsList(rows)
  BY DEF AllAnswered
<1>2. PICK m \in Nat : DOMAIN rows = 1 .. m
  BY <1>1, ListIsSeq
<1>3. i \in 1 .. m /\ j \in 1 .. m /\ rows[i].system = name /\ rows[j].system = name
  BY <1>2 DEF RowsOf
<1>4. rows[i].qid \in AllAsked
  BY <1>2, <1>3 DEF AllAnswered, AskedOf
<1>5. <<rows[i].qid, rows[i].qid>> \notin AskingOrder
  BY <1>4, AskedInOrder DEF StrictOrder
<1>6. ~(i < j) /\ ~(j < i)
  <2>1. i < j => <<rows[i].qid, rows[j].qid>> \in AskingOrder
    BY <1>2, <1>3 DEF AllAnswered
  <2>2. j < i => <<rows[j].qid, rows[i].qid>> \in AskingOrder
    BY <1>2, <1>3 DEF AllAnswered
  <2>3. QED
    BY <1>5, <2>1, <2>2
<1>7. QED
  BY <1>3, <1>6

\* The questions a system hit.
HitBy(name) == {rows[i].qid : i \in {j \in RowsOf(name) : rows[j].hit = 1}}

LEMMA RowsAreFinite ==
  ASSUME AllAnswered(rows), NEW name
  PROVE  IsFiniteSet(RowsOf(name))
<1>1. IsFiniteSet(DOMAIN rows)
  BY ListIsFinite DEF AllAnswered
<1>2. RowsOf(name) \in SUBSET DOMAIN rows
  BY DEF RowsOf
<1>3. QED
  BY <1>1, <1>2, FS_Subset

LEMMA HitIs ==
  ASSUME AllAnswered(rows), NEW name \in Range(Systems)
  PROVE  Hit(name) = Cardinality(HitBy(name)) /\ HitBy(name) \subseteq AllAsked
<1>1. PICK D : D = {j \in RowsOf(name) : rows[j].hit = 1}
  OBVIOUS
<1>2. IsFiniteSet(D)
  BY <1>1, RowsAreFinite, FS_Subset
<1>3. PICK f : f = [i \in D |-> rows[i].qid]
  OBVIOUS
<1>4. HitBy(name) = {rows[i].qid : i \in D}
  BY <1>1 DEF HitBy
<1>5. f \in Surjection(D, HitBy(name))
  BY <1>3, <1>4 DEF Surjection
<1>6. \A i, j \in D : f[i] = f[j] => i = j
  BY <1>1, <1>3, OneRow
<1>7. f \in Injection(D, HitBy(name))
  BY <1>3, <1>4, <1>6 DEF Injection, IsInjective
<1>8. Cardinality(HitBy(name)) = Cardinality(D)
  BY <1>2, <1>5, <1>7, FS_Surjection
<1>9. Hit(name) = Cardinality(D)
  BY <1>1 DEF Hit
<1>10. HitBy(name) \subseteq AllAsked
  <2>1. AskedOf(rows, name) = AllAsked
    BY DEF AllAnswered
  <2>2. \A i \in D : rows[i].qid \in AskedOf(rows, name)
    BY <1>1 DEF RowsOf, AskedOf
  <2>3. QED
    BY <1>4, <2>1, <2>2
<1>11. QED
  BY <1>8, <1>9, <1>10

LEMMA OnlyLeftIs ==
  ASSUME AllAnswered(rows), NEW l \in Range(Systems), NEW r \in Range(Systems)
  PROVE  OnlyLeft(l, r) = Cardinality(HitBy(l) \ HitBy(r))
<1>1. PICK P : P = {p \in RowsOf(l) \X RowsOf(r) :
                      rows[p[1]].qid = rows[p[2]].qid /\ Better(rows[p[1]], rows[p[2]])}
  OBVIOUS
<1>2. PICK only : only = HitBy(l) \ HitBy(r)
  OBVIOUS
<1>3. IsFiniteSet(P)
  <2>1. IsFiniteSet(RowsOf(l) \X RowsOf(r))
    BY RowsAreFinite, FS_Product
  <2>2. QED
    BY <1>1, <2>1, FS_Subset
<1>4. \A name : \A i \in RowsOf(name) : rows[i].hit \in {0, 1}
  BY DEF AllAnswered, RowIsWhole, RowsOf
<1>5. ASSUME NEW i \in RowsOf(l), NEW j \in RowsOf(r), rows[i].qid = rows[j].qid
      PROVE  /\ Better(rows[i], rows[j]) <=> rows[i].hit = 1 /\ rows[j].hit = 0
             /\ Better(rows[i], rows[j]) <=> rows[i].qid \in only
  <2>1. rows[i].hit \in {0, 1} /\ rows[j].hit \in {0, 1}
    BY <1>4
  <2>2. Better(rows[i], rows[j]) <=> rows[i].hit = 1 /\ rows[j].hit = 0
    BY <2>1 DEF Better
  <2>3. rows[i].qid \in HitBy(l) <=> rows[i].hit = 1
    <3>1. ASSUME rows[i].qid \in HitBy(l) PROVE rows[i].hit = 1
      <4>1. PICK u \in RowsOf(l) : rows[u].hit = 1 /\ rows[u].qid = rows[i].qid
        BY <3>1 DEF HitBy
      <4>2. u = i
        BY <4>1, OneRow
      <4>3. QED
        BY <4>1, <4>2
    <3>2. QED
      BY <3>1 DEF HitBy
  <2>4. rows[j].qid \in HitBy(r) <=> rows[j].hit = 1
    <3>1. ASSUME rows[j].qid \in HitBy(r) PROVE rows[j].hit = 1
      <4>1. PICK u \in RowsOf(r) : rows[u].hit = 1 /\ rows[u].qid = rows[j].qid
        BY <3>1 DEF HitBy
      <4>2. u = j
        BY <4>1, OneRow
      <4>3. QED
        BY <4>1, <4>2
    <3>2. QED
      BY <3>1 DEF HitBy
  <2>5. QED
    BY <1>2, <1>5, <2>1, <2>2, <2>3, <2>4
<1>6. PICK f : f = [p \in P |-> rows[p[1]].qid]
  OBVIOUS
<1>7. \A p \in P : p = <<p[1], p[2]>> /\ p[1] \in RowsOf(l) /\ p[2] \in RowsOf(r)
                   /\ rows[p[1]].qid = rows[p[2]].qid /\ Better(rows[p[1]], rows[p[2]])
  BY <1>1
<1>8. \A p \in P : f[p] \in only
  BY <1>5, <1>6, <1>7
<1>9. f \in [P -> only]
  BY <1>6, <1>8
<1>10. ASSUME NEW q \in only
       PROVE  \E p \in P : f[p] = q
  <2>1. PICK i \in RowsOf(l) : rows[i].qid = q
    BY <1>2 DEF HitBy
  <2>2. q \in AllAsked
    BY <1>2, HitIs
  <2>3. q \in AskedOf(rows, r)
    BY <2>2 DEF AllAnswered
  <2>4. PICK j \in RowsOf(r) : rows[j].qid = q
    BY <2>3 DEF AskedOf, RowsOf
  <2>5. Better(rows[i], rows[j])
    BY <1>5, <2>1, <2>4
  <2>6. PICK p : p = <<i, j>>
    OBVIOUS
  <2>7. p \in P
    BY <1>1, <2>1, <2>4, <2>5, <2>6
  <2>8. QED
    BY <1>6, <2>1, <2>6, <2>7
<1>11. ASSUME NEW p \in P, NEW q \in P, f[p] = f[q]
       PROVE  p = q
  <2>1. rows[p[1]].qid = rows[q[1]].qid /\ rows[p[2]].qid = rows[q[2]].qid
    BY <1>6, <1>7, <1>11
  <2>2. p[1] = q[1]
    BY <1>7, <2>1, OneRow
  <2>3. p[2] = q[2]
    BY <1>7, <2>1, OneRow
  <2>4. QED
    BY <1>7, <2>2, <2>3
<1>12. f \in Surjection(P, only)
  BY <1>9, <1>10 DEF Surjection
<1>13. f \in Injection(P, only)
  BY <1>9, <1>11 DEF Injection, IsInjective
<1>14. Cardinality(only) = Cardinality(P)
  BY <1>3, <1>12, <1>13, FS_Surjection
<1>15. OnlyLeft(l, r) = Cardinality(P)
  BY <1>1 DEF OnlyLeft
<1>16. QED
  BY <1>2, <1>14, <1>15

LEMMA CountsAgree ==
  ASSUME AllAnswered(rows), NEW l \in Range(Systems), NEW r \in Range(Systems)
  PROVE  /\ Hit(l) + OnlyLeft(r, l) = Hit(r) + OnlyLeft(l, r)
         /\ OnlyLeft(l, r) + OnlyLeft(r, l) <= Cardinality(AllAsked)
<1>1. PICK A, B : A = HitBy(l) /\ B = HitBy(r)
  OBVIOUS
<1>2. A \subseteq AllAsked /\ B \subseteq AllAsked /\ IsFiniteSet(AllAsked)
  BY <1>1, HitIs, AskedAreFinite
<1>3. IsFiniteSet(A) /\ IsFiniteSet(B)
  BY <1>2, FS_Subset
<1>4. PICK a, b, both \in Nat : a = Cardinality(A) /\ b = Cardinality(B) /\ both = Cardinality(A \cap B)
  BY <1>3, FS_CardinalityType, FS_Subset
<1>5. IsFiniteSet(A \ B) /\ Cardinality(A \ B) = a - both
  BY <1>3, <1>4, FS_Difference
<1>6. IsFiniteSet(B \ A) /\ Cardinality(B \ A) = b - both
  <2>1. B \cap A = A \cap B
    OBVIOUS
  <2>2. QED
    BY <1>3, <1>4, <2>1, FS_Difference
<1>7. Hit(l) = a /\ Hit(r) = b
  BY <1>1, <1>4, HitIs
<1>8. OnlyLeft(l, r) = a - both /\ OnlyLeft(r, l) = b - both
  BY <1>1, <1>5, <1>6, OnlyLeftIs
<1>9. Cardinality((A \ B) \cup (B \ A)) = (a - both) + (b - both)
  <2>1. (A \ B) \cap (B \ A) = {}
    OBVIOUS
  <2>2. Cardinality((A \ B) \cap (B \ A)) = 0
    BY <2>1, FS_EmptySet
  <2>3. PICK x, y : x = A \ B /\ y = B \ A
    OBVIOUS
  <2>4. Cardinality(x \cup y) = Cardinality(x) + Cardinality(y) - Cardinality(x \cap y)
    BY <1>5, <1>6, <2>3, FS_Union
  <2>5. Cardinality(x) \in Nat /\ Cardinality(y) \in Nat /\ Cardinality(x \cap y) = 0
    BY <1>5, <1>6, <2>2, <2>3, FS_CardinalityType
  <2>6. Cardinality(x \cup y) = Cardinality(x) + Cardinality(y)
    BY <2>4, <2>5
  <2>7. QED
    BY <1>5, <1>6, <2>3, <2>6
<1>10. Cardinality((A \ B) \cup (B \ A)) <= Cardinality(AllAsked)
  <2>1. (A \ B) \cup (B \ A) \in SUBSET AllAsked
    BY <1>2
  <2>2. QED
    BY <1>2, <2>1, FS_Subset
<1>11. QED
  BY <1>4, <1>7, <1>8, <1>9, <1>10

LEMMA RatesAre ==
  ASSUME AllAnswered(rows), NEW name
  PROVE  Hit(name) \in Nat /\ Recall(name) \in Nat
<1>1. IsFiniteSet(RowsOf(name))
  BY RowsAreFinite
<1>2. IsFiniteSet({i \in RowsOf(name) : rows[i].hit = 1})
  BY <1>1, FS_Subset
<1>3. IsFiniteSet(1 .. Unit)
  BY BenchmarkAssumption, FS_Interval
<1>4. IsFiniteSet(RowsOf(name) \X (1 .. Unit))
  BY <1>1, <1>3, FS_Product
<1>5. IsFiniteSet({p \in RowsOf(name) \X (1 .. Unit) : p[2] <= rows[p[1]].recall})
  BY <1>4, FS_Subset
<1>6. QED
  BY <1>2, <1>5, FS_CardinalityType DEF Hit, Recall

LEMMA WinnerIsAhead ==
  ASSUME AllAnswered(rows), NEW l, NEW r, Winner(l, r) # "mixed", NEW name \in {l, r}
  PROVE  Hit(Winner(l, r)) >= Hit(name) /\ Recall(Winner(l, r)) >= Recall(name)
<1>1. PICK hl, hr, cl, cr \in Nat : hl = Hit(l) /\ hr = Hit(r) /\ cl = Recall(l) /\ cr = Recall(r)
  BY RatesAre
<1>2. PICK w : w = Winner(l, r)
  OBVIOUS
<1>3. \/ w = r /\ hr >= hl /\ cr >= cl
      \/ w = l /\ hl >= hr /\ cl >= cr
  <2>1. CASE hr > hl /\ cr >= cl
    BY <1>1, <1>2, <2>1 DEF Winner
  <2>2. CASE hl > hr /\ cl >= cr
    BY <1>1, <1>2, <2>2 DEF Winner
  <2>3. CASE cr > cl /\ hr >= hl
    BY <1>1, <1>2, <2>3 DEF Winner
  <2>4. CASE cl > cr /\ hl >= hr
    BY <1>1, <1>2, <2>4 DEF Winner
  <2>5. QED
    BY <1>1, <2>1, <2>2, <2>3, <2>4 DEF Winner
<1>4. QED
  BY <1>1, <1>2, <1>3

-----------------------------------------------------------------------------
(* Benchmark: the report.                                                  *)

TheReport ==
  [left |-> Systems[1], right |-> Systems[Len(Systems)], winner |-> Winner(Systems[1], Systems[Len(Systems)]),
   leftOnly |-> OnlyLeft(Systems[1], Systems[Len(Systems)]),
   rightOnly |-> OnlyLeft(Systems[Len(Systems)], Systems[1]), radius |-> Stashed(memory)]

Finished ==
  asking > Len(Questions(convo)) /\ convo = Len(Samples) /\ system = Len(Systems)

ReportInv ==
  /\ system \in DOMAIN Systems /\ convo \in DOMAIN Samples /\ asking \in Nat
  /\ RowsAre(rows, system, convo, asking)
  /\ report # <<>> => Finished /\ report = <<TheReport>>

LEMMA QuestionsCount ==
  ASSUME NEW c \in DOMAIN Samples
  PROVE  Len(Questions(c)) \in Nat
BY QuestionsAre, ListIsSeq

LEMMA ReportStarts ==
  BInit => ReportInv
<1>1. SUFFICES ASSUME BInit PROVE ReportInv
  OBVIOUS
<1>2. system = 1 /\ convo = 1 /\ asking = 0 /\ rows = <<>> /\ report = <<>>
  BY <1>1 DEF BInit
<1>3. QED
  BY <1>2, ConversationsAre, RowsStart DEF ReportInv

LEMMA ReportStep ==
  ASSUME ReportInv, [BNext]_bvars
  PROVE  ReportInv'
<1>1. /\ system \in DOMAIN Systems /\ convo \in DOMAIN Samples /\ asking \in Nat
      /\ RowsAre(rows, system, convo, asking)
  BY DEF ReportInv
<1>2. convo \in Nat /\ system \in Nat /\ Len(Questions(convo)) \in Nat
  BY <1>1, ConversationsAre, QuestionsCount
<1>3. CASE Ingest
  <2>1. /\ asking = 0 /\ asking' = 1 /\ system' = system /\ convo' = convo /\ rows' = rows
        /\ report' = report
    BY <1>3 DEF Ingest
  <2>2. report = <<>>
    BY <1>2, <2>1 DEF ReportInv, Finished
  <2>3. \A s \in DOMAIN Systems : DueAt(s, system, convo, 1) = DueAt(s, system, convo, 0)
    BY DueIngest
  <2>4. RowsAre(rows, system, convo, 1)
    BY <1>1, <2>1, <2>3, RowsStay
  <2>5. QED
    BY <1>1, <2>1, <2>2, <2>4 DEF ReportInv
<1>4. CASE Search \/ UnknownAction
  <2>1. /\ Asked /\ asking' = asking /\ system' = system /\ convo' = convo /\ rows' = rows
        /\ report' = report
    BY <1>4 DEF Search, UnknownAction
  <2>2. report = <<>>
    BY <1>1, <1>2, <2>1 DEF ReportInv, Finished, Asked
  <2>3. QED
    BY <1>1, <2>1, <2>2 DEF ReportInv
<1>5. CASE Answer
  <2>1. /\ asking > 0 /\ asking <= Len(Questions(convo))
        /\ asking' = asking + 1 /\ system' = system /\ convo' = convo /\ report' = report
    BY <1>5 DEF Answer, Asked
  <2>2. report = <<>>
    BY <1>1, <1>2, <2>1 DEF ReportInv, Finished
  <2>3. PICK q, h, gold : q = Questions(convo)[asking] /\ h = agent.hits /\ gold = Gold(convo, q)
    OBVIOUS
  <2>4. PICK rec, ora : /\ rec = (Unit * Cardinality({h[i].id : i \in DOMAIN h} \cap gold)) \div Cardinality(gold)
                         /\ ora = (Unit * (IF K < Cardinality(gold) THEN K ELSE Cardinality(gold)))
                                    \div Cardinality(gold)
    OBVIOUS
  <2>5. PICK hit \in {0, 1} : hit = IF {h[i].id : i \in DOMAIN h} \cap gold # {} THEN 1 ELSE 0
    OBVIOUS
  <2>6. PICK x : x = [system |-> Systems[system], qid |-> <<convo, asking>>, category |-> q.category,
                      hits |-> h, hit |-> hit, recall |-> rec, oracle |-> ora]
    OBVIOUS
  <2>7. rows' = Append(rows, x)
    BY <1>5, <2>5, <2>6, <2>3, <2>4 DEF Answer
  <2>8. q.category \in 1 .. 5
    <3>1. asking \in DOMAIN Questions(convo)
      BY <1>1, <2>1, QuestionsAre, ListIsSeq
    <3>2. q.category \in Categories
      BY <1>1, <2>3, <3>1, QuestionsAre
    <3>3. QED
      BY <3>2, BenchmarkAssumption
  <2>9. RowIsWhole(x) /\ x.system = Systems[system] /\ x.qid = <<convo, asking>>
    BY <2>5, <2>6, <2>8 DEF RowIsWhole
  <2>10. RowsAre(Append(rows, x), system, convo, asking + 1)
    BY <1>1, <2>1, <2>9, RowsGrow
  <2>11. QED
    BY <1>1, <2>1, <2>2, <2>7, <2>10 DEF ReportInv
<1>6. CASE NextConversation
  <2>1. /\ asking > Len(Questions(convo)) /\ convo < Len(Samples)
        /\ asking' = 0 /\ system' = system /\ convo' = convo + 1 /\ rows' = rows /\ report' = report
    BY <1>6 DEF NextConversation
  <2>2. report = <<>>
    BY <1>2, <2>1 DEF ReportInv, Finished
  <2>3. \A s \in DOMAIN Systems : DueAt(s, system, convo + 1, 0) = DueAt(s, system, convo, asking)
    BY <1>1, <1>2, <2>1, DueConversation
  <2>4. RowsAre(rows, system, convo + 1, 0)
    BY <1>1, <2>3, RowsStay
  <2>5. convo + 1 \in DOMAIN Samples
    BY <1>2, <2>1, ConversationsAre
  <2>6. QED
    BY <1>1, <2>1, <2>2, <2>4, <2>5 DEF ReportInv
<1>7. CASE NextSystem
  <2>1. /\ asking > Len(Questions(convo)) /\ convo = Len(Samples) /\ system < Len(Systems)
        /\ asking' = 0 /\ system' = system + 1 /\ convo' = 1 /\ rows' = rows /\ report' = report
    BY <1>7 DEF NextSystem
  <2>2. report = <<>>
    BY <1>2, <2>1, ConversationsAre DEF ReportInv, Finished
  <2>3. ASSUME NEW s \in DOMAIN Systems
        PROVE  DueAt(s, system + 1, 1, 0) = DueAt(s, system, convo, asking)
    <3>1. s \in Nat
      BY ConversationsAre
    <3>2. QED
      BY <1>1, <1>2, <2>1, <3>1, DueSystem
  <2>4. RowsAre(rows, system + 1, 1, 0)
    BY <1>1, <2>3, RowsStay
  <2>5. system + 1 \in DOMAIN Systems /\ 1 \in DOMAIN Samples
    BY <1>2, <2>1, ConversationsAre
  <2>6. QED
    BY <2>1, <2>2, <2>4, <2>5 DEF ReportInv
<1>8. CASE Compare
  <2>1. /\ Finished /\ report' = <<TheReport>>
        /\ asking' = asking /\ system' = system /\ convo' = convo /\ rows' = rows /\ memory' = memory
    BY <1>8 DEF Compare, Finished, TheReport
  <2>2. Finished'
    BY <2>1 DEF Finished
  <2>3. TheReport' = TheReport
    BY <2>1 DEF TheReport, Winner, OnlyLeft, Hit, Recall, RowsOf
  <2>4. QED
    BY <1>1, <2>1, <2>2, <2>3 DEF ReportInv
<1>9. CASE UNCHANGED bvars
  <2>1. /\ asking' = asking /\ system' = system /\ convo' = convo /\ rows' = rows /\ memory' = memory
        /\ report' = report
    BY <1>9 DEF bvars
  <2>2. Finished' <=> Finished
    BY <2>1 DEF Finished
  <2>3. TheReport' = TheReport
    BY <2>1 DEF TheReport, Winner, OnlyLeft, Hit, Recall, RowsOf
  <2>4. QED
    BY <1>1, <2>1, <2>2, <2>3 DEF ReportInv
<1>10. QED
  BY <1>3, <1>4, <1>5, <1>6, <1>7, <1>8, <1>9 DEF BNext

LEMMA ReportExplains ==
  ReportInv => ReportIsSound
<1>1. SUFFICES ASSUME ReportInv, report # <<>> PROVE ReportIsSound
  BY DEF ReportIsSound
<1>2. PICK l, r : l = Systems[1] /\ r = Systems[Len(Systems)]
  OBVIOUS
<1>3. l \in Range(Systems) /\ r \in Range(Systems)
  <2>1. 1 \in DOMAIN Systems /\ Len(Systems) \in DOMAIN Systems
    BY ConversationsAre
  <2>2. QED
    BY <1>2, <2>1 DEF Range
<1>4. AllAnswered(rows)
  <2>1. /\ Finished /\ asking \in Nat /\ RowsAre(rows, system, convo, asking)
    BY <1>1 DEF ReportInv
  <2>2. RowsAre(rows, Len(Systems), Len(Samples), asking) /\ asking > Len(Questions(Len(Samples)))
    BY <2>1 DEF Finished
  <2>3. QED
    BY <2>1, <2>2, RowsEnd
<1>5. PICK p : p = TheReport
  OBVIOUS
<1>6. report = <<p>>
  BY <1>1, <1>5 DEF ReportInv
<1>7. Head(report) = p
  BY <1>6
<1>8. /\ p.left = l /\ p.right = r /\ p.winner = Winner(l, r)
      /\ p.leftOnly = OnlyLeft(l, r) /\ p.rightOnly = OnlyLeft(r, l)
  BY <1>2, <1>5 DEF TheReport
<1>9. ASSUME NEW name \in Range(Systems)
      PROVE  Asks(name) = Asks(l) /\ Len(Asks(name)) = Cardinality(AllAsked)
  <2>1. IsList(Asks(name)) /\ Increasing(Asks(name), AskingOrder) /\ Range(Asks(name)) = AllAsked
    BY <1>4, AsksAre
  <2>2. IsList(Asks(l)) /\ Increasing(Asks(l), AskingOrder) /\ Range(Asks(l)) = AllAsked
    BY <1>3, <1>4, AsksAre
  <2>3. IsFiniteSet(AllAsked) /\ StrictOrder(AskingOrder, AllAsked)
    BY AskedAreFinite, AskedInOrder
  <2>4. Asks(name) = Asks(l)
    BY <2>1, <2>2, <2>3, SortedSame
  <2>5. Len(Asks(name)) = Cardinality(AllAsked)
    BY <2>1, <2>3, SortedRanks
  <2>6. QED
    BY <2>4, <2>5
<1>10. \A name : Categorised(name) = RowsOf(name)
  BY <1>4 DEF AllAnswered, RowIsWhole, Categorised, RowsOf
<1>11. Hit(l) + p.rightOnly = Hit(r) + p.leftOnly
  BY <1>3, <1>4, <1>8, CountsAgree
<1>12. p.leftOnly + p.rightOnly <= Len(Asks(l))
  BY <1>3, <1>4, <1>8, <1>9, CountsAgree
<1>13. p.winner # "mixed" =>
         \A name \in {l, r} : Hit(p.winner) >= Hit(name) /\ Recall(p.winner) >= Recall(name)
  BY <1>4, <1>8, WinnerIsAhead
<1>14. QED
  BY <1>2, <1>7, <1>8, <1>9, <1>10, <1>11, <1>12, <1>13 DEF ReportIsSound

(* The report that compares the first system with the last explains        *)
(* itself: both answered every question once and in the same order, the    *)
(* categories and the examples leave nothing out, the counts of what one   *)
(* hit and the other missed account for the difference of their hits, and  *)
(* a named winner is behind in neither rate.                               *)
THEOREM ReportAlwaysSound == BSpec => []ReportIsSound
<1>1. BInit => ReportInv
  BY ReportStarts
<1>2. ReportInv /\ [BNext]_bvars => ReportInv'
  BY ReportStep
<1>3. ReportInv => ReportIsSound
  BY ReportExplains
<1>4. QED
  BY <1>1, <1>2, <1>3, PTL DEF BSpec
=============================================================================
