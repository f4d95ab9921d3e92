----------------------------- MODULE ProofBasics -----------------------------
(***************************************************************************)
(* The least-number principle and induction, stated for sets of naturals,  *)
(* which is the form the provers can use; and what induction gives for the *)
(* folds of the community modules that the properties use.                 *)
(***************************************************************************)
EXTENDS Integers, SequencesExt, FiniteSetTheorems, WellFoundedInduction, TLAPS

\* A set of naturals that is not empty has a least element: the sets 0 .. x,
\* x in T, are finite, so one of them is minimal under inclusion.
LEMMA LeastNatural ==
    ASSUME NEW T, T \subseteq Nat, T # {}
    PROVE  \E x \in T : \A y \in T : x <= y
<1> DEFINE U == {0 .. x : x \in T}
<1>1. U # {} /\ U \subseteq FiniteSubsetsOf(Nat)
  <2>1. \A x \in T : IsFiniteSet(0 .. x) /\ 0 .. x \subseteq Nat
    BY FS_Interval
  <2> QED
    BY <2>1 DEF FiniteSubsetsOf
<1>2. PICK u \in U : \A v \in U : ~ (<<v, u>> \in StrictSubsetOrdering(Nat))
  BY <1>1, FS_StrictSubsetOrderingWellFounded, WFMin
<1>3. PICK x \in T : u = 0 .. x
  OBVIOUS
<1>4. ASSUME NEW y \in T, y < x PROVE FALSE
  <2>1. 0 .. y \subseteq 0 .. x /\ 0 .. y # 0 .. x /\ 0 .. x \subseteq Nat
    BY <1>4
  <2>2. <<0 .. y, 0 .. x>> \in StrictSubsetOrdering(Nat)
    <3> DEFINE ss == <<0 .. y, 0 .. x>>
    <3>1. ss \in (SUBSET Nat) \X (SUBSET Nat) /\ ss[1] = 0 .. y /\ ss[2] = 0 .. x
      BY <2>1
    <3> HIDE DEF ss
    <3>2. ss \in StrictSubsetOrdering(Nat)
      BY <3>1, <2>1 DEF StrictSubsetOrdering
    <3> QED
      BY <3>2 DEF ss
  <2> QED
    BY <1>2, <1>3, <2>2
<1> QED
  BY <1>4

\* Induction: the least natural outside T would have a predecessor in T.
LEMMA SetInduction ==
    ASSUME NEW T, T \subseteq Nat, 0 \in T, \A n \in T : n + 1 \in T
    PROVE  T = Nat
<1>1. SUFFICES ASSUME Nat \ T # {} PROVE FALSE
  OBVIOUS
<1>2. PICK m \in Nat \ T : \A k \in Nat \ T : m <= k
  BY <1>1, LeastNatural
<1>3. m - 1 \in Nat /\ m - 1 < m
  BY <1>2
<1>4. m - 1 \in T
  BY <1>2, <1>3
<1> QED
  BY <1>2, <1>4
-----------------------------------------------------------------------------
\* One more element behind a sequence of any.
LEMMA AppendIs ==
    ASSUME NEW n \in Nat, NEW s, s = [i \in 1 .. n |-> s[i]], NEW e
    PROVE  /\ Append(s, e) = [i \in 1 .. n + 1 |-> Append(s, e)[i]]
           /\ Len(Append(s, e)) = n + 1
           /\ \A i \in 1 .. n : Append(s, e)[i] = s[i]
           /\ Append(s, e)[n + 1] = e
<1> DEFINE S == {s[i] : i \in 1 .. n} \cup {e}
<1>1. s \in [1 .. n -> S]
  OBVIOUS
<1>2. s \in Seq(S) /\ Len(s) = n /\ e \in S
  BY <1>1
<1> HIDE DEF S
<1>3. Append(s, e) \in Seq(S) /\ Len(Append(s, e)) = n + 1
  BY <1>2
<1> QED
  BY <1>2, <1>3
-----------------------------------------------------------------------------
\* t is the running concatenation of the sequences in ss, up to the n-th.
Flattening(t, ss, n) ==
    \A i \in 1 .. n : t[i] = IF i = 1 THEN ss[i] ELSE t[i - 1] \o ss[i]

LEMMA FlatteningExists ==
    ASSUME NEW ss, NEW n \in Nat
    PROVE  \E t : Flattening(t, ss, n)
<1> DEFINE T == {m \in Nat : \E t : Flattening(t, ss, m)}
<1>1. 0 \in T
  <2> DEFINE t == [i \in 1 .. 0 |-> ss[i]]
  <2>1. Flattening(t, ss, 0)
    BY DEF Flattening
  <2> QED
    BY <2>1
<1>2. ASSUME NEW m \in T PROVE m + 1 \in T
  <2>1. PICK t : Flattening(t, ss, m)
    OBVIOUS
  <2> DEFINE u == [i \in 1 .. m + 1 |-> IF i = 1 THEN ss[i] ELSE t[i - 1] \o ss[i]]
  <2>2. \A i \in 1 .. m : u[i] = t[i]
    BY <2>1 DEF Flattening
  <2>3. \A i \in 1 .. m + 1 : u[i] = IF i = 1 THEN ss[i] ELSE t[i - 1] \o ss[i]
    OBVIOUS
  <2> HIDE DEF u
  <2>4. \A i \in 1 .. m + 1 : i # 1 => u[i - 1] = t[i - 1]
    BY <2>2
  <2>5. Flattening(u, ss, m + 1)
    BY <2>3, <2>4 DEF Flattening
  <2> QED
    BY <2>5
<1> HIDE DEF T
<1>3. T = Nat
  BY <1>1, <1>2, SetInduction DEF T
<1> QED
  BY <1>3 DEF T

LEMMA FlattenSeqIs ==
    ASSUME NEW ss, Len(ss) \in Nat, Len(ss) # 0
    PROVE  \E t : Flattening(t, ss, Len(ss)) /\ FlattenSeq(ss) = t[Len(ss)]
<1> DEFINE n == Len(ss)
           Whole(f) == f = [i \in 1 .. n |-> IF i = 1 THEN ss[i] ELSE f[i - 1] \o ss[i]]
           t == CHOOSE f : Whole(f)
<1>1. FlattenSeq(ss) = t[n]
  BY DEF FlattenSeq
<1>2. PICK u : Flattening(u, ss, n)
  BY FlatteningExists
<1>3. \E f : Whole(f)
  <2> DEFINE v == [i \in 1 .. n |-> u[i]]
             w == [i \in 1 .. n |-> IF i = 1 THEN ss[i] ELSE v[i - 1] \o ss[i]]
  <2>1. \A i \in 1 .. n : v[i] = w[i]
    BY <1>2 DEF Flattening
  <2>2. v = w
    BY <2>1
  <2> QED
    BY <2>2
<1>4. Whole(t)
  BY <1>3
<1> HIDE DEF t
<1>5. Flattening(t, ss, n)
  <2> DEFINE w == [i \in 1 .. n |-> IF i = 1 THEN ss[i] ELSE t[i - 1] \o ss[i]]
  <2>1. t = w
    BY <1>4
  <2>2. \A i \in 1 .. n : w[i] = IF i = 1 THEN ss[i] ELSE t[i - 1] \o ss[i]
    OBVIOUS
  <2> HIDE DEF w
  <2> QED
    BY <2>1, <2>2 DEF Flattening
<1> QED
  BY <1>1, <1>5

LEMMA FlatteningType ==
    ASSUME NEW S, NEW ss \in Seq(Seq(S)), NEW n \in Nat, n <= Len(ss),
           NEW t, Flattening(t, ss, n)
    PROVE  \A i \in 1 .. n : t[i] \in Seq(S)
<1> DEFINE T == {i \in Nat : i \in 1 .. n => t[i] \in Seq(S)}
<1>0. \A i \in 1 .. n : ss[i] \in Seq(S) /\ t[i] = IF i = 1 THEN ss[i] ELSE t[i - 1] \o ss[i]
  BY DEF Flattening
<1>1. 0 \in T
  OBVIOUS
<1>2. ASSUME NEW i \in T PROVE i + 1 \in T
  <2>1. ASSUME i + 1 \in 1 .. n PROVE t[i + 1] \in Seq(S)
    <3>1. CASE i = 0
      BY <1>0, <2>1, <3>1
    <3>2. CASE i # 0
      <4>1. i \in 1 .. n /\ i + 1 # 1 /\ (i + 1) - 1 = i
        BY <2>1, <3>2
      <4>2. t[i] \in Seq(S)
        BY <4>1
      <4>3. ss[i + 1] \in Seq(S) /\ t[i + 1] = t[i] \o ss[i + 1]
        BY <1>0, <2>1, <4>1
      <4> QED
        BY <4>2, <4>3
    <3> QED
      BY <3>1, <3>2
  <2> QED
    BY <2>1
<1> HIDE DEF T
<1>3. T = Nat
  BY <1>1, <1>2, SetInduction DEF T
<1> QED
  BY <1>3 DEF T

LEMMA FlatteningUnique ==
    ASSUME NEW ss, NEW m \in Nat,
           NEW t, Flattening(t, ss, m), NEW u, Flattening(u, ss, m)
    PROVE  \A i \in 1 .. m : t[i] = u[i]
<1> DEFINE T == {i \in Nat : i \in 1 .. m => t[i] = u[i]}
<1>0. \A i \in 1 .. m : /\ t[i] = IF i = 1 THEN ss[i] ELSE t[i - 1] \o ss[i]
                        /\ u[i] = IF i = 1 THEN ss[i] ELSE u[i - 1] \o ss[i]
  BY DEF Flattening
<1>1. 0 \in T
  OBVIOUS
<1>2. ASSUME NEW i \in T PROVE i + 1 \in T
  BY <1>0
<1> HIDE DEF T
<1>3. T = Nat
  BY <1>1, <1>2, SetInduction DEF T
<1> QED
  BY <1>3 DEF T

\* FlattenSeq, from the end.
LEMMA FlattenEmpty == FlattenSeq(<<>>) = <<>>
BY DEF FlattenSeq

LEMMA FlattenType ==
    ASSUME NEW S, NEW ss \in Seq(Seq(S))
    PROVE  FlattenSeq(ss) \in Seq(S)
<1>1. CASE Len(ss) = 0
  <2>1. FlattenSeq(ss) = ss
    BY <1>1 DEF FlattenSeq
  <2> QED
    BY <1>1, <2>1
<1>2. CASE Len(ss) # 0
  <2>1. PICK t : Flattening(t, ss, Len(ss)) /\ FlattenSeq(ss) = t[Len(ss)]
    BY <1>2, FlattenSeqIs
  <2> QED
    BY <1>2, <2>1, FlatteningType
<1> QED
  BY <1>1, <1>2

LEMMA FlattenAppend ==
    ASSUME NEW S, NEW ss \in Seq(Seq(S)), NEW s \in Seq(S)
    PROVE  FlattenSeq(Append(ss, s)) = FlattenSeq(ss) \o s
<1> DEFINE rr == Append(ss, s)
           n == Len(ss)
<1>1. /\ rr \in Seq(Seq(S)) /\ n \in Nat /\ Len(rr) = n + 1 /\ rr[n + 1] = s
      /\ \A i \in 1 .. n : ss[i] = rr[i]
  OBVIOUS
<1> HIDE DEF rr
<1>2. PICK u : Flattening(u, rr, n + 1) /\ FlattenSeq(rr) = u[n + 1]
  BY <1>1, FlattenSeqIs
<1>3. u[n + 1] = IF n + 1 = 1 THEN rr[n + 1] ELSE u[n] \o rr[n + 1]
  BY <1>1, <1>2 DEF Flattening
<1>4. CASE n = 0
  BY <1>1, <1>2, <1>3, <1>4, FlattenEmpty DEF rr
<1>5. CASE n # 0
  <2>1. PICK t : Flattening(t, ss, n) /\ FlattenSeq(ss) = t[n]
    BY <1>1, <1>5, FlattenSeqIs
  <2>2. t[n] = u[n]
    <3>1. n \in 1 .. n /\ Flattening(u, ss, n)
      BY <1>1, <1>2, <1>5 DEF Flattening
    <3>2. \A i \in 1 .. n : t[i] = u[i]
      BY <1>1, <1>2, <2>1, <3>1, FlatteningUnique
    <3> QED
      BY <3>1, <3>2
  <2> QED
    BY <1>1, <1>2, <1>3, <1>5, <2>1, <2>2 DEF rr
<1> QED
  BY <1>4, <1>5
-----------------------------------------------------------------------------
Chosen(s) == CHOOSE x \in s : TRUE

Numeric(f, S) == \A x \in S : f[x] \in Nat

\* g sums f over the subsets of S with at most k elements, taking away one
\* chosen index after the other, as SumFunction does.
Summing(g, f, S, k) ==
    \A s \in SUBSET S : Cardinality(s) <= k =>
        g[s] = IF s = {} THEN 0 ELSE f[Chosen(s)] + g[s \ {Chosen(s)}]

LEMMA LessByOne ==
    ASSUME NEW S, IsFiniteSet(S), NEW s \in SUBSET S, NEW x \in s
    PROVE  /\ IsFiniteSet(s)
           /\ Cardinality(s) \in Nat
           /\ Cardinality(s) > 0
           /\ s \ {x} \in SUBSET S
           /\ Cardinality(s \ {x}) = Cardinality(s) - 1
<1>1. IsFiniteSet(s)
  BY FS_Subset
<1>2. Cardinality(s) \in Nat /\ Cardinality(s) # 0
  BY <1>1, FS_CardinalityType, FS_EmptySet
<1>3. Cardinality(s \ {x}) = Cardinality(s) - 1
  BY <1>1, FS_RemoveElement
<1> QED
  BY <1>1, <1>2, <1>3

LEMMA NoneLeft ==
    ASSUME NEW S, IsFiniteSet(S), NEW s \in SUBSET S, Cardinality(s) <= 0
    PROVE  s = {}
<1>1. IsFiniteSet(s)
  BY FS_Subset
<1>2. Cardinality(s) \in Nat
  BY <1>1, FS_CardinalityType
<1> QED
  BY <1>1, <1>2, FS_EmptySet

LEMMA ChosenIn == ASSUME NEW s, s # {} PROVE Chosen(s) \in s
BY DEF Chosen

LEMMA SummingExists ==
    ASSUME NEW f, NEW S, IsFiniteSet(S), NEW k \in Nat
    PROVE  \E g : Summing(g, f, S, k)
<1> DEFINE T == {m \in Nat : \E g : Summing(g, f, S, m)}
<1>1. 0 \in T
  <2> DEFINE g == [s \in SUBSET S |-> 0]
  <2>1. ASSUME NEW s \in SUBSET S, Cardinality(s) <= 0 PROVE s = {}
    BY <2>1, NoneLeft
  <2>2. Summing(g, f, S, 0)
    BY <2>1 DEF Summing
  <2> QED
    BY <2>2
<1>2. ASSUME NEW m \in T PROVE m + 1 \in T
  <2>1. PICK g : Summing(g, f, S, m)
    OBVIOUS
  <2> DEFINE h == [s \in SUBSET S |->
                     IF s = {} THEN 0 ELSE f[Chosen(s)] + g[s \ {Chosen(s)}]]
  <2>2. \A s \in SUBSET S : h[s] = IF s = {} THEN 0 ELSE f[Chosen(s)] + g[s \ {Chosen(s)}]
    OBVIOUS
  <2> HIDE DEF h
  <2>3. \A s \in SUBSET S : Cardinality(s) <= m => h[s] = g[s]
    BY <2>1, <2>2 DEF Summing
  <2>4. ASSUME NEW s \in SUBSET S, Cardinality(s) <= m + 1, s # {}
        PROVE  h[s \ {Chosen(s)}] = g[s \ {Chosen(s)}]
    <3>1. Chosen(s) \in s
      BY <2>4, ChosenIn
    <3>2. s \ {Chosen(s)} \in SUBSET S /\ Cardinality(s \ {Chosen(s)}) <= m
      BY <2>4, <3>1, LessByOne
    <3> QED
      BY <2>3, <3>2
  <2>5. Summing(h, f, S, m + 1)
    BY <2>2, <2>4 DEF Summing
  <2> QED
    BY <2>5
<1> HIDE DEF T
<1>3. T = Nat
  BY <1>1, <1>2, SetInduction DEF T
<1> QED
  BY <1>3 DEF T

LEMMA SumFunctionIs ==
    ASSUME NEW f, IsFiniteSet(DOMAIN f)
    PROVE  \E g : /\ Summing(g, f, DOMAIN f, Cardinality(DOMAIN f))
                  /\ SumFunction(f) = g[DOMAIN f]
<1> DEFINE S == DOMAIN f
           Whole(g) == g = [s \in SUBSET S |->
                              IF s = {} THEN 0
                              ELSE LET x == CHOOSE y \in s : TRUE
                                   IN  f[x] + g[s \ {x}]]
           g == CHOOSE h : Whole(h)
           k == Cardinality(S)
<1>1. SumFunction(f) = g[S]
  BY Zenon DEF SumFunction, SumFunctionOnSet, FoldFunctionOnSet, MapThenFoldSet
<1>2. \A s \in SUBSET S : Cardinality(s) <= k
  BY FS_Subset
<1>3. \E h : Whole(h)
  <2>1. k \in Nat
    BY FS_CardinalityType
  <2>2. PICK u : Summing(u, f, S, k)
    BY <2>1, SummingExists
  <2> DEFINE v == [s \in SUBSET S |-> u[s]]
             w == [s \in SUBSET S |->
                     IF s = {} THEN 0 ELSE f[Chosen(s)] + v[s \ {Chosen(s)}]]
  <2>3. \A s \in SUBSET S : v[s] = w[s]
    BY <1>2, <2>2 DEF Summing
  <2>4. v = w
    BY <2>3
  <2>5. Whole(v)
    BY <2>4 DEF Chosen
  <2> QED
    BY <2>5
<1>4. Whole(g)
  BY <1>3
<1> HIDE DEF g
<1>5. Summing(g, f, S, k)
  <2> DEFINE w == [s \in SUBSET S |->
                     IF s = {} THEN 0 ELSE f[Chosen(s)] + g[s \ {Chosen(s)}]]
  <2>1. g = w
    BY <1>4 DEF Chosen
  <2>2. \A s \in SUBSET S :
          w[s] = IF s = {} THEN 0 ELSE f[Chosen(s)] + g[s \ {Chosen(s)}]
    OBVIOUS
  <2> HIDE DEF w
  <2> QED
    BY <2>1, <2>2 DEF Summing
<1> QED
  BY <1>1, <1>5

LEMMA SummingType ==
    ASSUME NEW S, IsFiniteSet(S), NEW f, Numeric(f, S),
           NEW k \in Nat, NEW g, Summing(g, f, S, k)
    PROVE  \A s \in SUBSET S : Cardinality(s) <= k => g[s] \in Nat
<1> DEFINE T == {m \in Nat : \A s \in SUBSET S :
                    Cardinality(s) <= m /\ Cardinality(s) <= k => g[s] \in Nat}
<1>0. g[{}] = 0
  <2>1. Cardinality({}) <= k /\ {} \in SUBSET S
    BY FS_EmptySet
  <2> QED
    BY <2>1 DEF Summing
<1>1. 0 \in T
  <2>1. ASSUME NEW s \in SUBSET S, Cardinality(s) <= 0 PROVE s = {}
    BY <2>1, NoneLeft
  <2> QED
    BY <1>0, <2>1
<1>2. ASSUME NEW m \in T PROVE m + 1 \in T
  <2>1. ASSUME NEW s \in SUBSET S, Cardinality(s) <= m + 1, Cardinality(s) <= k, s # {}
        PROVE  g[s] \in Nat
    <3> DEFINE y == Chosen(s)
    <3>1. y \in s
      BY <2>1, ChosenIn
    <3> HIDE DEF y
    <3>2. /\ s \ {y} \in SUBSET S /\ Cardinality(s \ {y}) = Cardinality(s) - 1
          /\ Cardinality(s) \in Nat
      BY <3>1, LessByOne
    <3>3. g[s \ {y}] \in Nat
      BY <2>1, <3>2
    <3>4. g[s] = f[y] + g[s \ {y}]
      BY <2>1 DEF Summing, y
    <3> QED
      BY <3>1, <3>3, <3>4 DEF Numeric
  <2>2. \A s \in SUBSET S :
          Cardinality(s) <= m + 1 /\ Cardinality(s) <= k => g[s] \in Nat
    <3> SUFFICES ASSUME NEW s \in SUBSET S, Cardinality(s) <= m + 1, Cardinality(s) <= k
                 PROVE  g[s] \in Nat
      OBVIOUS
    <3>1. CASE s = {}
      BY <1>0, <3>1
    <3>2. CASE s # {}
      BY <2>1, <3>2
    <3> QED
      BY <3>1, <3>2
  <2> QED
    BY <2>2
<1> HIDE DEF T
<1>3. T = Nat
  BY <1>1, <1>2, SetInduction DEF T
<1> QED
  BY <1>3 DEF T

\* The order in which the indices are taken does not matter.
LEMMA SummingAny ==
    ASSUME NEW S, IsFiniteSet(S), NEW f, Numeric(f, S),
           NEW k \in Nat, NEW g, Summing(g, f, S, k)
    PROVE  \A s \in SUBSET S : Cardinality(s) <= k =>
              \A x \in s : g[s] = f[x] + g[s \ {x}]
<1> DEFINE T == {m \in Nat : \A s \in SUBSET S :
                    Cardinality(s) <= m /\ Cardinality(s) <= k =>
                        \A x \in s : g[s] = f[x] + g[s \ {x}]}
<1>1. 0 \in T
  <2>1. ASSUME NEW s \in SUBSET S, Cardinality(s) <= 0 PROVE s = {}
    BY <2>1, NoneLeft
  <2> QED
    BY <2>1
<1>2. ASSUME NEW m \in T PROVE m + 1 \in T
  <2>1. ASSUME NEW s \in SUBSET S, Cardinality(s) <= m + 1, Cardinality(s) <= k,
               NEW x \in s
        PROVE  g[s] = f[x] + g[s \ {x}]
    <3> DEFINE y == Chosen(s)
               sx == s \ {x}
               sy == s \ {y}
               r == sx \ {y}
    <3>0. \A q \in SUBSET S : Cardinality(q) <= m /\ Cardinality(q) <= k =>
            \A z \in q : g[q] = f[z] + g[q \ {z}]
      OBVIOUS
    <3>1. y \in s /\ s # {} /\ m \in Nat
      BY ChosenIn
    <3>2. g[s] = f[y] + g[sy]
      BY <2>1, <3>1 DEF Summing
    <3> HIDE DEF T, y
    <3>3. /\ sx \in SUBSET S /\ Cardinality(sx) = Cardinality(s) - 1
          /\ sy \in SUBSET S /\ Cardinality(sy) = Cardinality(s) - 1
          /\ Cardinality(s) \in Nat
      BY <3>1, LessByOne
    <3>4. CASE x # y
      <4>1. x \in sy /\ y \in sx /\ sy \ {x} = r
        BY <3>1, <3>4
      <4> HIDE DEF sx, sy
      <4>2. Cardinality(sx) <= m /\ Cardinality(sx) <= k
              /\ Cardinality(sy) <= m /\ Cardinality(sy) <= k
        BY <2>1, <3>1, <3>3
      <4>3. g[sy] = f[x] + g[r]
        BY <3>0, <3>3, <4>1, <4>2
      <4>4. g[sx] = f[y] + g[r]
        BY <3>0, <3>3, <4>1, <4>2
      <4>5. r \in SUBSET S /\ Cardinality(r) = Cardinality(sx) - 1
        BY <3>3, <4>1, LessByOne
      <4> HIDE DEF r
      <4>6. f[x] \in Nat /\ f[y] \in Nat
        BY <3>1 DEF Numeric
      <4>7. g[r] \in Nat
        <5>1. Cardinality(r) <= k
          BY <2>1, <3>3, <4>5
        <5> QED
          BY <4>5, <5>1, SummingType
      <4> QED
        BY <3>2, <4>3, <4>4, <4>6, <4>7 DEF sx, sy
    <3> QED
      BY <3>2, <3>4
  <2>2. \A s \in SUBSET S : Cardinality(s) <= m + 1 /\ Cardinality(s) <= k =>
          \A x \in s : g[s] = f[x] + g[s \ {x}]
    BY <2>1
  <2> QED
    BY <2>2
<1> HIDE DEF T
<1>3. T = Nat
  BY <1>1, <1>2, SetInduction DEF T
<1> QED
  BY <1>3 DEF T

\* Sums of the same numbers are the same.
LEMMA SummingUnique ==
    ASSUME NEW S, IsFiniteSet(S), NEW k \in Nat,
           NEW f, NEW g, Summing(g, f, S, k),
           NEW R, S \subseteq R, NEW e, \A x \in S : e[x] = f[x],
           NEW n \in Nat, k <= n, NEW h, Summing(h, e, R, n)
    PROVE  \A s \in SUBSET S : Cardinality(s) <= k => g[s] = h[s]
<1> DEFINE T == {m \in Nat : \A s \in SUBSET S :
                    Cardinality(s) <= m /\ Cardinality(s) <= k => g[s] = h[s]}
<1>0. g[{}] = 0 /\ h[{}] = 0
  <2>1. Cardinality({}) <= k /\ Cardinality({}) <= n /\ {} \in SUBSET S
          /\ {} \in SUBSET R
    BY FS_EmptySet
  <2> QED
    BY <2>1 DEF Summing
<1>1. 0 \in T
  <2>1. ASSUME NEW s \in SUBSET S, Cardinality(s) <= 0 PROVE s = {}
    BY <2>1, NoneLeft
  <2> QED
    BY <1>0, <2>1
<1>2. ASSUME NEW m \in T PROVE m + 1 \in T
  <2>1. ASSUME NEW s \in SUBSET S, Cardinality(s) <= m + 1, Cardinality(s) <= k, s # {}
        PROVE  g[s] = h[s]
    <3> DEFINE y == Chosen(s)
    <3>1. y \in s
      BY <2>1, ChosenIn
    <3>2. /\ s \ {y} \in SUBSET S /\ Cardinality(s \ {y}) = Cardinality(s) - 1
          /\ Cardinality(s) \in Nat
      BY <3>1, LessByOne
    <3>3. g[s \ {y}] = h[s \ {y}]
      BY <2>1, <3>2
    <3>4. g[s] = f[y] + g[s \ {y}]
      BY <2>1 DEF Summing
    <3>5. h[s] = e[y] + h[s \ {y}]
      <4>1. s \in SUBSET R /\ Cardinality(s) <= n
        BY <2>1, <3>2
      <4> QED
        BY <2>1, <4>1 DEF Summing
    <3>6. e[y] = f[y]
      BY <3>1
    <3> QED
      BY <3>3, <3>4, <3>5, <3>6
  <2>2. \A s \in SUBSET S :
          Cardinality(s) <= m + 1 /\ Cardinality(s) <= k => g[s] = h[s]
    BY <1>0, <2>1
  <2> QED
    BY <2>2
<1> HIDE DEF T
<1>3. T = Nat
  BY <1>1, <1>2, SetInduction DEF T
<1> QED
  BY <1>3 DEF T

\* SumFunction of a sequence of numbers, from the end.
LEMMA SumEmpty ==
    ASSUME NEW f, DOMAIN f = {} PROVE SumFunction(f) = 0
<1>1. IsFiniteSet({}) /\ Cardinality({}) = 0
  BY FS_EmptySet
<1>2. PICK g : Summing(g, f, {}, 0) /\ SumFunction(f) = g[{}]
  BY <1>1, SumFunctionIs
<1>3. {} \in SUBSET {} /\ Cardinality({}) <= 0
  BY <1>1
<1> QED
  BY <1>2, <1>3 DEF Summing

LEMMA SumType ==
    ASSUME NEW f, IsFiniteSet(DOMAIN f), Numeric(f, DOMAIN f)
    PROVE  SumFunction(f) \in Nat
<1> DEFINE S == DOMAIN f
           k == Cardinality(S)
<1>1. k \in Nat
  BY FS_CardinalityType
<1>2. PICK g : Summing(g, f, S, k) /\ SumFunction(f) = g[S]
  BY SumFunctionIs
<1>3. S \in SUBSET S /\ k <= k
  BY <1>1
<1> HIDE DEF k
<1>4. \A s \in SUBSET S : Cardinality(s) <= k => g[s] \in Nat
  BY <1>1, <1>2, SummingType
<1> QED
  BY <1>2, <1>3, <1>4 DEF k

\* One more index adds its number.
LEMMA SumMore ==
    ASSUME NEW f, IsFiniteSet(DOMAIN f), NEW x, x \notin DOMAIN f,
           NEW e, DOMAIN e = DOMAIN f \cup {x}, \A y \in DOMAIN f : e[y] = f[y],
           Numeric(e, DOMAIN e)
    PROVE  SumFunction(e) = SumFunction(f) + e[x]
<1> DEFINE S == DOMAIN f
           R == DOMAIN e
           k == Cardinality(S)
           n == Cardinality(R)
<1>1. /\ IsFiniteSet(R) /\ k \in Nat /\ n \in Nat /\ k <= n
      /\ S \subseteq R /\ R \ {x} = S /\ x \in R
  <2>1. R = S \cup {x}
    OBVIOUS
  <2>2. IsFiniteSet(R) /\ n = k + 1 /\ k \in Nat
    BY <2>1, FS_AddElement, FS_CardinalityType
  <2>3. S \subseteq R /\ R \ {x} = S /\ x \in R
    OBVIOUS
  <2> HIDE DEF S, R, k, n
  <2> QED
    BY <2>2, <2>3
<1>2. PICK g : Summing(g, f, S, k) /\ SumFunction(f) = g[S]
  BY SumFunctionIs
<1>3. PICK h : Summing(h, e, R, n) /\ SumFunction(e) = h[R]
  BY <1>1, SumFunctionIs
<1> HIDE DEF k, n
<1>4. h[R] = e[x] + h[S]
  <2>1. R \in SUBSET R /\ Cardinality(R) <= n
    BY <1>1 DEF n
  <2>2. \A s \in SUBSET R : Cardinality(s) <= n => \A y \in s : h[s] = e[y] + h[s \ {y}]
    <3>1. Numeric(e, R)
      OBVIOUS
    <3> HIDE DEF R
    <3>2. IsFiniteSet(R)
      BY <1>1
    <3>3. n \in Nat
      BY <1>1
    <3>4. Summing(h, e, R, n)
      BY <1>3
    <3> QED
      BY ONLY <3>1, <3>2, <3>3, <3>4, SummingAny
  <2>3. h[R] = e[x] + h[R \ {x}]
    BY <1>1, <2>1, <2>2
  <2> QED
    BY <1>1, <2>3
<1>5. g[S] = h[S]
  <2>1. S \in SUBSET S /\ Cardinality(S) <= k
    BY <1>1 DEF k
  <2>2. \A s \in SUBSET S : Cardinality(s) <= k => g[s] = h[s]
    BY <1>1, <1>2, <1>3, SummingUnique
  <2> QED
    BY <2>1, <2>2
<1> QED
  <2>1. Numeric(f, S)
    BY DEF Numeric
  <2>2. SumFunction(f) \in Nat /\ e[x] \in Nat
    BY <1>1, <2>1, SumType DEF Numeric
  <2> QED
    BY <1>2, <1>3, <1>4, <1>5, <2>2
=============================================================================
