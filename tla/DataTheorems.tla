---------------------------- MODULE DataTheorems ---------------------------
(***************************************************************************)
(* Facts about the data the components share: sums over finite sets, least *)
(* elements, the rest of a sequence.  The library's theorems of induction  *)
(* take a predicate, which the provers cannot instantiate; here induction  *)
(* is about a set of subsets, and rests on the library's theorem that a    *)
(* well-founded relation has minimal elements.                             *)
(***************************************************************************)
EXTENDS Sums, Sequences, FiniteSetTheorems, TLAPS

\* A set of subsets of a finite set that contains each one whose strict subsets it
\* contains has them all.
LEMMA SubsetInduction ==
    ASSUME NEW S, IsFiniteSet(S), NEW P \in SUBSET (SUBSET S),
           \A T \in SUBSET S : (\A U \in SUBSET T : U # T => U \in P) => T \in P
    PROVE  P = SUBSET S
<1> DEFINE Bad == (SUBSET S) \ P
           R == StrictSubsetOrdering(S)
<1> SUFFICES ASSUME Bad # {} PROVE FALSE
  OBVIOUS
<1>1. FiniteSubsetsOf(S) = SUBSET S
  BY FS_FiniteSubsetsOfFinite
<1>2. IsWellFoundedOn(R, SUBSET S)
  <2>1. IsWellFoundedOn(R, FiniteSubsetsOf(S))
    BY FS_StrictSubsetOrderingWellFounded
  <2> HIDE DEF R
  <2> QED
    BY <1>1, <2>1
<1>3. PICK T \in Bad : \A U \in Bad : ~(<<U, T>> \in R)
  <2>1. Bad \subseteq SUBSET S /\ Bad # {}
    OBVIOUS
  <2> HIDE DEF R, Bad
  <2> QED
    BY <1>2, <2>1, WFMin
<1>4. ASSUME NEW U \in SUBSET T, U # T PROVE U \in P
  <2>1. <<U, T>> \in (SUBSET S) \X (SUBSET S)
    BY <1>3
  <2>2. <<U, T>> \in R
    BY <1>4, <2>1 DEF StrictSubsetOrdering
  <2> QED
    BY <1>3, <2>2
<1> QED
  BY <1>3, <1>4

\* The element that a fold takes next.
AnyOf(S) == CHOOSE x \in S : TRUE

\* h sums f over every subset of S.
IsSum(h, f, S) ==
  h = [s \in SUBSET S |-> IF s = {} THEN 0 ELSE f[AnyOf(s)] + h[s \ {AnyOf(s)}]]

\* Sigma is the value at S of the function by whose recursion it is defined.
LEMMA SigmaIsSum ==
    ASSUME NEW f, NEW S
    PROVE Sigma(f, S) = (CHOOSE h : IsSum(h, f, S))[S]
  BY DEF Sigma, MapThenSumSet, MapThenFoldSet, IsSum, AnyOf

\* It is an element, if there is one.
LEMMA AnyOfIn == \A S : S # {} => AnyOf(S) \in S
  BY DEF AnyOf

\* Two such functions agree where both are defined.
LEMMA SumIsUnique ==
    ASSUME NEW f, NEW S, NEW T \in SUBSET S, IsFiniteSet(T),
           NEW h, IsSum(h, f, S), NEW g, IsSum(g, f, T)
    PROVE  \A U \in SUBSET T : h[U] = g[U]
<1> DEFINE P == {U \in SUBSET T : h[U] = g[U]}
<1>1. ASSUME NEW U \in SUBSET T, \A V \in SUBSET U : V # U => V \in P
      PROVE  U \in P
  <2>1. CASE U = {}
    BY <2>1 DEF IsSum
  <2>2. CASE U # {}
    <3>1. AnyOf(U) \in U
      BY <2>2, AnyOfIn
    <3> DEFINE V == U \ {AnyOf(U)}
    <3>2. h[V] = g[V]
      BY <1>1, <3>1
    <3>3. h[U] = f[AnyOf(U)] + h[V] /\ g[U] = f[AnyOf(U)] + g[V]
      BY <2>2 DEF IsSum
    <3> QED
      BY <3>2, <3>3
  <2> QED
    BY <2>1, <2>2
<1>2. P = SUBSET T
  <2>1. P \in SUBSET (SUBSET T)
    OBVIOUS
  <2> HIDE DEF P
  <2> QED
    BY <1>1, <2>1, SubsetInduction
<1> QED
  BY <1>2

\* And there is one for every finite set.
LEMMA SumExists ==
    ASSUME NEW f, NEW S, IsFiniteSet(S)
    PROVE  \E h : IsSum(h, f, S)
<1> DEFINE P == {T \in SUBSET S : \E h : IsSum(h, f, T)}
<1>1. ASSUME NEW T \in SUBSET S, \A U \in SUBSET T : U # T => U \in P
      PROVE  T \in P
  <2> DEFINE F(U) == CHOOSE h : IsSum(h, f, U)
             below == [U \in SUBSET T |-> F(U)[U]]
             h == [s \in SUBSET T |-> IF s = {} THEN 0
                                      ELSE f[AnyOf(s)] + below[s \ {AnyOf(s)}]]
  <2>1. ASSUME NEW U \in SUBSET T, U # T PROVE IsSum(F(U), f, U)
    BY <1>1, <2>1
  <2>2. ASSUME NEW U \in SUBSET T, U # T PROVE below[U] = h[U]
    <3> HIDE DEF F
    <3>1. CASE U = {}
      <4>1. F(U)[U] = 0
        BY <2>1, <2>2, <3>1 DEF IsSum
      <4> QED
        BY <3>1, <4>1
    <3>2. CASE U # {}
      <4> DEFINE V == U \ {AnyOf(U)}
      <4>1. V \in SUBSET U /\ V # T /\ IsFiniteSet(V)
        BY <3>2, AnyOfIn, FS_Subset
      <4>2. IsSum(F(U), f, U) /\ IsSum(F(V), f, V)
        BY <2>1, <2>2, <4>1
      <4>3. F(U)[V] = F(V)[V]
        <5> HIDE DEF V
        <5> QED
          BY <4>1, <4>2, SumIsUnique
      <4>4. F(U)[U] = f[AnyOf(U)] + F(U)[V]
        BY <2>1, <2>2, <3>2 DEF IsSum
      <4>5. below[U] = F(U)[U] /\ below[V] = F(V)[V]
        BY <4>1
      <4>6. h[U] = f[AnyOf(U)] + below[V]
        BY <3>2
      <4> QED
        BY <4>3, <4>4, <4>5, <4>6
    <3> QED
      BY <3>1, <3>2
  <2>3. IsSum(h, f, T)
    <3> HIDE DEF below
    <3>1. ASSUME NEW s \in SUBSET T, s # {}
          PROVE  below[s \ {AnyOf(s)}] = h[s \ {AnyOf(s)}]
      BY <2>2, <3>1, AnyOfIn
    <3> QED
      BY <3>1 DEF IsSum
  <2> QED
    BY <2>3
<1>2. P = SUBSET S
  <2>1. P \in SUBSET (SUBSET S)
    OBVIOUS
  <2> HIDE DEF P
  <2> QED
    BY <1>1, <2>1, SubsetInduction
<1> QED
  BY <1>2

\* The recursion by which a finite sum is reckoned.
LEMMA SigmaStep ==
    ASSUME NEW f, NEW S, IsFiniteSet(S)
    PROVE  Sigma(f, S) = IF S = {} THEN 0
                           ELSE f[AnyOf(S)] + Sigma(f, S \ {AnyOf(S)})
<1> DEFINE F(U) == CHOOSE h : IsSum(h, f, U)
<1>1. ASSUME NEW U \in SUBSET S PROVE IsSum(F(U), f, U) /\ Sigma(f, U) = F(U)[U]
  BY FS_Subset, SumExists, SigmaIsSum
<1> HIDE DEF F
<1>2. CASE S = {}
  BY <1>1, <1>2 DEF IsSum
<1>3. CASE S # {}
  <2> DEFINE V == S \ {AnyOf(S)}
  <2>1. F(S)[V] = F(V)[V]
    BY <1>1, FS_Subset, SumIsUnique
  <2>2. F(S)[S] = f[AnyOf(S)] + F(S)[V]
    BY <1>1, <1>3 DEF IsSum
  <2> QED
    BY <1>1, <1>3, <2>1, <2>2
<1> QED
  BY <1>2, <1>3

\* Nothing sums to 0.
LEMMA SigmaEmpty == \A f : Sigma(f, {}) = 0
  BY SigmaStep, FS_EmptySet

\* Sums of integers are integers, of naturals naturals.
LEMMA SigmaType ==
    ASSUME NEW f, NEW S, IsFiniteSet(S), \A x \in S : f[x] \in Int
    PROVE  /\ Sigma(f, S) \in Int
           /\ (\A x \in S : f[x] >= 0) => Sigma(f, S) >= 0
<1> DEFINE P == {T \in SUBSET S : /\ Sigma(f, T) \in Int
                                  /\ (\A x \in S : f[x] >= 0) => Sigma(f, T) >= 0}
<1>1. ASSUME NEW T \in SUBSET S, \A U \in SUBSET T : U # T => U \in P
      PROVE  T \in P
  <2>1. CASE T = {}
    BY <2>1, SigmaEmpty
  <2>2. CASE T # {}
    <3>1. AnyOf(T) \in T
      BY <2>2, AnyOfIn
    <3>2. Sigma(f, T) = f[AnyOf(T)] + Sigma(f, T \ {AnyOf(T)})
      BY <2>2, FS_Subset, SigmaStep
    <3>3. T \ {AnyOf(T)} \in P
      BY <1>1, <3>1
    <3> QED
      BY <3>1, <3>2, <3>3
  <2> QED
    BY <2>1, <2>2
<1>2. P = SUBSET S
  <2>1. P \in SUBSET (SUBSET S)
    OBVIOUS
  <2> HIDE DEF P
  <2> QED
    BY <1>1, <2>1, SubsetInduction
<1> QED
  BY <1>2

\* Any element can be taken out of a sum.
LEMMA SigmaRemove ==
    ASSUME NEW f, NEW S, IsFiniteSet(S), \A x \in S : f[x] \in Int, NEW x \in S
    PROVE  Sigma(f, S) = f[x] + Sigma(f, S \ {x})
<1> DEFINE P == {T \in SUBSET S : \A y \in T : Sigma(f, T) = f[y] + Sigma(f, T \ {y})}
<1>0. \A T \in SUBSET S : IsFiniteSet(T) /\ Sigma(f, T) \in Int
  BY FS_Subset, SigmaType
<1>1. ASSUME NEW T \in SUBSET S, \A U \in SUBSET T : U # T => U \in P
      PROVE  T \in P
  <2> SUFFICES ASSUME NEW y \in T PROVE Sigma(f, T) = f[y] + Sigma(f, T \ {y})
    OBVIOUS
  <2> DEFINE c == AnyOf(T)
  <2>1. c \in T
    BY AnyOfIn
  <2>2. Sigma(f, T) = f[c] + Sigma(f, T \ {c})
    BY <1>0, SigmaStep
  <2>3. CASE c = y
    BY <2>2, <2>3
  <2>4. CASE c # y
    <3> HIDE DEF c
    <3>1. Sigma(f, T \ {c}) = f[y] + Sigma(f, (T \ {c}) \ {y})
      <4>1. T \ {c} \in P /\ y \in T \ {c}
        BY <1>1, <2>1, <2>4
      <4> QED
        BY <4>1
    <3>2. Sigma(f, T \ {y}) = f[c] + Sigma(f, (T \ {y}) \ {c})
      <4>1. T \ {y} \in P /\ c \in T \ {y}
        BY <1>1, <2>1, <2>4
      <4> QED
        BY <4>1
    <3>3. (T \ {c}) \ {y} = (T \ {y}) \ {c}
      OBVIOUS
    <3>4. Sigma(f, (T \ {y}) \ {c}) \in Int /\ f[c] \in Int /\ f[y] \in Int
      BY <1>0, <2>1
    <3>5. \A a, b, n \in Int : a + (b + n) = b + (a + n)
      OBVIOUS
    <3>6. Sigma(f, T) = f[c] + (f[y] + Sigma(f, (T \ {y}) \ {c}))
      BY <2>2, <3>1, <3>3
    <3>7. @ = f[y] + (f[c] + Sigma(f, (T \ {y}) \ {c}))
      BY <3>4, <3>5
    <3> QED
      BY <3>2, <3>6, <3>7
  <2> QED
    BY <2>3, <2>4
<1>2. P = SUBSET S
  <2>1. P \in SUBSET (SUBSET S)
    OBVIOUS
  <2> HIDE DEF P
  <2> QED
    BY <1>1, <2>1, SubsetInduction
<1>3. S \in P
  BY <1>2
<1> QED
  BY <1>3

\* And one can be put in.
LEMMA SigmaAdd ==
    ASSUME NEW f, NEW S, NEW x, IsFiniteSet(S), \A y \in S \cup {x} : f[y] \in Int, x \notin S
    PROVE  Sigma(f, S \cup {x}) = Sigma(f, S) + f[x]
<1>1. (S \cup {x}) \ {x} = S
  OBVIOUS
<1>2. IsFiniteSet(S \cup {x})
  BY FS_AddElement
<1>3. Sigma(f, S \cup {x}) = f[x] + Sigma(f, (S \cup {x}) \ {x})
  BY <1>2, SigmaRemove
<1>4. Sigma(f, S) \in Int /\ f[x] \in Int
  BY SigmaType
<1>5. \A m, n \in Int : m + n = n + m
  OBVIOUS
<1> QED
  BY <1>1, <1>3, <1>4, <1>5

\* A single row's sum is its value.
LEMMA SigmaSingleton ==
    ASSUME NEW f, NEW x, f[x] \in Int
    PROVE  Sigma(f, {x}) = f[x]
<1>1. Sigma(f, {} \cup {x}) = Sigma(f, {}) + f[x]
  BY SigmaAdd, FS_EmptySet
<1>2. {} \cup {x} = {x} /\ Sigma(f, {}) = 0
  BY SigmaEmpty
<1> QED
  BY <1>1, <1>2

\* The sum of two columns, if h is their sum row by row.
LEMMA SigmaPlus ==
    ASSUME NEW f, NEW g, NEW h, NEW S, IsFiniteSet(S),
           \A x \in S : f[x] \in Int /\ g[x] \in Int /\ h[x] = f[x] + g[x]
    PROVE  Sigma(h, S) = Sigma(f, S) + Sigma(g, S)
<1> DEFINE P == {T \in SUBSET S : Sigma(h, T) = Sigma(f, T) + Sigma(g, T)}
<1>1. ASSUME NEW T \in SUBSET S, \A U \in SUBSET T : U # T => U \in P
      PROVE  T \in P
  <2>1. CASE T = {}
    BY <2>1, SigmaEmpty
  <2>2. CASE T # {}
    <3> DEFINE c == AnyOf(T)
               V == T \ {c}
    <3>1. c \in T /\ V \in P
      BY <1>1, <2>2, AnyOfIn
    <3>2. IsFiniteSet(T) /\ IsFiniteSet(V)
      BY FS_Subset
    <3>3. /\ Sigma(f, T) = f[c] + Sigma(f, V)
          /\ Sigma(g, T) = g[c] + Sigma(g, V)
          /\ Sigma(h, T) = h[c] + Sigma(h, V)
      BY <2>2, <3>2, SigmaStep
    <3>4. Sigma(f, V) \in Int /\ Sigma(g, V) \in Int
      BY <3>2, SigmaType
    <3>5. Sigma(h, V) = Sigma(f, V) + Sigma(g, V)
      BY <3>1
    <3>6. f[c] \in Int /\ g[c] \in Int /\ h[c] = f[c] + g[c]
      BY <3>1
    <3> HIDE DEF c, V
    <3> QED
      BY <3>3, <3>4, <3>5, <3>6
  <2> QED
    BY <2>1, <2>2
<1>2. P = SUBSET S
  <2>1. P \in SUBSET (SUBSET S)
    OBVIOUS
  <2> HIDE DEF P
  <2> QED
    BY <1>1, <2>1, SubsetInduction
<1>3. S \in P
  BY <1>2
<1> QED
  BY <1>3

\* A column of zeros.
LEMMA SigmaZero ==
    ASSUME NEW f, NEW S, IsFiniteSet(S), \A x \in S : f[x] = 0
    PROVE  Sigma(f, S) = 0
<1>1. Sigma(f, S) = Sigma(f, S) + Sigma(f, S)
  BY SigmaPlus
<1>2. Sigma(f, S) \in Int
  BY SigmaType
<1>3. \A n \in Int : n = n + n => n = 0
  OBVIOUS
<1> QED
  BY <1>1, <1>2, <1>3

\* Columns that agree on the rows.
LEMMA SigmaSame ==
    ASSUME NEW f, NEW g, NEW S, IsFiniteSet(S), \A x \in S : f[x] \in Int /\ g[x] = f[x]
    PROVE  Sigma(g, S) = Sigma(f, S)
<1> DEFINE zero == [x \in S |-> 0]
<1>1. Sigma(zero, S) = 0
  BY SigmaZero
<1>2. Sigma(g, S) = Sigma(f, S) + Sigma(zero, S)
  BY SigmaPlus
<1> QED
  BY <1>1, <1>2, SigmaType

\* Columns that agree on the rows but for one.
LEMMA SigmaChange ==
    ASSUME NEW f, NEW g, NEW S, IsFiniteSet(S), NEW x \in S,
           \A y \in S : f[y] \in Int /\ g[y] \in Int,
           \A y \in S \ {x} : g[y] = f[y]
    PROVE  Sigma(g, S) = Sigma(f, S) + g[x] - f[x]
<1> DEFINE T == S \ {x}
<1>1. IsFiniteSet(T)
  BY FS_Subset
<1>2. Sigma(g, T) = Sigma(f, T) /\ Sigma(f, T) \in Int
  BY <1>1, SigmaSame, SigmaType
<1>3. Sigma(f, S) = f[x] + Sigma(f, T) /\ Sigma(g, S) = g[x] + Sigma(g, T)
  BY SigmaRemove
<1> HIDE DEF T
<1> QED
  BY <1>2, <1>3

\* A column that is nowhere larger.
LEMMA SigmaLe ==
    ASSUME NEW f, NEW g, NEW S, IsFiniteSet(S),
           \A x \in S : f[x] \in Int /\ g[x] \in Int /\ f[x] <= g[x]
    PROVE  Sigma(f, S) <= Sigma(g, S)
<1> DEFINE h == [x \in S |-> g[x] - f[x]]
<1>1. \A x \in S : h[x] \in Int /\ h[x] >= 0 /\ g[x] = f[x] + h[x]
  OBVIOUS
<1> HIDE DEF h
<1>2. Sigma(g, S) = Sigma(f, S) + Sigma(h, S)
  BY <1>1, SigmaPlus
<1>3. Sigma(h, S) \in Int /\ Sigma(h, S) >= 0 /\ Sigma(f, S) \in Int
  BY <1>1, SigmaType
<1> QED
  BY <1>2, <1>3
\* The rows of two tables that share none.
LEMMA SigmaUnion ==
    ASSUME NEW f, NEW S, NEW T, IsFiniteSet(S), IsFiniteSet(T), S \cap T = {},
           \A x \in S \cup T : f[x] \in Int
    PROVE  Sigma(f, S \cup T) = Sigma(f, S) + Sigma(f, T)
<1> DEFINE P == {U \in SUBSET T : Sigma(f, S \cup U) = Sigma(f, S) + Sigma(f, U)}
<1>0. Sigma(f, S) \in Int
  BY SigmaType
<1>1. ASSUME NEW U \in SUBSET T, \A V \in SUBSET U : V # U => V \in P
      PROVE  U \in P
  <2>1. CASE U = {}
    <3>1. S \cup {} = S /\ Sigma(f, {}) = 0
      BY SigmaEmpty
    <3>2. Sigma(f, S) + 0 = Sigma(f, S)
      BY <1>0
    <3> QED
      BY <2>1, <3>1, <3>2
  <2>2. CASE U # {}
    <3> DEFINE c == AnyOf(U)
               V == U \ {c}
    <3>1. c \in U /\ V \in P
      BY <1>1, <2>2, AnyOfIn
    <3>a. IsFiniteSet(V) /\ IsFiniteSet(S \cup V)
      <4>1. V \subseteq T
        OBVIOUS
      <4> HIDE DEF V
      <4> QED
        BY <4>1, FS_Subset, FS_Union
    <3>2. /\ IsFiniteSet(V) /\ IsFiniteSet(S \cup V)
          /\ S \cup U = (S \cup V) \cup {c} /\ U = V \cup {c}
          /\ c \notin V /\ c \notin S \cup V /\ c \in T
          /\ \A y \in (S \cup V) \cup {c} : f[y] \in Int
      BY <3>1, <3>a
    <3>3. Sigma(f, S \cup V) = Sigma(f, S) + Sigma(f, V)
      BY <3>1
    <3> HIDE DEF c, V
    <3>4. Sigma(f, (S \cup V) \cup {c}) = Sigma(f, S \cup V) + f[c]
      BY <3>2, SigmaAdd
    <3>5. Sigma(f, V \cup {c}) = Sigma(f, V) + f[c]
      BY <3>2, SigmaAdd
    <3>6. Sigma(f, V) \in Int /\ f[c] \in Int
      BY <3>2, SigmaType
    <3>7. Sigma(f, S \cup U) = (Sigma(f, S) + Sigma(f, V)) + f[c]
      BY <3>2, <3>3, <3>4
    <3>8. @ = Sigma(f, S) + (Sigma(f, V) + f[c])
      BY <1>0, <3>6
    <3> QED
      BY <3>2, <3>5, <3>7, <3>8
  <2> QED
    BY <2>1, <2>2
<1>2. P = SUBSET T
  <2>1. P \in SUBSET (SUBSET T)
    OBVIOUS
  <2> HIDE DEF P
  <2> QED
    BY <1>1, <2>1, SubsetInduction
<1>3. T \in P
  BY <1>2
<1> QED
  BY <1>3
-----------------------------------------------------------------------------
\* A set of naturals that is not empty has a least element, and Min is it.
LEMMA MinOfNat ==
    ASSUME NEW S \in SUBSET Nat, S # {}
    PROVE  Min(S) \in S /\ \A y \in S : Min(S) <= y
<1> DEFINE R == OpToRel(<, Nat)
<1>1. PICK x \in S : \A y \in S : ~(<<y, x>> \in R)
  <2>1. IsWellFoundedOn(R, Nat)
    BY NatLessThanWellFounded
  <2> HIDE DEF R
  <2> QED
    BY <2>1, WFMin
<1>2. \A y \in S : x <= y
  <2> SUFFICES ASSUME NEW y \in S PROVE x <= y
    OBVIOUS
  <2>1. R = {ss \in Nat \X Nat : ss[1] < ss[2]}
    BY Zenon DEF OpToRel
  <2>2. ~(<<y, x>> \in R)
    BY <1>1
  <2> HIDE DEF R
  <2> QED
    BY <2>1, <2>2
<1> QED
  BY <1>2 DEF Min

\* What stands at an index of a sequence.
LEMMA ElementIn ==
    ASSUME NEW S, NEW s \in Seq(S), NEW i \in 1 .. Len(s)
    PROVE  s[i] \in S
  OBVIOUS

\* The first entry and the rest of a sequence.
LEMMA HeadAndTail ==
    ASSUME NEW S, NEW s \in Seq(S), s # <<>>
    PROVE  /\ Len(s) \in Nat /\ Len(s) > 0
           /\ Head(s) \in S /\ Head(s) = s[1]
           /\ Tail(s) \in Seq(S)
           /\ Len(Tail(s)) = Len(s) - 1
           /\ DOMAIN Tail(s) = 1 .. (Len(s) - 1)
           /\ \A k \in 1 .. (Len(s) - 1) : Tail(s)[k] = s[k + 1]
  OBVIOUS

\* A sequence with another behind it.
LEMMA Appended ==
    ASSUME NEW S, NEW s \in Seq(S), NEW e \in Seq(S)
    PROVE  /\ s \o e \in Seq(S)
           /\ Len(s) \in Nat /\ Len(e) \in Nat
           /\ Len(s \o e) = Len(s) + Len(e)
           /\ DOMAIN (s \o e) = 1 .. (Len(s) + Len(e))
           /\ DOMAIN s = 1 .. Len(s) /\ DOMAIN e = 1 .. Len(e)
           /\ \A k \in 1 .. Len(s) : (s \o e)[k] = s[k]
           /\ \A k \in 1 .. Len(e) : (s \o e)[Len(s) + k] = e[k]
  OBVIOUS

\* What a function makes of finitely many arguments.
LEMMA ImageFinite ==
    ASSUME NEW f, NEW S, IsFiniteSet(S)
    PROVE  IsFiniteSet({f[x] : x \in S})
<1> DEFINE T == {f[x] : x \in S}
           g == [x \in S |-> f[x]]
<1>1. g \in [S -> T] /\ \A y \in T : \E x \in S : g[x] = y
  OBVIOUS
<1>2. g \in Surjection(S, T)
  BY <1>1 DEF Surjection
<1> QED
  BY <1>2, FS_Surjection

\* The terms of a sum, groups of them, and the totals of the groups.
Terms(f, S) == \A x \in S : f[x] \in Int

Partition(G, T, S) ==
    /\ \A y \in T : G[y] \in SUBSET S
    /\ \A x \in S : \E y \in T : x \in G[y]
    /\ \A y, z \in T : y # z => G[y] \cap G[z] = {}

Totals(h, f, G, T) == \A y \in T : h[y] = Sigma(f, G[y])

\* The totals of all groups add up to the sum.
LEMMA SigmaByGroups ==
    ASSUME NEW f, NEW G, NEW h, NEW S, NEW T, IsFiniteSet(S), IsFiniteSet(T),
           Terms(f, S), Partition(G, T, S), Totals(h, f, G, T)
    PROVE  Sigma(h, T) = Sigma(f, S)
<1>0. /\ \A x \in S : f[x] \in Int
      /\ \A y \in T : G[y] \in SUBSET S /\ h[y] = Sigma(f, G[y])
      /\ \A x \in S : \E y \in T : x \in G[y]
      /\ \A y, z \in T : y # z => G[y] \cap G[z] = {}
  BY DEF Terms, Partition, Totals
<1> DEFINE Rows(U) == {x \in S : \E y \in U : x \in G[y]}
           P == {U \in SUBSET T : Sigma(h, U) = Sigma(f, Rows(U))}
<1>1. ASSUME NEW U \in SUBSET T, \A V \in SUBSET U : V # U => V \in P
      PROVE  U \in P
  <2>1. CASE U = {}
    <3>1. Rows(U) = {}
      BY <2>1
    <3> QED
      BY <2>1, <3>1, SigmaEmpty
  <2>2. CASE U # {}
    <3>1. PICK c \in U : TRUE
      BY <2>2
    <3> DEFINE V == U \ {c}
               A == G[c]
               C == Rows(V)
    <3>2. V \in P
      BY <1>1, <3>1
    <3>3. IsFiniteSet(U) /\ IsFiniteSet(A) /\ IsFiniteSet(C)
      <4>1. A \in SUBSET S /\ C \in SUBSET S
        BY <1>0, <3>1
      <4> HIDE DEF A, C
      <4> QED
        BY <4>1, FS_Subset
    <3>4. \A y \in U : h[y] \in Int
      <4> TAKE y \in U
      <4> DEFINE D == G[y]
      <4>1. IsFiniteSet(D) /\ \A x \in D : f[x] \in Int
        BY <1>0, FS_Subset
      <4>2. h[y] = Sigma(f, D)
        BY <1>0
      <4> HIDE DEF D
      <4> QED
        BY <4>1, <4>2, SigmaType
    <3>5. Sigma(h, U) = h[c] + Sigma(h, V)
      BY <3>1, <3>3, <3>4, SigmaRemove
    <3>6. A \cap C = {} /\ A \cup C = Rows(U)
      BY <1>0, <3>1
    <3>7. h[c] = Sigma(f, A) /\ Sigma(h, V) = Sigma(f, C)
      BY <1>0, <3>1, <3>2
    <3>8. \A x \in A \cup C : f[x] \in Int
      BY <1>0, <3>1
    <3> HIDE DEF A, C, V, Rows
    <3>9. Sigma(f, A \cup C) = Sigma(f, A) + Sigma(f, C)
      BY <3>3, <3>6, <3>8, SigmaUnion
    <3> QED
      BY <3>5, <3>6, <3>7, <3>9
  <2> QED
    BY <2>1, <2>2
<1>2. P \in SUBSET (SUBSET T)
  OBVIOUS
<1>3. S = Rows(T)
  BY <1>0
<1> HIDE DEF P
<1>4. P = SUBSET T
  BY <1>1, <1>2, SubsetInduction
<1>5. T \in P
  BY <1>4
<1> QED
  BY <1>3, <1>5 DEF P

\* Rows left out of a sum of naturals lower it.
LEMMA SigmaSubset ==
    ASSUME NEW f, NEW S, IsFiniteSet(S), \A x \in S : f[x] \in Int /\ f[x] >= 0, NEW T \in SUBSET S
    PROVE  Sigma(f, T) <= Sigma(f, S)
<1>1. IsFiniteSet(T) /\ IsFiniteSet(S \ T)
  <2>1. S \ T \in SUBSET S
    OBVIOUS
  <2> QED
    BY <2>1, FS_Subset
<1>2. T \cap (S \ T) = {} /\ T \cup (S \ T) = S
  OBVIOUS
<1>3. Sigma(f, T \cup (S \ T)) = Sigma(f, T) + Sigma(f, S \ T)
  <2>1. \A x \in T \cup (S \ T) : f[x] \in Int
    OBVIOUS
  <2> QED
    BY <1>1, <1>2, <2>1, SigmaUnion
<1>4. Sigma(f, T) \in Int
  BY <1>1, SigmaType
<1>5. Sigma(f, S \ T) \in Int /\ Sigma(f, S \ T) >= 0
  BY <1>1, SigmaType
<1>6. Sigma(f, S) = Sigma(f, T) + Sigma(f, S \ T)
  BY <1>2, <1>3
<1>7. \A x, y \in Int : y >= 0 => x <= x + y
  OBVIOUS
<1> QED
  BY <1>4, <1>5, <1>6, <1>7

\* Rows that are at most b each.
LEMMA SigmaBound ==
    ASSUME NEW f, NEW S, IsFiniteSet(S), NEW b \in Int, \A x \in S : f[x] \in Int /\ f[x] <= b
    PROVE  Sigma(f, S) <= b * Cardinality(S)
<1> DEFINE P == {T \in SUBSET S : Sigma(f, T) <= b * Cardinality(T)}
<1>1. ASSUME NEW T \in SUBSET S, \A U \in SUBSET T : U # T => U \in P
      PROVE  T \in P
  <2>1. CASE T = {}
    <3>1. b * 0 = 0
      OBVIOUS
    <3> QED
      BY <2>1, <3>1, SigmaEmpty, FS_EmptySet
  <2>2. CASE T # {}
    <3> DEFINE c == AnyOf(T)
    <3>1. c \in T /\ T \ {c} \in P
      BY <1>1, <2>2, AnyOfIn
    <3>2. IsFiniteSet(T)
      BY FS_Subset
    <3> HIDE DEF c
    <3>3. Sigma(f, T) = f[c] + Sigma(f, T \ {c})
      BY <3>1, <3>2, SigmaRemove
    <3>4. IsFiniteSet(T \ {c}) /\ Cardinality(T \ {c}) = Cardinality(T) - 1 /\ Cardinality(T) \in Nat
      BY <3>1, <3>2, FS_RemoveElement, FS_CardinalityType
    <3>5. Sigma(f, T \ {c}) \in Int
      BY <3>4, SigmaType
    <3>6. Sigma(f, T \ {c}) <= b * (Cardinality(T) - 1)
      BY <3>1, <3>4
    <3>7. \A n \in Int : b * (n - 1) = b * n - b /\ b * n \in Int
      OBVIOUS
    <3>8. b * (Cardinality(T) - 1) = b * Cardinality(T) - b /\ b * Cardinality(T) \in Int
      BY <3>4, <3>7
    <3>9. f[c] \in Int /\ f[c] <= b
      BY <3>1
    <3>10. ASSUME NEW s \in Int, NEW z \in Int, s <= z - b PROVE f[c] + s <= z
      BY <3>9, <3>10
    <3>11. Sigma(f, T) <= b * Cardinality(T)
      BY <3>3, <3>5, <3>6, <3>8, <3>10
    <3> QED
      BY <3>11
  <2> QED
    BY <2>1, <2>2
<1>2. P = SUBSET S
  <2>1. P \in SUBSET (SUBSET S)
    OBVIOUS
  <2> HIDE DEF P
  <2> QED
    BY <1>1, <2>1, SubsetInduction
<1>3. S \in P
  BY <1>2
<1> QED
  BY <1>3

\* Rows that are each a number times those of another column.
LEMMA SigmaTimes ==
    ASSUME NEW f, NEW g, NEW S, IsFiniteSet(S), NEW b \in Int, \A x \in S : f[x] \in Int /\ g[x] = b * f[x]
    PROVE  Sigma(g, S) = b * Sigma(f, S)
<1> DEFINE P == {T \in SUBSET S : Sigma(g, T) = b * Sigma(f, T)}
<1>1. ASSUME NEW T \in SUBSET S, \A U \in SUBSET T : U # T => U \in P
      PROVE  T \in P
  <2>1. CASE T = {}
    <3>1. b * 0 = 0
      OBVIOUS
    <3> QED
      BY <2>1, <3>1, SigmaEmpty
  <2>2. CASE T # {}
    <3> DEFINE c == AnyOf(T)
    <3>1. c \in T /\ T \ {c} \in P
      BY <1>1, <2>2, AnyOfIn
    <3>2. IsFiniteSet(T)
      BY FS_Subset
    <3> HIDE DEF c
    <3>3. \A x \in S : f[x] \in Int /\ g[x] \in Int
      OBVIOUS
    <3>4. Sigma(f, T) = f[c] + Sigma(f, T \ {c}) /\ Sigma(g, T) = g[c] + Sigma(g, T \ {c})
      BY <3>1, <3>2, <3>3, SigmaRemove
    <3>5. IsFiniteSet(T \ {c})
      BY <3>1, <3>2, FS_RemoveElement
    <3>6. Sigma(f, T \ {c}) \in Int
      BY <3>3, <3>5, SigmaType
    <3>7. Sigma(g, T \ {c}) = b * Sigma(f, T \ {c})
      BY <3>1
    <3>8. \A x, y \in Int : b * x + b * y = b * (x + y)
      OBVIOUS
    <3>9. f[c] \in Int /\ g[c] = b * f[c]
      BY <3>1
    <3> QED
      BY <3>4, <3>6, <3>7, <3>8, <3>9
  <2> QED
    BY <2>1, <2>2
<1>2. P = SUBSET S
  <2>1. P \in SUBSET (SUBSET S)
    OBVIOUS
  <2> HIDE DEF P
  <2> QED
    BY <1>1, <2>1, SubsetInduction
<1>3. S \in P
  BY <1>2
<1> QED
  BY <1>3

\* A finite set of naturals that is not empty has a largest element, and Max is it.
LEMMA MaxOfFinite ==
    ASSUME NEW S \in SUBSET Nat, IsFiniteSet(S), S # {}
    PROVE  Max(S) \in S /\ \A y \in S : y <= Max(S)
<1> DEFINE P == {T \in SUBSET S : T = {} \/ \E x \in T : \A y \in T : x >= y}
<1>1. ASSUME NEW T \in SUBSET S, \A U \in SUBSET T : U # T => U \in P
      PROVE  T \in P
  <2> SUFFICES ASSUME T # {} PROVE \E x \in T : \A y \in T : x >= y
    OBVIOUS
  <2>1. PICK c \in T : TRUE
    OBVIOUS
  <2>2. T \ {c} \in P
    BY <1>1, <2>1
  <2>3. CASE T \ {c} = {}
    BY <2>1, <2>3
  <2>4. CASE T \ {c} # {}
    <3>1. PICK x \in T \ {c} : \A y \in T \ {c} : x >= y
      BY <2>2, <2>4
    <3>2. x \in Nat /\ c \in Nat /\ \A y \in T : y \in Nat
      BY <2>1, <3>1
    <3>3. CASE x >= c
      BY <3>1, <3>2, <3>3
    <3>4. CASE c > x
      BY <3>1, <3>2, <3>4
    <3> QED
      BY <3>2, <3>3, <3>4
  <2> QED
    BY <2>3, <2>4
<1>2. P = SUBSET S
  <2>1. P \in SUBSET (SUBSET S)
    OBVIOUS
  <2> HIDE DEF P
  <2> QED
    BY <1>1, <2>1, SubsetInduction
<1>3. PICK x \in S : \A y \in S : x >= y
  BY <1>2
<1>4. Max(S) \in S /\ \A y \in S : Max(S) >= y
  BY <1>3 DEF Max
<1> QED
  BY <1>4
=============================================================================
