---------------------------- MODULE PeopleProofs ----------------------------
(***************************************************************************)
(* Theorems about Accounts and Branches for any number of handlers, users, *)
(* keys, prospects and leads, any limits, windows and sizes of the table   *)
(* of keys, and any requests.                                              *)
(***************************************************************************)
EXTENDS Branches, DataTheorems, SequenceTheorems

-----------------------------------------------------------------------------
(***************************************************************************)
(* What _drop_expired leaves of a list of instants.                        *)
(***************************************************************************)

\* The first k of s are what goes at a cutoff: all are at or before it, the next is not.
Dropped(s, cutoff, k) ==
    /\ k \in 0 .. Len(s)
    /\ \A i \in 1 .. k : s[i] <= cutoff
    /\ k < Len(s) => s[k + 1] > cutoff

Cutoff(l, t) == t - Limits[l].window

\* The end of a window is an instant.
LEMMA CutoffInt == \A l \in Limiters, t \in Int : Cutoff(l, t) \in Int
  BY LimiterAssumption DEF Cutoff, Limiters

\* There is one such k.
LEMMA SomeDropped ==
    ASSUME NEW s \in Seq(Int), NEW c \in Int
    PROVE  \E k \in 0 .. Len(s) : Dropped(s, c, k)
<1> DEFINE live == {i \in DOMAIN s : s[i] > c}
<1>1. Len(s) \in Nat /\ DOMAIN s = 1 .. Len(s) /\ \A i \in 1 .. Len(s) : s[i] \in Int
  BY LenProperties, ElementOfSeq
<1>2. CASE live = {}
  <2>1. Len(s) \in 0 .. Len(s) /\ \A i \in 1 .. Len(s) : s[i] <= c
    BY <1>1, <1>2
  <2>2. Dropped(s, c, Len(s))
    BY <1>1, <2>1 DEF Dropped
  <2> QED
    BY <2>1, <2>2
<1>3. CASE live # {}
  <2>1. live \in SUBSET Nat
    BY <1>1
  <2>2. PICK m : m \in live /\ \A y \in live : m <= y
    BY <1>3, <2>1, MinOfNat
  <2>3. m \in 1 .. Len(s) /\ s[m] > c
    BY <1>1, <2>2
  <2>4. \A i \in 1 .. (m - 1) : i \in 1 .. Len(s) /\ ~(m <= i)
    BY <1>1, <2>3
  <2>5. ASSUME NEW i \in 1 .. (m - 1) PROVE s[i] <= c
    <3>1. i \in 1 .. Len(s) /\ i \notin live /\ s[i] \in Int
      BY <1>1, <2>2, <2>4
    <3> QED
      BY <1>1, <3>1
  <2>6. m - 1 \in 0 .. Len(s) /\ (m - 1) + 1 = m
    BY <1>1, <2>3
  <2>7. Dropped(s, c, m - 1)
    BY <2>3, <2>5, <2>6 DEF Dropped
  <2> QED
    BY <2>6, <2>7
<1> QED
  BY <1>2, <1>3

\* And the rest is what remains.
LEMMA DropIsSubSeq ==
    ASSUME NEW l \in Limiters, NEW s \in Seq(Int), NEW t \in Int,
           NEW k \in Int, Dropped(s, Cutoff(l, t), k)
    PROVE  DropExpired(l, s, t) = SubSeq(s, k + 1, Len(s))
<1> DEFINE c == Cutoff(l, t)
           live == {i \in DOMAIN s : s[i] > t - Limits[l].window}
<1>1. Len(s) \in Nat /\ DOMAIN s = 1 .. Len(s) /\ \A i \in 1 .. Len(s) : s[i] \in Int
  BY LenProperties, ElementOfSeq
<1>2. /\ c \in Int /\ k \in 0 .. Len(s)
      /\ \A i \in 1 .. k : s[i] <= c
      /\ k < Len(s) => s[k + 1] > c
  BY CutoffInt DEF Dropped
<1>3. live = {i \in 1 .. Len(s) : s[i] > c}
  BY <1>1 DEF Cutoff
<1> HIDE DEF c
<1>4. CASE k = Len(s)
  <2>1. live = {}
    BY <1>1, <1>2, <1>3, <1>4
  <2>2. SubSeq(s, k + 1, Len(s)) = <<>>
    BY <1>1, <1>4, SubSeqEmpty
  <2> QED
    BY <2>1, <2>2 DEF DropExpired
<1>5. CASE k < Len(s)
  <2>0. k \in Int /\ k >= 0 /\ k + 1 \in 1 .. Len(s) /\ s[k + 1] > c
    BY <1>1, <1>2, <1>5
  <2>1. k + 1 \in live /\ \A i \in live : k + 1 <= i
    <3>1. k + 1 \in live
      BY <2>0, <1>3
    <3>2. ASSUME NEW i \in live PROVE k + 1 <= i
      <4>1. i \in 1 .. Len(s) /\ s[i] > c /\ s[i] \in Int
        BY <1>3, <1>1
      <4>2. i \notin 1 .. k
        BY <4>1, <1>2
      <4> QED
        BY <4>1, <4>2, <2>0
    <3> QED
      BY <3>1, <3>2
  <2>2. live \in SUBSET Nat
    BY <1>3
  <2>3. Min(live) \in live /\ \A y \in live : Min(live) <= y
    BY <2>1, <2>2, MinOfNat
  <2>4. Min(live) = k + 1
    <3>1. PICK m : m = Min(live)
      OBVIOUS
    <3>2. m \in Nat /\ m <= k + 1 /\ k + 1 <= m
      BY <3>1, <2>1, <2>2, <2>3
    <3> QED
      BY <3>1, <3>2, <2>0
  <2> QED
    BY <2>1, <2>4 DEF DropExpired
<1> QED
  BY <1>2, <1>4, <1>5

\* It is a list of instants, no longer than before.
LEMMA DropType ==
    ASSUME NEW l \in Limiters, NEW s \in Seq(Int), NEW t \in Int
    PROVE  /\ DropExpired(l, s, t) \in Seq(Int)
           /\ \E k \in 0 .. Len(s) :
                /\ Dropped(s, Cutoff(l, t), k)
                /\ DropExpired(l, s, t) = SubSeq(s, k + 1, Len(s))
                /\ Len(DropExpired(l, s, t)) = Len(s) - k
                /\ \A i \in 1 .. (Len(s) - k) : DropExpired(l, s, t)[i] = s[i + k]
<1>1. PICK k \in 0 .. Len(s) : Dropped(s, Cutoff(l, t), k)
  BY SomeDropped, CutoffInt
<1>2. Len(s) \in Nat /\ \A i \in 1 .. Len(s) : s[i] \in Int
  BY LenProperties, ElementOfSeq
<1>3. DropExpired(l, s, t) = SubSeq(s, k + 1, Len(s))
  BY <1>1, DropIsSubSeq
<1>4. k + 1 \in Int /\ Len(s) \in Int /\ \A i \in (k + 1) .. Len(s) : s[i] \in Int
  BY <1>1, <1>2
<1>5. /\ SubSeq(s, k + 1, Len(s)) \in Seq(Int)
      /\ Len(SubSeq(s, k + 1, Len(s))) = IF k + 1 <= Len(s) THEN Len(s) - (k + 1) + 1 ELSE 0
      /\ \A i \in 1 .. (Len(s) - (k + 1) + 1) : SubSeq(s, k + 1, Len(s))[i] = s[k + 1 + i - 1]
  BY <1>4, SubSeqProperties
<1>6. Len(s) - (k + 1) + 1 = Len(s) - k /\ (~(k + 1 <= Len(s)) => Len(s) - k = 0)
  BY <1>1, <1>2
<1>7. \A i \in 1 .. (Len(s) - k) : k + 1 + i - 1 = i + k
  BY <1>1, <1>2
<1> QED
  BY <1>1, <1>3, <1>5, <1>6, <1>7

\* Nothing goes from an empty list.
LEMMA DropEmpty == \A l \in Limiters, t \in Int : DropExpired(l, <<>>, t) = <<>>
  BY EmptySeq DEF DropExpired

\* What is a before it has k more instants to drop leaves what a leaves.
LEMMA DropShift ==
    ASSUME NEW l \in Limiters, NEW u \in Int, NEW a \in Seq(Int), NEW b \in Seq(Int), NEW k \in Nat,
           Len(b) = Len(a) + k, \A i \in 1 .. Len(a) : b[i + k] = a[i],
           \A i \in 1 .. k : b[i] <= Cutoff(l, u)
    PROVE  DropExpired(l, a, u) = DropExpired(l, b, u)
<1> DEFINE d == Cutoff(l, u)
<1>1. PICK j \in 0 .. Len(a) :
        /\ Dropped(a, d, j)
        /\ DropExpired(l, a, u) = SubSeq(a, j + 1, Len(a))
        /\ Len(DropExpired(l, a, u)) = Len(a) - j
        /\ \A i \in 1 .. (Len(a) - j) : DropExpired(l, a, u)[i] = a[i + j]
  BY DropType
<1>2. d \in Int /\ Len(a) \in Nat /\ Len(b) \in Nat /\ \A i \in 1 .. Len(b) : b[i] \in Int
  BY CutoffInt, LenProperties, ElementOfSeq
<1> HIDE DEF d
<1>3. Dropped(b, d, k + j)
  <2>1. k + j \in 0 .. Len(b)
    BY <1>1, <1>2
  <2>2. ASSUME NEW i \in 1 .. (k + j) PROVE b[i] <= d
    <3>1. CASE i \in 1 .. k
      BY <3>1 DEF d
    <3>2. CASE i \notin 1 .. k
      <4>1. i - k \in 1 .. j /\ i - k \in 1 .. Len(a) /\ (i - k) + k = i
        BY <3>2, <1>1, <1>2
      <4>2. a[i - k] = b[i] /\ a[i - k] <= d
        BY <4>1, <1>1 DEF Dropped
      <4> QED
        BY <4>2
    <3> QED
      BY <3>1, <3>2
  <2>3. ASSUME k + j < Len(b) PROVE b[k + j + 1] > d
    <3>1. j < Len(a) /\ j + 1 \in 1 .. Len(a) /\ (j + 1) + k = k + j + 1
      BY <2>3, <1>1, <1>2
    <3>2. a[j + 1] = b[k + j + 1] /\ a[j + 1] > d
      BY <3>1, <1>1 DEF Dropped
    <3> QED
      BY <3>2
  <2> QED
    BY <2>1, <2>2, <2>3 DEF Dropped
<1>4. k + j \in Int /\ DropExpired(l, b, u) = SubSeq(b, k + j + 1, Len(b))
  <2>1. k + j \in Int
    BY <1>1, <1>2
  <2>2. Dropped(b, Cutoff(l, u), k + j)
    BY <1>3 DEF d
  <2> QED
    BY <2>1, <2>2, DropIsSubSeq
<1>5. DropExpired(l, a, u) \in Seq(Int) /\ DropExpired(l, b, u) \in Seq(Int)
  BY DropType
<1>6. /\ Len(DropExpired(l, b, u)) = Len(a) - j
      /\ \A i \in 1 .. (Len(a) - j) : DropExpired(l, b, u)[i] = b[i + (k + j)]
  <2>1. k + j + 1 \in Int /\ Len(b) \in Int /\ \A i \in (k + j + 1) .. Len(b) : b[i] \in Int
    BY <1>1, <1>2
  <2>2. /\ Len(SubSeq(b, k + j + 1, Len(b)))
             = IF k + j + 1 <= Len(b) THEN Len(b) - (k + j + 1) + 1 ELSE 0
        /\ \A i \in 1 .. Len(b) - (k + j + 1) + 1 :
             SubSeq(b, k + j + 1, Len(b))[i] = b[k + j + 1 + i - 1]
    BY <2>1, SubSeqProperties
  <2>3. /\ Len(b) - (k + j + 1) + 1 = Len(a) - j
        /\ ~(k + j + 1 <= Len(b)) => Len(a) - j = 0
        /\ \A i \in 1 .. (Len(a) - j) : k + j + 1 + i - 1 = i + (k + j)
    BY <1>1, <1>2
  <2> QED
    BY <2>2, <2>3, <1>4
<1>7. \A i \in 1 .. (Len(a) - j) : DropExpired(l, a, u)[i] = b[i + (k + j)]
  <2>1. \A i \in 1 .. (Len(a) - j) : i + j \in 1 .. Len(a) /\ (i + j) + k = i + (k + j)
    BY <1>1, <1>2
  <2> QED
    BY <2>1, <1>1
<1> QED
  BY <1>1, <1>5, <1>6, <1>7, SeqEqual

\* Dropping at one instant what a later one drops anyway changes nothing.
LEMMA DropAgain ==
    ASSUME NEW l \in Limiters, NEW s \in Seq(Int), NEW t \in Int, NEW u \in Int, t <= u
    PROVE  DropExpired(l, DropExpired(l, s, t), u) = DropExpired(l, s, u)
<1>1. PICK k \in 0 .. Len(s) :
        /\ Dropped(s, Cutoff(l, t), k)
        /\ Len(DropExpired(l, s, t)) = Len(s) - k
        /\ \A i \in 1 .. (Len(s) - k) : DropExpired(l, s, t)[i] = s[i + k]
  BY DropType
<1>2. PICK r : r = DropExpired(l, s, t)
  OBVIOUS
<1>3. r \in Seq(Int) /\ Len(s) \in Nat
  BY <1>2, DropType, LenProperties
<1>4. Len(r) = Len(s) - k /\ \A i \in 1 .. Len(r) : s[i + k] = r[i]
  BY <1>1, <1>2
<1>5. \A i \in 1 .. k : s[i] <= Cutoff(l, u)
  <2>1. Cutoff(l, t) <= Cutoff(l, u)
    <3>1. Limits[l].window \in Int
      BY LimiterAssumption DEF Limiters
    <3> QED
      BY <3>1 DEF Cutoff
  <2>2. ASSUME NEW i \in 1 .. k PROVE s[i] <= Cutoff(l, u)
    <3>1. i \in 1 .. Len(s)
      BY <1>1, <1>3
    <3>2. s[i] \in Int /\ s[i] <= Cutoff(l, t) /\ Cutoff(l, t) \in Int /\ Cutoff(l, u) \in Int
      BY <1>1, <3>1, CutoffInt, ElementOfSeq DEF Dropped
    <3> QED
      BY <2>1, <3>2
  <2> QED
    BY <2>2
<1>6. k \in Nat /\ Len(s) = Len(r) + k
  BY <1>1, <1>3, <1>4
<1>7. DropExpired(l, r, u) = DropExpired(l, s, u)
  BY <1>3, <1>4, <1>5, <1>6, DropShift
<1> QED
  BY <1>2, <1>7

\* Time leaves no more.
LEMMA DropLater ==
    ASSUME NEW l \in Limiters, NEW s \in Seq(Int), NEW t \in Int, NEW u \in Int, t <= u
    PROVE  Len(DropExpired(l, s, u)) <= Len(DropExpired(l, s, t))
<1>1. PICK r : r = DropExpired(l, s, t)
  OBVIOUS
<1>2. r \in Seq(Int) /\ DropExpired(l, r, u) = DropExpired(l, s, u)
  BY <1>1, DropType, DropAgain
<1>3. Len(r) \in Nat /\ \E k \in 0 .. Len(r) : Len(DropExpired(l, r, u)) = Len(r) - k
  BY <1>2, DropType, LenProperties
<1>4. Len(DropExpired(l, r, u)) <= Len(r)
  BY <1>3
<1> QED
  BY <1>1, <1>2, <1>4

\* A failure may be told to the list or to what was left of it, and counts once.
LEMMA DropAppend ==
    ASSUME NEW l \in Limiters, NEW s \in Seq(Int), NEW t \in Int
    PROVE  /\ DropExpired(l, Append(DropExpired(l, s, t), t), t) = DropExpired(l, Append(s, t), t)
           /\ Len(DropExpired(l, Append(s, t), t)) <= Len(DropExpired(l, s, t)) + 1
<1>1. PICK k \in 0 .. Len(s) :
        /\ Dropped(s, Cutoff(l, t), k)
        /\ Len(DropExpired(l, s, t)) = Len(s) - k
        /\ \A i \in 1 .. (Len(s) - k) : DropExpired(l, s, t)[i] = s[i + k]
  BY DropType
<1>2. PICK r : r = DropExpired(l, s, t)
  OBVIOUS
<1>3. r \in Seq(Int) /\ Len(s) \in Nat /\ Len(r) \in Nat /\ Len(r) = Len(s) - k
  BY <1>1, <1>2, DropType, LenProperties
<1>4. PICK a : a = Append(r, t)
  OBVIOUS
<1>5. PICK b : b = Append(s, t)
  OBVIOUS
<1>6. /\ a \in Seq(Int) /\ Len(a) = Len(r) + 1
      /\ \A i \in 1 .. Len(r) : a[i] = r[i]
      /\ a[Len(r) + 1] = t
  BY <1>3, <1>4, AppendProperties
<1>7. /\ b \in Seq(Int) /\ Len(b) = Len(s) + 1
      /\ \A i \in 1 .. Len(s) : b[i] = s[i]
      /\ b[Len(s) + 1] = t
  BY <1>5, AppendProperties
<1>8. k \in Nat /\ Len(b) = Len(a) + k
  BY <1>1, <1>3, <1>6, <1>7
<1>9. ASSUME NEW i \in 1 .. Len(a) PROVE b[i + k] = a[i]
  <2>1. CASE i = Len(r) + 1
    <3>1. i + k = Len(s) + 1
      BY <2>1, <1>1, <1>3
    <3> QED
      BY <2>1, <3>1, <1>6, <1>7
  <2>2. CASE i # Len(r) + 1
    <3>0. i \in 1 .. Len(r) + 1
      BY <1>6
    <3>1. i \in 1 .. Len(r) /\ i \in 1 .. (Len(s) - k) /\ i + k \in 1 .. Len(s)
      <4>1. \A n \in Nat, m \in Nat : \A j \in 0 .. m, q \in 1 .. n + 1 :
              n = m - j /\ q # n + 1 => q \in 1 .. n /\ q \in 1 .. (m - j) /\ q + j \in 1 .. m
        OBVIOUS
      <4> QED
        BY <4>1, <3>0, <2>2, <1>3
    <3>2. a[i] = r[i] /\ b[i + k] = s[i + k] /\ r[i] = s[i + k]
      BY <3>1, <1>1, <1>2, <1>6, <1>7
    <3> QED
      BY <3>2
  <2> QED
    BY <2>1, <2>2
<1>10. \A i \in 1 .. k : b[i] <= Cutoff(l, t)
  <2>1. \A i \in 1 .. k : i \in 1 .. Len(s)
    BY <1>1, <1>3
  <2> QED
    BY <2>1, <1>1, <1>7 DEF Dropped
<1>11. DropExpired(l, a, t) = DropExpired(l, b, t)
  BY <1>6, <1>7, <1>8, <1>9, <1>10, DropShift
<1>12. Len(DropExpired(l, a, t)) <= Len(r) + 1
  <2>1. \E j \in 0 .. Len(a) : Len(DropExpired(l, a, t)) = Len(a) - j
    BY <1>6, DropType
  <2> QED
    BY <2>1, <1>3, <1>6
<1> QED
  BY <1>2, <1>4, <1>5, <1>11, <1>12

-----------------------------------------------------------------------------
(***************************************************************************)
(* Guesses.                                                                *)
(***************************************************************************)

TxType == DOMAIN tx = Workers /\ \A w \in Workers : DOMAIN tx[w] = DOMAIN Idle

LimitsType ==
    /\ now \in Int
    /\ DOMAIN failures = Limiters /\ DOMAIN spent = Limiters /\ DOMAIN forgotten = Limiters
    /\ \A l \in Limiters :
         /\ DOMAIN failures[l] \subseteq DOMAIN spent[l]
         /\ \A k \in DOMAIN failures[l] : failures[l][k] \in Seq(Int)
         /\ \A k \in DOMAIN spent[l] : spent[l][k] \in Seq(Int)

\* Handlers that verify a secret for the key, and count it if it is wrong.
Verifying(l, k) ==
    {w \in Workers : At(w, "verify") /\ tx[w].body.do = l /\ LimitKey(tx[w].body) = k}
InFlight(l, k) == IF l \in LoginLimiters THEN Cardinality(Verifying(l, k)) ELSE 0
Extra(l) == IF l \in LoginLimiters THEN Cardinality(Workers) - 1 ELSE 0

VerifyOK == \A w \in Workers : At(w, "verify") => tx[w].body.do \in LoginLimiters

\* What the limiter remembers of a key, and what there was, within the window.
Memory(l, k) == IF k \in DOMAIN failures[l] THEN failures[l][k] ELSE <<>>
Attempts(l, k) == IF k \in DOMAIN spent[l] THEN spent[l][k] ELSE <<>>
Recalled(l, k) == DropExpired(l, Memory(l, k), now)
Live(l, k) == DropExpired(l, Attempts(l, k), now)

\* The limiter forgets nothing that counts.
Remembers ==
    \A l \in Limiters : \A k \in DOMAIN spent[l] \ forgotten[l] : Recalled(l, k) = Live(l, k)

\* The wrong guesses and those in flight.
GuessesBounded ==
    \A l \in Limiters : \A k \in DOMAIN spent[l] \ forgotten[l] :
        Len(Live(l, k)) + InFlight(l, k) <= Limits[l].max + Extra(l)

LimitInv == TxType /\ LimitsType /\ VerifyOK /\ Remembers /\ GuessesBounded

\* What the numbers are.
LEMMA GuessNumbers ==
    ASSUME TxType, LimitsType
    PROVE  /\ \A l \in Limiters : Limits[l].max \in Nat \ {0}
           /\ Cardinality(Workers) \in Nat
           /\ \A l, k : Verifying(l, k) \in SUBSET Workers
           /\ \A l, k : IsFiniteSet(Verifying(l, k))
           /\ \A l, k : Cardinality(Verifying(l, k)) \in Nat
           /\ \A l, k : Cardinality(Verifying(l, k)) <= Cardinality(Workers)
           /\ \A l, k : InFlight(l, k) \in Nat
           /\ \A l \in Limiters : \A k : Attempts(l, k) \in Seq(Int) /\ Memory(l, k) \in Seq(Int)
           /\ \A l \in Limiters : \A k : Live(l, k) \in Seq(Int) /\ Len(Live(l, k)) \in Nat
<1>1. \A l \in Limiters : Limits[l].max \in Nat \ {0}
  BY LimiterAssumption DEF Limiters
<1>2. IsFiniteSet(Workers) /\ Cardinality(Workers) \in Nat
  BY PeopleAssumption, FS_CardinalityType
<1>3. \A l, k : Verifying(l, k) \in SUBSET Workers
  BY DEF Verifying
<1>4. \A T \in SUBSET Workers :
        IsFiniteSet(T) /\ Cardinality(T) \in Nat /\ Cardinality(T) <= Cardinality(Workers)
  BY <1>2, FS_Subset, FS_CardinalityType
<1>5. \A l \in Limiters : \A k : Attempts(l, k) \in Seq(Int) /\ Memory(l, k) \in Seq(Int)
  BY EmptySeq DEF LimitsType, Attempts, Memory
<1>6. \A l \in Limiters : \A k : Live(l, k) \in Seq(Int)
  BY <1>5, DropType DEF Live, LimitsType
<1>7. \A s \in Seq(Int) : Len(s) \in Nat
  BY LenProperties
<1>8. \A l, k : InFlight(l, k) \in Nat
  BY <1>3, <1>4 DEF InFlight
<1> QED
  BY <1>1, <1>2, <1>3, <1>4, <1>5, <1>6, <1>7, <1>8

\* A limiter that forgot nothing blocks when the maximum is reached.
LEMMA BlockedTells ==
    ASSUME TxType, LimitsType, Remembers, NEW l \in Limiters, NEW k, k \notin forgotten[l]
    PROVE  Blocked(l, failures[l], k, now) <=> Len(Live(l, k)) >= Limits[l].max
<1>1. Limits[l].max \in Nat \ {0} /\ Len(<<>>) = 0
  BY GuessNumbers, EmptySeq
<1>2. CASE k \in DOMAIN failures[l]
  <2>1. k \in DOMAIN spent[l]
    BY <1>2 DEF LimitsType
  <2>2. DropExpired(l, failures[l][k], now) = Live(l, k)
    BY <1>2, <2>1 DEF Remembers, Recalled, Memory
  <2> QED
    BY <1>2, <2>2 DEF Blocked
<1>3. CASE k \notin DOMAIN failures[l]
  <2>1. DropExpired(l, <<>>, now) = <<>>
    BY DropEmpty DEF LimitsType
  <2>2. CASE k \in DOMAIN spent[l]
    <3>1. Live(l, k) = <<>>
      BY <1>3, <2>1, <2>2 DEF Remembers, Recalled, Memory
    <3> QED
      BY <1>1, <1>3, <3>1 DEF Blocked
  <2>3. CASE k \notin DOMAIN spent[l]
    <3>1. Live(l, k) = <<>>
      BY <2>1, <2>3 DEF Live, Attempts
    <3> QED
      BY <1>1, <1>3, <3>1 DEF Blocked
  <2> QED
    BY <2>2, <2>3
<1> QED
  BY <1>2, <1>3

\* What record_failure leaves: the key's list has one more, of what was live; of the
\* others each is kept as it was or goes.
LEMMA RecordOutcome ==
    ASSUME NEW l \in Limiters, NEW m, NEW key, NEW t, NEW memory \in RecordFailure(l, m, key, t)
    PROVE  /\ DOMAIN memory \subseteq DOMAIN m \cup {key}
           /\ key \in DOMAIN memory
           /\ memory[key] = Append(IF key \in DOMAIN m THEN DropExpired(l, m[key], t) ELSE <<>>, t)
           /\ \A k \in DOMAIN memory : k # key => k \in DOMAIN m /\ memory[k] = m[k]
<1>1. CASE key \in DOMAIN m
  <2>1. memory = [m EXCEPT ![key] = Append(DropExpired(l, @, t), t)]
    BY <1>1 DEF RecordFailure
  <2> QED
    BY <1>1, <2>1
<1>2. CASE key \notin DOMAIN m
  <2>1. PICK keys \in Kept(l, m, t) : memory = Put(Only(m, keys), key, <<t>>)
    BY <1>2 DEF RecordFailure
  <2>2. keys \subseteq DOMAIN m
    BY DEF Kept
  <2>3. <<t>> = Append(<<>>, t)
    OBVIOUS
  <2> QED
    BY <1>2, <2>1, <2>2, <2>3 DEF Put, Only
<1> QED
  BY <1>1, <1>2

\* A failure of one key.  The limiter goes on remembering what counts; the key has at
\* most one more, the others what they had.
LEMMA CountTells ==
    ASSUME TxType, LimitsType, Remembers, NEW l \in Limiters, NEW key, Count(l, key), now' = now
    PROVE  /\ LimitsType' /\ Remembers'
           /\ \A m \in Limiters : forgotten[m] \subseteq forgotten'[m]
           /\ \A m \in Limiters : \A k \in DOMAIN spent'[m] :
                ~(m = l /\ k = key) => k \in DOMAIN spent[m] /\ spent'[m][k] = spent[m][k]
           /\ spent'[l][key] = Append(Attempts(l, key), now)
           /\ key \in DOMAIN spent'[l]
<1>1. PICK memory \in RecordFailure(l, failures[l], key, now) :
        /\ failures' = [failures EXCEPT ![l] = memory]
        /\ spent' = [spent EXCEPT ![l] =
                       Put(@, key, Append(IF key \in DOMAIN @ THEN @[key] ELSE <<>>, now))]
        /\ forgotten' = [forgotten EXCEPT ![l] =
                           @ \cup {k \in DOMAIN failures[l] \ DOMAIN memory :
                                     DropExpired(l, failures[l][k], now) # <<>>}]
  BY DEF Count
<1>2. /\ DOMAIN memory \subseteq DOMAIN failures[l] \cup {key}
      /\ key \in DOMAIN memory
      /\ memory[key] = Append(IF key \in DOMAIN failures[l] THEN DropExpired(l, failures[l][key], now)
                              ELSE <<>>, now)
      /\ \A k \in DOMAIN memory : k # key => k \in DOMAIN failures[l] /\ memory[k] = failures[l][k]
  BY <1>1, RecordOutcome
<1>3. /\ DOMAIN failures = Limiters /\ DOMAIN spent = Limiters /\ DOMAIN forgotten = Limiters
      /\ now \in Int
  BY DEF LimitsType
<1>4. /\ DOMAIN failures' = Limiters /\ DOMAIN spent' = Limiters /\ DOMAIN forgotten' = Limiters
      /\ failures'[l] = memory
      /\ \A m \in Limiters : m # l => /\ failures'[m] = failures[m] /\ spent'[m] = spent[m]
                                      /\ forgotten'[m] = forgotten[m]
      /\ spent'[l] = Put(spent[l], key, Append(Attempts(l, key), now))
      /\ forgotten'[l] = forgotten[l] \cup {k \in DOMAIN failures[l] \ DOMAIN memory :
                                     DropExpired(l, failures[l][k], now) # <<>>}
  BY <1>1, <1>3 DEF Attempts
<1>5. /\ DOMAIN spent'[l] = DOMAIN spent[l] \cup {key}
      /\ spent'[l][key] = Append(Attempts(l, key), now)
      /\ \A k \in DOMAIN spent[l] : k # key => spent'[l][k] = spent[l][k]
  BY <1>4 DEF Put
<1>6. /\ Attempts(l, key) \in Seq(Int) /\ Append(Attempts(l, key), now) \in Seq(Int)
      /\ memory[key] = Append(Recalled(l, key), now) /\ memory[key] \in Seq(Int)
  <2>1. Attempts(l, key) \in Seq(Int) /\ Memory(l, key) \in Seq(Int)
    BY GuessNumbers
  <2>2. Recalled(l, key) \in Seq(Int)
    BY <2>1, <1>3, DropType DEF Recalled
  <2>3. memory[key] = Append(Recalled(l, key), now)
    <3>1. DropExpired(l, <<>>, now) = <<>>
      BY <1>3, DropEmpty
    <3> QED
      BY <3>1, <1>2 DEF Recalled, Memory
  <2> QED
    BY <2>1, <2>2, <2>3, <1>3, AppendProperties
<1>7. LimitsType'
  <2>1. ASSUME NEW m \in Limiters
        PROVE  /\ DOMAIN failures'[m] \subseteq DOMAIN spent'[m]
               /\ \A k \in DOMAIN failures'[m] : failures'[m][k] \in Seq(Int)
               /\ \A k \in DOMAIN spent'[m] : spent'[m][k] \in Seq(Int)
    <3>1. CASE m = l
      BY <3>1, <1>2, <1>4, <1>5, <1>6 DEF LimitsType
    <3>2. CASE m # l
      BY <3>2, <1>4 DEF LimitsType
    <3> QED
      BY <3>1, <3>2
  <2> QED
    BY <2>1, <1>3, <1>4 DEF LimitsType
<1>8. Remembers'
  <2> SUFFICES ASSUME NEW m \in Limiters, NEW k \in DOMAIN spent'[m] \ forgotten'[m]
               PROVE  Recalled(m, k)' = Live(m, k)'
    BY DEF Remembers
  <2>1. CASE m # l
    <3>1. k \in DOMAIN spent[m] \ forgotten[m] /\ Recalled(m, k) = Live(m, k)
      BY <2>1, <1>4 DEF Remembers
    <3> QED
      BY <3>1, <2>1, <1>4 DEF Recalled, Live, Memory, Attempts
  <2>2. CASE m = l /\ k # key
    <3>1. k \in DOMAIN spent[l] \ forgotten[l] /\ Recalled(l, k) = Live(l, k)
      BY <2>2, <1>4, <1>5 DEF Remembers
    <3>2. Live(l, k)' = Live(l, k)
      BY <3>1, <2>2, <1>5 DEF Live, Attempts
    <3>3. Recalled(l, k)' = Recalled(l, k)
      <4>1. CASE k \in DOMAIN memory
        BY <4>1, <2>2, <1>2, <1>4 DEF Recalled, Memory
      <4>2. CASE k \notin DOMAIN memory
        <5>1. Recalled(l, k)' = DropExpired(l, <<>>, now)
          BY <4>2, <1>4 DEF Recalled, Memory
        <5>2. Recalled(l, k) = <<>> \/ Recalled(l, k) = DropExpired(l, <<>>, now)
          BY <4>2, <2>2, <1>4 DEF Recalled, Memory
        <5> QED
          BY <5>1, <5>2, <1>3, DropEmpty
      <4> QED
        BY <4>1, <4>2
    <3> QED
      BY <2>2, <3>1, <3>2, <3>3
  <2>3. CASE m = l /\ k = key
    <3>1. Recalled(l, key) = Live(l, key)
      <4>1. CASE key \in DOMAIN spent[l]
        BY <4>1, <2>3, <1>4 DEF Remembers
      <4>2. CASE key \notin DOMAIN spent[l]
        BY <4>2 DEF Recalled, Live, Memory, Attempts, LimitsType
      <4> QED
        BY <4>1, <4>2
    <3>2. Live(l, key)' = DropExpired(l, Append(Attempts(l, key), now), now)
      BY <1>5 DEF Live, Attempts
    <3>3. Recalled(l, key)' = DropExpired(l, Append(Live(l, key), now), now)
      BY <3>1, <1>2, <1>4, <1>6 DEF Recalled, Memory
    <3>4. DropExpired(l, Append(Live(l, key), now), now)
            = DropExpired(l, Append(Attempts(l, key), now), now)
      BY <1>3, <1>6, DropAppend DEF Live
    <3> QED
      BY <2>3, <3>2, <3>3, <3>4
  <2> QED
    BY <2>1, <2>2, <2>3
<1>9. \A m \in Limiters : forgotten[m] \subseteq forgotten'[m]
  BY <1>4
<1>10. \A m \in Limiters : \A k \in DOMAIN spent'[m] :
         ~(m = l /\ k = key) => k \in DOMAIN spent[m] /\ spent'[m][k] = spent[m][k]
  BY <1>4, <1>5
<1> QED
  BY <1>5, <1>7, <1>8, <1>9, <1>10

\* A step after which no more handlers verify for a key, by which no memory changes.
NoNewGuess ==
    /\ now' = now /\ UNCHANGED limitVars
    /\ DOMAIN tx' = Workers
    /\ \A v \in Workers : DOMAIN tx'[v] = DOMAIN Idle
    /\ \A v \in Workers : tx'[v].step = "verify" => tx'[v] = tx[v]

\* Steps that neither count nor start to verify keep the bound of guesses.
LEMMA NoNewGuessKeeps == LimitInv /\ NoNewGuess => LimitInv'
<1> SUFFICES ASSUME LimitInv, NoNewGuess PROVE LimitInv'
  OBVIOUS
<1>1. TxType' /\ LimitsType' /\ VerifyOK'
  BY DEF LimitInv, NoNewGuess, TxType, LimitsType, VerifyOK, At, limitVars
<1>2. \A l \in Limiters : \A k : Live(l, k)' = Live(l, k) /\ Recalled(l, k)' = Recalled(l, k)
  BY DEF NoNewGuess, limitVars, Live, Recalled, Attempts, Memory
<1>3. Remembers'
  BY <1>2 DEF LimitInv, Remembers, NoNewGuess, limitVars
<1>4. \A l \in Limiters : \A k : InFlight(l, k)' <= InFlight(l, k) /\ InFlight(l, k)' \in Nat
  <2> TAKE l \in Limiters
  <2> TAKE k
  <2>1. Verifying(l, k)' \subseteq Verifying(l, k)
    BY DEF Verifying, NoNewGuess, At
  <2>2. IsFiniteSet(Verifying(l, k)) /\ Cardinality(Verifying(l, k)) \in Nat
    BY GuessNumbers DEF LimitInv
  <2>3. PICK T : T = Verifying(l, k)'
    OBVIOUS
  <2>4. Cardinality(T) \in Nat /\ Cardinality(T) <= Cardinality(Verifying(l, k))
    BY <2>1, <2>2, <2>3, FS_Subset, FS_CardinalityType
  <2> QED
    BY <2>2, <2>3, <2>4 DEF InFlight
<1>5. GuessesBounded'
  <2> SUFFICES ASSUME NEW l \in Limiters, NEW k \in DOMAIN spent'[l] \ forgotten'[l]
               PROVE  Len(Live(l, k)') + InFlight(l, k)' <= Limits[l].max + Extra(l)
    BY DEF GuessesBounded
  <2>1. k \in DOMAIN spent[l] \ forgotten[l]
    BY DEF NoNewGuess, limitVars
  <2>2. Len(Live(l, k)) + InFlight(l, k) <= Limits[l].max + Extra(l)
    BY <2>1 DEF LimitInv, GuessesBounded
  <2>3. Len(Live(l, k)) \in Nat /\ InFlight(l, k) \in Nat /\ Limits[l].max + Extra(l) \in Int
    BY GuessNumbers DEF LimitInv, Extra
  <2> QED
    BY <1>2, <1>4, <2>2, <2>3
<1> QED
  BY <1>1, <1>3, <1>5 DEF LimitInv

\* Time goes on.
LEMMA TickGuesses == LimitInv /\ Tick => LimitInv'
<1> SUFFICES ASSUME LimitInv, Tick PROVE LimitInv'
  OBVIOUS
<1>1. now \in Int /\ now' = now + 1 /\ now' \in Int /\ now <= now'
  BY DEF LimitInv, LimitsType, Tick
<1>2. failures' = failures /\ spent' = spent /\ forgotten' = forgotten /\ tx' = tx
  BY DEF Tick, limitVars
<1>3. TxType' /\ LimitsType' /\ VerifyOK'
  BY <1>1, <1>2 DEF LimitInv, TxType, LimitsType, VerifyOK, At
<1>4. ASSUME NEW l \in Limiters, NEW k
      PROVE  /\ Live(l, k)' = DropExpired(l, Live(l, k), now')
             /\ Recalled(l, k)' = DropExpired(l, Recalled(l, k), now')
             /\ Len(Live(l, k)') <= Len(Live(l, k)) /\ Len(Live(l, k)') \in Nat
  <2>1. Attempts(l, k) \in Seq(Int) /\ Memory(l, k) \in Seq(Int)
    BY GuessNumbers DEF LimitInv
  <2>2. /\ Live(l, k)' = DropExpired(l, Attempts(l, k), now')
        /\ Recalled(l, k)' = DropExpired(l, Memory(l, k), now')
    BY <1>2 DEF Live, Recalled, Attempts, Memory
  <2>3. PICK u : u = now'
    OBVIOUS
  <2>4. /\ DropExpired(l, Live(l, k), u) = DropExpired(l, Attempts(l, k), u)
        /\ DropExpired(l, Recalled(l, k), u) = DropExpired(l, Memory(l, k), u)
        /\ Len(DropExpired(l, Attempts(l, k), u)) <= Len(Live(l, k))
        /\ DropExpired(l, Attempts(l, k), u) \in Seq(Int)
    BY <1>1, <2>1, <2>3, DropAgain, DropLater, DropType DEF Live, Recalled
  <2> QED
    BY <2>2, <2>3, <2>4, LenProperties
<1>5. Remembers'
  BY <1>2, <1>4 DEF LimitInv, Remembers
<1>6. GuessesBounded'
  <2> SUFFICES ASSUME NEW l \in Limiters, NEW k \in DOMAIN spent'[l] \ forgotten'[l]
               PROVE  Len(Live(l, k)') + InFlight(l, k)' <= Limits[l].max + Extra(l)
    BY DEF GuessesBounded
  <2>1. Len(Live(l, k)) + InFlight(l, k) <= Limits[l].max + Extra(l)
    BY <1>2 DEF LimitInv, GuessesBounded
  <2>2. InFlight(l, k)' = InFlight(l, k)
    BY <1>2 DEF InFlight, Verifying, At
  <2>3. Len(Live(l, k)) \in Nat /\ InFlight(l, k) \in Nat /\ Limits[l].max + Extra(l) \in Int
    BY GuessNumbers DEF LimitInv, Extra
  <2> QED
    BY <1>4, <2>1, <2>2, <2>3
<1> QED
  BY <1>3, <1>5, <1>6 DEF LimitInv

\* A restart forgets everything, the attempts counted from then on too.
LEMMA RestartGuesses == LimitInv /\ Restart => LimitInv'
<1> SUFFICES ASSUME LimitInv, Restart PROVE LimitInv'
  OBVIOUS
<1>1. /\ tx' = [w \in Workers |-> Idle] /\ now' = now
      /\ failures' = [l \in Limiters |-> <<>>] /\ spent' = [l \in Limiters |-> <<>>]
      /\ forgotten' = [l \in Limiters |-> {}]
  BY DEF Restart, NothingCounted
<1>2. DOMAIN <<>> = {}
  OBVIOUS
<1>3. TxType' /\ LimitsType' /\ VerifyOK'
  BY <1>1, <1>2 DEF LimitInv, TxType, LimitsType, VerifyOK, At, Idle
<1>4. \A l \in Limiters : DOMAIN spent'[l] = {}
  BY <1>1, <1>2
<1> QED
  BY <1>3, <1>4 DEF LimitInv, Remembers, GuessesBounded

\* A check drops of the key's list only what counts no more.
LEMMA CheckTells ==
    ASSUME TxType, LimitsType, Remembers, NEW l \in Limiters, NEW key, Check(l, key), now' = now,
           spent' = spent, forgotten' = forgotten
    PROVE  /\ LimitsType' /\ Remembers'
           /\ \A m \in Limiters : \A k : Live(m, k)' = Live(m, k)
<1>1. /\ DOMAIN failures = Limiters /\ now \in Int
      /\ failures' = [failures EXCEPT ![l] = Checked(l, failures[l], key, now)]
  BY DEF Check, LimitsType
<1>2. /\ DOMAIN failures' = Limiters /\ failures'[l] = Checked(l, failures[l], key, now)
      /\ \A m \in Limiters : m # l => failures'[m] = failures[m]
  BY <1>1
<1>3. /\ DOMAIN failures'[l] \subseteq DOMAIN failures[l]
      /\ \A k \in DOMAIN failures[l] : k # key => k \in DOMAIN failures'[l] /\ failures'[l][k] = failures[l][k]
      /\ key \in DOMAIN failures[l] =>
           IF DropExpired(l, failures[l][key], now) = <<>> THEN key \notin DOMAIN failures'[l]
           ELSE /\ key \in DOMAIN failures'[l]
                /\ failures'[l][key] = DropExpired(l, failures[l][key], now)
  BY <1>2 DEF Checked, Only
<1>4. ASSUME NEW k \in DOMAIN failures[l]
      PROVE  /\ failures[l][k] \in Seq(Int)
             /\ DropExpired(l, failures[l][k], now) \in Seq(Int)
             /\ DropExpired(l, DropExpired(l, failures[l][k], now), now) = DropExpired(l, failures[l][k], now)
  <2>1. failures[l][k] \in Seq(Int) /\ now <= now
    BY <1>1 DEF LimitsType
  <2> QED
    BY <1>1, <2>1, DropType, DropAgain
<1>5. LimitsType'
  <2>1. ASSUME NEW m \in Limiters
        PROVE  /\ DOMAIN failures'[m] \subseteq DOMAIN spent'[m]
               /\ \A k \in DOMAIN failures'[m] : failures'[m][k] \in Seq(Int)
               /\ \A k \in DOMAIN spent'[m] : spent'[m][k] \in Seq(Int)
    <3>1. CASE m = l
      <4>1. ASSUME NEW k \in DOMAIN failures'[l] PROVE failures'[l][k] \in Seq(Int)
        <5>1. k \in DOMAIN failures[l]
          BY <1>3
        <5> QED
          BY <5>1, <1>3, <1>4
      <4> QED
        BY <3>1, <4>1, <1>3 DEF LimitsType
    <3>2. CASE m # l
      BY <3>2, <1>2 DEF LimitsType
    <3> QED
      BY <3>1, <3>2
  <2> QED
    BY <2>1, <1>2 DEF LimitsType
<1>6. \A m \in Limiters : \A k : Live(m, k)' = Live(m, k)
  BY DEF Live, Attempts
<1>7. \A m \in Limiters : \A k : Recalled(m, k)' = Recalled(m, k)
  <2> TAKE m \in Limiters
  <2> TAKE k
  <2>1. CASE m # l \/ (m = l /\ k # key)
    <3>1. k \in DOMAIN failures'[m] <=> k \in DOMAIN failures[m]
      BY <2>1, <1>2, <1>3
    <3>2. k \in DOMAIN failures[m] => failures'[m][k] = failures[m][k]
      BY <2>1, <1>2, <1>3
    <3> QED
      BY <3>1, <3>2 DEF Recalled, Memory
  <2>2. CASE m = l /\ k = key
    <3>1. DropExpired(l, <<>>, now) = <<>>
      BY <1>1, DropEmpty
    <3>2. CASE key \notin DOMAIN failures[l]
      BY <2>2, <3>2, <1>3 DEF Recalled, Memory
    <3>3. CASE key \in DOMAIN failures[l] /\ DropExpired(l, failures[l][key], now) = <<>>
      BY <2>2, <3>1, <3>3, <1>3 DEF Recalled, Memory
    <3>4. CASE key \in DOMAIN failures[l] /\ DropExpired(l, failures[l][key], now) # <<>>
      BY <2>2, <3>4, <1>3, <1>4 DEF Recalled, Memory
    <3> QED
      BY <3>2, <3>3, <3>4
  <2> QED
    BY <2>1, <2>2
<1>8. Remembers'
  BY <1>6, <1>7 DEF Remembers
<1> QED
  BY <1>5, <1>6, <1>8

\* A request that has begun.
LEMMA BegunShape ==
    /\ DOMAIN Idle = {"step", "body", "read", "seen", "set"} /\ Idle.step = "idle"
    /\ \A step, b : /\ DOMAIN Begun(step, b) = DOMAIN Idle
                    /\ Begun(step, b).step = step /\ Begun(step, b).body = b
                    /\ Begun(step, b).read = changes
                    /\ Begun(step, b).seen = {} /\ Begun(step, b).set = <<>>
  BY DEF Begun, Idle

\* Who comes in to verify passes the check, or the step adds nobody.
LEMMA BeginGuesses == ASSUME NEW w \in Workers PROVE LimitInv /\ BeginLogin(w) => LimitInv'
<1> SUFFICES ASSUME LimitInv, BeginLogin(w) PROVE LimitInv'
  OBVIOUS
<1>1. PICK b, l, seen :
        /\ b \in bodies /\ l \in LoginLimiters
        /\ At(w, "idle") /\ b.do = l
        /\ Check(l, LimitKey(b))
        /\ IF Blocked(l, failures[l], LimitKey(b), now) THEN Finish(w)
           ELSE Becomes(w, [Begun("verify", b) EXCEPT !.seen = seen])
        /\ spent' = spent /\ forgotten' = forgotten /\ now' = now
  BY DEF BeginLogin, Arrives, bodyVars
<1>2. PICK key : key = LimitKey(b)
  OBVIOUS
<1>3. l \in Limiters /\ LoginLimiters \subseteq Limiters
  BY <1>1, PeopleAssumption DEF LoginLimiters
<1>4. /\ LimitsType' /\ Remembers'
      /\ \A m \in Limiters : \A k : Live(m, k)' = Live(m, k)
  BY <1>1, <1>2, <1>3, CheckTells DEF LimitInv
<1>5. /\ DOMAIN tx' = Workers /\ \A v \in Workers : DOMAIN tx'[v] = DOMAIN Idle
      /\ \A v \in Workers : v # w => tx'[v] = tx[v]
      /\ \/ tx'[w].step = "idle" /\ Blocked(l, failures[l], key, now)
         \/ tx'[w].step = "verify" /\ tx'[w].body = b /\ ~Blocked(l, failures[l], key, now)
  <2>1. PICK r : /\ tx' = [tx EXCEPT ![w] = r] /\ DOMAIN r = DOMAIN Idle
                 /\ \/ r.step = "idle" /\ Blocked(l, failures[l], key, now)
                    \/ r.step = "verify" /\ r.body = b /\ ~Blocked(l, failures[l], key, now)
    <3>1. CASE Blocked(l, failures[l], key, now)
      <4>1. tx' = [tx EXCEPT ![w] = Idle]
        BY <1>1, <1>2, <3>1 DEF Finish, Becomes
      <4> QED
        BY <3>1, <4>1, BegunShape
    <3>2. CASE ~Blocked(l, failures[l], key, now)
      <4>1. PICK q : q = Begun("verify", b)
        OBVIOUS
      <4>2. PICK r : r = [q EXCEPT !.seen = seen]
        OBVIOUS
      <4>3. tx' = [tx EXCEPT ![w] = r]
        BY <1>1, <1>2, <3>2, <4>1, <4>2 DEF Becomes
      <4>4. DOMAIN r = DOMAIN Idle /\ r.step = "verify" /\ r.body = b
        BY <4>1, <4>2, BegunShape
      <4> QED
        BY <3>2, <4>3, <4>4
    <3> QED
      BY <3>1, <3>2
  <2> QED
    BY <2>1 DEF LimitInv, TxType
<1>6. TxType' /\ VerifyOK'
  BY <1>1, <1>5 DEF LimitInv, TxType, VerifyOK, At
<1>7. GuessesBounded'
  <2> SUFFICES ASSUME NEW m \in Limiters, NEW k \in DOMAIN spent'[m] \ forgotten'[m]
               PROVE  Len(Live(m, k)') + InFlight(m, k)' <= Limits[m].max + Extra(m)
    BY DEF GuessesBounded
  <2>1. k \in DOMAIN spent[m] \ forgotten[m] /\ Live(m, k)' = Live(m, k)
    BY <1>1, <1>4
  <2>2. Len(Live(m, k)) + InFlight(m, k) <= Limits[m].max + Extra(m)
    BY <2>1 DEF LimitInv, GuessesBounded
  <2>3. Len(Live(m, k)) \in Nat /\ InFlight(m, k) \in Nat /\ Limits[m].max \in Nat
    BY GuessNumbers DEF LimitInv
  <2>4. CASE InFlight(m, k)' = InFlight(m, k)
    BY <2>1, <2>2, <2>4
  <2>5. CASE InFlight(m, k)' # InFlight(m, k)
    <3>1. m \in LoginLimiters /\ Verifying(m, k)' # Verifying(m, k)
      BY <2>5 DEF InFlight
    <3>2. m = l /\ k = key /\ ~Blocked(l, failures[l], key, now)
      BY <3>1, <1>1, <1>2, <1>5 DEF Verifying, At
    <3>3. ~(Len(Live(l, key)) >= Limits[l].max)
      BY <3>2, <2>1, <1>3, BlockedTells DEF LimitInv
    <3>4. InFlight(m, k)' <= Cardinality(Workers) /\ InFlight(m, k)' \in Nat
          /\ Cardinality(Workers) \in Nat
      <4>1. PICK T : T = Verifying(m, k)'
        OBVIOUS
      <4>2. T \in SUBSET Workers
        BY <4>1 DEF Verifying
      <4>3. Cardinality(T) <= Cardinality(Workers) /\ Cardinality(T) \in Nat
            /\ Cardinality(Workers) \in Nat
        BY <4>2, PeopleAssumption, FS_Subset, FS_CardinalityType
      <4> QED
        BY <3>1, <4>1, <4>3 DEF InFlight
    <3>5. Extra(m) = Cardinality(Workers) - 1
      BY <3>1 DEF Extra
    <3> QED
      BY <2>1, <2>3, <3>2, <3>3, <3>4, <3>5
  <2> QED
    BY <2>4, <2>5
<1> QED
  BY <1>4, <1>6, <1>7 DEF LimitInv

\* A wrong guess counts as it leaves; a right one clears the key.
LEMMA AnswerGuesses == ASSUME NEW w \in Workers PROVE LimitInv /\ AnswerLogin(w) => LimitInv'
<1> SUFFICES ASSUME LimitInv, AnswerLogin(w) PROVE LimitInv'
  OBVIOUS
<1>1. PICK b : b = tx[w].body
  OBVIOUS
<1>2. PICK l : l = b.do
  OBVIOUS
<1>3. PICK key : key = LimitKey(b)
  OBVIOUS
<1>4. /\ At(w, "verify") /\ now' = now
      /\ tx' = [tx EXCEPT ![w] = Idle]
      /\ \/ Count(l, key)
         \/ UNCHANGED limitVars
         \/ /\ failures' = [failures EXCEPT ![l] = Clear(@, key)]
            /\ spent' = [spent EXCEPT ![l] = Clear(@, key)]
            /\ forgotten' = forgotten
  BY <1>1, <1>2, <1>3 DEF AnswerLogin, Finish, Becomes, bodyVars
<1>5. l \in LoginLimiters /\ l \in Limiters
  BY <1>1, <1>2, <1>4, PeopleAssumption DEF LimitInv, VerifyOK, LoginLimiters
<1>6. /\ DOMAIN tx' = Workers /\ \A v \in Workers : DOMAIN tx'[v] = DOMAIN Idle
      /\ \A v \in Workers : v # w => tx'[v] = tx[v]
      /\ tx'[w].step = "idle"
  BY <1>4, BegunShape DEF LimitInv, TxType
<1>7. TxType' /\ VerifyOK'
  BY <1>6 DEF LimitInv, TxType, VerifyOK, At
<1>8. ASSUME NEW m \in Limiters, NEW k
      PROVE  /\ InFlight(m, k) \in Nat /\ InFlight(m, k)' \in Nat
             /\ InFlight(m, k)' <= InFlight(m, k)
             /\ m = l /\ k = key => InFlight(m, k)' = InFlight(m, k) - 1
  <2>1. PICK V : V = Verifying(m, k)
    OBVIOUS
  <2>2. IsFiniteSet(V) /\ Cardinality(V) \in Nat
    BY <2>1, GuessNumbers DEF LimitInv
  <2>3. Verifying(m, k)' = V \ {w}
    BY <2>1, <1>6 DEF Verifying, At
  <2>4. m = l /\ k = key => w \in V
    BY <2>1, <1>1, <1>2, <1>3, <1>4 DEF Verifying
  <2>5. /\ IsFiniteSet(V \ {w})
        /\ Cardinality(V \ {w}) = IF w \in V THEN Cardinality(V) - 1 ELSE Cardinality(V)
    BY <2>2, FS_RemoveElement
  <2>6. Cardinality(V \ {w}) \in Nat
    BY <2>5, FS_CardinalityType
  <2> QED
    BY <1>5, <2>1, <2>2, <2>3, <2>4, <2>5, <2>6 DEF InFlight
<1>9. CASE UNCHANGED limitVars
  <2>1. NoNewGuess
    BY <1>4, <1>6, <1>9 DEF NoNewGuess
  <2> QED
    BY <2>1, NoNewGuessKeeps
<1>10. CASE Count(l, key)
  <2>1. /\ LimitsType' /\ Remembers'
        /\ \A m \in Limiters : forgotten[m] \subseteq forgotten'[m]
        /\ \A m \in Limiters : \A k \in DOMAIN spent'[m] :
             ~(m = l /\ k = key) => k \in DOMAIN spent[m] /\ spent'[m][k] = spent[m][k]
        /\ spent'[l][key] = Append(Attempts(l, key), now)
        /\ key \in DOMAIN spent'[l]
    BY <1>4, <1>5, <1>10, CountTells DEF LimitInv
  <2>2. GuessesBounded'
    <3> SUFFICES ASSUME NEW m \in Limiters, NEW k \in DOMAIN spent'[m] \ forgotten'[m]
                 PROVE  Len(Live(m, k)') + InFlight(m, k)' <= Limits[m].max + Extra(m)
      BY DEF GuessesBounded
    <3>1. /\ Len(Live(m, k)) \in Nat /\ Limits[m].max \in Nat \ {0} /\ Extra(m) \in Int
          /\ now \in Int /\ Attempts(m, k) \in Seq(Int)
      BY GuessNumbers DEF LimitInv, Extra, LimitsType
    <3>2. CASE ~(m = l /\ k = key)
      <4>1. k \in DOMAIN spent[m] \ forgotten[m] /\ Live(m, k)' = Live(m, k)
        BY <2>1, <3>2, <1>4 DEF Live, Attempts
      <4>2. Len(Live(m, k)) + InFlight(m, k) <= Limits[m].max + Extra(m)
        BY <4>1 DEF LimitInv, GuessesBounded
      <4> QED
        BY <1>8, <3>1, <4>1, <4>2
    <3>3. CASE m = l /\ k = key
      <4>1. Live(l, key)' = DropExpired(l, Append(Attempts(l, key), now), now)
        BY <2>1, <1>4 DEF Live, Attempts
      <4>2. Len(DropExpired(l, Append(Attempts(l, key), now), now)) <= Len(Live(l, key)) + 1
        BY <3>1, <3>3, DropAppend DEF Live
      <4>3. Append(Attempts(l, key), now) \in Seq(Int)
        BY <3>1, <3>3, AppendProperties
      <4>4. Len(Live(l, key)') \in Nat
        BY <3>1, <4>1, <4>3, DropType, LenProperties
      <4>5. Len(Live(l, key)) + InFlight(l, key) <= Limits[l].max + Extra(l)
        <5>1. CASE key \in DOMAIN spent[l]
          <6>1. key \in DOMAIN spent[l] \ forgotten[l]
            BY <5>1, <2>1, <3>3
          <6> QED
            BY <6>1, <1>5 DEF LimitInv, GuessesBounded
        <5>2. CASE key \notin DOMAIN spent[l]
          <6>1. Live(l, key) = <<>> /\ Len(<<>>) = 0
            BY <5>2, <3>1, <1>5, DropEmpty, EmptySeq DEF Live, Attempts
          <6>2. InFlight(l, key) <= Cardinality(Workers) /\ Cardinality(Workers) \in Nat
            BY <1>5, GuessNumbers DEF LimitInv, InFlight
          <6>3. Extra(l) = Cardinality(Workers) - 1
            BY <1>5 DEF Extra
          <6> QED
            BY <6>1, <6>2, <6>3, <3>1, <3>3, <1>8
        <5> QED
          BY <5>1, <5>2
      <4>6. /\ InFlight(l, key) \in Nat /\ InFlight(l, key)' \in Nat
            /\ InFlight(l, key)' + 1 = InFlight(l, key)
        BY <1>5, <1>8
      <4>7. Len(Live(l, key)') <= Len(Live(l, key)) + 1
        BY <4>1, <4>2
      <4>8. /\ Len(Live(l, key)) \in Nat
            /\ Limits[l].max + Extra(l) \in Int
        BY <3>1, <3>3
      <4>9. Len(Live(l, key)') + InFlight(l, key)' <= Limits[l].max + Extra(l)
        BY <4>4, <4>5, <4>6, <4>7, <4>8
      <4> QED
        BY <3>3, <4>9
    <3> QED
      BY <3>2, <3>3
  <2> QED
    BY <1>7, <2>1, <2>2 DEF LimitInv
<1>11. CASE /\ failures' = [failures EXCEPT ![l] = Clear(@, key)]
            /\ spent' = [spent EXCEPT ![l] = Clear(@, key)]
            /\ forgotten' = forgotten
  <2>1. /\ DOMAIN failures = Limiters /\ DOMAIN spent = Limiters
        /\ DOMAIN failures' = Limiters /\ DOMAIN spent' = Limiters
    BY <1>11 DEF LimitInv, LimitsType
  <2>2. /\ failures'[l] = Clear(failures[l], key) /\ spent'[l] = Clear(spent[l], key)
        /\ \A m \in Limiters : m # l => failures'[m] = failures[m] /\ spent'[m] = spent[m]
    BY <2>1, <1>5, <1>11
  <2>3. /\ DOMAIN failures'[l] = DOMAIN failures[l] \ {key} /\ DOMAIN spent'[l] = DOMAIN spent[l] \ {key}
        /\ \A k \in DOMAIN failures'[l] : failures'[l][k] = failures[l][k]
        /\ \A k \in DOMAIN spent'[l] : spent'[l][k] = spent[l][k]
    BY <2>2 DEF Clear, Only
  <2>4. ASSUME NEW m \in Limiters
        PROVE  /\ DOMAIN failures'[m] \subseteq DOMAIN failures[m] /\ DOMAIN spent'[m] \subseteq DOMAIN spent[m]
               /\ DOMAIN failures'[m] \subseteq DOMAIN spent'[m]
               /\ \A k \in DOMAIN failures'[m] : failures'[m][k] = failures[m][k]
               /\ \A k \in DOMAIN spent'[m] :
                    /\ spent'[m][k] = spent[m][k]
                    /\ k \in DOMAIN failures'[m] <=> k \in DOMAIN failures[m]
    <3>1. DOMAIN failures[m] \subseteq DOMAIN spent[m]
      BY DEF LimitInv, LimitsType
    <3>2. CASE m = l
      BY <3>1, <3>2, <2>3
    <3>3. CASE m # l
      BY <3>1, <3>3, <2>2
    <3> QED
      BY <3>2, <3>3
  <2>5. LimitsType'
    <3>1. ASSUME NEW m \in Limiters
          PROVE  /\ DOMAIN failures'[m] \subseteq DOMAIN spent'[m]
                 /\ \A k \in DOMAIN failures'[m] : failures'[m][k] \in Seq(Int)
                 /\ \A k \in DOMAIN spent'[m] : spent'[m][k] \in Seq(Int)
      <4>1. /\ \A k \in DOMAIN failures[m] : failures[m][k] \in Seq(Int)
            /\ \A k \in DOMAIN spent[m] : spent[m][k] \in Seq(Int)
        BY DEF LimitInv, LimitsType
      <4> QED
        BY <2>4, <4>1
    <3> QED
      BY <2>1, <3>1, <1>4, <1>11 DEF LimitInv, LimitsType
  <2>6. ASSUME NEW m \in Limiters, NEW k \in DOMAIN spent'[m]
        PROVE  k \in DOMAIN spent[m] /\ Live(m, k)' = Live(m, k) /\ Recalled(m, k)' = Recalled(m, k)
    <3>1. /\ k \in DOMAIN spent[m] /\ spent'[m][k] = spent[m][k]
          /\ k \in DOMAIN failures'[m] <=> k \in DOMAIN failures[m]
          /\ k \in DOMAIN failures'[m] => failures'[m][k] = failures[m][k]
      BY <2>4
    <3> QED
      BY <3>1, <1>4 DEF Live, Recalled, Memory, Attempts
  <2>7. Remembers'
    BY <2>6, <1>11 DEF LimitInv, Remembers
  <2>8. GuessesBounded'
    <3> SUFFICES ASSUME NEW m \in Limiters, NEW k \in DOMAIN spent'[m] \ forgotten'[m]
                 PROVE  Len(Live(m, k)') + InFlight(m, k)' <= Limits[m].max + Extra(m)
      BY DEF GuessesBounded
    <3>1. /\ Len(Live(m, k)) \in Nat /\ Limits[m].max \in Nat \ {0} /\ Extra(m) \in Int
      BY GuessNumbers DEF LimitInv, Extra
    <3>2. Len(Live(m, k)) + InFlight(m, k) <= Limits[m].max + Extra(m)
      BY <2>6, <1>11 DEF LimitInv, GuessesBounded
    <3> QED
      BY <1>8, <2>6, <3>1, <3>2
  <2> QED
    BY <1>7, <2>5, <2>7, <2>8 DEF LimitInv
<1> QED
  BY <1>4, <1>9, <1>10, <1>11

\* A form asks and counts in one step, and is exact.
LEMMA FormGuesses == ASSUME NEW w \in Workers PROVE LimitInv /\ PublicForm(w) => LimitInv'
<1> SUFFICES ASSUME LimitInv, PublicForm(w) PROVE LimitInv'
  OBVIOUS
<1>1. PICK b \in bodies, l \in Limiters \ LoginLimiters :
        /\ now' = now /\ tx' = tx
        /\ IF Blocked(l, failures[l], b.address, now)
           THEN Check(l, b.address) /\ spent' = spent /\ forgotten' = forgotten
           ELSE Count(l, b.address)
  BY DEF PublicForm, bodyVars
<1>2. PICK key : key = b.address
  OBVIOUS
<1>3. TxType' /\ VerifyOK'
  BY <1>1 DEF LimitInv, TxType, VerifyOK, At
<1>4. \A m \in Limiters : \A k : /\ InFlight(m, k)' = InFlight(m, k) /\ InFlight(m, k) \in Nat
                                 /\ m = l => InFlight(m, k) = 0 /\ Extra(m) = 0
  <2>1. \A m \in Limiters : \A k : InFlight(m, k)' = InFlight(m, k)
    BY <1>1 DEF InFlight, Verifying, At
  <2>2. \A m \in Limiters : \A k : InFlight(m, k) \in Nat
    BY GuessNumbers DEF LimitInv
  <2>3. \A k : InFlight(l, k) = 0 /\ Extra(l) = 0
    BY <1>1 DEF InFlight, Extra
  <2> QED
    BY <2>1, <2>2, <2>3
<1>5. CASE Blocked(l, failures[l], key, now)
  <2>1. /\ LimitsType' /\ Remembers'
        /\ \A m \in Limiters : \A k : Live(m, k)' = Live(m, k)
    BY <1>1, <1>2, <1>5, CheckTells DEF LimitInv
  <2>2. spent' = spent /\ forgotten' = forgotten
    BY <1>1, <1>2, <1>5
  <2>3. GuessesBounded'
    BY <2>1, <2>2, <1>4 DEF LimitInv, GuessesBounded, Extra
  <2> QED
    BY <1>3, <2>1, <2>3 DEF LimitInv
<1>6. CASE ~Blocked(l, failures[l], key, now)
  <2>1. /\ LimitsType' /\ Remembers'
        /\ \A m \in Limiters : forgotten[m] \subseteq forgotten'[m]
        /\ \A m \in Limiters : \A k \in DOMAIN spent'[m] :
             ~(m = l /\ k = key) => k \in DOMAIN spent[m] /\ spent'[m][k] = spent[m][k]
        /\ spent'[l][key] = Append(Attempts(l, key), now)
        /\ key \in DOMAIN spent'[l]
    BY <1>1, <1>2, <1>6, CountTells DEF LimitInv
  <2>2. GuessesBounded'
    <3> SUFFICES ASSUME NEW m \in Limiters, NEW k \in DOMAIN spent'[m] \ forgotten'[m]
                 PROVE  Len(Live(m, k)') + InFlight(m, k)' <= Limits[m].max + Extra(m)
      BY DEF GuessesBounded
    <3>1. /\ Len(Live(m, k)) \in Nat /\ Limits[m].max \in Nat \ {0} /\ Extra(m) \in Int
          /\ now \in Int /\ Attempts(m, k) \in Seq(Int)
      BY GuessNumbers DEF LimitInv, Extra, LimitsType
    <3>2. CASE ~(m = l /\ k = key)
      <4>1. k \in DOMAIN spent[m] \ forgotten[m] /\ Live(m, k)' = Live(m, k)
        BY <2>1, <3>2, <1>1 DEF Live, Attempts
      <4>2. Len(Live(m, k)) + InFlight(m, k) <= Limits[m].max + Extra(m)
        BY <4>1 DEF LimitInv, GuessesBounded
      <4> QED
        BY <1>4, <4>1, <4>2
    <3>3. CASE m = l /\ k = key
      <4>1. Live(l, key)' = DropExpired(l, Append(Attempts(l, key), now), now)
        BY <2>1, <1>1 DEF Live, Attempts
      <4>2. Len(DropExpired(l, Append(Attempts(l, key), now), now)) <= Len(Live(l, key)) + 1
        BY <3>1, <3>3, DropAppend DEF Live
      <4>3. Append(Attempts(l, key), now) \in Seq(Int)
        BY <3>1, <3>3, AppendProperties
      <4>4. Len(Live(l, key)') \in Nat
        BY <3>1, <4>1, <4>3, DropType, LenProperties
      <4>5. key \notin forgotten[l]
        BY <2>1, <3>3
      <4>6. ~(Len(Live(l, key)) >= Limits[l].max)
        BY <1>6, <4>5, BlockedTells DEF LimitInv
      <4> QED
        BY <1>4, <3>1, <3>3, <4>1, <4>2, <4>4, <4>6
    <3> QED
      BY <3>2, <3>3
  <2> QED
    BY <1>3, <2>1, <2>2 DEF LimitInv
<1> QED
  BY <1>2, <1>5, <1>6

\* What a step of another request makes of the handler.
Turns(w, steps) ==
    \E r : tx' = [tx EXCEPT ![w] = r] /\ DOMAIN r = DOMAIN Idle /\ r.step \in steps

\* To finish is to turn idle.
LEMMA FinishTurns == ASSUME NEW w \in Workers, NEW S PROVE Finish(w) => Turns(w, S \cup {"idle"})
  BY BegunShape DEF Finish, Becomes, Turns

\* What the handlers of staff turn to.
LEMMA StaffTurns ==
    ASSUME TxType, NEW w \in Workers
    PROVE  /\ CreateStaff(w) => Turns(w, {"insert", "idle"})
           /\ InsertStaff(w) => Turns(w, {"idle"})
           /\ UpdateStaff(w) => Turns(w, {"check", "idle"})
           /\ CheckStaff(w) => Turns(w, {"scan", "idle"})
           /\ ScanPins(w) => Turns(w, {"write", "idle"})
           /\ WriteStaff(w) => Turns(w, {"idle"})
<1>0. Finish(w) => \A S : Turns(w, S \cup {"idle"})
  BY FinishTurns
<1>1. CreateStaff(w) => Turns(w, {"insert", "idle"})
  <2>1. ASSUME NEW b, Becomes(w, Begun("insert", b)) PROVE Turns(w, {"insert", "idle"})
    <3>1. PICK r : r = Begun("insert", b)
      OBVIOUS
    <3>2. tx' = [tx EXCEPT ![w] = r] /\ DOMAIN r = DOMAIN Idle /\ r.step = "insert"
      BY <2>1, <3>1, BegunShape DEF Becomes
    <3> QED
      BY <3>2 DEF Turns
  <2> QED
    BY <1>0, <2>1 DEF CreateStaff
<1>2. InsertStaff(w) => Turns(w, {"idle"})
  BY <1>0 DEF InsertStaff
<1>3. UpdateStaff(w) => Turns(w, {"check", "idle"})
  <2>1. ASSUME NEW b, NEW seen, Becomes(w, [Begun("check", b) EXCEPT !.seen = seen])
        PROVE  Turns(w, {"check", "idle"})
    <3>1. PICK q : q = Begun("check", b)
      OBVIOUS
    <3>2. PICK r : r = [q EXCEPT !.seen = seen]
      OBVIOUS
    <3>3. tx' = [tx EXCEPT ![w] = r] /\ DOMAIN r = DOMAIN Idle /\ r.step = "check"
      BY <2>1, <3>1, <3>2, BegunShape DEF Becomes
    <3> QED
      BY <3>3 DEF Turns
  <2> QED
    BY <1>0, <2>1 DEF UpdateStaff
<1>4. CheckStaff(w) => Turns(w, {"scan", "idle"})
  <2>1. ASSUME Becomes(w, [tx[w] EXCEPT !.step = "scan"])
        PROVE  Turns(w, {"scan", "idle"})
    <3>1. PICK q : q = tx[w]
      OBVIOUS
    <3>2. PICK r : r = [q EXCEPT !.step = "scan"]
      OBVIOUS
    <3>3. tx' = [tx EXCEPT ![w] = r] /\ DOMAIN r = DOMAIN Idle /\ r.step = "scan"
      BY <2>1, <3>1, <3>2, BegunShape DEF Becomes, TxType
    <3> QED
      BY <3>3 DEF Turns
  <2> QED
    BY <1>0, <2>1 DEF CheckStaff
<1>6. ScanPins(w) => Turns(w, {"write", "idle"})
  <2>1. ASSUME Becomes(w, [tx[w] EXCEPT !.step = "write", !.read.pins = changes.pins])
        PROVE  Turns(w, {"write", "idle"})
    <3>1. PICK q : q = tx[w]
      OBVIOUS
    <3>2. PICK r : r = [q EXCEPT !.step = "write", !.read.pins = changes.pins]
      OBVIOUS
    <3>3. tx' = [tx EXCEPT ![w] = r] /\ DOMAIN r = DOMAIN Idle /\ r.step = "write"
      BY <2>1, <3>1, <3>2, BegunShape DEF Becomes, TxType
    <3> QED
      BY <3>3 DEF Turns
  <2> QED
    BY <1>0, <2>1 DEF ScanPins
<1>5. WriteStaff(w) => Turns(w, {"idle"})
  BY <1>0 DEF WriteStaff
<1> QED
  BY <1>1, <1>2, <1>3, <1>4, <1>5, <1>6

\* What the handlers of branches turn to.
LEMMA BranchTurns ==
    ASSUME TxType, NEW w \in Workers
    PROVE  /\ JoinBranch(w) => Turns(w, {"join", "open", "idle"})
           /\ OpenBranch(w) => Turns(w, {"join", "idle"})
           /\ CommitChampion(w) => Turns(w, {"idle"})
           /\ ReadProspect(w) => Turns(w, {"prospect", "idle"})
           /\ WriteProspect(w) => Turns(w, {"idle"})
           /\ DeleteProspect(w) => Turns(w, {"idle"})
           /\ ReadLead(w) => Turns(w, {"lead", "idle"})
           /\ WriteLead(w) => Turns(w, {"idle"})
<1>0. Finish(w) => \A S : Turns(w, S \cup {"idle"})
  BY FinishTurns
<1>1. JoinBranch(w) => Turns(w, {"join", "open", "idle"})
  <2>1. ASSUME NEW b, NEW s \in {"join", "open"}, Becomes(w, Begun(s, b))
        PROVE  Turns(w, {"join", "open", "idle"})
    <3>1. PICK r : r = Begun(s, b)
      OBVIOUS
    <3>2. tx' = [tx EXCEPT ![w] = r] /\ DOMAIN r = DOMAIN Idle /\ r.step = s
      BY <2>1, <3>1, BegunShape DEF Becomes
    <3> QED
      BY <3>2 DEF Turns
  <2> QED
    BY <2>1 DEF JoinBranch
<1>2. OpenBranch(w) => Turns(w, {"join", "idle"})
  <2>1. ASSUME NEW seen, Becomes(w, [tx[w] EXCEPT !.step = "join", !.seen = seen])
        PROVE  Turns(w, {"join", "idle"})
    <3>1. PICK q : q = tx[w]
      OBVIOUS
    <3>2. PICK r : r = [q EXCEPT !.step = "join", !.seen = seen]
      OBVIOUS
    <3>3. tx' = [tx EXCEPT ![w] = r] /\ DOMAIN r = DOMAIN Idle /\ r.step = "join"
      BY <2>1, <3>1, <3>2, BegunShape DEF Becomes, TxType
    <3> QED
      BY <3>3 DEF Turns
  <2> QED
    BY <1>0, <2>1 DEF OpenBranch
<1>3. ASSUME NEW s \in {"prospect", "lead"}, NEW b, NEW seen, NEW set,
             Becomes(w, [Begun(s, b) EXCEPT !.seen = seen, !.set = set])
      PROVE  Turns(w, {s, "idle"})
  <2>1. PICK q : q = Begun(s, b)
    OBVIOUS
  <2>2. PICK r : r = [q EXCEPT !.seen = seen, !.set = set]
    OBVIOUS
  <2>3. tx' = [tx EXCEPT ![w] = r] /\ DOMAIN r = DOMAIN Idle /\ r.step = s
    BY <1>3, <2>1, <2>2, BegunShape DEF Becomes
  <2> QED
    BY <2>3 DEF Turns
<1>4. ReadProspect(w) => Turns(w, {"prospect", "idle"})
  BY <1>0, <1>3 DEF ReadProspect
<1>5. ReadLead(w) => Turns(w, {"lead", "idle"})
  BY <1>0, <1>3 DEF ReadLead
<1>6. CommitChampion(w) \/ WriteProspect(w) \/ DeleteProspect(w) \/ WriteLead(w) => Turns(w, {"idle"})
  BY <1>0 DEF CommitChampion, WriteProspect, DeleteProspect, WriteLead
<1> QED
  BY <1>1, <1>2, <1>4, <1>5, <1>6

\* What a login turns to.
LEMMA LoginTurns ==
    ASSUME NEW w \in Workers, BeginLogin(w) \/ AnswerLogin(w)
    PROVE  Turns(w, {"verify", "idle"})
<1>0. Finish(w) => Turns(w, {"verify"} \cup {"idle"})
  BY FinishTurns
<1>1. ASSUME NEW b, NEW seen, Becomes(w, [Begun("verify", b) EXCEPT !.seen = seen])
      PROVE  Turns(w, {"verify", "idle"})
  <2>1. PICK q : q = Begun("verify", b)
    OBVIOUS
  <2>2. PICK r : r = [q EXCEPT !.seen = seen]
    OBVIOUS
  <2>3. tx' = [tx EXCEPT ![w] = r] /\ DOMAIN r = DOMAIN Idle /\ r.step = "verify"
    BY <1>1, <2>1, <2>2, BegunShape DEF Becomes
  <2> QED
    BY <2>3 DEF Turns
<1>2. {"verify"} \cup {"idle"} = {"verify", "idle"}
  OBVIOUS
<1> QED
  BY <1>0, <1>1, <1>2 DEF BeginLogin, AnswerLogin

\* A handler that does not turn to verifying keeps the bound of guesses.
LEMMA TurnsGuessNothing ==
    ASSUME LimitInv, NEW w \in Workers, NEW S, "verify" \notin S, Turns(w, S),
           now' = now, UNCHANGED limitVars
    PROVE  LimitInv'
<1>1. PICK r : tx' = [tx EXCEPT ![w] = r] /\ DOMAIN r = DOMAIN Idle /\ r.step \in S
  BY DEF Turns
<1>2. /\ DOMAIN tx' = Workers /\ \A v \in Workers : DOMAIN tx'[v] = DOMAIN Idle
      /\ \A v \in Workers : tx'[v].step = "verify" => tx'[v] = tx[v]
  BY <1>1 DEF LimitInv, TxType
<1> QED
  BY <1>2, NoNewGuessKeeps DEF NoNewGuess

\* Nor does what leaves handlers, limiters and clock alone break it.
LEMMA StandsStill ==
    ASSUME LimitInv, tx' = tx, now' = now, UNCHANGED limitVars
    PROVE  LimitInv'
<1>1. NoNewGuess
  BY DEF LimitInv, TxType, NoNewGuess
<1> QED
  BY <1>1, NoNewGuessKeeps

\* No guesses are counted at first.
LEMMA InitGuesses == Init => LimitInv
<1> SUFFICES ASSUME Init PROVE LimitInv
  OBVIOUS
<1>1. PICK scene \in Scenes : InitAccounts(scene)
  BY DEF Init
<1>2. /\ now \in Nat /\ tx = [w \in Workers |-> Idle]
      /\ failures = [l \in Limiters |-> <<>>] /\ spent = [l \in Limiters |-> <<>>]
      /\ forgotten = [l \in Limiters |-> {}]
  BY <1>1, ScenesAssumption DEF InitAccounts, NothingCounted
<1>3. DOMAIN <<>> = {}
  OBVIOUS
<1>4. TxType /\ LimitsType /\ VerifyOK
  <2>1. now \in Int
    BY <1>2
  <2>2. \A l \in Limiters : failures[l] = <<>> /\ spent[l] = <<>>
    BY <1>2
  <2>3. LimitsType
    BY <1>2, <1>3, <2>1, <2>2 DEF LimitsType
  <2>4. \A w \in Workers : tx[w] = Idle
    BY <1>2
  <2>5. TxType /\ VerifyOK
    BY <1>2, <2>4, BegunShape DEF TxType, VerifyOK, At
  <2> QED
    BY <2>3, <2>5
<1>5. \A l \in Limiters : DOMAIN spent[l] = {}
  BY <1>2, <1>3
<1> QED
  BY <1>4, <1>5 DEF LimitInv, Remembers, GuessesBounded

\* Every step keeps the bound of guesses.
LEMMA StepGuesses == LimitInv /\ [Next]_vars => LimitInv'
<1> SUFFICES ASSUME LimitInv, [Next]_vars PROVE LimitInv'
  OBVIOUS
<1>0. TxType
  BY DEF LimitInv
<1>1. CASE UNCHANGED vars
  BY <1>1, StandsStill DEF vars, bodyVars
<1>2. CASE NextAccounts
  <2>1. CASE Tick
    BY <2>1, TickGuesses
  <2>2. CASE Restart
    BY <2>2, RestartGuesses
  <2>3. ASSUME NEW w \in Workers,
               \/ CreateStaff(w) \/ InsertStaff(w)
               \/ UpdateStaff(w) \/ CheckStaff(w) \/ ScanPins(w) \/ WriteStaff(w)
        PROVE  LimitInv'
    <3>1. now' = now /\ UNCHANGED limitVars
      BY <2>3 DEF CreateStaff, InsertStaff, UpdateStaff, CheckStaff, ScanPins, WriteStaff, bodyVars
    <3>2. \E S \in {{"insert", "idle"}, {"idle"}, {"check", "idle"}, {"scan", "idle"}, {"write", "idle"}} : Turns(w, S)
      BY <2>3, <1>0, StaffTurns
    <3> QED
      BY <3>1, <3>2, TurnsGuessNothing
  <2>4. ASSUME NEW w \in Workers, Signup(w) \/ Refresh(w) PROVE LimitInv'
    <3>1. tx' = tx /\ now' = now /\ UNCHANGED limitVars
      BY <2>4 DEF Signup, Refresh, bodyVars
    <3> QED
      BY <3>1, StandsStill
  <2>5. ASSUME NEW w \in Workers, BeginLogin(w) \/ AnswerLogin(w) PROVE LimitInv'
    BY <2>5, BeginGuesses, AnswerGuesses
  <2> QED
    BY <1>2, <2>1, <2>2, <2>3, <2>4, <2>5 DEF NextAccounts
<1>3. ASSUME NEW w \in Workers,
             \/ JoinBranch(w) \/ OpenBranch(w) \/ CommitChampion(w) \/ ReadProspect(w)
             \/ WriteProspect(w) \/ DeleteProspect(w) \/ ReadLead(w) \/ WriteLead(w)
      PROVE  LimitInv'
  <2>1. now' = now /\ UNCHANGED limitVars
    BY <1>3 DEF JoinBranch, OpenBranch, CommitChampion, ReadProspect, WriteProspect, DeleteProspect,
                ReadLead, WriteLead, bodyVars
  <2>2. \E S \in {{"join", "open", "idle"}, {"join", "idle"}, {"idle"}, {"prospect", "idle"},
                  {"lead", "idle"}} : Turns(w, S)
    BY <1>3, <1>0, BranchTurns
  <2> QED
    BY <2>1, <2>2, TurnsGuessNothing
<1>4. ASSUME NEW w \in Workers, CreateProspect(w) PROVE LimitInv'
  <2>1. tx' = tx /\ now' = now /\ UNCHANGED limitVars
    BY <1>4 DEF CreateProspect, bodyVars
  <2> QED
    BY <2>1, StandsStill
<1>5. ASSUME NEW w \in Workers, PublicForm(w) PROVE LimitInv'
  BY <1>5, FormGuesses
<1> QED
  BY <1>1, <1>2, <1>3, <1>4, <1>5 DEF Next

\* The bound with the guesses in flight implies the one without.
LEMMA LimitsFromInv == LimitInv => LimitsHold
<1> SUFFICES ASSUME LimitInv, NEW l \in Limiters, NEW k \in DOMAIN spent[l] \ forgotten[l]
             PROVE  Len(DropExpired(l, spent[l][k], now)) <=
                      Limits[l].max + (IF l \in LoginLimiters THEN Cardinality(Workers) - 1 ELSE 0)
  BY DEF LimitsHold
<1>1. Len(Live(l, k)) + InFlight(l, k) <= Limits[l].max + Extra(l)
  BY DEF LimitInv, GuessesBounded
<1>2. Len(Live(l, k)) \in Nat /\ InFlight(l, k) \in Nat /\ Limits[l].max \in Nat /\ Extra(l) \in Int
  BY GuessNumbers DEF LimitInv, Extra
<1>3. Live(l, k) = DropExpired(l, spent[l][k], now)
  BY DEF Live, Attempts
<1>4. Len(Live(l, k)) <= Limits[l].max + Extra(l)
  BY <1>1, <1>2
<1> QED
  BY <1>3, <1>4 DEF Extra

\* For any number of handlers, keys, a table of any size and any limits: within its
\* window a key has at most the maximum of wrong guesses and one more for each handler
\* but one, a public form none more, unless a full table dropped the key (LimitsHold).
THEOREM GuessesAreLimited == Spec => []LimitsHold
<1>1. Spec => []LimitInv
  BY InitGuesses, StepGuesses, PTL DEF Spec
<1> QED
  BY <1>1, LimitsFromInv, PTL

-----------------------------------------------------------------------------
(***************************************************************************)
(* Staff.                                                                  *)
(***************************************************************************)

Columns == {"shop", "branch", "role", "active", "pin", "email", "password"}

UsersType(us) ==
    /\ us \in Seq({us[u] : u \in DOMAIN us})
    /\ \A u \in DOMAIN us : DOMAIN us[u] = Columns /\ us[u].active \in BOOLEAN

Counts == {"owners", "pins"}
CountsType(c) == DOMAIN c = Counts /\ c.owners \in Nat /\ c.pins \in Nat

\* Only who is of a shop was ever its owner.
TokensOK ==
    \A t \in tokens : t.sub \in DOMAIN users /\ (t.role = "owner" => users[t.sub].shop # NoShop)

BodiesOK ==
    \A b \in bodies : /\ b.do = "join" => b.code # NoBranch
                      /\ b.do = "update" => b.active \in {"", "yes", "no"}

\* A request read the counts when they were no higher.
ReadOK(w) ==
    /\ CountsType(tx[w].read)
    /\ tx[w].read.owners <= changes.owners /\ tx[w].read.pins <= changes.pins

\* Nobody set a PIN since it was found free: it is free.
InsertOK(w) ==
    At(w, "insert") =>
      LET b == tx[w].body IN
      /\ b.by \in DOMAIN users /\ users[b.by].shop # NoShop
      /\ b.pin # NoPin /\ tx[w].read.pins = changes.pins => ~PinTaken(b.pin, users[b.by].shop, 0)

IsActiveOwner(user) == user.role = "owner" /\ user.active
OtherOwners(u) == {v \in ActiveOwners(users) \ {u} : users[v].shop = users[u].shop}

\* Since the request read its row, no shop lost an owner: then the row was an owner's,
\* or there is another one; after the check, an owner's who stays one, or there is.
UpdateOK(w) ==
    tx[w].step \in {"check", "scan", "write"} =>
      LET b == tx[w].body IN
      \E row :
        /\ tx[w].seen = {row}
        /\ b.user \in DOMAIN users /\ users[b.user].shop # NoShop /\ b.active \in {"", "yes", "no"}
        /\ row.shop = users[b.user].shop /\ row.active \in BOOLEAN
        /\ "owners" \notin raced /\ tx[w].read.owners = changes.owners =>
             \/ IsActiveOwner(row) /\ (~At(w, "check") => ~LosesOwner(row, b))
             \/ OtherOwners(b.user) # {}
        /\ At(w, "write") /\ b.pin # NoPin /\ tx[w].read.pins = changes.pins =>
             ~PinTaken(b.pin, users[b.user].shop, b.user)

\* The rows a login has read are of users of that role's kind.
LoginOK(w) ==
    At(w, "verify") =>
      \A c \in tx[w].seen : c.id \in DOMAIN users /\ (c.row.role = "owner" => users[c.id].shop # NoShop)

JoinOK(w) == tx[w].step \in {"join", "open"} => tx[w].body.code # NoBranch

RequestOK(w) == ReadOK(w) /\ InsertOK(w) /\ UpdateOK(w) /\ LoginOK(w) /\ JoinOK(w)

StaffInv ==
    /\ TxType /\ UsersType(users) /\ CountsType(changes) /\ BodiesOK /\ TokensOK
    /\ StaffSound
    /\ \A w \in Workers : RequestOK(w)

\* What no step undoes: users stay, and stay in their shop; as long as the counts do
\* not change, owners stay owners and no PIN is set.
StaffMoves ==
    /\ DOMAIN users \subseteq DOMAIN users'
    /\ \A u \in DOMAIN users : users'[u].shop = users[u].shop
    /\ CountsType(changes')
    /\ changes.owners <= changes'.owners /\ changes.pins <= changes'.pins
    /\ changes'.owners = changes.owners => ActiveOwners(users) \subseteq ActiveOwners(users')
    /\ changes'.pins = changes.pins =>
         \A u \in DOMAIN users' :
           users'[u].pin = IF u \in DOMAIN users THEN users[u].pin ELSE NoPin
    /\ raced \subseteq raced'

\* A handler whose step it is not finds its conditions kept by any move of the staff.
LEMMA OthersKept ==
    ASSUME CountsType(changes), StaffMoves, NEW v \in Workers, RequestOK(v), tx'[v] = tx[v]
    PROVE  RequestOK(v)'
<1>1. PICK t : t = tx[v]
  OBVIOUS
<1>2. tx[v] = t /\ tx'[v] = t
  BY <1>1
<1>3. changes.owners \in Nat /\ changes.pins \in Nat /\ changes'.owners \in Nat /\ changes'.pins \in Nat
  BY DEF StaffMoves, CountsType
<1>4. ReadOK(v) /\ t.read.owners \in Nat /\ t.read.pins \in Nat
  BY <1>2 DEF RequestOK, ReadOK, CountsType
<1>5. /\ t.read.owners = changes'.owners => changes'.owners = changes.owners
      /\ t.read.pins = changes'.pins => changes'.pins = changes.pins
  BY <1>2, <1>3, <1>4 DEF ReadOK, StaffMoves
<1>6. ReadOK(v)'
  BY <1>2, <1>3, <1>4 DEF ReadOK, StaffMoves
<1>7. ASSUME NEW pin, NEW u \in DOMAIN users, NEW x, pin # NoPin, t.read.pins = changes'.pins,
             ~PinTaken(pin, users[u].shop, x)
      PROVE  ~PinTaken(pin, users[u].shop, x)'
  <2> SUFFICES ASSUME NEW y \in DOMAIN users' \ {x}, users'[y].shop = users'[u].shop, users'[y].pin = pin
               PROVE  FALSE
    BY DEF PinTaken
  <2>1. y \in DOMAIN users /\ users[y].pin = pin
    BY <1>5, <1>7 DEF StaffMoves
  <2>2. users[y].shop = users[u].shop
    BY <2>1 DEF StaffMoves
  <2> QED
    BY <2>1, <2>2, <1>7 DEF PinTaken
<1>8. InsertOK(v)'
  <2> SUFFICES ASSUME t.step = "insert"
               PROVE  /\ t.body.by \in DOMAIN users' /\ users'[t.body.by].shop # NoShop
                      /\ t.body.pin # NoPin /\ t.read.pins = changes'.pins =>
                           ~PinTaken(t.body.pin, users[t.body.by].shop, 0)'
    BY <1>2 DEF InsertOK, At
  <2>1. /\ t.body.by \in DOMAIN users /\ users[t.body.by].shop # NoShop
        /\ t.body.pin # NoPin /\ t.read.pins = changes.pins =>
             ~PinTaken(t.body.pin, users[t.body.by].shop, 0)
    BY <1>2 DEF RequestOK, InsertOK, At
  <2> QED
    BY <2>1, <1>5, <1>7 DEF StaffMoves
<1>9. UpdateOK(v)'
  <2> SUFFICES ASSUME t.step \in {"check", "scan", "write"} PROVE UpdateOK(v)'
    BY <1>2 DEF UpdateOK
  <2>1. PICK row :
        /\ t.seen = {row}
        /\ t.body.user \in DOMAIN users /\ users[t.body.user].shop # NoShop
        /\ t.body.active \in {"", "yes", "no"}
        /\ row.shop = users[t.body.user].shop /\ row.active \in BOOLEAN
        /\ "owners" \notin raced /\ t.read.owners = changes.owners =>
             \/ IsActiveOwner(row) /\ (t.step # "check" => ~LosesOwner(row, t.body))
             \/ OtherOwners(t.body.user) # {}
        /\ t.step = "write" /\ t.body.pin # NoPin /\ t.read.pins = changes.pins =>
             ~PinTaken(t.body.pin, users[t.body.user].shop, t.body.user)
    BY <1>2 DEF RequestOK, UpdateOK, At
  <2>2. /\ t.body.user \in DOMAIN users' /\ users'[t.body.user].shop # NoShop
        /\ row.shop = users'[t.body.user].shop
    BY <2>1 DEF StaffMoves
  <2>3. ASSUME "owners" \notin raced', t.read.owners = changes'.owners
        PROVE  \/ IsActiveOwner(row) /\ (t.step # "check" => ~LosesOwner(row, t.body))
               \/ OtherOwners(t.body.user)' # {}
    <3>1. "owners" \notin raced /\ t.read.owners = changes.owners
          /\ ActiveOwners(users) \subseteq ActiveOwners(users')
      BY <2>3, <1>5 DEF StaffMoves
    <3>2. OtherOwners(t.body.user) \subseteq OtherOwners(t.body.user)'
      BY <3>1, <2>1 DEF OtherOwners, StaffMoves, ActiveOwners
    <3> QED
      BY <2>1, <3>1, <3>2
  <2>4. t.step = "write" /\ t.body.pin # NoPin /\ t.read.pins = changes'.pins =>
             ~PinTaken(t.body.pin, users[t.body.user].shop, t.body.user)'
    BY <2>1, <1>5, <1>7
  <2> QED
    BY <1>2, <2>1, <2>2, <2>3, <2>4 DEF UpdateOK, At
<1>10. LoginOK(v)' /\ JoinOK(v)'
  BY <1>2 DEF RequestOK, LoginOK, JoinOK, At, StaffMoves
<1> QED
  BY <1>6, <1>8, <1>9, <1>10 DEF RequestOK

\* A new row is the last one.
LEMMA AppendRow ==
    ASSUME NEW us, UsersType(us), NEW row, DOMAIN row = Columns, row.active \in BOOLEAN
    PROVE  /\ UsersType(Append(us, row))
           /\ DOMAIN Append(us, row) = DOMAIN us \cup {Len(us) + 1}
           /\ Len(us) + 1 \notin DOMAIN us
           /\ Append(us, row)[Len(us) + 1] = row
           /\ \A u \in DOMAIN us : Append(us, row)[u] = us[u]
<1> DEFINE S == {us[u] : u \in DOMAIN us} \cup {row}
<1>1. us \in Seq(S) /\ row \in S
  <2>1. us \in Seq({us[u] : u \in DOMAIN us}) /\ {us[u] : u \in DOMAIN us} \subseteq S
    BY DEF UsersType
  <2> QED
    BY <2>1, SeqMonotonic
<1>2. Len(us) \in Nat /\ DOMAIN us = 1 .. Len(us)
  BY <1>1, LenProperties
<1>3. /\ Append(us, row) \in Seq(S) /\ Len(Append(us, row)) = Len(us) + 1
      /\ \A i \in 1 .. Len(us) : Append(us, row)[i] = us[i]
      /\ Append(us, row)[Len(us) + 1] = row
  BY <1>1, AppendProperties
<1>4. DOMAIN Append(us, row) = 1 .. (Len(us) + 1)
  BY <1>3, LenProperties
<1>5. DOMAIN Append(us, row) = DOMAIN us \cup {Len(us) + 1} /\ Len(us) + 1 \notin DOMAIN us
  BY <1>2, <1>4
<1>6. PICK r : r = Append(us, row)
  OBVIOUS
<1>7. r \in Seq({r[u] : u \in DOMAIN r})
  <2>1. S \subseteq {r[u] : u \in DOMAIN r}
    BY <1>2, <1>3, <1>5, <1>6
  <2>2. r \in Seq(S)
    BY <1>3, <1>6
  <2> HIDE DEF S
  <2> QED
    BY <2>1, <2>2, SeqMonotonic
<1>8. \A u \in DOMAIN r : DOMAIN r[u] = Columns /\ r[u].active \in BOOLEAN
  BY <1>2, <1>3, <1>5, <1>6 DEF UsersType
<1> QED
  BY <1>2, <1>3, <1>5, <1>6, <1>7, <1>8 DEF UsersType

\* A commit counts what it takes or sets, and tells whether it raced.
LEMMA CommitTells ==
    ASSUME StaffInv, NEW w \in Workers, NEW us, CommitStaff(w, us),
           DOMAIN users \subseteq DOMAIN us, \A u \in DOMAIN users : us[u].shop = users[u].shop
    PROVE  /\ StaffMoves /\ users' = us
           /\ "owners" \notin raced' =>
                /\ "owners" \notin raced
                /\ ActiveOwners(users) \subseteq ActiveOwners(us) \/ tx[w].read.owners = changes.owners
           /\ "pins" \notin raced' =>
                /\ "pins" \notin raced
                /\ \/ \A u \in DOMAIN us : us[u].pin = IF u \in DOMAIN users THEN users[u].pin ELSE NoPin
                   \/ tx[w].read.pins = changes.pins
<1> DEFINE lost == ~(ActiveOwners(users) \subseteq ActiveOwners(us))
           set == \E u \in DOMAIN us : us[u].pin # (IF u \in DOMAIN users THEN users[u].pin ELSE NoPin)
           touched == {c \in DOMAIN changes : IF c = "owners" THEN lost ELSE set}
<1>1. /\ users' = us
      /\ changes' = [c \in DOMAIN changes |-> changes[c] + (IF c \in touched THEN 1 ELSE 0)]
      /\ raced' = raced \cup {c \in touched : changes[c] # tx[w].read[c]}
  BY DEF CommitStaff
<1>2. DOMAIN changes = {"owners", "pins"} /\ changes.owners \in Nat /\ changes.pins \in Nat
  BY DEF StaffInv, CountsType, Counts
<1>3. ("owners" \in touched <=> lost) /\ ("pins" \in touched <=> set)
  BY <1>2
<1> HIDE DEF touched, lost, set
<1>4. /\ DOMAIN changes' = {"owners", "pins"}
      /\ changes'.owners = changes.owners + (IF lost THEN 1 ELSE 0)
      /\ changes'.pins = changes.pins + (IF set THEN 1 ELSE 0)
  BY <1>1, <1>2, <1>3
<1>5. CountsType(changes') /\ changes.owners <= changes'.owners /\ changes.pins <= changes'.pins
  BY <1>2, <1>4 DEF CountsType, Counts
<1>6. (changes'.owners = changes.owners => ~lost) /\ (changes'.pins = changes.pins => ~set)
  BY <1>2, <1>4
<1>7. /\ "owners" \notin raced' => "owners" \notin raced /\ (lost => tx[w].read.owners = changes.owners)
      /\ "pins" \notin raced' => "pins" \notin raced /\ (set => tx[w].read.pins = changes.pins)
  BY <1>1, <1>3
<1>8. StaffMoves
  BY <1>1, <1>5, <1>6 DEF StaffMoves, lost, set
<1> QED
  BY <1>1, <1>7, <1>8 DEF lost, set

\* One handler's step on what the users have become.
LEMMA OneMoves ==
    ASSUME StaffInv, StaffMoves, NEW w \in Workers, NEW r, tx' = [tx EXCEPT ![w] = r],
           DOMAIN r = DOMAIN Idle, RequestOK(w)'
    PROVE  TxType' /\ \A v \in Workers : RequestOK(v)'
<1>1. DOMAIN tx' = Workers /\ tx'[w] = r /\ \A v \in Workers : v # w => tx'[v] = tx[v]
  BY DEF StaffInv, TxType
<1>2. TxType'
  BY <1>1 DEF StaffInv, TxType
<1>3. ASSUME NEW v \in Workers, v # w PROVE RequestOK(v)'
  BY <1>1, <1>3, OthersKept DEF StaffInv
<1> QED
  BY <1>2, <1>3

\* A handler without a request meets every condition.
LEMMA IdleIsOK ==
    ASSUME NEW w \in Workers, tx'[w] = Idle, CountsType(changes')
    PROVE  RequestOK(w)'
<1>1. /\ Idle.step = "idle" /\ Idle.read.owners = 0 /\ Idle.read.pins = 0
      /\ DOMAIN Idle.read = {"owners", "pins"}
  BY DEF Idle
<1>2. ReadOK(w)'
  BY <1>1 DEF ReadOK, CountsType, Counts
<1> QED
  BY <1>1, <1>2 DEF RequestOK, InsertOK, UpdateOK, LoginOK, JoinOK, At

\* No move at all is one.
LEMMA StandingMoves == StaffInv /\ UNCHANGED <<users, changes, raced>> => StaffMoves
  BY DEF StaffInv, CountsType, StaffMoves

\* A table that was sound is, with a row more.
LEMMA Grown ==
    ASSUME UsersType(users), NEW row, DOMAIN row = Columns, row.active = TRUE, NEW us, us = Append(users, row)
    PROVE  /\ ActiveOwners(users) \subseteq ActiveOwners(us)
           /\ Owned(users) /\ (row.role = "owner" \/ \E u \in DOMAIN users : users[u].shop = row.shop)
                => Owned(us)
           /\ Owned(users) /\ row.shop = NoShop => Owned(us)
           /\ PinsApart(users) /\ (row.pin # NoPin => ~PinTaken(row.pin, row.shop, 0)) => PinsApart(us)
           /\ RolesFit(users) /\ (IF row.role \in Roles THEN row.shop # NoShop /\ row.branch = NoBranch
                                  ELSE row.shop = NoShop /\ row.branch # NoBranch) => RolesFit(us)
<1>1. PICK n : n = Len(users) + 1
  OBVIOUS
<1>2. /\ DOMAIN us = DOMAIN users \cup {n} /\ n \notin DOMAIN users
      /\ us[n] = row
      /\ \A u \in DOMAIN users : us[u] = users[u]
  BY <1>1, AppendRow
<1>3. ActiveOwners(users) \subseteq ActiveOwners(us)
  BY <1>2 DEF ActiveOwners
<1>4. ASSUME Owned(users), row.role = "owner" \/ \E u \in DOMAIN users : users[u].shop = row.shop
      PROVE  Owned(us)
  <2> SUFFICES ASSUME NEW u \in DOMAIN us, us[u].shop # NoShop
               PROVE  \E v \in ActiveOwners(us) : us[v].shop = us[u].shop
    BY DEF Owned
  <2>1. ASSUME NEW x \in DOMAIN users, users[x].shop # NoShop
        PROVE  \E v \in ActiveOwners(us) : us[v].shop = users[x].shop
    <3>1. PICK v \in ActiveOwners(users) : users[v].shop = users[x].shop
      BY <1>4, <2>1 DEF Owned
    <3>2. v \in ActiveOwners(us) /\ us[v].shop = users[v].shop
      BY <3>1, <1>2, <1>3 DEF ActiveOwners
    <3> QED
      BY <3>1, <3>2
  <2>2. CASE u = n /\ row.role = "owner"
    BY <2>2, <1>2 DEF ActiveOwners
  <2>3. CASE u = n /\ row.role # "owner"
    <3>1. PICK x \in DOMAIN users : users[x].shop = row.shop
      BY <2>3, <1>4
    <3>2. us[u].shop = users[x].shop /\ users[x].shop # NoShop
      BY <3>1, <2>3, <1>2
    <3>3. PICK v \in ActiveOwners(us) : us[v].shop = users[x].shop
      BY <3>2, <2>1
    <3> QED
      BY <3>2, <3>3
  <2>4. CASE u # n
    <3>1. u \in DOMAIN users /\ us[u] = users[u]
      BY <2>4, <1>2
    <3>2. users[u].shop # NoShop
      BY <3>1
    <3>3. PICK v \in ActiveOwners(us) : us[v].shop = users[u].shop
      BY <3>1, <3>2, <2>1
    <3> QED
      BY <3>1, <3>3
  <2> QED
    BY <2>2, <2>3, <2>4
<1>5. ASSUME Owned(users), row.shop = NoShop PROVE Owned(us)
  <2> SUFFICES ASSUME NEW u \in DOMAIN us, us[u].shop # NoShop
               PROVE  \E v \in ActiveOwners(us) : us[v].shop = us[u].shop
    BY DEF Owned
  <2>1. u \in DOMAIN users /\ us[u] = users[u]
    BY <1>2, <1>5
  <2>2. PICK v \in ActiveOwners(users) : users[v].shop = users[u].shop
    BY <1>5, <2>1 DEF Owned
  <2>3. v \in ActiveOwners(us) /\ us[v].shop = users[v].shop
    BY <2>2, <1>2, <1>3 DEF ActiveOwners
  <2> QED
    BY <2>1, <2>2, <2>3
<1>6. ASSUME PinsApart(users), row.pin # NoPin => ~PinTaken(row.pin, row.shop, 0) PROVE PinsApart(us)
  <2>1. ASSUME NEW u \in DOMAIN users, users[u].shop = row.shop, users[u].pin = row.pin PROVE row.pin = NoPin
    <3>1. users \in Seq({users[x] : x \in DOMAIN users})
      BY DEF UsersType
    <3>2. u # 0
      BY <3>1, LenProperties
    <3> QED
      BY <2>1, <3>2, <1>6 DEF PinTaken
  <2>2. ASSUME NEW u \in DOMAIN us, NEW v \in DOMAIN us, u # v,
               us[u].shop = us[v].shop, us[u].pin = us[v].pin
        PROVE  us[u].pin = NoPin
    <3>1. CASE u \in DOMAIN users /\ v \in DOMAIN users
      BY <3>1, <2>2, <1>2, <1>6 DEF PinsApart
    <3>2. CASE u = n \/ v = n
      BY <3>2, <2>1, <2>2, <1>2
    <3> QED
      BY <3>1, <3>2, <1>2
  <2> QED
    BY <2>2 DEF PinsApart
<1>7. ASSUME RolesFit(users), IF row.role \in Roles THEN row.shop # NoShop /\ row.branch = NoBranch
                              ELSE row.shop = NoShop /\ row.branch # NoBranch
      PROVE  RolesFit(us)
  BY <1>2, <1>7 DEF RolesFit
<1> QED
  BY <1>3, <1>4, <1>5, <1>6, <1>7

\* Tokens stay those of users.
LEMMA TokensKept == StaffMoves /\ TokensOK /\ tokens' = tokens => TokensOK'
  BY DEF StaffMoves, TokensOK

\* The insert of a member of staff keeps the staff sound.
LEMMA InsertSound == ASSUME NEW w \in Workers PROVE StaffInv /\ InsertStaff(w) => StaffInv'
<1> SUFFICES ASSUME StaffInv, InsertStaff(w) PROVE StaffInv'
  OBVIOUS
<1>1. PICK b : b = tx[w].body
  OBVIOUS
<1>2. /\ At(w, "insert") /\ tokens' = tokens /\ bodies' = bodies
      /\ tx' = [tx EXCEPT ![w] = Idle]
  BY DEF InsertStaff, Finish, Becomes, bodyVars
<1>3. tx'[w] = Idle
  BY <1>2 DEF StaffInv, TxType
<1>4. BodiesOK'
  BY <1>2 DEF StaffInv, BodiesOK
<1>5. CASE b.role \in Roles
  <2>1. PICK row : row = User(users[b.by].shop, NoBranch, b.role, b.pin, NoEmail, "")
    OBVIOUS
  <2>2. PICK us : us = Append(users, row)
    OBVIOUS
  <2>3. CommitStaff(w, us)
    BY <1>1, <1>5, <2>1, <2>2 DEF InsertStaff
  <2>4. /\ DOMAIN row = Columns /\ row.active = TRUE /\ row.active \in BOOLEAN
        /\ row.shop = users[b.by].shop /\ row.branch = NoBranch /\ row.role = b.role /\ row.pin = b.pin
    BY <2>1 DEF User, Columns
  <2>5. /\ UsersType(us) /\ DOMAIN us = DOMAIN users \cup {Len(users) + 1}
        /\ Len(users) + 1 \notin DOMAIN users
        /\ us[Len(users) + 1] = row
        /\ \A u \in DOMAIN users : us[u] = users[u]
    BY <2>2, <2>4, AppendRow DEF StaffInv
  <2>6. /\ StaffMoves /\ users' = us
        /\ "owners" \notin raced' => "owners" \notin raced
        /\ "pins" \notin raced' =>
             /\ "pins" \notin raced
             /\ \/ \A u \in DOMAIN us : us[u].pin = IF u \in DOMAIN users THEN users[u].pin ELSE NoPin
                \/ tx[w].read.pins = changes.pins
    <3>1. DOMAIN users \subseteq DOMAIN us /\ \A u \in DOMAIN users : us[u].shop = users[u].shop
      BY <2>5
    <3> QED
      BY <2>3, <3>1, CommitTells
  <2>7. /\ b.by \in DOMAIN users /\ users[b.by].shop # NoShop
        /\ b.pin # NoPin /\ tx[w].read.pins = changes.pins => ~PinTaken(b.pin, users[b.by].shop, 0)
    BY <1>1, <1>2 DEF StaffInv, RequestOK, InsertOK
  <2>8. "owners" \notin raced' => Owned(us)
    BY <2>2, <2>4, <2>6, <2>7, Grown DEF StaffInv, StaffSound
  <2>9. "pins" \notin raced' => PinsApart(us)
    <3>1. "pins" \notin raced' => PinsApart(users) /\ (row.pin # NoPin => ~PinTaken(row.pin, row.shop, 0))
      <4>1. CASE \A u \in DOMAIN us : us[u].pin = IF u \in DOMAIN users THEN users[u].pin ELSE NoPin
        <5>1. row.pin = NoPin
          BY <4>1, <2>5
        <5> QED
          BY <5>1, <2>6 DEF StaffInv, StaffSound
      <4>2. CASE tx[w].read.pins = changes.pins
        BY <4>2, <2>4, <2>6, <2>7 DEF StaffInv, StaffSound
      <4> QED
        BY <4>1, <4>2, <2>6
    <3> QED
      BY <3>1, <2>2, <2>4, Grown DEF StaffInv
  <2>10. RolesFit(us)
    BY <1>5, <2>2, <2>4, <2>7, Grown DEF StaffInv, StaffSound
  <2>11. StaffSound'
    BY <2>6, <2>8, <2>9, <2>10 DEF StaffSound
  <2>12. CountsType(changes') /\ UsersType(users)' /\ TokensOK'
    BY <1>2, <2>5, <2>6, TokensKept DEF StaffInv, StaffMoves
  <2>13. RequestOK(w)'
    BY <1>3, <2>12, IdleIsOK
  <2>14. TxType' /\ \A v \in Workers : RequestOK(v)'
    BY <1>2, <2>6, <2>13, OneMoves
  <2> QED
    BY <1>4, <2>11, <2>12, <2>14 DEF StaffInv
<1>6. CASE b.role \notin Roles
  <2>1. users' = users /\ changes' = changes /\ raced' = raced
    BY <1>1, <1>6 DEF InsertStaff
  <2>2. StaffMoves
    BY <2>1, StandingMoves
  <2>3. RequestOK(w)'
    BY <1>3, <2>1, IdleIsOK DEF StaffInv
  <2>4. TxType' /\ \A v \in Workers : RequestOK(v)'
    BY <1>2, <2>2, <2>3, OneMoves
  <2>5. StaffSound' /\ UsersType(users)' /\ CountsType(changes') /\ TokensOK'
    BY <1>2, <2>1, <2>2, TokensKept DEF StaffInv, StaffSound
  <2> QED
    BY <1>4, <2>4, <2>5 DEF StaffInv
<1> QED
  BY <1>5, <1>6

\* A shop keeps its owner if no owner goes, or one of another row stays in the shop of
\* the row that changes.
LEMMA RowChanged ==
    ASSUME UsersType(users), NEW u \in DOMAIN users, NEW row, NEW us, us = [users EXCEPT ![u] = row],
           DOMAIN row = Columns, row.active \in BOOLEAN, row.shop = users[u].shop
    PROVE  /\ UsersType(us) /\ DOMAIN us = DOMAIN users
           /\ us[u] = row /\ \A v \in DOMAIN users : v # u => us[v] = users[v]
           /\ \A v \in DOMAIN users : us[v].shop = users[v].shop
           /\ Owned(users) /\ ActiveOwners(users) \subseteq ActiveOwners(us) => Owned(us)
           /\ Owned(users) /\ OtherOwners(u) # {} => Owned(us)
<1>1. DOMAIN us = DOMAIN users /\ us[u] = row /\ \A v \in DOMAIN users : v # u => us[v] = users[v]
  OBVIOUS
<1>2. \A v \in DOMAIN users : us[v].shop = users[v].shop
  BY <1>1
<1>3. UsersType(us)
  <2>1. us \in Seq({us[v] : v \in DOMAIN us})
    <3>1. users \in Seq({users[v] : v \in DOMAIN users})
      BY DEF UsersType
    <3>2. Len(users) \in Nat /\ DOMAIN users = 1 .. Len(users)
      BY <3>1, LenProperties
    <3>3. PICK n \in Nat : DOMAIN us = 1 .. n
      BY <1>1, <3>2
    <3>4. us = [i \in 1 .. n |-> us[i]]
      BY <3>3, <1>1, <3>2
    <3>5. us \in [1 .. n -> {us[v] : v \in DOMAIN us}]
      BY <3>3, <3>4
    <3>6. PICK R : R = {us[v] : v \in DOMAIN us}
      OBVIOUS
    <3>7. us \in UNION {[1 .. m -> R] : m \in Nat}
      BY <3>5, <3>6
    <3>8. Seq(R) = UNION {[1 .. m -> R] : m \in Nat}
      BY SeqDef
    <3>9. us \in Seq(R)
      BY <3>7, <3>8, Zenon
    <3> QED
      BY <3>6, <3>9
  <2> QED
    BY <2>1, <1>1 DEF UsersType
<1>4. ASSUME Owned(users), ActiveOwners(users) \subseteq ActiveOwners(us) PROVE Owned(us)
  <2> SUFFICES ASSUME NEW v \in DOMAIN users, us[v].shop # NoShop
               PROVE  \E o \in ActiveOwners(us) : us[o].shop = us[v].shop
    BY <1>1 DEF Owned
  <2>1. us[v].shop = users[v].shop
    BY <1>2
  <2>2. PICK o \in ActiveOwners(users) : users[o].shop = users[v].shop
    BY <1>4, <2>1 DEF Owned
  <2>3. o \in ActiveOwners(us) /\ us[o].shop = users[o].shop
    BY <1>2, <1>4, <2>2 DEF ActiveOwners
  <2> QED
    BY <2>1, <2>2, <2>3
<1>5. ASSUME Owned(users), OtherOwners(u) # {} PROVE Owned(us)
  <2> SUFFICES ASSUME NEW v \in DOMAIN users, us[v].shop # NoShop
               PROVE  \E o \in ActiveOwners(us) : us[o].shop = us[v].shop
    BY <1>1 DEF Owned
  <2>1. us[v].shop = users[v].shop
    BY <1>2
  <2>2. PICK o \in ActiveOwners(users) \ {u} : users[o].shop = users[v].shop
    <3>1. CASE users[v].shop = users[u].shop
      BY <1>5, <3>1 DEF OtherOwners
    <3>2. CASE users[v].shop # users[u].shop
      <4>1. PICK x \in ActiveOwners(users) : users[x].shop = users[v].shop
        BY <1>5, <2>1 DEF Owned
      <4> QED
        BY <3>2, <4>1
    <3> QED
      BY <3>1, <3>2
  <2>3. o \in ActiveOwners(us) /\ us[o].shop = users[o].shop
    BY <1>1, <1>2, <2>2 DEF ActiveOwners
  <2> QED
    BY <2>1, <2>2, <2>3
<1> QED
  BY <1>1, <1>2, <1>3, <1>4, <1>5

\* The write of an update, with its stale guard of the last owner, keeps the staff sound.
LEMMA WriteSound == ASSUME NEW w \in Workers PROVE StaffInv /\ WriteStaff(w) => StaffInv'
<1> SUFFICES ASSUME StaffInv, WriteStaff(w) PROVE StaffInv'
  OBVIOUS
<1>1. PICK b : b = tx[w].body
  OBVIOUS
<1>2. /\ At(w, "write") /\ tokens' = tokens /\ bodies' = bodies
      /\ tx' = [tx EXCEPT ![w] = Idle]
  BY DEF WriteStaff, Finish, Becomes, bodyVars
<1>3. tx'[w] = Idle
  BY <1>2 DEF StaffInv, TxType
<1>4. BodiesOK'
  BY <1>2 DEF StaffInv, BodiesOK
<1>5. CASE b.role \in Roles \cup {""}
  <2>0. PICK read :
        /\ tx[w].seen = {read}
        /\ b.user \in DOMAIN users /\ users[b.user].shop # NoShop /\ b.active \in {"", "yes", "no"}
        /\ read.shop = users[b.user].shop /\ read.active \in BOOLEAN
        /\ "owners" \notin raced /\ tx[w].read.owners = changes.owners =>
             \/ IsActiveOwner(read) /\ ~LosesOwner(read, b)
             \/ OtherOwners(b.user) # {}
        /\ b.pin # NoPin /\ tx[w].read.pins = changes.pins =>
             ~PinTaken(b.pin, users[b.user].shop, b.user)
    BY <1>1, <1>2 DEF StaffInv, RequestOK, UpdateOK, At
  <2>1. PICK user : user = users[b.user]
    OBVIOUS
  <2>2. PICK row :
          row = [user EXCEPT
                  !.role = IF b.role # "" /\ b.role # read.role THEN b.role ELSE @,
                  !.active = IF b.active # "" /\ (b.active = "yes") # read.active THEN b.active = "yes" ELSE @,
                  !.pin = IF b.pin # NoPin THEN b.pin ELSE @]
    OBVIOUS
  <2>3. PICK us : us = [users EXCEPT ![b.user] = row]
    OBVIOUS
  <2>4. (CHOOSE u \in tx[w].seen : TRUE) = read
    BY <2>0
  <2>5. CommitStaff(w, us)
    <3>1. PICK x : x = [users EXCEPT ![b.user] = row]
      OBVIOUS
    <3>2. CommitStaff(w, x)
      BY <1>1, <1>5, <2>1, <2>2, <2>4, <3>1 DEF WriteStaff
    <3> QED
      BY <2>3, <3>1, <3>2
  <2>6. DOMAIN user = Columns /\ user.active \in BOOLEAN
    BY <2>0, <2>1 DEF StaffInv, UsersType
  <2>7. /\ DOMAIN row = Columns
        /\ row.shop = user.shop /\ row.branch = user.branch
        /\ row.role = IF b.role # "" /\ b.role # read.role THEN b.role ELSE user.role
        /\ row.active = IF b.active # "" /\ (b.active = "yes") # read.active THEN b.active = "yes"
                        ELSE user.active
        /\ row.pin = IF b.pin # NoPin THEN b.pin ELSE user.pin
    BY <2>2, <2>6 DEF Columns
  <2>8. row.active \in BOOLEAN
    BY <2>6, <2>7
  <2>9. /\ UsersType(us) /\ DOMAIN us = DOMAIN users
        /\ us[b.user] = row /\ \A v \in DOMAIN users : v # b.user => us[v] = users[v]
        /\ \A v \in DOMAIN users : us[v].shop = users[v].shop
        /\ Owned(users) /\ ActiveOwners(users) \subseteq ActiveOwners(us) => Owned(us)
        /\ Owned(users) /\ OtherOwners(b.user) # {} => Owned(us)
    BY <2>0, <2>1, <2>3, <2>7, <2>8, RowChanged DEF StaffInv
  <2>10. /\ StaffMoves /\ users' = us
         /\ "owners" \notin raced' =>
                /\ "owners" \notin raced
                /\ ActiveOwners(users) \subseteq ActiveOwners(us) \/ tx[w].read.owners = changes.owners
         /\ "pins" \notin raced' =>
                /\ "pins" \notin raced
                /\ \/ \A u \in DOMAIN us : us[u].pin = IF u \in DOMAIN users THEN users[u].pin ELSE NoPin
                   \/ tx[w].read.pins = changes.pins
    BY <2>5, <2>9, CommitTells
  <2>11. "owners" \notin raced' => Owned(us)
    <3> SUFFICES ASSUME "owners" \notin raced' PROVE Owned(us)
      OBVIOUS
    <3>1. Owned(users)
      BY <2>10 DEF StaffInv, StaffSound
    <3>2. CASE ActiveOwners(users) \subseteq ActiveOwners(us)
      BY <2>9, <3>1, <3>2
    <3>3. CASE OtherOwners(b.user) # {}
      BY <2>9, <3>1, <3>3
    <3>4. CASE IsActiveOwner(read) /\ ~LosesOwner(read, b)
      <4>1. read.role = "owner" /\ read.active = TRUE /\ b.role \in {"", "owner"} /\ b.active \in {"", "yes"}
        BY <2>0, <3>4 DEF IsActiveOwner, LosesOwner
      <4>2. row.role = user.role /\ row.active = user.active
        BY <2>7, <4>1
      <4>3. ActiveOwners(users) \subseteq ActiveOwners(us)
        BY <2>1, <2>9, <4>2 DEF ActiveOwners
      <4> QED
        BY <2>9, <3>1, <4>3
    <3> QED
      BY <2>0, <2>10, <3>2, <3>3, <3>4
  <2>12. "pins" \notin raced' => PinsApart(us)
    <3> SUFFICES ASSUME "pins" \notin raced', NEW u \in DOMAIN us, NEW v \in DOMAIN us, u # v,
                        us[u].shop = us[v].shop, us[u].pin = us[v].pin
                 PROVE  us[u].pin = NoPin
      BY DEF PinsApart
    <3>1. PinsApart(users)
      BY <2>10 DEF StaffInv, StaffSound
    <3>2. u \in DOMAIN users /\ v \in DOMAIN users /\ users[u].shop = users[v].shop
      BY <2>9
    <3>3. CASE \A x \in DOMAIN us : us[x].pin = IF x \in DOMAIN users THEN users[x].pin ELSE NoPin
      BY <3>1, <3>2, <3>3 DEF PinsApart
    <3>4. CASE tx[w].read.pins = changes.pins /\ b.pin # NoPin
      <4>1. ~PinTaken(b.pin, users[b.user].shop, b.user)
        BY <2>0, <3>4
      <4>2. row.pin = b.pin
        BY <2>7, <3>4
      <4>3. CASE u = b.user
        <5>1. us[v] = users[v] /\ users[v].shop = users[b.user].shop
          BY <2>9, <3>2, <4>3
        <5>2. users[v].pin # b.pin
          BY <4>1, <4>3, <5>1, <3>2 DEF PinTaken
        <5> QED
          BY <2>9, <4>2, <4>3, <5>1, <5>2
      <4>4. CASE v = b.user
        <5>1. us[u] = users[u] /\ users[u].shop = users[b.user].shop
          BY <2>9, <3>2, <4>4
        <5>2. users[u].pin # b.pin
          BY <4>1, <4>4, <5>1, <3>2 DEF PinTaken
        <5> QED
          BY <2>9, <4>2, <4>4, <5>1, <5>2
      <4>5. CASE u # b.user /\ v # b.user
        BY <2>9, <3>1, <3>2, <4>5 DEF PinsApart
      <4> QED
        BY <4>3, <4>4, <4>5
    <3>5. CASE b.pin = NoPin
      <4>1. \A x \in DOMAIN users : us[x].pin = users[x].pin
        BY <2>1, <2>7, <2>9, <3>5
      <4> QED
        BY <3>1, <3>2, <4>1 DEF PinsApart
    <3> QED
      BY <2>10, <3>3, <3>4, <3>5
  <2>13. RolesFit(us)
    <3>1. RolesFit(users)
      BY DEF StaffInv, StaffSound
    <3>2. user.role \in Roles /\ user.branch = NoBranch /\ user.shop # NoShop
      BY <2>0, <2>1, <3>1 DEF RolesFit
    <3>3. row.role \in Roles
      BY <1>5, <2>7, <3>2
    <3>4. row.role \in Roles /\ row.shop # NoShop /\ row.branch = NoBranch
      BY <2>7, <3>2, <3>3
    <3>5. \A u \in DOMAIN us : u = b.user \/ (u \in DOMAIN users /\ us[u] = users[u])
      BY <2>9
    <3>6. us[b.user] = row
      BY <2>9
    <3> HIDE DEF Roles
    <3> QED
      BY <3>1, <3>4, <3>5, <3>6 DEF RolesFit
  <2>14. StaffSound'
    BY <2>10, <2>11, <2>12, <2>13 DEF StaffSound
  <2>15. CountsType(changes') /\ UsersType(users)' /\ TokensOK'
    BY <1>2, <2>9, <2>10, TokensKept DEF StaffInv, StaffMoves
  <2>16. RequestOK(w)'
    BY <1>3, <2>15, IdleIsOK
  <2>17. TxType' /\ \A v \in Workers : RequestOK(v)'
    BY <1>2, <2>10, <2>16, OneMoves, BegunShape
  <2> QED
    BY <1>4, <2>14, <2>15, <2>17 DEF StaffInv
<1>6. CASE b.role \notin Roles \cup {""}
  <2>1. users' = users /\ changes' = changes /\ raced' = raced
    BY <1>1, <1>6 DEF WriteStaff
  <2>2. StaffMoves
    BY <2>1, StandingMoves
  <2>3. RequestOK(w)'
    BY <1>3, <2>1, IdleIsOK DEF StaffInv
  <2>4. TxType' /\ \A v \in Workers : RequestOK(v)'
    BY <1>2, <2>2, <2>3, OneMoves
  <2>5. StaffSound' /\ UsersType(users)' /\ CountsType(changes') /\ TokensOK'
    BY <1>2, <2>1, <2>2, TokensKept DEF StaffInv, StaffSound
  <2> QED
    BY <1>4, <2>4, <2>5 DEF StaffInv
<1> QED
  BY <1>5, <1>6

\* Steps that leave users, tokens and bodies alone: what remains is what the handler
\* has come to.
LEMMA StaffStays ==
    ASSUME StaffInv, UNCHANGED <<users, changes, raced, tokens, bodies>>,
           NEW w \in Workers, NEW r, tx' = [tx EXCEPT ![w] = r], DOMAIN r = DOMAIN Idle,
           r = Idle \/ RequestOK(w)'
    PROVE  StaffInv'
<1>1. StaffMoves
  BY StandingMoves
<1>2. BodiesOK' /\ StaffSound' /\ UsersType(users)' /\ CountsType(changes') /\ TokensOK'
  BY <1>1, TokensKept DEF StaffInv, StaffSound, BodiesOK
<1>3. RequestOK(w)'
  <2>1. tx'[w] = r
    BY DEF StaffInv, TxType
  <2> QED
    BY <2>1, <1>2, IdleIsOK
<1>4. TxType' /\ \A v \in Workers : RequestOK(v)'
  BY <1>1, <1>3, OneMoves
<1> QED
  BY <1>2, <1>4 DEF StaffInv

\* Who has a token of an owner is of a shop.
LEMMA OwnersHaveShops ==
    ASSUME StaffInv, NEW u, MayManageStaff(u)
    PROVE  u \in DOMAIN users /\ users[u].shop # NoShop
  BY DEF MayManageStaff, StaffInv, TokensOK

\* A create up to its hash: who asks is an owner, and the PIN is free now.
LEMMA CreateSound == ASSUME NEW w \in Workers PROVE StaffInv /\ CreateStaff(w) => StaffInv'
<1> SUFFICES ASSUME StaffInv, CreateStaff(w) PROVE StaffInv'
  OBVIOUS
<1>1. PICK b \in bodies :
        /\ MayManageStaff(b.by)
        /\ IF b.pin # NoPin /\ PinTaken(b.pin, users[b.by].shop, 0) THEN Finish(w)
           ELSE Becomes(w, Begun("insert", b))
        /\ UNCHANGED <<users, changes, raced, tokens, bodies>>
  BY DEF CreateStaff, staffVars, bodyVars
<1>2. CASE Finish(w)
  BY <1>1, <1>2, StaffStays, BegunShape DEF Finish, Becomes
<1>3. CASE ~(b.pin # NoPin /\ PinTaken(b.pin, users[b.by].shop, 0)) /\ Becomes(w, Begun("insert", b))
  <2>1. PICK r : r = Begun("insert", b)
    OBVIOUS
  <2>2. /\ DOMAIN r = DOMAIN Idle /\ r.step = "insert" /\ r.body = b /\ r.read = changes
        /\ tx' = [tx EXCEPT ![w] = r] /\ tx'[w] = r
    BY <1>3, <2>1, BegunShape DEF Becomes, StaffInv, TxType
  <2>3. b.by \in DOMAIN users /\ users[b.by].shop # NoShop
    BY <1>1, OwnersHaveShops
  <2>4. CountsType(changes) /\ changes.owners \in Nat /\ changes.pins \in Nat
    BY DEF StaffInv, CountsType
  <2>5. ReadOK(w)'
    BY <1>1, <2>2, <2>4 DEF ReadOK
  <2>6. InsertOK(w)'
    BY <1>1, <1>3, <2>2, <2>3 DEF InsertOK, PinTaken
  <2>7. UpdateOK(w)' /\ LoginOK(w)' /\ JoinOK(w)'
    BY <2>2 DEF UpdateOK, LoginOK, JoinOK, At
  <2>8. RequestOK(w)'
    BY <2>5, <2>6, <2>7 DEF RequestOK
  <2> QED
    BY <1>1, <2>2, <2>8, StaffStays
<1> QED
  BY <1>1, <1>2, <1>3

\* An update has read its row: an active owner's, or there is another.
LEMMA UpdateSound == ASSUME NEW w \in Workers PROVE StaffInv /\ UpdateStaff(w) => StaffInv'
<1> SUFFICES ASSUME StaffInv, UpdateStaff(w) PROVE StaffInv'
  OBVIOUS
<1>1. PICK b \in bodies :
        /\ b.do = "update" /\ MayManageStaff(b.by)
        /\ IF \/ b.user \notin DOMAIN users \/ users[b.user].shop # users[b.by].shop
              \/ b.user = b.by /\ b.active = "no"
           THEN Finish(w)
           ELSE Becomes(w, [Begun("check", b) EXCEPT !.seen = {users[b.user]}])
        /\ UNCHANGED <<users, changes, raced, tokens, bodies>>
  BY DEF UpdateStaff, Arrives, staffVars, bodyVars
<1>2. CASE Finish(w)
  BY <1>1, <1>2, StaffStays, BegunShape DEF Finish, Becomes
<1>3. CASE /\ b.user \in DOMAIN users /\ users[b.user].shop = users[b.by].shop
           /\ Becomes(w, [Begun("check", b) EXCEPT !.seen = {users[b.user]}])
  <2>0. PICK q : q = Begun("check", b)
    OBVIOUS
  <2>1. PICK r : r = [q EXCEPT !.seen = {users[b.user]}]
    OBVIOUS
  <2>2. /\ DOMAIN r = DOMAIN Idle /\ r.step = "check" /\ r.body = b /\ r.read = changes
        /\ r.seen = {users[b.user]}
        /\ tx' = [tx EXCEPT ![w] = r] /\ tx'[w] = r
    BY <1>3, <2>0, <2>1, BegunShape DEF Becomes, StaffInv, TxType
  <2>3. b.by \in DOMAIN users /\ users[b.by].shop # NoShop /\ users[b.user].shop # NoShop
    BY <1>1, <1>3, OwnersHaveShops
  <2>4. CountsType(changes) /\ changes.owners \in Nat /\ changes.pins \in Nat
    BY DEF StaffInv, CountsType
  <2>5. ReadOK(w)'
    BY <1>1, <2>2, <2>4 DEF ReadOK
  <2>6. UpdateOK(w)'
    <3>1. PICK row : row = users[b.user]
      OBVIOUS
    <3>2. row.active \in BOOLEAN /\ b.active \in {"", "yes", "no"}
      BY <1>1, <1>3, <3>1 DEF StaffInv, UsersType, BodiesOK
    <3>3. "owners" \notin raced => IsActiveOwner(row) \/ OtherOwners(b.user) # {}
      <4> SUFFICES ASSUME "owners" \notin raced, ~IsActiveOwner(row) PROVE OtherOwners(b.user) # {}
        OBVIOUS
      <4>1. Owned(users)
        BY DEF StaffInv, StaffSound
      <4>2. PICK v \in ActiveOwners(users) : users[v].shop = users[b.user].shop
        BY <1>3, <2>3, <4>1 DEF Owned
      <4>3. v # b.user
        BY <3>1, <4>2 DEF ActiveOwners, IsActiveOwner
      <4> QED
        BY <4>2, <4>3 DEF OtherOwners
    <3>4. OtherOwners(b.user)' = OtherOwners(b.user)
      BY <1>1 DEF OtherOwners
    <3>5. /\ tx'[w].seen = {row}
          /\ b.user \in DOMAIN users' /\ users'[b.user].shop # NoShop
          /\ row.shop = users'[b.user].shop
          /\ "owners" \notin raced' => IsActiveOwner(row) \/ OtherOwners(b.user)' # {}
      BY <1>1, <1>3, <2>2, <2>3, <3>1, <3>3, <3>4
    <3> QED
      BY <2>2, <3>2, <3>5 DEF UpdateOK, At
  <2>7. InsertOK(w)' /\ LoginOK(w)' /\ JoinOK(w)'
    BY <2>2 DEF InsertOK, LoginOK, JoinOK, At
  <2>8. RequestOK(w)'
    BY <2>5, <2>6, <2>7 DEF RequestOK
  <2> QED
    BY <1>1, <2>2, <2>8, StaffStays
<1> QED
  BY <1>1, <1>2, <1>3

\* The guard of the last owner passed: it holds now.
LEMMA CheckSound == ASSUME NEW w \in Workers PROVE StaffInv /\ CheckStaff(w) => StaffInv'
<1> SUFFICES ASSUME StaffInv, CheckStaff(w) PROVE StaffInv'
  OBVIOUS
<1>1. PICK t : t = tx[w]
  OBVIOUS
<1>2. PICK b : b = t.body
  OBVIOUS
<1>3. At(w, "check") /\ UNCHANGED <<users, changes, raced, tokens, bodies>>
  BY DEF CheckStaff, staffVars, bodyVars
<1>4. PICK row :
        /\ t.seen = {row}
        /\ b.user \in DOMAIN users /\ users[b.user].shop # NoShop /\ b.active \in {"", "yes", "no"}
        /\ row.shop = users[b.user].shop /\ row.active \in BOOLEAN
        /\ "owners" \notin raced /\ t.read.owners = changes.owners =>
             IsActiveOwner(row) \/ OtherOwners(b.user) # {}
  BY <1>1, <1>2, <1>3 DEF StaffInv, RequestOK, UpdateOK, At
<1>5. (CHOOSE u \in t.seen : TRUE) = row
  BY <1>4
<1>6. PICK others : others = {u \in ActiveOwners(users) \ {b.user} : users[u].shop = row.shop}
  OBVIOUS
<1>7. IF LosesOwner(row, b) /\ others = {} THEN Finish(w) ELSE Becomes(w, [t EXCEPT !.step = "scan"])
  BY <1>1, <1>2, <1>5, <1>6 DEF CheckStaff
<1>8. CASE Finish(w)
  BY <1>3, <1>8, StaffStays, BegunShape DEF Finish, Becomes
<1>9. CASE ~(LosesOwner(row, b) /\ others = {}) /\ Becomes(w, [t EXCEPT !.step = "scan"])
  <2>1. PICK r : r = [t EXCEPT !.step = "scan"]
    OBVIOUS
  <2>2. DOMAIN t = DOMAIN Idle /\ ReadOK(w)
    BY <1>1 DEF StaffInv, TxType, RequestOK
  <2>3. DOMAIN r = DOMAIN Idle /\ r.step = "scan" /\ r.body = b /\ r.seen = {row} /\ r.read = t.read
    BY <1>2, <1>4, <2>1, <2>2, BegunShape
  <2>4. tx' = [tx EXCEPT ![w] = r] /\ tx'[w] = r
    BY <1>9, <2>1 DEF Becomes, StaffInv, TxType
  <2>6. ReadOK(w)'
    BY <1>1, <1>3, <2>2, <2>3, <2>4 DEF ReadOK, CountsType
  <2>7. UpdateOK(w)'
    <3>1. others = OtherOwners(b.user)
      BY <1>4, <1>6 DEF OtherOwners
    <3>2. "owners" \notin raced /\ r.read.owners = changes.owners =>
             (IsActiveOwner(row) /\ ~LosesOwner(row, b)) \/ OtherOwners(b.user) # {}
      BY <1>4, <1>9, <2>3, <3>1
    <3>3. OtherOwners(b.user)' = OtherOwners(b.user)
      BY <1>3 DEF OtherOwners
    <3> QED
      BY <1>3, <1>4, <2>3, <2>4, <3>2, <3>3 DEF UpdateOK, At
  <2>8. InsertOK(w)' /\ LoginOK(w)' /\ JoinOK(w)'
    BY <2>3, <2>4 DEF InsertOK, LoginOK, JoinOK, At
  <2>9. RequestOK(w)'
    BY <2>6, <2>7, <2>8 DEF RequestOK
  <2> QED
    BY <1>3, <2>3, <2>4, <2>9, StaffStays
<1> QED
  BY <1>7, <1>8, <1>9

\* The guard of the PIN passed: it holds now, that of the last owner as it did.
LEMMA ScanSound == ASSUME NEW w \in Workers PROVE StaffInv /\ ScanPins(w) => StaffInv'
<1> SUFFICES ASSUME StaffInv, ScanPins(w) PROVE StaffInv'
  OBVIOUS
<1>1. PICK t : t = tx[w]
  OBVIOUS
<1>2. PICK b : b = t.body
  OBVIOUS
<1>3. At(w, "scan") /\ UNCHANGED <<users, changes, raced, tokens, bodies>>
  BY DEF ScanPins, staffVars, bodyVars
<1>4. PICK row :
        /\ t.seen = {row}
        /\ b.user \in DOMAIN users /\ users[b.user].shop # NoShop /\ b.active \in {"", "yes", "no"}
        /\ row.shop = users[b.user].shop /\ row.active \in BOOLEAN
        /\ "owners" \notin raced /\ t.read.owners = changes.owners =>
             (IsActiveOwner(row) /\ ~LosesOwner(row, b)) \/ OtherOwners(b.user) # {}
  BY <1>1, <1>2, <1>3 DEF StaffInv, RequestOK, UpdateOK, At
<1>5. (CHOOSE u \in t.seen : TRUE) = row
  BY <1>4
<1>7. IF b.pin # NoPin /\ PinTaken(b.pin, row.shop, b.user)
      THEN Finish(w) ELSE Becomes(w, [t EXCEPT !.step = "write", !.read.pins = changes.pins])
  BY <1>1, <1>2, <1>5 DEF ScanPins
<1>8. CASE Finish(w)
  BY <1>3, <1>8, StaffStays, BegunShape DEF Finish, Becomes
<1>9. CASE /\ ~(b.pin # NoPin /\ PinTaken(b.pin, row.shop, b.user))
           /\ Becomes(w, [t EXCEPT !.step = "write", !.read.pins = changes.pins])
  <2>1. PICK r : r = [t EXCEPT !.step = "write", !.read.pins = changes.pins]
    OBVIOUS
  <2>2. DOMAIN t = DOMAIN Idle /\ DOMAIN t.read = Counts /\ ReadOK(w)
    BY <1>1 DEF StaffInv, TxType, RequestOK, ReadOK, CountsType
  <2>3. /\ DOMAIN r = DOMAIN Idle /\ r.step = "write" /\ r.body = b /\ r.seen = {row}
        /\ DOMAIN r.read = Counts /\ r.read.owners = t.read.owners /\ r.read.pins = changes.pins
    BY <1>2, <1>4, <2>1, <2>2, BegunShape DEF Counts
  <2>4. tx' = [tx EXCEPT ![w] = r] /\ tx'[w] = r
    BY <1>9, <2>1 DEF Becomes, StaffInv, TxType
  <2>5. CountsType(changes) /\ changes.owners \in Nat /\ changes.pins \in Nat
    BY DEF StaffInv, CountsType
  <2>6. ReadOK(w)'
    BY <1>1, <1>3, <2>2, <2>3, <2>4, <2>5 DEF ReadOK, CountsType
  <2>7. UpdateOK(w)'
    <3>2. "owners" \notin raced /\ r.read.owners = changes.owners =>
             (IsActiveOwner(row) /\ ~LosesOwner(row, b)) \/ OtherOwners(b.user) # {}
      BY <1>4, <2>3
    <3>3. b.pin # NoPin => ~PinTaken(b.pin, users[b.user].shop, b.user)
      BY <1>4, <1>9
    <3>4. /\ OtherOwners(b.user)' = OtherOwners(b.user)
          /\ PinTaken(b.pin, users[b.user].shop, b.user)' = PinTaken(b.pin, users[b.user].shop, b.user)
      BY <1>3 DEF OtherOwners, PinTaken
    <3> QED
      BY <1>3, <1>4, <2>3, <2>4, <3>2, <3>3, <3>4 DEF UpdateOK, At
  <2>8. InsertOK(w)' /\ LoginOK(w)' /\ JoinOK(w)'
    BY <2>3, <2>4 DEF InsertOK, LoginOK, JoinOK, At
  <2>9. RequestOK(w)'
    BY <2>6, <2>7, <2>8 DEF RequestOK
  <2> QED
    BY <1>3, <2>3, <2>4, <2>9, StaffStays
<1> QED
  BY <1>7, <1>8, <1>9

\* A shop's number is none of NoShop.
LEMMA NewShop ==
    ASSUME UsersType(users)
    PROVE  1 + Cardinality({users[u].shop : u \in DOMAIN users} \ {NoShop}) # NoShop
<1> DEFINE S == {users[u].shop : u \in DOMAIN users}
<1>1. DOMAIN users = 1 .. Len(users) /\ Len(users) \in Nat
  BY LenProperties DEF UsersType
<1>2. IsFiniteSet(DOMAIN users)
  BY <1>1, FS_Interval
<1>3. IsFiniteSet(S)
  <2>1. PICK f : f = [u \in DOMAIN users |-> users[u].shop]
    OBVIOUS
  <2>2. IsFiniteSet({f[u] : u \in DOMAIN users})
    BY <1>2, ImageFinite
  <2>3. {f[u] : u \in DOMAIN users} = S
    BY <2>1
  <2> QED
    BY <2>2, <2>3
<1>4. S \ {NoShop} \in SUBSET S
  OBVIOUS
<1>5. Cardinality(S \ {NoShop}) \in Nat
  BY <1>3, <1>4, FS_Subset, FS_CardinalityType
<1>6. 1 + Cardinality(S \ {NoShop}) \in Nat
  BY <1>5
<1> HIDE DEF S
<1> QED
  BY <1>6, PeopleAssumption DEF S

\* A row without a PIN, of an owner or of no shop, comes to a sound table.
LEMMA NewcomerSound ==
    ASSUME StaffInv, NEW row, DOMAIN row = Columns, row.active = TRUE, row.pin = NoPin,
           IF row.role \in Roles THEN row.shop # NoShop /\ row.branch = NoBranch
           ELSE row.shop = NoShop /\ row.branch # NoBranch,
           row.role = "owner" \/ row.shop = NoShop,
           users' = Append(users, row), UNCHANGED <<changes, raced>>,
           NEW role, role = "owner" => row.role = "owner",
           tokens' = tokens \cup {[sub |-> Len(users) + 1, role |-> role]}
    PROVE  StaffMoves /\ UsersType(users)' /\ CountsType(changes') /\ StaffSound' /\ TokensOK'
<1>1. PICK us : us = Append(users, row)
  OBVIOUS
<1>0. row.active \in BOOLEAN
  OBVIOUS
<1>2. /\ UsersType(us) /\ DOMAIN us = DOMAIN users \cup {Len(users) + 1}
      /\ Len(users) + 1 \notin DOMAIN users
      /\ us[Len(users) + 1] = row
      /\ \A u \in DOMAIN users : us[u] = users[u]
  BY <1>0, <1>1, AppendRow DEF StaffInv
<1>3. /\ ActiveOwners(users) \subseteq ActiveOwners(us)
      /\ Owned(users) => Owned(us)
      /\ PinsApart(users) => PinsApart(us)
      /\ RolesFit(users) => RolesFit(us)
  BY <1>1, Grown DEF StaffInv
<1>4. StaffSound' /\ UsersType(users)' /\ CountsType(changes')
  BY <1>1, <1>2, <1>3 DEF StaffInv, StaffSound
<1>5. StaffMoves
  <2>1. changes.owners <= changes'.owners /\ changes.pins <= changes'.pins
    BY DEF StaffInv, CountsType
  <2> QED
    BY <1>1, <1>2, <1>3, <1>4, <2>1 DEF StaffMoves
<1>6. TokensOK'
  <2> SUFFICES ASSUME NEW t \in tokens'
               PROVE  t.sub \in DOMAIN users' /\ (t.role = "owner" => users'[t.sub].shop # NoShop)
    BY DEF TokensOK
  <2>1. CASE t \in tokens
    BY <2>1, <1>1, <1>2 DEF StaffInv, TokensOK
  <2>2. CASE t = [sub |-> Len(users) + 1, role |-> role]
    <3>1. t.role = "owner" => row.shop # NoShop
      BY <2>2 DEF Roles
    <3> QED
      BY <2>2, <3>1, <1>1, <1>2
  <2> QED
    BY <2>1, <2>2
<1> QED
  BY <1>4, <1>5, <1>6

\* A signup brings a shop with its owner.
LEMMA SignupSound == ASSUME NEW w \in Workers PROVE StaffInv /\ Signup(w) => StaffInv'
<1> SUFFICES ASSUME StaffInv, Signup(w) PROVE StaffInv'
  OBVIOUS
<1>1. PICK b, shop, row :
        /\ b \in bodies
        /\ shop = 1 + Cardinality({users[u].shop : u \in DOMAIN users} \ {NoShop})
        /\ row = User(shop, NoBranch, "owner", NoPin, b.email, b.secret)
        /\ IF EmailTaken(b.email) THEN UNCHANGED <<users, tokens>>
               ELSE /\ users' = Append(users, row)
                    /\ tokens' = tokens \cup {[sub |-> Len(users) + 1, role |-> "owner"]}
        /\ UNCHANGED <<changes, raced, tx, bodies>>
  BY DEF Signup, bodyVars
<1>2. CASE UNCHANGED <<users, tokens>>
  <2>1. StaffMoves
    BY <1>1, <1>2, StandingMoves
  <2>2. \A v \in Workers : RequestOK(v)'
    BY <1>1, <2>1, OthersKept DEF StaffInv
  <2> QED
    BY <1>1, <1>2, <2>1, <2>2, TokensKept DEF StaffInv, TxType, BodiesOK, StaffSound
<1>3. CASE /\ users' = Append(users, row)
           /\ tokens' = tokens \cup {[sub |-> Len(users) + 1, role |-> "owner"]}
  <2>1. shop # NoShop
    BY <1>1, NewShop DEF StaffInv
  <2>2. /\ DOMAIN row = Columns /\ row.active = TRUE /\ row.pin = NoPin /\ row.role = "owner"
        /\ row.shop # NoShop /\ row.branch = NoBranch
    BY <1>1, <2>1 DEF User, Columns
  <2>3. IF row.role \in Roles THEN row.shop # NoShop /\ row.branch = NoBranch
        ELSE row.shop = NoShop /\ row.branch # NoBranch
    BY <2>2 DEF Roles
  <2>4. StaffMoves /\ UsersType(users)' /\ CountsType(changes') /\ StaffSound' /\ TokensOK'
    BY <1>1, <1>3, <2>2, <2>3, NewcomerSound
  <2>5. \A v \in Workers : RequestOK(v)'
    BY <1>1, <2>4, OthersKept DEF StaffInv
  <2> QED
    BY <1>1, <2>4, <2>5 DEF StaffInv, TxType, BodiesOK
<1> QED
  BY <1>1, <1>2, <1>3

\* An owner is of a shop.
LEMMA OwnerOfAShop ==
    ASSUME NEW us, RolesFit(us), NEW u \in DOMAIN us, us[u].role = "owner"
    PROVE  us[u].shop # NoShop
  BY DEF RolesFit, Roles

\* A handler that has only read, and gone on to a step of no condition here.
LEMMA ReadSound ==
    ASSUME StaffInv, UNCHANGED <<users, changes, raced, tokens, bodies>>,
           NEW w \in Workers, NEW r, tx' = [tx EXCEPT ![w] = r], DOMAIN r = DOMAIN Idle,
           r.read = changes \/ r.read = tx[w].read,
           r.step \notin {"insert", "check", "scan", "write", "verify", "join", "open"}
    PROVE  StaffInv'
<1>1. tx'[w] = r
  BY DEF StaffInv, TxType
<1>2. CountsType(changes) /\ changes.owners \in Nat /\ changes.pins \in Nat /\ ReadOK(w)
  BY DEF StaffInv, CountsType, RequestOK
<1>3. ReadOK(w)'
  BY <1>1, <1>2 DEF ReadOK
<1>4. InsertOK(w)' /\ UpdateOK(w)' /\ LoginOK(w)' /\ JoinOK(w)'
  BY <1>1 DEF InsertOK, UpdateOK, LoginOK, JoinOK, At
<1> QED
  BY <1>3, <1>4, StaffStays DEF RequestOK

\* To finish keeps the staff sound.
LEMMA FinishSound ==
    ASSUME StaffInv, UNCHANGED <<users, changes, raced, tokens, bodies>>,
           NEW w \in Workers, Finish(w)
    PROVE  StaffInv'
  BY StaffStays, BegunShape DEF Finish, Becomes

\* Nor does what leaves the requests alone, too.
LEMMA StandingSound ==
    ASSUME StaffInv, UNCHANGED <<users, changes, raced, bodies, tx>>, TokensOK'
    PROVE  StaffInv'
<1>1. StaffMoves
  BY StandingMoves
<1>2. \A v \in Workers : RequestOK(v)'
  BY <1>1, OthersKept DEF StaffInv
<1> QED
  BY <1>2 DEF StaffInv, TxType, BodiesOK, StaffSound

\* A login reads candidates of shops and branches as their roles say.
LEMMA BeginSound == ASSUME NEW w \in Workers PROVE StaffInv /\ BeginLogin(w) => StaffInv'
<1> SUFFICES ASSUME StaffInv, BeginLogin(w) PROVE StaffInv'
  OBVIOUS
<1>1. UNCHANGED <<users, changes, raced, tokens, bodies>>
  BY DEF BeginLogin, staffVars, bodyVars
<1>2. PICK b, candidates :
        /\ b \in bodies
        /\ candidates \subseteq {[id |-> u, row |-> users[u]] : u \in DOMAIN users}
        /\ \/ Finish(w)
           \/ Becomes(w, [Begun("verify", b) EXCEPT !.seen = candidates])
  <2>1. PICK b \in bodies, l \in LoginLimiters :
          LET rows == {[id |-> u, row |-> users[u]] : u \in DOMAIN users}
              candidates == {c \in rows : IF l = "pin"
                                          THEN c.row.shop = b.shop /\ c.row.active /\ c.row.pin # NoPin
                                          ELSE c.row.email = b.email}
          IN  IF Blocked(l, failures[l], LimitKey(b), now) THEN Finish(w)
              ELSE Becomes(w, [Begun("verify", b) EXCEPT !.seen = candidates])
    BY DEF BeginLogin
  <2>2. PICK rows : rows = {[id |-> u, row |-> users[u]] : u \in DOMAIN users}
    OBVIOUS
  <2>3. PICK candidates :
          candidates = {c \in rows : IF l = "pin"
                                     THEN c.row.shop = b.shop /\ c.row.active /\ c.row.pin # NoPin
                                     ELSE c.row.email = b.email}
    OBVIOUS
  <2>4. Finish(w) \/ Becomes(w, [Begun("verify", b) EXCEPT !.seen = candidates])
    BY <2>1, <2>2, <2>3
  <2>5. candidates \subseteq rows
    BY <2>3
  <2> QED
    BY <2>2, <2>4, <2>5
<1>3. CASE Finish(w)
  BY <1>1, <1>3, FinishSound
<1>4. CASE Becomes(w, [Begun("verify", b) EXCEPT !.seen = candidates])
  <2>0. PICK q : q = Begun("verify", b)
    OBVIOUS
  <2>1. PICK r : r = [q EXCEPT !.seen = candidates]
    OBVIOUS
  <2>2. /\ DOMAIN r = DOMAIN Idle /\ r.step = "verify" /\ r.read = changes /\ r.seen = candidates
        /\ tx' = [tx EXCEPT ![w] = r] /\ tx'[w] = r
    BY <1>4, <2>0, <2>1, BegunShape DEF Becomes, StaffInv, TxType
  <2>3. CountsType(changes) /\ changes.owners \in Nat /\ changes.pins \in Nat /\ RolesFit(users)
    BY DEF StaffInv, CountsType, StaffSound
  <2>4. ReadOK(w)'
    BY <1>1, <2>2, <2>3 DEF ReadOK
  <2>5. \A c \in candidates : c.id \in DOMAIN users /\ (c.row.role = "owner" => users[c.id].shop # NoShop)
    BY <1>2, <2>3, OwnerOfAShop
  <2>6. LoginOK(w)'
    BY <1>1, <2>2, <2>5 DEF LoginOK
  <2>7. InsertOK(w)' /\ UpdateOK(w)' /\ JoinOK(w)'
    BY <2>2 DEF InsertOK, UpdateOK, JoinOK, At
  <2>8. RequestOK(w)'
    BY <2>4, <2>6, <2>7 DEF RequestOK
  <2> QED
    BY <1>1, <2>2, <2>8, StaffStays
<1> QED
  BY <1>2, <1>3, <1>4

\* A login answered issues a token of a candidate.
LEMMA AnswerSound == ASSUME NEW w \in Workers PROVE StaffInv /\ AnswerLogin(w) => StaffInv'
<1> SUFFICES ASSUME StaffInv, AnswerLogin(w) PROVE StaffInv'
  OBVIOUS
<1>1. At(w, "verify") /\ Finish(w) /\ UNCHANGED <<users, changes, raced, bodies>>
  BY DEF AnswerLogin, bodyVars
<1>2. \A t \in tokens' : t \in tokens \/ \E c \in tx[w].seen : t = [sub |-> c.id, role |-> c.row.role]
  <2>1. \/ UNCHANGED tokens
        \/ \E c \in tx[w].seen : tokens' = tokens \cup {[sub |-> c.id, role |-> c.row.role]}
    BY DEF AnswerLogin
  <2> QED
    BY <2>1
<1>3. TokensOK'
  <2> SUFFICES ASSUME NEW t \in tokens'
               PROVE  t.sub \in DOMAIN users /\ (t.role = "owner" => users[t.sub].shop # NoShop)
    BY <1>1 DEF TokensOK
  <2>1. LoginOK(w) /\ TokensOK
    BY DEF StaffInv, RequestOK
  <2> QED
    BY <1>1, <1>2, <2>1 DEF LoginOK, TokensOK
<1>4. StaffMoves
  BY <1>1, StandingMoves
<1>5. CountsType(changes')
  BY <1>1 DEF StaffInv
<1>6. RequestOK(w)'
  <2>1. tx'[w] = Idle
    BY <1>1 DEF Finish, Becomes, StaffInv, TxType
  <2> QED
    BY <1>5, <2>1, IdleIsOK
<1>7. TxType' /\ \A v \in Workers : RequestOK(v)'
  BY <1>1, <1>4, <1>6, OneMoves, BegunShape DEF Finish, Becomes
<1> QED
  BY <1>1, <1>3, <1>5, <1>7 DEF StaffInv, BodiesOK, StaffSound

\* A refresh issues a token of a row.
LEMMA RefreshSound == ASSUME NEW w \in Workers PROVE StaffInv /\ Refresh(w) => StaffInv'
<1> SUFFICES ASSUME StaffInv, Refresh(w) PROVE StaffInv'
  OBVIOUS
<1>1. PICK b \in bodies :
        /\ b.by \in DOMAIN users
        /\ tokens' = tokens \cup {[sub |-> b.by, role |-> users[b.by].role]}
        /\ UNCHANGED <<users, changes, raced, tx, bodies>>
  BY DEF Refresh, bodyVars
<1>2. TokensOK /\ RolesFit(users)
  BY DEF StaffInv, StaffSound
<1>3. users[b.by].role = "owner" => users[b.by].shop # NoShop
  BY <1>1, <1>2, OwnerOfAShop
<1>4. TokensOK'
  BY <1>1, <1>2, <1>3 DEF TokensOK
<1> QED
  BY <1>1, <1>4, StandingSound

\* A restart ends the requests.
LEMMA RestartSound == StaffInv /\ Restart => StaffInv'
<1> SUFFICES ASSUME StaffInv, Restart PROVE StaffInv'
  OBVIOUS
<1>1. UNCHANGED <<users, changes, raced, tokens, bodies>> /\ tx' = [w \in Workers |-> Idle]
  BY DEF Restart, staffVars
<1>2. CountsType(changes')
  BY <1>1 DEF StaffInv
<1>3. \A w \in Workers : tx'[w] = Idle
  BY <1>1
<1>4. \A w \in Workers : RequestOK(w)'
  BY <1>2, <1>3, IdleIsOK
<1>5. TxType'
  BY <1>1, <1>3 DEF TxType
<1> QED
  BY <1>1, <1>2, <1>4, <1>5 DEF StaffInv, TokensOK, BodiesOK, StaffSound

\* A champion's signup has a branch.
LEMMA JoinSound == ASSUME NEW w \in Workers PROVE StaffInv /\ JoinBranch(w) => StaffInv'
<1> SUFFICES ASSUME StaffInv, JoinBranch(w) PROVE StaffInv'
  OBVIOUS
<1>1. PICK b \in bodies, step \in {"join", "open"} :
        /\ b.do = "join" /\ Becomes(w, Begun(step, b))
        /\ UNCHANGED <<users, changes, raced, tokens, bodies>>
  BY DEF JoinBranch, Arrives, staffVars, bodyVars
<1>2. PICK r : r = Begun(step, b)
  OBVIOUS
<1>3. /\ DOMAIN r = DOMAIN Idle /\ r.step = step /\ r.body = b /\ r.read = changes
      /\ tx' = [tx EXCEPT ![w] = r] /\ tx'[w] = r
  BY <1>1, <1>2, BegunShape DEF Becomes, StaffInv, TxType
<1>4. CountsType(changes) /\ changes.owners \in Nat /\ changes.pins \in Nat /\ b.code # NoBranch
  <2>1. CountsType(changes) /\ BodiesOK
    BY DEF StaffInv
  <2>2. b.code # NoBranch
    BY <1>1, <2>1 DEF BodiesOK
  <2> QED
    BY <2>1, <2>2 DEF CountsType
<1>5. ReadOK(w)'
  BY <1>1, <1>3, <1>4 DEF ReadOK
<1>6. InsertOK(w)' /\ UpdateOK(w)' /\ LoginOK(w)' /\ JoinOK(w)'
  BY <1>3, <1>4 DEF InsertOK, UpdateOK, LoginOK, JoinOK, At
<1>7. RequestOK(w)'
  BY <1>5, <1>6 DEF RequestOK
<1> QED
  BY <1>1, <1>3, <1>7, StaffStays

\* A new branch keeps the code of its body.
LEMMA OpenSound == ASSUME NEW w \in Workers PROVE StaffInv /\ OpenBranch(w) => StaffInv'
<1> SUFFICES ASSUME StaffInv, OpenBranch(w) PROVE StaffInv'
  OBVIOUS
<1>1. At(w, "open") /\ UNCHANGED <<users, changes, raced, tokens, bodies>>
  BY DEF OpenBranch, staffVars, bodyVars
<1>2. Finish(w) \/ Becomes(w, [tx[w] EXCEPT !.step = "join", !.seen = {tx[w].body.code}])
  BY DEF OpenBranch
<1>3. CASE Finish(w)
  BY <1>1, <1>3, FinishSound
<1>4. CASE Becomes(w, [tx[w] EXCEPT !.step = "join", !.seen = {tx[w].body.code}])
  <2>1. PICK q : q = tx[w]
    OBVIOUS
  <2>2. PICK r : r = [q EXCEPT !.step = "join", !.seen = {q.body.code}]
    OBVIOUS
  <2>3. DOMAIN q = DOMAIN Idle /\ q.step = "open" /\ ReadOK(w) /\ JoinOK(w)
    BY <1>1, <2>1 DEF StaffInv, TxType, RequestOK, At
  <2>4. /\ DOMAIN r = DOMAIN Idle /\ r.step = "join" /\ r.body = q.body /\ r.read = q.read
        /\ tx' = [tx EXCEPT ![w] = r] /\ tx'[w] = r
    BY <1>4, <2>1, <2>2, <2>3, BegunShape DEF Becomes, StaffInv, TxType
  <2>5. ReadOK(w)'
    BY <1>1, <2>1, <2>3, <2>4 DEF ReadOK
  <2>6. q.body.code # NoBranch
    BY <2>1, <2>3 DEF JoinOK
  <2>7. InsertOK(w)' /\ UpdateOK(w)' /\ LoginOK(w)' /\ JoinOK(w)'
    BY <2>4, <2>6 DEF InsertOK, UpdateOK, LoginOK, JoinOK, At
  <2>8. RequestOK(w)'
    BY <2>5, <2>7 DEF RequestOK
  <2> QED
    BY <1>1, <2>4, <2>8, StaffStays
<1> QED
  BY <1>2, <1>3, <1>4

\* A champion is of a branch and of no shop.
LEMMA ChampionSound == ASSUME NEW w \in Workers PROVE StaffInv /\ CommitChampion(w) => StaffInv'
<1> SUFFICES ASSUME StaffInv, CommitChampion(w) PROVE StaffInv'
  OBVIOUS
<1>1. PICK b : b = tx[w].body
  OBVIOUS
<1>2. PICK row : row = User(NoShop, b.code, "branch_champion", NoPin, b.email, b.secret)
  OBVIOUS
<1>3. /\ At(w, "join") /\ Finish(w) /\ UNCHANGED <<changes, raced, bodies>>
      /\ \/ UNCHANGED <<users, tokens>>
         \/ /\ users' = Append(users, row)
            /\ tokens' = tokens \cup {[sub |-> Len(users) + 1, role |-> "branch_champion"]}
  BY <1>1, <1>2 DEF CommitChampion, bodyVars
<1>4. CASE UNCHANGED <<users, tokens>>
  BY <1>3, <1>4, FinishSound
<1>5. CASE /\ users' = Append(users, row)
           /\ tokens' = tokens \cup {[sub |-> Len(users) + 1, role |-> "branch_champion"]}
  <2>1. b.code # NoBranch
    BY <1>1, <1>3 DEF StaffInv, RequestOK, JoinOK, At
  <2>2. /\ DOMAIN row = Columns /\ row.active = TRUE /\ row.pin = NoPin
        /\ row.role = "branch_champion" /\ row.shop = NoShop /\ row.branch # NoBranch
    BY <1>2, <2>1 DEF User, Columns
  <2>3. IF row.role \in Roles THEN row.shop # NoShop /\ row.branch = NoBranch
        ELSE row.shop = NoShop /\ row.branch # NoBranch
    BY <2>2 DEF Roles
  <2>4. StaffMoves /\ UsersType(users)' /\ CountsType(changes') /\ StaffSound' /\ TokensOK'
    BY <1>3, <1>5, <2>2, <2>3, NewcomerSound
  <2>5. RequestOK(w)'
    <3>1. tx'[w] = Idle
      BY <1>3 DEF Finish, Becomes, StaffInv, TxType
    <3> QED
      BY <2>4, <3>1, IdleIsOK
  <2>6. TxType' /\ \A v \in Workers : RequestOK(v)'
    BY <1>3, <2>4, <2>5, OneMoves, BegunShape DEF Finish, Becomes
  <2> QED
    BY <1>3, <2>4, <2>6 DEF StaffInv, BodiesOK
<1> QED
  BY <1>3, <1>4, <1>5

\* Prospects and leads are read and written without a change of staff.
LEMMA RoundsSound ==
    ASSUME NEW w \in Workers
    PROVE  /\ StaffInv /\ (ReadProspect(w) \/ ReadLead(w)) => StaffInv'
           /\ StaffInv /\ (WriteProspect(w) \/ DeleteProspect(w) \/ WriteLead(w)) => StaffInv'
<1>1. ASSUME StaffInv, ReadProspect(w) \/ ReadLead(w) PROVE StaffInv'
  <2>1. UNCHANGED <<users, changes, raced, tokens, bodies>>
    BY <1>1 DEF ReadProspect, ReadLead, staffVars, bodyVars
  <2>2. CASE Finish(w)
    BY <1>1, <2>1, <2>2, FinishSound
  <2>3. ASSUME NEW s \in {"prospect", "lead"}, NEW b, NEW seen, NEW set,
               Becomes(w, [Begun(s, b) EXCEPT !.seen = seen, !.set = set])
        PROVE  StaffInv'
    <3>1. PICK q : q = Begun(s, b)
      OBVIOUS
    <3>2. PICK r : r = [q EXCEPT !.seen = seen, !.set = set]
      OBVIOUS
    <3>3. tx' = [tx EXCEPT ![w] = r] /\ DOMAIN r = DOMAIN Idle /\ r.step = s /\ r.read = changes
      BY <2>3, <3>1, <3>2, BegunShape DEF Becomes
    <3>4. r.step \notin {"insert", "check", "scan", "write", "verify", "join", "open"}
      BY <3>3
    <3> QED
      BY <1>1, <2>1, <3>3, <3>4, ReadSound
  <2> QED
    BY <1>1, <2>2, <2>3 DEF ReadProspect, ReadLead
<1>2. ASSUME StaffInv, WriteProspect(w) \/ DeleteProspect(w) \/ WriteLead(w) PROVE StaffInv'
  <2>1. Finish(w) /\ UNCHANGED <<users, changes, raced, tokens, bodies>>
    BY <1>2 DEF WriteProspect, DeleteProspect, WriteLead, staffVars, bodyVars
  <2> QED
    BY <1>2, <2>1, FinishSound
<1> QED
  BY <1>1, <1>2

\* Scenes start sound.
LEMMA InitSound == Init => StaffInv
<1> SUFFICES ASSUME Init PROVE StaffInv
  OBVIOUS
<1>1. PICK scene \in Scenes : InitAccounts(scene)
  BY DEF Init
<1>2. /\ users = scene.users /\ bodies = scene.bodies
      /\ tokens = {[sub |-> u, role |-> users[u].role] : u \in DOMAIN users}
      /\ changes = [owners |-> 0, pins |-> 0] /\ raced = {}
      /\ tx = [w \in Workers |-> Idle]
  BY <1>1 DEF InitAccounts
<1>3. UsersType(users) /\ Owned(users) /\ PinsApart(users) /\ RolesFit(users)
  <2>1. /\ users \in Seq({users[u] : u \in DOMAIN users})
        /\ \A u \in DOMAIN users : /\ users[u].active \in BOOLEAN
                                   /\ DOMAIN users[u] = DOMAIN User(NoShop, NoBranch, "", NoPin, NoEmail, "")
        /\ Owned(users) /\ PinsApart(users) /\ RolesFit(users)
    BY <1>2, ScenesAssumption
  <2>2. DOMAIN User(NoShop, NoBranch, "", NoPin, NoEmail, "") = Columns
    BY DEF User, Columns
  <2> QED
    BY <2>1, <2>2 DEF UsersType
<1>4. CountsType(changes)
  BY <1>2 DEF CountsType, Counts
<1>5. BodiesOK /\ StaffSound
  BY <1>2, <1>3, ScenesAssumption DEF BodiesOK, StaffSound
<1>6. TokensOK
  BY <1>2, <1>3, OwnerOfAShop DEF TokensOK
<1>7. \A w \in Workers : tx[w] = Idle
  BY <1>2
<1>8. TxType
  BY <1>2, <1>7 DEF TxType
<1>9. ASSUME NEW w \in Workers PROVE RequestOK(w)
  <2>1. PICK t : t = tx[w]
    OBVIOUS
  <2>2. t.step = "idle" /\ DOMAIN t.read = Counts /\ t.read.owners = 0 /\ t.read.pins = 0
    <3>1. t = Idle
      BY <1>7, <2>1
    <3> QED
      BY <3>1 DEF Idle, Counts
  <2>3. ReadOK(w)
    BY <1>2, <1>4, <2>1, <2>2 DEF ReadOK, CountsType
  <2>4. InsertOK(w) /\ UpdateOK(w) /\ LoginOK(w) /\ JoinOK(w)
    BY <2>1, <2>2 DEF InsertOK, UpdateOK, LoginOK, JoinOK, At
  <2> QED
    BY <2>3, <2>4 DEF RequestOK
<1> QED
  BY <1>3, <1>4, <1>5, <1>6, <1>8, <1>9 DEF StaffInv

\* Every step keeps the staff sound.
LEMMA StepStaff == StaffInv /\ [Next]_vars => StaffInv'
<1> SUFFICES ASSUME StaffInv, [Next]_vars PROVE StaffInv'
  OBVIOUS
<1>1. ASSUME UNCHANGED <<users, tokens, changes, raced, bodies, tx>> PROVE StaffInv'
  <2>1. TokensOK'
    BY <1>1 DEF StaffInv, TokensOK
  <2> QED
    BY <1>1, <2>1, StandingSound
<1>2. CASE UNCHANGED vars
  BY <1>1, <1>2 DEF vars, staffVars, bodyVars
<1>3. CASE NextAccounts
  <2>1. CASE Tick
    BY <1>1, <2>1 DEF Tick, staffVars
  <2>2. CASE Restart
    BY <2>2, RestartSound
  <2>3. ASSUME NEW w \in Workers,
               \/ CreateStaff(w) \/ InsertStaff(w)
               \/ UpdateStaff(w) \/ CheckStaff(w) \/ ScanPins(w) \/ WriteStaff(w)
        PROVE  StaffInv'
    BY <2>3, CreateSound, InsertSound, UpdateSound, CheckSound, ScanSound, WriteSound
  <2>4. ASSUME NEW w \in Workers, Signup(w) \/ BeginLogin(w) \/ AnswerLogin(w) \/ Refresh(w)
        PROVE  StaffInv'
    BY <2>4, SignupSound, BeginSound, AnswerSound, RefreshSound
  <2> QED
    BY <1>3, <2>1, <2>2, <2>3, <2>4 DEF NextAccounts
<1>4. ASSUME NEW w \in Workers, JoinBranch(w) \/ OpenBranch(w) \/ CommitChampion(w) PROVE StaffInv'
  BY <1>4, JoinSound, OpenSound, ChampionSound
<1>5. ASSUME NEW w \in Workers,
             \/ ReadProspect(w) \/ WriteProspect(w) \/ DeleteProspect(w) \/ ReadLead(w) \/ WriteLead(w)
      PROVE  StaffInv'
  BY <1>5, RoundsSound
<1>6. ASSUME NEW w \in Workers, CreateProspect(w) \/ PublicForm(w) PROVE StaffInv'
  BY <1>1, <1>6 DEF CreateProspect, PublicForm, staffVars, bodyVars
<1> QED
  BY <1>2, <1>3, <1>4, <1>5, <1>6 DEF Next

\* For any number of handlers, users and requests: a shop has an active owner unless two
\* requests that took owners away overlapped, its PINs differ unless two that set PINs
\* did, and an account is a shop's or a branch's as its role says (StaffSound).
THEOREM ShopsKeepOwners == Spec => []StaffSound
<1>1. Spec => []StaffInv
  BY InitSound, StepStaff, PTL DEF Spec
<1>2. StaffInv => StaffSound
  BY DEF StaffInv
<1> QED
  BY <1>1, <1>2, PTL

-----------------------------------------------------------------------------
(***************************************************************************)
(* The leaderboard.                                                        *)
(***************************************************************************)

Times == {"visited", "called", "met"}
Events(id, e) == {h \in happened : h.id = id /\ h.event = e}

\* A column holds the latest of its events, or 0 when there was none.
Latest(id, e, at) ==
    /\ \A h \in Events(id, e) : h.at <= at
    /\ at # 0 => \E h \in Events(id, e) : h.at = at

ProspectOK(p) ==
    LET row == prospects[p] IN
    /\ DOMAIN row = DOMAIN Prospect("") /\ row.version \in Nat /\ row.raced \in BOOLEAN
    /\ \A e \in Times : row[e] \in Nat /\ row[e] <= now
    /\ ~row.raced => \A e \in Times : Latest(p, e, row[e])

\* Its first answer is the only one.
LeadOK(i) ==
    LET row == leads[i] IN
    /\ DOMAIN row = DOMAIN Lead("", "", 0) /\ row.version \in Nat /\ row.raced \in BOOLEAN
    /\ row.responded \in Nat
    /\ ~row.raced => /\ \A h \in Events(i, "responded") : h.at = row.responded
                     /\ row.responded # 0 => Events(i, "responded") # {}

IsTable(rows) == rows \in Seq({rows[i] : i \in DOMAIN rows})

TablesOK ==
    /\ IsTable(prospects) /\ IsTable(leads)
    /\ \A p \in DOMAIN prospects : prospects[p] # NoRow => ProspectOK(p)
    /\ \A i \in DOMAIN leads : LeadOK(i)

NewsOK ==
    \A h \in happened : /\ h.event \in Times \cup {"responded"} => h.at \in Nat \ {0}
                        /\ h.event \in Times => h.id \in DOMAIN prospects
                        /\ h.event = "responded" => h.id \in DOMAIN leads

\* A handler has read the row as it is, or an older one by its version.
Stale(read, row) ==
    /\ read.version \in Nat
    /\ row # NoRow => /\ read.version <= row.version
                      /\ read.version = row.version => read = row

EventOf(b) == IF b.do = "visit" THEN "visited" ELSE b.status

OnProspect(w) ==
    At(w, "prospect") =>
      LET t == tx[w] IN
      \E read :
        /\ t.seen = {read} /\ t.body.id \in DOMAIN prospects
        /\ DOMAIN t.set \subseteq {"status", "visited", "contact", "called", "met", "interest"}
        /\ Stale(read, prospects[t.body.id])
        /\ \A e \in Times \cap DOMAIN t.set :
             /\ e = EventOf(t.body)
             /\ t.set[e] \in Nat \ {0} /\ t.set[e] <= now /\ read[e] <= t.set[e]

OnLead(w) ==
    At(w, "lead") =>
      LET t == tx[w] IN
      \E read :
        /\ t.seen = {read} /\ t.body.id \in DOMAIN leads
        /\ DOMAIN t.set \subseteq {"status", "responded"}
        /\ read.version \in Nat /\ read.version <= leads[t.body.id].version
        /\ read.version = leads[t.body.id].version => read = leads[t.body.id]
        /\ "responded" \in DOMAIN t.set => read.responded = 0 /\ t.set.responded \in Nat \ {0}

RoundsInv ==
    /\ TxType /\ now \in Nat \ {0} /\ TablesOK /\ NewsOK
    /\ \A w \in Workers : OnProspect(w) /\ OnLead(w)

\* What no step undoes: rows stay or are deleted, and a row that changes counts it.
RowsMove ==
    /\ now' \in Nat /\ now <= now'
    /\ DOMAIN prospects \subseteq DOMAIN prospects' /\ DOMAIN leads \subseteq DOMAIN leads'
    /\ \A p \in DOMAIN prospects :
         \/ prospects'[p] \in {prospects[p], NoRow}
         \/ prospects[p] # NoRow /\ prospects'[p].version = prospects[p].version + 1
    /\ \A i \in DOMAIN leads :
         leads'[i] = leads[i] \/ leads'[i].version = leads[i].version + 1

\* A handler whose step it is not finds its row as it was, or of a later version.
LEMMA OthersOnRows ==
    ASSUME RoundsInv, RowsMove, NEW v \in Workers, tx'[v] = tx[v]
    PROVE  OnProspect(v)' /\ OnLead(v)'
<1>1. PICK t : t = tx[v]
  OBVIOUS
<1>2. tx[v] = t /\ tx'[v] = t
  BY <1>1
<1>3. OnProspect(v)'
  <2> SUFFICES ASSUME t.step = "prospect" PROVE OnProspect(v)'
    BY <1>2 DEF OnProspect, At
  <2>1. PICK read :
        /\ t.seen = {read} /\ t.body.id \in DOMAIN prospects
        /\ DOMAIN t.set \subseteq {"status", "visited", "contact", "called", "met", "interest"}
        /\ Stale(read, prospects[t.body.id])
        /\ \A e \in Times \cap DOMAIN t.set :
             /\ e = EventOf(t.body)
             /\ t.set[e] \in Nat \ {0} /\ t.set[e] <= now /\ read[e] <= t.set[e]
    BY <1>2 DEF RoundsInv, OnProspect, At
  <2>2. PICK old, new : old = prospects[t.body.id] /\ new = prospects'[t.body.id]
    OBVIOUS
  <2>3. new = NoRow \/ new = old \/ (old # NoRow /\ new.version = old.version + 1)
    BY <2>1, <2>2 DEF RowsMove
  <2>4. old # NoRow => old.version \in Nat
    BY <2>1, <2>2 DEF RoundsInv, TablesOK, ProspectOK
  <2>5. Stale(read, new)
    BY <2>1, <2>2, <2>3, <2>4 DEF Stale
  <2>6. \A e \in Times \cap DOMAIN t.set : t.set[e] <= now'
    BY <2>1 DEF RowsMove, RoundsInv
  <2> QED
    BY <1>2, <2>1, <2>2, <2>5, <2>6 DEF OnProspect, RowsMove
<1>4. OnLead(v)'
  <2> SUFFICES ASSUME t.step = "lead" PROVE OnLead(v)'
    BY <1>2 DEF OnLead, At
  <2>1. PICK read :
        /\ t.seen = {read} /\ t.body.id \in DOMAIN leads
        /\ DOMAIN t.set \subseteq {"status", "responded"}
        /\ read.version \in Nat /\ read.version <= leads[t.body.id].version
        /\ read.version = leads[t.body.id].version => read = leads[t.body.id]
        /\ "responded" \in DOMAIN t.set => read.responded = 0 /\ t.set.responded \in Nat \ {0}
    BY <1>2 DEF RoundsInv, OnLead, At
  <2>2. PICK old, new : old = leads[t.body.id] /\ new = leads'[t.body.id]
    OBVIOUS
  <2>3. old.version \in Nat /\ (new = old \/ new.version = old.version + 1)
    BY <2>1, <2>2 DEF RowsMove, RoundsInv, TablesOK, LeadOK
  <2>4. read.version <= new.version /\ (read.version = new.version => read = new)
    BY <2>1, <2>2, <2>3
  <2> QED
    BY <1>2, <2>1, <2>2, <2>4 DEF OnLead, RowsMove
<1> QED
  BY <1>3, <1>4

\* A step of one handler, which ends where its own row allows.
LEMMA OneOnRows ==
    ASSUME RoundsInv, RowsMove, NEW w \in Workers, NEW r, tx' = [tx EXCEPT ![w] = r],
           DOMAIN r = DOMAIN Idle, OnProspect(w)' /\ OnLead(w)'
    PROVE  TxType' /\ \A v \in Workers : OnProspect(v)' /\ OnLead(v)'
<1>1. DOMAIN tx' = Workers /\ tx'[w] = r /\ \A v \in Workers : v # w => tx'[v] = tx[v]
  BY DEF RoundsInv, TxType
<1>2. TxType'
  BY <1>1 DEF RoundsInv, TxType
<1>3. ASSUME NEW v \in Workers, v # w PROVE OnProspect(v)' /\ OnLead(v)'
  BY <1>1, <1>3, OthersOnRows
<1> QED
  BY <1>2, <1>3

\* The tables alone are kept by time.
LEMMA TablesKept ==
    ASSUME RoundsInv, UNCHANGED <<prospects, leads, happened>>, now' \in Nat, now <= now'
    PROVE  TablesOK' /\ NewsOK'
<1>1. \A id, e : Events(id, e)' = Events(id, e)
  BY DEF Events
<1>2. \A id, e, at : Latest(id, e, at) => Latest(id, e, at)'
  BY DEF Latest, Events
<1>3. ASSUME NEW p \in DOMAIN prospects, ProspectOK(p) PROVE ProspectOK(p)'
  <2>1. PICK row : row = prospects[p]
    OBVIOUS
  <2>2. /\ DOMAIN row = DOMAIN Prospect("") /\ row.version \in Nat /\ row.raced \in BOOLEAN
        /\ \A e \in Times : row[e] \in Nat /\ row[e] <= now
        /\ ~row.raced => \A e \in Times : Latest(p, e, row[e])
    BY <1>3, <2>1 DEF ProspectOK
  <2>3. now \in Nat
    BY DEF RoundsInv
  <2>4. \A e \in Times : row[e] <= now'
    <3> TAKE e \in Times
    <3>1. PICK at : at = row[e]
      OBVIOUS
    <3>2. at \in Nat /\ at <= now
      BY <2>2, <3>1
    <3> QED
      BY <2>3, <3>1, <3>2
  <2>5. prospects'[p] = row
    BY <2>1
  <2>6. ~row.raced => \A e \in Times : Latest(p, e, row[e])'
    BY <2>2 DEF Latest, Events
  <2> HIDE DEF Times
  <2> QED
    BY <2>2, <2>4, <2>5, <2>6 DEF ProspectOK, Latest, Events
<1>4. ASSUME NEW i \in DOMAIN leads, LeadOK(i) PROVE LeadOK(i)'
  BY <1>4 DEF LeadOK, Events
<1>5. TablesOK'
  BY <1>3, <1>4 DEF RoundsInv, TablesOK
<1>6. NewsOK'
  BY DEF RoundsInv, NewsOK
<1> QED
  BY <1>5, <1>6

\* Steps that leave the tables alone, of a handler that reads no row of them.
LEMMA TurnsOnRows ==
    ASSUME RoundsInv, NEW w \in Workers, NEW S, Turns(w, S), S \cap {"prospect", "lead"} = {},
           UNCHANGED <<now, prospects, leads, happened>>
    PROVE  RoundsInv'
<1>1. PICK r : tx' = [tx EXCEPT ![w] = r] /\ DOMAIN r = DOMAIN Idle /\ r.step \in S
  BY DEF Turns
<1>2. RowsMove
  BY DEF RowsMove, RoundsInv
<1>3. tx'[w] = r
  BY <1>1 DEF RoundsInv, TxType
<1>4. OnProspect(w)' /\ OnLead(w)'
  BY <1>1, <1>3 DEF OnProspect, OnLead, At
<1>5. TxType' /\ \A v \in Workers : OnProspect(v)' /\ OnLead(v)'
  BY <1>1, <1>2, <1>4, OneOnRows
<1>6. TablesOK' /\ NewsOK'
  BY TablesKept DEF RoundsInv
<1> QED
  BY <1>5, <1>6 DEF RoundsInv

\* Steps that leave the requests and the tables alone; time may pass.
LEMMA RowsStand ==
    ASSUME RoundsInv, UNCHANGED <<prospects, leads, happened>>, now' \in Nat, now <= now',
           tx' = tx \/ tx' = [w \in Workers |-> Idle]
    PROVE  RoundsInv'
<1>1. RowsMove
  BY DEF RowsMove
<1>2. TablesOK' /\ NewsOK'
  BY TablesKept
<1>3. TxType' /\ \A v \in Workers : OnProspect(v)' /\ OnLead(v)'
  <2>1. CASE tx' = tx
    BY <1>1, <2>1, OthersOnRows DEF RoundsInv, TxType
  <2>2. CASE tx' = [w \in Workers |-> Idle]
    <3>1. \A v \in Workers : tx'[v] = Idle
      BY <2>2
    <3> QED
      BY <2>2, <3>1, BegunShape DEF TxType, OnProspect, OnLead, At
  <2> QED
    BY <2>1, <2>2
<1>4. now' \in Nat \ {0}
  BY DEF RoundsInv
<1> QED
  BY <1>2, <1>3, <1>4 DEF RoundsInv

\* A table in which a row has changed, or that has one row more.
LEMMA RowsOfSeq ==
    ASSUME NEW table, IsTable(table), NEW row, NEW new
    PROVE  /\ \A k \in DOMAIN table : new = [table EXCEPT ![k] = row] =>
                /\ IsTable(new) /\ DOMAIN new = DOMAIN table
                /\ new[k] = row /\ \A i \in DOMAIN table : i # k => new[i] = table[i]
<1> USE DEF IsTable
<1>0. DOMAIN table = 1 .. Len(table) /\ Len(table) \in Nat
  BY LenProperties
<1>1. ASSUME NEW k \in DOMAIN table, new = [table EXCEPT ![k] = row]
      PROVE  /\ new \in Seq({new[i] : i \in DOMAIN new}) /\ DOMAIN new = DOMAIN table
             /\ new[k] = row /\ \A i \in DOMAIN table : i # k => new[i] = table[i]
  <2>1. /\ DOMAIN new = 1 .. Len(table) /\ new = [i \in 1 .. Len(table) |-> new[i]]
        /\ new[k] = row /\ \A i \in DOMAIN table : i # k => new[i] = table[i]
    BY <1>0, <1>1
  <2>2. PICK R : R = {new[i] : i \in DOMAIN new}
    OBVIOUS
  <2>3. \A i \in 1 .. Len(table) : new[i] \in R
    BY <2>1, <2>2
  <2>4. new \in Seq(R)
    BY <1>0, <2>1, <2>3, IsASeq
  <2> QED
    BY <1>0, <2>1, <2>2, <2>4
<1> QED
  BY <1>1

\* A write counts itself, tells whether it was stale, and sets what differs.
LEMMA WrittenTells ==
    ASSUME NEW w, NEW read, tx[w].seen = {read},
           "version" \notin DOMAIN tx[w].set, "raced" \notin DOMAIN tx[w].set,
           NEW row, {"version", "raced"} \subseteq DOMAIN row,
           NEW new, new = Written(w, row)
    PROVE  /\ DOMAIN new = DOMAIN row /\ new.version = row.version + 1
           /\ new.raced = (row.raced \/ row.version # read.version)
           /\ \A c \in DOMAIN row \ {"version", "raced"} :
                new[c] = IF c \in DOMAIN tx[w].set /\ tx[w].set[c] # read[c] THEN tx[w].set[c] ELSE row[c]
<1>1. (CHOOSE r \in tx[w].seen : TRUE) = read
  OBVIOUS
<1>2. PICK changed : changed = {c \in DOMAIN tx[w].set : tx[w].set[c] # read[c]}
  OBVIOUS
<1>3. PICK f : f = [c \in DOMAIN row |-> IF c \in changed THEN tx[w].set[c] ELSE row[c]]
  OBVIOUS
<1>4. new = [f EXCEPT !.version = @ + 1, !.raced = @ \/ row.version # read.version]
  BY <1>1, <1>2, <1>3 DEF Written
<1>5. DOMAIN f = DOMAIN row /\ f.version = row.version /\ f.raced = row.raced
  BY <1>2, <1>3
<1> QED
  BY <1>2, <1>3, <1>4, <1>5

\* The columns that a handler of a prospect sets: at most one time, the present one.
LEMMA ProspectColumnsTell ==
    ASSUME NEW row, NEW b, b.do \in {"visit", "contact", "interest", "delete"},
           NEW set, set = ProspectColumns(row, b)
    PROVE  /\ DOMAIN set \subseteq {"status", "visited", "contact", "called", "met", "interest"}
           /\ \A e \in Times \cap DOMAIN set : e = EventOf(b) /\ set[e] = now
<1>1. CASE b.do = "visit"
  <2>1. set = [status |-> b.status, visited |-> now]
    BY <1>1 DEF ProspectColumns
  <2> QED
    BY <1>1, <2>1 DEF Times, EventOf
<1>2. CASE b.do = "contact"
  <2>1. set = ContactColumns(row, b.status)
    BY <1>2 DEF ProspectColumns
  <2>2. CASE b.status = "called"
    <3>1. set = [contact |-> "called", called |-> now]
      BY <2>1, <2>2 DEF ContactColumns
    <3> QED
      BY <1>2, <2>2, <3>1 DEF Times, EventOf
  <2>3. CASE b.status = "met"
    <3>1. set = [contact |-> "met", met |-> now]
      BY <2>1, <2>3 DEF ContactColumns
    <3> QED
      BY <1>2, <2>3, <3>1 DEF Times, EventOf
  <2>4. CASE b.status # "called" /\ b.status # "met"
    <3>1. set = [contact |-> b.status]
      BY <2>1, <2>4 DEF ContactColumns
    <3> QED
      BY <3>1 DEF Times
  <2> QED
    BY <2>2, <2>3, <2>4
<1>3. CASE b.do = "interest"
  <2>1. set = [interest |-> b.status]
    BY <1>3 DEF ProspectColumns
  <2> QED
    BY <2>1 DEF Times
<1>4. CASE b.do = "delete"
  <2>1. set = <<>>
    BY <1>4 DEF ProspectColumns
  <2> QED
    BY <2>1
<1> QED
  BY <1>1, <1>2, <1>3, <1>4

\* A handler has read a prospect: its row is that one, its time the present one.
LEMMA ReadProspectRows == ASSUME NEW w \in Workers PROVE RoundsInv /\ ReadProspect(w) => RoundsInv'
<1> SUFFICES ASSUME RoundsInv, ReadProspect(w) PROVE RoundsInv'
  OBVIOUS
<1>1. UNCHANGED <<now, prospects, leads, happened>>
  BY DEF ReadProspect, bodyVars, branchVars
<1>2. PICK b :
        /\ b.do \in {"visit", "contact", "interest", "delete"} /\ b.id \in DOMAIN prospects
        /\ IF prospects[b.id] = NoRow \/ prospects[b.id].branch # BranchOf(b) THEN Finish(w)
           ELSE Becomes(w, [Begun("prospect", b) EXCEPT !.seen = {prospects[b.id]},
                                                       !.set = ProspectColumns(prospects[b.id], b)])
  BY DEF ReadProspect, Arrives
<1>0. PICK row : row = prospects[b.id]
  OBVIOUS
<1>3. CASE Finish(w)
  <2>1. Turns(w, {"idle"})
    BY <1>3, BegunShape DEF Finish, Becomes, Turns
  <2> QED
    BY <1>1, <2>1, TurnsOnRows
<1>4. CASE /\ row # NoRow
           /\ Becomes(w, [Begun("prospect", b) EXCEPT !.seen = {row}, !.set = ProspectColumns(row, b)])
  <2>1. PICK q, set : q = Begun("prospect", b) /\ set = ProspectColumns(row, b)
    OBVIOUS
  <2>2. PICK r : r = [q EXCEPT !.seen = {row}, !.set = set]
    OBVIOUS
  <2>3. /\ DOMAIN r = DOMAIN Idle /\ r.step = "prospect" /\ r.body = b /\ r.seen = {row} /\ r.set = set
        /\ tx' = [tx EXCEPT ![w] = r] /\ tx'[w] = r
    BY <1>4, <2>1, <2>2, BegunShape DEF Becomes, RoundsInv, TxType
  <2>4. /\ DOMAIN set \subseteq {"status", "visited", "contact", "called", "met", "interest"}
        /\ \A e \in Times \cap DOMAIN set : e = EventOf(b) /\ set[e] = now
    BY <1>2, <2>1, ProspectColumnsTell
  <2>5. /\ row.version \in Nat /\ now \in Nat \ {0}
        /\ \A e \in Times : row[e] \in Nat /\ row[e] <= now
    BY <1>0, <1>2, <1>4 DEF RoundsInv, TablesOK, ProspectOK
  <2>6. Stale(row, row)
    BY <2>5 DEF Stale
  <2>7. \A e \in Times \cap DOMAIN set :
          e = EventOf(b) /\ set[e] \in Nat \ {0} /\ set[e] <= now /\ row[e] <= set[e]
    BY <2>4, <2>5
  <2>8. OnProspect(w)'
    BY <1>0, <1>1, <1>2, <2>3, <2>4, <2>6, <2>7 DEF OnProspect
  <2>9. OnLead(w)'
    BY <2>3 DEF OnLead, At
  <2>10. RowsMove
    BY <1>1, <2>5 DEF RowsMove
  <2>11. TxType' /\ \A v \in Workers : OnProspect(v)' /\ OnLead(v)'
    BY <2>3, <2>8, <2>9, <2>10, OneOnRows
  <2> QED
    BY <1>1, <2>5, <2>11, TablesKept DEF RoundsInv
<1> QED
  BY <1>0, <1>2, <1>3, <1>4

\* A handler has read a lead.
LEMMA ReadLeadRows == ASSUME NEW w \in Workers PROVE RoundsInv /\ ReadLead(w) => RoundsInv'
<1> SUFFICES ASSUME RoundsInv, ReadLead(w) PROVE RoundsInv'
  OBVIOUS
<1>1. UNCHANGED <<now, prospects, leads, happened>>
  BY DEF ReadLead, bodyVars, branchVars
<1>2. PICK b, row :
        /\ b.id \in DOMAIN leads /\ row = leads[b.id]
        /\ IF row.branch # BranchOf(b) THEN Finish(w)
           ELSE Becomes(w, [Begun("lead", b) EXCEPT !.seen = {row}, !.set = LeadColumns(row, b.status)])
  BY DEF ReadLead, Arrives
<1>3. CASE Finish(w)
  <2>1. Turns(w, {"idle"})
    BY <1>3, BegunShape DEF Finish, Becomes, Turns
  <2> QED
    BY <1>1, <2>1, TurnsOnRows
<1>4. CASE Becomes(w, [Begun("lead", b) EXCEPT !.seen = {row}, !.set = LeadColumns(row, b.status)])
  <2>1. PICK q, set : q = Begun("lead", b) /\ set = LeadColumns(row, b.status)
    OBVIOUS
  <2>2. PICK r : r = [q EXCEPT !.seen = {row}, !.set = set]
    OBVIOUS
  <2>3. /\ DOMAIN r = DOMAIN Idle /\ r.step = "lead" /\ r.body = b /\ r.seen = {row} /\ r.set = set
        /\ tx' = [tx EXCEPT ![w] = r] /\ tx'[w] = r
    BY <1>4, <2>1, <2>2, BegunShape DEF Becomes, RoundsInv, TxType
  <2>4. now \in Nat \ {0} /\ row.version \in Nat
    BY <1>2 DEF RoundsInv, TablesOK, LeadOK
  <2>5. /\ DOMAIN set \subseteq {"status", "responded"}
        /\ "responded" \in DOMAIN set => row.responded = 0 /\ set.responded \in Nat \ {0}
    <3>1. CASE row.responded = 0
      <4>1. set = [status |-> b.status, responded |-> now]
        BY <2>1, <3>1 DEF LeadColumns
      <4> QED
        BY <2>4, <3>1, <4>1
    <3>2. CASE row.responded # 0
      <4>1. set = [status |-> b.status]
        BY <2>1, <3>2 DEF LeadColumns
      <4> QED
        BY <4>1
    <3> QED
      BY <3>1, <3>2
  <2>6. OnLead(w)'
    BY <1>1, <1>2, <2>3, <2>4, <2>5 DEF OnLead
  <2>7. OnProspect(w)'
    BY <2>3 DEF OnProspect, At
  <2>8. RowsMove
    BY <1>1, <2>4 DEF RowsMove
  <2>9. TxType' /\ \A v \in Workers : OnProspect(v)' /\ OnLead(v)'
    BY <2>3, <2>6, <2>7, <2>8, OneOnRows
  <2> QED
    BY <1>1, <2>4, <2>9, TablesKept DEF RoundsInv
<1> QED
  BY <1>2, <1>3, <1>4

\* A handler is done, and the tables have moved: what remains is that they are in order.
LEMMA DoneOnRows ==
    ASSUME RoundsInv, RowsMove, NEW w \in Workers, Finish(w), now' = now, TablesOK', NewsOK'
    PROVE  RoundsInv'
<1>1. PICK r : r = Idle
  OBVIOUS
<1>2. DOMAIN r = DOMAIN Idle /\ tx' = [tx EXCEPT ![w] = r] /\ tx'[w].step = "idle"
  BY <1>1, BegunShape DEF Finish, Becomes, RoundsInv, TxType
<1>3. OnProspect(w)' /\ OnLead(w)'
  BY <1>2 DEF OnProspect, OnLead, At
<1>4. TxType' /\ \A v \in Workers : OnProspect(v)' /\ OnLead(v)'
  BY <1>2, <1>3, OneOnRows
<1> QED
  BY <1>4 DEF RoundsInv

\* Of a prospect whose row and events are as they were, nothing changes.
LEMMA ProspectKept ==
    ASSUME NEW p, ProspectOK(p), prospects'[p] = prospects[p], now' = now,
           \A e \in Times : Events(p, e)' = Events(p, e)
    PROVE  ProspectOK(p)'
<1>1. PICK row : row = prospects[p]
  OBVIOUS
<1>2. /\ DOMAIN row = DOMAIN Prospect("") /\ row.version \in Nat /\ row.raced \in BOOLEAN
      /\ \A e \in Times : row[e] \in Nat /\ row[e] <= now
      /\ ~row.raced => \A e \in Times : Latest(p, e, row[e])
  BY <1>1 DEF ProspectOK
<1>3. prospects'[p] = row
  BY <1>1
<1> HIDE DEF Times
<1> QED
  BY <1>2, <1>3 DEF ProspectOK, Latest

\* The same of a lead.
LEMMA LeadKept ==
    ASSUME NEW i, LeadOK(i), leads'[i] = leads[i], Events(i, "responded")' = Events(i, "responded")
    PROVE  LeadOK(i)'
  BY DEF LeadOK

\* A prospect is written: on a row that was never written stale, the column of the
\* event takes its time, which is the latest.
LEMMA WriteProspectRows == ASSUME NEW w \in Workers PROVE RoundsInv /\ WriteProspect(w) => RoundsInv'
<1> SUFFICES ASSUME RoundsInv, WriteProspect(w) PROVE RoundsInv'
  OBVIOUS
<1>1. PICK t, b, p : t = tx[w] /\ b = t.body /\ p = b.id
  OBVIOUS
<1>2. /\ At(w, "prospect") /\ Finish(w) /\ now' = now /\ leads' = leads
      /\ IF prospects[p] = NoRow THEN UNCHANGED <<prospects, happened>>
         ELSE /\ prospects' = [prospects EXCEPT ![p] = Written(w, @)]
              /\ Did(b, t.set, {EventOf(b)})
  BY <1>1 DEF WriteProspect, bodyVars, EventOf
<1>3. CASE prospects[p] = NoRow
  <2>1. Turns(w, {"idle"})
    BY <1>2, BegunShape DEF Finish, Becomes, Turns
  <2> QED
    BY <1>2, <1>3, <2>1, TurnsOnRows
<1>4. CASE prospects[p] # NoRow
  <2>1. PICK read :
        /\ t.seen = {read} /\ p \in DOMAIN prospects
        /\ DOMAIN t.set \subseteq {"status", "visited", "contact", "called", "met", "interest"}
        /\ Stale(read, prospects[p])
        /\ \A e \in Times \cap DOMAIN t.set :
             /\ e = EventOf(b)
             /\ t.set[e] \in Nat \ {0} /\ t.set[e] <= now /\ read[e] <= t.set[e]
    BY <1>1, <1>2 DEF RoundsInv, OnProspect, At
  <2>2. PICK row, new : row = prospects[p] /\ new = Written(w, row)
    OBVIOUS
  <2>3. /\ DOMAIN row = DOMAIN Prospect("") /\ row.version \in Nat /\ row.raced \in BOOLEAN
        /\ \A e \in Times : row[e] \in Nat /\ row[e] <= now
        /\ ~row.raced => \A e \in Times : Latest(p, e, row[e])
    BY <1>4, <2>1, <2>2 DEF RoundsInv, TablesOK, ProspectOK
  <2>4. {"version", "raced"} \cup Times \subseteq DOMAIN row
    BY <2>3 DEF Prospect, Times
  <2>5. /\ DOMAIN new = DOMAIN row /\ new.version = row.version + 1
        /\ new.raced = (row.raced \/ row.version # read.version)
        /\ \A e \in Times :
             new[e] = IF e \in DOMAIN t.set /\ t.set[e] # read[e] THEN t.set[e] ELSE row[e]
    <3>1. "version" \notin DOMAIN tx[w].set /\ "raced" \notin DOMAIN tx[w].set
      BY <1>1, <2>1
    <3>2. {"version", "raced"} \subseteq DOMAIN row
      BY <2>4
    <3>3. tx[w].seen = {read}
      BY <1>1, <2>1
    <3>4. /\ DOMAIN new = DOMAIN row /\ new.version = row.version + 1
          /\ new.raced = (row.raced \/ row.version # read.version)
          /\ \A c \in DOMAIN row \ {"version", "raced"} :
                new[c] = IF c \in DOMAIN tx[w].set /\ tx[w].set[c] # read[c] THEN tx[w].set[c] ELSE row[c]
      BY <2>2, <3>1, <3>2, <3>3, WrittenTells
    <3>5. Times \subseteq DOMAIN row \ {"version", "raced"}
      BY <2>4 DEF Times
    <3> QED
      BY <1>1, <3>4, <3>5
  <2>6. /\ IsTable(prospects')
        /\ DOMAIN prospects' = DOMAIN prospects
        /\ prospects'[p] = new /\ \A x \in DOMAIN prospects : x # p => prospects'[x] = prospects[x]
    <3>1. PICK table : table = prospects'
      OBVIOUS
    <3>2. table = [prospects EXCEPT ![p] = new]
      BY <1>2, <1>4, <2>2, <3>1
    <3>3. IsTable(prospects)
      BY DEF RoundsInv, TablesOK
    <3>4. /\ IsTable(table) /\ DOMAIN table = DOMAIN prospects
          /\ table[p] = new /\ \A x \in DOMAIN prospects : x # p => table[x] = prospects[x]
      BY <2>1, <3>2, <3>3, RowsOfSeq
    <3> QED
      BY <3>1, <3>4
  <2>7. happened' = happened \cup {[event |-> e, id |-> p, at |-> t.set[e]] : e \in DOMAIN t.set \cap {EventOf(b)}}
    BY <1>1, <1>2, <1>4 DEF Did
  <2>8. \A h : h \in happened' <=>
          \/ h \in happened
          \/ EventOf(b) \in DOMAIN t.set /\ h = [event |-> EventOf(b), id |-> p, at |-> t.set[EventOf(b)]]
    BY <2>7
  <2>9. RowsMove
    BY <1>2, <1>4, <2>2, <2>5, <2>6 DEF RowsMove, RoundsInv
  <2>10. NewsOK'
    <3> SUFFICES ASSUME NEW h \in happened'
                 PROVE  /\ h.event \in Times \cup {"responded"} => h.at \in Nat \ {0}
                        /\ h.event \in Times => h.id \in DOMAIN prospects'
                        /\ h.event = "responded" => h.id \in DOMAIN leads'
      BY DEF NewsOK
    <3>1. CASE h \in happened
      BY <1>2, <2>6, <3>1 DEF RoundsInv, NewsOK
    <3>2. CASE EventOf(b) \in DOMAIN t.set /\ h = [event |-> EventOf(b), id |-> p, at |-> t.set[EventOf(b)]]
      <4>1. EventOf(b) # "responded"
        BY <2>1, <3>2
      <4>2. EventOf(b) \in Times => t.set[EventOf(b)] \in Nat \ {0}
        BY <2>1, <3>2
      <4> QED
        BY <2>1, <2>6, <3>2, <4>1, <4>2
    <3> QED
      BY <2>8, <3>1, <3>2
  <2>11. ProspectOK(p)'
    <3>0. new.raced \in BOOLEAN
      <4>1. (row.raced \/ row.version # read.version) \in BOOLEAN
        OBVIOUS
      <4> QED
        BY <2>5, <4>1, Zenon
    <3>1. new.version \in Nat /\ new.raced \in BOOLEAN /\ DOMAIN new = DOMAIN Prospect("")
      <4>1. new.version = row.version + 1 /\ DOMAIN new = DOMAIN row
        BY <2>5
      <4>2. row.version \in Nat /\ DOMAIN row = DOMAIN Prospect("")
        BY <2>3
      <4>3. new.version \in Nat
        <5>1. PICK n : n = row.version
          OBVIOUS
        <5>2. n \in Nat /\ new.version = n + 1
          BY <4>1, <4>2, <5>1
        <5> QED
          BY <5>2
      <4> QED
        BY <3>0, <4>1, <4>2, <4>3
    <3>2. ASSUME NEW e \in Times PROVE new[e] \in Nat /\ new[e] <= now
      BY <2>1, <2>3, <2>5
    <3>3. ASSUME ~new.raced, NEW e \in Times PROVE Latest(p, e, new[e])'
      <4>1. ~row.raced /\ read = row
        BY <1>4, <2>1, <2>2, <2>5, <3>3 DEF Stale
      <4>2. Latest(p, e, row[e]) /\ row[e] \in Nat
        BY <2>3, <4>1
      <4>3. CASE e \in DOMAIN t.set
        <5>1. e = EventOf(b) /\ t.set[e] \in Nat \ {0} /\ row[e] <= t.set[e]
          BY <2>1, <4>1, <4>3
        <5>2. new[e] = t.set[e]
          BY <2>5, <4>1, <4>3
        <5>3. PICK h : h = [event |-> e, id |-> p, at |-> t.set[e]]
          OBVIOUS
        <5>4. h \in Events(p, e)' /\ h.at = t.set[e]
          BY <2>8, <4>3, <5>1, <5>3 DEF Events
        <5>5. \A x \in Events(p, e)' : x = h \/ x \in Events(p, e)
          BY <2>8, <5>1, <5>3 DEF Events
        <5>6. \A x \in Events(p, e) : x.at \in Nat /\ x.at <= row[e]
          BY <4>2 DEF Latest, RoundsInv, NewsOK, Events
        <5>7. \A x \in Events(p, e)' : x.at <= t.set[e]
          BY <4>2, <5>1, <5>4, <5>5, <5>6
        <5> QED
          BY <5>2, <5>4, <5>7 DEF Latest
      <4>4. CASE e \notin DOMAIN t.set
        <5>1. new[e] = row[e]
          BY <2>5, <4>4
        <5>2. Events(p, e)' = Events(p, e)
          BY <2>8, <4>4 DEF Events
        <5> QED
          BY <4>2, <5>1, <5>2 DEF Latest
      <4> QED
        BY <4>3, <4>4
    <3> HIDE DEF Times
    <3> QED
      BY <1>2, <2>6, <3>1, <3>2, <3>3 DEF ProspectOK, Latest
  <2>12. TablesOK'
    <3>1. ASSUME NEW x \in DOMAIN prospects, x # p, prospects[x] # NoRow PROVE ProspectOK(x)'
      <4>1. \A e \in Times : Events(x, e)' = Events(x, e)
        BY <2>8, <3>1 DEF Events
      <4>2. ProspectOK(x)
        BY <3>1 DEF RoundsInv, TablesOK
      <4> QED
        BY <1>2, <2>6, <3>1, <4>1, <4>2, ProspectKept
    <3>2. ASSUME NEW i \in DOMAIN leads PROVE LeadOK(i)'
      <4>1. Events(i, "responded")' = Events(i, "responded")
        BY <2>1, <2>8 DEF Events
      <4>2. LeadOK(i)
        BY DEF RoundsInv, TablesOK
      <4> QED
        BY <1>2, <4>1, <4>2, LeadKept
    <3>3. IsTable(prospects)' /\ IsTable(leads)'
      BY <1>2, <2>6 DEF RoundsInv, TablesOK
    <3>4. \A x \in DOMAIN prospects' : prospects'[x] # NoRow => ProspectOK(x)'
      BY <2>6, <2>11, <3>1
    <3> QED
      BY <1>2, <3>2, <3>3, <3>4 DEF TablesOK
  <2> QED
    BY <1>2, <2>9, <2>10, <2>12, DoneOnRows
<1> QED
  BY <1>3, <1>4

\* A lead is written: on a row that was never written stale, only the first answer
\* sets its time, and only that is an event.
LEMMA WriteLeadRows == ASSUME NEW w \in Workers PROVE RoundsInv /\ WriteLead(w) => RoundsInv'
<1> SUFFICES ASSUME RoundsInv, WriteLead(w) PROVE RoundsInv'
  OBVIOUS
<1>1. PICK t, b, i : t = tx[w] /\ b = t.body /\ i = b.id
  OBVIOUS
<1>2. /\ At(w, "lead") /\ Finish(w) /\ now' = now /\ prospects' = prospects
      /\ leads' = [leads EXCEPT ![i] = Written(w, @)]
      /\ Did(b, t.set, {"responded"})
  BY <1>1 DEF WriteLead, bodyVars
<1>3. PICK read :
        /\ t.seen = {read} /\ i \in DOMAIN leads
        /\ DOMAIN t.set \subseteq {"status", "responded"}
        /\ read.version \in Nat /\ read.version <= leads[i].version
        /\ read.version = leads[i].version => read = leads[i]
        /\ "responded" \in DOMAIN t.set => read.responded = 0 /\ t.set.responded \in Nat \ {0}
  BY <1>1, <1>2 DEF RoundsInv, OnLead, At
<1>4. PICK row, new : row = leads[i] /\ new = Written(w, row)
  OBVIOUS
<1>5. /\ DOMAIN row = DOMAIN Lead("", "", 0) /\ row.version \in Nat /\ row.raced \in BOOLEAN
      /\ row.responded \in Nat
      /\ ~row.raced => /\ \A h \in Events(i, "responded") : h.at = row.responded
                       /\ row.responded # 0 => Events(i, "responded") # {}
  BY <1>3, <1>4 DEF RoundsInv, TablesOK, LeadOK
<1>6. {"version", "raced", "responded"} \subseteq DOMAIN row
  BY <1>5 DEF Lead
<1>7. /\ DOMAIN new = DOMAIN row /\ new.version = row.version + 1
      /\ new.raced = (row.raced \/ row.version # read.version)
      /\ new.responded = IF "responded" \in DOMAIN t.set /\ t.set.responded # read.responded
                         THEN t.set.responded ELSE row.responded
  <2>1. "version" \notin DOMAIN tx[w].set /\ "raced" \notin DOMAIN tx[w].set
    BY <1>1, <1>3
  <2>2. tx[w].seen = {read}
    BY <1>1, <1>3
  <2>3. {"version", "raced"} \subseteq DOMAIN row /\ "responded" \in DOMAIN row \ {"version", "raced"}
    BY <1>6
  <2>4. /\ DOMAIN new = DOMAIN row /\ new.version = row.version + 1
        /\ new.raced = (row.raced \/ row.version # read.version)
        /\ \A c \in DOMAIN row \ {"version", "raced"} :
             new[c] = IF c \in DOMAIN tx[w].set /\ tx[w].set[c] # read[c] THEN tx[w].set[c] ELSE row[c]
    BY <1>4, <2>1, <2>2, <2>3, WrittenTells
  <2> QED
    BY <1>1, <2>3, <2>4
<1>8. /\ IsTable(leads') /\ DOMAIN leads' = DOMAIN leads
      /\ leads'[i] = new /\ \A x \in DOMAIN leads : x # i => leads'[x] = leads[x]
  <2>1. PICK table : table = leads'
    OBVIOUS
  <2>2. table = [leads EXCEPT ![i] = new]
    BY <1>2, <1>4, <2>1
  <2>3. IsTable(leads)
    BY DEF RoundsInv, TablesOK
  <2>4. /\ IsTable(table) /\ DOMAIN table = DOMAIN leads
        /\ table[i] = new /\ \A x \in DOMAIN leads : x # i => table[x] = leads[x]
    BY <1>3, <2>2, <2>3, RowsOfSeq
  <2> QED
    BY <2>1, <2>4
<1>9. happened' = happened \cup {[event |-> e, id |-> i, at |-> t.set[e]] : e \in DOMAIN t.set \cap {"responded"}}
  BY <1>1, <1>2 DEF Did
<1>10. \A h : h \in happened' <=>
         \/ h \in happened
         \/ "responded" \in DOMAIN t.set /\ h = [event |-> "responded", id |-> i, at |-> t.set.responded]
  BY <1>9
<1>11. RowsMove
  BY <1>2, <1>3, <1>4, <1>7, <1>8 DEF RowsMove, RoundsInv
<1>12. NewsOK'
  <2> SUFFICES ASSUME NEW h \in happened'
               PROVE  /\ h.event \in Times \cup {"responded"} => h.at \in Nat \ {0}
                      /\ h.event \in Times => h.id \in DOMAIN prospects'
                      /\ h.event = "responded" => h.id \in DOMAIN leads'
    BY DEF NewsOK
  <2>1. CASE h \in happened
    BY <1>2, <1>8, <2>1 DEF RoundsInv, NewsOK
  <2>2. CASE "responded" \in DOMAIN t.set /\ h = [event |-> "responded", id |-> i, at |-> t.set.responded]
    BY <1>3, <1>8, <2>2 DEF Times
  <2> QED
    BY <1>10, <2>1, <2>2
<1>13. LeadOK(i)'
  <2>1. new.version \in Nat /\ new.responded \in Nat /\ DOMAIN new = DOMAIN Lead("", "", 0)
    <3>1. /\ new.version = row.version + 1 /\ DOMAIN new = DOMAIN row
          /\ new.responded \in {t.set.responded, row.responded}
          /\ new.responded = row.responded \/ "responded" \in DOMAIN t.set
      BY <1>7
    <3>2. row.version \in Nat /\ DOMAIN row = DOMAIN Lead("", "", 0) /\ row.responded \in Nat
      BY <1>5
    <3>3. "responded" \in DOMAIN t.set => t.set.responded \in Nat
      BY <1>3
    <3>4. PICK n : n = row.version
      OBVIOUS
    <3>5. n \in Nat /\ new.version = n + 1
      BY <3>1, <3>2, <3>4
    <3>6. new.version \in Nat
      BY <3>5
    <3> QED
      BY <3>1, <3>2, <3>3, <3>6
  <2>2. new.raced \in BOOLEAN
    <3>1. (row.raced \/ row.version # read.version) \in BOOLEAN
      OBVIOUS
    <3> QED
      BY <1>7, <3>1, Zenon
  <2>3. ASSUME ~new.raced
        PROVE  /\ \A h \in Events(i, "responded")' : h.at = new.responded
               /\ new.responded # 0 => Events(i, "responded")' # {}
    <3>1. ~row.raced /\ read = row
      BY <1>3, <1>4, <1>7, <2>3
    <3>2. CASE "responded" \in DOMAIN t.set
      <4>1. row.responded = 0 /\ t.set.responded \in Nat \ {0} /\ new.responded = t.set.responded
        BY <1>3, <1>7, <3>1, <3>2
      <4>2. \A h \in Events(i, "responded") : h.at = 0 /\ h.at # 0
        BY <1>5, <3>1, <4>1 DEF RoundsInv, NewsOK, Events
      <4>3. PICK h : h = [event |-> "responded", id |-> i, at |-> t.set.responded]
        OBVIOUS
      <4>4. \A x : x \in Events(i, "responded")' <=> x = h
        BY <1>10, <3>2, <4>2, <4>3 DEF Events
      <4> QED
        BY <4>1, <4>3, <4>4
    <3>3. CASE "responded" \notin DOMAIN t.set
      <4>1. new.responded = row.responded
        BY <1>7, <3>3
      <4>2. Events(i, "responded")' = Events(i, "responded")
        BY <1>10, <3>3 DEF Events
      <4> QED
        BY <1>5, <3>1, <4>1, <4>2
    <3> QED
      BY <3>2, <3>3
  <2> QED
    BY <1>8, <2>1, <2>2, <2>3 DEF LeadOK
<1>14. TablesOK'
  <2>1. ASSUME NEW p \in DOMAIN prospects, prospects[p] # NoRow PROVE ProspectOK(p)'
    <3>1. \A e \in Times : Events(p, e)' = Events(p, e)
      BY <1>10 DEF Events, Times
    <3>2. ProspectOK(p)
      BY <2>1 DEF RoundsInv, TablesOK
    <3> QED
      BY <1>2, <3>1, <3>2, ProspectKept
  <2>2. ASSUME NEW x \in DOMAIN leads, x # i PROVE LeadOK(x)'
    <3>1. Events(x, "responded")' = Events(x, "responded")
      BY <1>10, <2>2 DEF Events
    <3>2. LeadOK(x)
      BY DEF RoundsInv, TablesOK
    <3> QED
      BY <1>8, <2>2, <3>1, <3>2, LeadKept
  <2>3. IsTable(prospects)' /\ IsTable(leads)'
    BY <1>2, <1>8 DEF RoundsInv, TablesOK
  <2> QED
    BY <1>2, <1>8, <1>13, <2>1, <2>2, <2>3 DEF TablesOK
<1> QED
  BY <1>2, <1>11, <1>12, <1>14, DoneOnRows

\* A deleted prospect has no row left to be counted.
LEMMA DeleteProspectRows == ASSUME NEW w \in Workers PROVE RoundsInv /\ DeleteProspect(w) => RoundsInv'
<1> SUFFICES ASSUME RoundsInv, DeleteProspect(w) PROVE RoundsInv'
  OBVIOUS
<1>1. PICK p : p = tx[w].body.id
  OBVIOUS
<1>2. /\ At(w, "prospect") /\ Finish(w) /\ UNCHANGED <<now, leads, happened>>
      /\ prospects' = prospects \/ prospects' = [prospects EXCEPT ![p] = NoRow]
  BY <1>1 DEF DeleteProspect, bodyVars
<1>3. CASE prospects' = prospects
  <2>1. Turns(w, {"idle"})
    BY <1>2, BegunShape DEF Finish, Becomes, Turns
  <2> QED
    BY <1>2, <1>3, <2>1, TurnsOnRows
<1>4. CASE prospects' = [prospects EXCEPT ![p] = NoRow]
  <2>1. p \in DOMAIN prospects
    BY <1>1, <1>2 DEF RoundsInv, OnProspect
  <2>2. PICK table : table = prospects'
    OBVIOUS
  <2>3. IsTable(prospects) /\ table = [prospects EXCEPT ![p] = NoRow]
    BY <1>4, <2>2 DEF RoundsInv, TablesOK
  <2>4. /\ IsTable(table) /\ DOMAIN table = DOMAIN prospects
        /\ table[p] = NoRow /\ \A x \in DOMAIN prospects : x # p => table[x] = prospects[x]
    BY <2>1, <2>3, RowsOfSeq
  <2>5. RowsMove
    BY <1>2, <2>2, <2>4 DEF RowsMove, RoundsInv
  <2>6. NewsOK'
    BY <1>2, <2>2, <2>4 DEF RoundsInv, NewsOK
  <2>7. \A id, e : Events(id, e)' = Events(id, e)
    BY <1>2 DEF Events
  <2>8. ASSUME NEW x \in DOMAIN prospects, x # p, prospects[x] # NoRow PROVE ProspectOK(x)'
    <3>1. ProspectOK(x) /\ prospects'[x] = prospects[x]
      BY <2>2, <2>4, <2>8 DEF RoundsInv, TablesOK
    <3> QED
      BY <1>2, <2>7, <3>1, ProspectKept
  <2>9. ASSUME NEW i \in DOMAIN leads PROVE LeadOK(i)'
    <3>1. LeadOK(i)
      BY DEF RoundsInv, TablesOK
    <3> QED
      BY <1>2, <2>7, <3>1, LeadKept
  <2>10. TablesOK'
    BY <1>2, <2>2, <2>4, <2>8, <2>9 DEF RoundsInv, TablesOK
  <2> QED
    BY <1>2, <2>5, <2>6, <2>10, DoneOnRows
<1> QED
  BY <1>2, <1>3, <1>4

\* A table with one row more.
Longer(new, rows, row, n) == new = Append(rows, row) /\ n = Len(rows) + 1

LEMMA LongerTable ==
    ASSUME NEW rows, IsTable(rows), NEW row, NEW new, NEW n, Longer(new, rows, row, n)
    PROVE  /\ IsTable(new)
           /\ DOMAIN new = DOMAIN rows \cup {n} /\ n \notin DOMAIN rows
           /\ new[n] = row /\ \A i \in DOMAIN rows : new[i] = rows[i]
<1> USE DEF IsTable
<1>1. DOMAIN rows = 1 .. Len(rows) /\ Len(rows) \in Nat
  BY LenProperties
<1>2. new = Append(rows, row) /\ n = Len(rows) + 1
  BY DEF Longer
<1>3. PICK S : S = {rows[i] : i \in DOMAIN rows} \cup {row}
  OBVIOUS
<1>4. rows \in Seq(S) /\ row \in S
  <2>1. {rows[i] : i \in DOMAIN rows} \subseteq S
    BY <1>3
  <2> QED
    BY <1>3, <2>1, SeqMonotonic
<1>5. /\ new \in Seq(S) /\ Len(new) = Len(rows) + 1
      /\ \A i \in 1 .. Len(rows) : new[i] = rows[i]
      /\ new[Len(rows) + 1] = row
  BY <1>2, <1>4, AppendProperties
<1>6. DOMAIN new = 1 .. (Len(rows) + 1)
  BY <1>5, LenProperties
<1>7. DOMAIN new = DOMAIN rows \cup {Len(rows) + 1} /\ Len(rows) + 1 \notin DOMAIN rows
  BY <1>1, <1>6
<1>8. S \subseteq {new[i] : i \in DOMAIN new}
  BY <1>1, <1>3, <1>5, <1>7
<1>9. new \in Seq({new[i] : i \in DOMAIN new})
  BY <1>5, <1>8, SeqMonotonic
<1> QED
  BY <1>1, <1>2, <1>5, <1>7, <1>9

\* No event names a row that is not there yet.
LEMMA FreshRow ==
    ASSUME RoundsInv
    PROVE  /\ \A p, e : p \notin DOMAIN prospects /\ e \in Times => Events(p, e) = {}
           /\ \A i : i \notin DOMAIN leads => Events(i, "responded") = {}
  BY DEF RoundsInv, NewsOK, Events

\* Requests stay as they are, and the tables have moved.
LEMMA GrownRows ==
    ASSUME RoundsInv, RowsMove, tx' = tx, now' = now, TablesOK', NewsOK'
    PROVE  RoundsInv'
<1>1. \A v \in Workers : OnProspect(v)' /\ OnLead(v)'
  BY OthersOnRows
<1> QED
  BY <1>1 DEF RoundsInv, TxType

\* A new prospect, of which there is no event.
LEMMA CreateProspectRows == ASSUME NEW w \in Workers PROVE RoundsInv /\ CreateProspect(w) => RoundsInv'
<1> SUFFICES ASSUME RoundsInv, CreateProspect(w) PROVE RoundsInv'
  OBVIOUS
<1>1. PICK b, row :
        /\ row = Prospect(BranchOf(b)) /\ prospects' = Append(prospects, row)
        /\ UNCHANGED <<now, tx, leads, happened>>
  BY DEF CreateProspect, bodyVars
<1>2. PICK table : table = prospects'
  OBVIOUS
<1>3. PICK n : n = Len(prospects) + 1
  OBVIOUS
<1>4. IsTable(prospects) /\ Longer(table, prospects, row, n)
  BY <1>1, <1>2, <1>3 DEF RoundsInv, TablesOK, Longer
<1>5. /\ IsTable(table)
      /\ DOMAIN table = DOMAIN prospects \cup {n} /\ n \notin DOMAIN prospects
      /\ table[n] = row /\ \A i \in DOMAIN prospects : table[i] = prospects[i]
  BY <1>4, LongerTable
<1>6. RowsMove
  BY <1>1, <1>2, <1>5 DEF RowsMove, RoundsInv
<1>7. NewsOK'
  BY <1>1, <1>2, <1>5 DEF RoundsInv, NewsOK
<1>8. \A id, e : Events(id, e)' = Events(id, e)
  BY <1>1 DEF Events
<1>9. ProspectOK(n)'
  <2>1. /\ DOMAIN row = DOMAIN Prospect("") /\ row.version = 0 /\ row.raced = FALSE
        /\ \A e \in Times : row[e] = 0
    BY <1>1 DEF Prospect, Times
  <2>2. \A e \in Times : Events(n, e) = {}
    BY <1>5, FreshRow
  <2>3. prospects'[n] = row /\ now \in Nat
    BY <1>2, <1>5 DEF RoundsInv
  <2>4. \A e \in Times : Latest(n, e, row[e])'
    BY <1>8, <2>1, <2>2 DEF Latest
  <2>5. row.raced \in BOOLEAN
    <3>1. row.raced = FALSE
      BY <2>1
    <3> QED
      BY <3>1, Zenon
  <2>6. row.version \in Nat
    <3>1. row.version = 0
      BY <2>1
    <3> QED
      BY <3>1
  <2>7. \A e \in Times : row[e] \in Nat /\ row[e] <= now
    <3> SUFFICES ASSUME NEW e \in Times PROVE row[e] \in Nat /\ row[e] <= now
      OBVIOUS
    <3>1. row[e] = 0
      BY <2>1
    <3> QED
      BY <2>3, <3>1
  <2> HIDE DEF Times
  <2> QED
    BY <1>1, <2>1, <2>3, <2>4, <2>5, <2>6, <2>7 DEF ProspectOK, Latest
<1>10. ASSUME NEW x \in DOMAIN prospects, prospects[x] # NoRow PROVE ProspectOK(x)'
  <2>1. ProspectOK(x) /\ prospects'[x] = prospects[x]
    BY <1>2, <1>5, <1>10 DEF RoundsInv, TablesOK
  <2> QED
    BY <1>1, <1>8, <2>1, ProspectKept
<1>11. ASSUME NEW i \in DOMAIN leads PROVE LeadOK(i)'
  <2>1. LeadOK(i)
    BY DEF RoundsInv, TablesOK
  <2> QED
    BY <1>1, <1>8, <2>1, LeadKept
<1>12. TablesOK'
  BY <1>1, <1>2, <1>5, <1>9, <1>10, <1>11 DEF RoundsInv, TablesOK
<1> QED
  BY <1>1, <1>6, <1>7, <1>12, GrownRows

\* A public form brings a lead that nobody has answered, or none.
LEMMA FormRows == ASSUME NEW w \in Workers PROVE RoundsInv /\ PublicForm(w) => RoundsInv'
<1> SUFFICES ASSUME RoundsInv, PublicForm(w) PROVE RoundsInv'
  OBVIOUS
<1>1. /\ UNCHANGED <<now, tx, prospects, happened>>
      /\ leads' = leads \/ \E c : leads' = Append(leads, Lead(c, "o2o_web", 0))
  BY DEF PublicForm, bodyVars
<1>2. CASE leads' = leads
  BY <1>1, <1>2, RowsStand DEF RoundsInv
<1>3. CASE \E c : leads' = Append(leads, Lead(c, "o2o_web", 0))
  <2>1. PICK row : (\E c : row = Lead(c, "o2o_web", 0)) /\ leads' = Append(leads, row)
    BY <1>3
  <2>2. PICK table, n : table = leads' /\ n = Len(leads) + 1
    OBVIOUS
  <2>3. IsTable(leads) /\ Longer(table, leads, row, n)
    BY <2>1, <2>2 DEF RoundsInv, TablesOK, Longer
  <2>4. /\ IsTable(table)
        /\ DOMAIN table = DOMAIN leads \cup {n} /\ n \notin DOMAIN leads
        /\ table[n] = row /\ \A i \in DOMAIN leads : table[i] = leads[i]
    BY <2>3, LongerTable
  <2>5. RowsMove
    BY <1>1, <2>2, <2>4 DEF RowsMove, RoundsInv
  <2>6. NewsOK'
    BY <1>1, <2>2, <2>4 DEF RoundsInv, NewsOK
  <2>7. \A id, e : Events(id, e)' = Events(id, e)
    BY <1>1 DEF Events
  <2>8. LeadOK(n)'
    <3>1. DOMAIN row = DOMAIN Lead("", "", 0) /\ row.version = 0 /\ row.raced = FALSE /\ row.responded = 0
      BY <2>1 DEF Lead
    <3>2. Events(n, "responded")' = {}
      BY <2>4, <2>7, FreshRow
    <3>3. leads'[n] = row
      BY <2>2, <2>4
    <3>4. row.raced \in BOOLEAN
      <4>1. row.raced = FALSE
        BY <3>1
      <4> QED
        BY <4>1, Zenon
    <3>5. row.version \in Nat /\ row.responded \in Nat
      <4>1. row.version = 0 /\ row.responded = 0
        BY <3>1
      <4> QED
        BY <4>1
    <3> QED
      BY <3>1, <3>2, <3>3, <3>4, <3>5 DEF LeadOK
  <2>9. ASSUME NEW i \in DOMAIN leads PROVE LeadOK(i)'
    <3>1. LeadOK(i) /\ leads'[i] = leads[i]
      BY <2>2, <2>4 DEF RoundsInv, TablesOK
    <3> QED
      BY <2>7, <3>1, LeadKept
  <2>10. ASSUME NEW x \in DOMAIN prospects, prospects[x] # NoRow PROVE ProspectOK(x)'
    <3>1. ProspectOK(x)
      BY <2>10 DEF RoundsInv, TablesOK
    <3> QED
      BY <1>1, <2>7, <3>1, ProspectKept
  <2>11. TablesOK'
    BY <1>1, <2>2, <2>4, <2>8, <2>9, <2>10 DEF RoundsInv, TablesOK
  <2> QED
    BY <1>1, <2>5, <2>6, <2>11, GrownRows
<1> QED
  BY <1>1, <1>2, <1>3

\* Rows that no champion has touched, and no events.
LEMMA InitRows == Init => RoundsInv
<1> SUFFICES ASSUME Init PROVE RoundsInv
  OBVIOUS
<1>1. PICK scene \in Scenes :
        InitAccounts(scene) /\ prospects = scene.prospects /\ leads = scene.leads /\ happened = {}
  BY DEF Init
<1>2. /\ now = scene.now /\ tx = [w \in Workers |-> Idle]
  BY <1>1 DEF InitAccounts
<1>3. now \in Nat \ {0}
  BY <1>2, ScenesAssumption
<1>4. /\ IsTable(prospects) /\ IsTable(leads)
      /\ \A p \in DOMAIN prospects : prospects[p] = Prospect(prospects[p].branch)
      /\ \A i \in DOMAIN leads : leads[i] = Lead(leads[i].branch, leads[i].source, leads[i].prospect)
  <2>1. Untouched(scene.prospects, scene.leads)
    BY RowsAssumption
  <2>2. Untouched(prospects, leads)
    BY <1>1, <2>1
  <2> QED
    BY <2>2 DEF Untouched, IsTable
<1>5. \A id, e : Events(id, e) = {}
  BY <1>1 DEF Events
<1>6. ASSUME NEW p \in DOMAIN prospects PROVE ProspectOK(p)
  <2>1. PICK c, row : c = prospects[p].branch /\ row = prospects[p]
    OBVIOUS
  <2>2. row = Prospect(c)
    BY <1>4, <2>1
  <2>3. /\ DOMAIN row = DOMAIN Prospect("") /\ row.version = 0 /\ row.raced = FALSE
        /\ \A e \in Times : row[e] = 0
    BY <2>2 DEF Prospect, Times
  <2>4. \A e \in Times : Latest(p, e, row[e])
    BY <1>5, <2>3 DEF Latest
  <2>5. row.raced \in BOOLEAN
    <3>1. row.raced = FALSE
      BY <2>3
    <3> QED
      BY <3>1, Zenon
  <2>6. row.version \in Nat
    <3>1. row.version = 0
      BY <2>3
    <3> QED
      BY <3>1
  <2>7. \A e \in Times : row[e] \in Nat /\ row[e] <= now
    <3> SUFFICES ASSUME NEW e \in Times PROVE row[e] \in Nat /\ row[e] <= now
      OBVIOUS
    <3>1. row[e] = 0
      BY <2>3
    <3> QED
      BY <1>3, <3>1
  <2> HIDE DEF Times
  <2> QED
    BY <2>1, <2>3, <2>4, <2>5, <2>6, <2>7 DEF ProspectOK
<1>7. ASSUME NEW i \in DOMAIN leads PROVE LeadOK(i)
  <2>1. PICK c, s, p, row :
          c = leads[i].branch /\ s = leads[i].source /\ p = leads[i].prospect /\ row = leads[i]
    OBVIOUS
  <2>2. row = Lead(c, s, p)
    BY <1>4, <2>1
  <2>3. DOMAIN row = DOMAIN Lead("", "", 0) /\ row.version = 0 /\ row.raced = FALSE /\ row.responded = 0
    BY <2>2 DEF Lead
  <2>4. row.raced \in BOOLEAN
    <3>1. row.raced = FALSE
      BY <2>3
    <3> QED
      BY <3>1, Zenon
  <2>5. row.version \in Nat /\ row.responded \in Nat
    <3>1. row.version = 0 /\ row.responded = 0
      BY <2>3
    <3> QED
      BY <3>1
  <2> QED
    BY <1>5, <2>1, <2>3, <2>4, <2>5 DEF LeadOK
<1>8. TablesOK /\ NewsOK
  BY <1>1, <1>4, <1>6, <1>7 DEF TablesOK, NewsOK
<1>9. \A w \in Workers : tx[w] = Idle
  BY <1>2
<1>10. TxType /\ \A w \in Workers : OnProspect(w) /\ OnLead(w)
  BY <1>2, <1>9, BegunShape DEF TxType, OnProspect, OnLead, At
<1> QED
  BY <1>3, <1>8, <1>10 DEF RoundsInv

\* Every step keeps the columns true.
LEMMA StepRows == RoundsInv /\ [Next]_vars => RoundsInv'
<1> SUFFICES ASSUME RoundsInv, [Next]_vars PROVE RoundsInv'
  OBVIOUS
<1>0. TxType /\ now \in Nat
  BY DEF RoundsInv
<1>1. CASE UNCHANGED vars
  BY <1>0, <1>1, RowsStand DEF vars, branchVars, bodyVars
<1>2. CASE NextAccounts /\ UNCHANGED branchVars
  <2>0. UNCHANGED <<prospects, leads, happened>>
    BY <1>2 DEF branchVars
  <2>1. CASE Tick \/ Restart
    <3>1. now' \in Nat /\ now <= now' /\ (tx' = tx \/ tx' = [w \in Workers |-> Idle])
      BY <1>0, <2>1 DEF Tick, Restart
    <3> QED
      BY <2>0, <3>1, RowsStand
  <2>2. ASSUME NEW w \in Workers,
               \/ CreateStaff(w) \/ InsertStaff(w)
               \/ UpdateStaff(w) \/ CheckStaff(w) \/ ScanPins(w) \/ WriteStaff(w)
        PROVE  RoundsInv'
    <3>1. now' = now
      BY <2>2 DEF CreateStaff, InsertStaff, UpdateStaff, CheckStaff, ScanPins, WriteStaff, bodyVars
    <3>2. \E S \in {{"insert", "idle"}, {"idle"}, {"check", "idle"}, {"scan", "idle"}, {"write", "idle"}} : Turns(w, S)
      BY <2>2, <1>0, StaffTurns
    <3> QED
      BY <2>0, <3>1, <3>2, TurnsOnRows
  <2>3. ASSUME NEW w \in Workers, Signup(w) \/ Refresh(w) PROVE RoundsInv'
    <3>1. tx' = tx /\ now' = now
      BY <2>3 DEF Signup, Refresh, bodyVars
    <3> QED
      BY <1>0, <2>0, <3>1, RowsStand
  <2>4. ASSUME NEW w \in Workers, BeginLogin(w) \/ AnswerLogin(w) PROVE RoundsInv'
    <3>1. now' = now
      BY <2>4 DEF BeginLogin, AnswerLogin, bodyVars
    <3>2. Turns(w, {"verify", "idle"})
      BY <2>4, LoginTurns
    <3> QED
      BY <2>0, <3>1, <3>2, TurnsOnRows
  <2> QED
    BY <1>2, <2>1, <2>2, <2>3, <2>4 DEF NextAccounts
<1>3. ASSUME NEW w \in Workers, JoinBranch(w) \/ OpenBranch(w) \/ CommitChampion(w) PROVE RoundsInv'
  <2>1. UNCHANGED <<now, prospects, leads, happened>>
    BY <1>3 DEF JoinBranch, OpenBranch, CommitChampion, bodyVars, branchVars
  <2>2. \E S \in {{"join", "open", "idle"}, {"join", "idle"}, {"idle"}} : Turns(w, S)
    BY <1>3, <1>0, BranchTurns
  <2> QED
    BY <2>1, <2>2, TurnsOnRows
<1>4. ASSUME NEW w \in Workers,
             \/ CreateProspect(w) \/ ReadProspect(w) \/ WriteProspect(w) \/ DeleteProspect(w)
             \/ ReadLead(w) \/ WriteLead(w) \/ PublicForm(w)
      PROVE  RoundsInv'
  BY <1>4, CreateProspectRows, ReadProspectRows, WriteProspectRows, DeleteProspectRows, ReadLeadRows,
     WriteLeadRows, FormRows
<1> QED
  BY <1>1, <1>2, <1>3, <1>4 DEF Next

-----------------------------------------------------------------------------
\* A column of a row that no stale write has touched is of the week when one of the events
\* it stands for is.
LEMMA SinceTells ==
    ASSUME RoundsInv, NEW p, ProspectOK(p), ~prospects[p].raced, NEW e \in Times
    PROVE  Since(prospects[p][e]) <=> \E h \in Events(p, e) : h.at >= now - Week
<1>1. PICK at : at = prospects[p][e]
  OBVIOUS
<1>2. at \in Nat /\ Latest(p, e, at)
  BY <1>1 DEF ProspectOK
<1>3. \A h \in Events(p, e) : h.at \in Nat \ {0}
  BY DEF RoundsInv, NewsOK, Events
<1>4. now \in Nat /\ Week \in Nat
  BY RowsAssumption DEF RoundsInv
<1>5. ASSUME Since(at) PROVE \E h \in Events(p, e) : h.at >= now - Week
  BY <1>2, <1>5 DEF Since, Latest
<1>6. ASSUME NEW h \in Events(p, e), h.at >= now - Week PROVE Since(at)
  <2>1. PICK n : n = h.at
    OBVIOUS
  <2>2. n \in Nat \ {0} /\ n <= at /\ n >= now - Week
    BY <1>2, <1>3, <1>6, <2>1 DEF Latest
  <2> QED
    BY <1>2, <1>4, <2>2 DEF Since
<1> QED
  BY <1>1, <1>5, <1>6

\* The same of the first answer to a lead.
LEMMA AnswerTells ==
    ASSUME RoundsInv, NEW i, LeadOK(i), ~leads[i].raced
    PROVE  Since(leads[i].responded) <=> AnswersTo(i) # {} /\ Min(AnswersTo(i)) >= now - Week
<1>1. PICK at : at = leads[i].responded
  OBVIOUS
<1>2. /\ at \in Nat /\ \A h \in Events(i, "responded") : h.at = at
      /\ at # 0 => Events(i, "responded") # {}
  BY <1>1 DEF LeadOK
<1>3. AnswersTo(i) = {h.at : h \in Events(i, "responded")}
  BY DEF AnswersTo, Events
<1>4. \A h \in Events(i, "responded") : h.at \in Nat \ {0}
  BY DEF RoundsInv, NewsOK, Events
<1>5. CASE Events(i, "responded") = {}
  BY <1>1, <1>2, <1>3, <1>5 DEF Since
<1>6. CASE Events(i, "responded") # {}
  <2>1. PICK S : S = AnswersTo(i)
    OBVIOUS
  <2>2. S = {at}
    BY <1>2, <1>3, <1>6, <2>1
  <2>3. at # 0
    BY <1>2, <1>4, <1>6
  <2>4. Min(S) = at
    BY <1>2, <2>2 DEF Min
  <2> QED
    BY <1>1, <2>1, <2>2, <2>3, <2>4 DEF Since
<1> QED
  BY <1>5, <1>6

\* Then every count of the leaderboard is that of the events.
LEMMA RoundsTell == RoundsInv => LeaderboardTrue
<1> SUFFICES ASSUME RoundsInv, NEW c \in DOMAIN branches,
                    \A p \in RowsOf(prospects, c) : ~prospects[p].raced,
                    \A i \in RowsOf(leads, c) : ~leads[i].raced
             PROVE  Leaderboard[c].score = Cardinality(DoneWithin(c, {"visited", "met"}))
                                           + Cardinality(DoneWithin(c, {"called"}))
                                           + 2 * Cardinality(AnsweredWithin(c))
  BY DEF LeaderboardTrue
<1>1. ASSUME NEW p \in RowsOf(prospects, c), NEW e \in Times
      PROVE  Since(prospects[p][e]) <=> \E h \in Events(p, e) : h.at >= now - Week
  <2>1. ProspectOK(p) /\ ~prospects[p].raced
    BY DEF RoundsInv, TablesOK, RowsOf
  <2> QED
    BY <2>1, SinceTells
<1>2. VisitedRows(c) = DoneWithin(c, {"visited", "met"})
  <2>1. ASSUME NEW p \in RowsOf(prospects, c)
        PROVE  Since(prospects[p].visited) \/ Since(prospects[p].met) <=>
               \E h \in happened : h.id = p /\ h.event \in {"visited", "met"} /\ h.at >= now - Week
    BY <1>1, <2>1 DEF Events, Times
  <2> QED
    BY <2>1 DEF VisitedRows, DoneWithin
<1>3. CalledRows(c) = DoneWithin(c, {"called"})
  <2>1. ASSUME NEW p \in RowsOf(prospects, c)
        PROVE  Since(prospects[p].called) <=>
               \E h \in happened : h.id = p /\ h.event \in {"called"} /\ h.at >= now - Week
    BY <1>1, <2>1 DEF Events, Times
  <2> QED
    BY <2>1 DEF CalledRows, DoneWithin
<1>4. AnsweredRows(c) = AnsweredWithin(c)
  <2>1. ASSUME NEW i \in RowsOf(leads, c)
        PROVE  Since(leads[i].responded) <=>
               AnswersTo(i) # {} /\ Min(AnswersTo(i)) >= now - Week
    <3>1. LeadOK(i) /\ ~leads[i].raced
      BY DEF RoundsInv, TablesOK, RowsOf
    <3> QED
      BY <3>1, AnswerTells
  <2> QED
    BY <2>1 DEF AnsweredRows, AnsweredWithin
<1>5. Leaderboard[c].score = Cardinality(VisitedRows(c)) + Cardinality(CalledRows(c))
                             + 2 * Cardinality(AnsweredRows(c))
  BY DEF Leaderboard
<1> QED
  BY <1>2, <1>3, <1>4, <1>5

\* The leaderboard scores what the champions of a branch did within the week, unless one of
\* its rows was written on a read that was stale.
THEOREM TheLeaderboardIsTrue == Spec => []LeaderboardTrue
<1>1. Init => RoundsInv
  BY InitRows
<1>2. RoundsInv /\ [Next]_vars => RoundsInv'
  BY StepRows
<1>3. RoundsInv => LeaderboardTrue
  BY RoundsTell
<1> QED
  BY <1>1, <1>2, <1>3, PTL DEF Spec
=============================================================================
