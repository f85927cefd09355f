------------------------- MODULE SelfManageProofs --------------------------
(***************************************************************************)
(* Proofs about Versions and SelfManage.  The comparison of versions is a  *)
(* strict total order on suffixes of any length; for every set of          *)
(* commands, versions, binaries and jobs, a replacement lowers no command  *)
(* that was not to be lowered, an upgrade installs what was selected, an   *)
(* uninstall is final, and every task finds a command that can carry it    *)
(* out.                                                                    *)
(***************************************************************************)
EXTENDS SelfManage, FiniteSetTheorems, SequenceTheorems, WellFoundedInduction, TLAPS

-----------------------------------------------------------------------------
(* The order of versions.  Suffixes are compared token by token; a statement   *)
(* about every position is proved by the last one it would fail at.            *)

\* Every set of naturals that is not empty has a least element.
LEMMA Least ==
  ASSUME NEW S \in SUBSET Nat, S # {}
  PROVE  \E m \in S : \A k \in S : m <= k
<1>1. PICK m \in S : \A k \in S : <<k, m>> \notin OpToRel(<, Nat)
  BY NatLessThanWellFounded, WFMin, Zenon
<1>2. ASSUME NEW k \in S, k < m
      PROVE  FALSE
  <2>1. <<k, m>> \in {ss \in Nat \X Nat : ss[1] < ss[2]}
    BY <1>2
  <2> QED
    BY <1>1, <2>1 DEF OpToRel
<1> QED
  BY <1>2

\* s and t are the same as far as k.
Agree(s, t, k) == \A j \in 1 .. k : s[j] = t[j]

\* Arithmetic of lengths.
LEMMA LengthAfter ==
  ASSUME NEW m \in Nat, NEW n \in Nat, m <= n, m # n
  PROVE  m + 1 \in 1 .. n /\ ~(m + 1 <= m)
OBVIOUS

\* And back.
LEMMA LengthBefore ==
  ASSUME NEW m \in Nat, NEW n \in Nat, m + 1 \in 1 .. n
  PROVE  m <= n /\ m # n
OBVIOUS

\* Of two positions the earlier one is within everything the later one is within.
LEMMA EarlierWithin ==
  ASSUME NEW k \in Nat, NEW l \in Nat, NEW m \in Nat, NEW n \in Nat
  PROVE  /\ k \in 1 .. m /\ l \in 1 .. n /\ k <= l => k \in 1 .. n /\ 1 .. k - 1 \subseteq 1 .. l - 1
         /\ k \in 1 .. m /\ k < l => k \in 1 .. l - 1
         /\ k < l /\ l <= m + 1 => k <= m /\ k <= m + 1
         /\ k <= m + 1 => k <= m \/ k = m + 1
         /\ k < l \/ k = l \/ l < k
         /\ k <= l <=> k < l \/ k = l
OBVIOUS

\* A prefix, position by position.
LEMMA PrefixAgrees ==
  ASSUME NEW s \in Seq(Int), NEW t \in Seq(Int), Len(s) <= Len(t)
  PROVE  IsPrefix(s, t) <=> Agree(s, t, Len(s))
<1> DEFINE u == SubSeq(s, 1, Len(s))
           v == SubSeq(t, 1, Len(s))
<1>1. Len(s) \in Nat /\ Len(t) \in Nat
  OBVIOUS
<1>2. u \in Seq(Int) /\ Len(u) = Len(s) /\ \A i \in 1 .. Len(s) : u[i] = s[i]
  BY <1>1
<1>3. v \in Seq(Int) /\ Len(v) = Len(s) /\ \A i \in 1 .. Len(s) : v[i] = t[i]
  BY <1>1
<1> HIDE DEF u, v
<1>4. u = v <=> \A i \in 1 .. Len(s) : u[i] = v[i]
  BY <1>2, <1>3, SeqEqual
<1> QED
  BY <1>2, <1>3, <1>4 DEF IsPrefix, Agree, u, v

\* Where s comes before t: the first position that t has and s has not, or has a
\* smaller byte at.
Before(s, t, k) ==
  /\ k \in 1 .. Len(t) /\ k <= Len(s) + 1
  /\ k <= Len(s) => s[k] < t[k]
  /\ Agree(s, t, k - 1)

\* Byte order, by that position.
LEMMA ByteLessMeans ==
  ASSUME NEW s \in Seq(Int), NEW t \in Seq(Int)
  PROVE  ByteLess(s, t) <=> \E k \in Nat : Before(s, t, k)
<1>0. Len(s) \in Nat /\ Len(t) \in Nat /\ DOMAIN s = 1 .. Len(s) /\ DOMAIN t = 1 .. Len(t)
  OBVIOUS
<1>1. ASSUME IsStrictPrefix(s, t)
      PROVE  Before(s, t, Len(s) + 1)
  <2>1. Len(s) <= Len(t) /\ s # t
    BY <1>1 DEF IsStrictPrefix, IsPrefix
  <2>2. Agree(s, t, Len(s))
    BY <1>1, <2>1, PrefixAgrees DEF IsStrictPrefix
  <2>3. Len(s) # Len(t)
    BY <2>1, <2>2, SeqEqual DEF Agree
  <2>4. Len(s) + 1 - 1 = Len(s)
    BY <1>0
  <2>5. Agree(s, t, Len(s) + 1 - 1)
    BY <2>2, <2>4, Zenon
  <2>6. Len(s) + 1 \in 1 .. Len(t) /\ ~(Len(s) + 1 <= Len(s))
    BY <1>0, <2>1, <2>3, LengthAfter, Zenon
  <2> QED
    BY <1>0, <2>5, <2>6 DEF Before
<1>2. ASSUME NEW i \in DOMAIN s \cap DOMAIN t, s[i] < t[i], \A j \in 1 .. i - 1 : s[j] = t[j]
      PROVE  i \in Nat /\ Before(s, t, i)
  BY <1>0, <1>2 DEF Before, Agree
<1>3. ASSUME NEW k \in Nat, Before(s, t, k)
      PROVE  ByteLess(s, t)
  <2>1. CASE k <= Len(s)
    <3>1. k \in DOMAIN s \cap DOMAIN t
      BY <1>0, <1>3, <2>1 DEF Before
    <3>2. s[k] < t[k] /\ \A j \in 1 .. k - 1 : s[j] = t[j]
      BY <1>3, <2>1, Zenon DEF Before, Agree
    <3> QED
      BY <3>1, <3>2, Zenon DEF ByteLess
  <2>2. CASE k = Len(s) + 1
    <3>0. k - 1 = Len(s)
      BY <1>0, <2>2
    <3>1. Len(s) <= Len(t) /\ Len(s) # Len(t) /\ Agree(s, t, Len(s))
      <4>1. k \in 1 .. Len(t) /\ Agree(s, t, k - 1)
        BY <1>3 DEF Before
      <4>2. Agree(s, t, Len(s))
        BY <3>0, <4>1, Zenon
      <4> QED
        BY <1>0, <2>2, <4>1, <4>2, LengthBefore, Zenon
    <3>2. IsPrefix(s, t) /\ s # t
      BY <3>1, PrefixAgrees
    <3> QED
      BY <3>2 DEF ByteLess, IsStrictPrefix
  <2>3. k <= Len(s) + 1
    BY <1>3 DEF Before
  <2>4. k <= Len(s) \/ k = Len(s) + 1
    BY <1>0, <2>3, EarlierWithin, Zenon
  <2> QED
    BY <2>1, <2>2, <2>4
<1>4. Len(s) + 1 \in Nat
  BY <1>0
<1> QED
  BY <1>1, <1>2, <1>3, <1>4 DEF ByteLess

\* Byte order is a strict order, and total.
LEMMA ByteOrder ==
  ASSUME NEW s \in Seq(Int), NEW t \in Seq(Int), NEW u \in Seq(Int)
  PROVE  /\ ~ByteLess(s, s)
         /\ ByteLess(s, t) /\ ByteLess(t, u) => ByteLess(s, u)
         /\ s # t => ByteLess(s, t) \/ ByteLess(t, s)
<1>0. Len(s) \in Nat /\ Len(t) \in Nat /\ Len(u) \in Nat
  OBVIOUS
<1>1. ~ByteLess(s, s)
  <2>1. ASSUME NEW k \in Nat, Before(s, s, k)
        PROVE  FALSE
    BY <1>0, <2>1 DEF Before
  <2> QED
    BY <2>1, ByteLessMeans
<1>2. ASSUME ByteLess(s, t), ByteLess(t, u)
      PROVE  ByteLess(s, u)
  <2>1. PICK k \in Nat : Before(s, t, k)
    BY <1>2, ByteLessMeans
  <2>2. PICK l \in Nat : Before(t, u, l)
    BY <1>2, ByteLessMeans
  <2>3. CASE k <= l
    <3>0. /\ k \in 1 .. Len(t) /\ k <= Len(s) + 1 /\ Agree(s, t, k - 1)
          /\ l \in 1 .. Len(u) /\ Agree(t, u, l - 1)
      BY <2>1, <2>2, Zenon DEF Before
    <3>1. Agree(s, u, k - 1) /\ k \in 1 .. Len(u) /\ k <= Len(s) + 1
      <4>1. k \in 1 .. Len(u) /\ 1 .. k - 1 \subseteq 1 .. l - 1
        BY <1>0, <2>3, <3>0, EarlierWithin, Zenon
      <4> QED
        BY <3>0, <4>1, Zenon DEF Agree
    <3>2. ASSUME k <= Len(s) PROVE s[k] < u[k]
      <4>1. s[k] \in Int /\ t[k] \in Int /\ u[k] \in Int /\ s[k] < t[k] /\ k <= Len(t)
        <5>1. k \in 1 .. Len(s)
          BY <3>0, <3>2
        <5>2. k <= Len(t)
          BY <3>0
        <5>3. s[k] < t[k]
          BY <2>1, <3>2, Zenon DEF Before
        <5> QED
          BY <3>0, <3>1, <5>1, <5>2, <5>3, ElementOfSeq, Zenon
      <4>2. k < l => t[k] = u[k]
        <5>1. k < l => k \in 1 .. l - 1
          BY <1>0, <3>0, EarlierWithin, Zenon
        <5> QED
          BY <3>0, <5>1, Zenon DEF Agree
      <4>3. k = l => t[k] < u[k]
        BY <2>2, <4>1 DEF Before
      <4> QED
        BY <2>3, <4>1, <4>2, <4>3
    <3> QED
      BY <3>1, <3>2, ByteLessMeans DEF Before
  <2>4. CASE l < k
    <3>0. /\ k \in 1 .. Len(t) /\ k <= Len(s) + 1 /\ Agree(s, t, k - 1)
          /\ l \in 1 .. Len(u) /\ Agree(t, u, l - 1)
      BY <2>1, <2>2, Zenon DEF Before
    <3>3. l \in 1 .. Len(t) /\ 1 .. l - 1 \subseteq 1 .. k - 1 /\ l \in 1 .. k - 1 /\ l <= Len(s) + 1
      BY <1>0, <2>4, <3>0, EarlierWithin, Zenon
    <3>1. Agree(s, u, l - 1) /\ l \in 1 .. Len(u) /\ l <= Len(s) + 1
      BY <3>0, <3>3, Zenon DEF Agree
    <3>2. l <= Len(t) /\ t[l] < u[l] /\ s[l] = t[l]
      <4>1. l <= Len(t)
        BY <3>3
      <4> QED
        BY <2>2, <3>0, <3>3, <4>1, Zenon DEF Before, Agree
    <3> QED
      BY <3>1, <3>2, ByteLessMeans DEF Before
  <2> QED
    BY <2>3, <2>4
<1>3. ASSUME s # t
      PROVE  ByteLess(s, t) \/ ByteLess(t, s)
  <2> DEFINE Diff == {i \in Nat : i \in 1 .. Len(s) /\ i \in 1 .. Len(t) /\ s[i] # t[i]}
  <2>1. CASE Diff = {}
    <3>1. CASE Len(s) < Len(t)
      <4>1. ASSUME NEW j \in 1 .. Len(s)
            PROVE  s[j] = t[j]
        <5>1. j \in Nat /\ j \in 1 .. Len(t)
          BY <1>0, <3>1
        <5> QED
          BY <2>1, <5>1
      <4>2. Len(s) <= Len(t) /\ Agree(s, t, Len(s))
        <5>1. Len(s) <= Len(t)
          BY <1>0, <3>1
        <5> QED
          BY <4>1, <5>1, Zenon DEF Agree
      <4>3. IsPrefix(s, t) /\ s # t
        BY <3>1, <4>2, PrefixAgrees
      <4> QED
        BY <4>3 DEF ByteLess, IsStrictPrefix
    <3>2. CASE Len(t) < Len(s)
      <4>1. ASSUME NEW j \in 1 .. Len(t)
            PROVE  t[j] = s[j]
        <5>1. j \in Nat /\ j \in 1 .. Len(s)
          BY <1>0, <3>2
        <5> QED
          BY <2>1, <5>1
      <4>2. Len(t) <= Len(s) /\ Agree(t, s, Len(t))
        <5>1. Len(t) <= Len(s)
          BY <1>0, <3>2
        <5> QED
          BY <4>1, <5>1, Zenon DEF Agree
      <4>3. IsPrefix(t, s) /\ t # s
        BY <3>2, <4>2, PrefixAgrees
      <4> QED
        BY <4>3 DEF ByteLess, IsStrictPrefix
    <3>3. CASE Len(s) = Len(t)
      <4>1. ASSUME NEW i \in 1 .. Len(s)
            PROVE  s[i] = t[i]
        <5>1. i \in Nat /\ i \in 1 .. Len(t)
          BY <1>0, <3>3
        <5> QED
          BY <2>1, <5>1
      <4> QED
        BY <1>3, <3>3, <4>1, SeqEqual
    <3> QED
      BY <1>0, <3>1, <3>2, <3>3
  <2>2. CASE Diff # {}
    <3>1. PICK m \in Diff : \A k \in Diff : m <= k
      <4>1. Diff \in SUBSET Nat
        OBVIOUS
      <4> QED
        BY <2>2, <4>1, Least
    <3>2. m \in Nat /\ m \in 1 .. Len(s) /\ m \in 1 .. Len(t) /\ s[m] # t[m]
          /\ s[m] \in Int /\ t[m] \in Int
      BY <3>1
    <3>3. ASSUME NEW j \in 1 .. m - 1
          PROVE  s[j] = t[j]
      <4>1. j \in Nat /\ j < m /\ j \in 1 .. Len(s) /\ j \in 1 .. Len(t)
        BY <1>0, <3>2
      <4>2. j \notin Diff
        BY <3>1, <3>2, <4>1
      <4> QED
        BY <4>1, <4>2
    <3>4. Agree(s, t, m - 1) /\ Agree(t, s, m - 1)
      BY <3>3 DEF Agree
    <3>5. Before(s, t, m) \/ Before(t, s, m)
      BY <1>0, <3>2, <3>4 DEF Before
    <3> QED
      BY <3>2, <3>5, ByteLessMeans
  <2> QED
    BY <2>1, <2>2
<1> QED
  BY <1>1, <1>2, <1>3

\* Among sequences of one length it is the order of the first difference.
LEMMA LexIsByteOrder ==
  ASSUME NEW s \in Seq(Int), NEW t \in Seq(Int), Len(s) = Len(t)
  PROVE  LexLess(s, t) <=> ByteLess(s, t)
<1>0. Len(s) \in Nat /\ DOMAIN s = 1 .. Len(s) /\ DOMAIN t = DOMAIN s
  OBVIOUS
<1>1. ~IsStrictPrefix(s, t)
  BY PrefixAgrees, SeqEqual DEF IsStrictPrefix, Agree
<1> QED
  BY <1>0, <1>1 DEF LexLess, ByteLess

\* A run without its leading zeros is a sequence of bytes.
LEMMA SignificantType ==
  ASSUME NEW a \in Seq(Int)
  PROVE  Significant(a) \in Seq(Int)
<1> DEFINE zeros == {i \in DOMAIN a : \A j \in 1 .. i : a[j] = 0}
<1>1. IsFiniteSet(1 .. Len(a))
  BY FS_Interval
<1>2. zeros \subseteq 1 .. Len(a)
  OBVIOUS
<1>3. Cardinality(zeros) \in Nat
  BY <1>1, <1>2, FS_Subset, FS_CardinalityType
<1> HIDE DEF zeros
<1>4. \A m \in 1 .. Len(a) : a[m] \in Int
  OBVIOUS
<1>5. SubSeq(a, Cardinality(zeros) + 1, Len(a)) \in Seq(Int)
  BY <1>3, SubSeqProperties
<1> QED
  BY <1>5 DEF Significant, zeros

\* The order CompareRuns means: of the numbers, then of the bytes.
RunBefore(a, b) ==
  LET na == Significant(a)
      nb == Significant(b)
  IN  \/ Len(na) < Len(nb)
      \/ Len(na) = Len(nb) /\ ByteLess(na, nb)
      \/ na = nb /\ ByteLess(a, b)

\* It is a strict order, and total.
LEMMA RunOrder ==
  ASSUME NEW a \in Seq(Int), NEW b \in Seq(Int), NEW c \in Seq(Int)
  PROVE  /\ ~RunBefore(a, a)
         /\ RunBefore(a, b) /\ RunBefore(b, c) => RunBefore(a, c)
         /\ a # b => RunBefore(a, b) \/ RunBefore(b, a)
<1> DEFINE na == Significant(a)
           nb == Significant(b)
           nc == Significant(c)
<1>1. na \in Seq(Int) /\ nb \in Seq(Int) /\ nc \in Seq(Int)
  BY SignificantType
<1> HIDE DEF na, nb, nc
<1>2. Len(na) \in Nat /\ Len(nb) \in Nat /\ Len(nc) \in Nat
  BY <1>1
<1>3. /\ ~ByteLess(na, na) /\ ~ByteLess(a, a)
      /\ ByteLess(na, nb) /\ ByteLess(nb, nc) => ByteLess(na, nc)
      /\ ByteLess(a, b) /\ ByteLess(b, c) => ByteLess(a, c)
      /\ na # nb => ByteLess(na, nb) \/ ByteLess(nb, na)
      /\ a # b => ByteLess(a, b) \/ ByteLess(b, a)
  BY <1>1, ByteOrder
<1>4. /\ RunBefore(a, b) <=> \/ Len(na) < Len(nb)
                             \/ Len(na) = Len(nb) /\ ByteLess(na, nb)
                             \/ na = nb /\ ByteLess(a, b)
      /\ RunBefore(b, c) <=> \/ Len(nb) < Len(nc)
                             \/ Len(nb) = Len(nc) /\ ByteLess(nb, nc)
                             \/ nb = nc /\ ByteLess(b, c)
      /\ RunBefore(a, c) <=> \/ Len(na) < Len(nc)
                             \/ Len(na) = Len(nc) /\ ByteLess(na, nc)
                             \/ na = nc /\ ByteLess(a, c)
      /\ RunBefore(b, a) <=> \/ Len(nb) < Len(na)
                             \/ Len(nb) = Len(na) /\ ByteLess(nb, na)
                             \/ nb = na /\ ByteLess(b, a)
      /\ RunBefore(a, a) <=> \/ Len(na) < Len(na)
                             \/ Len(na) = Len(na) /\ ByteLess(na, na)
                             \/ na = na /\ ByteLess(a, a)
  BY Zenon DEF RunBefore, na, nb, nc
<1> QED
  BY <1>2, <1>3, <1>4

\* What CompareRuns answers.
LEMMA CompareRunsMeans ==
  ASSUME NEW a \in Seq(Int), NEW b \in Seq(Int)
  PROVE  CompareRuns(a, b) = IF a = b THEN 0 ELSE IF RunBefore(a, b) THEN -1 ELSE 1
<1> DEFINE na == Significant(a)
           nb == Significant(b)
<1>1. na \in Seq(Int) /\ nb \in Seq(Int)
  BY SignificantType
<1>2. a = b => na = nb
  OBVIOUS
<1>3. /\ RunBefore(a, b) <=> \/ Len(na) < Len(nb)
                             \/ Len(na) = Len(nb) /\ ByteLess(na, nb)
                             \/ na = nb /\ ByteLess(a, b)
  BY Zenon DEF RunBefore
<1>4. CompareRuns(a, b) =
        CASE Len(na) # Len(nb) -> Sign(Len(na) < Len(nb))
          [] Len(na) = Len(nb) /\ na # nb -> Sign(LexLess(na, nb))
          [] na = nb /\ a # b -> Sign(ByteLess(a, b))
          [] OTHER -> 0
  BY DEF CompareRuns
<1> HIDE DEF na, nb
<1>5. Len(na) \in Nat /\ Len(nb) \in Nat
  BY <1>1
<1>6. ~ByteLess(na, na)
  BY <1>1, ByteOrder
<1>7. Len(na) = Len(nb) => (LexLess(na, nb) <=> ByteLess(na, nb))
  BY <1>1, LexIsByteOrder
<1>8. CASE Len(na) # Len(nb)
  BY <1>2, <1>3, <1>4, <1>5, <1>8 DEF Sign
<1>9. CASE Len(na) = Len(nb) /\ na # nb
  BY <1>2, <1>3, <1>4, <1>5, <1>7, <1>9 DEF Sign
<1>10. CASE na = nb
  BY <1>3, <1>4, <1>5, <1>6, <1>10 DEF Sign
<1> QED
  BY <1>8, <1>9, <1>10

\* A run of digits ends within the suffix.
LEMMA RunEndType ==
  ASSUME NEW a \in Seq(Int), NEW i \in 1 .. Len(a)
  PROVE  RunEnd(a, i) \in i .. Len(a)
<1> DEFINE ends == {j \in i .. Len(a) : \A k \in {j + 1} \cap DOMAIN a : ~IsDigit(a[k])}
<1>1. Len(a) \in Nat /\ DOMAIN a = 1 .. Len(a)
  OBVIOUS
<1>2. Len(a) + 1 \notin 1 .. Len(a) /\ Len(a) \in i .. Len(a)
  BY <1>1
<1>3. {Len(a) + 1} \cap DOMAIN a = {}
  BY <1>1, <1>2
<1>4. Len(a) \in ends
  BY <1>2, <1>3
<1>5. ends \subseteq Nat /\ ends \subseteq i .. Len(a)
  BY <1>1
<1> HIDE DEF ends
<1>6. \E m \in ends : \A k \in ends : m <= k
  BY <1>4, <1>5, Least
<1>7. Min(ends) \in ends
  BY <1>6 DEF Min
<1> QED
  BY <1>5, <1>7 DEF RunEnd, ends

\* What naturalCompare compares next, from position i, and where it goes on.
Run(a, i) == SubSeq(a, i, RunEnd(a, i))
After(a, i) == IF IsDigit(a[i]) THEN RunEnd(a, i) + 1 ELSE i + 1
Digits(a, b, i) == IsDigit(a[i]) /\ IsDigit(b[i])

TokenBefore(a, b, i) ==
  \/ i > Len(a) /\ i <= Len(b)
  \/ /\ i <= Len(a) /\ i <= Len(b)
     /\ IF Digits(a, b, i) THEN RunBefore(Run(a, i), Run(b, i)) ELSE a[i] < b[i]

TokenSame(a, b, i) ==
  \/ i > Len(a) /\ i > Len(b)
  \/ /\ i <= Len(a) /\ i <= Len(b)
     /\ IF Digits(a, b, i) THEN Run(a, i) = Run(b, i) ELSE a[i] = b[i]

\* A run lists what stands there.
LEMMA RunType ==
  ASSUME NEW a \in Seq(Int), NEW i \in 1 .. Len(a)
  PROVE  /\ Run(a, i) \in Seq(Int) /\ Len(Run(a, i)) = RunEnd(a, i) - i + 1
         /\ \A k \in 1 .. RunEnd(a, i) - i + 1 : Run(a, i)[k] = a[i + k - 1]
         /\ Run(a, i)[1] = a[i]
<1>1. RunEnd(a, i) \in i .. Len(a) /\ i \in Nat /\ Len(a) \in Nat
  BY RunEndType
<1> DEFINE e == RunEnd(a, i)
<1>2. e \in Nat /\ i <= e /\ e <= Len(a) /\ i >= 1
  BY <1>1
<1> HIDE DEF e
<1>3. SubSeq(a, i, e) \in Seq(Int)
  <2>1. \A m \in i .. e : a[m] \in Int
    BY <1>1, <1>2
  <2> QED
    BY <1>1, <1>2, <2>1, SubSeqProperties
<1>4. Len(SubSeq(a, i, e)) = e - i + 1
      /\ \A k \in 1 .. e - i + 1 : SubSeq(a, i, e)[k] = a[i + k - 1]
  BY <1>1, <1>2, SubSeqProperties
<1>5. 1 \in 1 .. e - i + 1 /\ i + 1 - 1 = i
  BY <1>1, <1>2
<1>6. SubSeq(a, i, e)[1] = a[i]
  BY <1>4, <1>5
<1> QED
  BY <1>3, <1>4, <1>6, Zenon DEF Run, e

\* The digits stand together in the order of bytes.
LEMMA DigitsTogether ==
  ASSUME NEW x \in Int, NEW y \in Int, NEW z \in Int
  PROVE  /\ x < y /\ y < z => x < z
         /\ IsDigit(x) /\ ~IsDigit(y) /\ IsDigit(z) => ~(x < y /\ y < z)
         /\ IsDigit(x) /\ IsDigit(y) /\ ~IsDigit(z) /\ y < z => x < z
         /\ ~IsDigit(x) /\ IsDigit(y) /\ IsDigit(z) /\ x < y => x < z
<1>1. \A k \in Int : IsDigit(k) <=> 0 <= k /\ k <= 9
  BY DEF IsDigit
<1> QED
  BY <1>1

\* Tokens at one position are totally ordered.
LEMMA TokenOrder ==
  ASSUME NEW a \in Seq(Int), NEW b \in Seq(Int), NEW c \in Seq(Int), NEW i \in Nat \ {0}
  PROVE  /\ ~TokenBefore(a, a, i) /\ TokenSame(a, a, i)
         /\ TokenSame(a, b, i) <=> ~TokenBefore(a, b, i) /\ ~TokenBefore(b, a, i)
         /\ TokenBefore(a, b, i) /\ TokenBefore(b, c, i) => TokenBefore(a, c, i)
         /\ TokenSame(a, b, i) /\ TokenBefore(b, c, i) => TokenBefore(a, c, i)
         /\ TokenBefore(a, b, i) /\ TokenSame(b, c, i) => TokenBefore(a, c, i)
<1> DEFINE ra == Run(a, i)
           rb == Run(b, i)
           rc == Run(c, i)
<1>1. Len(a) \in Nat /\ Len(b) \in Nat /\ Len(c) \in Nat
  OBVIOUS
<1>2. /\ i <= Len(a) => ra \in Seq(Int) /\ ra[1] = a[i] /\ a[i] \in Int
      /\ i <= Len(b) => rb \in Seq(Int) /\ rb[1] = b[i] /\ b[i] \in Int
      /\ i <= Len(c) => rc \in Seq(Int) /\ rc[1] = c[i] /\ c[i] \in Int
  <2>1. ASSUME NEW s \in Seq(Int), i <= Len(s)
        PROVE  Run(s, i) \in Seq(Int) /\ Run(s, i)[1] = s[i] /\ s[i] \in Int
    <3>1. i \in 1 .. Len(s)
      BY <2>1
    <3> QED
      BY <3>1, RunType
  <2> QED
    BY <2>1
<1>3. /\ i <= Len(a) => ~RunBefore(ra, ra)
      /\ i <= Len(a) /\ i <= Len(b) =>
           (ra = rb <=> ~RunBefore(ra, rb) /\ ~RunBefore(rb, ra))
      /\ i <= Len(a) /\ i <= Len(b) /\ i <= Len(c) =>
           (RunBefore(ra, rb) /\ RunBefore(rb, rc) => RunBefore(ra, rc))
  BY <1>2, RunOrder
<1> HIDE DEF ra, rb, rc
<1>4. /\ TokenBefore(a, a, i) <=> i <= Len(a) /\ (IF IsDigit(a[i]) THEN RunBefore(ra, ra) ELSE a[i] < a[i])
      /\ TokenSame(a, a, i)
  BY <1>1 DEF TokenBefore, TokenSame, Digits, ra
<1>5. /\ TokenBefore(a, b, i) <=>
           \/ i > Len(a) /\ i <= Len(b)
           \/ i <= Len(a) /\ i <= Len(b)
              /\ IF IsDigit(a[i]) /\ IsDigit(b[i]) THEN RunBefore(ra, rb) ELSE a[i] < b[i]
      /\ TokenBefore(b, a, i) <=>
           \/ i > Len(b) /\ i <= Len(a)
           \/ i <= Len(b) /\ i <= Len(a)
              /\ IF IsDigit(b[i]) /\ IsDigit(a[i]) THEN RunBefore(rb, ra) ELSE b[i] < a[i]
      /\ TokenSame(a, b, i) <=>
           \/ i > Len(a) /\ i > Len(b)
           \/ i <= Len(a) /\ i <= Len(b)
              /\ IF IsDigit(a[i]) /\ IsDigit(b[i]) THEN ra = rb ELSE a[i] = b[i]
  BY DEF TokenBefore, TokenSame, Digits, ra, rb
<1>6. /\ TokenBefore(b, c, i) <=>
           \/ i > Len(b) /\ i <= Len(c)
           \/ i <= Len(b) /\ i <= Len(c)
              /\ IF IsDigit(b[i]) /\ IsDigit(c[i]) THEN RunBefore(rb, rc) ELSE b[i] < c[i]
      /\ TokenSame(b, c, i) <=>
           \/ i > Len(b) /\ i > Len(c)
           \/ i <= Len(b) /\ i <= Len(c)
              /\ IF IsDigit(b[i]) /\ IsDigit(c[i]) THEN rb = rc ELSE b[i] = c[i]
      /\ TokenBefore(a, c, i) <=>
           \/ i > Len(a) /\ i <= Len(c)
           \/ i <= Len(a) /\ i <= Len(c)
              /\ IF IsDigit(a[i]) /\ IsDigit(c[i]) THEN RunBefore(ra, rc) ELSE a[i] < c[i]
  BY DEF TokenBefore, TokenSame, Digits, ra, rb, rc
<1>7. ~TokenBefore(a, a, i) /\ TokenSame(a, a, i)
  BY <1>2, <1>3, <1>4
<1>8. TokenSame(a, b, i) <=> ~TokenBefore(a, b, i) /\ ~TokenBefore(b, a, i)
  <2>1. CASE i <= Len(a) /\ i <= Len(b)
    <3>1. a[i] = b[i] <=> ~(a[i] < b[i]) /\ ~(b[i] < a[i])
      BY <1>2, <2>1
    <3>2. ra = rb <=> ~RunBefore(ra, rb) /\ ~RunBefore(rb, ra)
      BY <1>3, <2>1
    <3> QED
      BY <1>1, <1>5, <2>1, <3>1, <3>2
  <2>2. CASE ~(i <= Len(a) /\ i <= Len(b))
    BY <1>1, <1>5, <2>2
  <2> QED
    BY <2>1, <2>2
<1>9. CASE i <= Len(a) /\ i <= Len(b) /\ i <= Len(c)
  <2>1. /\ a[i] < b[i] /\ b[i] < c[i] => a[i] < c[i]
        /\ IsDigit(a[i]) /\ ~IsDigit(b[i]) /\ IsDigit(c[i]) => ~(a[i] < b[i] /\ b[i] < c[i])
        /\ IsDigit(a[i]) /\ IsDigit(b[i]) /\ ~IsDigit(c[i]) /\ b[i] < c[i] => a[i] < c[i]
        /\ ~IsDigit(a[i]) /\ IsDigit(b[i]) /\ IsDigit(c[i]) /\ a[i] < b[i] => a[i] < c[i]
    BY <1>2, <1>9, DigitsTogether, Zenon
  <2>2. /\ ra = rb => a[i] = b[i]
        /\ rb = rc => b[i] = c[i]
    BY <1>2, <1>9
  <2>3. a[i] \in Int /\ b[i] \in Int /\ c[i] \in Int
    BY <1>2, <1>9
  <2>7. /\ TokenBefore(a, b, i) <=>
             IF IsDigit(a[i]) /\ IsDigit(b[i]) THEN RunBefore(ra, rb) ELSE a[i] < b[i]
        /\ TokenSame(a, b, i) <=> IF IsDigit(a[i]) /\ IsDigit(b[i]) THEN ra = rb ELSE a[i] = b[i]
        /\ TokenBefore(b, c, i) <=>
             IF IsDigit(b[i]) /\ IsDigit(c[i]) THEN RunBefore(rb, rc) ELSE b[i] < c[i]
        /\ TokenSame(b, c, i) <=> IF IsDigit(b[i]) /\ IsDigit(c[i]) THEN rb = rc ELSE b[i] = c[i]
        /\ TokenBefore(a, c, i) <=>
             IF IsDigit(a[i]) /\ IsDigit(c[i]) THEN RunBefore(ra, rc) ELSE a[i] < c[i]
    BY <1>1, <1>5, <1>6, <1>9
  <2>4. TokenBefore(a, b, i) /\ TokenBefore(b, c, i) => TokenBefore(a, c, i)
    BY <1>3, <1>9, <2>1, <2>7, Zenon
  <2>5. TokenSame(a, b, i) /\ TokenBefore(b, c, i) => TokenBefore(a, c, i)
    BY <2>1, <2>2, <2>7, Zenon
  <2>6. TokenBefore(a, b, i) /\ TokenSame(b, c, i) => TokenBefore(a, c, i)
    BY <2>1, <2>2, <2>7, Zenon
  <2> QED
    BY <1>7, <1>8, <2>4, <2>5, <2>6
<1>10. CASE ~(i <= Len(a) /\ i <= Len(b) /\ i <= Len(c))
  <2>1. /\ TokenBefore(a, b, i) /\ TokenBefore(b, c, i) => TokenBefore(a, c, i)
        /\ TokenSame(a, b, i) /\ TokenBefore(b, c, i) => TokenBefore(a, c, i)
        /\ TokenBefore(a, b, i) /\ TokenSame(b, c, i) => TokenBefore(a, c, i)
    BY <1>1, <1>5, <1>6, <1>10
  <2> QED
    BY <1>7, <1>8, <2>1
<1> QED
  BY <1>9, <1>10

Positions(a, b) == (1 .. Len(a) + 1) \X (1 .. Len(b) + 1)

\* What the recursion of NaturalCompare answers at p, if f answers further on.
Judged(a, b, f, p) ==
  LET i == p[1]
      j == p[2]
  IN  IF i > Len(a) \/ j > Len(b)
      THEN IF i <= Len(a) THEN 1 ELSE IF j <= Len(b) THEN -1 ELSE 0
      ELSE IF IsDigit(a[i]) /\ IsDigit(b[j])
           THEN LET c == CompareRuns(SubSeq(a, i, RunEnd(a, i)), SubSeq(b, j, RunEnd(b, j)))
                IN  IF c # 0 THEN c ELSE f[<<RunEnd(a, i) + 1, RunEnd(b, j) + 1>>]
           ELSE IF a[i] # b[j] THEN Sign(a[i] < b[j]) ELSE f[<<i + 1, j + 1>>]

IsCompare(a, b, f) == f = [p \in Positions(a, b) |-> Judged(a, b, f, p)]

\* It looks only further on.
LEMMA JudgedAhead ==
  ASSUME NEW a \in Seq(Int), NEW b \in Seq(Int), NEW f, NEW g, NEW p \in Positions(a, b),
         \A q \in Positions(a, b) : q[1] > p[1] => f[q] = g[q]
  PROVE  Judged(a, b, f, p) = Judged(a, b, g, p)
<1> DEFINE i == p[1]
           j == p[2]
<1>1. Len(a) \in Nat /\ Len(b) \in Nat /\ i \in 1 .. Len(a) + 1 /\ j \in 1 .. Len(b) + 1
  BY DEF Positions
<1> HIDE DEF i, j
<1>2. CASE i > Len(a) \/ j > Len(b)
  BY <1>2 DEF Judged, i, j
<1>3. CASE i <= Len(a) /\ j <= Len(b)
  <2>1. i \in 1 .. Len(a) /\ j \in 1 .. Len(b)
    BY <1>1, <1>3
  <2>2. RunEnd(a, i) \in i .. Len(a) /\ RunEnd(b, j) \in j .. Len(b)
    BY <2>1, RunEndType
  <2>3. /\ RunEnd(a, i) + 1 \in 1 .. Len(a) + 1 /\ RunEnd(a, i) + 1 > i
        /\ RunEnd(b, j) + 1 \in 1 .. Len(b) + 1
        /\ i + 1 \in 1 .. Len(a) + 1 /\ i + 1 > i /\ j + 1 \in 1 .. Len(b) + 1
    <3>1. \A m, n \in Nat : \A e \in m .. n :
            m >= 1 => e + 1 \in 1 .. n + 1 /\ e + 1 > m
      OBVIOUS
    <3>2. i \in Nat /\ j \in Nat /\ i >= 1 /\ j >= 1 /\ i \in i .. Len(a) /\ j \in j .. Len(b)
      BY <1>1, <1>3
    <3> QED
      BY <1>1, <2>2, <3>1, <3>2, Zenon
  <2>4. f[<<RunEnd(a, i) + 1, RunEnd(b, j) + 1>>] = g[<<RunEnd(a, i) + 1, RunEnd(b, j) + 1>>]
    BY <2>3 DEF Positions, i
  <2>5. f[<<i + 1, j + 1>>] = g[<<i + 1, j + 1>>]
    BY <2>3 DEF Positions, i
  <2> QED
    BY <2>4, <2>5, Zenon DEF Judged, i, j
<1> QED
  BY <1>1, <1>2, <1>3

\* The recursion has a solution; by the longest rest of a without one.
LEMMA CompareExists ==
  ASSUME NEW a \in Seq(Int), NEW b \in Seq(Int)
  PROVE  \E f : IsCompare(a, b, f)
<1> DEFINE P == Positions(a, b)
           n == Len(a) + 1
           Solved(f, k) ==
             /\ f = [p \in P |-> f[p]]
             /\ \A p \in P : p[1] > n - k => f[p] = Judged(a, b, f, p)
           Bad == {k \in 0 .. n : ~\E f : Solved(f, k)}
<1>1. n \in Nat /\ \A p \in P : p[1] \in 1 .. n
  BY DEF Positions
<1> HIDE DEF P, n
<1>2. Bad \subseteq 0 .. n /\ Bad \in SUBSET Nat
  BY <1>1
<1>3. 0 \notin Bad
  <2> DEFINE f == [p \in P |-> 0]
  <2>1. f = [p \in P |-> f[p]]
    OBVIOUS
  <2>2. Solved(f, 0)
    BY <1>1, <2>1
  <2> QED
    BY <2>2
<1>4. ASSUME NEW k \in 0 .. n, k \notin Bad, k + 1 \in 0 .. n
      PROVE  k + 1 \notin Bad
  <2>1. PICK f : Solved(f, k)
    BY <1>4
  <2> DEFINE g == [p \in P |-> Judged(a, b, f, p)]
  <2>2. g = [p \in P |-> g[p]]
    OBVIOUS
  <2>3. ASSUME NEW p \in P, p[1] > n - (k + 1)
        PROVE  g[p] = Judged(a, b, g, p)
    <3>1. ASSUME NEW q \in P, q[1] > p[1]
          PROVE  f[q] = g[q]
      <4>1. q[1] > n - k
        BY <1>1, <1>4, <2>3, <3>1
      <4> QED
        BY <2>1, <4>1
    <3> HIDE DEF g
    <3>2. Judged(a, b, f, p) = Judged(a, b, g, p)
      BY <3>1, JudgedAhead DEF P
    <3> QED
      BY <3>2 DEF g
  <2> HIDE DEF g
  <2>4. Solved(g, k + 1)
    BY <2>2, <2>3
  <2> QED
    BY <2>4
<1> HIDE DEF Bad
<1>5. Bad = {}
  <2> SUFFICES ASSUME Bad # {} PROVE FALSE
    OBVIOUS
  <2>1. PICK m \in Bad : \A k \in Bad : m <= k
    BY <1>2, Least
  <2>2. m \in 0 .. n /\ m # 0
    BY <1>2, <1>3
  <2>3. m - 1 \in 0 .. n /\ m - 1 + 1 = m /\ ~(m <= m - 1)
    BY <1>1, <2>2
  <2>4. m - 1 \notin Bad
    BY <2>1, <2>3
  <2>5. m \notin Bad
    BY <1>4, <2>2, <2>3, <2>4
  <2> QED
    BY <2>1, <2>5
<1>6. PICK f : Solved(f, n)
  <2>1. n \in 0 .. n /\ n \notin Bad
    BY <1>1, <1>5
  <2> QED
    BY <2>1, Zenon DEF Bad
<1>7. \A p \in P : f[p] = Judged(a, b, f, p)
  BY <1>1, <1>6
<1>8. f = [p \in P |-> Judged(a, b, f, p)]
  <2>1. [p \in P |-> f[p]] = [p \in P |-> Judged(a, b, f, p)]
    BY <1>7, Zenon
  <2> QED
    BY <1>6, <2>1, Zenon
<1> QED
  BY <1>8, Zenon DEF IsCompare, P

\* The answers at every pair of positions.
Compared(a, b) == CHOOSE f : IsCompare(a, b, f)

\* NaturalCompare starts that recursion at the beginning of both.
LEMMA NaturalCompareMeans ==
  ASSUME NEW a, NEW b
  PROVE  NaturalCompare(a, b) = Compared(a, b)[<<1, 1>>]
BY Zenon DEF NaturalCompare, Compared, IsCompare, Judged, Positions

\* At one position in both it answers by the tokens there, or goes on behind them.
LEMMA ComparedStep ==
  ASSUME NEW a \in Seq(Int), NEW b \in Seq(Int), NEW i \in 1 .. Len(a) + 1, i \in 1 .. Len(b) + 1
  PROVE  Compared(a, b)[<<i, i>>] =
           IF TokenSame(a, b, i)
           THEN IF i > Len(a) THEN 0 ELSE Compared(a, b)[<<After(a, i), After(b, i)>>]
           ELSE IF TokenBefore(a, b, i) THEN -1 ELSE 1
<1> DEFINE f == Compared(a, b)
<1>1. IsCompare(a, b, f)
  BY CompareExists, Zenon DEF Compared
<1>2. <<i, i>> \in Positions(a, b)
  BY DEF Positions
<1> HIDE DEF f
<1>3. f[<<i, i>>] = Judged(a, b, f, <<i, i>>)
  <2> DEFINE P == Positions(a, b)
             J(p) == Judged(a, b, f, p)
  <2> HIDE DEF P, J
  <2>1. f = [p \in P |-> J(p)]
    BY <1>1, Zenon DEF IsCompare, P, J
  <2>2. f[<<i, i>>] = J(<<i, i>>)
    BY <1>2, <2>1 DEF P
  <2> QED
    BY <2>2 DEF J
<1>4. Len(a) \in Nat /\ Len(b) \in Nat /\ i \in Nat \ {0}
  OBVIOUS
<1> DEFINE c == CompareRuns(Run(a, i), Run(b, i))
<1>5. Judged(a, b, f, <<i, i>>) =
        IF i > Len(a) \/ i > Len(b)
        THEN IF i <= Len(a) THEN 1 ELSE IF i <= Len(b) THEN -1 ELSE 0
        ELSE IF Digits(a, b, i)
             THEN IF c # 0 THEN c ELSE f[<<RunEnd(a, i) + 1, RunEnd(b, i) + 1>>]
             ELSE IF a[i] # b[i] THEN Sign(a[i] < b[i]) ELSE f[<<i + 1, i + 1>>]
  BY DEF Judged, Digits, Run
<1> HIDE DEF c
<1>6. CASE i > Len(a) \/ i > Len(b)
  BY <1>3, <1>4, <1>5, <1>6 DEF TokenSame, TokenBefore, f
<1>7. CASE i <= Len(a) /\ i <= Len(b) /\ Digits(a, b, i)
  <2>1. i \in 1 .. Len(a) /\ i \in 1 .. Len(b)
    BY <1>4, <1>7
  <2>2. c = IF Run(a, i) = Run(b, i) THEN 0 ELSE IF RunBefore(Run(a, i), Run(b, i)) THEN -1 ELSE 1
    BY <2>1, RunType, CompareRunsMeans DEF c
  <2>3. After(a, i) = RunEnd(a, i) + 1 /\ After(b, i) = RunEnd(b, i) + 1
    BY <1>7 DEF After, Digits
  <2>4. TokenSame(a, b, i) <=> Run(a, i) = Run(b, i)
    BY <1>4, <1>7 DEF TokenSame
  <2>5. TokenBefore(a, b, i) <=> RunBefore(Run(a, i), Run(b, i))
    BY <1>4, <1>7 DEF TokenBefore
  <2> QED
    BY <1>3, <1>4, <1>5, <1>7, <2>2, <2>3, <2>4, <2>5 DEF f
<1>8. CASE i <= Len(a) /\ i <= Len(b) /\ ~Digits(a, b, i)
  <2>1. TokenSame(a, b, i) <=> a[i] = b[i]
    BY <1>4, <1>8 DEF TokenSame
  <2>2. TokenBefore(a, b, i) <=> a[i] < b[i]
    BY <1>4, <1>8 DEF TokenBefore
  <2>3. a[i] = b[i] => After(a, i) = i + 1 /\ After(b, i) = i + 1
    BY <1>8 DEF After, Digits
  <2>4. Sign(a[i] < b[i]) = IF a[i] < b[i] THEN -1 ELSE 1
    BY Zenon DEF Sign
  <2>5. f[<<i, i>>] = IF a[i] # b[i] THEN Sign(a[i] < b[i]) ELSE f[<<i + 1, i + 1>>]
    BY <1>3, <1>4, <1>5, <1>8
  <2>6. ~(i > Len(a))
    BY <1>4, <1>8
  <2> QED
    BY <2>1, <2>2, <2>3, <2>4, <2>5, <2>6, Zenon DEF f
<1> QED
  BY <1>4, <1>6, <1>7, <1>8

\* Behind equal tokens both go on at one position, and are the same up to it.
LEMMA SameGoesOn ==
  ASSUME NEW a \in Seq(Int), NEW b \in Seq(Int), NEW i \in 1 .. Len(a), i \in 1 .. Len(b),
         TokenSame(a, b, i)
  PROVE  /\ After(a, i) = After(b, i) /\ After(a, i) > i
         /\ After(a, i) \in 1 .. Len(a) + 1 /\ After(b, i) \in 1 .. Len(b) + 1
         /\ \A k \in i .. After(a, i) - 1 : a[k] = b[k]
<1>1. Len(a) \in Nat /\ Len(b) \in Nat /\ i \in Nat \ {0} /\ i <= Len(a) /\ i <= Len(b)
  OBVIOUS
<1>2. RunEnd(a, i) \in i .. Len(a) /\ RunEnd(b, i) \in i .. Len(b)
  BY RunEndType
<1>3. CASE Digits(a, b, i)
  <2>1. Run(a, i) = Run(b, i)
    BY <1>1, <1>3 DEF TokenSame
  <2>2. After(a, i) = RunEnd(a, i) + 1 /\ After(b, i) = RunEnd(b, i) + 1
    BY <1>3 DEF After, Digits
  <2>3. Len(Run(a, i)) = RunEnd(a, i) - i + 1 /\ Len(Run(b, i)) = RunEnd(b, i) - i + 1
    BY RunType
  <2>4. RunEnd(a, i) = RunEnd(b, i)
    BY <1>1, <1>2, <2>1, <2>3
  <2>5. ASSUME NEW k \in i .. RunEnd(a, i)
        PROVE  a[k] = b[k]
    <3>1. k - i + 1 \in 1 .. RunEnd(a, i) - i + 1 /\ i + (k - i + 1) - 1 = k
      BY <1>1, <1>2
    <3>2. Run(a, i)[k - i + 1] = a[i + (k - i + 1) - 1]
      BY <3>1, RunType
    <3>3. Run(b, i)[k - i + 1] = b[i + (k - i + 1) - 1]
      BY <2>4, <3>1, RunType
    <3> QED
      BY <2>1, <3>1, <3>2, <3>3
  <2>6. After(a, i) - 1 = RunEnd(a, i)
    BY <1>1, <1>2, <2>2
  <2>7. \A k \in i .. After(a, i) - 1 : a[k] = b[k]
    BY <2>5, <2>6, Zenon
  <2>8. After(a, i) = After(b, i) /\ After(a, i) > i
        /\ After(a, i) \in 1 .. Len(a) + 1 /\ After(b, i) \in 1 .. Len(b) + 1
    BY <1>1, <1>2, <2>2, <2>4
  <2> QED
    BY <2>7, <2>8
<1>4. CASE ~Digits(a, b, i)
  <2>1. a[i] = b[i]
    BY <1>1, <1>4 DEF TokenSame
  <2>2. After(a, i) = i + 1 /\ After(b, i) = i + 1
    BY <1>4, <2>1 DEF After, Digits
  <2>3. \A k \in i .. After(a, i) - 1 : k = i
    BY <1>1, <2>2
  <2>4. After(a, i) = After(b, i) /\ After(a, i) > i
        /\ After(a, i) \in 1 .. Len(a) + 1 /\ After(b, i) \in 1 .. Len(b) + 1
    BY <1>1, <2>2
  <2> QED
    BY <2>1, <2>3, <2>4
<1> QED
  BY <1>3, <1>4

\* What holds at a position when it holds behind it holds everywhere.
LEMMA FromTheEnd ==
  ASSUME NEW n \in Nat, NEW Good \in SUBSET (1 .. n),
         \A i \in 1 .. n : (\A j \in 1 .. n : j > i => j \in Good) => i \in Good
  PROVE  Good = 1 .. n
<1> DEFINE Left == {n - i : i \in (1 .. n) \ Good}
<1>1. Left \in SUBSET Nat
  OBVIOUS
<1> SUFFICES ASSUME Good # 1 .. n PROVE FALSE
  OBVIOUS
<1>0. Left # {}
  <2>1. PICK i \in 1 .. n : i \notin Good
    OBVIOUS
  <2>2. n - i \in Left
    BY <2>1
  <2> QED
    BY <2>2
<1>2. PICK m \in Left : \A k \in Left : m <= k
  BY <1>0, <1>1, Least
<1>3. PICK i \in (1 .. n) \ Good : m = n - i
  OBVIOUS
<1>4. ASSUME NEW j \in 1 .. n, j > i, j \notin Good
      PROVE  FALSE
  <2>1. n - j \in Left
    BY <1>4
  <2>2. ~(m <= n - j)
    BY <1>3, <1>4
  <2> QED
    BY <1>2, <2>1, <2>2
<1> QED
  BY <1>3, <1>4

\* What the two orders of asking answer from position i on.
Mirrored(a, b, i) ==
  LET ab == Compared(a, b)[<<i, i>>]
  IN  /\ ab \in {-1, 0, 1}
      /\ Compared(b, a)[<<i, i>>] = IF ab = 0 THEN 0 ELSE IF ab = 1 THEN -1 ELSE 1
      /\ ab = 0 => Len(a) = Len(b) /\ \A k \in i .. Len(a) : a[k] = b[k]

\* Asked the other way round it answers the other way round, and 0 only for the
\* same bytes.
LEMMA ComparedMirrored ==
  ASSUME NEW a \in Seq(Int), NEW b \in Seq(Int)
  PROVE  \A i \in 1 .. Len(a) + 1 : i <= Len(b) + 1 => Mirrored(a, b, i)
<1> DEFINE n == Len(a) + 1
           Good == {i \in 1 .. n : i <= Len(b) + 1 => Mirrored(a, b, i)}
<1>0. Len(a) \in Nat /\ Len(b) \in Nat /\ n \in Nat
  OBVIOUS
<1>1. ASSUME NEW i \in 1 .. n, i <= Len(b) + 1, \A j \in 1 .. n : j > i => j \in Good
      PROVE  Mirrored(a, b, i)
  <2> DEFINE ab == Compared(a, b)[<<i, i>>]
             ba == Compared(b, a)[<<i, i>>]
  <2>1. i \in Nat \ {0} /\ i \in 1 .. Len(a) + 1 /\ i \in 1 .. Len(b) + 1
    BY <1>0, <1>1
  <2>2. ab = IF TokenSame(a, b, i)
             THEN IF i > Len(a) THEN 0 ELSE Compared(a, b)[<<After(a, i), After(b, i)>>]
             ELSE IF TokenBefore(a, b, i) THEN -1 ELSE 1
    BY <2>1, ComparedStep
  <2>3. ba = IF TokenSame(b, a, i)
             THEN IF i > Len(b) THEN 0 ELSE Compared(b, a)[<<After(b, i), After(a, i)>>]
             ELSE IF TokenBefore(b, a, i) THEN -1 ELSE 1
    BY <2>1, ComparedStep
  <2>4. /\ TokenSame(a, b, i) <=> ~TokenBefore(a, b, i) /\ ~TokenBefore(b, a, i)
        /\ TokenSame(b, a, i) <=> ~TokenBefore(a, b, i) /\ ~TokenBefore(b, a, i)
        /\ ~(TokenBefore(a, b, i) /\ TokenBefore(b, a, i))
    BY <2>1, TokenOrder
  <2> HIDE DEF ab, ba
  <2>5. CASE ~TokenSame(a, b, i)
    <3>1. ab = (IF TokenBefore(a, b, i) THEN -1 ELSE 1) /\ ba = (IF TokenBefore(b, a, i) THEN -1 ELSE 1)
      BY <2>2, <2>3, <2>4, <2>5
    <3> QED
      BY <2>4, <2>5, <3>1 DEF Mirrored, ab, ba
  <2>6. CASE TokenSame(a, b, i) /\ i > Len(a)
    <3>1. i > Len(b)
      BY <1>0, <2>1, <2>6 DEF TokenSame
    <3>2. ab = 0 /\ ba = 0
      BY <2>2, <2>3, <2>4, <2>6, <3>1
    <3>3. Len(a) = Len(b) /\ \A k \in i .. Len(a) : a[k] = b[k]
      BY <1>0, <2>1, <2>6, <3>1
    <3> QED
      BY <3>2, <3>3 DEF Mirrored, ab, ba
  <2>7. CASE TokenSame(a, b, i) /\ ~(i > Len(a))
    <3>1. i \in 1 .. Len(a) /\ i \in 1 .. Len(b)
      BY <1>0, <2>1, <2>7 DEF TokenSame
    <3> DEFINE j == After(a, i)
    <3>2. /\ After(b, i) = j /\ j > i
          /\ j \in 1 .. Len(a) + 1 /\ j \in 1 .. Len(b) + 1
          /\ \A k \in i .. j - 1 : a[k] = b[k]
      BY <2>7, <3>1, SameGoesOn
    <3> HIDE DEF j
    <3>3. Mirrored(a, b, j)
      BY <1>0, <1>1, <3>2
    <3>4. ab = Compared(a, b)[<<j, j>>] /\ ba = Compared(b, a)[<<j, j>>]
      <4>1. ~(i > Len(b)) /\ TokenSame(b, a, i)
        BY <1>0, <2>4, <2>7, <3>1
      <4> QED
        BY <2>2, <2>3, <2>7, <3>2, <4>1 DEF j
    <3>5. ab = 0 => Len(a) = Len(b) /\ \A k \in i .. Len(a) : a[k] = b[k]
      <4>1. ASSUME ab = 0, NEW k \in i .. Len(a)
            PROVE  a[k] = b[k]
        <5>1. \A l \in j .. Len(a) : a[l] = b[l]
          BY <3>3, <3>4, <4>1 DEF Mirrored
        <5>2. k \in i .. j - 1 \/ k \in j .. Len(a)
          BY <1>0, <3>2
        <5> QED
          BY <3>2, <5>1, <5>2
      <4>2. ab = 0 => Len(a) = Len(b)
        BY <3>3, <3>4 DEF Mirrored
      <4> QED
        BY <4>1, <4>2
    <3> QED
      BY <3>3, <3>4, <3>5, Zenon DEF Mirrored, ab, ba
  <2> QED
    BY <2>5, <2>6, <2>7
<1>2. Good \in SUBSET (1 .. n)
  OBVIOUS
<1>3. \A i \in 1 .. n : (\A j \in 1 .. n : j > i => j \in Good) => i \in Good
  BY <1>1
<1> HIDE DEF Good, n
<1>4. Good = 1 .. n
  BY <1>0, <1>2, <1>3, FromTheEnd
<1> QED
  BY <1>4 DEF Good, n

\* Suffixes are ordered from every position on.
LEMMA ComparedTransitive ==
  ASSUME NEW a \in Seq(Int), NEW b \in Seq(Int), NEW c \in Seq(Int)
  PROVE  \A i \in 1 .. Len(a) + 1 :
           /\ i <= Len(b) + 1 /\ i <= Len(c) + 1
           /\ Compared(a, b)[<<i, i>>] = -1 /\ Compared(b, c)[<<i, i>>] = -1
           => Compared(a, c)[<<i, i>>] = -1
<1> DEFINE n == Len(a) + 1
           ab(i) == Compared(a, b)[<<i, i>>]
           bc(i) == Compared(b, c)[<<i, i>>]
           ac(i) == Compared(a, c)[<<i, i>>]
           Good == {i \in 1 .. n : /\ i <= Len(b) + 1 /\ i <= Len(c) + 1
                                   /\ ab(i) = -1 /\ bc(i) = -1
                                   => ac(i) = -1}
<1>0. Len(a) \in Nat /\ Len(b) \in Nat /\ Len(c) \in Nat /\ n \in Nat
  OBVIOUS
<1>1. ASSUME NEW i \in 1 .. n, i <= Len(b) + 1, i <= Len(c) + 1, ab(i) = -1, bc(i) = -1,
             \A j \in 1 .. n : j > i => j \in Good
      PROVE  ac(i) = -1
  <2>1. i \in Nat \ {0} /\ i \in 1 .. Len(a) + 1 /\ i \in 1 .. Len(b) + 1 /\ i \in 1 .. Len(c) + 1
    BY <1>0, <1>1
  <2>2. /\ ab(i) = IF TokenSame(a, b, i)
                   THEN IF i > Len(a) THEN 0 ELSE Compared(a, b)[<<After(a, i), After(b, i)>>]
                   ELSE IF TokenBefore(a, b, i) THEN -1 ELSE 1
        /\ bc(i) = IF TokenSame(b, c, i)
                   THEN IF i > Len(b) THEN 0 ELSE Compared(b, c)[<<After(b, i), After(c, i)>>]
                   ELSE IF TokenBefore(b, c, i) THEN -1 ELSE 1
        /\ ac(i) = IF TokenSame(a, c, i)
                   THEN IF i > Len(a) THEN 0 ELSE Compared(a, c)[<<After(a, i), After(c, i)>>]
                   ELSE IF TokenBefore(a, c, i) THEN -1 ELSE 1
    BY <2>1, ComparedStep
  <2>3. /\ TokenBefore(a, b, i) /\ TokenBefore(b, c, i) => TokenBefore(a, c, i)
        /\ TokenSame(a, b, i) /\ TokenBefore(b, c, i) => TokenBefore(a, c, i)
        /\ TokenBefore(a, b, i) /\ TokenSame(b, c, i) => TokenBefore(a, c, i)
        /\ TokenBefore(a, c, i) => ~TokenSame(a, c, i)
    BY <2>1, TokenOrder
  <2>4. ab(i) = -1 /\ bc(i) = -1
    BY <1>1
  <2> HIDE DEF ab, bc, ac
  <2>5. CASE ~TokenSame(a, b, i) \/ ~TokenSame(b, c, i)
    <3>1. ~TokenSame(a, b, i) => TokenBefore(a, b, i)
      BY <2>2, <2>4
    <3>2. ~TokenSame(b, c, i) => TokenBefore(b, c, i)
      BY <2>2, <2>4
    <3> QED
      BY <2>2, <2>3, <2>5, <3>1, <3>2
  <2>6. CASE TokenSame(a, b, i) /\ TokenSame(b, c, i)
    <3>1. ~(i > Len(a)) /\ ~(i > Len(b))
      BY <2>2, <2>4, <2>6
    <3>2. i \in 1 .. Len(a) /\ i \in 1 .. Len(b) /\ i \in 1 .. Len(c)
      BY <1>0, <2>1, <2>6, <3>1 DEF TokenSame
    <3>3. TokenSame(a, c, i)
      <4>1. /\ TokenSame(b, a, i)
            /\ TokenSame(b, a, i) /\ TokenBefore(a, c, i) => TokenBefore(b, c, i)
            /\ TokenBefore(c, a, i) /\ TokenSame(a, b, i) => TokenBefore(c, b, i)
            /\ TokenSame(b, c, i) => ~TokenBefore(b, c, i) /\ ~TokenBefore(c, b, i)
            /\ ~TokenBefore(a, c, i) /\ ~TokenBefore(c, a, i) => TokenSame(a, c, i)
        BY <2>1, <2>6, TokenOrder
      <4> QED
        BY <2>6, <4>1
    <3> DEFINE j == After(a, i)
    <3>4. After(b, i) = j /\ After(c, i) = j /\ j > i
          /\ j \in 1 .. Len(a) + 1 /\ j \in 1 .. Len(b) + 1 /\ j \in 1 .. Len(c) + 1
      BY <2>6, <3>2, <3>3, SameGoesOn
    <3>5. ab(i) = ab(j) /\ bc(i) = bc(j) /\ ac(i) = ac(j)
      BY <2>2, <2>6, <3>1, <3>3, <3>4 DEF ab, bc, ac
    <3> HIDE DEF j
    <3>6. j \in Good /\ j <= Len(b) + 1 /\ j <= Len(c) + 1
      BY <1>0, <1>1, <3>4
    <3> QED
      BY <2>4, <3>5, <3>6
  <2> QED
    BY <2>5, <2>6
<1>2. Good \in SUBSET (1 .. n)
  OBVIOUS
<1>3. \A i \in 1 .. n : (\A j \in 1 .. n : j > i => j \in Good) => i \in Good
  BY <1>1
<1> HIDE DEF Good, n
<1>4. Good = 1 .. n
  BY <1>0, <1>2, <1>3, FromTheEnd
<1> QED
  BY <1>4 DEF Good, n

\* naturalCompare answers -1, 0 or 1, the other way round when asked the other way
\* round, 0 for no two different suffixes, and orders three as it orders two: the
\* "deterministic total order" its comment promises.
THEOREM NaturalCompareTotal ==
  ASSUME NEW a \in Seq(Int), NEW b \in Seq(Int), NEW c \in Seq(Int)
  PROVE  /\ NaturalCompare(a, b) \in {-1, 0, 1}
         /\ NaturalCompare(b, a) = -NaturalCompare(a, b)
         /\ NaturalCompare(a, b) = 0 <=> a = b
         /\ NaturalCompare(a, b) > 0 /\ NaturalCompare(b, c) > 0 => NaturalCompare(a, c) > 0
<1>1. /\ 1 \in 1 .. Len(a) + 1 /\ 1 \in 1 .. Len(b) + 1 /\ 1 \in 1 .. Len(c) + 1
      /\ 1 <= Len(a) + 1 /\ 1 <= Len(b) + 1 /\ 1 <= Len(c) + 1
  <2>1. Len(a) \in Nat /\ Len(b) \in Nat /\ Len(c) \in Nat
    OBVIOUS
  <2> QED
    BY <2>1
<1>2. ASSUME NEW s \in Seq(Int), NEW t \in Seq(Int), 1 \in 1 .. Len(s) + 1, 1 <= Len(t) + 1
      PROVE  /\ NaturalCompare(s, t) \in {-1, 0, 1}
             /\ NaturalCompare(t, s) = IF NaturalCompare(s, t) = 0 THEN 0
                                       ELSE IF NaturalCompare(s, t) = 1 THEN -1 ELSE 1
             /\ NaturalCompare(s, t) = 0 => s = t
  <2>1. Mirrored(s, t, 1)
    BY <1>2, ComparedMirrored
  <2>2. NaturalCompare(s, t) = Compared(s, t)[<<1, 1>>] /\ NaturalCompare(t, s) = Compared(t, s)[<<1, 1>>]
    BY NaturalCompareMeans
  <2>3. NaturalCompare(s, t) = 0 => Len(s) = Len(t) /\ \A k \in 1 .. Len(s) : s[k] = t[k]
    BY <2>1, <2>2 DEF Mirrored
  <2>4. NaturalCompare(s, t) = 0 => s = t
    BY <2>3, SeqEqual
  <2> QED
    BY <2>1, <2>2, <2>4 DEF Mirrored
<1>3. NaturalCompare(a, a) = 0
  BY <1>1, <1>2
<1>4. NaturalCompare(c, b) = -1 /\ NaturalCompare(b, a) = -1 => NaturalCompare(c, a) = -1
  BY <1>1, ComparedTransitive, NaturalCompareMeans
<1>5. /\ NaturalCompare(a, b) \in {-1, 0, 1}
      /\ NaturalCompare(b, a) = IF NaturalCompare(a, b) = 0 THEN 0
                                ELSE IF NaturalCompare(a, b) = 1 THEN -1 ELSE 1
      /\ NaturalCompare(a, b) = 0 => a = b
  BY <1>1, <1>2
<1>6. /\ NaturalCompare(b, c) \in {-1, 0, 1}
      /\ NaturalCompare(c, b) = IF NaturalCompare(b, c) = 0 THEN 0
                                ELSE IF NaturalCompare(b, c) = 1 THEN -1 ELSE 1
  BY <1>1, <1>2
<1>7. /\ NaturalCompare(a, c) \in {-1, 0, 1}
      /\ NaturalCompare(c, a) = IF NaturalCompare(a, c) = 0 THEN 0
                                ELSE IF NaturalCompare(a, c) = 1 THEN -1 ELSE 1
  BY <1>1, <1>2
<1> QED
  BY <1>3, <1>4, <1>5, <1>6, <1>7

\* Versions that parse.
Parsed == [core : Nat, suffix : Seq(Int)]

\* Greater is a strict order of the versions that parse, and total: no chain of
\* replacements, each to a greater version, comes back to where it began.
THEOREM GreaterOrdersVersions ==
  ASSUME NEW u \in Parsed, NEW v \in Parsed, NEW w \in Parsed
  PROVE  /\ ~Greater(u, u)
         /\ Greater(u, v) /\ Greater(v, w) => Greater(u, w)
         /\ u # v => Greater(u, v) \/ Greater(v, u)
<1> DEFINE N(s, t) == NaturalCompare(s, t)
<1>1. /\ u.core \in Nat /\ v.core \in Nat /\ w.core \in Nat
      /\ u.suffix \in Seq(Int) /\ v.suffix \in Seq(Int) /\ w.suffix \in Seq(Int)
  BY DEF Parsed
<1>2. u.core = v.core /\ u.suffix = v.suffix => u = v
  BY DEF Parsed
<1>3. /\ N(u.suffix, v.suffix) \in {-1, 0, 1}
      /\ N(v.suffix, u.suffix) = -N(u.suffix, v.suffix)
      /\ N(u.suffix, v.suffix) = 0 <=> u.suffix = v.suffix
      /\ N(u.suffix, u.suffix) = 0
      /\ N(u.suffix, v.suffix) > 0 /\ N(v.suffix, w.suffix) > 0 => N(u.suffix, w.suffix) > 0
  BY <1>1, NaturalCompareTotal
<1> HIDE DEF N
<1>4. /\ Greater(u, v) <=>
           \/ u.core > v.core
           \/ /\ u.core = v.core
              /\ \/ u.suffix = <<>> /\ v.suffix # <<>>
                 \/ u.suffix # <<>> /\ v.suffix # <<>> /\ N(u.suffix, v.suffix) > 0
      /\ Greater(v, u) <=>
           \/ v.core > u.core
           \/ /\ v.core = u.core
              /\ \/ v.suffix = <<>> /\ u.suffix # <<>>
                 \/ v.suffix # <<>> /\ u.suffix # <<>> /\ N(v.suffix, u.suffix) > 0
      /\ Greater(v, w) <=>
           \/ v.core > w.core
           \/ /\ v.core = w.core
              /\ \/ v.suffix = <<>> /\ w.suffix # <<>>
                 \/ v.suffix # <<>> /\ w.suffix # <<>> /\ N(v.suffix, w.suffix) > 0
      /\ Greater(u, w) <=>
           \/ u.core > w.core
           \/ /\ u.core = w.core
              /\ \/ u.suffix = <<>> /\ w.suffix # <<>>
                 \/ u.suffix # <<>> /\ w.suffix # <<>> /\ N(u.suffix, w.suffix) > 0
      /\ Greater(u, u) <=>
           \/ u.core > u.core
           \/ /\ u.core = u.core
              /\ \/ u.suffix = <<>> /\ u.suffix # <<>>
                 \/ u.suffix # <<>> /\ u.suffix # <<>> /\ N(u.suffix, u.suffix) > 0
  BY DEF Greater, N
<1>5. ~Greater(u, u)
  BY <1>1, <1>3, <1>4
<1>6. Greater(u, v) /\ Greater(v, w) => Greater(u, w)
  BY <1>1, <1>3, <1>4
<1>7. u # v => Greater(u, v) \/ Greater(v, u)
  <2>1. CASE u.core # v.core
    <3>1. u.core > v.core \/ v.core > u.core
      BY <1>1, <2>1
    <3> QED
      BY <1>4, <3>1, Zenon
  <2>2. CASE u.core = v.core /\ u.suffix # v.suffix
    <3>1. N(u.suffix, v.suffix) > 0 \/ N(v.suffix, u.suffix) > 0
      BY <1>3, <2>2
    <3> QED
      BY <1>4, <2>2, <3>1
  <2> QED
    BY <1>2, <2>1, <2>2, Zenon
<1> QED
  BY <1>5, <1>6, <1>7

\* The number of versions each is greater than ranks any finitely many versions as
\* Greater does.
LEMMA RankingExists ==
  ASSUME NEW Vs, IsFiniteSet(Vs), NEW parse \in [Vs -> Parsed]
  PROVE  \E rank \in [Vs -> Nat] :
           \A v, w \in Vs : Greater(parse[v], parse[w]) <=> rank[v] > rank[w]
<1> DEFINE Below(v) == {x \in Vs : Greater(parse[v], parse[x])}
           rank == [v \in Vs |-> Cardinality(Below(v))]
<1>1. ASSUME NEW v \in Vs
      PROVE  IsFiniteSet(Below(v)) /\ Cardinality(Below(v)) \in Nat
  BY FS_Subset, FS_CardinalityType
<1>2. ASSUME NEW v \in Vs, NEW w \in Vs, Greater(parse[v], parse[w])
      PROVE  Cardinality(Below(w)) < Cardinality(Below(v))
  <2>1. ASSUME NEW x \in Below(w)
        PROVE  x \in Below(v)
    <3>1. x \in Vs /\ parse[x] \in Parsed /\ parse[v] \in Parsed /\ parse[w] \in Parsed
          /\ Greater(parse[w], parse[x])
      OBVIOUS
    <3>2. Greater(parse[v], parse[x])
      BY <1>2, <3>1, GreaterOrdersVersions
    <3> QED
      BY <3>1, <3>2
  <2>2. w \in Below(v) /\ w \notin Below(w)
    <3>1. ~Greater(parse[w], parse[w])
      BY GreaterOrdersVersions
    <3> QED
      BY <1>2, <3>1
  <2> HIDE DEF Below
  <2>3. Below(w) \subseteq Below(v) /\ Below(w) # Below(v)
    BY <2>1, <2>2
  <2>4. /\ IsFiniteSet(Below(v))
        /\ Cardinality(Below(w)) <= Cardinality(Below(v))
        /\ Cardinality(Below(w)) = Cardinality(Below(v)) => Below(w) = Below(v)
    BY <1>1, <2>3, FS_Subset
  <2>5. Cardinality(Below(v)) \in Nat /\ Cardinality(Below(w)) \in Nat
    BY <1>1
  <2> QED
    BY <2>3, <2>4, <2>5
<1>3. ASSUME NEW v \in Vs, NEW w \in Vs, Cardinality(Below(v)) > Cardinality(Below(w))
      PROVE  Greater(parse[v], parse[w])
  <2>1. SUFFICES ASSUME ~Greater(parse[v], parse[w]) PROVE FALSE
    OBVIOUS
  <2>2. parse[v] \in Parsed /\ parse[w] \in Parsed
    OBVIOUS
  <2>3. CASE parse[v] = parse[w]
    <3>1. Below(v) = Below(w)
      BY <2>3
    <3>2. Cardinality(Below(v)) = Cardinality(Below(w))
      BY <3>1, Zenon
    <3> QED
      BY <1>1, <1>3, <3>2
  <2>4. CASE Greater(parse[w], parse[v])
    <3>1. Cardinality(Below(v)) < Cardinality(Below(w))
      BY <1>2, <2>4
    <3> HIDE DEF Below
    <3> QED
      BY <1>1, <1>3, <3>1
  <2> QED
    BY <2>1, <2>2, <2>3, <2>4, GreaterOrdersVersions
<1> HIDE DEF Below
<1>4. rank \in [Vs -> Nat]
  BY <1>1
<1>5. ASSUME NEW v \in Vs, NEW w \in Vs
      PROVE  Greater(parse[v], parse[w]) <=> rank[v] > rank[w]
  BY <1>1, <1>2, <1>3
<1> HIDE DEF rank
<1> QED
  BY <1>4, <1>5

-----------------------------------------------------------------------------
(* The inductive invariant.                                                    *)

\* The code's comparison gives the versions their intended order: a hypothesis of
\* the theorems that compare ranks, and the run of MCSelfManage an instance of it.
OrderIntended == \A v, w \in Versions : Newer(v, w) <=> Rank[v] > Rank[w]

\* Whatever the versions, if they are finitely many and parse, some Rank meets that
\* hypothesis.
THEOREM OrderAttainable ==
  ASSUME IsFiniteSet(Versions), \A v \in Versions : Parse[v] \in Parsed
  PROVE  \E rank \in [Versions -> Nat] : \A v, w \in Versions : Newer(v, w) <=> rank[v] > rank[w]
<1> DEFINE parse == [v \in Versions |-> Parse[v]]
<1>1. parse \in [Versions -> Parsed] /\ \A v \in Versions : parse[v] = Parse[v]
  OBVIOUS
<1> HIDE DEF parse
<1>2. PICK rank \in [Versions -> Nat] :
        \A v, w \in Versions : Greater(parse[v], parse[w]) <=> rank[v] > rank[w]
  BY <1>1, RankingExists
<1>3. \A v, w \in Versions : Newer(v, w) <=> rank[v] > rank[w]
  BY <1>1, <1>2, Zenon DEF Newer
<1> QED
  BY <1>3

\* What an upgrade brings to the lock: a binary, and the version selected for it.
NetInv ==
  \A p \in Procs :
    /\ pc[p] \in {"start", "custom"} => sel[p] = NoVersion
    /\ pc[p] \in {"mirror", "github", "custom", "ready"} => Job(p).role = "upgrade"
    /\ pc[p] \in {"ready", "apply"} /\ Job(p).role = "upgrade" =>
         /\ cand[p].bin \in Binaries
         /\ sel[p] # NoVersion => cand[p].expected = sel[p]

\* Behind the gate of an uninstalled host are only an install and the uninstall.
GateInv ==
  \A p \in Procs : tomb /\ pc[p] = "apply" => Job(p).role \in {"install", "uninstall"}

\* What is there survives a crash unless the operator was told that it may not.
DurableInv == ~owed => durable = disk

\* The command found or put there is as new as the account action that is about
\* to schedule its task, and no task is left when the command goes.
TasksInv ==
  /\ TaskRunnable
  /\ \A p \in Procs :
       /\ pc[p] = "schedule" /\ ~lowered =>
            Identifiable /\ Rank[Ver[disk.bin]] >= Rank[Ver[Job(p).self]]
       /\ pc[p] = "remove" => tasks = {}

SelfInv == TypeOK /\ NetInv /\ GateInv /\ DurableInv

-----------------------------------------------------------------------------
(* The file.                                                                  *)

\* Every file that can be written is one.
LEMMA FileTypes ==
  /\ \A b \in Binaries, m \in {"exact", "loose", "unsafe"} : File(b, m) \in Files
  /\ Absent \in Files /\ Symlink \in Files /\ Irregular \in Files
BY DEF Files

\* A file has a binary.
LEMMA FileBinary ==
  ASSUME NEW f \in Files, f.kind = "file"
  PROVE  /\ f.bin \in Binaries /\ f.meta \in {"exact", "loose", "unsafe"}
         /\ \A m \in {"exact", "loose", "unsafe"} : [f EXCEPT !.meta = m] \in Files
<1>1. PICK b \in Binaries, m \in {"exact", "loose", "unsafe"} : f = File(b, m)
  BY SMT DEF Files, Absent, Symlink, Irregular, File
<1> QED
  BY <1>1, FileTypes DEF File

\* What a replacement leaves at the path: what was there or the new binary; the
\* new one is there if it says so, is as new unless that is remembered, and is
\* durable unless that is owed.
LEMMA Replaced ==
  ASSUME TypeOK, DurableInv, NEW b \in Binaries, NEW force, NEW r \in Results, Replace(b, force, r)
  PROVE  /\ disk' \in Files /\ durable' \in Files /\ owed' \in BOOLEAN /\ lowered' \in BOOLEAN
         /\ DurableInv'
         /\ disk' = disk \/ (disk' = File(b, "exact") /\ r \in {"synced", "unsynced"})
         /\ r \in Settled => disk'.kind = "file" /\ disk'.bin = b /\ disk'.meta = "exact"
         /\ ~lowered' => ~lowered /\ (disk' # disk => ~Lowers(b))
<1> USE DEF Replace, Written, Told
<1>1. disk \in Files /\ durable \in Files /\ owed \in BOOLEAN /\ lowered \in BOOLEAN /\ File(b, "exact") \in Files
  BY FileTypes DEF TypeOK
<1>2. File(b, "exact").kind = "file" /\ File(b, "exact").bin = b /\ File(b, "exact").meta = "exact"
  BY DEF File
<1>3. r = "same" => disk.kind = "file" /\ disk.bin = b /\ disk.meta = "exact"
  BY DEF InstallResults
<1>4. lowered' \in BOOLEAN /\ (~lowered' => ~lowered /\ (disk' # disk => ~Lowers(b)))
  BY <1>1 DEF Results
<1>5. CASE r = "synced"
  BY <1>1, <1>2, <1>4, <1>5 DEF DurableInv, Settled
<1>6. CASE r = "unsynced"
  BY <1>1, <1>2, <1>4, <1>6 DEF DurableInv, Settled
<1>7. CASE r = "same"
  BY <1>1, <1>3, <1>4, <1>7 DEF DurableInv, Settled
<1>8. CASE r = "failed"
  BY <1>1, <1>4, <1>8 DEF DurableInv, Settled
<1> QED
  BY <1>5, <1>6, <1>7, <1>8 DEF Results

\* Without force only an equal binary or none is replaced.
LEMMA NotForced ==
  ASSUME NEW b, NEW r \in Results, Replace(b, FALSE, r)
  PROVE  disk' = disk \/ disk.kind = "none" \/ (disk.kind = "file" /\ disk.bin = b)
BY DEF Replace, Written, InstallResults, Results

-----------------------------------------------------------------------------
(* The invariant, step by step.                                               *)

PCs == {"start", "mirror", "github", "custom", "ready", "done"} \cup Locked

\* One command moves; it is in the lock alone if it was, or found it free.
LEMMA Moves ==
  ASSUME TypeOK, NEW p \in Procs, NEW l \in PCs, To(p, l), l \in Locked => pc[p] \in Locked \/ Lock
  PROVE  /\ pc' \in [Procs -> PCs]
         /\ pc'[p] = l /\ \A q \in Procs \ {p} : pc'[q] = pc[q]
         /\ \A q, o \in Procs : pc'[q] \in Locked /\ pc'[o] \in Locked => q = o
<1>1. pc \in [Procs -> PCs] /\ pc' = [pc EXCEPT ![p] = l]
  BY DEF TypeOK, PCs, To
<1>2. \A q, o \in Procs : pc[q] \in Locked /\ pc[o] \in Locked => q = o
  BY DEF TypeOK
<1>3. pc'[p] = l /\ \A q \in Procs \ {p} : pc'[q] = pc[q]
  BY <1>1
<1>4. l \in Locked => \A q \in Procs \ {p} : pc[q] \notin Locked
  BY <1>2 DEF Lock
<1> QED
  BY <1>1, <1>2, <1>3, <1>4

\* What an upgrade has prepared may be forgotten.
LEMMA Forgets ==
  ASSUME TypeOK, NEW p \in Procs, Forget(p)
  PROVE  /\ sel' \in [Procs -> Versions \cup {NoVersion}]
         /\ cand' \in [Procs -> [bin : Binaries \cup {NoBinary}, expected : Versions \cup {NoVersion}]]
         /\ sel'[p] = NoVersion /\ \A q \in Procs \ {p} : sel'[q] = sel[q] /\ cand'[q] = cand[q]
BY DEF TypeOK, Forget, NoCandidate

\* The empty host, or one with a released command.
LEMMA SelfInit == Init => SelfInv
<1> SUFFICES ASSUME Init PROVE SelfInv
  OBVIOUS
<1>1. disk \in Files /\ durable = disk /\ tomb \in BOOLEAN
  <2>1. CASE disk = Absent /\ tomb \in BOOLEAN
    BY <2>1, FileTypes DEF Init
  <2>2. CASE tomb = FALSE /\ \E b \in Signed \cap HostBuilds : disk = File(b, "exact")
    <3>1. PICK b \in Binaries : disk = File(b, "exact")
      BY <2>2, SelfManageConstants
    <3> QED
      BY <2>2, <3>1, FileTypes DEF Init
  <2> QED
    BY <2>1, <2>2 DEF Init
<1>2. TypeOK
  <2>1. crashes \in 0 .. MaxCrashes /\ outside \in 0 .. MaxOutside
    BY SelfManageConstants DEF Init
  <2> QED
    BY <1>1, <2>1 DEF Init, TypeOK, Locked, NoCandidate
<1> QED
  BY <1>1, <1>2 DEF Init, SelfInv, NetInv, GateInv, DurableInv

\* A step of one command that leaves the file and the marker alone, and that tells
\* what it has prepared.
LEMMA NetSafe ==
  ASSUME SelfInv, NEW p \in Procs, NEW l \in PCs, To(p, l), l \in Locked => pc[p] \in Locked \/ Lock,
         sel' \in [Procs -> Versions \cup {NoVersion}],
         cand' \in [Procs -> [bin : Binaries \cup {NoBinary}, expected : Versions \cup {NoVersion}]],
         \A q \in Procs \ {p} : sel'[q] = sel[q] /\ cand'[q] = cand[q],
         l \in {"start", "custom"} => sel'[p] = NoVersion,
         l \in {"mirror", "github", "custom", "ready"} => Job(p).role = "upgrade",
         l \in {"ready", "apply"} /\ Job(p).role = "upgrade" =>
           cand'[p].bin \in Binaries /\ (sel'[p] # NoVersion => cand'[p].expected = sel'[p]),
         tomb' \in BOOLEAN, tasks' \subseteq Versions, job' = job,
         \A q \in Procs : tomb' /\ pc'[q] = "apply" => Job(q).role \in {"install", "uninstall"},
         disk' \in Files, durable' \in Files, owed' \in BOOLEAN, lowered' \in BOOLEAN, DurableInv',
         UNCHANGED bounds
  PROVE  SelfInv'
<1>1. /\ pc' \in [Procs -> PCs]
      /\ pc'[p] = l /\ \A q \in Procs \ {p} : pc'[q] = pc[q]
      /\ \A q, o \in Procs : pc'[q] \in Locked /\ pc'[o] \in Locked => q = o
  BY Moves DEF SelfInv
<1>2. TypeOK'
  BY <1>1 DEF SelfInv, TypeOK, PCs, bounds
<1>3. NetInv'
  BY <1>1 DEF SelfInv, NetInv, Job
<1>4. GateInv'
  BY DEF GateInv, Job
<1> QED
  BY <1>2, <1>3, <1>4 DEF SelfInv

\* A step that leaves the file alone.
LEMMA FileKept ==
  ASSUME SelfInv, UNCHANGED <<file, owed, lowered>>
  PROVE  disk' \in Files /\ durable' \in Files /\ owed' \in BOOLEAN /\ lowered' \in BOOLEAN /\ DurableInv'
BY DEF SelfInv, TypeOK, DurableInv, file

\* A step that leaves the marker alone and brings nobody to the lock.
LEMMA GateKept ==
  ASSUME SelfInv, NEW p \in Procs, NEW l \in PCs \ {"apply"}, To(p, l), UNCHANGED tomb
  PROVE  \A q \in Procs : tomb' /\ pc'[q] = "apply" => Job(q).role \in {"install", "uninstall"}
BY DEF SelfInv, TypeOK, PCs, GateInv, To

\* A transfer that failed goes on at the other source, or ends the command.
LEMMA FailsSafe ==
  ASSUME SelfInv, NEW p \in Procs, NEW a, Fails(p, a), Job(p).role = "upgrade",
         UNCHANGED <<job, file, tomb, tasks, owed, lowered, bounds>>
  PROVE  SelfInv'
<1>1. TypeOK /\ NetInv
  BY DEF SelfInv
<1>2. CASE To(p, "github") /\ UNCHANGED net
  <2>1. \A q \in Procs : tomb' /\ pc'[q] = "apply" => Job(q).role \in {"install", "uninstall"}
    BY <1>2, GateKept DEF PCs
  <2> QED
    BY <1>1, <1>2, <2>1, FileKept, NetSafe DEF PCs, Locked, TypeOK, net
<1>3. CASE To(p, "done") /\ Forget(p)
  <2>1. \A q \in Procs : tomb' /\ pc'[q] = "apply" => Job(q).role \in {"install", "uninstall"}
    BY <1>3, GateKept DEF PCs
  <2> QED
    BY <1>1, <1>3, <2>1, Forgets, FileKept, NetSafe DEF PCs, Locked, TypeOK
<1> QED
  BY <1>2, <1>3 DEF Fails

\* Preparing an upgrade touches nothing, and what is ready is what was selected.
LEMMA PrepareSafe ==
  ASSUME SelfInv, NEW p \in Procs,
         FetchManifest(p) \/ StartCustom(p) \/ PrepareMirror(p) \/ PrepareGitHub(p) \/ PrepareCustom(p)
  PROVE  SelfInv'
<1>1. TypeOK /\ NetInv
  BY DEF SelfInv
<1>2. Job(p).role = "upgrade" /\ UNCHANGED <<job, file, tomb, tasks, owed, lowered, bounds>>
  BY <1>1 DEF FetchManifest, StartCustom, PrepareMirror, PrepareGitHub, PrepareCustom, Prepare, NetInv
<1>3. ASSUME NEW v \in Versions, sel' = [sel EXCEPT ![p] = v], To(p, "mirror"), UNCHANGED cand
      PROVE  SelfInv'
  <2>1. \A q \in Procs : tomb' /\ pc'[q] = "apply" => Job(q).role \in {"install", "uninstall"}
    BY <1>2, <1>3, GateKept DEF PCs
  <2>2. /\ sel' \in [Procs -> Versions \cup {NoVersion}]
        /\ \A q \in Procs \ {p} : sel'[q] = sel[q] /\ cand'[q] = cand[q]
    BY <1>1, <1>3 DEF TypeOK
  <2> QED
    BY <1>1, <1>2, <1>3, <2>1, <2>2, FileKept, NetSafe DEF PCs, Locked, TypeOK
<1>4. CASE StartCustom(p)
  <2>1. To(p, "custom") /\ pc[p] = "start" /\ UNCHANGED net
    BY <1>4 DEF StartCustom
  <2>2. \A q \in Procs : tomb' /\ pc'[q] = "apply" => Job(q).role \in {"install", "uninstall"}
    BY <1>2, <2>1, GateKept DEF PCs
  <2> QED
    BY <1>1, <1>2, <2>1, <2>2, FileKept, NetSafe DEF PCs, Locked, TypeOK, NetInv, net
<1>5. ASSUME NEW b \in Binaries, NEW expected \in Versions \cup {NoVersion}, To(p, "ready"),
             cand' = [cand EXCEPT ![p] = [bin |-> b, expected |-> expected]], UNCHANGED sel,
             sel[p] # NoVersion => expected = sel[p]
      PROVE  SelfInv'
  <2>1. \A q \in Procs : tomb' /\ pc'[q] = "apply" => Job(q).role \in {"install", "uninstall"}
    BY <1>2, <1>5, GateKept DEF PCs
  <2>2. /\ cand' \in [Procs -> [bin : Binaries \cup {NoBinary}, expected : Versions \cup {NoVersion}]]
        /\ cand'[p].bin = b /\ cand'[p].expected = expected
        /\ \A q \in Procs \ {p} : sel'[q] = sel[q] /\ cand'[q] = cand[q]
    BY <1>1, <1>5 DEF TypeOK
  <2> QED
    BY <1>1, <1>2, <1>5, <2>1, <2>2, FileKept, NetSafe DEF PCs, Locked, TypeOK
<1>6. ASSUME NEW expected \in Versions \cup {NoVersion}, Prepare(p, expected),
             sel[p] # NoVersion => expected = sel[p]
      PROVE  SelfInv'
  BY <1>2, <1>5, <1>6, FailsSafe DEF Prepare
<1>7. CASE PrepareMirror(p) \/ PrepareGitHub(p)
  BY <1>1, <1>6, <1>7 DEF PrepareMirror, PrepareGitHub, GitHubVersion, TypeOK
<1>8. CASE PrepareCustom(p)
  BY <1>1, <1>6, <1>8 DEF PrepareCustom, NetInv
<1>9. CASE FetchManifest(p)
  BY <1>2, <1>3, <1>9, FailsSafe DEF FetchManifest
<1> QED
  BY <1>4, <1>7, <1>8, <1>9

\* A command enters the free lock, past the gate or as an install.
LEMMA EnterSafe ==
  ASSUME SelfInv, NEW p \in Procs, Enter(p)
  PROVE  SelfInv'
<1>1. TypeOK /\ NetInv
  BY DEF SelfInv
<1>2. UNCHANGED <<job, file, tomb, tasks, owed, lowered, bounds>>
  BY DEF Enter
<1>3. CASE To(p, "done") /\ Forget(p)
  <2>1. \A q \in Procs : tomb' /\ pc'[q] = "apply" => Job(q).role \in {"install", "uninstall"}
    BY <1>2, <1>3, GateKept DEF PCs
  <2> QED
    BY <1>1, <1>2, <1>3, <2>1, Forgets, FileKept, NetSafe DEF PCs, Locked, TypeOK
<1>4. CASE To(p, "apply") /\ UNCHANGED net /\ (tomb => Job(p).role \notin {"upgrade", "account"})
  <2>1. Lock /\ (Job(p).role = "upgrade" => pc[p] = "ready")
    BY DEF Enter
  <2>2. Job(p).role \in {"install", "upgrade", "account", "uninstall"}
    BY <1>1, SelfManageConstants DEF TypeOK, Job
  <2>3. \A q \in Procs : tomb' /\ pc'[q] = "apply" => Job(q).role \in {"install", "uninstall"}
    BY <1>1, <1>2, <1>4, <2>2 DEF SelfInv, TypeOK, PCs, GateInv, To
  <2> QED
    BY <1>1, <1>2, <1>4, <2>1, <2>3, FileKept, NetSafe DEF PCs, Locked, TypeOK, NetInv, net
<1> QED
  BY <1>3, <1>4 DEF Enter

\* What was prepared is forgotten with the step that used it, or kept.
LEMMA AppliedNet ==
  ASSUME SelfInv, NEW p \in Procs, Forget(p) \/ UNCHANGED net
  PROVE  /\ sel' \in [Procs -> Versions \cup {NoVersion}]
         /\ cand' \in [Procs -> [bin : Binaries \cup {NoBinary}, expected : Versions \cup {NoVersion}]]
         /\ \A q \in Procs \ {p} : sel'[q] = sel[q] /\ cand'[q] = cand[q]
<1>1. CASE Forget(p)
  BY <1>1, Forgets DEF SelfInv
<1>2. CASE UNCHANGED net
  BY <1>2 DEF SelfInv, TypeOK, net
<1> QED
  BY <1>1, <1>2

\* What a command may make of the file once it is in the lock: nothing, or a
\* replacement by a binary of its own.
Applies(p, l, b, force) ==
  /\ To(p, l) /\ UNCHANGED <<job, tomb, tasks, bounds>>
  /\ UNCHANGED <<file, owed, lowered>> \/ \E r \in Results : Replace(b, force, r)

\* An install, an upgrade or an account action leaves the lock's first step so.
LEMMA AppliesOwn ==
  ASSUME SelfInv, NEW p \in Procs, Upgrade(p) \/ Install(p) \/ EnsureStable(p)
  PROVE  /\ pc[p] = "apply" /\ (Forget(p) \/ UNCHANGED net)
         /\ \E l \in {"done", "clear", "schedule"}, b \in Binaries, force \in {Job(p).force, TRUE, FALSE} :
              Applies(p, l, b, force)
<1>1. /\ Job(p).self \in Binaries
      /\ pc[p] = "apply" /\ Job(p).role = "upgrade" => cand[p].bin \in Binaries
  BY SelfManageConstants DEF SelfInv, TypeOK, NetInv, Job
<1>2. CASE Upgrade(p)
  BY <1>1, <1>2 DEF Upgrade, CommitCandidate, NoUpgrade, Applies
<1>3. CASE Install(p)
  BY <1>1, <1>3 DEF Install, Applies
<1>4. CASE EnsureStable(p)
  <2> DEFINE b == Job(p).self
             keep == Identifiable /\ ~DevBuild(Parse[Ver[b]]) /\ ~Newer(Ver[b], InstalledVersion)
  <2>1. pc[p] = "apply" /\ UNCHANGED <<job, net, tomb, tasks, bounds>>
    BY <1>4 DEF EnsureStable
  <2>2. CASE keep /\ To(p, "schedule") /\ UNCHANGED <<file, owed, lowered>>
    BY <1>1, <2>1, <2>2 DEF Applies
  <2>3. ASSUME NEW r \in Results, Replace(b, disk.kind = "file", r), To(p, "schedule") \/ To(p, "done")
        PROVE  \E l \in {"done", "clear", "schedule"}, c \in Binaries, force \in {Job(p).force, TRUE, FALSE} :
                 Applies(p, l, c, force)
    BY <1>1, <2>1, <2>3 DEF Applies
  <2>4. CASE NoUpgrade(p)
    BY <1>1, <2>1, <2>4 DEF Applies, NoUpgrade
  <2> QED
    BY <1>4, <2>1, <2>2, <2>3, <2>4 DEF EnsureStable
<1> QED
  BY <1>2, <1>3, <1>4

\* The first step in the lock.
LEMMA ApplySafe ==
  ASSUME SelfInv, NEW p \in Procs, Upgrade(p) \/ Install(p) \/ EnsureStable(p)
  PROVE  SelfInv'
<1>1. PICK l \in {"done", "clear", "schedule"}, b \in Binaries, force \in {Job(p).force, TRUE, FALSE} :
        Applies(p, l, b, force)
  BY AppliesOwn
<1>2. pc[p] = "apply" /\ (Forget(p) \/ UNCHANGED net)
  BY AppliesOwn
<1>3. To(p, l) /\ UNCHANGED <<job, tomb, tasks, bounds>> /\ l \in PCs \ {"apply"}
  BY <1>1 DEF Applies, PCs, Locked
<1>4. disk' \in Files /\ durable' \in Files /\ owed' \in BOOLEAN /\ lowered' \in BOOLEAN /\ DurableInv'
  BY <1>1, FileKept, Replaced DEF Applies, SelfInv
<1>5. \A q \in Procs : tomb' /\ pc'[q] = "apply" => Job(q).role \in {"install", "uninstall"}
  BY <1>3, GateKept
<1>6. TypeOK /\ pc[p] \in Locked
  BY <1>2 DEF SelfInv, Locked
<1> QED
  BY <1>1, <1>2, <1>3, <1>4, <1>5, <1>6, AppliedNet, NetSafe DEF TypeOK

\* The later steps in the lock.
LEMMA AfterSafe ==
  ASSUME SelfInv, NEW p \in Procs, Clear(p) \/ Schedule(p) \/ MarkUninstalled(p) \/ RemoveCommand(p)
  PROVE  SelfInv'
<1>1. TypeOK /\ pc[p] \in Locked /\ job' = job /\ UNCHANGED net /\ UNCHANGED bounds
  BY DEF SelfInv, Clear, Schedule, MarkUninstalled, RemoveCommand, Locked
<1>2. PICK l \in {"done", "remove"} : To(p, l)
  BY DEF Clear, Schedule, MarkUninstalled, RemoveCommand
<1>3. tomb' \in BOOLEAN /\ tasks' \subseteq Versions
  <2>1. Ver[Job(p).self] \in Versions
    BY <1>1, SelfManageConstants DEF TypeOK, Job
  <2> QED
    BY <1>1, <2>1 DEF TypeOK, Clear, Schedule, MarkUninstalled, RemoveCommand
<1>4. disk' \in Files /\ durable' \in Files /\ owed' \in BOOLEAN /\ lowered' \in BOOLEAN /\ DurableInv'
  <2>1. CASE UNCHANGED <<file, owed, lowered>>
    BY <2>1, FileKept
  <2>2. CASE disk' = Absent /\ durable' \in {Absent, durable} /\ owed' = (durable' # Absent) /\ lowered' = lowered
    BY <1>1, <2>2, FileTypes DEF TypeOK, DurableInv
  <2> QED
    BY <2>1, <2>2 DEF Clear, Schedule, MarkUninstalled, RemoveCommand
<1>5. \A q \in Procs : tomb' /\ pc'[q] = "apply" => Job(q).role \in {"install", "uninstall"}
  <2> SUFFICES ASSUME NEW q \in Procs, tomb', pc'[q] = "apply"
               PROVE  Job(q).role \in {"install", "uninstall"}
    OBVIOUS
  <2>1. q # p /\ pc[q] = "apply"
    BY <1>1, <1>2 DEF TypeOK, To
  <2> QED
    BY <1>1, <2>1 DEF TypeOK, Locked
<1> QED
  BY <1>1, <1>2, <1>3, <1>4, <1>5, AppliedNet, NetSafe DEF PCs, Locked

\* A crash ends the commands; what may be gone was owed.
LEMMA CrashSafe == SelfInv /\ Crash => SelfInv'
<1> SUFFICES ASSUME SelfInv, Crash PROVE SelfInv'
  OBVIOUS
<1>1. TypeOK'
  <2>1. crashes' \in 0 .. MaxCrashes
    BY SelfManageConstants DEF SelfInv, TypeOK, Crash
  <2> QED
    BY <2>1 DEF SelfInv, TypeOK, Crash, NoCandidate, Locked
<1>2. \A p \in Procs : pc'[p] \in {"start", "done"} /\ sel'[p] = NoVersion
  BY DEF Crash
<1> QED
  BY <1>1, <1>2 DEF SelfInv, NetInv, GateInv, DurableInv, Crash

\* An administrator's change is durable.
LEMMA OutsideSafe == SelfInv /\ Outside => SelfInv'
<1> SUFFICES ASSUME SelfInv, Outside PROVE SelfInv'
  OBVIOUS
<1>1. disk' \in Files
  <2>1. disk \in Files
    BY DEF SelfInv, TypeOK
  <2>2. CASE disk' \in {Absent, Symlink, Irregular}
    BY <2>2, FileTypes
  <2>3. CASE disk.kind = "file" /\ \E m \in {"loose", "unsafe"} : disk' = [disk EXCEPT !.meta = m]
    BY <2>1, <2>3, FileBinary
  <2> QED
    BY <2>2, <2>3 DEF Outside
<1>2. TypeOK'
  <2>1. outside' \in 0 .. MaxOutside
    BY SelfManageConstants DEF SelfInv, TypeOK, Outside
  <2> QED
    BY <1>1, <2>1 DEF SelfInv, TypeOK, Outside, net
<1> QED
  BY <1>2 DEF SelfInv, NetInv, GateInv, DurableInv, Outside, net, Job

\* Every step of a command, a crash and an administrator keeps it.
LEMMA SelfStep == SelfInv /\ [Next]_vars => SelfInv'
<1> SUFFICES ASSUME SelfInv, [Next]_vars PROVE SelfInv'
  OBVIOUS
<1>1. ASSUME NEW p \in Procs, Step(p)
      PROVE  SelfInv'
  BY <1>1, PrepareSafe, EnterSafe, ApplySafe, AfterSafe DEF Step
<1>2. CASE UNCHANGED vars
  BY <1>2 DEF vars, net, file, bounds, SelfInv, TypeOK, NetInv, GateInv, DurableInv, Job
<1> QED
  BY <1>1, <1>2, CrashSafe, OutsideSafe DEF Next, Done

\* One command at a time replaces the stable command, with what it selected and
\* past the gate, and what is there survives a crash or is owed: for every set of
\* commands, versions, binaries and jobs.
THEOREM SelfInvariant == Spec => []SelfInv
BY SelfInit, SelfStep, PTL DEF Spec

-----------------------------------------------------------------------------
(* What a step may do.                                                        *)

\* A step in which one command leaves the first step of the lock is that command's.
LEMMA OnlyItself ==
  ASSUME SelfInv, [Next]_vars, NEW p \in Procs, pc[p] = "apply", pc'[p] # "apply", crashes' = crashes
  PROVE  Upgrade(p) \/ Install(p) \/ EnsureStable(p) \/ MarkUninstalled(p)
<1>1. ~Crash
  <2>1. crashes \in Nat
    BY SelfManageConstants DEF SelfInv, TypeOK
  <2> QED
    BY <2>1 DEF Crash
<1>2. PICK q \in Procs : Step(q)
  BY <1>1 DEF Next, Outside, Done, vars
<1>3. q = p
  <2> SUFFICES ASSUME q # p PROVE FALSE
    OBVIOUS
  <2>1. \E l : To(q, l)
    BY <1>2 DEF Step, FetchManifest, StartCustom, PrepareMirror, PrepareGitHub, PrepareCustom, Prepare, Fails,
                Enter, Upgrade, CommitCandidate, NoUpgrade, Install, Clear, EnsureStable, Schedule,
                MarkUninstalled, RemoveCommand
  <2> QED
    BY <2>1 DEF To, SelfInv, TypeOK
<1> QED
  BY <1>2, <1>3 DEF Step, FetchManifest, StartCustom, PrepareMirror, PrepareGitHub, PrepareCustom,
                    Enter, Clear, Schedule, RemoveCommand

\* Once the mirror's manifest has named a version, the upgrade installs that
\* version or nothing.
THEOREM SelectedAlwaysInstalled == Spec => SelectedVersion
<1>1. ASSUME SelfInv, [Next]_vars, NEW p \in Procs, pc[p] = "apply", pc'[p] # "apply",
             Job(p).role = "upgrade", crashes' = crashes, sel[p] # NoVersion, disk' # disk
      PROVE  Ver[disk'.bin] = sel[p]
  <2>1. Upgrade(p)
    BY <1>1, OnlyItself DEF Install, EnsureStable, MarkUninstalled
  <2>2. cand[p].bin \in Binaries /\ cand[p].expected = sel[p] /\ TypeOK /\ DurableInv
    BY <1>1 DEF SelfInv, NetInv
  <2>3. CommitCandidate(p, cand[p].bin)
    BY <1>1, <2>1 DEF Upgrade, NoUpgrade, file
  <2>4. disk' = File(cand[p].bin, "exact")
    BY <1>1, <2>2, <2>3, Replaced DEF CommitCandidate
  <2> QED
    BY <1>1, <2>2, <2>3, <2>4 DEF CommitCandidate, File
<1>2. SelfInv /\ [Next]_vars =>
        \A p \in Procs :
          /\ pc[p] = "apply" /\ pc'[p] # "apply" /\ Job(p).role = "upgrade" /\ crashes' = crashes
          /\ sel[p] # NoVersion /\ disk' # disk
          => Ver[disk'.bin] = sel[p]
  BY <1>1
<1> QED
  BY <1>2, SelfInvariant, PTL DEF Spec, SelectedVersion

\* No upgrade and no account action brings the command back after an uninstall.
THEOREM UninstallAlwaysFinal == Spec => UninstallFinal
<1>1. ASSUME SelfInv, [Next]_vars, tomb, disk.kind = "none", crashes' = crashes, outside' = outside,
             disk'.kind # "none"
      PROVE  \E p \in Procs : pc[p] = "apply" /\ Job(p).role = "install"
  <2>1. ~Crash /\ ~Outside
    <3>1. crashes \in Nat /\ outside \in Nat
      BY <1>1, SelfManageConstants DEF SelfInv, TypeOK
    <3>2. crashes' = crashes /\ outside' = outside
      BY <1>1
    <3> QED
      BY <3>1, <3>2 DEF Crash, Outside
  <2>2. PICK p \in Procs : Step(p)
    BY <1>1, <2>1 DEF Next, Done, vars, file
  <2>3. Upgrade(p) \/ Install(p) \/ EnsureStable(p)
    <3>1. ~(FetchManifest(p) \/ StartCustom(p) \/ PrepareMirror(p) \/ PrepareGitHub(p) \/ PrepareCustom(p))
      BY <1>1 DEF FetchManifest, StartCustom, PrepareMirror, PrepareGitHub, PrepareCustom, Prepare, file
    <3>2. ~(Enter(p) \/ Clear(p) \/ Schedule(p) \/ MarkUninstalled(p))
      BY <1>1 DEF Enter, Clear, Schedule, MarkUninstalled, file
    <3>3. ~RemoveCommand(p)
      <4>1. disk' # disk /\ disk' # Absent
        BY <1>1 DEF Absent
      <4> QED
        BY <4>1 DEF RemoveCommand, file
    <3> QED
      BY <2>2, <3>1, <3>2, <3>3 DEF Step
  <2> QED
    BY <1>1, <2>3 DEF Upgrade, Install, EnsureStable, SelfInv, GateInv
<1>2. SelfInv /\ [Next]_vars =>
        (/\ tomb /\ disk.kind = "none" /\ crashes' = crashes /\ outside' = outside
         => disk'.kind = "none" \/ \E p \in Procs : pc[p] = "apply" /\ Job(p).role = "install")
  BY <1>1
<1> QED
  BY <1>2, SelfInvariant, PTL DEF Spec, UninstallFinal

\* Provided the code orders versions as intended, only a forced command and an
\* account action of a development build lower the stable command.
THEOREM NeverLoweredUnasked == OrderIntended => (Spec => NeverLowered)
<1>1. ASSUME OrderIntended, SelfInv, [Next]_vars, NEW p \in Procs, pc[p] = "apply", pc'[p] # "apply",
             ~MayLower(p), crashes' = crashes, disk.kind = "file", disk'.kind = "file"
      PROVE  Rank[Ver[disk'.bin]] >= Rank[Ver[disk.bin]]
  <2>1. /\ TypeOK /\ DurableInv /\ disk.bin \in Binaries /\ Ver[disk.bin] \in Versions
        /\ Job(p).self \in Binaries
    BY <1>1, FileBinary, SelfManageConstants DEF SelfInv, TypeOK, Job
  <2>2. \A b \in Binaries : Ver[b] \in Versions /\ Rank[Ver[b]] \in Nat
    BY SelfManageConstants
  <2>3. CASE disk' = disk
    BY <2>1, <2>2, <2>3
  <2>4. CASE Upgrade(p) /\ disk' # disk
    <3> DEFINE b == cand[p].bin
    <3>1. ~Job(p).force /\ UpgradeAllowed(p) /\ CommitCandidate(p, b)
      BY <1>1, <2>4 DEF Upgrade, NoUpgrade, MayLower, file
    <3>2. b \in Binaries
      BY <1>1, <2>4 DEF SelfInv, NetInv, Upgrade
    <3>3. Newer(Ver[b], Ver[disk.bin])
      BY <1>1, <3>1 DEF UpgradeAllowed, CommitCandidate, InstalledVersion
    <3>4. disk'.bin = b
      <4>1. PICK r \in Results : Replace(b, TRUE, r)
        BY <3>1 DEF CommitCandidate
      <4>2. disk' = File(b, "exact")
        BY <2>1, <2>4, <3>2, <4>1, Replaced
      <4> QED
        BY <4>2 DEF File
    <3> QED
      BY <1>1, <2>1, <2>2, <3>2, <3>3, <3>4 DEF OrderIntended
  <2>5. CASE Install(p) /\ disk' # disk
    <3>1. PICK r \in Results : Replace(Job(p).self, Job(p).force, r)
      BY <2>5 DEF Install
    <3>2. disk.kind = "file" /\ disk.bin = Job(p).self
      BY <1>1, <2>5, <3>1 DEF MayLower, Replace, Written, InstallResults, Results
    <3>3. disk'.bin = Job(p).self
      BY <2>1, <2>5, <3>1, Replaced DEF File
    <3> QED
      BY <2>1, <2>2, <3>2, <3>3
  <2>6. CASE EnsureStable(p) /\ disk' # disk
    <3> DEFINE b == Job(p).self
    <3>1. PICK r \in Results : Replace(b, disk.kind = "file", r)
      BY <2>6 DEF EnsureStable, NoUpgrade, file
    <3>2. Newer(Ver[b], Ver[disk.bin])
      BY <1>1, <2>6 DEF EnsureStable, NoUpgrade, file, MayLower, InstalledVersion
    <3>3. disk'.bin = b
      BY <2>1, <2>6, <3>1, Replaced DEF File
    <3> QED
      BY <1>1, <2>1, <2>2, <3>2, <3>3 DEF OrderIntended
  <2>7. CASE MarkUninstalled(p)
    BY <2>3, <2>7 DEF MarkUninstalled, file
  <2> QED
    BY <1>1, <2>3, <2>4, <2>5, <2>6, <2>7, OnlyItself
<1>2. OrderIntended /\ SelfInv /\ [Next]_vars =>
        \A p \in Procs :
          /\ pc[p] = "apply" /\ pc'[p] # "apply" /\ ~MayLower(p) /\ crashes' = crashes
          /\ disk.kind = "file" /\ disk'.kind = "file"
          => Rank[Ver[disk'.bin]] >= Rank[Ver[disk.bin]]
  BY <1>1
<1> SUFFICES ASSUME OrderIntended PROVE Spec => NeverLowered
  OBVIOUS
<1>3. SelfInv /\ [Next]_vars =>
        \A p \in Procs :
          /\ pc[p] = "apply" /\ pc'[p] # "apply" /\ ~MayLower(p) /\ crashes' = crashes
          /\ disk.kind = "file" /\ disk'.kind = "file"
          => Rank[Ver[disk'.bin]] >= Rank[Ver[disk.bin]]
  BY <1>2
<1> QED
  BY <1>3, SelfInvariant, PTL DEF Spec, NeverLowered

-----------------------------------------------------------------------------
(* Every task finds a command that can carry it out.                          *)

\* The command at the path is one that the task of version v can rely on.
CarriesOut(v) == Identifiable /\ Rank[Ver[disk.bin]] >= Rank[v]

\* Ranks are numbers.
LEMMA Ranked ==
  ASSUME TypeOK
  PROVE  /\ \A b \in Binaries : Ver[b] \in Versions /\ Rank[Ver[b]] \in Nat
         /\ \A v \in tasks : Rank[v] \in Nat
         /\ \A p \in Procs : Job(p).self \in Binaries
         /\ disk.kind = "file" => disk.bin \in Binaries
<1>1. disk.kind = "file" => disk.bin \in Binaries
  BY FileBinary DEF TypeOK
<1>2. \A p \in Procs : Job(p).self \in Binaries
  BY SelfManageConstants DEF TypeOK, Job
<1> QED
  BY <1>1, <1>2, SelfManageConstants DEF TypeOK

\* A replacement that is not remembered as lowering serves the tasks that are there.
LEMMA StillCarriesOut ==
  ASSUME TypeOK, DurableInv, NEW b \in Binaries, NEW force, NEW r \in Results, Replace(b, force, r),
         ~lowered', NEW v \in tasks, CarriesOut(v)
  PROVE  CarriesOut(v)'
<1>1. CASE disk' = disk
  BY <1>1 DEF CarriesOut, Identifiable
<1>2. CASE disk' # disk
  <2>1. disk' = File(b, "exact") /\ ~Lowers(b)
    BY <1>2, Replaced
  <2>2. Rank[Ver[b]] >= Rank[Ver[disk.bin]]
    BY <2>1, Ranked DEF Lowers, CarriesOut, Identifiable
  <2>3. Rank[Ver[b]] \in Nat /\ Rank[Ver[disk.bin]] \in Nat /\ Rank[v] \in Nat
    BY Ranked DEF CarriesOut, Identifiable
  <2>4. Rank[Ver[b]] >= Rank[v]
    BY <2>2, <2>3 DEF CarriesOut
  <2> QED
    BY <2>1, <2>4 DEF CarriesOut, Identifiable, File
<1> QED
  BY <1>1, <1>2

\* A step that leaves file and tasks alone and brings nobody to a step that relies
\* on them.
LEMMA TasksKept ==
  ASSUME SelfInv, TasksInv, UNCHANGED <<job, disk, tasks, lowered>>,
         \A q \in Procs : pc'[q] \in {"schedule", "remove"} => pc'[q] = pc[q]
  PROVE  TasksInv'
BY DEF TasksInv, TaskRunnable, Identifiable, Job

\* The step that puts a command at the path, or finds one that is new enough.
LEMMA ApplyTasks ==
  ASSUME OrderIntended, SelfInv, TasksInv, NEW p \in Procs, Upgrade(p) \/ Install(p) \/ EnsureStable(p)
  PROVE  TasksInv'
<1>1. PICK l \in {"done", "clear", "schedule"}, b \in Binaries, force \in {Job(p).force, TRUE, FALSE} :
        Applies(p, l, b, force)
  BY AppliesOwn
<1>2. pc[p] = "apply" /\ TypeOK /\ DurableInv
  BY AppliesOwn DEF SelfInv
<1>3. To(p, l) /\ UNCHANGED <<job, tasks>>
  BY <1>1 DEF Applies
<1>4. \A q \in Procs \ {p} : pc'[q] = pc[q] /\ pc[q] \notin {"schedule", "remove"}
  BY <1>2, <1>3 DEF TypeOK, Locked, To
<1>5. ~lowered' => \A v \in tasks : CarriesOut(v) => CarriesOut(v)'
  BY <1>1, <1>2, StillCarriesOut DEF Applies, CarriesOut, Identifiable, file
<1>6. ~lowered' => ~lowered
  BY <1>1, <1>2, Replaced DEF Applies
<1>7. TaskRunnable'
  BY <1>3, <1>5, <1>6 DEF TasksInv, TaskRunnable, CarriesOut
<1>8. pc'[p] = "schedule" => CarriesOut(Ver[Job(p).self])'
  <2> SUFFICES ASSUME pc'[p] = "schedule" PROVE CarriesOut(Ver[Job(p).self])'
    OBVIOUS
  <2> DEFINE own == Job(p).self
  <2>1. EnsureStable(p) /\ To(p, "schedule")
    BY <1>2 DEF Upgrade, CommitCandidate, NoUpgrade, Install, EnsureStable, To, TypeOK
  <2>2. own \in Binaries /\ Ver[own] \in Versions /\ Rank[Ver[own]] \in Nat /\ own' = own
    BY <1>2, <1>3, Ranked DEF Job
  <2>3. CASE Identifiable /\ ~Newer(Ver[own], InstalledVersion) /\ UNCHANGED file
    <3>1. disk.bin \in Binaries /\ InstalledVersion = Ver[disk.bin]
      BY <1>2, <2>3, Ranked DEF Identifiable, InstalledVersion
    <3>2. Ver[disk.bin] \in Versions /\ Rank[Ver[disk.bin]] \in Nat
      BY <1>2, <3>1, Ranked
    <3>3. Rank[Ver[disk.bin]] >= Rank[Ver[own]]
      BY <2>2, <2>3, <3>1, <3>2 DEF OrderIntended
    <3> QED
      BY <2>2, <2>3, <3>3 DEF CarriesOut, Identifiable, file
  <2>4. CASE \E r \in Results : Replace(own, disk.kind = "file", r) /\ r \in Settled
    <3>1. disk'.kind = "file" /\ disk'.bin = own /\ disk'.meta = "exact"
      BY <1>2, <2>2, <2>4, Replaced
    <3> QED
      BY <2>2, <3>1 DEF CarriesOut, Identifiable
  <2>5. ~NoUpgrade(p) /\ ~To(p, "done")
    BY <1>2, <2>1 DEF NoUpgrade, To, TypeOK
  <2> QED
    BY <2>1, <2>3, <2>4, <2>5 DEF EnsureStable
<1>9. pc'[p] # "remove"
  BY <1>2, <1>3 DEF To, TypeOK
<1> QED
  BY <1>4, <1>7, <1>8, <1>9 DEF TasksInv, CarriesOut

\* The later steps in the lock: a task is added for the command just found, and
\* the command goes when no task is left.
LEMMA AfterTasks ==
  ASSUME SelfInv, TasksInv, NEW p \in Procs, Schedule(p) \/ MarkUninstalled(p) \/ RemoveCommand(p)
  PROVE  TasksInv'
<1>1. TypeOK /\ pc[p] \in Locked /\ job' = job /\ lowered' = lowered
  BY DEF SelfInv, Schedule, MarkUninstalled, RemoveCommand, Locked
<1>2. PICK l \in {"done", "remove"} : To(p, l) /\ (l = "remove" => MarkUninstalled(p))
  BY DEF Schedule, MarkUninstalled, RemoveCommand
<1>3. /\ pc'[p] = l
      /\ \A q \in Procs \ {p} : pc'[q] = pc[q] /\ pc[q] \notin {"schedule", "remove"}
  BY <1>1, <1>2 DEF TypeOK, Locked, To
<1>4. CASE Schedule(p)
  <2>1. /\ tasks' \in {tasks, tasks \cup {Ver[Job(p).self]}} /\ disk' = disk /\ l = "done"
        /\ pc[p] = "schedule"
    BY <1>1, <1>2, <1>4 DEF Schedule, file, TypeOK, To, MarkUninstalled
  <2>2. TaskRunnable'
    BY <1>1, <2>1 DEF TasksInv, TaskRunnable, Identifiable
  <2> QED
    BY <1>3, <2>1, <2>2 DEF TasksInv
<1>5. CASE MarkUninstalled(p)
  <2>1. disk' = disk /\ (tasks' = {} \/ (tasks' = tasks /\ To(p, "done")))
    BY <1>5 DEF MarkUninstalled, file
  <2>2. TaskRunnable'
    BY <1>1, <2>1 DEF TasksInv, TaskRunnable, Identifiable
  <2>3. l = "remove" => tasks' = {}
    BY <1>1, <1>2, <2>1 DEF To, TypeOK
  <2> QED
    BY <1>3, <2>2, <2>3 DEF TasksInv
<1>6. CASE RemoveCommand(p)
  <2>1. tasks = {} /\ tasks' = tasks /\ l = "done"
    BY <1>1, <1>2, <1>6 DEF RemoveCommand, TasksInv, To, TypeOK, MarkUninstalled
  <2> QED
    BY <1>3, <2>1 DEF TasksInv, TaskRunnable
<1> QED
  BY <1>4, <1>5, <1>6

\* A task's command is there after a crash unless a warning was left at that.
LEMMA CrashTasks == SelfInv /\ TasksInv /\ Crash => TasksInv'
<1> SUFFICES ASSUME SelfInv, TasksInv, Crash PROVE TasksInv'
  OBVIOUS
<1>1. ~lowered' => ~lowered /\ disk' = disk
  BY DEF SelfInv, TypeOK, DurableInv, Crash
<1>2. TaskRunnable' /\ \A p \in Procs : pc'[p] \in {"start", "done"}
  BY <1>1 DEF TasksInv, TaskRunnable, Identifiable, Crash
<1> QED
  BY <1>2 DEF TasksInv

\* Every step keeps it, provided the code orders versions as intended.
LEMMA TasksStep == OrderIntended /\ SelfInv /\ TasksInv /\ [Next]_vars => TasksInv'
<1> SUFFICES ASSUME OrderIntended, SelfInv, TasksInv, [Next]_vars PROVE TasksInv'
  OBVIOUS
<1>1. ASSUME NEW p \in Procs,
             \/ FetchManifest(p) \/ StartCustom(p) \/ PrepareMirror(p) \/ PrepareGitHub(p)
             \/ PrepareCustom(p) \/ Enter(p) \/ Clear(p)
      PROVE  TasksInv'
  <2>1. UNCHANGED <<job, file, tasks, lowered>>
    BY <1>1 DEF FetchManifest, StartCustom, PrepareMirror, PrepareGitHub, PrepareCustom, Prepare, Enter, Clear
  <2>2. PICK l \in {"mirror", "github", "custom", "ready", "done", "apply"} : To(p, l)
    BY <1>1 DEF FetchManifest, StartCustom, PrepareMirror, PrepareGitHub, PrepareCustom, Prepare, Fails, Enter, Clear
  <2>3. \A q \in Procs : pc'[q] \in {"schedule", "remove"} => pc'[q] = pc[q]
    BY <2>2 DEF To, SelfInv, TypeOK
  <2> QED
    BY <2>1, <2>3, TasksKept DEF file
<1>2. ASSUME NEW p \in Procs, Step(p)
      PROVE  TasksInv'
  BY <1>1, <1>2, ApplyTasks, AfterTasks DEF Step
<1>3. CASE Outside
  BY <1>3 DEF Outside, TasksInv, TaskRunnable
<1>4. CASE UNCHANGED vars
  BY <1>4, TasksKept DEF vars, file
<1> QED
  BY <1>2, <1>3, <1>4, CrashTasks DEF Next, Done

\* Provided the code orders versions as intended, every task finds a safe command
\* at least as new as the one that scheduled it, after a crash too, unless the
\* command was lowered on purpose or a warning about durability was left at that.
THEOREM TaskAlwaysRunnable == OrderIntended => (Spec => []TaskRunnable)
<1> SUFFICES ASSUME OrderIntended PROVE Spec => []TaskRunnable
  OBVIOUS
<1>1. Init => TasksInv
  BY DEF Init, TasksInv, TaskRunnable
<1>2. SelfInv /\ TasksInv /\ [Next]_vars => TasksInv'
  BY TasksStep
<1>3. TasksInv => TaskRunnable
  BY DEF TasksInv
<1> QED
  BY <1>1, <1>2, <1>3, SelfInvariant, PTL DEF Spec

=============================================================================
