------------------------------ MODULE Versions ------------------------------
(***************************************************************************)
(* The order of versions (version/version.go) that decides every           *)
(* replacement of the stable command.  A version is a core and a suffix;   *)
(* a core is one number here, a suffix a sequence of bytes less the byte   *)
(* of the digit zero, so that 0 .. 9 are the digits.                       *)
(***************************************************************************)
EXTENDS Integers, Sequences, SequencesExt

IsDigit(c) == c \in 0 .. 9

\* Where the run of digits that starts at i ends.
RunEnd(s, i) == Min({j \in i .. Len(s) : \A k \in {j + 1} \cap DOMAIN s : ~IsDigit(s[k])})

\* Leading zeros trimmed.
Significant(run) ==
  LET zeros == {i \in DOMAIN run : \A j \in 1 .. i : run[j] = 0}
  IN  SubSeq(run, Cardinality(zeros) + 1, Len(run))

Sign(b) == IF b THEN -1 ELSE 1

\* Byte order of two sequences of one length that differ.
LexLess(s, t) ==
  \E i \in DOMAIN s : s[i] < t[i] /\ \A j \in 1 .. i - 1 : s[j] = t[j]

\* Byte order, where the shorter of two may be a prefix of the other.
ByteLess(s, t) ==
  \/ IsStrictPrefix(s, t)
  \/ \E i \in DOMAIN s \cap DOMAIN t : s[i] < t[i] /\ \A j \in 1 .. i - 1 : s[j] = t[j]

\* Two runs of digits: by length, by digits, and by the raw bytes; 0 when equal.
CompareRuns(a, b) ==
  LET na == Significant(a)
      nb == Significant(b)
  IN  CASE Len(na) # Len(nb) -> Sign(Len(na) < Len(nb))
        [] Len(na) = Len(nb) /\ na # nb -> Sign(LexLess(na, nb))
        [] na = nb /\ a # b -> Sign(ByteLess(a, b))
        [] OTHER -> 0

\* naturalCompare, from positions <<i, j>> on.
NaturalCompare(a, b) ==
  LET cmp[p \in (1 .. Len(a) + 1) \X (1 .. Len(b) + 1)] ==
        LET i == p[1]
            j == p[2]
        IN  IF i > Len(a) \/ j > Len(b)
            THEN IF i <= Len(a) THEN 1 ELSE IF j <= Len(b) THEN -1 ELSE 0
            ELSE IF IsDigit(a[i]) /\ IsDigit(b[j])
                 THEN LET c == CompareRuns(SubSeq(a, i, RunEnd(a, i)), SubSeq(b, j, RunEnd(b, j)))
                      IN  IF c # 0 THEN c ELSE cmp[<<RunEnd(a, i) + 1, RunEnd(b, j) + 1>>]
                 ELSE IF a[i] # b[j] THEN Sign(a[i] < b[j]) ELSE cmp[<<i + 1, j + 1>>]
  IN  cmp[<<1, 1>>]

\* Mutant: suffixes in byte order.
GreaterByBytes(newer, older) ==
  \/ newer.core > older.core
  \/ /\ newer.core = older.core
     /\ \/ newer.suffix = <<>> /\ older.suffix # <<>>
        \/ newer.suffix # <<>> /\ older.suffix # <<>> /\ ByteLess(older.suffix, newer.suffix)

\* A final release is above its prereleases.
Greater(newer, older) ==
  \/ newer.core > older.core
  \/ /\ newer.core = older.core
     /\ \/ newer.suffix = <<>> /\ older.suffix # <<>>
        \/ /\ newer.suffix # <<>> /\ older.suffix # <<>>
           /\ NaturalCompare(newer.suffix, older.suffix) > 0

\* The suffix "-dev".
DevSuffix == <<-3, 52, 53, 70>>
DevBuild(v) == IsSuffix(DevSuffix, v.suffix)
=============================================================================
