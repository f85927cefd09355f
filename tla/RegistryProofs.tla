--------------------------- MODULE RegistryProofs ---------------------------
(***************************************************************************)
(* Proofs about Registry for every set of names, generations, UID range,   *)
(* clock bound and fault bound.                                            *)
(***************************************************************************)
EXTENDS Registry, TLAPS

\* Row sets are closed under the two edits mutations make, and their UIDs are
\* kernel IDs.
LEMMA UIDsOfType ==
  ASSUME NEW rows \in RowSets
  PROVE  UIDsOf(rows) \subseteq KernelIDs
BY DEF RowSets, Row, UIDsOf

\* Writing a row gives a set of rows.
LEMMA UpsertType ==
  ASSUME NEW rows \in RowSets, NEW u \in Users, NEW r \in Row
  PROVE  Upsert(rows, u, r) \in RowSets
<1>1. PICK S \in SUBSET Users : rows \in [S -> Row]
  BY DEF RowSets
<1>2. Upsert(rows, u, r) \in [S \cup {u} -> Row]
  BY <1>1 DEF Upsert
<1> QED
  BY <1>2 DEF RowSets

\* Removing rows gives a set of rows.
LEMMA WithoutType ==
  ASSUME NEW rows \in RowSets, NEW T
  PROVE  Without(rows, T) \in RowSets
<1>1. PICK S \in SUBSET Users : rows \in [S -> Row]
  BY DEF RowSets
<1>2. Without(rows, T) \in [S \ T -> Row]
  BY <1>1 DEF Without, Restrict
<1> QED
  BY <1>2 DEF RowSets

\* The absent files are files.
LEMMA NullTypes == /\ NoRows \in RowSets /\ NoReg \in RegFiles /\ NoSeq \in SeqFiles
                   /\ Idle \in OpStates /\ NoProbe \in ProbeStates
<1>1. NoRows \in [{} -> Row]
  BY DEF NoRows
<1>2. NoRows \in RowSets
  BY <1>1 DEF RowSets
<1>3. NoReg \in RegFiles /\ NoSeq \in SeqFiles
  BY <1>2, RegistryConstants DEF NoReg, RegFiles, NoSeq, SeqFiles, Deadlines
<1>4. Idle \in OpStates
  BY <1>3, RegistryConstants DEF Idle, OpStates, KernelIDs
<1>5. NoProbe \in ProbeStates
  BY DEF NoProbe, ProbeStates
<1> QED
  BY <1>2, <1>3, <1>4, <1>5

\* Handing the flock holder well-typed writes leaves it well typed.
LEMMA StartType ==
  ASSUME NEW s \in SeqFiles, NEW r \in RegFiles, NEW uid \in KernelIDs, NEW fin \in SUBSET Users,
         Start(s, r, uid, fin)
  PROVE  op' \in OpStates
BY NullTypes DEF Start, OpStates

\* The sequence a mutation starts from is a sequence.
LEMMA EnsuredType ==
  ASSUME TypeOK, NEW seed \in KernelIDs, NEW t \in Deadlines
  PROVE  EnsuredSequence(seed, t) \in SeqFiles
BY RegistryConstants DEF TypeOK, EnsuredSequence, SeqFiles, KernelIDs, Deadlines, SeqPresent

\* The writes of a mutation are typed.
LEMMA CommitType ==
  ASSUME TypeOK, NEW rows \in RowSets, NEW s \in SeqFiles, NEW fin \in SUBSET Users,
         CommitMutation(rows, s, fin)
  PROVE  op' \in OpStates
<1>1. now + Quarantine \in Deadlines
  BY RegistryConstants DEF TypeOK, Deadlines
<1>2. [hdr |-> "v5", rows |-> rows] \in RegFiles
  BY DEF RegFiles
<1>3. 0 \in KernelIDs
  BY RegistryConstants DEF KernelIDs
<1>4. CASE reg.hdr = "legacy"
  <2>1. PICK h \in KernelIDs :
          Start(EnsuredSequence(h, now + Quarantine), [hdr |-> "v5", rows |-> rows], 0, fin)
    BY <1>4 DEF CommitMutation
  <2> QED
    BY <2>1, <1>1, <1>2, <1>3, EnsuredType, StartType
<1>5. CASE reg.hdr # "legacy"
  <2>1. Start(s, [hdr |-> "v5", rows |-> rows], 0, fin)
    BY <1>5 DEF CommitMutation
  <2> QED
    BY <2>1, <1>2, <1>3, StartType
<1> QED
  BY <1>4, <1>5

-----------------------------------------------------------------------------
(* Type correctness.                                                         *)

\* The initial state is typed.
LEMMA TypeInit == Init => TypeOK
<1> SUFFICES ASSUME Init PROVE TypeOK
  OBVIOUS
<1>1. reg \in RegFiles
  <2>1. CASE reg = NoReg
    BY <2>1, NullTypes
  <2>2. CASE \E rows \in LegacyRows : reg = [hdr |-> "legacy", rows |-> rows]
    BY <2>2, RegistryInputs DEF RegFiles
  <2> QED
    BY <2>1, <2>2 DEF Init
<1>2. UIDsOf(reg.rows) \subseteq KernelIDs
  BY <1>1, UIDsOfType DEF RegFiles
<1> QED
  BY <1>1, <1>2, NullTypes, RegistryConstants DEF Init, TypeOK

\* One mutation enters the flock with well-typed writes.
LEMMA TypeMutate == TypeOK /\ Mutate => TypeOK'
<1> SUFFICES ASSUME TypeOK, Mutate PROVE TypeOK'
  OBVIOUS
<1>a. reg.rows \in RowSets /\ reg \in RegFiles
  BY DEF TypeOK, RegFiles
<1>b. 0 \in KernelIDs /\ 0 \in Deadlines /\ now + Quarantine \in Deadlines
  BY RegistryConstants DEF TypeOK, KernelIDs, Deadlines
<1>c. {} \in SUBSET Users
  OBVIOUS
<1>d. AccountIDs \subseteq KernelIDs
  BY DEF AccountIDs, KernelIDs
<1>f. ASSUME op' \in OpStates, UNCHANGED <<files, now, missed, losses, probe, used>>
      PROVE  TypeOK'
  BY <1>f DEF TypeOK, files
<1>1. CASE InitStore
  <2>1. op' \in OpStates
    <3>1. CASE reg.hdr = "none" /\ Start(EnsuredSequence(0, 0), [hdr |-> "v5", rows |-> NoRows], 0, {})
      <4>1. EnsuredSequence(0, 0) \in SeqFiles
        BY <1>b, EnsuredType
      <4>2. [hdr |-> "v5", rows |-> NoRows] \in RegFiles
        BY NullTypes DEF RegFiles
      <4> QED
        BY <3>1, <4>1, <4>2, <1>b, <1>c, StartType
    <3>2. CASE \E h \in KernelIDs :
                 Start(EnsuredSequence(h, now + Quarantine), [hdr |-> "v5", rows |-> reg.rows], 0, {})
      <4>1. PICK h \in KernelIDs :
              Start(EnsuredSequence(h, now + Quarantine), [hdr |-> "v5", rows |-> reg.rows], 0, {})
        BY <3>2
      <4>2. EnsuredSequence(h, now + Quarantine) \in SeqFiles
        BY <1>b, EnsuredType
      <4>3. [hdr |-> "v5", rows |-> reg.rows] \in RegFiles
        BY <1>a DEF RegFiles
      <4> QED
        BY <4>1, <4>2, <4>3, <1>b, <1>c, StartType
    <3>3. CASE UNCHANGED op
      BY <3>3 DEF TypeOK
    <3> QED
      BY <1>1, <3>1, <3>2, <3>3 DEF InitStore
  <2> QED
    BY <1>1, <2>1 DEF InitStore, SyncDirectory, TypeOK
<1>2. CASE \E minimum \in AccountIDs : ReserveIdentity(minimum)
  <2>1. PICK minimum \in AccountIDs : ReserveIdentity(minimum)
    BY <1>2
  <2> DEFINE candidate == IF seq.highest + 1 < minimum THEN minimum ELSE seq.highest + 1
  <2>2. candidate \in KernelIDs
    BY <2>1, RegistryConstants DEF ReserveIdentity, TypeOK, SeqFiles, KernelIDs, AccountIDs
  <2>3. [seq EXCEPT !.highest = candidate] \in SeqFiles
    BY <2>2 DEF TypeOK, SeqFiles, KernelIDs
  <2>4. Start([seq EXCEPT !.highest = candidate], NoReg, candidate, {})
    BY <2>1 DEF ReserveIdentity
  <2>5. op' \in OpStates
    BY <2>2, <2>3, <2>4, <1>c, NullTypes, StartType
  <2> QED
    BY <2>1, <2>5, <1>f DEF ReserveIdentity
<1>3. CASE \E highWater \in KernelIDs : RepairMissingIdentitySequence(highWater)
  <2>1. PICK highWater \in KernelIDs : RepairMissingIdentitySequence(highWater)
    BY <1>3
  <2>2. [highest |-> highWater, safeAfter |-> now + Quarantine] \in SeqFiles
    BY <1>b DEF SeqFiles, KernelIDs
  <2>3. op' \in OpStates
    BY <2>1, <2>2, <1>b, <1>c, NullTypes, StartType DEF RepairMissingIdentitySequence
  <2> QED
    BY <2>1, <2>3, <1>f DEF RepairMissingIdentitySequence
<1>4. CASE \E u \in Users, r \in RecordInputs : Record(u, r)
  <2>1. PICK u \in Users, r \in RecordInputs : Record(u, r)
    BY <1>4
  <2>2. r \in Row
    BY RegistryInputs
  <2>3. Upsert(reg.rows, u, r) \in RowSets
    BY <2>2, <1>a, UpsertType
  <2>4. op' \in OpStates
    BY <2>1, <2>3, <1>c, NullTypes, CommitType DEF Record
  <2> QED
    BY <2>1, <2>4, <1>f DEF Record
<1>5. CASE \E u \in Users, uid \in AccountIDs, gen \in Gens \cup {NoGen} : BeginDeletion(u, uid, gen)
  <2>1. PICK u \in Users, uid \in AccountIDs, gen \in Gens \cup {NoGen} : BeginDeletion(u, uid, gen)
    BY <1>5
  <2> DEFINE r == IF u \in DOMAIN reg.rows THEN DeletionMarked(reg.rows[u], uid, gen) ELSE UIDOnlyRecovery(uid)
  <2> DEFINE s == IF gen = NoGen THEN EnsuredSequence(uid, 0) ELSE NoSeq
  <2>2. r \in Row
    <3>1. u \in DOMAIN reg.rows => reg.rows[u] \in Row
      BY <1>a DEF RowSets
    <3> QED
      BY <3>1, <1>b, <1>d DEF DeletionMarked, UIDOnlyRecovery, Row
  <2>3. s \in SeqFiles
    BY <1>b, <1>d, EnsuredType, NullTypes
  <2>4. Upsert(reg.rows, u, r) \in RowSets
    BY <2>2, <1>a, UpsertType
  <2>5. CommitMutation(Upsert(reg.rows, u, r), s, {})
    BY <2>1 DEF BeginDeletion
  <2>6. op' \in OpStates
    BY <2>3, <2>4, <2>5, <1>c, CommitType
  <2> QED
    BY <2>1, <2>6, <1>f DEF BeginDeletion
<1>6. CASE \E u \in Users, uid \in AccountIDs, gen \in Gens : BeginQuarantine(u, uid, gen)
  <2>1. PICK u \in Users, uid \in AccountIDs, gen \in Gens : BeginQuarantine(u, uid, gen)
    BY <1>6
  <2> DEFINE r == [reg.rows[u] EXCEPT !.uid = uid, !.del = TRUE, !.quar = now + Quarantine]
  <2> DEFINE s == IF reg.rows[u].uid = 0 THEN EnsuredSequence(uid, 0) ELSE NoSeq
  <2>2. r \in Row
    <3>1. reg.rows[u] \in Row
      BY <2>1, <1>a DEF BeginQuarantine, RowSets
    <3> QED
      BY <3>1, <1>b, <1>d DEF Row
  <2>3. s \in SeqFiles
    BY <1>b, <1>d, EnsuredType, NullTypes
  <2>4. Upsert(reg.rows, u, r) \in RowSets
    BY <2>2, <1>a, UpsertType
  <2>5. CommitMutation(Upsert(reg.rows, u, r), s, {})
    BY <2>1 DEF BeginQuarantine, QuarantineMarked
  <2>6. op' \in OpStates
    BY <2>3, <2>4, <2>5, <1>c, CommitType
  <2> QED
    BY <2>1, <2>6, <1>f DEF BeginQuarantine, QuarantineMarked
<1>7. CASE \E u \in Users, uid \in AccountIDs, gen \in Gens \cup {NoGen} : FinishDeletionRecovery(u, uid, gen)
  <2>1. PICK u \in Users, uid \in AccountIDs, gen \in Gens \cup {NoGen} : FinishDeletionRecovery(u, uid, gen)
    BY <1>7
  <2>2. {u} \in SUBSET Users
    OBVIOUS
  <2>3. op' \in OpStates
    BY <2>1, <2>2, <1>a, WithoutType, NullTypes, CommitType DEF FinishDeletionRecovery
  <2> QED
    BY <2>1, <2>3, <1>f DEF FinishDeletionRecovery
<1>8. CASE \E u \in Users : Remove(u)
  <2>1. PICK u \in Users : Remove(u)
    BY <1>8
  <2>2. op' \in OpStates
    BY <2>1, <1>a, <1>c, WithoutType, NullTypes, CommitType DEF Remove
  <2> QED
    BY <2>1, <2>2, <1>f DEF Remove
<1>9. CASE \E gone \in SUBSET Users : Compact(gone)
  <2>1. PICK gone \in SUBSET Users : Compact(gone)
    BY <1>9
  <2>2. op' \in OpStates
    BY <2>1, <1>a, <1>c, WithoutType, NullTypes, CommitType DEF Compact
  <2> QED
    BY <2>1, <2>2, <1>f DEF Compact
<1> QED
  BY <1>1, <1>2, <1>3, <1>4, <1>5, <1>6, <1>7, <1>8, <1>9 DEF Mutate

\* Each rename and directory sync keeps the types.
LEMMA TypeWrite == TypeOK /\ Write => TypeOK'
<1> SUFFICES ASSUME TypeOK, Write PROVE TypeOK'
  OBVIOUS
<1>1. CASE RenameSeq
  BY <1>1 DEF RenameSeq, TypeOK, OpStates
<1>2. CASE SyncSeq
  BY <1>2, NullTypes DEF SyncSeq, SyncDirectory, TypeOK, OpStates
<1>3. CASE RenameReg
  BY <1>3, NullTypes DEF RenameReg, TypeOK, OpStates
<1>4. CASE SyncReg
  BY <1>4, NullTypes, UIDsOfType DEF SyncReg, SyncDirectory, TypeOK, RegFiles
<1>5. CASE SyncFails
  BY <1>5, NullTypes, RegistryConstants DEF SyncFails, TypeOK, files
<1>6. CASE Abandon
  BY <1>6, NullTypes, RegistryConstants DEF Abandon, TypeOK, files
<1> QED
  BY <1>1, <1>2, <1>3, <1>4, <1>5, <1>6 DEF Write

\* The readers keep the types.
LEMMA TypeProbe == TypeOK /\ Probe => TypeOK'
<1> SUFFICES ASSUME TypeOK, Probe PROVE TypeOK'
  OBVIOUS
<1>1. probe' \in ProbeStates
  <2>1. UIDsOf(reg.rows) \subseteq KernelIDs
    BY UIDsOfType DEF TypeOK, RegFiles
  <2>2. reg.hdr \in {"none", "legacy", "v5"}
    BY DEF TypeOK, RegFiles
  <2>3. CASE CheckIntegrityReadsRegistry
    BY <2>1, <2>2, <2>3 DEF CheckIntegrityReadsRegistry, ProbeStates
  <2>4. CASE CheckIntegrityReadsSequence
    <3> DEFINE a == probe.hdr = "v5" /\ ~CoversIDs(seq, probe.ids)
    <3>1. a \in BOOLEAN
      OBVIOUS
    <3>2. probe' = [NoProbe EXCEPT !.alarm = a, !.pc = "checked"]
      BY <2>4 DEF CheckIntegrityReadsSequence
    <3> HIDE DEF a
    <3> QED
      BY <3>1, <3>2 DEF NoProbe, ProbeStates
  <2>5. CASE InspectRegistryLossStatsRegistry
    BY <2>5 DEF InspectRegistryLossStatsRegistry, NoProbe, ProbeStates
  <2>6. CASE InspectRegistryLossReadsSequence
    <3> DEFINE a == SeqPresent(seq) /\ (seq.highest > 0 \/ seq.safeAfter # 0)
    <3>1. a \in BOOLEAN
      OBVIOUS
    <3>2. probe' = [NoProbe EXCEPT !.alarm = a, !.pc = "inspected"]
      BY <2>6 DEF InspectRegistryLossReadsSequence
    <3> HIDE DEF a
    <3> QED
      BY <3>1, <3>2 DEF NoProbe, ProbeStates
  <2>7. CASE ProbeEnds
    BY <2>7, NullTypes DEF ProbeEnds
  <2> QED
    BY <2>3, <2>4, <2>5, <2>6, <2>7 DEF Probe
<1>2. UNCHANGED <<files, op, now, missed, losses, used>>
  BY DEF Probe, CheckIntegrityReadsRegistry, CheckIntegrityReadsSequence,
     InspectRegistryLossStatsRegistry, InspectRegistryLossReadsSequence, ProbeEnds
<1> QED
  BY <1>1, <1>2 DEF TypeOK, files

\* Power loss, lost files and time keep the types.
LEMMA TypeEnvironment == TypeOK /\ Environment => TypeOK'
<1> SUFFICES ASSUME TypeOK, Environment PROVE TypeOK'
  OBVIOUS
<1>1. CASE Tick
  BY <1>1, RegistryConstants DEF Tick, TypeOK, files
<1>2. CASE PowerLoss
  BY <1>2, NullTypes DEF PowerLoss, TypeOK
<1>3. CASE LoseRegistry
  BY <1>3, NullTypes, RegistryConstants DEF LoseRegistry, TypeOK
<1>4. CASE LoseSequence
  BY <1>4, NullTypes, RegistryConstants DEF LoseSequence, TypeOK
<1> QED
  BY <1>1, <1>2, <1>3, <1>4 DEF Environment

\* Every reachable state of the store is well typed: in particular a reservation
\* never leaves the configured range, and no counter passes its bound.
THEOREM TypeCorrect == Spec => []TypeOK
<1>1. TypeOK /\ [Next]_vars => TypeOK'
  <2>1. TypeOK /\ UNCHANGED vars => TypeOK'
    BY DEF TypeOK, vars
  <2> QED
    BY <2>1, TypeMutate, TypeWrite, TypeProbe, TypeEnvironment DEF Next
<1> QED
  BY <1>1, TypeInit, PTL DEF Spec

-----------------------------------------------------------------------------
(* No identity is handed out twice.                                          *)

\* Raising the sequence keeps it above the used IDs, provided a sequence created
\* from nothing is seeded above them.
LEMMA EnsuredAbove ==
  ASSUME TypeOK, FilesRemember, NEW seed \in KernelIDs, NEW t \in Deadlines,
         SeqPresent(seq) \/ \A i \in used : i <= seed
  PROVE  Above(EnsuredSequence(seed, t))
<1>1. seq \in SeqFiles /\ used \subseteq KernelIDs
  BY DEF TypeOK
<1>2. CASE SeqPresent(seq)
  <2>1. Above(seq)
    BY <1>2 DEF FilesRemember
  <2> QED
    BY <1>1, <1>2, <2>1, RegistryConstants
    DEF Above, EnsuredSequence, SeqPresent, SeqFiles, KernelIDs
<1>3. CASE ~SeqPresent(seq)
  BY <1>1, <1>3 DEF Above, EnsuredSequence, SeqPresent, KernelIDs
<1> QED
  BY <1>2, <1>3

\* A mutation that starts with remembered writes, syncing the directory or not,
\* preserves the invariant.
LEMMA StartRemembers ==
  ASSUME TypeOK, IdentityInv,
         NEW s \in SeqFiles, s = NoSeq \/ Above(s),
         NEW r \in RegFiles, r = NoReg \/ r.hdr = "v5", NEW fin \in SUBSET Users,
         Start(s, r, 0, fin),
         UNCHANGED <<reg, seq, used>>,
         regDisk' \subseteq regDisk, reg \in regDisk',
         seqDisk' \subseteq seqDisk, seq \in seqDisk'
  PROVE  IdentityInv'
<1>1. FilesRemember'
  BY DEF IdentityInv, FilesRemember, Above
<1>2. WritesRemember'
  <2> DEFINE w == IF s = seq THEN NoSeq ELSE s
  <2>1. CASE w = NoSeq /\ r = NoReg
    BY <2>1 DEF Start, Idle, WritesRemember
  <2>2. CASE ~(w = NoSeq /\ r = NoReg)
    <3>1. op' = [pc |-> IF w = NoSeq THEN "reg" ELSE "seq",
                 newSeq |-> w, newReg |-> r, uid |-> 0, fin |-> fin]
      BY <2>2 DEF Start
    <3>2. w # NoSeq => Above(w)
      OBVIOUS
    <3>3. \A x : Above(x) => (\A i \in used' : i <= x.highest) /\ SeqPresent(x)
      BY DEF Above
    <3> QED
      BY <2>2, <3>1, <3>2, <3>3 DEF WritesRemember, Above
  <2> QED
    BY <2>1, <2>2
<1> QED
  BY <1>1, <1>2 DEF IdentityInv

\* Under a legacy header the highest recorded UID is at least every used number.
LEMMA UsedUnderLegacy ==
  ASSUME TypeOK, FilesRemember, reg.hdr = "legacy", NEW h, NEW ids,
         IsHighestRecordedUID(h, UIDsOf(reg.rows) \cup ids)
  PROVE  \A i \in used : i <= h
BY DEF FilesRemember, IsHighestRecordedUID

\* Every committed mutation of rows preserves the invariant.
LEMMA CommitRemembers ==
  ASSUME TypeOK, IdentityInv,
         NEW rows \in RowSets, NEW s \in SeqFiles, s = NoSeq \/ Above(s) \/ reg.hdr = "legacy",
         NEW fin \in SUBSET Users,
         CommitMutation(rows, s, fin), UNCHANGED <<files, used>>
  PROVE  IdentityInv'
<1>1. now + Quarantine \in Deadlines
  BY RegistryConstants DEF TypeOK, Deadlines
<1>2. [hdr |-> "v5", rows |-> rows] \in RegFiles
  BY DEF RegFiles
<1>3. /\ UNCHANGED <<reg, seq, used>>
      /\ regDisk' \subseteq regDisk /\ reg \in regDisk'
      /\ seqDisk' \subseteq seqDisk /\ seq \in seqDisk'
  BY DEF files, IdentityInv, FilesRemember
<1>4. CASE reg.hdr = "legacy"
  <2>1. PICK h \in KernelIDs :
          /\ IsHighestRecordedUID(h, UIDsOf(reg.rows) \cup UIDsOf(rows))
          /\ Start(EnsuredSequence(h, now + Quarantine), [hdr |-> "v5", rows |-> rows], 0, fin)
    BY <1>4 DEF CommitMutation
  <2>2. \A i \in used : i <= h
    BY <1>4, <2>1, UsedUnderLegacy DEF IdentityInv
  <2>3. Above(EnsuredSequence(h, now + Quarantine))
    BY <1>1, <2>2, EnsuredAbove DEF IdentityInv
  <2>4. EnsuredSequence(h, now + Quarantine) \in SeqFiles
    BY <1>1, EnsuredType
  <2> QED
    BY <1>2, <1>3, <2>1, <2>3, <2>4, StartRemembers
<1>5. CASE reg.hdr # "legacy"
  <2>1. Start(s, [hdr |-> "v5", rows |-> rows], 0, fin)
    BY <1>5 DEF CommitMutation
  <2> QED
    BY <1>2, <1>3, <1>5, <2>1, StartRemembers
<1> QED
  BY <1>4, <1>5

\* No number is used on an empty host.
LEMMA IdentityInit == Init => IdentityInv
<1> SUFFICES ASSUME Init PROVE IdentityInv
  OBVIOUS
<1>1. ~SeqPresent(seq)
  BY DEF Init, NoSeq, SeqPresent
<1>2. reg = NoReg => used = {}
  BY DEF Init, NoReg, NoRows, UIDsOf
<1>3. reg.hdr = "none" => reg = NoReg
  BY DEF Init
<1>4. FilesRemember
  BY <1>1, <1>2, <1>3 DEF Init, FilesRemember
<1>5. WritesRemember
  BY DEF Init, Idle, WritesRemember
<1> QED
  BY <1>4, <1>5 DEF IdentityInv

\* Beginning a mutation remembers every used number.
LEMMA IdentityMutate == TypeOK /\ IdentityInv /\ Mutate => IdentityInv'
<1> SUFFICES ASSUME TypeOK, IdentityInv, Mutate PROVE IdentityInv'
  OBVIOUS
<1>a. reg.rows \in RowSets /\ reg \in RegFiles /\ reg \in regDisk /\ seq \in seqDisk
  BY DEF TypeOK, RegFiles, IdentityInv, FilesRemember
<1>b. 0 \in KernelIDs /\ 0 \in Deadlines /\ now + Quarantine \in Deadlines
  BY RegistryConstants DEF TypeOK, KernelIDs, Deadlines
<1>c. {} \in SUBSET Users
  OBVIOUS
<1>d. AccountIDs \subseteq KernelIDs
  BY DEF AccountIDs, KernelIDs
<1>g. MutationSnapshotReadable => reg.hdr = "legacy" \/ SeqPresent(seq)
  BY DEF MutationSnapshotReadable, Covers, CoversIDs
<1>h. ASSUME NEW uid \in AccountIDs, MutationSnapshotReadable
      PROVE  /\ EnsuredSequence(uid, 0) \in SeqFiles
             /\ Above(EnsuredSequence(uid, 0)) \/ reg.hdr = "legacy"
  BY <1>h, <1>b, <1>d, <1>g, EnsuredType, EnsuredAbove DEF IdentityInv
<1>1. CASE InitStore
  <2>1. /\ UNCHANGED <<reg, seq, used>>
        /\ regDisk' \subseteq regDisk /\ reg \in regDisk'
        /\ seqDisk' \subseteq seqDisk /\ seq \in seqDisk'
    BY <1>1, <1>a DEF InitStore, SyncDirectory
  <2>2. CASE reg.hdr = "none" /\ Start(EnsuredSequence(0, 0), [hdr |-> "v5", rows |-> NoRows], 0, {})
    <3>1. SeqPresent(seq) \/ \A i \in used : i <= 0
      BY <2>2, <1>a DEF IdentityInv, FilesRemember
    <3>2. Above(EnsuredSequence(0, 0)) /\ EnsuredSequence(0, 0) \in SeqFiles
      BY <3>1, <1>b, EnsuredAbove, EnsuredType DEF IdentityInv
    <3>3. [hdr |-> "v5", rows |-> NoRows] \in RegFiles
      BY NullTypes DEF RegFiles
    <3> QED
      BY <2>1, <2>2, <3>2, <3>3, <1>c, StartRemembers
  <2>3. CASE /\ reg.hdr = "legacy"
             /\ \E h \in KernelIDs :
                  /\ IsHighestRecordedUID(h, UIDsOf(reg.rows))
                  /\ Start(EnsuredSequence(h, now + Quarantine), [hdr |-> "v5", rows |-> reg.rows], 0, {})
    <3>1. PICK h \in KernelIDs :
            /\ IsHighestRecordedUID(h, UIDsOf(reg.rows))
            /\ Start(EnsuredSequence(h, now + Quarantine), [hdr |-> "v5", rows |-> reg.rows], 0, {})
      BY <2>3
    <3>2. \A i \in used : i <= h
      BY <2>3, <3>1, <1>a DEF IdentityInv, FilesRemember, IsHighestRecordedUID
    <3>3. /\ Above(EnsuredSequence(h, now + Quarantine))
          /\ EnsuredSequence(h, now + Quarantine) \in SeqFiles
      BY <3>2, <1>b, EnsuredAbove, EnsuredType DEF IdentityInv
    <3>4. [hdr |-> "v5", rows |-> reg.rows] \in RegFiles
      BY <1>a DEF RegFiles
    <3> QED
      BY <2>1, <3>1, <3>3, <3>4, <1>c, StartRemembers
  <2>4. CASE UNCHANGED op
    BY <2>1, <2>4 DEF IdentityInv, FilesRemember, WritesRemember, Above
  <2> QED
    BY <1>1, <2>2, <2>3, <2>4 DEF InitStore
<1>2. CASE \E minimum \in AccountIDs : ReserveIdentity(minimum)
  <2>1. PICK minimum \in AccountIDs : ReserveIdentity(minimum)
    BY <1>2
  <2> DEFINE c == IF seq.highest + 1 < minimum THEN minimum ELSE seq.highest + 1
  <2> DEFINE s == [seq EXCEPT !.highest = c]
  <2>2. reg.hdr = "v5" /\ SeqPresent(seq) /\ UNCHANGED <<files, used>>
    BY <2>1 DEF ReserveIdentity, Covers, CoversIDs
  <2>3. Above(seq)
    BY <2>2, <1>a DEF IdentityInv, FilesRemember
  <2>4. c \in Int /\ c > seq.highest /\ c > 0 /\ seq.highest \in Int
    BY <2>2 DEF TypeOK, SeqFiles, SeqPresent, AccountIDs
  <2>5. s.highest = c /\ s # seq /\ s # NoSeq
    BY <2>4 DEF TypeOK, SeqFiles, NoSeq
  <2>6. op' = [pc |-> "seq", newSeq |-> s, newReg |-> NoReg, uid |-> c, fin |-> {}]
    BY <2>1, <2>5 DEF ReserveIdentity, Start
  <2>7. \A i \in used : i < c
    BY <2>3, <2>4 DEF Above, TypeOK, KernelIDs
  <2>8. FilesRemember'
    BY <2>2 DEF IdentityInv, FilesRemember, Above, files
  <2>9. WritesRemember'
    <3> HIDE DEF c, s
    <3>1. used' = used /\ reg' = reg
      BY <2>2 DEF files
    <3>2. \A i \in used : i \in Int
      BY DEF TypeOK, KernelIDs
    <3> QED
      BY <2>2, <2>4, <2>5, <2>6, <2>7, <3>1, <3>2 DEF WritesRemember, Above, SeqPresent
  <2> QED
    BY <2>8, <2>9 DEF IdentityInv
<1>3. CASE \E highWater \in KernelIDs : RepairMissingIdentitySequence(highWater)
  <2>1. PICK highWater \in KernelIDs : RepairMissingIdentitySequence(highWater)
    BY <1>3
  <2> DEFINE s == [highest |-> highWater, safeAfter |-> now + Quarantine]
  <2>2. s \in SeqFiles
    BY <1>b DEF SeqFiles, KernelIDs
  <2>3. Above(s)
    BY <2>1 DEF RepairMissingIdentitySequence, Above, SeqPresent, KernelIDs
  <2>4. Start(s, NoReg, 0, {}) /\ UNCHANGED <<files, used>>
    BY <2>1 DEF RepairMissingIdentitySequence
  <2> QED
    BY <2>2, <2>3, <2>4, <1>a, <1>c, NullTypes, StartRemembers DEF files
<1>4. CASE \E u \in Users, r \in RecordInputs : Record(u, r)
  <2>1. PICK u \in Users, r \in RecordInputs : Record(u, r)
    BY <1>4
  <2>2. Upsert(reg.rows, u, r) \in RowSets
    BY <1>a, UpsertType, RegistryInputs
  <2> QED
    BY <2>1, <2>2, <1>c, NullTypes, CommitRemembers DEF Record
<1>5. CASE \E u \in Users, uid \in AccountIDs, gen \in Gens \cup {NoGen} : BeginDeletion(u, uid, gen)
  <2>1. PICK u \in Users, uid \in AccountIDs, gen \in Gens \cup {NoGen} : BeginDeletion(u, uid, gen)
    BY <1>5
  <2> DEFINE r == IF u \in DOMAIN reg.rows THEN DeletionMarked(reg.rows[u], uid, gen) ELSE UIDOnlyRecovery(uid)
  <2> DEFINE s == IF gen = NoGen THEN EnsuredSequence(uid, 0) ELSE NoSeq
  <2>2. r \in Row
    <3>1. u \in DOMAIN reg.rows => reg.rows[u] \in Row
      BY <1>a DEF RowSets
    <3> QED
      BY <3>1, <1>b, <1>d DEF DeletionMarked, UIDOnlyRecovery, Row
  <2>3. Upsert(reg.rows, u, r) \in RowSets
    BY <2>2, <1>a, UpsertType
  <2>4. CommitMutation(Upsert(reg.rows, u, r), s, {}) /\ UNCHANGED <<files, used>> /\ MutationSnapshotReadable
    BY <2>1 DEF BeginDeletion
  <2>5. s \in SeqFiles /\ (s = NoSeq \/ Above(s) \/ reg.hdr = "legacy")
    BY <2>4, <1>h, NullTypes
  <2> HIDE DEF r, s
  <2> QED
    BY <2>3, <2>4, <2>5, <1>c, CommitRemembers
<1>6. CASE \E u \in Users, uid \in AccountIDs, gen \in Gens : BeginQuarantine(u, uid, gen)
  <2>1. PICK u \in Users, uid \in AccountIDs, gen \in Gens : BeginQuarantine(u, uid, gen)
    BY <1>6
  <2> DEFINE r == [reg.rows[u] EXCEPT !.uid = uid, !.del = TRUE, !.quar = now + Quarantine]
  <2> DEFINE s == IF reg.rows[u].uid = 0 THEN EnsuredSequence(uid, 0) ELSE NoSeq
  <2>2. r \in Row
    <3>1. reg.rows[u] \in Row
      BY <2>1, <1>a DEF BeginQuarantine, RowSets
    <3> QED
      BY <3>1, <1>b, <1>d DEF Row
  <2>3. Upsert(reg.rows, u, r) \in RowSets
    BY <2>2, <1>a, UpsertType
  <2>4. CommitMutation(Upsert(reg.rows, u, r), s, {}) /\ UNCHANGED <<files, used>> /\ MutationSnapshotReadable
    BY <2>1 DEF BeginQuarantine, QuarantineMarked
  <2>5. s \in SeqFiles /\ (s = NoSeq \/ Above(s) \/ reg.hdr = "legacy")
    BY <2>4, <1>h, NullTypes
  <2> HIDE DEF r, s
  <2> QED
    BY <2>3, <2>4, <2>5, <1>c, CommitRemembers
<1>7. CASE \E u \in Users, uid \in AccountIDs, gen \in Gens \cup {NoGen} : FinishDeletionRecovery(u, uid, gen)
  <2>1. PICK u \in Users, uid \in AccountIDs, gen \in Gens \cup {NoGen} : FinishDeletionRecovery(u, uid, gen)
    BY <1>7
  <2>2. {u} \in SUBSET Users
    OBVIOUS
  <2> QED
    BY <2>1, <2>2, <1>a, WithoutType, NullTypes, CommitRemembers DEF FinishDeletionRecovery
<1>8. CASE \E u \in Users : Remove(u)
  BY <1>8, <1>a, <1>c, WithoutType, NullTypes, CommitRemembers DEF Remove
<1>9. CASE \E gone \in SUBSET Users : Compact(gone)
  BY <1>9, <1>a, <1>c, WithoutType, NullTypes, CommitRemembers DEF Compact
<1> QED
  BY <1>1, <1>2, <1>3, <1>4, <1>5, <1>6, <1>7, <1>8, <1>9 DEF Mutate

\* Each rename and directory sync does.
LEMMA IdentityWrite == TypeOK /\ IdentityInv /\ Write => IdentityInv'
<1> SUFFICES ASSUME TypeOK, IdentityInv, Write PROVE IdentityInv'
  OBVIOUS
<1>a. op \in OpStates /\ used \subseteq KernelIDs /\ seq \in SeqFiles
  BY DEF TypeOK
<1>b. reg \in regDisk /\ seq \in seqDisk
  BY DEF IdentityInv, FilesRemember
<1>1. CASE RenameSeq
  <2>1. op' = [op EXCEPT !.pc = "seqSync"] /\ Above(op.newSeq) /\ used' = used /\ reg' = reg
    BY <1>1 DEF RenameSeq, IdentityInv, WritesRemember
  <2>2. FilesRemember'
    BY <1>1, <2>1 DEF RenameSeq, IdentityInv, FilesRemember, Above
  <2>3. WritesRemember'
    BY <1>1, <1>a, <2>1 DEF RenameSeq, IdentityInv, WritesRemember, OpStates, Above
  <2> QED
    BY <2>2, <2>3 DEF IdentityInv
<1>2. CASE SyncSeq
  <2>1. seq = op.newSeq /\ Above(seq) /\ UNCHANGED <<reg, seq>> /\ regDisk' = {reg} /\ seqDisk' = {seq}
    BY <1>2 DEF SyncSeq, SyncDirectory, IdentityInv, WritesRemember
  <2>2. CASE op.uid = 0
    <3>1. used' = used
      BY <1>2, <2>2 DEF SyncSeq
    <3>2. FilesRemember'
      BY <1>b, <2>1, <3>1 DEF IdentityInv, FilesRemember, Above
    <3>3. WritesRemember'
      BY <1>2, <1>a, <2>1, <2>2, <3>1 DEF SyncSeq, IdentityInv, WritesRemember, OpStates, Idle, Above
    <3> QED
      BY <3>2, <3>3 DEF IdentityInv
  <2>3. CASE op.uid # 0
    <3>1. used' = used \cup {op.uid} /\ op' = Idle /\ reg.hdr = "v5" /\ seq.highest = op.uid
      BY <1>2, <2>1, <2>3 DEF SyncSeq, IdentityInv, WritesRemember
    <3>2. Above(seq)'
      BY <2>1, <3>1, <1>a DEF Above, SeqPresent, SeqFiles, KernelIDs
    <3>3. FilesRemember'
      BY <2>1, <3>1, <3>2 DEF FilesRemember, Above
    <3>4. WritesRemember'
      BY <3>1 DEF WritesRemember, Idle
    <3> QED
      BY <3>3, <3>4 DEF IdentityInv
  <2> QED
    BY <2>2, <2>3
<1>3. CASE RenameReg
  <2>1. op.newReg # NoReg /\ op.newReg.hdr = "v5" /\ op.uid = 0
    BY <1>3 DEF RenameReg, IdentityInv, WritesRemember
  <2>2. CASE Covers(seq, op.newReg.rows)
    <3>1. /\ reg' = op.newReg /\ regDisk' = regDisk \cup {op.newReg}
          /\ op' = [op EXCEPT !.pc = "regSync"] /\ UNCHANGED <<seq, seqDisk, used>>
      BY <1>3, <2>2 DEF RenameReg
    <3>2. FilesRemember'
      BY <2>1, <3>1 DEF IdentityInv, FilesRemember, Above
    <3>3. Covers(seq, reg.rows)'
      BY <2>2, <3>1 DEF Covers, CoversIDs, UIDsOf
    <3>4. WritesRemember'
      BY <2>1, <3>1, <3>3, <1>a DEF IdentityInv, WritesRemember, OpStates
    <3> QED
      BY <3>2, <3>4 DEF IdentityInv
  <2>3. CASE ~Covers(seq, op.newReg.rows)
    <3>1. UNCHANGED <<files, used>> /\ op' = Idle
      BY <1>3, <2>3 DEF RenameReg, files
    <3> QED
      BY <3>1 DEF IdentityInv, FilesRemember, WritesRemember, Above, Idle, files
  <2> QED
    BY <2>2, <2>3
<1>4. CASE SyncReg
  <2>1. /\ reg.hdr = "v5" /\ Covers(seq, reg.rows) /\ op' = Idle
        /\ UNCHANGED <<reg, seq>> /\ regDisk' = {reg} /\ seqDisk' = {seq}
        /\ used' = used \cup UIDsOf(reg.rows)
    BY <1>4 DEF SyncReg, SyncDirectory, IdentityInv, WritesRemember
  <2>2. Above(seq)
    BY <2>1, <1>b DEF IdentityInv, FilesRemember, Covers, CoversIDs
  <2>3. Above(seq)'
    BY <2>1, <2>2 DEF Above, SeqPresent, Covers, CoversIDs
  <2>4. FilesRemember'
    BY <2>1, <2>3 DEF FilesRemember, Above
  <2>5. WritesRemember'
    BY <2>1 DEF WritesRemember, Idle
  <2> QED
    BY <2>4, <2>5 DEF IdentityInv
<1>5. CASE SyncFails \/ Abandon
  <2>1. UNCHANGED <<files, used>> /\ op' = Idle
    BY <1>5 DEF SyncFails, Abandon
  <2> QED
    BY <2>1 DEF IdentityInv, FilesRemember, WritesRemember, Above, Idle, files
<1> QED
  BY <1>1, <1>2, <1>3, <1>4, <1>5 DEF Write

\* So do readers, crashes, losses and waiting.
LEMMA IdentityRest == TypeOK /\ IdentityInv /\ (Probe \/ Environment \/ UNCHANGED vars) => IdentityInv'
<1> SUFFICES ASSUME TypeOK, IdentityInv, Probe \/ Environment \/ UNCHANGED vars PROVE IdentityInv'
  OBVIOUS
<1>1. CASE Probe \/ Tick \/ UNCHANGED vars
  <2>1. UNCHANGED <<reg, seq, regDisk, seqDisk, op, used>>
    BY <1>1 DEF Probe, CheckIntegrityReadsRegistry, CheckIntegrityReadsSequence,
       InspectRegistryLossStatsRegistry, InspectRegistryLossReadsSequence, ProbeEnds, Tick, vars, files
  <2> QED
    BY <2>1 DEF IdentityInv, FilesRemember, WritesRemember, Above, Covers, CoversIDs
<1>2. CASE PowerLoss
  BY <1>2 DEF PowerLoss, IdentityInv, FilesRemember, WritesRemember, Above, Idle
<1>3. CASE LoseRegistry
  <2>1. op.pc = "idle" /\ op' = op /\ UNCHANGED <<seq, seqDisk, used>> /\ SeqPresent(seq) /\ seqDisk = {seq}
        /\ reg' = NoReg /\ regDisk' = {NoReg} /\ op.uid = 0
    BY <1>3 DEF LoseRegistry, IdentityInv, WritesRemember
  <2>2. NoReg.hdr = "none"
    BY DEF NoReg
  <2>3. FilesRemember'
    BY <2>1, <2>2 DEF IdentityInv, FilesRemember, Above
  <2>4. WritesRemember'
    BY <2>1 DEF IdentityInv, WritesRemember
  <2> QED
    BY <2>3, <2>4 DEF IdentityInv
<1>4. CASE LoseSequence
  <2>1. op.pc = "idle" /\ op' = op /\ UNCHANGED <<reg, regDisk, used>> /\ regDisk = {reg} /\ reg.hdr = "v5"
        /\ seq' = NoSeq /\ seqDisk' = {NoSeq} /\ op.uid = 0
    BY <1>4 DEF LoseSequence, IdentityInv, WritesRemember
  <2>2. ~SeqPresent(NoSeq)
    BY DEF NoSeq, SeqPresent
  <2>3. FilesRemember'
    BY <2>1, <2>2 DEF FilesRemember
  <2>4. WritesRemember'
    BY <2>1 DEF IdentityInv, WritesRemember
  <2> QED
    BY <2>3, <2>4 DEF IdentityInv
<1> QED
  BY <1>1, <1>2, <1>3, <1>4 DEF Environment

\* ReserveIdentity never hands out a used identity, for any number of names,
\* IDs, crashes, power losses, unsynced renames and lost files.
THEOREM IdentityNeverReusedTheorem == Spec => []IdentityNeverReused
<1>1. TypeOK /\ IdentityInv /\ [Next]_vars => IdentityInv'
  BY IdentityMutate, IdentityWrite, IdentityRest DEF Next
<1>2. TypeOK /\ IdentityInv => IdentityNeverReused
  BY DEF TypeOK, IdentityInv, WritesRemember, IdentityNeverReused, KernelIDs, OpStates
<1> QED
  BY <1>1, <1>2, IdentityInit, TypeCorrect, PTL DEF Spec

-----------------------------------------------------------------------------
(* What the two files hold: a published registry is covered by its sequence,  *)
(* the sequence only rises, deletion rows are carried over, and every row can *)
(* be deleted.                                                                *)

RowsValid(rows) == \A u \in DOMAIN rows : ValidRow(rows[u])

\* t is what a write may leave of s: no mark is lower, and a new version rises.
Raises(s, t) ==
  \/ t.highest > s.highest
  \/ t.highest = s.highest /\ t.safeAfter > s.safeAfter

\* A rewrite keeps each deletion row, or discharges exactly that one.
Carries(old, new, fin) ==
  \A u \in DOMAIN old : old[u].del =>
    \/ u \in DOMAIN new /\ new[u] = old[u]
    \/ u \notin DOMAIN new /\ fin = {u}

DeletionsBelow(s, rows) == \A u \in DOMAIN rows : rows[u].del => rows[u].uid <= s.highest

\* Every row that is or will be in the file is one ParseLine accepts.
ValidInv ==
  /\ RowsValid(op.newReg.rows)
  /\ \A r \in regDisk : RowsValid(r.rows) /\ (r.hdr = "none" => r = NoReg)

\* What the flock holder still has to write: a sequence above the one in place
\* and above the rows beside it, rows that keep the deletions and whose
\* deletions the sequence of that moment covers.
PendingInv ==
  /\ op.pc = "seq" => Raises(seq, op.newSeq)
  /\ op.pc = "seq" /\ reg.hdr = "v5" => Covers(op.newSeq, reg.rows)
  /\ op.pc \in {"seq", "seqSync", "reg"} /\ op.newReg # NoReg =>
       /\ Carries(reg.rows, op.newReg.rows, op.fin)
       /\ DeletionsBelow(IF op.pc = "seq" THEN op.newSeq ELSE seq, op.newReg.rows)

\* While every fsync succeeded, at most one file is between rename and fsync.
SyncedInv ==
  missed = 0 =>
    /\ op.pc # "regSync" => regDisk = {reg}
    /\ op.pc # "seqSync" => seqDisk = {seq}

FilesInv == ValidInv /\ PendingInv /\ SyncedInv /\ PublishedCovered

\* The unlocked integrity check between its two reads: the numbers it read from
\* a published registry are covered by whatever sequence is in place by then.
CheckInv ==
  missed = 0 /\ losses = 0 =>
    /\ probe.pc = "check" /\ probe.hdr = "v5" => CoversIDs(seq, probe.ids)
    /\ probe.pc = "checked" => ~probe.alarm

-----------------------------------------------------------------------------
\* A sequence covers a set of rows when it covers each of them.
LEMMA CoveredRows ==
  ASSUME NEW s, NEW rows
  PROVE  Covers(s, rows) <=> SeqPresent(s) /\ \A u \in DOMAIN rows : rows[u].uid <= s.highest
BY DEF Covers, CoversIDs, UIDsOf

\* The row of a registered name is a row.
LEMMA RowTyped ==
  ASSUME NEW rows \in RowSets, NEW u \in DOMAIN rows
  PROVE  rows[u] \in Row /\ u \in Users
BY DEF RowSets

\* What is left of the rows.
LEMMA WithoutRows ==
  ASSUME NEW rows, NEW T
  PROVE  /\ DOMAIN Without(rows, T) = DOMAIN rows \ T
         /\ \A v \in DOMAIN rows \ T : Without(rows, T)[v] = rows[v]
BY DEF Without, Restrict

\* An absent registry has no rows.
LEMMA NoRowsEmpty == DOMAIN NoRows = {} /\ DOMAIN NoReg.rows = {} /\ NoReg.hdr = "none"
BY DEF NoRows, NoReg

\* ensureIdentitySequence lowers no mark and reaches the seed.
LEMMA EnsuredRaises ==
  ASSUME TypeOK, NEW seed \in KernelIDs, NEW t \in Deadlines
  PROVE  LET s == EnsuredSequence(seed, t)
         IN  /\ s = seq \/ Raises(seq, s)
             /\ s.highest >= seed /\ s.highest >= seq.highest /\ SeqPresent(s)
BY DEF TypeOK, EnsuredSequence, Raises, SeqFiles, SeqPresent, KernelIDs, Deadlines

\* A mutation that starts with such writes, syncing the directory or not,
\* preserves the invariant.
LEMMA StartKeepsFiles ==
  ASSUME TypeOK, IdentityInv, FilesInv, op.pc = "idle",
         NEW s \in SeqFiles, s = NoSeq \/ s = seq \/ Raises(seq, s),
         s # NoSeq /\ reg.hdr = "v5" => Covers(s, reg.rows),
         NEW r \in RegFiles, RowsValid(r.rows),
         NEW uid, NEW fin,
         r # NoReg => /\ Carries(reg.rows, r.rows, fin)
                      /\ DeletionsBelow(IF s = NoSeq THEN seq ELSE s, r.rows),
         Start(s, r, uid, fin),
         UNCHANGED <<reg, seq, missed, losses>>,
         regDisk' \subseteq regDisk, reg \in regDisk',
         seqDisk' \subseteq seqDisk, seq \in seqDisk'
  PROVE  FilesInv'
<1> DEFINE w == IF s = seq THEN NoSeq ELSE s
<1>1. PublishedCovered'
  BY DEF FilesInv, PublishedCovered
<1>2. CASE w = NoSeq /\ r = NoReg
  <2>1. op' = Idle
    BY <1>2 DEF Start
  <2>2. ValidInv'
    BY <2>1, NoRowsEmpty DEF FilesInv, ValidInv, RowsValid, Idle
  <2>3. PendingInv'
    BY <2>1 DEF PendingInv, Idle
  <2>4. SyncedInv'
    BY <2>1 DEF FilesInv, SyncedInv, Idle
  <2> QED
    BY <1>1, <2>2, <2>3, <2>4 DEF FilesInv
<1>3. CASE ~(w = NoSeq /\ r = NoReg)
  <2>1. op' = [pc |-> IF w = NoSeq THEN "reg" ELSE "seq",
               newSeq |-> w, newReg |-> r, uid |-> uid, fin |-> fin]
    BY <1>3 DEF Start
  <2>2. ValidInv'
    BY <2>1 DEF FilesInv, ValidInv, RowsValid
  <2>3. PendingInv'
    <3>1. CASE w = NoSeq
      <4>1. op'.pc = "reg" /\ op'.newReg = r /\ op'.fin = fin
        BY <2>1, <3>1
      <4>2. r # NoReg => DeletionsBelow(seq, r.rows)
        BY <3>1
      <4> QED
        BY <4>1, <4>2 DEF PendingInv, Carries, DeletionsBelow
    <3>2. CASE w # NoSeq
      <4>1. op'.pc = "seq" /\ op'.newSeq = s /\ op'.newReg = r /\ op'.fin = fin /\ s # seq /\ s # NoSeq
        BY <2>1, <3>2
      <4>2. Raises(seq, s) /\ (reg.hdr = "v5" => Covers(s, reg.rows))
        BY <4>1
      <4>3. r # NoReg => Carries(reg.rows, r.rows, fin) /\ DeletionsBelow(s, r.rows)
        BY <4>1
      <4> QED
        BY <4>1, <4>2, <4>3 DEF PendingInv, Carries, DeletionsBelow, Raises, Covers, CoversIDs
    <3> QED
      BY <3>1, <3>2
  <2>4. SyncedInv'
    BY <2>1 DEF FilesInv, SyncedInv
  <2> QED
    BY <1>1, <2>2, <2>3, <2>4 DEF FilesInv
<1> QED
  BY <1>2, <1>3

\* Every committed mutation of rows preserves it, if the mutation itself keeps
\* the deletions and burns the number of a deletion row it makes.
LEMMA CommitKeepsFiles ==
  ASSUME TypeOK, IdentityInv, FilesInv, op.pc = "idle", MutationSnapshotReadable,
         NEW rows \in RowSets, RowsValid(rows),
         NEW s \in SeqFiles, s = NoSeq \/ s = seq \/ Raises(seq, s),
         s # NoSeq => SeqPresent(s) /\ s.highest >= seq.highest,
         NEW fin, Carries(reg.rows, rows, fin),
         reg.hdr # "legacy" => DeletionsBelow(IF s = NoSeq THEN seq ELSE s, rows),
         CommitMutation(rows, s, fin), UNCHANGED <<files, missed, losses>>
  PROVE  FilesInv'
<1> DEFINE r == [hdr |-> "v5", rows |-> rows]
<1>1. /\ UNCHANGED <<reg, seq, missed, losses>>
      /\ regDisk' \subseteq regDisk /\ reg \in regDisk'
      /\ seqDisk' \subseteq seqDisk /\ seq \in seqDisk'
  BY DEF files, IdentityInv, FilesRemember
<1>2. r \in RegFiles /\ RowsValid(r.rows)
  BY DEF RegFiles
<1>3. CASE reg.hdr = "legacy"
  <2>1. PICK h \in KernelIDs :
          /\ IsHighestRecordedUID(h, UIDsOf(reg.rows) \cup UIDsOf(rows))
          /\ Start(EnsuredSequence(h, now + Quarantine), r, 0, fin)
    BY <1>3 DEF CommitMutation
  <2> DEFINE e == EnsuredSequence(h, now + Quarantine)
  <2>2. now + Quarantine \in Deadlines
    BY RegistryConstants DEF TypeOK, Deadlines
  <2>3. e \in SeqFiles /\ (e = seq \/ Raises(seq, e)) /\ e.highest >= h /\ SeqPresent(e)
    BY <2>2, EnsuredType, EnsuredRaises
  <2>4. e # NoSeq
    BY <2>3 DEF NoSeq, SeqPresent
  <2>5. DeletionsBelow(e, rows)
    <3>1. ASSUME NEW u \in DOMAIN rows PROVE rows[u].uid <= e.highest
      <4>1. rows[u].uid <= h
        BY <2>1 DEF IsHighestRecordedUID, UIDsOf
      <4>2. rows[u].uid \in Int /\ h \in Int /\ e.highest \in Int
        BY <2>3, RowTyped DEF Row, KernelIDs, SeqFiles
      <4> HIDE DEF e
      <4> QED
        BY <2>3, <4>1, <4>2
    <3> QED
      BY <3>1 DEF DeletionsBelow
  <2> HIDE DEF e
  <2> QED
    BY <1>1, <1>2, <1>3, <2>1, <2>3, <2>4, <2>5, StartKeepsFiles DEF e
<1>4. CASE reg.hdr # "legacy"
  <2>1. Start(s, r, 0, fin)
    BY <1>4 DEF CommitMutation
  <2>2. Covers(seq, reg.rows)
    BY <1>4 DEF MutationSnapshotReadable
  <2>3. s # NoSeq => Covers(s, reg.rows)
    <3> SUFFICES ASSUME s # NoSeq, NEW u \in DOMAIN reg.rows
                 PROVE  reg.rows[u].uid <= s.highest
      BY CoveredRows
    <3>1. reg.rows[u].uid <= seq.highest /\ s.highest >= seq.highest
      BY <2>2, CoveredRows
    <3>2. reg.rows[u].uid \in Int /\ seq.highest \in Int /\ s.highest \in Int
      BY RowTyped DEF TypeOK, RegFiles, Row, KernelIDs, SeqFiles
    <3> QED
      BY <3>1, <3>2
  <2> QED
    BY <1>1, <1>2, <1>4, <2>1, <2>3, StartKeepsFiles
<1> QED
  BY <1>3, <1>4

\* An empty host satisfies the invariant of the files.
LEMMA FilesInit == Init => FilesInv
<1> SUFFICES ASSUME Init PROVE FilesInv
  OBVIOUS
<1>1. RowsValid(reg.rows) /\ (reg.hdr = "none" => reg = NoReg)
  <2>1. CASE reg = NoReg
    BY <2>1, NoRowsEmpty DEF RowsValid
  <2>2. CASE \E rows \in LegacyRows : reg = [hdr |-> "legacy", rows |-> rows]
    BY <2>2, RegistryInputs DEF RowsValid
  <2> QED
    BY <2>1, <2>2 DEF Init
<1>2. reg.hdr # "v5"
  BY NoRowsEmpty DEF Init
<1>3. ValidInv
  BY <1>1, NoRowsEmpty DEF Init, ValidInv, RowsValid, Idle
<1>4. PendingInv /\ SyncedInv
  BY DEF Init, PendingInv, SyncedInv, Idle
<1>5. PublishedCovered
  BY <1>2 DEF Init, PublishedCovered
<1> QED
  BY <1>3, <1>4, <1>5 DEF FilesInv

-----------------------------------------------------------------------------
(* One step of a mutation.                                                   *)

\* Putting a row over one that is no deletion row keeps the deletions.
LEMMA UpsertKeeps ==
  ASSUME NEW rows, RowsValid(rows), NEW u, NEW r, ValidRow(r), u \in DOMAIN rows => ~rows[u].del
  PROVE  /\ RowsValid(Upsert(rows, u, r)) /\ Carries(rows, Upsert(rows, u, r), {})
         /\ \A s : DeletionsBelow(s, rows) /\ (r.del => r.uid <= s.highest)
                     => DeletionsBelow(s, Upsert(rows, u, r))
<1> DEFINE new == Upsert(rows, u, r)
<1>1. new = [v \in DOMAIN rows \cup {u} |-> IF v = u THEN r ELSE rows[v]]
  BY DEF Upsert
<1> HIDE DEF new
<1>2. RowsValid(new)
  BY <1>1 DEF RowsValid
<1>3. Carries(rows, new, {})
  BY <1>1 DEF Carries
<1>4. ASSUME NEW s, DeletionsBelow(s, rows), r.del => r.uid <= s.highest
      PROVE  DeletionsBelow(s, new)
  BY <1>1, <1>4 DEF DeletionsBelow
<1> QED
  BY <1>2, <1>3, <1>4 DEF new

\* Taking out rows of which the deletion rows are the one being discharged.
LEMMA WithoutKeeps ==
  ASSUME NEW rows, RowsValid(rows), NEW T, NEW fin,
         \A u \in DOMAIN rows \cap T : rows[u].del => fin = {u}
  PROVE  /\ RowsValid(Without(rows, T)) /\ Carries(rows, Without(rows, T), fin)
         /\ \A s : DeletionsBelow(s, rows) => DeletionsBelow(s, Without(rows, T))
<1> DEFINE new == Without(rows, T)
<1>1. DOMAIN new = DOMAIN rows \ T /\ \A v \in DOMAIN rows \ T : new[v] = rows[v]
  BY WithoutRows
<1> HIDE DEF new
<1>2. RowsValid(new)
  BY <1>1 DEF RowsValid
<1>3. Carries(rows, new, fin)
  BY <1>1 DEF Carries
<1>4. ASSUME NEW s, DeletionsBelow(s, rows)
      PROVE  DeletionsBelow(s, new)
  BY <1>1, <1>4 DEF DeletionsBelow
<1> QED
  BY <1>2, <1>3, <1>4 DEF new

\* Beginning a mutation keeps it: what is planned is valid and covered.
LEMMA FilesMutate == TypeOK /\ IdentityInv /\ FilesInv /\ Mutate => FilesInv'
<1> SUFFICES ASSUME TypeOK, IdentityInv, FilesInv, Mutate PROVE FilesInv'
  OBVIOUS
<1>a. /\ reg.rows \in RowSets /\ reg \in RegFiles /\ reg \in regDisk /\ seq \in seqDisk
      /\ seq \in SeqFiles /\ seq.highest \in Int
  BY DEF TypeOK, RegFiles, SeqFiles, IdentityInv, FilesRemember
<1>b. 0 \in KernelIDs /\ 0 \in Deadlines /\ now + Quarantine \in Deadlines
  BY RegistryConstants DEF TypeOK, KernelIDs, Deadlines
<1>c. /\ RowsValid(reg.rows) /\ (reg.hdr = "none" => reg = NoReg)
      /\ RowsValid(NoReg.rows) /\ RowsValid(NoRows)
  BY <1>a, NoRowsEmpty DEF FilesInv, ValidInv, RowsValid
<1>d. AccountIDs \subseteq KernelIDs
  BY DEF AccountIDs, KernelIDs
<1>e. ASSUME MutationSnapshotReadable, reg.hdr # "legacy"
      PROVE  DeletionsBelow(seq, reg.rows) /\ SeqPresent(seq)
  BY <1>e, CoveredRows DEF MutationSnapshotReadable, DeletionsBelow
\* A mutation that writes rows only, and one that also burns a number.
<1>f. ASSUME NEW rows \in RowSets, RowsValid(rows), NEW fin, Carries(reg.rows, rows, fin),
             reg.hdr # "legacy" => DeletionsBelow(seq, rows),
             op.pc = "idle", MutationSnapshotReadable,
             CommitMutation(rows, NoSeq, fin), UNCHANGED <<files, missed, losses>>
      PROVE  FilesInv'
  BY <1>f, NullTypes, CommitKeepsFiles
<1>g. ASSUME NEW rows \in RowSets, RowsValid(rows), NEW uid \in AccountIDs, Carries(reg.rows, rows, {}),
             reg.hdr # "legacy" => DeletionsBelow(EnsuredSequence(uid, 0), rows),
             op.pc = "idle", MutationSnapshotReadable,
             CommitMutation(rows, EnsuredSequence(uid, 0), {}), UNCHANGED <<files, missed, losses>>
      PROVE  FilesInv'
  <2> DEFINE s == EnsuredSequence(uid, 0)
  <2>1. s \in SeqFiles /\ (s = seq \/ Raises(seq, s)) /\ SeqPresent(s) /\ s.highest >= seq.highest
    BY <1>b, <1>d, EnsuredType, EnsuredRaises
  <2>2. s # NoSeq
    BY <2>1 DEF NoSeq, SeqPresent
  <2>3. reg.hdr # "legacy" => DeletionsBelow(s, rows)
    BY <1>g
  <2>4. CommitMutation(rows, s, {})
    BY <1>g
  <2> HIDE DEF s
  <2> QED
    BY <1>g, <2>1, <2>2, <2>3, <2>4, CommitKeepsFiles
<1>h. ASSUME NEW uid \in AccountIDs, MutationSnapshotReadable, reg.hdr # "legacy"
      PROVE  /\ DeletionsBelow(EnsuredSequence(uid, 0), reg.rows)
             /\ uid <= EnsuredSequence(uid, 0).highest
  <2> DEFINE s == EnsuredSequence(uid, 0)
  <2>1. s \in SeqFiles /\ s.highest >= seq.highest /\ s.highest >= uid
    BY <1>b, <1>d, EnsuredType, EnsuredRaises
  <2>2. s.highest \in Int /\ uid \in Int /\ \A u \in DOMAIN reg.rows : reg.rows[u].uid \in Int
    BY <2>1, <1>a, RowTyped DEF SeqFiles, AccountIDs, Row, KernelIDs
  <2>3. DeletionsBelow(seq, reg.rows)
    BY <1>e, <1>h
  <2> HIDE DEF s
  <2>4. DeletionsBelow(s, reg.rows)
    BY <1>a, <2>1, <2>2, <2>3 DEF DeletionsBelow
  <2> QED
    BY <2>1, <2>2, <2>4 DEF s
<1>1. CASE InitStore
  <2>1. /\ UNCHANGED <<reg, seq, missed, losses>> /\ op.pc = "idle"
        /\ regDisk' \subseteq regDisk /\ reg \in regDisk'
        /\ seqDisk' \subseteq seqDisk /\ seq \in seqDisk'
    BY <1>1, <1>a DEF InitStore, SyncDirectory
  <2>2. CASE reg.hdr = "none" /\ Start(EnsuredSequence(0, 0), [hdr |-> "v5", rows |-> NoRows], 0, {})
    <3> DEFINE s == EnsuredSequence(0, 0)
    <3> DEFINE r == [hdr |-> "v5", rows |-> NoRows]
    <3>1. s \in SeqFiles /\ (s = seq \/ Raises(seq, s))
      BY <1>b, EnsuredType, EnsuredRaises
    <3>2. r \in RegFiles
      BY NullTypes DEF RegFiles
    <3>3. Carries(reg.rows, NoRows, {}) /\ \A t : DeletionsBelow(t, NoRows)
      BY <1>c, <2>2, NoRowsEmpty DEF Carries, DeletionsBelow
    <3>4. Start(s, r, 0, {}) /\ RowsValid(r.rows) /\ reg.hdr # "v5"
      BY <1>c, <2>2
    <3>5. Carries(reg.rows, r.rows, {}) /\ DeletionsBelow(IF s = NoSeq THEN seq ELSE s, r.rows)
      BY <3>3
    <3> HIDE DEF s, r
    <3> QED
      BY <2>1, <3>1, <3>2, <3>4, <3>5, StartKeepsFiles
  <2>3. CASE /\ reg.hdr = "legacy"
             /\ \E h \in KernelIDs :
                  /\ IsHighestRecordedUID(h, UIDsOf(reg.rows))
                  /\ Start(EnsuredSequence(h, now + Quarantine), [hdr |-> "v5", rows |-> reg.rows], 0, {})
    <3>1. PICK h \in KernelIDs :
            /\ IsHighestRecordedUID(h, UIDsOf(reg.rows))
            /\ Start(EnsuredSequence(h, now + Quarantine), [hdr |-> "v5", rows |-> reg.rows], 0, {})
      BY <2>3
    <3> DEFINE s == EnsuredSequence(h, now + Quarantine)
    <3> DEFINE r == [hdr |-> "v5", rows |-> reg.rows]
    <3>2. s \in SeqFiles /\ (s = seq \/ Raises(seq, s)) /\ s.highest >= h /\ SeqPresent(s)
      BY <1>b, EnsuredType, EnsuredRaises
    <3>3. s # NoSeq
      BY <3>2 DEF NoSeq, SeqPresent
    <3>4. Start(s, r, 0, {}) /\ r \in RegFiles /\ RowsValid(r.rows)
      BY <1>a, <1>c, <3>1 DEF RegFiles
    <3>5. Carries(reg.rows, r.rows, {})
      BY DEF Carries
    <3>6. DeletionsBelow(s, r.rows)
      <4>1. ASSUME NEW u \in DOMAIN reg.rows PROVE reg.rows[u].uid <= s.highest
        <5>1. reg.rows[u].uid <= h
          BY <3>1 DEF IsHighestRecordedUID, UIDsOf
        <5>2. reg.rows[u].uid \in Int /\ h \in Int /\ s.highest \in Int
          BY <1>a, <3>2, RowTyped DEF Row, KernelIDs, SeqFiles
        <5> HIDE DEF s
        <5> QED
          BY <3>2, <5>1, <5>2
      <4> QED
        BY <4>1 DEF DeletionsBelow
    <3> HIDE DEF s, r
    <3> QED
      BY <2>1, <2>3, <3>2, <3>3, <3>4, <3>5, <3>6, StartKeepsFiles
  <2>4. CASE UNCHANGED op
    BY <2>1, <2>4
    DEF FilesInv, ValidInv, PendingInv, SyncedInv, PublishedCovered, Raises, Carries,
        DeletionsBelow, Covers, CoversIDs
  <2> QED
    BY <1>1, <2>2, <2>3, <2>4 DEF InitStore
<1>2. CASE \E minimum \in AccountIDs : ReserveIdentity(minimum)
  <2>1. PICK minimum \in AccountIDs : ReserveIdentity(minimum)
    BY <1>2
  <2> DEFINE c == IF seq.highest + 1 < minimum THEN minimum ELSE seq.highest + 1
  <2> DEFINE s == [seq EXCEPT !.highest = c]
  <2>2. /\ Start(s, NoReg, c, {}) /\ UNCHANGED <<files, missed, losses>>
        /\ op.pc = "idle" /\ Covers(seq, reg.rows) /\ c <= MaxUID
    BY <2>1 DEF ReserveIdentity
  <2>3. c \in Int /\ c > seq.highest /\ c > 0
    BY <1>a DEF AccountIDs
  <2>4. s.highest = c /\ s \in SeqFiles
    BY <1>a, <2>2, <2>3, RegistryConstants DEF SeqFiles
  <2> HIDE DEF c
  <2>5. Raises(seq, s)
    BY <2>3, <2>4 DEF Raises
  <2>6. Covers(s, reg.rows)
    <3>1. ASSUME NEW u \in DOMAIN reg.rows PROVE reg.rows[u].uid <= s.highest
      <4>1. reg.rows[u].uid <= seq.highest /\ reg.rows[u].uid \in Int
        BY <1>a, <2>2, CoveredRows, RowTyped DEF Row, KernelIDs
      <4> QED
        BY <1>a, <2>3, <2>4, <4>1
    <3>2. SeqPresent(s)
      BY <1>a, <2>3, <2>4 DEF SeqPresent, TypeOK, SeqFiles
    <3> HIDE DEF s
    <3> QED
      BY <3>1, <3>2, CoveredRows
  <2> HIDE DEF s
  <2> QED
    BY <1>a, <1>c, <2>2, <2>4, <2>5, <2>6, NullTypes, StartKeepsFiles DEF files
<1>3. CASE \E highWater \in KernelIDs : RepairMissingIdentitySequence(highWater)
  <2>1. PICK highWater \in KernelIDs : RepairMissingIdentitySequence(highWater)
    BY <1>3
  <2> DEFINE s == [highest |-> highWater, safeAfter |-> now + Quarantine]
  <2>2. /\ Start(s, NoReg, 0, {}) /\ UNCHANGED <<files, missed, losses>>
        /\ op.pc = "idle" /\ seq = NoSeq /\ \A i \in UIDsOf(reg.rows) : i <= highWater
    BY <2>1 DEF RepairMissingIdentitySequence
  <2>3. s \in SeqFiles /\ Raises(seq, s) /\ Covers(s, reg.rows)
    BY <1>b, <2>2 DEF SeqFiles, KernelIDs, Raises, NoSeq, Covers, CoversIDs, SeqPresent
  <2> HIDE DEF s
  <2> QED
    BY <1>a, <1>c, <2>2, <2>3, NullTypes, StartKeepsFiles DEF files
<1>4. CASE \E u \in Users, r \in RecordInputs : Record(u, r)
  <2>1. PICK u \in Users, r \in RecordInputs : Record(u, r)
    BY <1>4
  <2>2. r \in Row /\ ValidRow(r) /\ ~r.del
    BY RegistryInputs
  <2> DEFINE rows == Upsert(reg.rows, u, r)
  <2>3. /\ op.pc = "idle" /\ MutationSnapshotReadable /\ (u \in DOMAIN reg.rows => ~reg.rows[u].del)
        /\ CommitMutation(rows, NoSeq, {}) /\ UNCHANGED <<files, missed, losses>>
    BY <2>1 DEF Record
  <2>4. /\ rows \in RowSets /\ RowsValid(rows) /\ Carries(reg.rows, rows, {})
        /\ reg.hdr # "legacy" => DeletionsBelow(seq, rows)
    <3>1. rows \in RowSets
      BY <1>a, <2>2, UpsertType
    <3>2. RowsValid(rows) /\ Carries(reg.rows, rows, {})
      BY <1>c, <2>2, <2>3, UpsertKeeps
    <3>3. reg.hdr # "legacy" => DeletionsBelow(seq, rows)
      BY <1>c, <1>e, <2>2, <2>3, UpsertKeeps
    <3> QED
      BY <3>1, <3>2, <3>3
  <2> HIDE DEF rows
  <2> QED
    BY <1>f, <2>3, <2>4
<1>5. CASE \E u \in Users, uid \in AccountIDs, gen \in Gens \cup {NoGen} : BeginDeletion(u, uid, gen)
  <2>1. PICK u \in Users, uid \in AccountIDs, gen \in Gens \cup {NoGen} : BeginDeletion(u, uid, gen)
    BY <1>5
  <2> DEFINE r == IF u \in DOMAIN reg.rows THEN DeletionMarked(reg.rows[u], uid, gen) ELSE UIDOnlyRecovery(uid)
  <2> DEFINE rows == Upsert(reg.rows, u, r)
  <2>2. /\ op.pc = "idle" /\ MutationSnapshotReadable /\ ValidRow(r)
        /\ (u \in DOMAIN reg.rows => DeletionMarkable(reg.rows[u], uid, gen))
        /\ (u \notin DOMAIN reg.rows => gen = NoGen)
        /\ CommitMutation(rows, IF gen = NoGen THEN EnsuredSequence(uid, 0) ELSE NoSeq, {})
        /\ UNCHANGED <<files, missed, losses>>
    BY <2>1 DEF BeginDeletion
  <2>3. u \in DOMAIN reg.rows => reg.rows[u] \in Row /\ ~reg.rows[u].del
    BY <1>a, <2>2, RowTyped DEF DeletionMarkable
  <2>4. r \in Row
    BY <2>3, <1>b, <1>d DEF DeletionMarked, UIDOnlyRecovery, Row
  <2>5. gen = NoGen => r.uid = uid
    BY <2>3 DEF DeletionMarked, UIDOnlyRecovery, Row
  <2>6. gen # NoGen => u \in DOMAIN reg.rows /\ r.uid = uid /\ reg.rows[u].uid = uid
    BY <2>2, <2>3 DEF DeletionMarked, DeletionMarkable, Row
  <2> HIDE DEF r
  <2>7. rows \in RowSets /\ RowsValid(rows) /\ Carries(reg.rows, rows, {})
    BY <1>a, <1>c, <2>2, <2>3, <2>4, UpsertType, UpsertKeeps
  <2>8. CASE gen = NoGen
    <3>1. reg.hdr # "legacy" => DeletionsBelow(EnsuredSequence(uid, 0), rows)
      BY <1>h, <2>2, <1>c, <2>3, <2>5, <2>8, UpsertKeeps
    <3> HIDE DEF rows
    <3> QED
      BY <1>g, <2>2, <2>7, <2>8, <3>1
  <2>9. CASE gen # NoGen
    <3>1. reg.hdr # "legacy" => DeletionsBelow(seq, rows)
      <4> SUFFICES ASSUME reg.hdr # "legacy" PROVE DeletionsBelow(seq, rows)
        OBVIOUS
      <4>1. r.uid <= seq.highest
        BY <2>2, <2>6, <2>9, CoveredRows DEF MutationSnapshotReadable
      <4> QED
        BY <1>c, <1>e, <2>2, <2>3, <4>1, UpsertKeeps
    <3> HIDE DEF rows
    <3> QED
      BY <1>f, <2>2, <2>7, <2>9, <3>1
  <2> QED
    BY <2>8, <2>9
<1>6. CASE \E u \in Users, uid \in AccountIDs, gen \in Gens : BeginQuarantine(u, uid, gen)
  <2>1. PICK u \in Users, uid \in AccountIDs, gen \in Gens : BeginQuarantine(u, uid, gen)
    BY <1>6
  <2> DEFINE r == QuarantineMarked(reg.rows[u], uid)
  <2> DEFINE rows == Upsert(reg.rows, u, r)
  <2>2. /\ op.pc = "idle" /\ MutationSnapshotReadable /\ ValidRow(r)
        /\ u \in DOMAIN reg.rows /\ QuarantineMarkable(reg.rows[u], uid, gen)
        /\ CommitMutation(rows, IF reg.rows[u].uid = 0 THEN EnsuredSequence(uid, 0) ELSE NoSeq, {})
        /\ UNCHANGED <<files, missed, losses>>
    BY <2>1 DEF BeginQuarantine
  <2>3. reg.rows[u] \in Row /\ ~reg.rows[u].del /\ reg.rows[u].uid \in {0, uid}
    BY <1>a, <2>2, RowTyped DEF QuarantineMarkable
  <2>4. r \in Row /\ r.uid = uid
    BY <2>3, <1>b, <1>d DEF QuarantineMarked, Row
  <2> HIDE DEF r
  <2>7. rows \in RowSets /\ RowsValid(rows) /\ Carries(reg.rows, rows, {})
    BY <1>a, <1>c, <2>2, <2>3, <2>4, UpsertType, UpsertKeeps
  <2>8. CASE reg.rows[u].uid = 0
    <3>1. reg.hdr # "legacy" => DeletionsBelow(EnsuredSequence(uid, 0), rows)
      BY <1>h, <2>2, <1>c, <2>3, <2>4, <2>8, UpsertKeeps
    <3> HIDE DEF rows
    <3> QED
      BY <1>g, <2>2, <2>7, <2>8, <3>1
  <2>9. CASE reg.rows[u].uid # 0
    <3>1. reg.hdr # "legacy" => DeletionsBelow(seq, rows)
      <4> SUFFICES ASSUME reg.hdr # "legacy" PROVE DeletionsBelow(seq, rows)
        OBVIOUS
      <4>1. r.uid <= seq.highest
        BY <2>2, <2>3, <2>4, <2>9, CoveredRows DEF MutationSnapshotReadable
      <4> QED
        BY <1>c, <1>e, <2>2, <2>3, <4>1, UpsertKeeps
    <3> HIDE DEF rows
    <3> QED
      BY <1>f, <2>2, <2>7, <2>9, <3>1
  <2> QED
    BY <2>8, <2>9
<1>7. CASE \E u \in Users, uid \in AccountIDs, gen \in Gens \cup {NoGen} : FinishDeletionRecovery(u, uid, gen)
  <2>1. PICK u \in Users, uid \in AccountIDs, gen \in Gens \cup {NoGen} : FinishDeletionRecovery(u, uid, gen)
    BY <1>7
  <2> DEFINE rows == Without(reg.rows, {u})
  <2>2. /\ op.pc = "idle" /\ MutationSnapshotReadable
        /\ CommitMutation(rows, NoSeq, {u}) /\ UNCHANGED <<files, missed, losses>>
    BY <2>1 DEF FinishDeletionRecovery
  <2>3. rows \in RowSets /\ RowsValid(rows) /\ Carries(reg.rows, rows, {u})
    BY <1>a, <1>c, WithoutType, WithoutKeeps
  <2>4. reg.hdr # "legacy" => DeletionsBelow(seq, rows)
    BY <1>c, <1>e, <2>2, WithoutKeeps
  <2> HIDE DEF rows
  <2> QED
    BY <1>f, <2>2, <2>3, <2>4
<1>8. CASE \E u \in Users : Remove(u)
  <2>1. PICK u \in Users : Remove(u)
    BY <1>8
  <2> DEFINE rows == Without(reg.rows, {u})
  <2>2. /\ op.pc = "idle" /\ MutationSnapshotReadable /\ ~reg.rows[u].del
        /\ CommitMutation(rows, NoSeq, {}) /\ UNCHANGED <<files, missed, losses>>
    BY <2>1 DEF Remove
  <2>3. rows \in RowSets /\ RowsValid(rows) /\ Carries(reg.rows, rows, {})
    BY <1>a, <1>c, <2>2, WithoutType, WithoutKeeps
  <2>4. reg.hdr # "legacy" => DeletionsBelow(seq, rows)
    BY <1>c, <1>e, <2>2, WithoutKeeps
  <2> HIDE DEF rows
  <2> QED
    BY <1>f, <2>2, <2>3, <2>4
<1>9. CASE \E gone \in SUBSET Users : Compact(gone)
  <2>1. PICK gone \in SUBSET Users : Compact(gone)
    BY <1>9
  <2> DEFINE pruned == {u \in DOMAIN reg.rows \cap gone : ~reg.rows[u].del}
  <2> DEFINE rows == Without(reg.rows, pruned)
  <2>2. /\ op.pc = "idle" /\ MutationSnapshotReadable
        /\ CommitMutation(rows, NoSeq, {}) /\ UNCHANGED <<files, missed, losses>>
    BY <2>1 DEF Compact
  <2>3. rows \in RowSets /\ RowsValid(rows) /\ Carries(reg.rows, rows, {})
    BY <1>a, <1>c, WithoutType, WithoutKeeps
  <2>4. reg.hdr # "legacy" => DeletionsBelow(seq, rows)
    BY <1>c, <1>e, <2>2, WithoutKeeps
  <2> HIDE DEF rows
  <2> QED
    BY <1>f, <2>2, <2>3, <2>4
<1> QED
  BY <1>1, <1>2, <1>3, <1>4, <1>5, <1>6, <1>7, <1>8, <1>9 DEF Mutate

-----------------------------------------------------------------------------
(* One step of a write, and of everything else.                              *)

\* A flock holder that stops keeps the files as they are.
LEMMA StopKeepsFiles ==
  ASSUME FilesInv, op' = Idle, UNCHANGED <<files, losses>>,
         missed' # 0 \/ (missed' = missed /\ op.pc \notin {"seqSync", "regSync"})
  PROVE  FilesInv'
<1>1. ValidInv'
  BY NoRowsEmpty DEF FilesInv, ValidInv, RowsValid, Idle, files
<1>2. PendingInv'
  BY DEF PendingInv, Idle
<1>3. SyncedInv' /\ PublishedCovered'
  BY DEF FilesInv, SyncedInv, PublishedCovered, Idle, files
<1> QED
  BY <1>1, <1>2, <1>3 DEF FilesInv

\* Each rename and directory sync keeps it.
LEMMA FilesWrite == TypeOK /\ IdentityInv /\ FilesInv /\ Write => FilesInv'
<1> SUFFICES ASSUME TypeOK, IdentityInv, FilesInv, Write PROVE FilesInv'
  OBVIOUS
<1>a. op \in OpStates /\ missed \in Nat /\ reg \in regDisk /\ seq \in seqDisk
  BY RegistryConstants DEF TypeOK, IdentityInv, FilesRemember
<1>1. CASE RenameSeq
  <2>1. /\ op.pc = "seq" /\ seq' = op.newSeq /\ seqDisk' = seqDisk \cup {op.newSeq}
        /\ op'.pc = "seqSync" /\ op'.newReg = op.newReg /\ op'.fin = op.fin
        /\ UNCHANGED <<reg, regDisk, missed, losses>>
    BY <1>1, <1>a DEF RenameSeq, OpStates
  <2>2. ValidInv'
    BY <2>1 DEF FilesInv, ValidInv
  <2>3. PendingInv'
    BY <2>1 DEF FilesInv, PendingInv, Carries, DeletionsBelow
  <2>4. SyncedInv'
    BY <2>1 DEF FilesInv, SyncedInv
  <2>5. PublishedCovered'
    <3> SUFFICES ASSUME missed = 0, NEW r \in regDisk, NEW s \in seqDisk', r.hdr = "v5",
                        SeqPresent(s) \/ losses = 0
                 PROVE  Covers(s, r.rows)
      BY <2>1 DEF PublishedCovered, Covers, CoversIDs, UIDsOf, SeqPresent
    <3>1. CASE s \in seqDisk
      BY <3>1 DEF FilesInv, PublishedCovered
    <3>2. CASE s = op.newSeq
      <4>1. r = reg
        BY <2>1 DEF FilesInv, SyncedInv
      <4> QED
        BY <2>1, <3>2, <4>1 DEF FilesInv, PendingInv
    <3> QED
      BY <2>1, <3>1, <3>2
  <2> QED
    BY <2>2, <2>3, <2>4, <2>5 DEF FilesInv
<1>2. CASE SyncSeq
  <2>1. /\ op.pc = "seqSync" /\ UNCHANGED <<reg, seq, missed, losses>>
        /\ regDisk' = {reg} /\ seqDisk' = {seq}
    BY <1>2 DEF SyncSeq, SyncDirectory
  <2>2. PublishedCovered' /\ SyncedInv'
    BY <1>a, <2>1 DEF FilesInv, PublishedCovered, SyncedInv
  <2>3. CASE op' = Idle
    <3>1. ValidInv'
      BY <1>a, <2>1, <2>3, NoRowsEmpty DEF FilesInv, ValidInv, RowsValid, Idle
    <3>2. PendingInv'
      BY <2>3 DEF PendingInv, Idle
    <3> QED
      BY <2>2, <3>1, <3>2 DEF FilesInv
  <2>4. CASE op' = [op EXCEPT !.pc = "reg"]
    <3>1. op'.pc = "reg" /\ op'.newReg = op.newReg /\ op'.fin = op.fin
      BY <1>a, <2>4 DEF OpStates
    <3>2. ValidInv'
      BY <1>a, <2>1, <3>1 DEF FilesInv, ValidInv
    <3>3. PendingInv'
      BY <2>1, <3>1 DEF FilesInv, PendingInv, Carries, DeletionsBelow
    <3> QED
      BY <2>2, <3>2, <3>3 DEF FilesInv
  <2> QED
    BY <1>2, <2>3, <2>4 DEF SyncSeq
<1>3. CASE RenameReg
  <2>1. op.pc = "reg" /\ UNCHANGED <<seq, seqDisk, missed, losses>>
    BY <1>3 DEF RenameReg
  <2>2. CASE Covers(seq, op.newReg.rows)
    <3>1. /\ reg' = op.newReg /\ regDisk' = regDisk \cup {op.newReg}
          /\ op'.pc = "regSync" /\ op'.newReg = op.newReg
      BY <1>3, <1>a, <2>2 DEF RenameReg, OpStates
    <3>2. op.newReg.hdr = "v5"
      BY <2>1 DEF IdentityInv, WritesRemember
    <3>3. ValidInv'
      BY <3>1, <3>2 DEF FilesInv, ValidInv
    <3>4. PendingInv'
      BY <3>1 DEF PendingInv
    <3>5. SyncedInv'
      BY <2>1, <3>1 DEF FilesInv, SyncedInv
    <3>6. PublishedCovered'
      <4> SUFFICES ASSUME missed = 0, NEW r \in regDisk', NEW s \in seqDisk, r.hdr = "v5",
                          SeqPresent(s) \/ losses = 0
                   PROVE  Covers(s, r.rows)
        BY <2>1 DEF PublishedCovered, Covers, CoversIDs, UIDsOf, SeqPresent
      <4>1. s = seq
        BY <2>1 DEF FilesInv, SyncedInv
      <4>2. CASE r \in regDisk
        BY <4>2 DEF FilesInv, PublishedCovered
      <4>3. CASE r = op.newReg
        BY <2>2, <4>1, <4>3
      <4> QED
        BY <3>1, <4>2, <4>3
    <3> QED
      BY <3>3, <3>4, <3>5, <3>6 DEF FilesInv
  <2>3. CASE ~Covers(seq, op.newReg.rows)
    <3>1. op' = Idle /\ UNCHANGED <<files, losses, missed>>
      BY <1>3, <2>3 DEF RenameReg, files
    <3> QED
      BY <2>1, <3>1, StopKeepsFiles
  <2> QED
    BY <2>2, <2>3
<1>4. CASE SyncReg
  <2>1. /\ op' = Idle /\ UNCHANGED <<reg, seq, missed, losses>>
        /\ regDisk' = {reg} /\ seqDisk' = {seq}
    BY <1>4 DEF SyncReg, SyncDirectory
  <2>2. ValidInv'
    BY <1>a, <2>1, NoRowsEmpty DEF FilesInv, ValidInv, RowsValid, Idle
  <2>3. PendingInv'
    BY <2>1 DEF PendingInv, Idle
  <2>4. PublishedCovered' /\ SyncedInv'
    BY <1>a, <2>1 DEF FilesInv, PublishedCovered, SyncedInv
  <2> QED
    BY <2>2, <2>3, <2>4 DEF FilesInv
<1>5. CASE SyncFails
  <2>1. op' = Idle /\ UNCHANGED <<files, losses>> /\ missed' # 0
    BY <1>5, <1>a DEF SyncFails
  <2> QED
    BY <2>1, StopKeepsFiles
<1>6. CASE Abandon
  <2>1. /\ op' = Idle /\ UNCHANGED <<files, losses>>
        /\ missed' # 0 \/ (missed' = missed /\ op.pc \notin {"seqSync", "regSync"})
    BY <1>6, <1>a DEF Abandon
  <2> QED
    BY <2>1, StopKeepsFiles
<1> QED
  BY <1>1, <1>2, <1>3, <1>4, <1>5, <1>6 DEF Write

\* So do the readers, power loss, lost files and waiting.
LEMMA FilesRest ==
  TypeOK /\ IdentityInv /\ FilesInv /\ (Probe \/ Environment \/ UNCHANGED vars) => FilesInv'
<1> SUFFICES ASSUME TypeOK, IdentityInv, FilesInv, Probe \/ Environment \/ UNCHANGED vars
             PROVE  FilesInv'
  OBVIOUS
<1>1. CASE Probe \/ Tick \/ UNCHANGED vars
  <2>1. UNCHANGED <<reg, seq, regDisk, seqDisk, op, missed, losses>>
    BY <1>1 DEF Probe, CheckIntegrityReadsRegistry, CheckIntegrityReadsSequence,
       InspectRegistryLossStatsRegistry, InspectRegistryLossReadsSequence, ProbeEnds, Tick, vars, files
  <2> QED
    BY <2>1 DEF FilesInv, ValidInv, PendingInv, SyncedInv, PublishedCovered, Raises, Carries,
                DeletionsBelow, Covers, CoversIDs
<1>2. CASE PowerLoss
  <2>1. /\ reg' \in regDisk /\ seq' \in seqDisk /\ regDisk' = {reg'} /\ seqDisk' = {seq'}
        /\ op' = Idle /\ UNCHANGED <<missed, losses>>
    BY <1>2 DEF PowerLoss
  <2>2. ValidInv'
    BY <2>1, NoRowsEmpty DEF FilesInv, ValidInv, RowsValid, Idle
  <2>3. PendingInv' /\ SyncedInv'
    BY <2>1 DEF PendingInv, SyncedInv, Idle
  <2>4. PublishedCovered'
    BY <2>1 DEF FilesInv, PublishedCovered
  <2> QED
    BY <2>2, <2>3, <2>4 DEF FilesInv
<1>3. CASE LoseRegistry
  <2>1. /\ op.pc = "idle" /\ reg' = NoReg /\ regDisk' = {NoReg}
        /\ UNCHANGED <<seq, seqDisk, op, missed>> /\ seqDisk = {seq}
    BY <1>3 DEF LoseRegistry
  <2>2. ValidInv'
    BY <2>1, NoRowsEmpty DEF FilesInv, ValidInv, RowsValid
  <2>3. PendingInv' /\ SyncedInv'
    BY <2>1 DEF PendingInv, SyncedInv
  <2>4. PublishedCovered'
    BY <2>1, NoRowsEmpty DEF PublishedCovered
  <2> QED
    BY <2>2, <2>3, <2>4 DEF FilesInv
<1>4. CASE LoseSequence
  <2>1. /\ op.pc = "idle" /\ regDisk = {reg} /\ seq' = NoSeq /\ seqDisk' = {NoSeq}
        /\ UNCHANGED <<reg, regDisk, op, missed>> /\ losses' # 0
    BY <1>4, RegistryConstants DEF LoseSequence, TypeOK
  <2>2. ValidInv'
    BY <2>1 DEF FilesInv, ValidInv
  <2>3. PendingInv' /\ SyncedInv'
    BY <2>1 DEF PendingInv, SyncedInv
  <2>4. PublishedCovered'
    BY <2>1 DEF PublishedCovered, NoSeq, SeqPresent
  <2> QED
    BY <2>2, <2>3, <2>4 DEF FilesInv
<1> QED
  BY <1>1, <1>2, <1>3, <1>4 DEF Environment

\* The three inductive invariants together.
THEOREM StoreInvariant == Spec => [](TypeOK /\ IdentityInv /\ FilesInv)
<1>1. TypeOK /\ [Next]_vars => TypeOK'
  BY TypeMutate, TypeWrite, TypeProbe, TypeEnvironment DEF Next, TypeOK, vars
<1>2. TypeOK /\ IdentityInv /\ [Next]_vars => IdentityInv'
  BY IdentityMutate, IdentityWrite, IdentityRest DEF Next
<1>3. TypeOK /\ IdentityInv /\ FilesInv /\ [Next]_vars => FilesInv'
  BY FilesMutate, FilesWrite, FilesRest DEF Next
<1> QED
  BY <1>1, <1>2, <1>3, TypeInit, IdentityInit, FilesInit, PTL DEF Spec

-----------------------------------------------------------------------------
(* What follows.                                                             *)

\* The strengthening that keeps a used number from being handed out again is
\* itself an invariant: every version of the sequence that may be read is above
\* the used numbers, and so is what a store mutation has still to write.
THEOREM IdentityInvariant == Spec => []IdentityInv
BY StoreInvariant, PTL

\* While every rename was followed by its fsync, any two versions a power loss
\* can leave fit together: a v5 registry beside a sequence that covers its rows.
THEOREM PublishedAlwaysCovered == Spec => []PublishedCovered
<1>1. FilesInv => PublishedCovered
  BY DEF FilesInv
<1> QED
  BY <1>1, StoreInvariant, PTL

\* Every row any history leads to can be turned into a deletion row, or a
\* quarantine row, that ParseLine accepts.
THEOREM DeletionAlwaysStaysExpressible == Spec => []DeletionAlwaysExpressible
<1>1. TypeOK /\ IdentityInv /\ FilesInv => DeletionAlwaysExpressible
  <2> SUFFICES ASSUME TypeOK, IdentityInv, FilesInv,
                      NEW u \in DOMAIN reg.rows, NEW uid \in AccountIDs, NEW gen \in Gens \cup {NoGen}
               PROVE  LET r == reg.rows[u]
                      IN  /\ DeletionMarkable(r, uid, gen) => ValidRow(DeletionMarked(r, uid, gen))
                          /\ QuarantineMarkable(r, uid, gen) => ValidRow(QuarantineMarked(r, uid))
    BY DEF DeletionAlwaysExpressible
  <2> DEFINE r == reg.rows[u]
  <2>1. r \in Row /\ ValidRow(r)
    BY RowTyped DEF TypeOK, RegFiles, IdentityInv, FilesRemember, FilesInv, ValidInv, RowsValid
  <2>2. now + Quarantine # 0
    BY RegistryConstants DEF TypeOK
  <2> HIDE DEF r
  <2>3. DeletionMarkable(r, uid, gen) => ValidRow(DeletionMarked(r, uid, gen))
    BY <2>1 DEF DeletionMarkable, DeletionMarked, ValidRow, Row, AccountIDs
  <2>4. QuarantineMarkable(r, uid, gen) => ValidRow(QuarantineMarked(r, uid))
    BY <2>1, <2>2 DEF QuarantineMarkable, QuarantineMarked, ValidRow, Row, AccountIDs
  <2> QED
    BY <2>3, <2>4 DEF r
<1> QED
  BY <1>1, StoreInvariant, PTL

\* The sequence a deletion row meets when it is written already covers it, so
\* the write is not refused.
THEOREM DeletionAlwaysCovered == Spec => []DeletionNeverUncovered
<1>1. IdentityInv /\ FilesInv => DeletionNeverUncovered
  <2> SUFFICES ASSUME IdentityInv, FilesInv, op.pc = "reg"
               PROVE  \A u \in DOMAIN op.newReg.rows :
                        op.newReg.rows[u].del => op.newReg.rows[u].uid <= seq.highest
    BY DEF DeletionNeverUncovered
  <2>1. op.newReg # NoReg
    BY DEF IdentityInv, WritesRemember
  <2> QED
    BY <2>1 DEF FilesInv, PendingInv, DeletionsBelow
<1> QED
  BY <1>1, StoreInvariant, PTL

\* No write lowers a mark of the sequence.
THEOREM SequenceAlwaysRises == Spec => SequenceMonotone
<1> DEFINE Rises == seq' # seq /\ op'.pc = "seqSync" =>
                      \/ seq'.highest > seq.highest
                      \/ seq'.highest = seq.highest /\ seq'.safeAfter > seq.safeAfter
<1>1. FilesInv /\ [Next]_vars => [Rises]_vars
  <2> SUFFICES ASSUME FilesInv, Next, seq' # seq, op'.pc = "seqSync"
               PROVE  \/ seq'.highest > seq.highest
                      \/ seq'.highest = seq.highest /\ seq'.safeAfter > seq.safeAfter
    OBVIOUS
  <2>1. RenameSeq
    <3>1. ~Mutate
      BY DEF Mutate, InitStore, ReserveIdentity, RepairMissingIdentitySequence, Record,
         BeginDeletion, BeginQuarantine, FinishDeletionRecovery, Remove, Compact, files
    <3>2. ~Probe
      BY DEF Probe, CheckIntegrityReadsRegistry, CheckIntegrityReadsSequence,
         InspectRegistryLossStatsRegistry, InspectRegistryLossReadsSequence, ProbeEnds, files
    <3>3. ~Environment
      BY DEF Environment, Tick, PowerLoss, LoseRegistry, LoseSequence, Idle, files
    <3> QED
      BY <3>1, <3>2, <3>3 DEF Next, Write, SyncSeq, RenameReg, SyncReg, SyncFails, Abandon, files
  <2> QED
    BY <2>1 DEF RenameSeq, FilesInv, PendingInv, Raises
<1> QED
  BY <1>1, StoreInvariant, PTL DEF Spec, SequenceMonotone

\* A rewrite of the registry carries a deletion row over, unless it is the
\* discharge of exactly that row.
THEOREM DeletionRowsAlwaysFinal == Spec => DeletionRowsFinal
<1> DEFINE Kept == reg' # reg /\ op'.pc = "regSync" =>
                     \A u \in DOMAIN reg.rows :
                       reg.rows[u].del =>
                         \/ u \in DOMAIN reg'.rows /\ reg'.rows[u] = reg.rows[u]
                         \/ u \notin DOMAIN reg'.rows /\ op.fin = {u}
<1>1. IdentityInv /\ FilesInv /\ [Next]_vars => [Kept]_vars
  <2> SUFFICES ASSUME IdentityInv, FilesInv, Next, reg' # reg, op'.pc = "regSync"
               PROVE  Carries(reg.rows, reg'.rows, op.fin)
    BY DEF Carries
  <2>1. RenameReg
    <3>1. ~Mutate
      BY DEF Mutate, InitStore, ReserveIdentity, RepairMissingIdentitySequence, Record,
         BeginDeletion, BeginQuarantine, FinishDeletionRecovery, Remove, Compact, files
    <3>2. ~Probe
      BY DEF Probe, CheckIntegrityReadsRegistry, CheckIntegrityReadsSequence,
         InspectRegistryLossStatsRegistry, InspectRegistryLossReadsSequence, ProbeEnds, files
    <3>3. ~Environment
      BY DEF Environment, Tick, PowerLoss, LoseRegistry, LoseSequence, Idle, files
    <3> QED
      BY <3>1, <3>2, <3>3 DEF Next, Write, RenameSeq, SyncSeq, SyncReg, SyncFails, Abandon, files
  <2>2. op.pc = "reg" /\ op.newReg # NoReg /\ reg' = op.newReg
    BY <2>1 DEF RenameReg, IdentityInv, WritesRemember
  <2> QED
    BY <2>2 DEF FilesInv, PendingInv
<1> QED
  BY <1>1, StoreInvariant, PTL DEF Spec, DeletionRowsFinal

\* A published registry is covered when the check reads it, and from then on
\* the sequence is replaced only by a higher one, unless a power loss takes the
\* check with it or the sequence is lost.
LEMMA CheckStep ==
  TypeOK /\ IdentityInv /\ FilesInv /\ CheckInv /\ [Next]_vars => CheckInv'
<1> SUFFICES ASSUME TypeOK, IdentityInv, FilesInv, CheckInv, [Next]_vars PROVE CheckInv'
  OBVIOUS
<1>a. missed \in Nat /\ losses \in Nat /\ probe \in ProbeStates
  BY RegistryConstants DEF TypeOK
<1>b. ASSUME UNCHANGED <<seq, probe, losses>>, missed' = missed \/ missed' # 0
      PROVE  CheckInv'
  BY <1>b DEF CheckInv, CoversIDs, SeqPresent
<1>1. CASE Mutate \/ SyncSeq \/ RenameReg \/ SyncReg \/ SyncFails \/ Abandon
           \/ Tick \/ UNCHANGED vars
  <2>1. CASE Mutate
    <3>1. UNCHANGED <<seq, probe, losses, missed>>
      BY <2>1 DEF Mutate, InitStore, ReserveIdentity, RepairMissingIdentitySequence, Record,
         BeginDeletion, BeginQuarantine, FinishDeletionRecovery, Remove, Compact, files
    <3> QED
      BY <3>1, <1>b
  <2>2. CASE SyncSeq \/ RenameReg \/ SyncReg \/ SyncFails \/ Abandon \/ Tick \/ UNCHANGED vars
    <3>1. UNCHANGED <<seq, probe, losses>> /\ (missed' = missed \/ missed' # 0)
      BY <1>a, <2>2 DEF SyncSeq, RenameReg, SyncReg, SyncFails, Abandon, Tick, vars, files
    <3> QED
      BY <3>1, <1>b
  <2> QED
    BY <1>1, <2>1, <2>2
<1>2. CASE RenameSeq
  <2>1. /\ Raises(seq, seq') /\ UNCHANGED <<probe, missed, losses>>
        /\ seq.highest \in Int /\ seq'.highest \in Int
    BY <1>2 DEF RenameSeq, FilesInv, PendingInv, TypeOK, OpStates, SeqFiles
  <2>2. ASSUME CoversIDs(seq, probe.ids) PROVE CoversIDs(seq', probe.ids)
    <3>1. probe.ids \subseteq Int
      BY <1>a DEF ProbeStates, KernelIDs
    <3> QED
      BY <2>1, <2>2, <3>1 DEF CoversIDs, SeqPresent, Raises
  <2> QED
    BY <2>1, <2>2 DEF CheckInv
<1>3. CASE CheckIntegrityReadsRegistry
  <2>1. /\ probe'.pc = "check" /\ probe'.hdr = reg.hdr /\ probe'.ids = UIDsOf(reg.rows)
        /\ UNCHANGED <<seq, missed, losses>>
    BY <1>3 DEF CheckIntegrityReadsRegistry, files
  <2>2. missed = 0 /\ losses = 0 /\ reg.hdr = "v5" => Covers(seq, reg.rows)
    BY DEF IdentityInv, FilesRemember, FilesInv, PublishedCovered
  <2> QED
    BY <2>1, <2>2 DEF CheckInv, Covers, CoversIDs, SeqPresent
<1>4. CASE CheckIntegrityReadsSequence
  <2>1. /\ probe.pc = "check" /\ probe'.pc = "checked"
        /\ probe'.alarm <=> probe.hdr = "v5" /\ ~CoversIDs(seq, probe.ids)
        /\ UNCHANGED <<seq, missed, losses>>
    BY <1>4 DEF CheckIntegrityReadsSequence, NoProbe, files
  <2> QED
    BY <2>1 DEF CheckInv
<1>5. CASE InspectRegistryLossStatsRegistry \/ InspectRegistryLossReadsSequence \/ ProbeEnds \/ PowerLoss
  <2>1. CASE InspectRegistryLossStatsRegistry \/ ProbeEnds \/ PowerLoss
    <3>1. probe'.pc \in {"inspect", "idle"}
      BY <2>1 DEF InspectRegistryLossStatsRegistry, ProbeEnds, PowerLoss, NoProbe
    <3> QED
      BY <3>1 DEF CheckInv
  <2>2. CASE InspectRegistryLossReadsSequence
    <3> DEFINE alarm == SeqPresent(seq) /\ (seq.highest > 0 \/ seq.safeAfter # 0)
    <3>1. probe' = [NoProbe EXCEPT !.alarm = alarm, !.pc = "inspected"]
      BY <2>2 DEF InspectRegistryLossReadsSequence
    <3> HIDE DEF alarm
    <3>2. probe'.pc = "inspected"
      BY <3>1 DEF NoProbe
    <3> QED
      BY <3>2 DEF CheckInv
  <2> QED
    BY <1>5, <2>1, <2>2
<1>6. CASE LoseRegistry \/ LoseSequence
  <2>1. losses' # 0
    BY <1>a, <1>6 DEF LoseRegistry, LoseSequence
  <2> QED
    BY <2>1 DEF CheckInv
<1> QED
  BY <1>1, <1>2, <1>3, <1>4, <1>5, <1>6 DEF Next, Write, Probe, Environment

\* doctor's unlocked integrity check raises no alarm about a store that only
\* mutations and clean crashes touched, whatever mutation runs between its read
\* of the registry and its read of the sequence.
THEOREM CheckIntegrityNeverMisled == Spec => []CheckIntegrityNoFalseAlarm
<1>1. Init => CheckInv
  BY DEF Init, CheckInv, NoProbe
<1>2. TypeOK /\ CheckInv => CheckIntegrityNoFalseAlarm
  BY RegistryConstants DEF TypeOK, CheckInv, CheckIntegrityNoFalseAlarm
<1> QED
  BY <1>1, <1>2, CheckStep, StoreInvariant, PTL DEF Spec

=============================================================================
