------------------------------ MODULE Registry ------------------------------
(***************************************************************************)
(* The account registry and its identity sequence                          *)
(* (src/internal/registry: record.go, sequence.go, store.go).              *)
(*                                                                         *)
(* Two files share one root-owned directory: the registry, one row per     *)
(* managed account under a schema header, and the identity sequence, the   *)
(* highest UID/GID ever handed out.  Both are replaced by write-temporary, *)
(* fsync, rename, fsync-directory (fsutil.AtomicWriteFileAt).  A rename is *)
(* visible at once; only a successful directory fsync makes it survive a   *)
(* power loss, so each file has a visible version and the set of versions  *)
(* a power loss may leave.  Every mutation runs under one flock; `op' is   *)
(* the mutation that holds it, with the writes it has still to make.       *)
(* Readers (doctor) take no lock.                                          *)
(***************************************************************************)
EXTENDS Integers, Functions

CONSTANTS
  Users,         \* account names
  MaxUID,        \* largest UID/GID of the allocation range
  Gens,          \* account generations (random 128-bit tokens in the code)
  NoGen,         \* the empty generation string
  Quarantine,    \* config.IdentityQuarantineSeconds, in clock ticks
  MaxTime,       \* bound on the clock
  MaxLosses,     \* bound on files lost to external damage
  MaxMissed,     \* bound on renames left without their directory fsync
  RecordInputs,  \* the rows callers pass to Record
  Readers,       \* the unlocked readers that run: "check", "inspect"
  LegacyRows     \* the row sets a deployed v2/v3/v4 registry may hold

ASSUME RegistryConstants ==
  /\ MaxUID \in Nat \ {0} /\ Quarantine \in Nat \ {0}
  /\ MaxTime \in Nat \ {0} /\ MaxLosses \in Nat /\ MaxMissed \in Nat
  /\ NoGen \notin Gens

KernelIDs == 0 .. MaxUID
AccountIDs == 1 .. MaxUID
Deadlines == 0 .. (MaxTime + Quarantine)   \* 0 is the unset deadline

\* Record: the fields that decide an account's lifecycle.  QuarantineUnit is
\* determined by the user whenever QuarantineUntil is set; endpoint and display
\* fields are left out.
Row == [uid : KernelIDs, gen : Gens \cup {NoGen}, bound : BOOLEAN,
        pending : BOOLEAN, del : BOOLEAN, sid : BOOLEAN, quar : Deadlines]

\* The combinations lifecycleState accepts; every other row is corruption that
\* ParseLine refuses, on the way in as on the way out.
ValidRow(r) ==
  /\ r.bound => r.gen # NoGen
  /\ r.bound /\ ~r.pending => r.uid \in AccountIDs
  /\ r.del => r.uid \in AccountIDs
  /\ r.del /\ ~r.bound => r.gen = NoGen
  /\ r.sid => r.uid \in AccountIDs /\ (r.bound \/ r.del)
  /\ r.quar # 0 => r.del /\ r.bound
  /\ r.del /\ r.pending => r.quar # 0

\* A parsed registry body: a repeated username is corruption, so the rows form
\* a function on the registered names.
RowSets == UNION {[S -> Row] : S \in SUBSET Users}
NoRows == [u \in {} |-> NoGen]

RegFiles == [hdr : {"none", "legacy", "v5"}, rows : RowSets]
NoReg == [hdr |-> "none", rows |-> NoRows]

\* identitySequence; highest = -1 stands for a file that does not exist.
SeqFiles == [highest : -1 .. MaxUID, safeAfter : Deadlines]
NoSeq == [highest |-> -1, safeAfter |-> 0]
SeqPresent(s) == s.highest >= 0

ASSUME RegistryInputs ==
  /\ RecordInputs \subseteq {r \in Row : ValidRow(r) /\ ~r.del}
  /\ LegacyRows \subseteq {rows \in RowSets : \A u \in DOMAIN rows : ValidRow(rows[u])}

VARIABLES
  reg, seq,            \* the two files as every process sees them
  regDisk, seqDisk,    \* the versions of each a power loss may leave
  op,                  \* the mutation holding the registry flock
  now,                 \* the clock
  missed,              \* renames left without their directory fsync
  losses,              \* files lost so far
  probe,               \* an unlocked reader between its two reads
  used                 \* history: UIDs ReserveIdentity returned, and UIDs in rows
                       \* published by a mutation that returned success

files == <<reg, seq, regDisk, seqDisk>>
vars == <<reg, seq, regDisk, seqDisk, op, now, missed, losses, probe, used>>

Idle == [pc |-> "idle", newSeq |-> NoSeq, newReg |-> NoReg, uid |-> 0, fin |-> {}]
OpStates == [pc : {"idle", "seq", "seqSync", "reg", "regSync"},
             newSeq : SeqFiles, newReg : RegFiles, uid : KernelIDs, fin : SUBSET Users]
ProbeStates == [pc : {"idle", "check", "checked", "inspect", "inspected"},
                hdr : {"none", "legacy", "v5"}, ids : SUBSET KernelIDs, alarm : BOOLEAN]
NoProbe == [pc |-> "idle", hdr |-> "none", ids |-> {}, alarm |-> FALSE]

UIDsOf(rows) == {rows[u].uid : u \in DOMAIN rows}

\* requireIdentitySequenceCovering
CoversIDs(s, ids) == SeqPresent(s) /\ \A i \in ids : i <= s.highest
Covers(s, rows) == CoversIDs(s, UIDsOf(rows))

\* highestRecordedUID, as the number the loop ends with
IsHighestRecordedUID(h, ids) == h \in ids \cup {0} /\ \A i \in ids : i <= h

\* What ensureIdentitySequence leaves in the file; both marks only rise.
EnsuredSequence(seed, safeAfter) ==
  IF SeqPresent(seq)
  THEN [highest |-> IF seq.highest < seed THEN seed ELSE seq.highest,
        safeAfter |-> IF seq.safeAfter < safeAfter THEN safeAfter ELSE seq.safeAfter]
  ELSE [highest |-> seed, safeAfter |-> safeAfter]

-----------------------------------------------------------------------------
(* Writing.  A mutation first replaces the sequence (when it must), then the  *)
(* registry (when it must); each replacement is rename then directory fsync.  *)

\* Hand the flock holder its writes; newSeq = NoSeq or newReg = NoReg means
\* that file is not written.  The file already holding newSeq is not rewritten.
\* uid is the number being reserved, fin the users whose recovery row is
\* being discharged.
Start(newSeq, newReg, uid, fin) ==
  LET s == IF newSeq = seq THEN NoSeq ELSE newSeq
  IN  op' = IF s = NoSeq /\ newReg = NoReg THEN Idle
            ELSE [pc |-> IF s = NoSeq THEN "reg" ELSE "seq",
                  newSeq |-> s, newReg |-> newReg, uid |-> uid, fin |-> fin]

\* A directory fsync makes every earlier rename in the directory durable.
SyncDirectory ==
  /\ regDisk' = {reg}
  /\ seqDisk' = {seq}

\* Mutant: the sequence is renamed into place without the directory fsync.
RenameSeqUnsynced ==
  /\ op.pc = "seq"
  /\ seq' = op.newSeq
  /\ seqDisk' = seqDisk \cup {op.newSeq}
  /\ op' = IF op.newReg = NoReg THEN Idle ELSE [op EXCEPT !.pc = "reg"]
  /\ UNCHANGED <<reg, regDisk, now, missed, losses, probe, used>>


RenameSeq ==
  /\ op.pc = "seq"
  /\ seq' = op.newSeq
  /\ seqDisk' = seqDisk \cup {op.newSeq}
  /\ op' = [op EXCEPT !.pc = "seqSync"]
  /\ UNCHANGED <<reg, regDisk, now, missed, losses, probe, used>>

\* ReserveIdentity returns its number only here, after the fsync.
SyncSeq ==
  /\ op.pc = "seqSync"
  /\ SyncDirectory
  /\ op' = IF op.newReg = NoReg THEN Idle ELSE [op EXCEPT !.pc = "reg"]
  /\ used' = IF op.uid = 0 THEN used ELSE used \cup {op.uid}
  /\ UNCHANGED <<reg, seq, now, missed, losses, probe>>

\* writeAll rereads the sequence and refuses rows it does not cover.
RenameReg ==
  /\ op.pc = "reg"
  /\ IF Covers(seq, op.newReg.rows)
     THEN /\ reg' = op.newReg
          /\ regDisk' = regDisk \cup {op.newReg}
          /\ op' = [op EXCEPT !.pc = "regSync"]
     ELSE op' = Idle /\ UNCHANGED <<reg, regDisk>>
  /\ UNCHANGED <<seq, seqDisk, now, missed, losses, probe, used>>

SyncReg ==
  /\ op.pc = "regSync"
  /\ SyncDirectory
  /\ used' = used \cup UIDsOf(reg.rows)
  /\ op' = Idle
  /\ UNCHANGED <<reg, seq, now, missed, losses, probe>>

\* DurabilityError: the rename stays visible and the caller gets an error.
SyncFails ==
  /\ op.pc \in {"seqSync", "regSync"}
  /\ missed < MaxMissed
  /\ op' = Idle
  /\ missed' = missed + 1
  /\ UNCHANGED <<files, now, losses, probe, used>>

\* The temporary file cannot be written, or the process dies: the flock is
\* released and every rename already made stays.
Abandon ==
  /\ op.pc # "idle"
  /\ op' = Idle
  /\ IF op.pc \in {"seqSync", "regSync"}
     THEN missed < MaxMissed /\ missed' = missed + 1
     ELSE UNCHANGED missed
  /\ UNCHANGED <<files, now, losses, probe, used>>

-----------------------------------------------------------------------------
(* The operations of Store, each entered with the flock free.                *)

\* readMutationSnapshot: a current (or absent) registry needs its sequence.
MutationSnapshotReadable == reg.hdr = "legacy" \/ Covers(seq, reg.rows)

\* Mutant: the migration seeds the sequence from the surviving rows only.
CommitMutationSurvivorsOnly(rows, advanced, fin) ==
  IF reg.hdr = "legacy"
  THEN \E h \in KernelIDs :
         /\ IsHighestRecordedUID(h, UIDsOf(rows))
         /\ Start(EnsuredSequence(h, now + Quarantine), [hdr |-> "v5", rows |-> rows], 0, fin)
  ELSE Start(advanced, [hdr |-> "v5", rows |-> rows], 0, fin)

\* commitMutation: a legacy registry first gets a sequence covering the rows
\* before and after the mutation.
CommitMutation(rows, advanced, fin) ==
  IF reg.hdr = "legacy"
  THEN \E h \in KernelIDs :
         /\ IsHighestRecordedUID(h, UIDsOf(reg.rows) \cup UIDsOf(rows))
         /\ Start(EnsuredSequence(h, now + Quarantine), [hdr |-> "v5", rows |-> rows], 0, fin)
  ELSE Start(advanced, [hdr |-> "v5", rows |-> rows], 0, fin)

Upsert(rows, u, r) == [v \in DOMAIN rows \cup {u} |-> IF v = u THEN r ELSE rows[v]]
Without(rows, S) == Restrict(rows, DOMAIN rows \ S)

\* Init: fsync the directory, create a fresh store (sequence before header) or
\* migrate a legacy one.  A surviving sequence is never lowered.
InitStore ==
  /\ op.pc = "idle"
  /\ SyncDirectory
  /\ \/ /\ reg.hdr = "none"
        /\ Start(EnsuredSequence(0, 0), [hdr |-> "v5", rows |-> NoRows], 0, {})
     \/ /\ reg.hdr = "legacy"
        /\ \E h \in KernelIDs :
             /\ IsHighestRecordedUID(h, UIDsOf(reg.rows))
             /\ Start(EnsuredSequence(h, now + Quarantine), [hdr |-> "v5", rows |-> reg.rows], 0, {})
     \/ reg.hdr = "v5" /\ UNCHANGED op
  /\ UNCHANGED <<reg, seq, now, missed, losses, probe, used>>

\* ReserveIdentity: minimum is the first free local ID.
ReserveIdentity(minimum) ==
  LET candidate == IF seq.highest + 1 < minimum THEN minimum ELSE seq.highest + 1
  IN  /\ op.pc = "idle"
      /\ reg.hdr = "v5" /\ Covers(seq, reg.rows)
      /\ candidate <= MaxUID
      /\ Start([seq EXCEPT !.highest = candidate], NoReg, candidate, {})
      /\ UNCHANGED <<files, now, missed, losses, probe, used>>

\* RepairMissingIdentitySequence.  The operator's mark is external input: it
\* covers what was handed out ("independently established"), as the command's
\* confirmation demands, and the code checks it against the rows.
RepairMissingIdentitySequence(highWater) ==
  /\ op.pc = "idle"
  /\ reg.hdr = "v5" /\ seq = NoSeq
  /\ \A i \in UIDsOf(reg.rows) : i <= highWater
  /\ \A i \in used : i <= highWater
  /\ Start([highest |-> highWater, safeAfter |-> now + Quarantine], NoReg, 0, {})
  /\ UNCHANGED <<files, now, missed, losses, probe, used>>

Record(u, r) ==
  /\ op.pc = "idle" /\ MutationSnapshotReadable
  /\ u \in DOMAIN reg.rows => ~reg.rows[u].del
  /\ CommitMutation(Upsert(reg.rows, u, r), NoSeq, {})
  /\ UNCHANGED <<files, now, missed, losses, probe, used>>

\* beginDeletionRecords on one row: what a deletion of (uid, gen) turns it into.
DeletionMarkable(r, uid, gen) ==
  /\ ~r.del
  /\ IF gen # NoGen
     THEN ~r.pending /\ r.bound /\ r.uid = uid /\ r.gen = gen
     ELSE ~(r.bound /\ ~r.pending) /\ r.uid \in {0, uid}


DeletionMarked(r, uid, gen) ==
  IF gen # NoGen THEN [r EXCEPT !.del = TRUE]
  ELSE [r EXCEPT !.uid = uid, !.gen = NoGen, !.bound = FALSE, !.pending = FALSE, !.del = TRUE]

\* The recovery row inserted for a name the registry does not know.
UIDOnlyRecovery(uid) ==
  [uid |-> uid, gen |-> NoGen, bound |-> FALSE, pending |-> FALSE,
   del |-> TRUE, sid |-> FALSE, quar |-> 0]

BeginDeletion(u, uid, gen) ==
  /\ op.pc = "idle" /\ MutationSnapshotReadable
  /\ IF u \in DOMAIN reg.rows THEN DeletionMarkable(reg.rows[u], uid, gen) ELSE gen = NoGen
  /\ LET r == IF u \in DOMAIN reg.rows THEN DeletionMarked(reg.rows[u], uid, gen)
              ELSE UIDOnlyRecovery(uid)
     IN  /\ ValidRow(r)
         /\ CommitMutation(Upsert(reg.rows, u, r),
                           IF gen = NoGen THEN EnsuredSequence(uid, 0) ELSE NoSeq, {})
  /\ UNCHANGED <<files, now, missed, losses, probe, used>>

\* BeginQuarantine on one row.
QuarantineMarkable(r, uid, gen) == ~r.del /\ r.bound /\ r.uid \in {0, uid} /\ r.gen = gen
QuarantineMarked(r, uid) == [r EXCEPT !.uid = uid, !.del = TRUE, !.quar = now + Quarantine]

BeginQuarantine(u, uid, gen) ==
  /\ op.pc = "idle" /\ MutationSnapshotReadable
  /\ u \in DOMAIN reg.rows
  /\ LET r == reg.rows[u]
     IN  /\ QuarantineMarkable(r, uid, gen) /\ ValidRow(QuarantineMarked(r, uid))
         /\ CommitMutation(Upsert(reg.rows, u, QuarantineMarked(r, uid)),
                           IF r.uid = 0 THEN EnsuredSequence(uid, 0) ELSE NoSeq, {})
  /\ UNCHANGED <<files, now, missed, losses, probe, used>>

\* finishDeletionRecoveryRecords: the exact identity whose deletion started.
ExactDeletion(r, uid, gen) ==
  r.del /\ r.uid = uid /\ r.gen = gen /\ (r.bound <=> gen # NoGen)

FinishDeletionRecovery(u, uid, gen) ==
  /\ op.pc = "idle" /\ MutationSnapshotReadable
  /\ u \in DOMAIN reg.rows /\ ExactDeletion(reg.rows[u], uid, gen)
  /\ CommitMutation(Without(reg.rows, {u}), NoSeq, {u})
  /\ UNCHANGED <<files, now, missed, losses, probe, used>>

\* Mutant: a recovery row can be removed by name.
RemoveByName(u) ==
  /\ op.pc = "idle" /\ MutationSnapshotReadable
  /\ u \in DOMAIN reg.rows
  /\ CommitMutation(Without(reg.rows, {u}), NoSeq, {})
  /\ UNCHANGED <<files, now, missed, losses, probe, used>>


Remove(u) ==
  /\ op.pc = "idle" /\ MutationSnapshotReadable
  /\ u \in DOMAIN reg.rows /\ ~reg.rows[u].del
  /\ CommitMutation(Without(reg.rows, {u}), NoSeq, {})
  /\ UNCHANGED <<files, now, missed, losses, probe, used>>

\* Compact: `gone' are the names the keep callback reports absent.
Compact(gone) ==
  /\ op.pc = "idle" /\ MutationSnapshotReadable
  /\ LET pruned == {u \in DOMAIN reg.rows \cap gone : ~reg.rows[u].del}
     IN  pruned # {} /\ CommitMutation(Without(reg.rows, pruned), NoSeq, {})
  /\ UNCHANGED <<files, now, missed, losses, probe, used>>

-----------------------------------------------------------------------------
(* Unlocked readers, run by doctor beside any mutation.                      *)

\* CheckIntegrity reads the registry, then the sequence.
CheckIntegrityReadsRegistry ==
  /\ "check" \in Readers /\ probe.pc = "idle"
  /\ probe' = [pc |-> "check", hdr |-> reg.hdr, ids |-> UIDsOf(reg.rows), alarm |-> FALSE]
  /\ UNCHANGED <<files, op, now, missed, losses, used>>

\* Mutant: coverage is demanded of a legacy registry too.
CheckIntegrityAnyHeader ==
  /\ probe.pc = "check"
  /\ probe' = [NoProbe EXCEPT !.alarm = ~CoversIDs(seq, probe.ids), !.pc = "checked"]
  /\ UNCHANGED <<files, op, now, missed, losses, used>>

CheckIntegrityReadsSequence ==
  /\ probe.pc = "check"
  /\ probe' = [NoProbe EXCEPT !.alarm = probe.hdr = "v5" /\ ~CoversIDs(seq, probe.ids),
                              !.pc = "checked"]
  /\ UNCHANGED <<files, op, now, missed, losses, used>>

\* InspectRegistryLoss stats the registry, then reads the sequence.
InspectRegistryLossStatsRegistry ==
  /\ "inspect" \in Readers /\ probe.pc = "idle"
  /\ reg.hdr = "none"
  /\ probe' = [NoProbe EXCEPT !.pc = "inspect"]
  /\ UNCHANGED <<files, op, now, missed, losses, used>>

InspectRegistryLossReadsSequence ==
  /\ probe.pc = "inspect"
  /\ probe' = [NoProbe EXCEPT !.alarm = SeqPresent(seq) /\ (seq.highest > 0 \/ seq.safeAfter # 0),
                              !.pc = "inspected"]
  /\ UNCHANGED <<files, op, now, missed, losses, used>>

ProbeEnds ==
  /\ probe.pc \in {"checked", "inspected"}
  /\ probe' = NoProbe
  /\ UNCHANGED <<files, op, now, missed, losses, used>>

-----------------------------------------------------------------------------
(* The environment.                                                          *)

Tick ==
  /\ now < MaxTime
  /\ now' = now + 1
  /\ UNCHANGED <<files, op, missed, losses, probe, used>>

\* Any unsynced rename may or may not have reached the disk, each on its own.
PowerLoss ==
  /\ reg' \in regDisk
  /\ seq' \in seqDisk
  /\ regDisk' = {reg'}
  /\ seqDisk' = {seq'}
  /\ op' = Idle
  /\ probe' = NoProbe
  /\ UNCHANGED <<now, missed, losses, used>>

\* External damage loses one of the two files, never both histories at once.
LoseRegistry ==
  /\ op.pc = "idle" /\ losses < MaxLosses
  /\ reg.hdr = "v5" /\ SeqPresent(seq) /\ seqDisk = {seq}
  /\ reg' = NoReg /\ regDisk' = {NoReg}
  /\ losses' = losses + 1
  /\ UNCHANGED <<seq, seqDisk, op, now, missed, probe, used>>

LoseSequence ==
  /\ op.pc = "idle" /\ losses < MaxLosses
  /\ reg.hdr = "v5" /\ regDisk = {reg} /\ SeqPresent(seq)
  /\ seq' = NoSeq /\ seqDisk' = {NoSeq}
  /\ losses' = losses + 1
  /\ UNCHANGED <<reg, regDisk, op, now, missed, probe, used>>

Init ==
  /\ \/ reg = NoReg
     \/ \E rows \in LegacyRows : reg = [hdr |-> "legacy", rows |-> rows]
  /\ seq = NoSeq
  /\ regDisk = {reg} /\ seqDisk = {seq}
  /\ op = Idle
  /\ now = 1
  /\ missed = 0
  /\ losses = 0
  /\ probe = NoProbe
  /\ used = UIDsOf(reg.rows)

Mutate ==
  \/ InitStore
  \/ \E minimum \in AccountIDs : ReserveIdentity(minimum)
  \/ \E highWater \in KernelIDs : RepairMissingIdentitySequence(highWater)
  \/ \E u \in Users, r \in RecordInputs : Record(u, r)
  \/ \E u \in Users, uid \in AccountIDs, gen \in Gens \cup {NoGen} : BeginDeletion(u, uid, gen)
  \/ \E u \in Users, uid \in AccountIDs, gen \in Gens : BeginQuarantine(u, uid, gen)
  \/ \E u \in Users, uid \in AccountIDs, gen \in Gens \cup {NoGen} : FinishDeletionRecovery(u, uid, gen)
  \/ \E u \in Users : Remove(u)
  \/ \E gone \in SUBSET Users : Compact(gone)

Write == RenameSeq \/ SyncSeq \/ RenameReg \/ SyncReg \/ SyncFails \/ Abandon

Probe ==
  \/ CheckIntegrityReadsRegistry \/ CheckIntegrityReadsSequence
  \/ InspectRegistryLossStatsRegistry \/ InspectRegistryLossReadsSequence
  \/ ProbeEnds

Environment == Tick \/ PowerLoss \/ LoseRegistry \/ LoseSequence

Next == Mutate \/ Write \/ Probe \/ Environment

Spec == Init /\ [][Next]_vars

-----------------------------------------------------------------------------
(* Properties.                                                               *)

\* Types of the two files, their disk versions, the flock holder and the probe.
TypeOK ==
  /\ reg \in RegFiles /\ regDisk \subseteq RegFiles
  /\ seq \in SeqFiles /\ seqDisk \subseteq SeqFiles
  /\ op \in OpStates /\ probe \in ProbeStates
  /\ now \in 1 .. MaxTime
  /\ missed \in 0 .. MaxMissed /\ losses \in 0 .. MaxLosses
  /\ used \subseteq KernelIDs

\* ReserveIdentity never hands out a number it handed out before, or one that a
\* published row ever carried, whatever crashed, was lost or was migrated in
\* between ("a crash can waste an ID but can never make a later invite reuse it").
IdentityNeverReused == op.uid # 0 => op.uid \notin used

\* While every rename was followed by its fsync, each combination of versions a
\* power loss can leave is one the code accepts: a v5 registry beside a sequence
\* that covers all its rows (an externally lost sequence aside).
PublishedCovered ==
  missed = 0 =>
    \A r \in regDisk, s \in seqDisk :
      r.hdr = "v5" /\ (SeqPresent(s) \/ losses = 0) => Covers(s, r.rows)

\* No row can become undeletable by its shape: whatever history led to it, the
\* deletion or quarantine its identity authorises yields a row ParseLine accepts.
DeletionAlwaysExpressible ==
  \A u \in DOMAIN reg.rows, uid \in AccountIDs, gen \in Gens \cup {NoGen} :
    LET r == reg.rows[u]
    IN  /\ DeletionMarkable(r, uid, gen) => ValidRow(DeletionMarked(r, uid, gen))
        /\ QuarantineMarkable(r, uid, gen) => ValidRow(QuarantineMarked(r, uid))

\* Nor by its number: once a deletion witness reaches the registry write, the
\* coverage check of that same write does not reject it ("every retry fails
\* identically" otherwise).
DeletionNeverUncovered ==
  op.pc = "reg" => \A u \in DOMAIN op.newReg.rows :
                     op.newReg.rows[u].del => op.newReg.rows[u].uid <= seq.highest

\* doctor's unlocked CheckIntegrity raises no alarm about a store that only
\* normal mutations and clean crashes touched, however its two reads interleave.
CheckIntegrityNoFalseAlarm ==
  probe.pc = "checked" /\ probe.alarm => missed > 0 \/ losses > 0

\* Neither mark of the sequence is ever lowered by a write; only power loss and
\* external damage take a sequence back.
SequenceMonotone ==
  [][seq' # seq /\ op'.pc = "seqSync" =>
       seq'.highest > seq.highest
         \/ (seq'.highest = seq.highest /\ seq'.safeAfter > seq.safeAfter)]_vars

\* A deletion recovery row is the only authority for post-userdel cleanup: a
\* registry rewrite carries it over unchanged unless it is the exact
\* FinishDeletionRecovery of that row.
DeletionRowsFinal ==
  [][reg' # reg /\ op'.pc = "regSync" =>
       \A u \in DOMAIN reg.rows :
         reg.rows[u].del =>
           \/ u \in DOMAIN reg'.rows /\ reg'.rows[u] = reg.rows[u]
           \/ u \notin DOMAIN reg'.rows /\ op.fin = {u}]_vars
-----------------------------------------------------------------------------
(* The inductive strengthening of IdentityNeverReused.                       *)

Above(s) == SeqPresent(s) /\ \A i \in used : i <= s.highest

\* What the files promise: every sequence version on disk is above the used
\* IDs; a legacy version still holds the rows that carry them; only a store that
\* never handed anything out may have neither file.
FilesRemember ==
  /\ reg \in regDisk /\ seq \in seqDisk
  /\ \A s \in seqDisk : SeqPresent(s) => Above(s)
  /\ \A r \in regDisk : r.hdr = "legacy" => used \subseteq UIDsOf(r.rows)
  /\ \A r \in regDisk, s \in seqDisk : r.hdr = "none" /\ ~SeqPresent(s) => used = {}

\* What the flock holder has yet to write keeps that promise.
WritesRemember ==
  /\ op.newReg = NoReg \/ op.newReg.hdr = "v5"
  /\ op.pc \in {"seq", "seqSync"} => Above(op.newSeq)
  /\ op.pc = "seqSync" => seq = op.newSeq
  /\ op.pc = "reg" => op.newReg # NoReg
  /\ op.pc = "regSync" => reg = op.newReg /\ reg.hdr = "v5" /\ Covers(seq, reg.rows)
  /\ op.pc \in {"idle", "reg", "regSync"} => op.uid = 0
  /\ op.uid # 0 => /\ op.newSeq.highest = op.uid /\ op.newReg = NoReg
                   /\ reg.hdr = "v5" /\ \A i \in used : i < op.uid

\* No used ID can be handed out again: it is below every sequence that may be
\* read, and a number in flight is above every used one.
IdentityInv == FilesRemember /\ WritesRemember
=============================================================================
