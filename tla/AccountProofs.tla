--------------------------- MODULE AccountProofs ---------------------------
(***************************************************************************)
(* One username's whole life is safe for every number of lives, failures   *)
(* and interventions: the invariants and action properties of module       *)
(* AccountLifecycle, and that it implements module Tenancy.                *)
(*                                                                         *)
(* What the properties say of the host is true because of what the running *)
(* command knows.  The invariant therefore has three parts: what an invite *)
(* has put in place and can undo (InviteInv), what a revoke has read and   *)
(* nobody may have changed since (RevokeInv), and what holds between two   *)
(* commands (HostInv).  The lifecycle lock makes the first two possible:   *)
(* while a command runs, only another administrator touches the account,   *)
(* and whatever such an administrator makes has no number of the tool's.   *)
(***************************************************************************)
EXTENDS AccountLifecycle, TLAPS

InviteLabels == {"clear", "reserve", "useradd", "absentCreation", "prepare", "mark", "complete",
                 "sshd", "sudo", "schedule", "activate", "print", "rollback"}
TeardownLabels == {"disable", "persist", "delete", "reconcile"}
StripLabels == {"absent", "authorize", "strip"}
QuarantineLabels == {"quarantine", "qsched", "qmark", "qcancel"}
EndLabels == {"cancel", "release"}
RevokeLabels == StripLabels \cup {"hold", "revalidate"} \cup QuarantineLabels \cup EndLabels

-----------------------------------------------------------------------------
(* What an invite has done so far.                                            *)

Inviting == cmd.mode = "invite" /\ cmd.pc \notin {"clear", "reserve"}
Creating == {"useradd", "absentCreation", "prepare", "mark", "complete"}
Granting == {"sshd", "sudo", "schedule", "activate", "print"}

\* Nothing is left under the name when a number is asked for.
ReserveInv ==
  /\ cmd.pc \in {"clear", "reserve"} => /\ nextGen <= MaxGen /\ cmd.undo = {}
                                        /\ cmd.sudoOK /\ cmd.sshdOK /\ cmd.acctOK
  /\ cmd.pc = "reserve" => acct.id <= 0 /\ row = NoRow /\ sudo = 0 /\ sshd = 0

\* The row is the one this invite wrote; before the gate opens, the task it
\* promises is armed.
InviteRowInv ==
  Inviting =>
    /\ cmd.id \in Gens /\ row.id = cmd.id /\ ~row.quar
    /\ cmd.rec.id = cmd.id /\ cmd.rec.bound /\ ~cmd.rec.del
    /\ cmd.rec.auto <=> "auto" \in cmd.want
    /\ cmd.pc \in Creating => row = cmd.rec /\ cmd.rec.pending
    /\ cmd.pc \in Granting => row = cmd.rec /\ ~cmd.rec.pending
    /\ cmd.pc \in {"activate", "print"} /\ "auto" \in cmd.want => auto.id = cmd.id

\* The account is closed until the last step, and its captured identity is exact.
InviteAccountInv ==
  Inviting =>
    /\ cmd.pc \in Creating \cup (Granting \ {"print"}) /\ acct.id > 0 => acct.gate
    /\ cmd.pc = "useradd" => acct.id <= 0 /\ ~residue
    /\ cmd.pc \in {"prepare", "mark"} => cmd.pw = [id |-> cmd.id, marker |-> "pending"]
    /\ cmd.pc \in Granting \cup {"complete"} => cmd.pw = [id |-> cmd.id, marker |-> "managed"]
    /\ cmd.pc \in TeardownLabels => RollbackIdentityOK

\* A gate of the rollback that is open tells the truth about what it guards.
InviteUndoInv ==
  Inviting =>
    /\ cmd.sudoOK => sudo = 0
    /\ cmd.sshdOK => sshd = 0
    /\ sudo \in {0, cmd.id} /\ sshd \in {0, cmd.id}
    /\ cmd.acctOK => /\ acct.id <= 0 /\ ~residue
                     /\ cmd.pc = "rollback" /\ "account" \notin cmd.undo
    /\ cmd.pc \in TeardownLabels => cmd.sudoOK /\ cmd.sshdOK
    /\ cmd.pc \in {"useradd", "absentCreation"} => cmd.undo = {"row"}

InviteInv == ReserveInv /\ InviteRowInv /\ InviteAccountInv /\ InviteUndoInv

-----------------------------------------------------------------------------
(* What a revoke has read.                                                    *)

Revoking == cmd.mode \in {"force", "yes", "timer", "uninstall"}
Captured == Revoking /\ cmd.pc \notin {"absent"} \cup EndLabels
Kept == Captured /\ cmd.pc \notin StripLabels

\* The captured row and entry are still the host's, unless the account has been
\* replaced by one that is not the tool's; past the strip the verdict was not a
\* refusal, the gates of the grants tell the truth, and no hold is running.
CaptureInv ==
  /\ Captured =>
       /\ cmd.pc \notin {"delete", "reconcile", "qcancel"} => row = cmd.rec
       /\ cmd.rec.id = row.id
       /\ acct.id > 0 => Passwd = cmd.pw
       /\ cmd.pw.id >= 0
       /\ cmd.pw.id > 0 => cmd.pw.id = cmd.rec.id
       /\ cmd.pw.id > 0 <=> cmd.pw.marker # "none"
       /\ cmd.mode = "force" => cmd.id = cmd.pw.id
       /\ cmd.mode = "timer" => cmd.id = cmd.rec.id /\ cmd.rec.bound
  /\ Revoking /\ cmd.pc \in {"absent"} \cup EndLabels => acct.id <= 0
  /\ Kept =>
       /\ cmd.pw.id > 0 /\ ~RefusedAsProtected(cmd.rec, cmd.pw)
       /\ cmd.sudoOK => sudo = 0
       /\ cmd.sshdOK => sshd = 0
  /\ Kept /\ cmd.pc \notin {"hold", "revalidate"} => cmd.sudoOK /\ cmd.sshdOK
  /\ Kept /\ cmd.pc \notin {"hold", "qcancel"} /\ row.quar /\ cmd.mode # "uninstall" => hold = 0
  /\ Revoking /\ cmd.pc \in EndLabels => sudo = 0 /\ sshd = 0 /\ ~residue

\* Whoever takes the account apart: it is the captured one, closed before the
\* row is marked, and the row is marked before userdel.
TeardownInv ==
  /\ cmd.pc \in TeardownLabels /\ acct.id > 0 => Passwd = cmd.pw
  /\ cmd.pc \in TeardownLabels => cmd.pw.id = row.id
  /\ cmd.pc \in {"persist", "delete"} /\ acct.id > 0 => acct.gate
  /\ cmd.pc \in {"delete", "reconcile"} => row.del
  /\ cmd.pc = "reconcile" => acct.id <= 0

\* The finalizer is armed, for the captured account, before the row says so.
QuarantiningInv ==
  /\ cmd.pc \in QuarantineLabels =>
       cmd.mode # "uninstall" /\ DeletionRecordMatches(cmd.rec, cmd.pw)
  /\ cmd.pc \in QuarantineLabels \ {"qcancel"} => ~row.del
  /\ cmd.pc \in {"qsched", "qmark"} /\ acct.id > 0 => acct.gate
  /\ cmd.pc \in {"qmark", "qcancel"} => quar.id = cmd.pw.id /\ ~quar.run
  /\ cmd.pc = "qcancel" => row.quar

RevokeInv == CaptureInv /\ TeardownInv /\ QuarantiningInv

-----------------------------------------------------------------------------
(* What holds between two commands.                                           *)

\* Which labels belong to which command.
ModeInv ==
  /\ cmd.pc \in InviteLabels => cmd.mode = "invite"
  /\ cmd.mode = "invite" => cmd.pc \in InviteLabels \cup TeardownLabels /\ cmd.src = "op"
  /\ cmd.pc \in RevokeLabels \cup TeardownLabels => cmd.mode # "none"
  /\ cmd.src # "op" => cmd.mode \in {"none", "timer"}

\* An account of the tool's stands under its own row, and so does what it left.
RowInv ==
  /\ ~Registered(row) => row = NoRow
  /\ row.quar => row.del /\ row.bound
  /\ residue => Registered(row)
  /\ acct.id > 0 => acct.id = row.id
  /\ acct.id <= 0 <=> acct.marker = "none"

\* A quarantined account is closed and unchanged, and its finalizer does not come
\* before the deadline in the row.
HeldInv ==
  row.quar /\ acct.id > 0 =>
    /\ acct.gate /\ quar.id = row.id /\ hold <= quar.left
    /\ DeletionRecordMatches(row, Passwd)

\* The finalizer's service does not end well with its account still there.
FinalizerInv ==
  cmd.src = "quar" /\ row.quar /\ acct.id > 0 =>
    /\ cmd.pc # "hold"
    /\ cmd.pc \in {"authorize", "strip"} => hold = 0
    /\ cmd.pc = "exit" /\ cmd.rc = 0 => ~quar.run

\* Nor does the auto-revoke task's with its account open.
ExpiryInv ==
  cmd.src = "auto" /\ cmd.pc = "exit" /\ cmd.rc = 0 /\ auto.run /\ row.auto => ~Usable(acct.id)

HostInv == ModeInv /\ RowInv /\ HeldInv /\ FinalizerInv /\ ExpiryInv
           /\ UsableIsWitnessed /\ GrantsNeverInherited

AccountInv == TypeOK /\ InviteInv /\ RevokeInv /\ HostInv

\* A failed teardown inside the rollback of an invite.
Abandoned == cmd.mode = "invite"
             /\ cmd' = [cmd EXCEPT !.pc = "rollback", !.undo = cmd.undo \ {"account"}]

USE AccountConstants DEF InviteLabels, TeardownLabels, StripLabels, QuarantineLabels, EndLabels,
    RevokeLabels, Inviting, Creating, Granting, Revoking, Captured, Kept, Present, Passwd,
    Registered, Gens, Orphan


-----------------------------------------------------------------------------
(* Types.                                                                     *)

Undos == SUBSET {"row", "account", "sshd", "sudo"}

\* The bounds contain the numbers that mean nothing.
LEMMA Bounds ==
  /\ 0 \in 0 .. MaxGen /\ -1 \in -1 .. MaxGen /\ 0 \in -1 .. MaxGen
  /\ 0 \in 0 .. Lifetime /\ 0 \in 0 .. Quarantine
  /\ \A g \in 0 .. MaxGen : g \in -1 .. MaxGen
OBVIOUS

\* The null values.
LEMMA Nulls ==
  /\ NoRow \in Rows /\ NoAcct \in Accounts /\ NoPrompt \in Prompts /\ IdleCmd \in Commands
  /\ NoTimer \in Timers(Lifetime) /\ NoTimer \in Timers(Quarantine)
<1>1. NoRow \in Rows
  BY Bounds, Zenon DEF NoRow, Rows
<1>2. NoAcct \in Accounts
  BY Bounds, Zenon DEF NoAcct, Accounts
<1>3. NoPrompt \in Prompts
  BY <1>1, Bounds, Zenon DEF NoPrompt, Prompts, Passwds
<1>4. IdleCmd \in Commands
  BY <1>1, Bounds, Zenon DEF IdleCmd, Commands, PCs, Passwds
<1>5. NoTimer \in Timers(Lifetime) /\ NoTimer \in Timers(Quarantine)
  BY Bounds, Zenon DEF NoTimer, Timers
<1> QED
  BY <1>1, <1>2, <1>3, <1>4, <1>5

\* The values the steps build.
LEMMA Built ==
  /\ \A w : \A g \in 0 .. MaxGen : PendingRow(g, w) \in Rows
  /\ \A g \in -1 .. MaxGen : NewAccount(g) \in Accounts
  /\ \A g \in 0 .. MaxGen : Armed(g, Lifetime) \in Timers(Lifetime)
                            /\ Armed(g, Quarantine) \in Timers(Quarantine)
  /\ \A r \in Rows, g \in 0 .. MaxGen : DeletionMarked(r, g) \in Rows
<1>1. ASSUME NEW g \in 0 .. MaxGen, NEW w
      PROVE  PendingRow(g, w) \in Rows
  <2>1. ("auto" \in w) \in BOOLEAN
    OBVIOUS
  <2> QED
    BY <2>1, Zenon DEF PendingRow, NoRow, Rows
<1>2. ASSUME NEW g \in -1 .. MaxGen
      PROVE  NewAccount(g) \in Accounts
  BY Zenon DEF NewAccount, Accounts
<1>3. ASSUME NEW g \in 0 .. MaxGen
      PROVE  Armed(g, Lifetime) \in Timers(Lifetime) /\ Armed(g, Quarantine) \in Timers(Quarantine)
  <2>1. Lifetime \in 0 .. Lifetime /\ Quarantine \in 0 .. Quarantine
    OBVIOUS
  <2> QED
    BY <2>1, Zenon DEF Armed, Timers
<1>4. ASSUME NEW r \in Rows, NEW g \in 0 .. MaxGen
      PROVE  DeletionMarked(r, g) \in Rows
  <2>1. r.auto \in BOOLEAN
    BY Zenon DEF Rows
  <2>2. [r EXCEPT !.del = TRUE] \in Rows
    BY Zenon DEF Rows
  <2>3. [NoRow EXCEPT !.id = g, !.del = TRUE, !.auto = r.auto] \in Rows
    BY <2>1, Nulls, Zenon DEF Rows
  <2> QED
    BY <2>2, <2>3 DEF DeletionMarked
<1> QED
  BY <1>1, <1>2, <1>3, <1>4

\* What the type invariant says of the parts.
LEMMA Parts ==
  ASSUME TypeOK
  PROVE  /\ cmd \in Commands /\ acct \in Accounts /\ row \in Rows
         /\ cmd.src \in {"op", "auto", "quar"} /\ cmd.id \in -1 .. MaxGen
         /\ cmd.rec \in Rows /\ cmd.pw \in Passwds
         /\ \A c \in {"row", "account", "sshd", "sudo"} :
              cmd.undo \cup {c} \in Undos /\ cmd.undo \ {c} \in Undos
         /\ Passwd \in Passwds /\ row.id \in 0 .. MaxGen
         /\ auto.id \in 0 .. MaxGen /\ quar.id \in 0 .. MaxGen
<1>1. cmd \in Commands /\ acct \in Accounts /\ row \in Rows
      /\ auto \in Timers(Lifetime) /\ quar \in Timers(Quarantine)
  BY DEF TypeOK
<1>2. cmd.src \in {"op", "auto", "quar"} /\ cmd.id \in -1 .. MaxGen
      /\ cmd.rec \in Rows /\ cmd.pw \in Passwds /\ cmd.undo \in Undos
  BY <1>1, Zenon DEF Commands, Undos
<1>3. acct.id \in -1 .. MaxGen /\ acct.marker \in {"none", "pending", "managed"}
  BY <1>1, Zenon DEF Accounts
<1>4. Passwd \in Passwds
  BY <1>3, Zenon DEF Passwds
<1>5. row.id \in 0 .. MaxGen
  BY <1>1, Zenon DEF Rows
<1>6. auto.id \in 0 .. MaxGen /\ quar.id \in 0 .. MaxGen
  BY <1>1, Zenon DEF Timers
<1> QED
  BY <1>1, <1>2, <1>4, <1>5, <1>6 DEF Undos

-----------------------------------------------------------------------------
\* What the helpers leave in the variables they write.
LEMMA Helpers ==
  ASSUME TypeOK
  PROVE  /\ \A pc \in PCs : Goto(pc) => cmd' \in Commands
         /\ \A rc \in {0, 1} : Return(rc) => cmd' \in Commands
         /\ TeardownFailed => cmd' \in Commands
         /\ TeardownSucceeded => cmd' \in Commands
         /\ Fine \/ Fault => faults' \in 0 .. MaxFaults
         /\ \A ok \in BOOLEAN : /\ DropSudo(ok) => sudo' \in Orphan .. MaxGen
                                /\ DropSSHD(ok) => sshd' \in Orphan .. MaxGen
                                /\ DisableLogin(ok) => acct' \in Accounts
                                /\ CancelAuto(ok) => auto' \in Timers(Lifetime)
                                /\ CancelQuarantine(ok) => quar' \in Timers(Quarantine)
                                /\ ReleaseRow(ok) => row' \in Rows /\ hold' \in 0 .. Quarantine
<1>1. ASSUME NEW pc \in PCs, Goto(pc)
      PROVE  cmd' \in Commands
  BY <1>1, Parts, Zenon DEF Goto, Commands
<1>2. ASSUME NEW rc \in {0, 1}, Return(rc)
      PROVE  cmd' \in Commands
  <2>1. [IdleCmd EXCEPT !.pc = "exit", !.src = cmd.src, !.rc = rc] \in Commands
    <3>1. "exit" \in PCs
      BY DEF PCs
    <3> QED
      BY <3>1, Parts, Nulls, ZenonT(40) DEF Commands
  <2> QED
    BY <1>2, <2>1, Nulls DEF Return
<1>3. ASSUME TeardownFailed
      PROVE  cmd' \in Commands
  <2>1. [cmd EXCEPT !.pc = "rollback", !.undo = cmd.undo \ {"account"}] \in Commands
    BY Parts, Zenon DEF Commands, PCs, Undos
  <2> QED
    BY <1>2, <1>3, <2>1, Zenon DEF TeardownFailed
<1>4. ASSUME TeardownSucceeded
      PROVE  cmd' \in Commands
  <2>1. [cmd EXCEPT !.pc = "rollback", !.undo = cmd.undo \ {"account"}, !.acctOK = TRUE]
          \in Commands
    BY Parts, Zenon DEF Commands, PCs, Undos
  <2>2. "cancel" \in PCs
    BY DEF PCs
  <2> QED
    BY <1>1, <1>4, <2>1, <2>2, Zenon DEF TeardownSucceeded
<1>5. Fine \/ Fault => faults' \in 0 .. MaxFaults
  BY DEF Fine, Fault, TypeOK
<1>6. ASSUME NEW ok \in BOOLEAN, DropSudo(ok)
      PROVE  sudo' \in Orphan .. MaxGen
  BY <1>6 DEF DropSudo, TypeOK
<1>7. ASSUME NEW ok \in BOOLEAN, DropSSHD(ok)
      PROVE  sshd' \in Orphan .. MaxGen
  BY <1>7 DEF DropSSHD, TypeOK
<1>8. ASSUME NEW ok \in BOOLEAN, DisableLogin(ok)
      PROVE  acct' \in Accounts
  <2>1. [acct EXCEPT !.gate = TRUE] \in Accounts
    BY Parts, Zenon DEF Accounts
  <2> QED
    BY <1>8, <2>1, Parts DEF DisableLogin
<1>9. ASSUME NEW ok \in BOOLEAN, CancelAuto(ok)
      PROVE  auto' \in Timers(Lifetime)
  BY <1>9, Nulls DEF CancelAuto, TypeOK
<1>10. ASSUME NEW ok \in BOOLEAN, CancelQuarantine(ok)
       PROVE  quar' \in Timers(Quarantine)
  BY <1>10, Nulls DEF CancelQuarantine, TypeOK
<1>11. ASSUME NEW ok \in BOOLEAN, ReleaseRow(ok)
       PROVE  row' \in Rows /\ hold' \in 0 .. Quarantine
  BY <1>11, Nulls, Bounds, Parts DEF ReleaseRow, TypeOK
<1> QED
  BY <1>1, <1>2, <1>3, <1>4, <1>5, <1>6, <1>7, <1>8, <1>9, <1>10, <1>11

\* A command that starts on what it reads of the account.
LEMMA Loading ==
  ASSUME TypeOK, NEW c \in Commands, Loaded(c)
  PROVE  cmd' \in Commands
<1>1. /\ [c EXCEPT !.pc = "authorize", !.rec = row, !.pw = Passwd] \in Commands
      /\ [c EXCEPT !.pc = "absent", !.rec = row, !.pw = Passwd] \in Commands
  BY Parts, ZenonT(40) DEF Commands, PCs
<1> QED
  BY <1>1 DEF Loaded

\* An invite's step has type-correct results; a number is left when one is asked for.
LEMMA InviteTypes == AccountInv /\ Invite => TypeOK'
<1> SUFFICES ASSUME TypeOK, ReserveInv, InviteRowInv, ModeInv, Invite
             PROVE  TypeOK'
  BY DEF AccountInv, InviteInv, HostInv
<1>0. cmd.pc \in {"absentCreation", "schedule"} => cmd.id \in 0 .. MaxGen
  <2>1. cmd.pc \in {"absentCreation", "schedule"} => cmd.id \in Gens
    BY Zenon DEF InviteRowInv, ModeInv
  <2> QED
    BY <2>1
<1> USE DEF Rollback, PCs
<1>1. ASSUME NEW w \in Wants, StartInvite(w)
      PROVE  TypeOK'
  <2>1. [IdleCmd EXCEPT !.pc = "clear", !.mode = "invite", !.want = w] \in Commands
    BY Nulls, ZenonT(40) DEF Commands
  <2> QED
    BY <1>1, <2>1 DEF StartInvite, host, TypeOK
<1>2. CASE ClearReusedUsername
  BY <1>2, Helpers, ZenonT(40) DEF ClearReusedUsername, DropGrants, CancelSchedules, TypeOK
<1>3. CASE ReserveIdentity
  <2> DEFINE r == PendingRow(nextGen, cmd.want)
             c == [cmd EXCEPT !.id = nextGen, !.rec = r, !.undo = {"row"}]
  <2>1. nextGen \in 0 .. MaxGen /\ nextGen + 1 \in 1 .. MaxGen + 1
    BY <1>3 DEF TypeOK, ReserveInv, ReserveIdentity
  <2>2. r \in Rows
    BY <2>1, Built
  <2>3. /\ [c EXCEPT !.pc = "useradd", !.acctOK = FALSE] \in Commands
        /\ [c EXCEPT !.pc = "rollback"] \in Commands
    BY <2>1, <2>2, Bounds, Parts, ZenonT(40) DEF Commands
  <2>4. c.rec = r
    BY Parts, Zenon DEF Commands
  <2> QED
    BY <1>3, <2>1, <2>2, <2>3, <2>4, Helpers DEF ReserveIdentity, TypeOK
<1>4. CASE CreatePendingIdentity
  <2> DEFINE kept == [cmd EXCEPT !.undo = cmd.undo \cup {"account"}]
             made == [id |-> cmd.id, marker |-> "pending"]
  <2>1. made \in Passwds
    BY Parts, Zenon DEF Passwds
  <2>2. /\ [kept EXCEPT !.pc = "prepare", !.pw = made] \in Commands
        /\ [kept EXCEPT !.pc = "rollback", !.pw = made] \in Commands
        /\ [kept EXCEPT !.pc = "rollback", !.pw = Passwd] \in Commands
        /\ [cmd EXCEPT !.pc = "rollback", !.acctOK = TRUE] \in Commands
    BY <2>1, Parts, ZenonT(40) DEF Commands, Undos
  <2>3. NewAccount(cmd.id) \in Accounts
    BY Built, Parts
  <2> QED
    BY <1>4, <2>2, <2>3, Helpers, ZenonT(40) DEF CreatePendingIdentity, TypeOK
<1>5. CASE ReconcileAbsentCreation
  <2>1. [cmd EXCEPT !.pc = "rollback", !.acctOK = TRUE] \in Commands
    BY Parts, Zenon DEF Commands
  <2>2. DeletionMarked(row, cmd.id) \in Rows
    BY <1>0, <1>5, Built, Parts DEF ReconcileAbsentCreation
  <2> QED
    BY <1>5, <2>1, <2>2, Helpers DEF ReconcileAbsentCreation, TypeOK
<1>6. CASE Prepare
  BY <1>6, Helpers DEF Prepare, TypeOK
<1>7. CASE MarkManaged
  <2>1. [acct EXCEPT !.marker = "managed"] \in Accounts
    BY Parts, Zenon DEF Accounts
  <2>2. [cmd EXCEPT !.pc = "complete", !.pw.marker = "managed"] \in Commands
    BY Parts, Zenon DEF Commands, Passwds
  <2> QED
    BY <1>7, <2>1, <2>2, Helpers DEF MarkManaged, TypeOK
<1>8. CASE RecordCompleted
  <2> DEFINE done == [cmd.rec EXCEPT !.pending = FALSE]
  <2>1. done \in Rows
    BY Parts, Zenon DEF Rows
  <2>2. /\ [cmd EXCEPT !.pc = "sshd", !.rec = done] \in Commands
        /\ [cmd EXCEPT !.pc = "rollback", !.rec = done] \in Commands
    BY <2>1, Parts, ZenonT(40) DEF Commands
  <2> QED
    BY <1>8, <2>1, <2>2, Helpers DEF RecordCompleted, TypeOK
<1>9. CASE GrantSSHD
  <2>1. /\ \A ok \in BOOLEAN : [cmd EXCEPT !.pc = "rollback", !.sshdOK = ok] \in Commands
        /\ [cmd EXCEPT !.pc = "sudo", !.sshdOK = FALSE, !.undo = @ \cup {"sshd"}] \in Commands
    BY Parts, ZenonT(40) DEF Commands, Undos
  <2>2. sshd' \in {sshd, 0, cmd.id}
    BY <1>9, Zenon DEF GrantSSHD
  <2>3. cmd' \in Commands
    BY <1>9, <2>1, Helpers DEF GrantSSHD
  <2>4. /\ Fine \/ Fault
        /\ UNCHANGED <<acct, residue, row, hold, sudo, auto, quar, prompt, nextGen, foreign,
                       systemd>>
    BY <1>9, Zenon DEF GrantSSHD
  <2> QED
    BY <2>2, <2>3, <2>4, Helpers, Parts DEF TypeOK
<1>10. CASE GrantSudo
  <2>1. /\ \A ok \in BOOLEAN : [cmd EXCEPT !.pc = "rollback", !.sudoOK = ok] \in Commands
        /\ [cmd EXCEPT !.pc = "schedule", !.sudoOK = FALSE, !.undo = @ \cup {"sudo"}] \in Commands
    BY Parts, ZenonT(40) DEF Commands, Undos
  <2>2. sudo' \in {sudo, 0, cmd.id}
    BY <1>10, Zenon DEF GrantSudo
  <2>3. cmd' \in Commands
    BY <1>10, <2>1, Helpers DEF GrantSudo
  <2>4. /\ Fine \/ Fault
        /\ UNCHANGED <<acct, residue, row, hold, sshd, auto, quar, prompt, nextGen, foreign,
                       systemd>>
    BY <1>10, Zenon DEF GrantSudo
  <2> QED
    BY <2>2, <2>3, <2>4, Helpers, Parts DEF TypeOK
<1>11. CASE Schedule
  <2>1. /\ \A known \in BOOLEAN : [cmd EXCEPT !.pc = "rollback", !.sched = known] \in Commands
        /\ [cmd EXCEPT !.pc = "activate", !.sched = TRUE] \in Commands
    BY Parts, ZenonT(40) DEF Commands
  <2>2. Armed(cmd.id, Lifetime) \in Timers(Lifetime)
    BY <1>0, <1>11, Built DEF Schedule
  <2> QED
    BY <1>11, <2>1, <2>2, Helpers, ZenonT(40) DEF Schedule, TypeOK
<1>12. CASE Activate
  <2>1. [acct EXCEPT !.gate = FALSE] \in Accounts
    BY Parts, Zenon DEF Accounts
  <2> QED
    BY <1>12, <2>1, Helpers DEF Activate, TypeOK
<1>13. CASE PrintInvite
  BY <1>13, Helpers DEF PrintInvite, host, TypeOK
<1>14. CASE UndoSudo
  <2>1. \A ok \in BOOLEAN : [Undone("sudo") EXCEPT !.sudoOK = ok] \in Commands
    BY Parts, ZenonT(40) DEF Undone, Commands, Undos
  <2> QED
    BY <1>14, <2>1, Helpers DEF UndoSudo, TypeOK
<1>15. CASE UndoSSHD
  <2>1. \A ok \in BOOLEAN : [Undone("sshd") EXCEPT !.sshdOK = ok] \in Commands
    BY Parts, ZenonT(40) DEF Undone, Commands, Undos
  <2> QED
    BY <1>15, <2>1, Helpers DEF UndoSSHD, TypeOK
<1>16. CASE UndoAccount
  <2>1. Undone("account") \in Commands
    BY Parts, Zenon DEF Undone, Commands, Undos
  <2> QED
    BY <1>16, <2>1, Helpers DEF UndoAccount, TypeOK
<1>17. CASE UndoRow
  BY <1>17, Helpers DEF UndoRow, CancelSchedules, TypeOK
<1> QED
  BY <1>1, <1>2, <1>3, <1>4, <1>5, <1>6, <1>7, <1>8, <1>9, <1>10, <1>11, <1>12, <1>13, <1>14,
     <1>15, <1>16, <1>17 DEF Invite

\* So has a revoke that starts, for an operator, uninstall or a task.
LEMMA StartTypes == TypeOK /\ (RevokeStart \/ FireAuto \/ FireQuarantine) => TypeOK'
<1> SUFFICES ASSUME TypeOK, RevokeStart \/ FireAuto \/ FireQuarantine
             PROVE  TypeOK'
  OBVIOUS
<1> USE DEF PCs
<1>1. CASE Confirm
  <2>1. [asked |-> TRUE, rec |-> row, pw |-> Passwd] \in Prompts
    BY Parts, Zenon DEF Prompts
  <2> QED
    BY <1>1, <2>1 DEF Confirm, host, TypeOK
<1>2. CASE StartForced
  <2>1. prompt.pw.id \in -1 .. MaxGen
    BY Zenon DEF TypeOK, Prompts, Passwds
  <2>2. [IdleCmd EXCEPT !.mode = "force", !.id = prompt.pw.id] \in Commands
    BY <2>1, Nulls, Zenon DEF Commands
  <2> QED
    BY <1>2, <2>2, Loading, Nulls DEF StartForced, host, TypeOK
<1>3. CASE RefuseForced
  BY <1>3, Nulls DEF RefuseForced, host, TypeOK
<1>4. ASSUME NEW m \in {"yes", "uninstall"}, StartUnattended(m)
      PROVE  TypeOK'
  <2>1. [IdleCmd EXCEPT !.mode = m] \in Commands
    BY Nulls, Zenon DEF Commands
  <2> QED
    BY <1>4, <2>1, Loading DEF StartUnattended, host, TypeOK
<1>5. ASSUME NEW s \in {"op", "auto", "quar"}, NEW g \in 0 .. MaxGen, StartTask(s, g)
      PROVE  cmd' \in Commands
  <2>1. [IdleCmd EXCEPT !.pc = "exit", !.src = s] \in Commands
    BY Nulls, ZenonT(40) DEF Commands
  <2>2. g \in -1 .. MaxGen
    BY Bounds
  <2>3. [IdleCmd EXCEPT !.mode = "timer", !.src = s, !.id = g] \in Commands
    BY <2>2, Nulls, ZenonT(40) DEF Commands
  <2> QED
    BY <1>5, <2>1, <2>3, Loading, Nulls DEF StartTask
<1>6. CASE FireAuto
  <2>1. [auto EXCEPT !.run = TRUE] \in Timers(Lifetime)
    BY Zenon DEF TypeOK, Timers
  <2> QED
    BY <1>5, <1>6, <2>1, Nulls, Parts DEF FireAuto, TypeOK
<1>7. CASE FireQuarantine
  <2>1. [quar EXCEPT !.run = TRUE] \in Timers(Quarantine)
    BY Zenon DEF TypeOK, Timers
  <2> QED
    BY <1>5, <1>7, <2>1, Parts DEF FireQuarantine, TypeOK
<1> QED
  BY <1>1, <1>2, <1>3, <1>4, <1>6, <1>7 DEF RevokeStart

\* So has every step of a revoke.
LEMMA RevokeTypes == AccountInv /\ RevokeStep => TypeOK'
<1> SUFFICES ASSUME TypeOK, QuarantiningInv, RevokeStep
             PROVE  TypeOK'
  BY DEF AccountInv, RevokeInv
<1> USE DEF PCs
<1>1. CASE Reap
  <2>1. /\ [auto EXCEPT !.run = FALSE] \in Timers(Lifetime)
        /\ [quar EXCEPT !.run = FALSE] \in Timers(Quarantine)
    BY Zenon DEF TypeOK, Timers
  <2> QED
    BY <1>1, <2>1, Nulls DEF Reap, Reaped, TypeOK
<1>2. CASE CleanupAbsent
  <2>1. residue' \in BOOLEAN
    BY <1>2 DEF CleanupAbsent, TypeOK
  <2> QED
    BY <1>2, <2>1, Helpers DEF CleanupAbsent, DropGrants, TypeOK
<1>3. CASE AuthorizeRecovery
  <2>1. cmd' \in Commands
    <3>1. Return(1) \/ Goto("strip")
      BY <1>3, Zenon DEF AuthorizeRecovery
    <3> QED
      BY <3>1, Helpers
  <2>2. faults' \in 0 .. MaxFaults
    BY <1>3, Helpers, Zenon DEF AuthorizeRecovery, DropGrants, CancelSchedules
  <2>3. \/ \E s, d, c \in BOOLEAN : DropSudo(s) /\ DropSSHD(d) /\ CancelAuto(c) /\ CancelQuarantine(c)
        \/ UNCHANGED <<sudo, sshd, auto, quar>>
    BY <1>3, ZenonT(40) DEF AuthorizeRecovery, DropGrants, CancelSchedules
  <2>4. /\ sudo' \in Orphan .. MaxGen /\ sshd' \in Orphan .. MaxGen
        /\ auto' \in Timers(Lifetime) /\ quar' \in Timers(Quarantine)
    BY <2>3, Helpers DEF TypeOK
  <2>5. UNCHANGED <<acct, residue, row, hold, prompt, nextGen, foreign, systemd>>
    BY <1>3, Zenon DEF AuthorizeRecovery
  <2> QED
    BY <2>1, <2>2, <2>4, <2>5 DEF TypeOK
<1>4. CASE StripGrants
  <2>1. PICK s \in BOOLEAN, d \in BOOLEAN, c \in BOOLEAN :
          /\ DropSudo(s) /\ DropSSHD(d)
          /\ Fine \/ Fault
          /\ \/ Return(1)
             \/ \E pc \in {"hold", "revalidate"} :
                  cmd' = [cmd EXCEPT !.sudoOK = s, !.sshdOK = d, !.pc = pc]
          /\ CancelSchedules(c) \/ UNCHANGED <<auto, quar>>
    BY <1>4, ZenonT(40) DEF StripGrants
  <2>2. ASSUME NEW pc \in {"hold", "revalidate"}
        PROVE  [cmd EXCEPT !.sudoOK = s, !.sshdOK = d, !.pc = pc] \in Commands
    <3>1. pc \in PCs
      OBVIOUS
    <3> QED
      BY <3>1, Parts, ZenonT(40) DEF Commands
  <2>3. cmd' \in Commands
    BY <2>1, <2>2, Helpers
  <2>4. /\ faults' \in 0 .. MaxFaults
        /\ sudo' \in Orphan .. MaxGen /\ sshd' \in Orphan .. MaxGen
        /\ auto' \in Timers(Lifetime) /\ quar' \in Timers(Quarantine)
    BY <2>1, Helpers DEF CancelSchedules, TypeOK
  <2>5. UNCHANGED <<acct, residue, row, hold, prompt, nextGen, foreign, systemd>>
    BY <1>4 DEF StripGrants
  <2> QED
    BY <2>3, <2>4, <2>5 DEF TypeOK
<1>5. CASE HonorQuarantine
  BY <1>5, Helpers DEF HonorQuarantine, DropGrants, TypeOK
<1>6. CASE Revalidate
  BY <1>6, Helpers DEF Revalidate, TypeOK
<1>7. CASE QuarantineAccess
  BY <1>7, Helpers DEF QuarantineAccess, TypeOK
<1>8. CASE ScheduleQuarantine
  <2>1. cmd.pw.id \in 0 .. MaxGen
    <3>1. cmd.rec.id \in 0 .. MaxGen
      BY Parts, Zenon DEF Rows
    <3> QED
      BY <1>8, <3>1 DEF QuarantiningInv, ScheduleQuarantine, DeletionRecordMatches
  <2>2. Armed(cmd.pw.id, Quarantine) \in Timers(Quarantine)
    BY <2>1, Built
  <2> QED
    BY <1>8, <2>2, Helpers, Nulls DEF ScheduleQuarantine, TypeOK
<1>9. CASE BeginQuarantine
  <2>1. [row EXCEPT !.del = TRUE, !.quar = TRUE] \in Rows
    BY Parts, Zenon DEF Rows
  <2>2. quar.left \in 0 .. Quarantine
    BY Zenon DEF TypeOK, Timers
  <2> QED
    BY <1>9, <2>1, <2>2, Helpers DEF BeginQuarantine, TypeOK
<1>10. CASE HandOver
  BY <1>10, Helpers DEF HandOver, TypeOK
<1>11. CASE FinishSchedules
  BY <1>11, Helpers DEF FinishSchedules, CancelSchedules, TypeOK
<1>12. CASE FinishRow
  BY <1>12, Helpers DEF FinishRow, TypeOK
<1> QED
  BY <1>1, <1>2, <1>3, <1>4, <1>5, <1>6, <1>7, <1>8, <1>9, <1>10, <1>11, <1>12 DEF RevokeStep

\* So have the teardown, the passing of time, a kill and an intervention.
LEMMA OtherTypes ==
  AccountInv /\ (Teardown \/ Tick \/ Crash \/ OutsideDelete \/ OutsideCreate) => TypeOK'
<1> SUFFICES ASSUME TypeOK, TeardownInv, Teardown \/ Tick \/ Crash \/ OutsideDelete \/ OutsideCreate
             PROVE  TypeOK'
  BY DEF AccountInv, RevokeInv
<1> USE DEF PCs
<1>1. CASE Disable
  BY <1>1, Helpers DEF Disable, TypeOK
<1>2. CASE PersistDeletionStarted
  <2>1. cmd.pw.id \in 0 .. MaxGen
    BY <1>2, Parts DEF TeardownInv, PersistDeletionStarted
  <2>2. DeletionMarked(row, cmd.pw.id) \in Rows
    BY <2>1, Built, Parts
  <2> QED
    BY <1>2, <2>2, Helpers DEF PersistDeletionStarted, TypeOK
<1>3. CASE Delete
  BY <1>3, Helpers, Nulls DEF Delete, TypeOK
<1>4. CASE Reconcile
  BY <1>4, Helpers DEF Reconcile, TypeOK
<1>5. CASE Tick
  <2>1. Ticked(auto) \in Timers(Lifetime) /\ Ticked(quar) \in Timers(Quarantine)
    BY DEF TypeOK, Ticked, Timers
  <2> QED
    BY <1>5, <2>1 DEF Tick, TypeOK
<1>6. CASE Crash
  <2>1. [IdleCmd EXCEPT !.pc = "exit", !.src = cmd.src, !.rc = 1] \in Commands
    BY Parts, Nulls, ZenonT(40) DEF Commands
  <2> QED
    BY <1>6, <2>1, Helpers, Nulls DEF Crash, host, TypeOK
<1>7. CASE OutsideDelete
  <2>1. residue' \in BOOLEAN
    BY <1>7 DEF OutsideDelete, TypeOK
  <2> QED
    BY <1>7, <2>1, Nulls DEF OutsideDelete, Outside, TypeOK
<1>8. CASE OutsideCreate
  <2>1. [id |-> 0, marker |-> "none", gate |-> FALSE] \in Accounts
    BY Bounds, Zenon DEF Accounts
  <2> QED
    BY <1>8, <2>1 DEF OutsideCreate, Outside, TypeOK
<1> QED
  BY <1>1, <1>2, <1>3, <1>4, <1>5, <1>6, <1>7, <1>8 DEF Teardown

\* The host starts with type-correct values.
LEMMA InitTypes == Init => TypeOK
<1>1. nextGen = 1 /\ faults = 0 /\ foreign = 0 /\ hold = 0
      => /\ nextGen \in 1 .. MaxGen + 1 /\ faults \in 0 .. MaxFaults
         /\ foreign \in 0 .. MaxForeign /\ hold \in 0 .. Quarantine
  OBVIOUS
<1>2. 0 \in Orphan .. MaxGen /\ Orphan \in Orphan .. MaxGen
  OBVIOUS
<1> QED
  BY <1>1, <1>2, Nulls DEF Init, TypeOK

-----------------------------------------------------------------------------
(* Every step keeps the invariant.  A step of the code has few outcomes: a    *)
(* helper succeeds, fails before its effect, or fails after it.  The cases    *)
(* under an action are these outcomes.                                        *)

Safe == InviteInv /\ RevokeInv /\ HostInv

USE DEF Accounts, Rows, Timers, Commands, Passwds, PCs, InviteInv, ReserveInv, InviteRowInv,
    InviteAccountInv, InviteUndoInv, RollbackIdentityOK, RevokeInv, CaptureInv, TeardownInv,
    QuarantiningInv, RefusedAsProtected, DeletionRecordMatches, PendingRecovery, UidOnlyCandidate,
    Protected, PendingCreationMatches, HostInv, ModeInv, RowInv, HeldInv, FinalizerInv, ExpiryInv,
    UsableIsWitnessed, GrantsNeverInherited, Usable, NoRow

\* What DisableLogin may have done.
LEMMA Disabling ==
  ASSUME NEW ok \in BOOLEAN, DisableLogin(ok) \/ UNCHANGED acct
  PROVE  DisableLogin(FALSE) /\ (ok /\ DisableLogin(ok) => DisableLogin(TRUE))
BY DEF DisableLogin

\* The row an invite records.
LEMMA Recorded ==
  ASSUME NEW g, NEW w
  PROVE  /\ PendingRow(g, w).id = g /\ PendingRow(g, w).bound /\ PendingRow(g, w).pending
         /\ ~PendingRow(g, w).del /\ ~PendingRow(g, w).quar
         /\ PendingRow(g, w).auto <=> "auto" \in w
BY DEF PendingRow

\* An invite's step keeps the invariant, whatever its helpers did before they failed.
LEMMA InviteSafe == AccountInv /\ Invite => Safe'
<1> SUFFICES ASSUME AccountInv, TypeOK', Invite
             PROVE  Safe'
  BY InviteTypes
<1>1. ASSUME NEW w \in Wants, StartInvite(w)
      PROVE  Safe'
  BY <1>1 DEF Safe, AccountInv, TypeOK, StartInvite, IdleCmd, host
<1>2. CASE ClearReusedUsername
  BY <1>2 DEF Safe, AccountInv, TypeOK, ClearReusedUsername, Return, Fine, DropGrants,
     CancelSchedules, Goto, DropSudo, DropSSHD, Fault, IdleCmd, CancelAuto, CancelQuarantine,
     NoTimer
<1>3. CASE ReserveIdentity
  \* A number is burned; the intent is recorded, perhaps with an error, or is not.
  <2>f. /\ cmd.pc = "reserve"
        /\ UNCHANGED <<acct, residue, hold, sudo, sshd, auto, quar, prompt, foreign, systemd>>
    BY <1>3 DEF ReserveIdentity
  <2>1. CASE /\ row' = PendingRow(nextGen, cmd.want)
             /\ cmd' = [cmd EXCEPT !.id = nextGen, !.rec = PendingRow(nextGen, cmd.want),
                  !.undo = {"row"}, !.pc = "useradd", !.acctOK = FALSE]
    <3>1. /\ cmd'.id = nextGen /\ cmd'.rec = PendingRow(nextGen, cmd.want) /\ cmd'.undo = {"row"}
          /\ cmd'.mode = cmd.mode /\ cmd'.want = cmd.want /\ cmd'.src = cmd.src
          /\ cmd'.sudoOK = cmd.sudoOK /\ cmd'.sshdOK = cmd.sshdOK
          /\ cmd'.pc = "useradd" /\ ~cmd'.acctOK
      BY <2>f, <2>1 DEF AccountInv, TypeOK
    <3>2. cmd.mode = "invite" /\ nextGen \in Gens /\ sudo = 0 /\ sshd = 0 /\ row = NoRow
          /\ acct.id <= 0
      BY <2>f DEF AccountInv, TypeOK
    <3>3. InviteInv'
      BY <2>f, <2>1, <3>1, <3>2, Recorded DEF AccountInv
    <3>4. RevokeInv'
      BY <2>f, <2>1, <3>1, <3>2, Recorded DEF AccountInv
    <3>5. HostInv'
      BY <2>f, <2>1, <3>1, <3>2, Recorded DEF AccountInv, TypeOK
    <3> QED
      BY <3>3, <3>4, <3>5 DEF Safe
  <2>2. CASE /\ row' = PendingRow(nextGen, cmd.want)
             /\ cmd' = [cmd EXCEPT !.id = nextGen, !.rec = PendingRow(nextGen, cmd.want),
                  !.undo = {"row"}, !.pc = "rollback"]
    <3>1. /\ cmd'.id = nextGen /\ cmd'.rec = PendingRow(nextGen, cmd.want) /\ cmd'.undo = {"row"}
          /\ cmd'.mode = cmd.mode /\ cmd'.want = cmd.want /\ cmd'.src = cmd.src
          /\ cmd'.sudoOK = cmd.sudoOK /\ cmd'.sshdOK = cmd.sshdOK
          /\ cmd'.pc = "rollback" /\ cmd'.acctOK = cmd.acctOK
      BY <2>f, <2>2 DEF AccountInv, TypeOK
    <3>2. cmd.mode = "invite" /\ nextGen \in Gens /\ sudo = 0 /\ sshd = 0 /\ row = NoRow
          /\ acct.id <= 0
      BY <2>f DEF AccountInv, TypeOK
    <3>3. InviteInv'
      BY <2>f, <2>2, <3>1, <3>2, Recorded DEF AccountInv
    <3>4. RevokeInv'
      BY <2>f, <2>2, <3>1, <3>2, Recorded DEF AccountInv
    <3>5. HostInv'
      BY <2>f, <2>2, <3>1, <3>2, Recorded DEF AccountInv, TypeOK
    <3> QED
      BY <3>3, <3>4, <3>5 DEF Safe
  <2>3. CASE UNCHANGED row /\ Return(1)
    BY <2>f, <2>3 DEF Safe, AccountInv, TypeOK, Return, IdleCmd
  <2> QED
    BY <1>3, <2>1, <2>2, <2>3 DEF ReserveIdentity
<1>4. CASE CreatePendingIdentity
  \* The account is made, and known or not; or it is not made, or somebody else's is found.
  <2>f. /\ cmd.pc = "useradd"
        /\ UNCHANGED <<row, hold, sudo, sshd, auto, quar, prompt, nextGen, foreign, systemd>>
    BY <1>4 DEF CreatePendingIdentity
  <2>1. CASE /\ UNCHANGED residue
             /\ acct' = NewAccount(cmd.id)
             /\ cmd' = [cmd EXCEPT !.undo = cmd.undo \cup {"account"}, !.pc = "prepare",
                  !.pw = [id |-> cmd.id, marker |-> "pending"]]
    BY <2>f, <2>1 DEF Safe, AccountInv, TypeOK, NewAccount
  <2>2. CASE UNCHANGED <<acct, residue>> /\ cmd' = [cmd EXCEPT !.pc = "rollback", !.acctOK = TRUE]
    BY <2>f, <2>2 DEF Safe, AccountInv, TypeOK
  <2>3. CASE ~Present /\ Goto("absentCreation") /\ UNCHANGED acct
    BY <2>f, <2>3 DEF Safe, AccountInv, TypeOK, Goto
  <2>4. CASE /\ UNCHANGED residue
             /\ acct' = NewAccount(cmd.id)
             /\ cmd' = [cmd EXCEPT !.undo = cmd.undo \cup {"account"}, !.pc = "rollback",
                  !.pw = [id |-> cmd.id, marker |-> "pending"]]
    BY <2>f, <2>4 DEF Safe, AccountInv, TypeOK, NewAccount
  <2>5. CASE UNCHANGED residue /\ acct' = NewAccount(cmd.id) /\ Goto("absentCreation")
    BY <2>f, <2>5 DEF Safe, AccountInv, TypeOK, NewAccount, Goto
  <2>6. CASE /\ Present
             /\ UNCHANGED <<acct, residue>>
             /\ cmd' = [cmd EXCEPT !.undo = cmd.undo \cup {"account"}, !.pc = "rollback",
                  !.pw = Passwd]
    BY <2>f, <2>6 DEF Safe, AccountInv, TypeOK
  <2> QED
    BY <1>4, <2>1, <2>2, <2>3, <2>4, <2>5, <2>6 DEF CreatePendingIdentity
<1>5. CASE ReconcileAbsentCreation
  \* With the name absent the intent becomes a deletion row, or the step fails.
  <2>f. /\ cmd.pc = "absentCreation"
        /\ UNCHANGED <<acct, hold, sudo, sshd, auto, quar, prompt, nextGen, foreign, systemd>>
    BY <1>5 DEF ReconcileAbsentCreation
  <2>1. CASE /\ ~Present
             /\ residue' = FALSE
             /\ row' = DeletionMarked(row, cmd.id)
             /\ cmd' = [cmd EXCEPT !.pc = "rollback", !.acctOK = TRUE]
    BY <2>f, <2>1 DEF Safe, AccountInv, TypeOK, DeletionMarked
  <2>2. CASE ~Present /\ row' = DeletionMarked(row, cmd.id) /\ Rollback /\ (residue' => residue)
    BY <2>f, <2>2 DEF Safe, AccountInv, TypeOK, DeletionMarked, Rollback, Goto
  <2>3. CASE UNCHANGED row /\ Rollback /\ (residue' => residue)
    BY <2>f, <2>3 DEF Safe, AccountInv, TypeOK, Rollback, Goto
  <2> QED
    <3>1. residue' => residue
      BY <1>5, <2>f DEF ReconcileAbsentCreation, AccountInv, TypeOK
    <3> QED
      BY <1>5, <2>1, <2>2, <2>3, <3>1 DEF ReconcileAbsentCreation
<1>6. CASE Prepare
  BY <1>6 DEF Safe, AccountInv, TypeOK, Prepare, StillMatches, Rollback, Fine, DisableLogin, Goto,
     Fault
<1>7. CASE MarkManaged
  \* The marker is promoted, perhaps with an error, or is not.
  <2>f. /\ cmd.pc = "mark"
        /\ UNCHANGED <<residue, row, hold, sudo, sshd, auto, quar, prompt, nextGen, foreign,
           systemd>>
    BY <1>7 DEF MarkManaged
  <2>1. CASE Rollback /\ UNCHANGED acct
    BY <2>f, <2>1 DEF Safe, AccountInv, TypeOK, Rollback, Goto
  <2>2. CASE /\ StillMatches
             /\ acct' = [acct EXCEPT !.marker = "managed"]
             /\ cmd' = [cmd EXCEPT !.pc = "complete", !.pw.marker = "managed"]
    BY <2>f, <2>2 DEF Safe, AccountInv, TypeOK, StillMatches
  <2>3. CASE StillMatches /\ acct' = [acct EXCEPT !.marker = "managed"] /\ Rollback
    BY <2>f, <2>3 DEF Safe, AccountInv, TypeOK, StillMatches, Rollback, Goto
  <2> QED
    BY <1>7, <2>1, <2>2, <2>3 DEF MarkManaged
<1>8. CASE RecordCompleted
  \* The row is completed, perhaps with an error, or is not.
  <2>f. /\ cmd.pc = "complete"
        /\ UNCHANGED <<acct, residue, hold, sudo, sshd, auto, quar, prompt, nextGen, foreign,
           systemd>>
    BY <1>8 DEF RecordCompleted
  <2>1. CASE /\ row' = [cmd.rec EXCEPT !.pending = FALSE]
             /\ cmd' = [cmd EXCEPT !.pc = "sshd", !.rec = [cmd.rec EXCEPT !.pending = FALSE]]
    BY <2>f, <2>1 DEF Safe, AccountInv, TypeOK
  <2>2. CASE /\ row' = [cmd.rec EXCEPT !.pending = FALSE]
             /\ cmd' = [cmd EXCEPT !.pc = "rollback", !.rec = [cmd.rec EXCEPT !.pending = FALSE]]
    BY <2>f, <2>2 DEF Safe, AccountInv, TypeOK
  <2>3. CASE UNCHANGED row /\ Rollback
    BY <2>f, <2>3 DEF Safe, AccountInv, TypeOK, Rollback, Goto
  <2> QED
    BY <1>8, <2>1, <2>2, <2>3 DEF RecordCompleted
<1>9. CASE GrantSSHD
  \* Nothing is granted; the exception is granted; the grant fails and is confirmed removed or not.
  <2>f. /\ cmd.pc = "sshd"
        /\ UNCHANGED <<acct, residue, row, hold, sudo, auto, quar, prompt, nextGen, foreign,
           systemd>>
    BY <1>9 DEF GrantSSHD
  <2>1. CASE UNCHANGED sshd /\ (Rollback \/ Goto("sudo"))
    BY <2>f, <2>1 DEF Safe, AccountInv, TypeOK, Rollback, Goto
  <2>2. CASE /\ sshd' = cmd.id
             /\ cmd' = [cmd EXCEPT !.pc = "sudo", !.sshdOK = FALSE, !.undo = cmd.undo \cup {"sshd"}]
    BY <2>f, <2>2 DEF Safe, AccountInv, TypeOK
  <2>3. CASE sshd' = 0 /\ cmd' = [cmd EXCEPT !.pc = "rollback", !.sshdOK = TRUE]
    BY <2>f, <2>3 DEF Safe, AccountInv, TypeOK
  <2>4. CASE sshd' \in {0, cmd.id} /\ cmd' = [cmd EXCEPT !.pc = "rollback", !.sshdOK = FALSE]
    BY <2>f, <2>4 DEF Safe, AccountInv, TypeOK
  <2> QED
    BY <1>9, <2>1, <2>2, <2>3, <2>4 DEF GrantSSHD
<1>10. CASE GrantSudo
  \* Likewise for sudo.
  <2>f. /\ cmd.pc = "sudo"
        /\ UNCHANGED <<acct, residue, row, hold, sshd, auto, quar, prompt, nextGen, foreign,
           systemd>>
    BY <1>10 DEF GrantSudo
  <2>1. CASE UNCHANGED sudo /\ Goto("schedule")
    BY <2>f, <2>1 DEF Safe, AccountInv, TypeOK, Goto
  <2>2. CASE /\ sudo' = cmd.id
             /\ cmd' = [cmd EXCEPT !.pc = "schedule", !.sudoOK = FALSE,
                  !.undo = cmd.undo \cup {"sudo"}]
    BY <2>f, <2>2 DEF Safe, AccountInv, TypeOK
  <2>3. CASE sudo' = 0 /\ cmd' = [cmd EXCEPT !.pc = "rollback", !.sudoOK = TRUE]
    BY <2>f, <2>3 DEF Safe, AccountInv, TypeOK
  <2>4. CASE sudo' \in {0, cmd.id} /\ cmd' = [cmd EXCEPT !.pc = "rollback", !.sudoOK = FALSE]
    BY <2>f, <2>4 DEF Safe, AccountInv, TypeOK
  <2> QED
    BY <1>10, <2>1, <2>2, <2>3, <2>4 DEF GrantSudo
<1>11. CASE Schedule
  \* No task is wanted; the task is armed, known to the command or not; it is not armed.
  <2>f. /\ cmd.pc = "schedule"
        /\ UNCHANGED <<acct, residue, row, hold, sudo, sshd, quar, prompt, nextGen, foreign,
           systemd>>
    BY <1>11 DEF Schedule
  <2>1. CASE "auto" \notin cmd.want /\ Goto("activate") /\ UNCHANGED auto
    BY <2>f, <2>1 DEF Safe, AccountInv, TypeOK, Goto
  <2>2. CASE Rollback /\ UNCHANGED auto
    BY <2>f, <2>2 DEF Safe, AccountInv, TypeOK, Rollback, Goto
  <2>3. CASE /\ "auto" \in cmd.want
             /\ auto' = Armed(cmd.id, Lifetime)
             /\ cmd' = [cmd EXCEPT !.pc = "activate", !.sched = TRUE]
    BY <2>f, <2>3 DEF Safe, AccountInv, TypeOK, Armed
  <2>4. CASE /\ "auto" \in cmd.want
             /\ auto' = Armed(cmd.id, Lifetime)
             /\ cmd' = [cmd EXCEPT !.pc = "rollback", !.sched = TRUE]
    BY <2>f, <2>4 DEF Safe, AccountInv, TypeOK, Armed
  <2>5. CASE /\ "auto" \in cmd.want
             /\ auto' = Armed(cmd.id, Lifetime)
             /\ cmd' = [cmd EXCEPT !.pc = "rollback", !.sched = FALSE]
    BY <2>f, <2>5 DEF Safe, AccountInv, TypeOK, Armed
  <2> QED
    BY <1>11, <2>1, <2>2, <2>3, <2>4, <2>5 DEF Schedule
<1>12. CASE Activate
  BY <1>12 DEF Safe, AccountInv, TypeOK, Activate, StillMatches, Rollback, Fine, Goto, Fault
<1>13. CASE PrintInvite
  BY <1>13 DEF Safe, AccountInv, TypeOK, PrintInvite, Return, Fine, Rollback, Fault, host, IdleCmd,
     Goto
<1>14. CASE UndoSudo
  BY <1>14 DEF Safe, AccountInv, TypeOK, UndoSudo, Undo, DropSudo, Fine, Fault, Undone
<1>15. CASE UndoSSHD
  BY <1>15 DEF Safe, AccountInv, TypeOK, UndoSSHD, Undo, DropSSHD, Fine, Fault, Undone
<1>16. CASE UndoAccount
  BY <1>16 DEF Safe, AccountInv, TypeOK, UndoAccount, Undo, Undone, Fine, Goto, StillMatches,
     DisableLogin, Fault
<1>17. CASE UndoRow
  BY <1>17 DEF Safe, AccountInv, TypeOK, UndoRow, Undo, ReleaseRow, Fine, CancelSchedules, Fault,
     Return, CancelAuto, CancelQuarantine, IdleCmd, NoTimer
<1> QED
  BY <1>1, <1>2, <1>3, <1>4, <1>5, <1>6, <1>7, <1>8, <1>9, <1>10, <1>11, <1>12, <1>13, <1>14, <1>15,
     <1>16, <1>17 DEF Invite

\* So does a revoke that starts: it reads the row and the entry together.
LEMMA StartSafe == AccountInv /\ (RevokeStart \/ FireAuto \/ FireQuarantine) => Safe'
<1> SUFFICES ASSUME AccountInv, TypeOK', RevokeStart \/ FireAuto \/ FireQuarantine
             PROVE  Safe'
  BY StartTypes DEF AccountInv
<1>1. CASE Confirm
  BY <1>1 DEF Safe, AccountInv, TypeOK, Confirm, host
<1>2. CASE StartForced
  BY <1>2 DEF Safe, AccountInv, TypeOK, StartForced, NoPrompt, Loaded, IdleCmd, host
<1>3. CASE RefuseForced
  BY <1>3 DEF Safe, AccountInv, TypeOK, RefuseForced, NoPrompt, host
<1>4. ASSUME NEW m \in {"yes", "uninstall"}, StartUnattended(m)
      PROVE  Safe'
  BY <1>4 DEF Safe, AccountInv, TypeOK, StartUnattended, CompletedIdentity, Listed, Loaded, IdleCmd,
     host
<1>5. CASE FireAuto
  \* The task's revoke starts, or finds that its account is not the row's.
  <2>f. /\ cmd.pc = "idle"
        /\ UNCHANGED <<acct, residue, row, hold, sudo, sshd, quar, prompt, nextGen, faults,
           foreign, systemd>>
    BY <1>5 DEF FireAuto
  <2>1. CASE /\ TaskMatches(auto.id)
             /\ Loaded([IdleCmd EXCEPT !.mode = "timer", !.src = "auto", !.id = auto.id])
             /\ auto' = [auto EXCEPT !.run = TRUE]
    BY <2>f, <2>1 DEF Safe, AccountInv, TypeOK, TaskMatches, Loaded, IdleCmd
  <2>2. CASE /\ TaskMatches(auto.id)
             /\ Loaded([IdleCmd EXCEPT !.mode = "timer", !.src = "op", !.id = auto.id])
             /\ ~systemd
             /\ auto' = NoTimer
    BY <2>f, <2>2 DEF Safe, AccountInv, TypeOK, TaskMatches, Loaded, IdleCmd, NoTimer
  <2>3. CASE /\ systemd
             /\ ~TaskMatches(auto.id)
             /\ cmd' = [IdleCmd EXCEPT !.pc = "exit", !.src = "auto"]
             /\ auto' = [auto EXCEPT !.run = TRUE]
    BY <2>f, <2>3 DEF Safe, AccountInv, TypeOK, TaskMatches, IdleCmd
  <2>4. CASE ~TaskMatches(auto.id) /\ cmd' = IdleCmd /\ ~systemd /\ auto' = NoTimer
    BY <2>f, <2>4 DEF Safe, AccountInv, TypeOK, TaskMatches, IdleCmd, NoTimer
  <2> QED
    BY <1>5, <2>1, <2>2, <2>3, <2>4 DEF FireAuto, StartTask
<1>6. CASE FireQuarantine
  \* Likewise for the finalizer.
  <2>f. /\ cmd.pc = "idle"
        /\ UNCHANGED <<acct, residue, row, hold, sudo, sshd, auto, prompt, nextGen, faults,
           foreign, systemd>>
    BY <1>6 DEF FireQuarantine
  <2>1. CASE /\ quar.left = 0
             /\ quar' = [quar EXCEPT !.run = TRUE]
             /\ TaskMatches(quar.id)
             /\ Loaded([IdleCmd EXCEPT !.mode = "timer", !.src = "quar", !.id = quar.id])
    BY <2>f, <2>1 DEF Safe, AccountInv, TypeOK, TaskMatches, Loaded, IdleCmd
  <2>2. CASE /\ quar.left = 0
             /\ quar' = [quar EXCEPT !.run = TRUE]
             /\ ~TaskMatches(quar.id)
             /\ cmd' = [IdleCmd EXCEPT !.pc = "exit", !.src = "quar"]
    BY <2>f, <2>2 DEF Safe, AccountInv, TypeOK, TaskMatches, IdleCmd
  <2>3. CASE /\ quar.left = 0
             /\ quar' = [quar EXCEPT !.run = TRUE]
             /\ ~TaskMatches(quar.id)
             /\ cmd' = IdleCmd
    BY <2>f, <2>3 DEF Safe, AccountInv, TypeOK, TaskMatches, IdleCmd
  <2> QED
    BY <1>6, <2>1, <2>2, <2>3 DEF FireQuarantine, StartTask
<1> QED
  BY <1>1, <1>2, <1>3, <1>4, <1>5, <1>6 DEF RevokeStart

\* So does every step of a revoke.
LEMMA RevokeSafe == AccountInv /\ RevokeStep => Safe'
<1> SUFFICES ASSUME AccountInv, TypeOK', RevokeStep
             PROVE  Safe'
  BY RevokeTypes
<1>1. CASE Reap
  BY <1>1 DEF Safe, AccountInv, TypeOK, Reap, IdleCmd, Reaped, NoTimer
<1>2. CASE CleanupAbsent
  \* The name is clean; or the command ends with an error.
  <2>f. /\ cmd.pc = "absent"
        /\ UNCHANGED <<acct, row, hold, auto, quar, prompt, nextGen, foreign, systemd>>
    BY <1>2 DEF CleanupAbsent
  <2>1. CASE /\ AbsentReconciled
             /\ sudo' = 0
             /\ sshd' = 0
             /\ Goto("cancel")
             /\ (residue' <=> residue /\ ~row.del)
    BY <2>f, <2>1 DEF Safe, AccountInv, TypeOK, AbsentReconciled, Goto
  <2>2. CASE UNCHANGED residue /\ sudo' \in {0, sudo} /\ sshd' \in {0, sshd} /\ Return(1)
    BY <2>f, <2>2 DEF Safe, AccountInv, TypeOK, Return, IdleCmd
  <2>3. CASE /\ row.del
             /\ ~Present
             /\ residue' = FALSE
             /\ sudo' \in {0, sudo}
             /\ sshd' \in {0, sshd}
             /\ Return(1)
    BY <2>f, <2>3 DEF Safe, AccountInv, TypeOK, Return, IdleCmd
  <2> QED
    BY <1>2, <2>1, <2>2, <2>3 DEF CleanupAbsent, DropGrants, DropSudo, DropSSHD
<1>3. CASE AuthorizeRecovery
  \* The intent proves nothing; or the command goes on.
  <2>f. /\ cmd.pc = "authorize"
        /\ UNCHANGED <<acct, residue, row, hold, prompt, nextGen, foreign, systemd>>
    BY <1>3 DEF AuthorizeRecovery
  <2>1. CASE /\ cmd.rec.pending
             /\ ~cmd.rec.del
             /\ sudo' \in {0, sudo}
             /\ sshd' \in {0, sshd}
             /\ auto' \in {auto, NoTimer}
             /\ quar' \in {quar, NoTimer}
             /\ Return(1)
    BY <2>f, <2>1 DEF Safe, AccountInv, TypeOK, NoTimer, Return, IdleCmd
  <2>2. CASE Goto("strip") /\ UNCHANGED <<sudo, sshd, auto, quar>>
    BY <2>f, <2>2 DEF Safe, AccountInv, TypeOK, Goto
  <2> QED
    BY <1>3, <2>1, <2>2 DEF AuthorizeRecovery, DropGrants, CancelSchedules, DropSudo, DropSSHD,
       CancelAuto, CancelQuarantine
<1>4. CASE StripGrants
  \* The account is refused, its tasks cancelled or not; or it is to be held, or deleted.
  <2>f. /\ cmd.pc = "strip"
        /\ UNCHANGED <<acct, residue, row, hold, prompt, nextGen, foreign, systemd>>
    BY <1>4 DEF StripGrants
  <2>1. CASE /\ ManualOnly(cmd.rec, cmd.pw)
             /\ sudo' \in {0, sudo}
             /\ sshd' \in {0, sshd}
             /\ auto' \in {auto, NoTimer}
             /\ quar' \in {quar, NoTimer}
             /\ Return(1)
    BY <2>f, <2>1 DEF Safe, AccountInv, TypeOK, ManualOnly, NoTimer, Return, IdleCmd
  <2>2. CASE sudo' \in {0, sudo} /\ sshd' \in {0, sshd} /\ UNCHANGED <<auto, quar>> /\ Return(1)
    BY <2>f, <2>2 DEF Safe, AccountInv, TypeOK, Return, IdleCmd
  <2>3. CASE /\ UNCHANGED <<auto, quar>>
             /\ ~RefusedAsProtected(cmd.rec, cmd.pw)
             /\ (cmd.rec.quar /\ hold > 0 /\ cmd.mode # "uninstall")
             /\ (\E s,
                  d \in BOOLEAN : DropSudo(s) /\ DropSSHD(d) /\ cmd' = [cmd EXCEPT !.sudoOK = s,
                  !.sshdOK = d, !.pc = "hold"])
    BY <2>f, <2>3 DEF Safe, AccountInv, TypeOK, DropSudo, DropSSHD
  <2>4. CASE /\ UNCHANGED <<auto, quar>>
             /\ ~RefusedAsProtected(cmd.rec, cmd.pw)
             /\ ~(cmd.rec.quar /\ hold > 0 /\ cmd.mode # "uninstall")
             /\ (\E s,
                  d \in BOOLEAN : DropSudo(s) /\ DropSSHD(d) /\ cmd' = [cmd EXCEPT !.sudoOK = s,
                  !.sshdOK = d, !.pc = "revalidate"])
    BY <2>f, <2>4 DEF Safe, AccountInv, TypeOK, DropSudo, DropSSHD
  <2> QED
    <3>1. PICK s \in BOOLEAN, d \in BOOLEAN, c \in BOOLEAN :
            /\ DropSudo(s) /\ DropSSHD(d)
            /\ IF RefusedAsProtected(cmd.rec, cmd.pw)
               THEN /\ Return(1)
                    /\ IF ManualOnly(cmd.rec, cmd.pw) THEN CancelSchedules(c)
                                                      ELSE c /\ UNCHANGED <<auto, quar>>
               ELSE /\ cmd' = [cmd EXCEPT !.sudoOK = s, !.sshdOK = d,
                                 !.pc = IF cmd.rec.quar /\ hold > 0 /\ cmd.mode # "uninstall"
                                        THEN "hold" ELSE "revalidate"]
                    /\ c /\ UNCHANGED <<auto, quar>>
      BY <1>4, ZenonT(40) DEF StripGrants
    <3>2. sudo' \in {0, sudo} /\ sshd' \in {0, sshd}
      BY <3>1 DEF DropSudo, DropSSHD
    <3>3. CASE RefusedAsProtected(cmd.rec, cmd.pw) /\ ManualOnly(cmd.rec, cmd.pw)
      <4>1. auto' \in {auto, NoTimer} /\ quar' \in {quar, NoTimer}
        BY <3>1, <3>3 DEF CancelSchedules, CancelAuto, CancelQuarantine
      <4> QED
        BY <2>1, <3>1, <3>2, <3>3, <4>1, Zenon
    <3>4. CASE RefusedAsProtected(cmd.rec, cmd.pw) /\ ~ManualOnly(cmd.rec, cmd.pw)
      BY <2>2, <3>1, <3>2, <3>4, Zenon
    <3>5. CASE ~RefusedAsProtected(cmd.rec, cmd.pw)
      BY <2>3, <2>4, <3>1, <3>5, Zenon
    <3> QED
      BY <3>3, <3>4, <3>5
<1>5. CASE HonorQuarantine
  \* Everything is closed again; or the command ends with an error.
  <2>f. /\ cmd.pc = "hold"
        /\ UNCHANGED <<residue, row, hold, auto, quar, prompt, nextGen, foreign, systemd>>
    BY <1>5 DEF HonorQuarantine
  <2>1. CASE sudo' = 0 /\ sshd' = 0 /\ DisableLogin(TRUE) /\ StillMatches /\ Return(0)
    BY <2>f, <2>1 DEF Safe, AccountInv, TypeOK, DisableLogin, StillMatches, Return, IdleCmd
  <2>2. CASE sudo' \in {0, sudo} /\ sshd' \in {0, sshd} /\ DisableLogin(FALSE) /\ Return(1)
    BY <2>f, <2>2 DEF Safe, AccountInv, TypeOK, DisableLogin, Return, IdleCmd
  <2> QED
    BY <1>5, <2>1, <2>2, Disabling DEF HonorQuarantine, DropGrants, DropSudo, DropSSHD
<1>6. CASE Revalidate
  \* The account is kept, or is to be quarantined, or deleted.
  <2>f. /\ cmd.pc = "revalidate"
        /\ UNCHANGED <<residue, row, hold, sudo, sshd, auto, quar, prompt, nextGen, foreign,
           systemd>>
    BY <1>6 DEF Revalidate
  <2>1. CASE DisableLogin(FALSE) /\ Return(1)
    BY <2>f, <2>1 DEF Safe, AccountInv, TypeOK, DisableLogin, Return, IdleCmd
  <2>2. CASE /\ StillMatches
             /\ UNCHANGED acct
             /\ cmd.sudoOK
             /\ cmd.sshdOK
             /\ cmd.rec.bound
             /\ ~cmd.rec.del
             /\ (~cmd.rec.pending \/ PendingRecovery)
             /\ cmd.mode # "uninstall"
             /\ Goto("quarantine")
    BY <2>f, <2>2 DEF Safe, AccountInv, TypeOK, StillMatches, Goto
  <2>3. CASE StillMatches /\ UNCHANGED acct /\ cmd.sudoOK /\ cmd.sshdOK /\ Goto("disable")
    BY <2>f, <2>3 DEF Safe, AccountInv, TypeOK, StillMatches, Goto
  <2> QED
    BY <1>6, <2>1, <2>2, <2>3, Disabling DEF Revalidate
<1>7. CASE QuarantineAccess
  \* The account is closed; or the quarantine is given up for a deletion; or the command ends.
  <2>f. /\ cmd.pc = "quarantine"
        /\ UNCHANGED <<residue, row, hold, sudo, sshd, auto, quar, prompt, nextGen, foreign,
           systemd>>
    BY <1>7 DEF QuarantineAccess
  <2>1. CASE UNCHANGED acct /\ Goto("disable")
    BY <2>f, <2>1 DEF Safe, AccountInv, TypeOK, Goto
  <2>2. CASE StillMatches /\ DisableLogin(TRUE) /\ Goto("qsched")
    BY <2>f, <2>2 DEF Safe, AccountInv, TypeOK, StillMatches, DisableLogin, Goto
  <2>3. CASE DisableLogin(FALSE) /\ Return(1)
    BY <2>f, <2>3 DEF Safe, AccountInv, TypeOK, DisableLogin, Return, IdleCmd
  <2> QED
    BY <1>7, <2>1, <2>2, <2>3, Disabling DEF QuarantineAccess
<1>8. CASE ScheduleQuarantine
  BY <1>8 DEF Safe, AccountInv, TypeOK, ScheduleQuarantine, Armed, Fine, Goto, NoTimer, Fault
<1>9. CASE BeginQuarantine
  \* The quarantine is committed and handed over, or with an error; or it is not.
  <2>f. /\ cmd.pc = "qmark"
        /\ UNCHANGED <<acct, residue, sudo, sshd, auto, prompt, nextGen, foreign, systemd>>
    BY <1>9 DEF BeginQuarantine
  <2>1. CASE /\ row' = [row EXCEPT !.del = TRUE, !.quar = TRUE]
             /\ hold' = quar.left
             /\ Goto("qcancel")
             /\ UNCHANGED quar
    BY <2>f, <2>1 DEF Safe, AccountInv, TypeOK, Goto
  <2>2. CASE /\ row' = [row EXCEPT !.del = TRUE, !.quar = TRUE]
             /\ hold' = quar.left
             /\ Return(1)
             /\ UNCHANGED quar
    BY <2>f, <2>2 DEF Safe, AccountInv, TypeOK, Return, IdleCmd
  <2>3. CASE UNCHANGED <<row, hold>> /\ quar' \in {quar, NoTimer} /\ Return(1)
    BY <2>f, <2>3 DEF Safe, AccountInv, TypeOK, NoTimer, Return, IdleCmd
  <2> QED
    BY <1>9, <2>1, <2>2, <2>3 DEF BeginQuarantine, CancelQuarantine
<1>10. CASE HandOver
  BY <1>10 DEF Safe, AccountInv, TypeOK, HandOver, CancelAuto, Fine, Fault, Return, NoTimer, IdleCmd
<1>11. CASE FinishSchedules
  \* The tasks are gone, or the command ends with an error.
  <2>f. /\ cmd.pc = "cancel"
        /\ UNCHANGED <<acct, residue, row, hold, sudo, sshd, prompt, nextGen, foreign, systemd>>
    BY <1>11 DEF FinishSchedules
  <2>1. CASE auto' = NoTimer /\ quar' = NoTimer /\ Goto("release")
    BY <2>f, <2>1 DEF Safe, AccountInv, TypeOK, NoTimer, Goto
  <2>2. CASE auto' \in {auto, NoTimer} /\ quar' \in {quar, NoTimer} /\ Return(1)
    BY <2>f, <2>2 DEF Safe, AccountInv, TypeOK, NoTimer, Return, IdleCmd
  <2> QED
    BY <1>11, <2>1, <2>2 DEF FinishSchedules, CancelSchedules, CancelAuto, CancelQuarantine
<1>12. CASE FinishRow
  \* The row is gone, with or without an error, or is not.
  <2>f. /\ cmd.pc = "release"
        /\ UNCHANGED <<acct, residue, sudo, sshd, auto, quar, prompt, nextGen, foreign, systemd>>
    BY <1>12 DEF FinishRow
  <2>1. CASE row' = NoRow /\ hold' = 0 /\ Return(0)
    BY <2>f, <2>1 DEF Safe, AccountInv, TypeOK, Return, IdleCmd
  <2>2. CASE row' = NoRow /\ hold' = 0 /\ Return(1)
    BY <2>f, <2>2 DEF Safe, AccountInv, TypeOK, Return, IdleCmd
  <2>3. CASE UNCHANGED row /\ (UNCHANGED hold \/ hold' = 0) /\ Return(1)
    BY <2>f, <2>3 DEF Safe, AccountInv, TypeOK, Return, IdleCmd
  <2> QED
    BY <1>12, <2>1, <2>2, <2>3 DEF FinishRow, ReleaseRow
<1> QED
  BY <1>1, <1>2, <1>3, <1>4, <1>5, <1>6, <1>7, <1>8, <1>9, <1>10, <1>11, <1>12 DEF RevokeStep

\* So does every step of a teardown, of a revoke or of an invite's rollback.
LEMMA TeardownSafe == AccountInv /\ Teardown => Safe'
<1> SUFFICES ASSUME AccountInv, TypeOK', Teardown
             PROVE  Safe'
  BY OtherTypes
<1>1. CASE Disable
  \* The account is closed and quiet; or it is not, or was replaced.
  <2>f. /\ cmd.pc = "disable"
        /\ UNCHANGED <<residue, row, hold, sudo, sshd, auto, quar, prompt, nextGen, foreign,
           systemd>>
    BY <1>1 DEF Disable
  <2>1. CASE StillMatches /\ DisableLogin(TRUE) /\ Goto("persist")
    BY <2>f, <2>1 DEF Safe, AccountInv, TypeOK, StillMatches, DisableLogin, Goto
  <2>2. CASE DisableLogin(FALSE) /\ Abandoned
    BY <2>f, <2>2 DEF Safe, AccountInv, TypeOK, DisableLogin, Abandoned
  <2>3. CASE DisableLogin(FALSE) /\ Return(1) /\ cmd.mode # "invite"
    BY <2>f, <2>3 DEF Safe, AccountInv, TypeOK, DisableLogin, Return, IdleCmd
  <2> QED
    BY <1>1, <2>1, <2>2, <2>3, Disabling DEF Disable, TeardownFailed, Abandoned
<1>2. CASE PersistDeletionStarted
  \* The row is marked, perhaps with an error, or is not.
  <2>f. /\ cmd.pc = "persist"
        /\ UNCHANGED <<acct, residue, hold, sudo, sshd, auto, quar, prompt, nextGen, foreign,
           systemd>>
    BY <1>2 DEF PersistDeletionStarted
  <2>1. CASE /\ row = cmd.rec
             /\ DeletionAuthorized
             /\ row' = DeletionMarked(row, cmd.pw.id)
             /\ Goto("delete")
    BY <2>f, <2>1 DEF Safe, AccountInv, TypeOK, DeletionAuthorized, DeletionMarked, Goto
  <2>2. CASE /\ row = cmd.rec
             /\ DeletionAuthorized
             /\ row' = DeletionMarked(row, cmd.pw.id)
             /\ Abandoned
    BY <2>f, <2>2 DEF Safe, AccountInv, TypeOK, DeletionAuthorized, DeletionMarked, Abandoned
  <2>3. CASE /\ row = cmd.rec
             /\ DeletionAuthorized
             /\ row' = DeletionMarked(row, cmd.pw.id)
             /\ Return(1)
             /\ cmd.mode # "invite"
    BY <2>f, <2>3 DEF Safe, AccountInv, TypeOK, DeletionAuthorized, DeletionMarked, Return, IdleCmd
  <2>4. CASE UNCHANGED row /\ Abandoned
    BY <2>f, <2>4 DEF Safe, AccountInv, TypeOK, Abandoned
  <2>5. CASE UNCHANGED row /\ Return(1) /\ cmd.mode # "invite"
    BY <2>f, <2>5 DEF Safe, AccountInv, TypeOK, Return, IdleCmd
  <2> QED
    BY <1>2, <2>1, <2>2, <2>3, <2>4, <2>5 DEF PersistDeletionStarted, TeardownFailed, Abandoned
<1>3. CASE Delete
  \* The account is gone, with or without an error; or it stays.
  <2>f. /\ cmd.pc = "delete"
        /\ UNCHANGED <<row, hold, sudo, sshd, auto, quar, prompt, nextGen, foreign, systemd>>
    BY <1>3 DEF Delete
  <2>1. CASE ~Present /\ UNCHANGED <<acct, residue>> /\ Goto("reconcile")
    BY <2>f, <2>1 DEF Safe, AccountInv, TypeOK, Goto
  <2>2. CASE StillMatches /\ acct' = NoAcct /\ residue' \in BOOLEAN /\ Goto("reconcile")
    BY <2>f, <2>2 DEF Safe, AccountInv, TypeOK, StillMatches, NoAcct, Goto
  <2>3. CASE StillMatches /\ acct' = NoAcct /\ residue' \in BOOLEAN /\ Abandoned
    BY <2>f, <2>3 DEF Safe, AccountInv, TypeOK, StillMatches, NoAcct, Abandoned
  <2>4. CASE /\ StillMatches
             /\ acct' = NoAcct
             /\ residue' \in BOOLEAN
             /\ Return(1)
             /\ cmd.mode # "invite"
    BY <2>f, <2>4 DEF Safe, AccountInv, TypeOK, StillMatches, NoAcct, Return, IdleCmd
  <2>5. CASE UNCHANGED <<acct, residue>> /\ Abandoned
    BY <2>f, <2>5 DEF Safe, AccountInv, TypeOK, Abandoned
  <2>6. CASE UNCHANGED <<acct, residue>> /\ Return(1) /\ cmd.mode # "invite"
    BY <2>f, <2>6 DEF Safe, AccountInv, TypeOK, Return, IdleCmd
  <2> QED
    BY <1>3, <2>1, <2>2, <2>3, <2>4, <2>5, <2>6 DEF Delete, TeardownFailed, Abandoned
<1>4. CASE Reconcile
  \* The last trace is gone and the command goes on; or not.
  <2>f. /\ cmd.pc = "reconcile"
        /\ UNCHANGED <<acct, row, hold, sudo, sshd, auto, quar, prompt, nextGen, foreign, systemd>>
    BY <1>4 DEF Reconcile
  <2>1. CASE /\ ~Present
             /\ residue' = FALSE
             /\ cmd.mode = "invite"
             /\ cmd' = [cmd EXCEPT !.pc = "rollback", !.undo = cmd.undo \ {"account"},
                  !.acctOK = TRUE]
    BY <2>f, <2>1 DEF Safe, AccountInv, TypeOK
  <2>2. CASE ~Present /\ residue' = FALSE /\ cmd.mode # "invite" /\ Goto("cancel")
    BY <2>f, <2>2 DEF Safe, AccountInv, TypeOK, Goto
  <2>3. CASE (UNCHANGED residue \/ residue' = FALSE) /\ Abandoned
    BY <2>f, <2>3 DEF Safe, AccountInv, TypeOK, Abandoned
  <2>4. CASE (UNCHANGED residue \/ residue' = FALSE) /\ Return(1) /\ cmd.mode # "invite"
    BY <2>f, <2>4 DEF Safe, AccountInv, TypeOK, Return, IdleCmd
  <2> QED
    BY <1>4, <2>1, <2>2, <2>3, <2>4 DEF Reconcile, TeardownSucceeded, TeardownFailed, Abandoned
<1> QED
  BY <1>1, <1>2, <1>3, <1>4 DEF Teardown

\* So does time, a kill at any step, and another administrator at any moment.
LEMMA OtherSafe == AccountInv /\ (Tick \/ Crash \/ OutsideDelete \/ OutsideCreate) => Safe'
<1> SUFFICES ASSUME AccountInv, TypeOK', Tick \/ Crash \/ OutsideDelete \/ OutsideCreate
             PROVE  Safe'
  BY OtherTypes
<1>1. CASE Tick
  BY <1>1 DEF Safe, AccountInv, TypeOK, Tick, Ticked
<1>2. CASE Crash
  BY <1>2 DEF Safe, AccountInv, TypeOK, Crash, Fault, IdleCmd, host
<1>3. CASE OutsideDelete
  \* The private group may stay.
  <2>f. UNCHANGED <<row, hold, sudo, sshd, auto, quar, prompt, cmd, nextGen, faults, systemd>>
    BY <1>3 DEF OutsideDelete
  <2>1. CASE Present /\ acct' = NoAcct /\ UNCHANGED residue
    BY <2>f, <2>1 DEF Safe, AccountInv, TypeOK, NoAcct
  <2>2. CASE Present /\ acct' = NoAcct /\ acct.id > 0 /\ residue' = TRUE
    BY <2>f, <2>2 DEF Safe, AccountInv, TypeOK, NoAcct
  <2> QED
    BY <1>3, <2>1, <2>2 DEF OutsideDelete, Outside
<1>4. CASE OutsideCreate
  BY <1>4 DEF Safe, AccountInv, TypeOK, OutsideCreate, Outside
<1> QED
  BY <1>1, <1>2, <1>3, <1>4

-----------------------------------------------------------------------------
(* The invariant.                                                             *)

\* A host without the account satisfies it, whatever drop-ins it still carries.
LEMMA AccountInit == Init => AccountInv
<1>1. Init => Safe
  BY DEF Init, Safe, IdleCmd, NoAcct
<1> QED
  BY <1>1, InitTypes DEF AccountInv, Safe

\* Every step of the system keeps it.
LEMMA AccountStep == AccountInv /\ [Next]_vars => AccountInv'
<1> SUFFICES ASSUME AccountInv, [Next]_vars
             PROVE  TypeOK' /\ Safe'
  BY DEF AccountInv, Safe
<1>1. CASE Invite
  BY <1>1, InviteTypes, InviteSafe
<1>2. CASE RevokeStart \/ FireAuto \/ FireQuarantine
  BY <1>2, StartTypes, StartSafe DEF AccountInv
<1>3. CASE RevokeStep
  BY <1>3, RevokeTypes, RevokeSafe
<1>4. CASE Teardown
  BY <1>4, OtherTypes, TeardownSafe
<1>5. CASE Tick \/ Crash \/ OutsideDelete \/ OutsideCreate
  BY <1>5, OtherTypes, OtherSafe
<1>6. CASE UNCHANGED vars
  BY <1>6 DEF vars, AccountInv, TypeOK, Safe
<1> QED
  BY <1>1, <1>2, <1>3, <1>4, <1>5, <1>6 DEF Next

\* Through any number of lives, failures, kills and interventions.
THEOREM AccountInvariant == Spec => []AccountInv
<1>1. Init => AccountInv
  BY AccountInit
<1>2. AccountInv /\ [Next]_vars => AccountInv'
  BY AccountStep
<1> QED
  BY <1>1, <1>2, PTL DEF Spec

\* Whatever fails or is killed, an account somebody can log in to has a completed
\* row revoke will act on and, if it is temporary, an armed task that will come for
\* it (UsableIsWitnessed).
THEOREM UsableAlwaysWitnessed == Spec => []UsableIsWitnessed
<1>1. AccountInv => UsableIsWitnessed
  BY DEF AccountInv
<1> QED
  BY <1>1, AccountInvariant, PTL

\* The drop-ins are keyed by name, and yet none outlives its account into the next
\* (GrantsNeverInherited).
THEOREM GrantsAreNeverInherited == Spec => []GrantsNeverInherited
<1>1. AccountInv => GrantsNeverInherited
  BY DEF AccountInv
<1> QED
  BY <1>1, AccountInvariant, PTL

\* Whoever quarantines an account arms the finalizer first, and nobody opens the
\* account or disarms the finalizer while the account is there
\* (QuarantineIsFinalized).
THEOREM QuarantineAlwaysFinalized == Spec => []QuarantineIsFinalized
<1>1. AccountInv => QuarantineIsFinalized
  BY DEF AccountInv, TypeOK, QuarantineIsFinalized
<1> QED
  BY <1>1, AccountInvariant, PTL

-----------------------------------------------------------------------------
(* What a step may never do.                                                  *)

\* The steps that may call DisableLogin.
Closers == Prepare \/ UndoAccount \/ Disable \/ HonorQuarantine \/ Revalidate \/ QuarantineAccess

\* The steps that close an account leave its entry in place.
LEMMA EntryKept ==
  ASSUME TypeOK, Closers
  PROVE  acct'.id = acct.id /\ (acct'.gate \/ acct' = acct)
<1>1. ASSUME NEW ok \in BOOLEAN, DisableLogin(ok)
      PROVE  acct'.id = acct.id /\ (acct'.gate \/ acct' = acct)
  BY <1>1 DEF DisableLogin, TypeOK
<1>2. acct' = acct \/ \E ok \in BOOLEAN : DisableLogin(ok)
  <2>1. CASE Prepare
    BY <2>1, Zenon DEF Prepare
  <2>2. CASE UndoAccount
    BY <2>2, Zenon DEF UndoAccount
  <2>3. CASE Disable
    BY <2>3, Zenon DEF Disable
  <2>4. CASE HonorQuarantine
    BY <2>4, Zenon DEF HonorQuarantine
  <2>5. CASE Revalidate
    BY <2>5, Zenon DEF Revalidate
  <2>6. CASE QuarantineAccess
    BY <2>6, Zenon DEF QuarantineAccess
  <2> QED
    BY <2>1, <2>2, <2>3, <2>4, <2>5, <2>6 DEF Closers
<1> QED
  BY <1>1, <1>2

\* Of all the steps of the tool only userdel removes a passwd entry, and it removes
\* the captured one.
LEMMA OnlyDeleteRemoves ==
  ASSUME AccountInv, [Next]_vars, Removes
  PROVE  Delete /\ StillMatches
<1>1. TypeOK /\ foreign' = foreign /\ foreign \in Nat /\ acct.id >= 0 /\ acct'.id = -1
  BY DEF AccountInv, TypeOK, Removes
<1>2. CASE Closers
  BY <1>1, <1>2, EntryKept
<1>3. CASE CreatePendingIdentity
  <2>1. cmd.id > 0
    BY <1>3 DEF AccountInv, CreatePendingIdentity
  <2>2. acct' = acct \/ acct' = NewAccount(cmd.id)
    BY <1>3, Zenon DEF CreatePendingIdentity
  <2> QED
    BY <1>1, <2>1, <2>2 DEF NewAccount
<1>4. CASE MarkManaged \/ Activate
  BY <1>1, <1>4 DEF MarkManaged, Activate, TypeOK
<1>5. CASE Delete
  BY <1>1, <1>5 DEF Delete, StillMatches
<1>6. CASE OutsideDelete \/ OutsideCreate
  <2>1. foreign' = foreign + 1
    BY <1>6 DEF OutsideDelete, OutsideCreate, Outside
  <2> QED
    BY <1>1, <2>1
<1>7. CASE \/ \E w \in Wants : StartInvite(w)
           \/ ClearReusedUsername \/ ReserveIdentity \/ ReconcileAbsentCreation \/ RecordCompleted
           \/ GrantSSHD \/ GrantSudo \/ Schedule \/ PrintInvite \/ UndoSudo \/ UndoSSHD \/ UndoRow
  <2>1. acct' = acct
    BY <1>7, Zenon DEF StartInvite, ClearReusedUsername, ReserveIdentity, ReconcileAbsentCreation,
       RecordCompleted, GrantSSHD, GrantSudo, Schedule, PrintInvite, UndoSudo, UndoSSHD, UndoRow,
       host
  <2> QED
    BY <1>1, <2>1
<1>8. CASE RevokeStart \/ FireAuto \/ FireQuarantine
  <2>1. acct' = acct
    BY <1>8, Zenon DEF RevokeStart, Confirm, StartForced, RefuseForced, StartUnattended, FireAuto,
       FireQuarantine, host
  <2> QED
    BY <1>1, <2>1
<1>9. CASE \/ Reap \/ CleanupAbsent \/ AuthorizeRecovery \/ StripGrants \/ ScheduleQuarantine
           \/ BeginQuarantine \/ HandOver \/ FinishSchedules \/ FinishRow
  <2>1. acct' = acct
    BY <1>9, Zenon DEF Reap, CleanupAbsent, AuthorizeRecovery, StripGrants, ScheduleQuarantine,
       BeginQuarantine, HandOver, FinishSchedules, FinishRow
  <2> QED
    BY <1>1, <2>1
<1>10. CASE PersistDeletionStarted \/ Reconcile \/ Tick \/ Crash \/ UNCHANGED vars
  <2>1. acct' = acct
    BY <1>10, Zenon DEF PersistDeletionStarted, Reconcile, Tick, Crash, host, vars
  <2> QED
    BY <1>1, <2>1
<1> QED
  BY <1>2, <1>3, <1>4, <1>5, <1>6, <1>7, <1>8, <1>9, <1>10
     DEF Next, Invite, RevokeStep, Teardown, Closers

\* userdel runs only on a closed account of the tool's own, under a deletion row
\* for that very generation, with both name-scoped grants gone (DeletionIsPrepared).
THEOREM DeletionAlwaysPrepared == Spec => DeletionIsPrepared
<1> DEFINE Prepared == acct.id > 0 /\ acct.gate /\ row.id = acct.id /\ row.del
                       /\ sudo = 0 /\ sshd = 0
<1>1. AccountInv /\ [Next]_vars => (Removes => Prepared)
  <2> SUFFICES ASSUME AccountInv, Delete, StillMatches
               PROVE  Prepared
    BY OnlyDeleteRemoves
  <2>1. cmd.pc = "delete" /\ Passwd = cmd.pw /\ cmd.pw.id = row.id /\ row.del
    BY DEF Delete, StillMatches, AccountInv
  <2>2. acct.id > 0 /\ row.id = acct.id /\ acct.gate
    BY <2>1 DEF AccountInv, TypeOK, StillMatches
  <2>3. cmd.mode = "invite" \/ Revoking
    BY <2>1 DEF AccountInv, TypeOK
  <2>4. sudo = 0 /\ sshd = 0
    BY <2>1, <2>3 DEF AccountInv
  <2> QED
    BY <2>1, <2>2, <2>4
<1> QED
  BY <1>1, AccountInvariant, PTL DEF Spec, DeletionIsPrepared

\* A task, a typed confirmation and a rollback remove only the generation they
\* were issued for (DeletionIsIntended).
THEOREM DeletionAlwaysIntended == Spec => DeletionIsIntended
<1>1. AccountInv /\ [Next]_vars =>
        (Removes /\ cmd.mode \in {"timer", "force", "invite"} => acct.id = cmd.id)
  <2> SUFFICES ASSUME AccountInv, Delete, StillMatches, cmd.mode \in {"timer", "force", "invite"}
               PROVE  acct.id = cmd.id
    BY OnlyDeleteRemoves
  <2>1. cmd.pc = "delete" /\ acct.id = cmd.pw.id /\ cmd.pw.id = row.id
    BY DEF Delete, StillMatches, AccountInv
  <2> QED
    BY <2>1 DEF AccountInv
<1> QED
  BY <1>1, AccountInvariant, PTL DEF Spec, DeletionIsIntended

\* A quarantined account is not removed before its deadline, except by uninstall
\* (QuarantineIsHeld).
THEOREM QuarantineAlwaysHeld == Spec => QuarantineIsHeld
<1>1. AccountInv /\ [Next]_vars => (Removes /\ row.quar => hold = 0 \/ cmd.mode = "uninstall")
  <2> SUFFICES ASSUME AccountInv, Delete, row.quar
               PROVE  hold = 0 \/ cmd.mode = "uninstall"
    BY OnlyDeleteRemoves
  <2>1. cmd.pc = "delete"
    BY DEF Delete
  <2>2. Revoking
    BY <2>1 DEF AccountInv, TypeOK
  <2> QED
    BY <2>1, <2>2 DEF AccountInv
<1> QED
  BY <1>1, AccountInvariant, PTL DEF Spec, QuarantineIsHeld

\* A marked row names the account it named before.
LEMMA MarkedRow ==
  ASSUME TypeOK, NEW g \in 1 .. MaxGen
  PROVE  /\ Registered(row) => Registered(DeletionMarked(row, g))
         /\ row.id = g => DeletionMarked(row, g).id = g /\ DeletionMarked(row, g).del
         /\ row.del => DeletionMarked(row, g) = row
BY DEF TypeOK, DeletionMarked

\* Only the last step of a revoke and the last cleanup of an invite release a row.
LEMMA OnlyTwoRelease ==
  ASSUME AccountInv, [Next]_vars, Registered(row), ~Registered(row')
  PROVE  FinishRow \/ UndoRow
<1>1. TypeOK /\ row' # row
  BY DEF AccountInv
<1>2. CASE ReserveIdentity
  <2>1. nextGen # 0
    BY <1>1 DEF TypeOK
  <2> QED
    BY <1>1, <1>2, <2>1, Recorded DEF ReserveIdentity, AccountInv
<1>3. CASE ReconcileAbsentCreation
  <2>1. cmd.id \in 1 .. MaxGen
    BY <1>3 DEF ReconcileAbsentCreation, AccountInv
  <2> QED
    BY <1>1, <1>3, <2>1, MarkedRow DEF ReconcileAbsentCreation
<1>4. CASE RecordCompleted
  <2>1. row = cmd.rec
    BY <1>4 DEF RecordCompleted, AccountInv
  <2> QED
    BY <1>1, <1>4, <2>1 DEF RecordCompleted, TypeOK
<1>5. CASE PersistDeletionStarted
  <2>1. cmd.pw.id \in 1 .. MaxGen
    BY <1>1, <1>5 DEF PersistDeletionStarted, AccountInv, TypeOK
  <2> QED
    BY <1>1, <1>5, <2>1, MarkedRow DEF PersistDeletionStarted
<1>6. CASE BeginQuarantine
  <2>1. [row EXCEPT !.del = TRUE, !.quar = TRUE].id = row.id
    BY <1>1, Zenon DEF TypeOK
  <2> QED
    BY <1>1, <1>6, <2>1 DEF BeginQuarantine
<1>7. CASE \/ \E w \in Wants : StartInvite(w)
           \/ ClearReusedUsername \/ CreatePendingIdentity \/ Prepare \/ MarkManaged \/ GrantSSHD
           \/ GrantSudo \/ Schedule \/ Activate \/ PrintInvite \/ UndoSudo \/ UndoSSHD
           \/ UndoAccount
  BY <1>1, <1>7 DEF StartInvite, ClearReusedUsername, CreatePendingIdentity, Prepare, MarkManaged,
     GrantSSHD, GrantSudo, Schedule, Activate, PrintInvite, UndoSudo, UndoSSHD, UndoAccount, host
<1>8. CASE RevokeStart \/ FireAuto \/ FireQuarantine
  <2>1. CASE FireAuto \/ FireQuarantine
    BY <1>1, <2>1, Zenon DEF FireAuto, FireQuarantine
  <2>2. CASE RevokeStart
    BY <1>1, <2>2, Zenon DEF RevokeStart, Confirm, StartForced, RefuseForced, StartUnattended,
       FireAuto, FireQuarantine, host
  <2> QED
    BY <1>8, <2>1, <2>2
<1>9. CASE \/ Reap \/ CleanupAbsent \/ AuthorizeRecovery \/ StripGrants \/ HonorQuarantine
           \/ Revalidate \/ QuarantineAccess \/ ScheduleQuarantine \/ HandOver \/ FinishSchedules
  BY <1>1, <1>9, Zenon DEF Reap, CleanupAbsent, AuthorizeRecovery, StripGrants, HonorQuarantine,
     Revalidate, QuarantineAccess, ScheduleQuarantine, HandOver, FinishSchedules
<1>10. CASE Disable \/ Delete \/ Reconcile
  BY <1>1, <1>10 DEF Disable, Delete, Reconcile
<1>11. CASE Tick \/ Crash \/ OutsideDelete \/ OutsideCreate \/ UNCHANGED vars
  BY <1>1, <1>11 DEF Tick, Crash, OutsideDelete, OutsideCreate, host, vars
<1> QED
  BY <1>2, <1>3, <1>4, <1>5, <1>6, <1>7, <1>8, <1>9, <1>10, <1>11
     DEF Next, Invite, RevokeStep, Teardown

\* What either of the two knows when it does.
LEMMA RowCleared ==
  ASSUME AccountInv, FinishRow \/ UndoRow, Registered(row), ~Registered(row')
  PROVE  acct.id # row.id /\ ~residue /\ sudo = 0 /\ sshd = 0
<1>1. CASE FinishRow
  <2>1. cmd.pc = "release" /\ row.id > 0
    BY <1>1 DEF FinishRow, AccountInv, TypeOK
  <2>2. Revoking
    BY <2>1 DEF AccountInv, TypeOK
  <2> QED
    BY <2>1, <2>2 DEF AccountInv, TypeOK
<1>2. CASE UndoRow
  <2>1. row' = row \/ (cmd.sudoOK /\ cmd.sshdOK /\ cmd.acctOK)
    BY <1>2, Zenon DEF UndoRow
  <2>2. cmd.pc = "rollback" /\ row.id > 0
    BY <1>2 DEF UndoRow, Undo, AccountInv, TypeOK
  <2> QED
    BY <2>1, <2>2 DEF AccountInv, TypeOK
<1> QED
  BY <1>1, <1>2

\* The row goes last: when it does, the account, its private group and both grants
\* are gone (RowReleasedLast).
THEOREM RowAlwaysReleasedLast == Spec => RowReleasedLast
<1>1. AccountInv /\ [Next]_vars =>
        (Registered(row) /\ ~Registered(row') =>
           acct.id # row.id /\ ~residue /\ sudo = 0 /\ sshd = 0)
  BY OnlyTwoRelease, RowCleared
<1> QED
  BY <1>1, AccountInvariant, PTL DEF Spec, RowReleasedLast

-----------------------------------------------------------------------------
(* AccountLifecycle implements Tenancy: each step of the code is one abstract *)
(* step or none.                                                              *)

\* The tenant can log in.
Open == acct.id > 0 /\ ~acct.gate

\* What the abstraction does not see.
LEMMA Unseen ==
  ASSUME acct' = acct, row' = row, nextGen' = nextGen
  PROVE  UNCHANGED Tenants!vars
BY DEF Tenants!vars, Phase

\* A released row is no row.
LEMMA Unregistered ==
  RowInv /\ row' \in {row, NoRow} /\ row' # row => Registered(row) /\ ~Registered(row')
<1>1. RowInv => (~Registered(row) => row = NoRow)
  BY Zenon DEF RowInv
<1>2. NoRow.id = 0
  BY DEF NoRow
<1> QED
  BY <1>1, <1>2, Zenon

\* An invite takes the name from a claim to an account that can be used.
LEMMA InviteImplements == AccountInv /\ AccountInv' /\ Invite => [Tenants!Next]_Tenants!vars
<1> SUFFICES ASSUME AccountInv, AccountInv', Invite
             PROVE  [Tenants!Next]_Tenants!vars
  OBVIOUS
<1>0. TypeOK
  BY DEF AccountInv
<1>1. CASE ReserveIdentity
  <2>1. row = NoRow /\ nextGen \in 1 .. MaxGen /\ nextGen' = nextGen + 1 /\ acct' = acct
    BY <1>1 DEF ReserveIdentity, AccountInv, TypeOK
  <2>2. row' = row \/ row' = PendingRow(nextGen, cmd.want)
    BY <1>0, <1>1 DEF ReserveIdentity, TypeOK
  <2>3. CASE row' = row
    <3>1. Tenants!Reserve
      BY <2>1, <2>3 DEF Tenants!Reserve, Phase
    <3> QED
      BY <3>1 DEF Tenants!Next
  <2>4. CASE row' = PendingRow(nextGen, cmd.want)
    <3>1. Phase = "none" /\ Phase' = "creating" /\ row'.id = nextGen
      BY <2>1, <2>4, Recorded DEF Phase
    <3>2. Tenants!Reserve
      BY <2>1, <3>1 DEF Tenants!Reserve
    <3> QED
      BY <3>2 DEF Tenants!Next
  <2> QED
    BY <2>2, <2>3, <2>4
<1>2. CASE CreatePendingIdentity
  <2>1. /\ row' = row /\ nextGen' = nextGen
        /\ acct' = acct \/ (~Present /\ acct' = NewAccount(cmd.id))
    BY <1>2, Zenon DEF CreatePendingIdentity
  <2>2. Phase = "creating" /\ row.id = cmd.id /\ row.id > 0
    BY <1>2, <1>0 DEF CreatePendingIdentity, AccountInv, Phase
  <2>3. CASE ~Present /\ acct' = NewAccount(cmd.id)
    <3>1. Tenants!Create
      BY <1>0, <2>1, <2>2, <2>3 DEF Tenants!Create, NewAccount, Phase, TypeOK
    <3> QED
      BY <3>1 DEF Tenants!Next
  <2> QED
    BY <2>1, <2>3, Unseen
<1>3. CASE ReconcileAbsentCreation
  <2>1. /\ acct' = acct /\ nextGen' = nextGen
        /\ row' = row \/ row' = DeletionMarked(row, cmd.id)
    BY <1>3, Zenon DEF ReconcileAbsentCreation
  <2>2. Phase = "creating" /\ row.id = cmd.id /\ row.id \in Gens /\ ~Open
        /\ ~row.del /\ row.pending
    BY <1>3, <1>0 DEF ReconcileAbsentCreation, AccountInv, Phase, Open
  <2>3. CASE row' = DeletionMarked(row, cmd.id)
    <3>1. row'.id = row.id /\ row'.del
      BY <2>2, <2>3 DEF DeletionMarked
    <3>2. Phase' = "retired"
      BY <2>2, <3>1 DEF Phase
    <3>3. Tenants!Retire
      BY <2>1, <2>2, <3>1, <3>2 DEF Tenants!Retire, Open
    <3> QED
      BY <3>3 DEF Tenants!Next
  <2> QED
    BY <2>1, <2>3, Unseen
<1>4. CASE Prepare \/ UndoAccount
  <2>1. row' = row /\ nextGen' = nextGen
    BY <1>4 DEF Prepare, UndoAccount
  <2>2. acct'.id = acct.id /\ (acct'.gate \/ acct' = acct)
    BY <1>0, <1>4, EntryKept DEF Closers
  <2>3. Tenants!Close \/ acct' = acct
    BY <2>1, <2>2 DEF Tenants!Close, Phase
  <2> QED
    BY <2>1, <2>3, Unseen DEF Tenants!Next
<1>5. CASE MarkManaged
  <2>1. row' = row /\ nextGen' = nextGen /\ acct'.id = acct.id /\ acct'.gate = acct.gate
    BY <1>0, <1>5 DEF MarkManaged, TypeOK
  <2> QED
    BY <2>1 DEF Tenants!vars, Phase
<1>6. CASE RecordCompleted
  <2>1. /\ acct' = acct /\ nextGen' = nextGen
        /\ row' = row \/ row' = [cmd.rec EXCEPT !.pending = FALSE]
    BY <1>6, Zenon DEF RecordCompleted
  <2>2. row = cmd.rec /\ row.pending /\ ~row.del /\ row.id \in Gens
    BY <1>6 DEF RecordCompleted, AccountInv
  <2>3. CASE row' = [cmd.rec EXCEPT !.pending = FALSE]
    <3>1. row'.id = row.id /\ ~row'.pending /\ ~row'.del
      BY <1>0, <2>2, <2>3 DEF TypeOK
    <3>2. Phase = "creating" /\ Phase' = "active"
      BY <2>2, <3>1 DEF Phase
    <3>3. Tenants!Complete
      BY <2>1, <3>1, <3>2 DEF Tenants!Complete
    <3> QED
      BY <3>3 DEF Tenants!Next
  <2> QED
    BY <2>1, <2>3, Unseen
<1>7. CASE Activate
  <2>1. /\ row' = row /\ nextGen' = nextGen
        /\ acct' = acct \/ (StillMatches /\ acct' = [acct EXCEPT !.gate = FALSE])
    BY <1>7, Zenon DEF Activate
  <2>2. row.id = cmd.id /\ row.id \in Gens /\ Phase = "active" /\ cmd.pw.id = cmd.id
    BY <1>0, <1>7 DEF Activate, AccountInv, Phase
  <2>3. CASE StillMatches /\ acct' = [acct EXCEPT !.gate = FALSE]
    <3>1. acct.id = row.id /\ acct'.id = acct.id /\ ~acct'.gate
      BY <1>0, <2>2, <2>3 DEF StillMatches, TypeOK
    <3>2. Tenants!Open
      BY <2>1, <2>2, <3>1 DEF Tenants!Open, Phase
    <3> QED
      BY <3>2 DEF Tenants!Next
  <2> QED
    BY <2>1, <2>3, Unseen
<1>8. CASE UndoRow
  <2>1. acct' = acct /\ nextGen' = nextGen /\ row' \in {row, NoRow}
    BY <1>8, Zenon DEF UndoRow, ReleaseRow
  <2>2. CASE row' # row
    <3>1. Registered(row) /\ ~Registered(row')
      BY <2>1, <2>2, Unregistered DEF AccountInv
    <3>2. acct.id # row.id
      BY <1>8, <3>1, RowCleared
    <3>3. Tenants!Release
      BY <1>0, <2>1, <2>2, <3>1, <3>2 DEF Tenants!Release, Phase
    <3> QED
      BY <3>3 DEF Tenants!Next
  <2> QED
    BY <2>1, <2>2, Unseen
<1>9. CASE \/ \E w \in Wants : StartInvite(w)
           \/ ClearReusedUsername \/ GrantSSHD \/ GrantSudo \/ Schedule \/ PrintInvite
           \/ UndoSudo \/ UndoSSHD
  <2>1. acct' = acct /\ row' = row /\ nextGen' = nextGen
    BY <1>9, Zenon DEF StartInvite, ClearReusedUsername, GrantSSHD, GrantSudo, Schedule,
       PrintInvite, UndoSudo, UndoSSHD, host
  <2> QED
    BY <2>1, Unseen
<1> QED
  BY <1>1, <1>2, <1>3, <1>4, <1>5, <1>6, <1>7, <1>8, <1>9 DEF Invite

\* A teardown retires and removes the tenant.
LEMMA TeardownImplements == AccountInv /\ Teardown => [Tenants!Next]_Tenants!vars
<1> SUFFICES ASSUME AccountInv, Teardown
             PROVE  [Tenants!Next]_Tenants!vars
  OBVIOUS
<1>0. TypeOK
  BY DEF AccountInv
<1>1. CASE Disable
  <2>1. row' = row /\ nextGen' = nextGen
    BY <1>1 DEF Disable
  <2>2. acct'.id = acct.id /\ (acct'.gate \/ acct' = acct)
    BY <1>0, <1>1, EntryKept DEF Closers
  <2>3. Tenants!Close \/ acct' = acct
    BY <2>1, <2>2 DEF Tenants!Close, Phase
  <2> QED
    BY <2>1, <2>3, Unseen DEF Tenants!Next
<1>2. CASE PersistDeletionStarted
  <2>1. /\ acct' = acct /\ nextGen' = nextGen
        /\ row' = row \/ row' = DeletionMarked(row, cmd.pw.id)
    BY <1>2, Zenon DEF PersistDeletionStarted
  <2>2. cmd.pw.id = row.id /\ ~Open /\ row.id > 0
    BY <1>0, <1>2 DEF PersistDeletionStarted, AccountInv, TypeOK, Open
  <2>3. CASE row' # row
    <3>1. row'.id = row.id /\ row'.del /\ ~row.del
      BY <1>0, <2>1, <2>2, <2>3, MarkedRow DEF TypeOK
    <3>2. Phase \in {"creating", "active"} /\ Phase' = "retired"
      BY <2>2, <3>1 DEF Phase
    <3>3. Tenants!Retire
      BY <2>1, <2>2, <3>1, <3>2 DEF Tenants!Retire, Open
    <3> QED
      BY <3>3 DEF Tenants!Next
  <2> QED
    BY <2>1, <2>3, Unseen
<1>3. CASE Delete
  <2>1. /\ row' = row /\ nextGen' = nextGen
        /\ acct' = acct \/ (StillMatches /\ acct' = NoAcct)
    BY <1>3, Zenon DEF Delete
  <2>2. cmd.pw.id = row.id /\ row.del /\ row.id > 0 /\ (acct.id > 0 => acct.gate)
    BY <1>0, <1>3 DEF Delete, AccountInv, TypeOK
  <2>3. CASE StillMatches /\ acct' = NoAcct
    <3>1. acct.id = row.id /\ acct.gate /\ acct'.id = -1
      BY <1>0, <2>2, <2>3 DEF StillMatches, TypeOK, NoAcct
    <3>2. Tenants!Remove
      BY <2>1, <2>2, <3>1 DEF Tenants!Remove, Phase
    <3> QED
      BY <3>2 DEF Tenants!Next
  <2> QED
    BY <2>1, <2>3, Unseen
<1>4. CASE Reconcile
  <2>1. acct' = acct /\ row' = row /\ nextGen' = nextGen
    BY <1>4, Zenon DEF Reconcile
  <2> QED
    BY <2>1, Unseen
<1> QED
  BY <1>1, <1>2, <1>3, <1>4 DEF Teardown

\* A revoke closes the tenant, retires it by a quarantine, and releases the claim.
LEMMA RevokeImplements == AccountInv /\ RevokeStep => [Tenants!Next]_Tenants!vars
<1> SUFFICES ASSUME AccountInv, RevokeStep
             PROVE  [Tenants!Next]_Tenants!vars
  OBVIOUS
<1>0. TypeOK
  BY DEF AccountInv
<1>1. CASE HonorQuarantine \/ Revalidate \/ QuarantineAccess
  <2>1. row' = row /\ nextGen' = nextGen
    BY <1>1, Zenon DEF HonorQuarantine, Revalidate, QuarantineAccess
  <2>2. acct'.id = acct.id /\ (acct'.gate \/ acct' = acct)
    BY <1>0, <1>1, EntryKept DEF Closers
  <2>3. Tenants!Close \/ acct' = acct
    BY <2>1, <2>2 DEF Tenants!Close, Phase
  <2> QED
    BY <2>1, <2>3, Unseen DEF Tenants!Next
<1>2. CASE BeginQuarantine
  <2>1. /\ acct' = acct /\ nextGen' = nextGen
        /\ row' = row \/ row' = [row EXCEPT !.del = TRUE, !.quar = TRUE]
    BY <1>2, Zenon DEF BeginQuarantine
  <2>2. ~Open /\ ~row.del /\ row.id > 0
    BY <1>0, <1>2 DEF BeginQuarantine, AccountInv, TypeOK, Open
  <2>3. CASE row' = [row EXCEPT !.del = TRUE, !.quar = TRUE]
    <3>1. row'.id = row.id /\ row'.del
      BY <1>0, <2>3 DEF TypeOK
    <3>2. Phase \in {"creating", "active"} /\ Phase' = "retired"
      BY <2>2, <3>1 DEF Phase
    <3>3. Tenants!Retire
      BY <2>1, <2>2, <3>1, <3>2 DEF Tenants!Retire, Open
    <3> QED
      BY <3>3 DEF Tenants!Next
  <2> QED
    BY <2>1, <2>3, Unseen
<1>3. CASE FinishRow
  <2>1. acct' = acct /\ nextGen' = nextGen /\ row' \in {row, NoRow}
    BY <1>3, Zenon DEF FinishRow, ReleaseRow
  <2>2. CASE row' # row
    <3>1. Registered(row) /\ ~Registered(row')
      BY <2>1, <2>2, Unregistered DEF AccountInv
    <3>2. acct.id # row.id
      BY <1>3, <3>1, RowCleared
    <3>3. Tenants!Release
      BY <1>0, <2>1, <2>2, <3>1, <3>2 DEF Tenants!Release, Phase
    <3> QED
      BY <3>3 DEF Tenants!Next
  <2> QED
    BY <2>1, <2>2, Unseen
<1>4. CASE \/ Reap \/ CleanupAbsent \/ AuthorizeRecovery \/ StripGrants \/ ScheduleQuarantine
           \/ HandOver \/ FinishSchedules
  <2>1. acct' = acct /\ row' = row /\ nextGen' = nextGen
    BY <1>4, Zenon DEF Reap, CleanupAbsent, AuthorizeRecovery, StripGrants, ScheduleQuarantine,
       HandOver, FinishSchedules
  <2> QED
    BY <2>1, Unseen
<1> QED
  BY <1>1, <1>2, <1>3, <1>4 DEF RevokeStep

\* Another administrator's steps are the abstract ones; the rest is not seen.
LEMMA OtherImplements ==
  AccountInv /\ (RevokeStart \/ FireAuto \/ FireQuarantine
                 \/ Tick \/ Crash \/ OutsideDelete \/ OutsideCreate)
  => [Tenants!Next]_Tenants!vars
<1> SUFFICES ASSUME AccountInv,
                    RevokeStart \/ FireAuto \/ FireQuarantine
                    \/ Tick \/ Crash \/ OutsideDelete \/ OutsideCreate
             PROVE  [Tenants!Next]_Tenants!vars
  OBVIOUS
<1>0. TypeOK
  BY DEF AccountInv
<1>1. CASE OutsideDelete
  <2>1. Present /\ acct' = NoAcct /\ row' = row /\ nextGen' = nextGen
    BY <1>1, Zenon DEF OutsideDelete
  <2>2. Tenants!Outside
    BY <1>0, <2>1 DEF Tenants!Outside, NoAcct, Phase, TypeOK
  <2> QED
    BY <2>2 DEF Tenants!Next
<1>2. CASE OutsideCreate
  <2>1. ~Present /\ acct'.id = 0 /\ row' = row /\ nextGen' = nextGen
    BY <1>2 DEF OutsideCreate
  <2>2. Tenants!Outside
    BY <1>0, <2>1 DEF Tenants!Outside, Phase, TypeOK
  <2> QED
    BY <2>2 DEF Tenants!Next
<1>3. CASE RevokeStart \/ FireAuto \/ FireQuarantine \/ Tick \/ Crash
  <2>1. acct' = acct /\ row' = row /\ nextGen' = nextGen
    BY <1>3, Zenon DEF RevokeStart, Confirm, StartForced, RefuseForced, StartUnattended, FireAuto,
       FireQuarantine, Tick, Crash, host
  <2> QED
    BY <2>1, Unseen
<1> QED
  BY <1>1, <1>2, <1>3

\* Whatever fails, is killed or is changed from outside, a username seen through
\* its passwd entry and its row lives as module Tenancy says (ImplementsTenancy).
THEOREM AccountImplementsTenancy == Spec => ImplementsTenancy
<1>1. Init => Tenants!Init
  BY DEF Init, Tenants!Init, NoAcct, Phase
<1>2. AccountInv /\ AccountInv' /\ [Next]_vars => [Tenants!Next]_Tenants!vars
  <2> SUFFICES ASSUME AccountInv, AccountInv', [Next]_vars
               PROVE  [Tenants!Next]_Tenants!vars
    OBVIOUS
  <2>1. CASE UNCHANGED vars
    BY <2>1, Unseen DEF vars
  <2> QED
    BY <2>1, InviteImplements, TeardownImplements, RevokeImplements, OtherImplements DEF Next
<1> QED
  BY <1>1, <1>2, AccountInvariant, PTL DEF Spec, ImplementsTenancy, Tenants!Spec

-----------------------------------------------------------------------------
(* What Tenancy gives by itself.                                              *)

\* An account can be used only in the active life of its own claim; nothing is
\* claimed or lives here under a number that was not handed out.
TenancyInv == nextGen - 1 \in Nat /\ Tenants!OpenIsOwned

\* The empty name satisfies the invariant.
LEMMA TenancyInit == Tenants!Init => TenancyInv
BY DEF Tenants!Init, TenancyInv, Tenants!OpenIsOwned

\* Every step keeps it: in particular a claim is released only when its tenant is
\* gone, and retired only when its account is closed.
LEMMA TenancyStep == TenancyInv /\ [Tenants!Next]_Tenants!vars => TenancyInv'
<1> SUFFICES ASSUME TenancyInv, [Tenants!Next]_Tenants!vars PROVE TenancyInv'
  OBVIOUS
<1> USE DEF TenancyInv, Tenants!OpenIsOwned
<1>1. CASE Tenants!Reserve
  BY <1>1 DEF Tenants!Reserve
<1>2. CASE Tenants!Create
  BY <1>2 DEF Tenants!Create
<1>3. CASE Tenants!Complete \/ Tenants!Open
  BY <1>3 DEF Tenants!Complete, Tenants!Open
<1>4. CASE Tenants!Close \/ Tenants!Retire
  BY <1>4 DEF Tenants!Close, Tenants!Retire
<1>5. CASE Tenants!Remove
  BY <1>5 DEF Tenants!Remove
<1>6. CASE Tenants!Release
  BY <1>6 DEF Tenants!Release
<1>7. CASE Tenants!Outside
  BY <1>7 DEF Tenants!Outside
<1>8. CASE UNCHANGED Tenants!vars
  BY <1>8 DEF Tenants!vars
<1> QED
  BY <1>1, <1>2, <1>3, <1>4, <1>5, <1>6, <1>7, <1>8 DEF Tenants!Next

\* Whatever implements Tenancy keeps that.
LEMMA TenancyGives == ImplementsTenancy => []Tenants!OpenIsOwned
<1>1. TenancyInv => Tenants!OpenIsOwned
  BY DEF TenancyInv
<1> QED
  BY <1>1, TenancyInit, TenancyStep, PTL DEF ImplementsTenancy, Tenants!Spec

\* An account the tool made can be used only in the active life of its own claim,
\* and no number lives on the host that was not handed out, through any number of
\* lives and interventions of other administrators: module Tenancy promises it,
\* and AccountLifecycle keeps the promise.
THEOREM OpenAlwaysOwned == Spec => []Tenants!OpenIsOwned
BY AccountImplementsTenancy, TenancyGives, PTL

=============================================================================
