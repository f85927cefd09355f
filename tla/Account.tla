------------------------------ MODULE Account ------------------------------
(***************************************************************************)
(* The host state one managed username owns, and the steps every command   *)
(* takes on it.                                                            *)
(*                                                                         *)
(* An account is spread over five places no single write can change        *)
(* together: the passwd entry, the registry row, the sudoers and sshd      *)
(* drop-ins (both keyed by the username alone), and up to two scheduled    *)
(* tasks.  invite and revoke move them one helper call at a time under the *)
(* lifecycle lock; this module holds the places, the identity predicates   *)
(* the commands decide by, and the helpers they share.  The registry's own *)
(* files are module Registry; here a row is what Lookup returns.           *)
(*                                                                         *)
(* ReserveIdentity never hands a number out twice (Registry!IdentityFresh) *)
(* and each invite draws a fresh generation, so one number, the account's  *)
(* id, stands for both the UID/GID and the generation.  id 0 is an account *)
(* that some other administrator made under the same name.                 *)
(***************************************************************************)
EXTENDS Integers, FiniteSets

CONSTANTS
  MaxGen,       \* invites that reach ReserveIdentity
  Lifetime,     \* ticks from scheduling to the auto-revoke deadline
  Quarantine,   \* ticks a quarantined identity is held
  Wants,        \* option sets an invite may be started with
  MaxFaults,    \* helper failures and killed processes
  MaxForeign    \* account-database changes made outside the tool

ASSUME AccountConstants ==
  /\ MaxGen \in Nat \ {0} /\ Lifetime \in Nat \ {0} /\ Quarantine \in Nat \ {0}
  /\ Wants \subseteq SUBSET {"auto", "sudo", "sshd"}
  /\ MaxFaults \in Nat /\ MaxForeign \in Nat

VARIABLES
  acct,      \* the passwd entry: id, GECOS marker, login gate
  residue,   \* a private group outlived its passwd entry
  row,       \* the registry row
  hold,      \* ticks until the row's QuarantineUntil
  sudo,      \* the id whose invite wrote the sudoers drop-in, 0 for no file,
             \* Orphan for one left by a life the registry no longer knows
  sshd,      \* likewise for the sshd exception
  auto,      \* the auto-revoke task
  quar,      \* the quarantine finalizer task
  prompt,    \* a confirmation an operator has typed, not yet acted on
  cmd,       \* the command holding the lifecycle lock
  nextGen,   \* the number ReserveIdentity hands out next
  faults, foreign,
  systemd    \* the host's scheduler backend: systemd, or at(1); never changes

host == <<acct, residue, row, hold, sudo, sshd, auto, quar>>
vars == <<acct, residue, row, hold, sudo, sshd, auto, quar, prompt, cmd, nextGen,
          faults, foreign, systemd>>

Gens == 1 .. MaxGen
Orphan == -1

\* gate: the past-date expiry that refuses key and password logins alike.
Accounts == [id : -1 .. MaxGen, marker : {"none", "pending", "managed"}, gate : BOOLEAN]
NoAcct == [id |-> -1, marker |-> "none", gate |-> TRUE]
Present == acct.id >= 0

\* The part of a passwd entry the identity checks compare (SameAccountIdentity).
Passwds == [id : -1 .. MaxGen, marker : {"none", "pending", "managed"}]
Passwd == [id |-> acct.id, marker |-> acct.marker]

\* Record: bound is IdentityBound, del DeletionStarted, quar a QuarantineUntil.
Rows == [id : 0 .. MaxGen, bound : BOOLEAN, pending : BOOLEAN, del : BOOLEAN,
         quar : BOOLEAN, auto : BOOLEAN]
NoRow == [id |-> 0, bound |-> FALSE, pending |-> FALSE, del |-> FALSE,
          quar |-> FALSE, auto |-> FALSE]
Registered(r) == r.id # 0

\* A task carries the identity it was scheduled for; run is set while its own
\* service executes the firing.
Timers(n) == [id : 0 .. MaxGen, left : 0 .. n, run : BOOLEAN]
NoTimer == [id |-> 0, left |-> 0, run |-> FALSE]

\* A task waiting for its deadline.
Armed(g, n) == [id |-> g, left |-> n, run |-> FALSE]

Prompts == [asked : BOOLEAN, rec : Rows, pw : Passwds]
NoPrompt == [asked |-> FALSE, rec |-> NoRow, pw |-> [id |-> -1, marker |-> "none"]]

\* mode is how the command was invoked, src who invoked it; id the account the
\* invocation is about, -1 when it names the username only.  undo holds the
\* registered invite cleanups; the three flags are the *RemovalConfirmed gates.
PCs == {"idle", "exit",
        "clear", "reserve", "useradd", "absentCreation", "prepare", "mark", "complete",
        "sshd", "sudo", "schedule", "activate", "print", "rollback",
        "disable", "persist", "delete", "reconcile",
        "absent", "authorize", "strip", "hold", "revalidate", "quarantine",
        "qsched", "qmark", "qcancel", "cancel", "release"}
Commands == [pc : PCs, mode : {"none", "invite", "force", "yes", "timer", "uninstall"},
             src : {"op", "auto", "quar"}, id : -1 .. MaxGen,
             want : SUBSET {"auto", "sudo", "sshd"}, rec : Rows, pw : Passwds,
             undo : SUBSET {"row", "account", "sshd", "sudo"},
             sudoOK : BOOLEAN, sshdOK : BOOLEAN, acctOK : BOOLEAN,
             sched : BOOLEAN, rc : {0, 1}]
IdleCmd == [pc |-> "idle", mode |-> "none", src |-> "op", id |-> -1, want |-> {},
            rec |-> NoRow, pw |-> [id |-> -1, marker |-> "none"], undo |-> {},
            sudoOK |-> TRUE, sshdOK |-> TRUE, acctOK |-> TRUE, sched |-> FALSE, rc |-> 0]

-----------------------------------------------------------------------------
(* Identity predicates.                                                       *)

\* deletionRecordMatchesPasswd: the bound row and the passwd entry name one
\* account in one phase; pending and completed markers never stand in for
\* each other.
DeletionRecordMatches(r, pw) ==
  /\ r.bound /\ r.id = pw.id
  /\ pw.marker = (IF r.pending THEN "pending" ELSE "managed")

\* pendingCreationRecordMatchesPasswd
PendingCreationMatches(r, pw) ==
  r.pending /\ ~r.del /\ DeletionRecordMatches(r, pw)

\* uidOnlyDeletionCandidateMatches
UidOnlyCandidate(r, pw) ==
  /\ pw.id > 0 /\ pw.marker # "none"
  /\ ~Registered(r) \/ r.id = pw.id

\* IsProtectedRevokeEntry
Protected(r, pw) ==
  IF Registered(r) THEN ~(r.bound /\ r.id = pw.id /\ pw.marker = "managed")
                   ELSE pw.marker # "managed"

\* accountStillMatches, revokeAccountStillMatches: the account is still the one
\* the command captured.
StillMatches == Present /\ Passwd = cmd.pw

-----------------------------------------------------------------------------
(* Helpers.  A helper that fails may have done its work, or part of it.       *)

Fine == UNCHANGED faults
Fault == faults < MaxFaults /\ faults' = faults + 1

Goto(pc) == cmd' = [cmd EXCEPT !.pc = pc]

\* The command ends and releases the lock.  A task's own service reports its
\* status to systemd (Reap) first.
Return(rc) ==
  cmd' = IF cmd.src = "op" THEN IdleCmd
         ELSE [IdleCmd EXCEPT !.pc = "exit", !.src = cmd.src, !.rc = rc]

\* removeSudoGrant, removeSSHDException: called blindly, by name.
DropSudo(ok) == IF ok THEN sudo' = 0 ELSE sudo' \in {0, sudo}
DropSSHD(ok) == IF ok THEN sshd' = 0 ELSE sshd' \in {0, sshd}

\* errors.Join runs both removals, whichever fails.
DropGrants(okSudo, okSSHD) ==
  /\ DropSudo(okSudo) /\ DropSSHD(okSSHD)
  /\ IF okSudo /\ okSSHD THEN Fine ELSE Fault

\* DisableLogin sets the past-date expiry and locks the password, by name.
DisableLogin(ok) ==
  acct' \in {[acct EXCEPT !.gate = TRUE]} \cup (IF ok THEN {} ELSE {acct})

CancelAuto(ok) == IF ok THEN auto' = NoTimer ELSE auto' \in {auto, NoTimer}
CancelQuarantine(ok) == IF ok THEN quar' = NoTimer ELSE quar' \in {quar, NoTimer}

\* cancelAccountSchedules and Scheduler.Cancel: every namespace, by name.
CancelSchedules(ok) == CancelAuto(ok) /\ CancelQuarantine(ok)

\* beginDeletionRecords: a completed row keeps its generation, a creation intent
\* is weakened to a UID-only witness, and an unregistered name gains one.
DeletionMarked(r, id) ==
  IF r.del THEN r
  ELSE IF Registered(r) /\ ~r.pending THEN [r EXCEPT !.del = TRUE]
  ELSE [NoRow EXCEPT !.id = id, !.del = TRUE, !.auto = r.auto]

\* releaseRegistryAfterCleanup: FinishDeletionRecovery or Remove.  A failed
\* directory fsync reports an error after the row is gone.
ReleaseRow(ok) ==
  /\ IF ok THEN row' = NoRow ELSE row' \in {row, NoRow}
  /\ hold' = IF row'.quar THEN hold ELSE 0

=============================================================================
