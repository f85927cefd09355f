------------------------------ MODULE Teardown ------------------------------
(***************************************************************************)
(* Taking the account apart (revoke.go teardown*, persistAndDeleteAccount, *)
(* user/delete.go): shared by revoke and by the rollback of a failed       *)
(* invite.  disable -> persist the recovery row -> artifacts and userdel   *)
(* -> reconcile what userdel may have left.                                *)
(***************************************************************************)
EXTENDS Account

\* What the caller does with the result.  Invite goes on with its remaining
\* cleanups; revoke retains everything for a retry, or finishes.
TeardownFailed ==
  IF cmd.mode = "invite"
  THEN cmd' = [cmd EXCEPT !.pc = "rollback", !.undo = cmd.undo \ {"account"}]
  ELSE Return(1)

TeardownSucceeded ==
  IF cmd.mode = "invite"
  THEN cmd' = [cmd EXCEPT !.pc = "rollback", !.undo = cmd.undo \ {"account"}, !.acctOK = TRUE]
  ELSE Goto("cancel")

\* stillMatches, DisableLogin, stillMatches, quiesce, stillMatches.  Quiescence
\* can fail on processes or jobs it cannot confirm gone; the account is then
\* retained, disabled.
Disable ==
  /\ cmd.pc = "disable"
  /\ \/ ~StillMatches /\ TeardownFailed /\ Fine /\ UNCHANGED acct
     \/ /\ StillMatches
        /\ \E ok, quiet \in BOOLEAN :
             /\ DisableLogin(ok)
             /\ IF ok /\ quiet THEN Fine /\ Goto("persist") ELSE Fault /\ TeardownFailed
  /\ UNCHANGED <<residue, row, hold, sudo, sshd, auto, quar, prompt, nextGen, foreign, systemd>>

\* The identity persistDeletionStarted requires of the captured account.
DeletionAuthorized ==
  IF row.bound THEN DeletionRecordMatches(row, cmd.pw) ELSE UidOnlyCandidate(row, cmd.pw)

\* persistDeletionStarted.  A DurabilityError leaves the row visible and stops.
PersistDeletionStarted ==
  /\ cmd.pc = "persist"
  /\ \/ row = cmd.rec /\ DeletionAuthorized
        /\ row' = DeletionMarked(row, cmd.pw.id) /\ Fine /\ Goto("delete")
     \/ row = cmd.rec /\ DeletionAuthorized
        /\ row' \in {row, DeletionMarked(row, cmd.pw.id)} /\ Fault /\ TeardownFailed
     \/ ~(row = cmd.rec /\ DeletionAuthorized)
        /\ UNCHANGED row /\ Fine /\ TeardownFailed
  /\ UNCHANGED <<acct, residue, hold, sudo, sshd, auto, quar, prompt, nextGen, foreign, systemd>>

\* Manager.delete up to and including userdel: mail, Home, final quiescence and
\* the last identity check, then the name-scoped helper.  The check and userdel
\* are one step here; the code says "Name-based helpers remain non-atomic".
Delete ==
  /\ cmd.pc = "delete"
  /\ \/ ~Present /\ Goto("reconcile") /\ Fine /\ UNCHANGED <<acct, residue>>
     \/ Present /\ Passwd # cmd.pw /\ TeardownFailed /\ Fine /\ UNCHANGED <<acct, residue>>
     \/ StillMatches /\ Fine
        /\ acct' = NoAcct /\ residue' \in BOOLEAN /\ Goto("reconcile")
     \/ StillMatches /\ Fault
        /\ \/ UNCHANGED <<acct, residue>>
           \/ acct' = NoAcct /\ residue' \in BOOLEAN
        /\ TeardownFailed
  /\ UNCHANGED <<row, hold, sudo, sshd, auto, quar, prompt, nextGen, foreign, systemd>>

\* removeManagedMail and ReconcileAccountDatabaseAfterDeletion: only while the
\* name stays absent.
Reconcile ==
  /\ cmd.pc = "reconcile"
  /\ \/ ~Present /\ residue' = FALSE /\ Fine /\ TeardownSucceeded
     \/ ~Present /\ residue' \in {residue, FALSE} /\ Fault /\ TeardownFailed
     \/ Present /\ UNCHANGED residue /\ Fine /\ TeardownFailed
  /\ UNCHANGED <<acct, row, hold, sudo, sshd, auto, quar, prompt, nextGen, foreign, systemd>>

Teardown == Disable \/ PersistDeletionStarted \/ Delete \/ Reconcile

=============================================================================
