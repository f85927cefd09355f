------------------------------- MODULE Invite -------------------------------
(***************************************************************************)
(* invite (cli/invite_transaction.go, user/create.go).  Forward, each step *)
(* registers the cleanup that undoes it; a failing step runs the           *)
(* registered cleanups in reverse.  The account is born expired and stays  *)
(* so until every witness of its removal is in place.                      *)
(***************************************************************************)
EXTENDS Teardown

StartInvite(w) ==
  /\ cmd.pc = "idle" /\ nextGen <= MaxGen
  /\ cmd' = [IdleCmd EXCEPT !.pc = "clear", !.mode = "invite", !.want = w]
  /\ UNCHANGED <<host, prompt, nextGen, faults, foreign, systemd>>

\* failf
Rollback == Goto("rollback")

\* Mutant: a reused name keeps whatever drop-ins it still has.
ClearReusedUsernameKeepsGrants ==
  /\ cmd.pc = "clear"
  /\ ~Present /\ ~Registered(row)
  /\ CancelSchedules(TRUE) /\ Goto("reserve") /\ Fine
  /\ UNCHANGED <<acct, residue, row, hold, sudo, sshd, prompt, nextGen, foreign, systemd>>

\* Nothing is created while the name, a row or an unconfirmed grant remains.
ClearReusedUsername ==
  /\ cmd.pc = "clear"
  /\ \/ /\ Present \/ Registered(row)
        /\ Return(1) /\ Fine /\ UNCHANGED <<sudo, sshd, auto, quar>>
     \/ /\ ~Present /\ ~Registered(row)
        /\ \/ DropGrants(TRUE, TRUE) /\ CancelSchedules(TRUE) /\ Goto("reserve")
           \/ \E s, d \in BOOLEAN : /\ ~(s /\ d) /\ DropGrants(s, d)
                                    /\ Return(1) /\ UNCHANGED <<auto, quar>>
           \/ /\ DropSudo(TRUE) /\ DropSSHD(TRUE) /\ CancelSchedules(FALSE)
              /\ Fault /\ Return(1)
  /\ UNCHANGED <<acct, residue, row, hold, prompt, nextGen, foreign, systemd>>

PendingRow(g, w) ==
  [NoRow EXCEPT !.id = g, !.bound = TRUE, !.pending = TRUE, !.auto = "auto" \in w]

\* ReserveIdentity burns the number, then the creation intent is recorded.  The
\* account gate closes before useradd is called.
ReserveIdentity ==
  /\ cmd.pc = "reserve"
  /\ nextGen' = nextGen + 1
  /\ LET c == [cmd EXCEPT !.id = nextGen, !.rec = PendingRow(nextGen, cmd.want), !.undo = {"row"}]
     IN  \/ row' = c.rec /\ Fine /\ cmd' = [c EXCEPT !.pc = "useradd", !.acctOK = FALSE]
         \/ row' = c.rec /\ Fault /\ cmd' = [c EXCEPT !.pc = "rollback"]
         \/ UNCHANGED row /\ Fault /\ Return(1)
  /\ UNCHANGED <<acct, residue, hold, sudo, sshd, auto, quar, prompt, foreign, systemd>>

\* Mutant: useradd leaves the new account unexpired.
NewAccountOpen(g) == [id |-> g, marker |-> "pending", gate |-> FALSE]

\* useradd -M -e 1970-01-02 -p '!': expired and locked from the first moment.
NewAccount(g) == [id |-> g, marker |-> "pending", gate |-> TRUE]

\* CreatePendingIdentityWithID.  The preflight refuses a name or group that is
\* already there; useradd may fail before it starts, fail having
\* created at most the group, or create the account and then fail a check, with
\* or without returning the identity it proved.
CreatePendingIdentity ==
  /\ cmd.pc = "useradd"
  /\ LET kept == [cmd EXCEPT !.undo = cmd.undo \cup {"account"}]
     IN
     \/ /\ ~Present /\ ~residue /\ Fine /\ acct' = NewAccount(cmd.id)
        /\ cmd' = [kept EXCEPT !.pc = "prepare", !.pw = [id |-> cmd.id, marker |-> "pending"]]
        /\ UNCHANGED residue
     \/ /\ IF Present \/ residue THEN Fine ELSE Fault
        /\ UNCHANGED <<acct, residue>>
        /\ cmd' = [cmd EXCEPT !.pc = "rollback", !.acctOK = TRUE]
     \/ /\ ~Present /\ Fault /\ residue' \in {residue, TRUE}
        /\ Goto("absentCreation") /\ UNCHANGED acct
     \/ /\ ~Present /\ Fault /\ acct' = NewAccount(cmd.id) /\ UNCHANGED residue
        /\ \/ cmd' = [kept EXCEPT !.pc = "rollback", !.pw = [id |-> cmd.id, marker |-> "pending"]]
           \/ Goto("absentCreation")
     \/ /\ Present /\ Fine
        /\ cmd' = [kept EXCEPT !.pc = "rollback", !.pw = Passwd]
        /\ UNCHANGED <<acct, residue>>
  /\ UNCHANGED <<row, hold, sudo, sshd, auto, quar, prompt, nextGen, foreign, systemd>>

\* reconcileAbsentSequentialCreation: only this process knows useradd ran, so
\* only it may turn the creation intent into deletion authority.
ReconcileAbsentCreation ==
  /\ cmd.pc = "absentCreation"
  /\ \/ /\ ~Present /\ Fine /\ residue' = FALSE /\ row' = DeletionMarked(row, cmd.id)
        /\ cmd' = [cmd EXCEPT !.pc = "rollback", !.acctOK = TRUE]
     \/ /\ ~Present /\ Fault /\ row' \in {row, DeletionMarked(row, cmd.id)}
        /\ residue' \in (IF row'.del THEN {residue, FALSE} ELSE {residue})
        /\ Rollback
     \/ Present /\ Fine /\ UNCHANGED <<row, residue>> /\ Rollback
  /\ UNCHANGED <<acct, hold, sudo, sshd, auto, quar, prompt, nextGen, foreign, systemd>>

\* Record, DisableLogin, the drain, mail, Home, Record: each step bound to the
\* captured entry; none changes what the row says.
Prepare ==
  /\ cmd.pc = "prepare"
  /\ \/ ~StillMatches /\ Rollback /\ Fine /\ UNCHANGED acct
     \/ StillMatches /\ DisableLogin(TRUE) /\ Goto("mark") /\ Fine
     \/ StillMatches /\ DisableLogin(FALSE) /\ Rollback /\ Fault
  /\ UNCHANGED <<residue, row, hold, sudo, sshd, auto, quar, prompt, nextGen, foreign, systemd>>

\* MarkManagedExpected.  usermod can apply the marker and still report failure;
\* the rollback identity then stays the pending one.
MarkManaged ==
  /\ cmd.pc = "mark"
  /\ LET promoted == [acct EXCEPT !.marker = "managed"]
     IN  \/ ~StillMatches /\ Rollback /\ Fine /\ UNCHANGED acct
         \/ StillMatches /\ Fine /\ acct' = promoted
            /\ cmd' = [cmd EXCEPT !.pc = "complete", !.pw.marker = "managed"]
         \/ StillMatches /\ Fault /\ acct' \in {acct, promoted} /\ Rollback
  /\ UNCHANGED <<residue, row, hold, sudo, sshd, auto, quar, prompt, nextGen, foreign, systemd>>

\* Mutant: the invite goes on although the completed row was not written.
RecordCompletedUnchecked ==
  /\ cmd.pc = "complete"
  /\ LET done == [cmd.rec EXCEPT !.pending = FALSE]
     IN  /\ row' \in {row, done} /\ cmd' = [cmd EXCEPT !.pc = "sshd", !.rec = done]
         /\ IF row' = done THEN Fine ELSE Fault
  /\ UNCHANGED <<acct, residue, hold, sudo, sshd, auto, quar, prompt, nextGen, foreign, systemd>>

\* Record(completed).  A DurabilityError is adopted, so that rollback compares
\* against the row that is visible.
RecordCompleted ==
  /\ cmd.pc = "complete"
  /\ LET done == [cmd.rec EXCEPT !.pending = FALSE]
     IN  \/ row' = done /\ Fine /\ cmd' = [cmd EXCEPT !.pc = "sshd", !.rec = done]
         \/ row' = done /\ Fault /\ cmd' = [cmd EXCEPT !.pc = "rollback", !.rec = done]
         \/ UNCHANGED row /\ Fault /\ Rollback
  /\ UNCHANGED <<acct, residue, hold, sudo, sshd, auto, quar, prompt, nextGen, foreign, systemd>>

\* Groups, the login check, the credential, then SSHD.Grant.  The gate closes
\* before Grant; a failed Grant is removed at once, its removal may fail too.
GrantSSHD ==
  /\ cmd.pc = "sshd"
  /\ \/ ~StillMatches /\ Rollback /\ Fine /\ UNCHANGED sshd
     \/ StillMatches /\ Fault /\ Rollback /\ UNCHANGED sshd
     \/ StillMatches /\ "sshd" \notin cmd.want /\ Goto("sudo") /\ Fine /\ UNCHANGED sshd
     \/ /\ StillMatches /\ "sshd" \in cmd.want /\ Fine /\ sshd' = cmd.id
        /\ cmd' = [cmd EXCEPT !.pc = "sudo", !.sshdOK = FALSE, !.undo = @ \cup {"sshd"}]
     \/ /\ StillMatches /\ "sshd" \in cmd.want /\ Fault
        /\ \E ok \in BOOLEAN : /\ sshd' \in (IF ok THEN {0} ELSE {0, cmd.id})
                               /\ cmd' = [cmd EXCEPT !.pc = "rollback", !.sshdOK = ok]
  /\ UNCHANGED <<acct, residue, row, hold, sudo, auto, quar, prompt, nextGen, foreign, systemd>>

\* Mutant: the deletion gate stays open across Grant.
GrantSudoUngated ==
  /\ cmd.pc = "sudo"
  /\ IF "sudo" \notin cmd.want THEN Goto("schedule") /\ Fine /\ UNCHANGED sudo
     ELSE \/ /\ Fine /\ sudo' = cmd.id
             /\ cmd' = [cmd EXCEPT !.pc = "schedule", !.undo = @ \cup {"sudo"}]
          \/ Fault /\ sudo' \in {0, cmd.id} /\ Rollback
  /\ UNCHANGED <<acct, residue, row, hold, sshd, auto, quar, prompt, nextGen, foreign, systemd>>

GrantSudo ==
  /\ cmd.pc = "sudo"
  /\ IF "sudo" \notin cmd.want THEN Goto("schedule") /\ Fine /\ UNCHANGED sudo
     ELSE \/ /\ Fine /\ sudo' = cmd.id
             /\ cmd' = [cmd EXCEPT !.pc = "schedule", !.sudoOK = FALSE, !.undo = @ \cup {"sudo"}]
          \/ /\ Fault
             /\ \E ok \in BOOLEAN : /\ sudo' \in (IF ok THEN {0} ELSE {0, cmd.id})
                                    /\ cmd' = [cmd EXCEPT !.pc = "rollback", !.sudoOK = ok]
  /\ UNCHANGED <<acct, residue, row, hold, sshd, auto, quar, prompt, nextGen, foreign, systemd>>

\* The stable command, Record, Schedule, Record.  No cleanup is registered for
\* the task: the row's cleanup cancels it, last of all.
Schedule ==
  /\ cmd.pc = "schedule"
  /\ LET armed == Armed(cmd.id, Lifetime)
     IN  \/ "auto" \notin cmd.want /\ Goto("activate") /\ Fine /\ UNCHANGED auto
         \/ Fault /\ Rollback /\ UNCHANGED auto
         \/ /\ "auto" \in cmd.want /\ auto' = armed /\ Fine
            /\ cmd' = [cmd EXCEPT !.pc = "activate", !.sched = TRUE]
         \/ /\ "auto" \in cmd.want /\ auto' = armed /\ Fault
            /\ \E known \in BOOLEAN : cmd' = [cmd EXCEPT !.pc = "rollback", !.sched = known]
  /\ UNCHANGED <<acct, residue, row, hold, sudo, sshd, quar, prompt, nextGen, foreign, systemd>>

\* CheckNoSubordinateIDsExpected, then SetExpiry or ClearExpiry opens the gate,
\* perhaps while reporting failure.
Activate ==
  /\ cmd.pc = "activate"
  /\ LET open == [acct EXCEPT !.gate = FALSE]
     IN  \/ ~StillMatches /\ Rollback /\ Fine /\ UNCHANGED acct
         \/ StillMatches /\ acct' = open /\ Goto("print") /\ Fine
         \/ StillMatches /\ acct' \in {acct, open} /\ Rollback /\ Fault
  /\ UNCHANGED <<residue, row, hold, sudo, sshd, auto, quar, prompt, nextGen, foreign, systemd>>

PrintInvite ==
  /\ cmd.pc = "print"
  /\ \/ Return(0) /\ Fine
     \/ Rollback /\ Fault
  /\ UNCHANGED <<host, prompt, nextGen, foreign, systemd>>

-----------------------------------------------------------------------------
(* The cleanups, in the reverse of the order they were registered.            *)

Undo(c) == cmd.pc = "rollback" /\ c \in cmd.undo
Undone(c) == [cmd EXCEPT !.undo = @ \ {c}]

\* confirmSudoRemoved
UndoSudo ==
  /\ Undo("sudo")
  /\ \E ok \in BOOLEAN : /\ DropSudo(ok)
                         /\ IF ok THEN Fine ELSE Fault
                         /\ cmd' = [Undone("sudo") EXCEPT !.sudoOK = ok]
  /\ UNCHANGED <<acct, residue, row, hold, sshd, auto, quar, prompt, nextGen, foreign, systemd>>

\* confirmSSHDRemoved
UndoSSHD ==
  /\ Undo("sshd") /\ "sudo" \notin cmd.undo
  /\ \E ok \in BOOLEAN : /\ DropSSHD(ok)
                         /\ IF ok THEN Fine ELSE Fault
                         /\ cmd' = [Undone("sshd") EXCEPT !.sshdOK = ok]
  /\ UNCHANGED <<acct, residue, row, hold, sudo, auto, quar, prompt, nextGen, foreign, systemd>>

\* The marker rollbackInviteAccount accepts on the identity it captured.
RollbackIdentityOK ==
  /\ cmd.pw.id = cmd.rec.id
  /\ cmd.pw.marker = "managed" \/ (cmd.rec.pending /\ cmd.pw.marker = "pending")

\* rollbackInviteAccount.  With a grant unconfirmed the account is only disabled
\* and kept; an account that vanished still gets its recovery row first.
UndoAccount ==
  /\ Undo("account") /\ cmd.undo \cap {"sudo", "sshd"} = {}
  /\ LET mayDelete == cmd.sudoOK /\ cmd.sshdOK
     IN  \/ /\ ~RollbackIdentityOK \/ (Present /\ Passwd # cmd.pw)
            /\ cmd' = Undone("account") /\ Fine /\ UNCHANGED acct
         \/ /\ RollbackIdentityOK /\ ~Present /\ Fine /\ UNCHANGED acct
            /\ IF mayDelete THEN Goto("persist") ELSE cmd' = Undone("account")
         \/ /\ RollbackIdentityOK /\ StillMatches /\ ~mayDelete
            /\ \E ok \in BOOLEAN : DisableLogin(ok) /\ IF ok THEN Fine ELSE Fault
            /\ cmd' = Undone("account")
         \/ /\ RollbackIdentityOK /\ StillMatches /\ mayDelete
            /\ Goto("disable") /\ Fine /\ UNCHANGED acct
  /\ UNCHANGED <<residue, row, hold, sudo, sshd, auto, quar, prompt, nextGen, foreign, systemd>>

\* The first-registered cleanup: release the row once everything else is
\* confirmed gone, and only then cancel the task.
UndoRow ==
  /\ Undo("row") /\ cmd.undo = {"row"}
  /\ IF cmd.sudoOK /\ cmd.sshdOK /\ cmd.acctOK /\ ~Present
     THEN \/ ReleaseRow(TRUE) /\ Fine
             /\ IF cmd.sched THEN CancelSchedules(TRUE) ELSE UNCHANGED <<auto, quar>>
          \/ ReleaseRow(FALSE) /\ Fault /\ UNCHANGED <<auto, quar>>
          \/ cmd.sched /\ ReleaseRow(TRUE) /\ Fault /\ CancelSchedules(FALSE)
     ELSE Fine /\ UNCHANGED <<row, hold, auto, quar>>
  /\ Return(1)
  /\ UNCHANGED <<acct, residue, sudo, sshd, prompt, nextGen, foreign, systemd>>

Invite ==
  \/ \E w \in Wants : StartInvite(w)
  \/ ClearReusedUsername \/ ReserveIdentity \/ CreatePendingIdentity \/ ReconcileAbsentCreation
  \/ Prepare \/ MarkManaged \/ RecordCompleted \/ GrantSSHD \/ GrantSudo \/ Schedule
  \/ Activate \/ PrintInvite
  \/ UndoSudo \/ UndoSSHD \/ UndoAccount \/ UndoRow

=============================================================================
