------------------------------- MODULE Revoke -------------------------------
(***************************************************************************)
(* revoke (cli/revoke.go): an operator's, the auto-revoke task's, the      *)
(* quarantine finalizer's, or uninstall's.  Seven ordered phases re-read   *)
(* every fact under the lock, strip the name-scoped grants before anything *)
(* can refuse, and either hand the identity to a quarantine or take the    *)
(* account apart at once.                                                  *)
(***************************************************************************)
EXTENDS Teardown

\* The operator types the full username.  No lock is held, so anything may
\* change before the command acts on the answer.
Confirm ==
  /\ ~prompt.asked
  /\ prompt' = [asked |-> TRUE, rec |-> row, pw |-> Passwd]
  /\ UNCHANGED <<host, cmd, nextGen, faults, foreign, systemd>>

\* loadRegistryAndAuthorizeIntent for an unattended task: its UID/generation
\* must be the row's.  A UID-only row has no generation.
TaskMatches(g) == Registered(row) /\ row.bound /\ row.id = g

\* The command has read the row and the passwd entry.
Loaded(c) ==
  cmd' = [c EXCEPT !.pc = IF Present THEN "authorize" ELSE "absent",
                   !.rec = row, !.pw = Passwd]

\* Mutant: the confirmation is applied to whatever the name is now.
StartForcedUnbound ==
  /\ cmd.pc = "idle" /\ prompt.asked
  /\ prompt' = NoPrompt
  /\ Loaded([IdleCmd EXCEPT !.mode = "force", !.id = prompt.pw.id])
  /\ UNCHANGED <<host, nextGen, faults, foreign, systemd>>

\* revoke --user U --force on a terminal.  loadAccount refuses when the row or
\* the account is no longer the confirmed one, or appeared unconfirmed.
StartForced ==
  /\ cmd.pc = "idle" /\ prompt.asked
  /\ prompt' = NoPrompt
  /\ IF prompt.pw.id = -1 THEN ~Present ELSE row = prompt.rec /\ Passwd = prompt.pw
  /\ Loaded([IdleCmd EXCEPT !.mode = "force", !.id = prompt.pw.id])
  /\ UNCHANGED <<host, nextGen, faults, foreign, systemd>>

\* The same command, refused.
RefuseForced ==
  /\ cmd.pc = "idle" /\ prompt.asked
  /\ ~(IF prompt.pw.id = -1 THEN ~Present ELSE row = prompt.rec /\ Passwd = prompt.pw)
  /\ prompt' = NoPrompt
  /\ UNCHANGED <<host, cmd, nextGen, faults, foreign, systemd>>

\* completedAccountIdentity: uninstall deletes a live account only on a completed
\* row, or a deletion row, of that very identity.
CompletedIdentity == DeletionRecordMatches(row, Passwd) /\ (row.del \/ ~row.pending)

\* Something of the tool's carries the name (teardownPlan's union of witnesses).
Listed == Registered(row) \/ sudo # 0 \/ sshd # 0 \/ auto.id # 0 \/ quar.id # 0

\* revoke --user U --yes, for registered names; and uninstall's revokeLocked for
\* one listed name.
StartUnattended(mode) ==
  /\ cmd.pc = "idle"
  /\ IF mode = "yes" THEN Registered(row)
     ELSE IF Present THEN CompletedIdentity ELSE Listed
  /\ Loaded([IdleCmd EXCEPT !.mode = mode])
  /\ UNCHANGED <<host, prompt, nextGen, faults, foreign, systemd>>

\* A task's service starts revoke with the identity it was scheduled for; a
\* stale one exits 0 having touched nothing.
StartTask(src, g) ==
  LET c == [IdleCmd EXCEPT !.mode = "timer", !.src = src, !.id = g]
  IN  IF TaskMatches(g) THEN Loaded(c)
      ELSE cmd' = IF systemd THEN [IdleCmd EXCEPT !.pc = "exit", !.src = src] ELSE IdleCmd

\* The auto-revoke deadline passed.  An at job leaves the queue as it starts.
FireAuto ==
  /\ cmd.pc = "idle" /\ auto.id # 0 /\ auto.left = 0
  /\ StartTask(IF systemd THEN "auto" ELSE "op", auto.id)
  /\ auto' = IF systemd THEN [auto EXCEPT !.run = TRUE] ELSE NoTimer
  /\ UNCHANGED <<acct, residue, row, hold, sudo, sshd, quar, prompt, nextGen, faults, foreign,
                 systemd>>

FireQuarantine ==
  /\ cmd.pc = "idle" /\ quar.id # 0 /\ quar.left = 0
  /\ StartTask("quar", quar.id)
  /\ quar' = [quar EXCEPT !.run = TRUE]
  /\ UNCHANGED <<acct, residue, row, hold, sudo, sshd, auto, prompt, nextGen, faults, foreign,
                 systemd>>

\* Mutant: without Restart=on-failure a run is over however it ended.
ReapedOnce(t, rc) == IF t.run THEN NoTimer ELSE t

\* Restart=on-failure: a failed run is started again; a successful one is over,
\* unless it re-armed its own timer meanwhile.
Reaped(t, rc) == IF ~t.run THEN t ELSE IF rc = 0 THEN NoTimer ELSE [t EXCEPT !.run = FALSE]

\* systemd notes how the service ended.
Reap ==
  /\ cmd.pc = "exit"
  /\ cmd' = IdleCmd
  /\ auto' = IF cmd.src = "auto" THEN Reaped(auto, cmd.rc) ELSE auto
  /\ quar' = IF cmd.src = "quar" THEN Reaped(quar, cmd.rc) ELSE quar
  /\ UNCHANGED <<acct, residue, row, hold, sudo, sshd, prompt, nextGen, faults, foreign, systemd>>

-----------------------------------------------------------------------------
(* The account is already gone.                                               *)

\* Mutant: an ordinary row is released without looking for residue.
AbsentReconciledBlindly == ~Registered(row) \/ ~Present

\* Only a deletion row authorizes cleanup; an ordinary one waits for residue to
\* be removed by hand.
AbsentReconciled == ~Registered(row) \/ (~Present /\ (row.del \/ ~residue))

\* cleanupAbsentAccount: reconcile or verify, and both grants, before anything
\* that could retry is cancelled.
CleanupAbsent ==
  /\ cmd.pc = "absent"
  /\ \/ /\ AbsentReconciled /\ DropGrants(TRUE, TRUE) /\ Goto("cancel")
        /\ residue' = (residue /\ ~row.del)
     \/ ~AbsentReconciled /\ DropGrants(TRUE, TRUE) /\ Return(1) /\ UNCHANGED residue
     \/ /\ \E s, d \in BOOLEAN : DropSudo(s) /\ DropSSHD(d)
        /\ residue' \in {residue} \cup (IF row.del /\ ~Present THEN {FALSE} ELSE {})
        /\ Fault /\ Return(1)
  /\ UNCHANGED <<acct, row, hold, auto, quar, prompt, nextGen, foreign, systemd>>

-----------------------------------------------------------------------------
(* The account is there.                                                      *)

\* pendingRecoveryAuthorized and an exact pending-generation match.
PendingRecovery ==
  cmd.mode = "force" /\ Registered(cmd.rec) /\ PendingCreationMatches(cmd.rec, cmd.pw)

\* authorizeRecovery: a creation intent proves nothing about the account now
\* under its name, so grants and tasks go and the account stays.
AuthorizeRecovery ==
  /\ cmd.pc = "authorize"
  /\ IF cmd.rec.pending /\ ~cmd.rec.del /\ ~PendingRecovery
     THEN /\ \/ DropGrants(TRUE, TRUE) /\ CancelSchedules(TRUE)
             \/ \E s, d, c \in BOOLEAN : DropSudo(s) /\ DropSSHD(d) /\ CancelSchedules(c) /\ Fault
          /\ Return(1)
     ELSE Goto("strip") /\ Fine /\ UNCHANGED <<sudo, sshd, auto, quar>>
  /\ UNCHANGED <<acct, residue, row, hold, prompt, nextGen, foreign, systemd>>

\* Mutant: a UID-only deletion row is protected from everybody.
RefusedWithoutUidOnly(r, pw) ==
  ~PendingRecovery /\ (IF r.del /\ r.bound THEN ~DeletionRecordMatches(r, pw)
                       ELSE Protected(r, pw))

\* The verdict of stripGrantsAndCheckProtection on the captured row and entry.
RefusedAsProtected(r, pw) ==
  /\ ~PendingRecovery
  /\ CASE r.del /\ r.bound -> ~DeletionRecordMatches(r, pw)
       [] r.del /\ ~r.bound /\ cmd.mode = "force" -> ~UidOnlyCandidate(r, pw)
       [] OTHER -> Protected(r, pw)

\* A deletion row only a person may act on: its tasks have nothing left to do.
ManualOnly(r, pw) == r.del /\ (~r.bound \/ ~DeletionRecordMatches(r, pw))

\* Mutant: a later revoke does not look at the quarantine deadline.
StripGrantsIgnoringHold ==
  /\ cmd.pc = "strip"
  /\ \E s, d \in BOOLEAN :
       /\ DropGrants(s, d)
       /\ IF RefusedAsProtected(cmd.rec, cmd.pw) THEN Return(1)
          ELSE cmd' = [cmd EXCEPT !.sudoOK = s, !.sshdOK = d, !.pc = "revalidate"]
  /\ UNCHANGED <<acct, residue, row, hold, auto, quar, prompt, nextGen, foreign, systemd>>

\* stripGrantsAndCheckProtection, then honorExistingQuarantine's decision.
StripGrants ==
  /\ cmd.pc = "strip"
  /\ \E s, d, c \in BOOLEAN :
       /\ DropSudo(s) /\ DropSSHD(d)
       /\ IF s /\ d /\ c THEN Fine ELSE Fault
       /\ IF RefusedAsProtected(cmd.rec, cmd.pw)
          THEN /\ Return(1)
               /\ IF ManualOnly(cmd.rec, cmd.pw) THEN CancelSchedules(c)
                                                ELSE c /\ UNCHANGED <<auto, quar>>
          ELSE /\ cmd' = [cmd EXCEPT !.sudoOK = s, !.sshdOK = d,
                            !.pc = IF cmd.rec.quar /\ hold > 0 /\ cmd.mode # "uninstall"
                                   THEN "hold" ELSE "revalidate"]
               /\ c /\ UNCHANGED <<auto, quar>>
  /\ UNCHANGED <<acct, residue, row, hold, prompt, nextGen, foreign, systemd>>

\* honorExistingQuarantine before the deadline: close every gate again, by name,
\* then see whether it was still the same account.
HonorQuarantine ==
  /\ cmd.pc = "hold"
  /\ \/ /\ Present /\ DropGrants(TRUE, TRUE) /\ DisableLogin(TRUE)
        /\ Return(IF StillMatches THEN 0 ELSE 1)
     \/ /\ \E s, d \in BOOLEAN : DropSudo(s) /\ DropSSHD(d)
        /\ DisableLogin(FALSE) /\ Return(1)
        /\ IF Present THEN Fault ELSE Fine
  /\ UNCHANGED <<residue, row, hold, auto, quar, prompt, nextGen, foreign, systemd>>

\* revalidateAndPrepareDeletion.  A grant that may survive keeps the account:
\* disabled, never deleted.
Revalidate ==
  /\ cmd.pc = "revalidate"
  /\ LET grantErr == ~(cmd.sudoOK /\ cmd.sshdOK)
         eligible == /\ cmd.rec.bound /\ ~cmd.rec.del
                     /\ ~cmd.rec.pending \/ PendingRecovery
                     /\ cmd.mode # "uninstall"
     IN  \/ ~StillMatches /\ Return(1) /\ Fine /\ UNCHANGED acct
         \/ /\ StillMatches /\ grantErr /\ Return(1)
            /\ \E ok \in BOOLEAN : DisableLogin(ok) /\ IF ok THEN Fine ELSE Fault
         \/ /\ StillMatches /\ ~grantErr /\ Fine /\ UNCHANGED acct
            /\ Goto(IF eligible /\ systemd THEN "quarantine" ELSE "disable")
  /\ UNCHANGED <<residue, row, hold, sudo, sshd, auto, quar, prompt, nextGen, foreign, systemd>>

-----------------------------------------------------------------------------
(* beginIdentityQuarantine.                                                   *)

\* The finalizer's command, DisableLogin, stillMatches, immediate quiescence.
QuarantineAccess ==
  /\ cmd.pc = "quarantine"
  /\ \/ Fault /\ Goto("disable") /\ UNCHANGED acct
     \/ /\ Present
        /\ \E ok, quiet \in BOOLEAN :
             /\ DisableLogin(ok)
             /\ IF ok /\ quiet THEN Fine ELSE Fault
             /\ IF ok /\ quiet /\ StillMatches THEN Goto("qsched") ELSE Return(1)
     \/ ~Present /\ Return(1) /\ Fine /\ UNCHANGED acct
  /\ UNCHANGED <<residue, row, hold, sudo, sshd, auto, quar, prompt, nextGen, foreign, systemd>>

\* ScheduleQuarantine, before the row can say there is a finalizer; without one
\* the deletion is done in the foreground.
ScheduleQuarantine ==
  /\ cmd.pc = "qsched"
  /\ LET armed == Armed(cmd.pw.id, Quarantine)
     IN  \/ quar' = armed /\ Fine /\ Goto("qmark")
         \/ quar' \in {quar, NoTimer, armed} /\ Fault /\ Goto("disable")
  /\ UNCHANGED <<acct, residue, row, hold, sudo, sshd, auto, prompt, nextGen, foreign, systemd>>

\* Registry.BeginQuarantine.  After a plain failure nothing was committed and
\* the finalizer goes; after a DurabilityError the row is there and it stays,
\* handed over once verifyCommittedQuarantine has read it back.
BeginQuarantine ==
  /\ cmd.pc = "qmark"
  /\ LET marked == [row EXCEPT !.del = TRUE, !.quar = TRUE]
     IN  \/ row' = marked /\ hold' = quar.left /\ Goto("qcancel") /\ UNCHANGED quar
            /\ (Fine \/ Fault)
         \/ row' = marked /\ hold' = quar.left /\ Return(1) /\ UNCHANGED quar /\ Fault
         \/ /\ UNCHANGED <<row, hold>> /\ Fault /\ Return(1)
            /\ \E ok \in BOOLEAN : CancelQuarantine(ok)
  /\ UNCHANGED <<acct, residue, sudo, sshd, auto, prompt, nextGen, foreign, systemd>>

\* Mutant: the handover sweeps every namespace, the finalizer's too.
HandOverCancelsAll ==
  /\ cmd.pc = "qcancel"
  /\ CancelSchedules(TRUE) /\ Fine
  /\ Return(0)
  /\ UNCHANGED <<acct, residue, row, hold, sudo, sshd, prompt, nextGen, foreign, systemd>>

\* The finalizer has taken over; failing to remove the old task is not fatal.
HandOver ==
  /\ cmd.pc = "qcancel"
  /\ \E ok \in BOOLEAN : CancelAuto(ok) /\ IF ok THEN Fine ELSE Fault
  /\ Return(0)
  /\ UNCHANGED <<acct, residue, row, hold, sudo, sshd, quar, prompt, nextGen, foreign, systemd>>

-----------------------------------------------------------------------------
(* The account is provably gone: the tasks, and last the row.                 *)

FinishSchedules ==
  /\ cmd.pc = "cancel"
  /\ \E ok \in BOOLEAN : /\ CancelSchedules(ok)
                         /\ IF ok THEN Fine /\ Goto("release") ELSE Fault /\ Return(1)
  /\ UNCHANGED <<acct, residue, row, hold, sudo, sshd, prompt, nextGen, foreign, systemd>>

FinishRow ==
  /\ cmd.pc = "release"
  /\ \E ok \in BOOLEAN : ReleaseRow(ok) /\ IF ok THEN Fine /\ Return(0) ELSE Fault /\ Return(1)
  /\ UNCHANGED <<acct, residue, sudo, sshd, auto, quar, prompt, nextGen, foreign, systemd>>

RevokeStart == Confirm \/ StartForced \/ RefuseForced
               \/ (\E m \in {"yes", "uninstall"} : StartUnattended(m))
RevokeStep ==
  \/ Reap \/ CleanupAbsent \/ AuthorizeRecovery \/ StripGrants \/ HonorQuarantine \/ Revalidate
  \/ QuarantineAccess \/ ScheduleQuarantine \/ BeginQuarantine \/ HandOver
  \/ FinishSchedules \/ FinishRow

=============================================================================
