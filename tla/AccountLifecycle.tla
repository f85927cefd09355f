-------------------------- MODULE AccountLifecycle --------------------------
(***************************************************************************)
(* One username's whole life: invites, revokes of every kind, the two      *)
(* scheduled tasks, killed processes, failing helpers, and another         *)
(* administrator working on the same name.  Commands are serialized by the *)
(* lifecycle lock (module LifecycleLock); the confirmation prompt and the  *)
(* other administrator are not.                                            *)
(***************************************************************************)
EXTENDS Invite, Revoke

\* A host that may still carry drop-ins of an earlier installation.
Init ==
  /\ acct = NoAcct /\ residue = FALSE /\ row = NoRow /\ hold = 0
  /\ sudo \in {0, Orphan} /\ sshd \in {0, Orphan} /\ auto = NoTimer /\ quar = NoTimer
  /\ prompt = NoPrompt /\ cmd = IdleCmd /\ nextGen = 1
  /\ faults = 0 /\ foreign = 0 /\ systemd \in BOOLEAN

Ticked(t) == [t EXCEPT !.left = IF @ > 0 THEN @ - 1 ELSE 0]

\* Deadlines are kept as the time that remains.
Tick ==
  /\ auto.left + quar.left + hold > 0
  /\ auto' = Ticked(auto) /\ quar' = Ticked(quar)
  /\ hold' = IF hold > 0 THEN hold - 1 ELSE 0
  /\ UNCHANGED <<acct, residue, row, sudo, sshd, prompt, cmd, nextGen, faults, foreign, systemd>>

\* The process holding the lock is killed.  systemd restarts a killed service.
Crash ==
  /\ cmd.pc \notin {"idle", "exit"} /\ Fault
  /\ cmd' = IF cmd.src = "op" THEN IdleCmd
            ELSE [IdleCmd EXCEPT !.pc = "exit", !.src = cmd.src, !.rc = 1]
  /\ UNCHANGED <<host, prompt, nextGen, foreign, systemd>>

Outside == foreign < MaxForeign /\ foreign' = foreign + 1

\* Another administrator deletes the account; the private group may stay.
OutsideDelete ==
  /\ Outside /\ Present
  /\ acct' = NoAcct
  /\ residue' \in (IF acct.id > 0 THEN {residue, TRUE} ELSE {residue})
  /\ UNCHANGED <<row, hold, sudo, sshd, auto, quar, prompt, cmd, nextGen, faults, systemd>>

\* Another administrator creates an account under the same name.
OutsideCreate ==
  /\ Outside /\ ~Present
  /\ acct' = [id |-> 0, marker |-> "none", gate |-> FALSE]
  /\ UNCHANGED <<residue, row, hold, sudo, sshd, auto, quar, prompt, cmd, nextGen, faults, systemd>>

\* The running command's next step.
Step == Teardown \/ RevokeStep
        \/ ClearReusedUsername \/ ReserveIdentity \/ CreatePendingIdentity
        \/ ReconcileAbsentCreation \/ Prepare \/ MarkManaged \/ RecordCompleted \/ GrantSSHD
        \/ GrantSudo \/ Schedule \/ Activate \/ PrintInvite
        \/ UndoSudo \/ UndoSSHD \/ UndoAccount \/ UndoRow

Next == Invite \/ RevokeStart \/ FireAuto \/ FireQuarantine \/ RevokeStep \/ Teardown
        \/ Tick \/ Crash \/ OutsideDelete \/ OutsideCreate

Spec == Init /\ [][Next]_vars

\* A command that holds the lock runs on; time passes; a due task gets the lock
\* among the other commands that want it (the flock queue), again and again.
Fairness ==
  /\ WF_vars(Step) /\ WF_vars(Tick)
  /\ SF_vars(FireAuto) /\ SF_vars(FireQuarantine)
FairSpec == Spec /\ Fairness

\* An operator who keeps running revoke --force and confirming it.
OperatorPersists == WF_vars(Confirm) /\ SF_vars(StartForced \/ RefuseForced)
OperatorSpec == FairSpec /\ OperatorPersists

-----------------------------------------------------------------------------
(* Safety.                                                                    *)

\* Every variable stays in its type.
TypeOK ==
  /\ acct \in Accounts /\ residue \in BOOLEAN /\ row \in Rows /\ hold \in 0 .. Quarantine
  /\ sudo \in Orphan .. MaxGen /\ sshd \in Orphan .. MaxGen
  /\ auto \in Timers(Lifetime) /\ quar \in Timers(Quarantine)
  /\ prompt \in Prompts /\ cmd \in Commands /\ nextGen \in 1 .. MaxGen + 1
  /\ faults \in 0 .. MaxFaults /\ foreign \in 0 .. MaxForeign /\ systemd \in BOOLEAN

\* The tool's account, with its login gate open.
Usable(g) == g > 0 /\ acct.id = g /\ ~acct.gate

\* Whatever fails or is killed, and wherever: an account somebody can log in to
\* has a completed row of its own generation that revoke will act on, and, if
\* it is temporary, an armed task that will come for it (activation is the last
\* step of invite; disabling is the first of every teardown).
UsableIsWitnessed ==
  \A g \in Gens : Usable(g) =>
    /\ row.id = g /\ row.bound /\ ~row.pending /\ ~row.del
    /\ row.auto /\ systemd => auto.id = g

\* The drop-ins are keyed by name: no account the tool makes ever finds one that
\* an earlier owner of the name left, not even while it is still expired.
GrantsNeverInherited ==
  acct.id > 0 => sudo \in {0, acct.id} /\ sshd \in {0, acct.id}

\* A quarantined row: its account, while it exists, is closed, and the finalizer
\* that ends the quarantine is armed unless only a person may act.
QuarantineIsFinalized ==
  row.quar => /\ acct.id = row.id => acct.gate
              /\ quar.id = row.id \/ acct.id # row.id

\* A step in which the tool itself, not another administrator, removes the
\* passwd entry.
Removes == Present /\ acct'.id = -1 /\ foreign' = foreign

\* userdel runs only on a closed account of the tool's own, under a deletion row
\* for that very generation, with both name-scoped grants gone: a crash right
\* after it leaves the evidence to finish, and no privilege for the next owner
\* of the name.
DeletionIsPrepared ==
  [][Removes => /\ acct.id > 0 /\ acct.gate
                /\ row.id = acct.id /\ row.del
                /\ sudo = 0 /\ sshd = 0]_vars

\* A task, a typed confirmation and a rollback remove only the generation they
\* were issued for, however long ago that was.
DeletionIsIntended ==
  [][Removes /\ cmd.mode \in {"timer", "force", "invite"} => acct.id = cmd.id]_vars

\* A quarantined name and UID are not given back before the deadline, except by
\* uninstall, which waits in the foreground instead.
QuarantineIsHeld ==
  [][Removes /\ row.quar => hold = 0 \/ cmd.mode = "uninstall"]_vars

\* The row goes last: when it does, the account, its private group and both
\* grants are gone.
RowReleasedLast ==
  [][Registered(row) /\ ~Registered(row') =>
       acct.id # row.id /\ ~residue /\ sudo = 0 /\ sshd = 0]_vars

-----------------------------------------------------------------------------
(* Liveness, with no other administrator and finitely many                    *)
(* failures.                                                                  *)

\* On a systemd host a temporary account that became usable is eventually gone
\* (an at job runs once).
ExpiryCompletes ==
  \A g \in Gens : systemd /\ Usable(g) /\ row.auto ~> acct.id # g

\* The two places that name an account's phase disagree: the marker was promoted
\* and the row was not.
HalfPromoted(g) == acct.id = g /\ acct.marker = "managed" /\ row.id = g /\ row.pending

\* An operator who keeps confirming revoke --force gets rid of every account
\* that stands under its own row, whatever interrupted it, unless the
\* interruption fell between promoting the marker and completing the row.
RecoveryCompletesUnlessHalfPromoted ==
  OperatorPersists => \A g \in Gens : acct.id = g /\ row.id = g ~> acct.id # g \/ HalfPromoted(g)

\* The same without the exception, which is what the refusals of invite and
\* revoke tell the operator: "Run linux-temp-admin revoke --user U first to
\* complete cleanup".
RecoveryCompletes ==
  \A g \in Gens : acct.id = g /\ row.id = g ~> acct.id # g

-----------------------------------------------------------------------------
(* Refinement.                                                                *)

Phase == CASE ~Registered(row) -> "none"
           [] Registered(row) /\ row.del -> "retired"
           [] Registered(row) /\ ~row.del /\ row.pending -> "creating"
           [] OTHER -> "active"

Tenants == INSTANCE Tenancy WITH
  tenant <- acct.id, open <- acct.id > 0 /\ ~acct.gate,
  claim <- row.id, phase <- Phase, last <- nextGen - 1

\* Whatever fails, is killed or is changed from outside, a username seen through
\* its passwd entry and its row lives as module Tenancy says.
ImplementsTenancy == Tenants!Spec

=============================================================================
