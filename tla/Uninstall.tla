----------------------------- MODULE Uninstall -----------------------------
(***************************************************************************)
(* uninstall (cli/uninstall.go): an inventory over all witnesses is shown, *)
(* confirmed without the lock, rebuilt under it and compared; every name   *)
(* is revoked; a second inventory decides whether anything is left; only   *)
(* then go the timer stamps, the state directory and, last, the command.   *)
(* Around it: compact, invites, tasks that fire, and other people.         *)
(***************************************************************************)
EXTENDS Compact

CONSTANTS
  Leftovers,   \* what earlier commands, releases and accidents left under a name
  OptionSets   \* the flags uninstall may be given

ASSUME UninstallConstants ==
  /\ Leftovers \in [Names -> SUBSET Hosts] /\ OptionSets \subseteq Options

\* An account of this tool's is made under its row and loses the row last (module
\* Account, RowReleasedLast); what others do to a row is LoseRow.
ASSUME LeftoversNamed ==
  \A n \in Names : \A r \in Leftovers[n] : r.acct > 0 => r.row # "none"

VARIABLES
  asked,      \* the inventory an operator is asked to confirm
  installed,  \* the command is on disk
  path,       \* the install path: ok, unsafe (a symlink), or a directory
  tomb,       \* the uninstall marker
  stamps      \* inert timer stamps of older releases

footprint == <<installed, tomb, stamps>>
vars == <<h, nextId, lost, op, faults, outside, asked, installed, path, tomb, stamps>>

\* The command's view of a name that no witness mentions is empty.
View == [n \in Names |-> IF Listed(h[n]) THEN h[n] ELSE Nothing]
Plans == [live : BOOLEAN, view : [Names -> Hosts], path : {"ok", "unsafe", "dir"}, opts : Options]
NoPlan == [live |-> FALSE, view |-> [n \in Names |-> Nothing], path |-> "ok", opts |-> NoOpts]

-----------------------------------------------------------------------------
(* Authorization.                                                             *)

\* plan.ignores
Ignored(r, opts) == opts.ignore /\ MarkerOnly(r)

\* binaryBlocker; --force accepts an unsafe path, never a directory.
Blocked(opts) == installed /\ (path = "dir" \/ (path = "unsafe" /\ ~opts.force))

\* Mutant: the accounts are checked only when their turn comes.
AuthorizedAsItGoes(opts) == ~Blocked(opts)

\* authorizeUninstall, on an inventory all of whose sources could be read.
Authorized(opts) ==
  /\ ~Blocked(opts)
  /\ \A n \in Names : Listed(h[n]) => Classify(h[n]) # "recoveryManual"
  /\ \A n \in Names : Listed(h[n]) /\ Live(h[n]) =>
       CompletedIdentity(h[n]) \/ Ignored(h[n], opts)

\* teardownPlan, authorizeUninstall and the prompt.  A refusal leaves no trace.
Plan(opts) ==
  /\ ~asked.live /\ installed /\ Authorized(opts)
  /\ asked' = [live |-> TRUE, view |-> View, path |-> path, opts |-> opts]
  /\ UNCHANGED <<h, nextId, lost, op, faults, outside, footprint, path>>

\* Mutant: the plan is not compared with the host it is executed on.
ProceedUnchecked ==
  /\ Idle /\ asked.live /\ installed
  /\ asked' = NoPlan
  /\ Fine /\ op' = [IdleOp EXCEPT !.pc = "revoke", !.opts = asked.opts, !.view = asked.view,
                                  !.todo = {n \in Names : Listed(h[n])}]
  /\ UNCHANGED <<h, nextId, lost, outside, footprint, path>>

\* YES was typed.  Under the lock the inventory is rebuilt; a source that cannot
\* be read, or any difference, ends the command.
Proceed ==
  /\ Idle /\ asked.live /\ installed
  /\ asked' = NoPlan
  /\ \/ Fault /\ UNCHANGED op
     \/ /\ Fine
        /\ op' = IF View = asked.view /\ path = asked.path
                 THEN [IdleOp EXCEPT !.pc = "revoke", !.opts = asked.opts, !.view = asked.view,
                                     !.todo = {n \in Names : Listed(h[n])}]
                 ELSE op
  /\ UNCHANGED <<h, nextId, lost, outside, footprint, path>>

-----------------------------------------------------------------------------
(* teardown.                                                                  *)

Stop == op' = IdleOp
Goto(pc) == op' = [op EXCEPT !.pc = pc]

\* One account of the plan: skipped, refused, or handed to revoke.
RevokeAccount(n) ==
  LET planned == op.view[n]
      refused == \/ Live(planned) /\ planned.row = "none"
                 \/ Live(h[n]) /\ ~CompletedIdentity(h[n])
  IN  /\ op.pc = "revoke" /\ n \in op.todo
      /\ \/ /\ Ignored(planned, op.opts) /\ Fine /\ UNCHANGED h
            /\ op' = [op EXCEPT !.todo = @ \ {n}]
         \/ /\ ~Ignored(planned, op.opts) /\ refused /\ Fine /\ UNCHANGED h
            /\ op' = [op EXCEPT !.todo = @ \ {n}, !.failed = TRUE]
         \/ /\ ~Ignored(planned, op.opts) /\ ~refused
            /\ \E ok \in BOOLEAN :
                 /\ FineIf(ok)
                 /\ \E r \in RevokeOutcome(h[n], ok) : h' = [h EXCEPT ![n] = r]
                 /\ op' = [op EXCEPT !.todo = @ \ {n}, !.failed = @ \/ ~ok, !.smooth = @ /\ ok]
      /\ UNCHANGED <<nextId, lost, outside, asked, footprint, path>>

\* What the second inventory stops for: an account or a live loosening of policy.
\* A row or a v1 line without its account goes with the state directory.
Blocks(r) == Live(r) \/ Artifact(r)

\* The second inventory.
Residual ==
  /\ op.pc = "revoke" /\ op.todo = {}
  /\ \/ Fault /\ Stop
     \/ /\ Fine
        /\ IF \/ \E n \in Names : Listed(h[n]) /\ ~Ignored(h[n], op.opts) /\ Blocks(h[n])
              \/ op.failed \/ Blocked(op.opts)
           THEN Stop ELSE Goto("stamps")
  /\ UNCHANGED <<h, nextId, lost, outside, asked, footprint, path>>

CleanupTimerStamps ==
  /\ op.pc = "stamps"
  /\ \/ stamps' = FALSE /\ Fine /\ Goto("mark")
     \/ stamps' \in {stamps, FALSE} /\ Fault /\ Stop
  /\ UNCHANGED <<h, nextId, lost, outside, asked, installed, path, tomb>>

\* MarkUninstalled; a marker that is visible but not synced is in force.
MarkUninstalled ==
  /\ op.pc = "mark"
  /\ \/ tomb' = TRUE /\ (Fine \/ Fault) /\ Goto("state")
     \/ UNCHANGED tomb /\ Fault /\ Stop
  /\ UNCHANGED <<h, nextId, lost, outside, asked, installed, path, stamps>>

\* removeStateDir: the registry and v1's.
NoState == [n \in Names |-> [h[n] EXCEPT !.row = "none", !.rid = 0, !.v1 = FALSE]]
RemoveStateDir ==
  /\ op.pc = "state"
  /\ \/ h' = NoState /\ Fine /\ Goto("command")
     \/ h' \in {h, NoState} /\ Fault /\ Stop
  /\ UNCHANGED <<nextId, lost, outside, asked, footprint, path>>

\* Selfmanage.Uninstall.
RemoveCommand ==
  /\ op.pc = "command" /\ Stop
  /\ \/ /\ IF Blocked(op.opts) THEN UNCHANGED installed ELSE installed' = FALSE
        /\ Fine
     \/ installed' \in {installed, FALSE} /\ Fault
  /\ UNCHANGED <<h, nextId, lost, outside, asked, path, tomb, stamps>>

UninstallStep == (\E n \in Names : RevokeAccount(n)) \/ Residual
                 \/ CleanupTimerStamps \/ MarkUninstalled \/ RemoveStateDir \/ RemoveCommand

-----------------------------------------------------------------------------
(* Everybody else.                                                            *)

\* The other commands pass the gate only while the tool is not marked uninstalled.
Open == Idle /\ installed /\ ~tomb

StartCompact ==
  /\ Open /\ op' = [IdleOp EXCEPT !.pc = "sshd"]
  /\ UNCHANGED <<h, nextId, lost, faults, outside, asked, footprint, path>>
CompactRuns == CompactStep /\ UNCHANGED <<nextId, lost, outside, asked, footprint, path>>

\* An invite that finishes, on a name with nothing left of an earlier life;
\* temporary with grants, or permanent without.
Invite(n) ==
  /\ Open /\ h[n] = Nothing /\ nextId <= MaxId
  /\ \E temp \in BOOLEAN :
       h' = [h EXCEPT ![n] = [Nothing EXCEPT !.acct = nextId, !.mark = TRUE, !.row = "active",
                                             !.rid = nextId, !.sudo = temp, !.sshd = temp,
                                             !.task = temp]]
  /\ nextId' = nextId + 1 /\ lost' = lost \ {n}
  /\ UNCHANGED <<op, faults, outside, asked, footprint, path>>

\* The revokes a task can run.  A task names the generation it was made for and
\* changes nothing when the row names another; or, made by an old release, the
\* user only.  Which of the two a leftover is the model leaves open.
Becomes(n, S) == \E r \in S : h' = [h EXCEPT ![n] = r]

\* cleanupAbsentAccount, whatever the row says, for a task that gets as far.
FiresForAbsent(n, ok) == ~Live(h[n]) /\ Becomes(n, RevokeOutcome(h[n], ok))

\* revokeLegacyScheduledAccess, a task of the row's generation: passwd is not read.
FiresForLegacy(n, ok) == h[n].row = "legacy" /\ Becomes(n, SpentLast(h[n], ok))

\* authorizeRecovery: no task is confirmed by an operator.  Both grants and the task
\* are cleaned up in one errors.Join.
FiresForPending(n, ok) ==
  Live(h[n]) /\ Classify(h[n]) = "pending" /\ Becomes(n, GivenUp(h[n], ok))

\* stripGrantsAndCheckProtection: an account that is not the row's, or has no row.
\* Under a deletion row the task is cancelled (manualOnlyRecovery).
FiresForProtected(n, ok) ==
  /\ Live(h[n])
  /\ \/ Classify(h[n]) = "recoveryManual" /\ Becomes(n, GivenUp(h[n], ok))
     \/ /\ Classify(h[n]) \in {"mismatch", "legacy", "unregistered"}
        /\ Becomes(n, Protected(h[n], ok))

\* An account that may be deleted: a first expiry quarantines it or, without
\* systemd, deletes it; a quarantined one is held until its deadline.  Without a row
\* a generation marker is enough for a task that names the user.
FiresForDue(n, ok) ==
  /\ Live(h[n])
  /\ \/ Classify(h[n]) = "active" /\ Becomes(n, {[Bare(h[n]) EXCEPT !.row = "quar"]})
     \/ Classify(h[n]) = "quarantine" /\ Becomes(n, Protected(h[n], ok))
     \/ /\ CompletedIdentity(h[n]) \/ (h[n].row = "none" /\ h[n].mark)
        /\ Becomes(n, RevokeOutcome(h[n], ok))

TaskFires(n) ==
  /\ Open /\ h[n].task
  /\ \E ok \in BOOLEAN :
       /\ FineIf(ok)
       /\ \/ FiresForAbsent(n, ok) \/ FiresForLegacy(n, ok) \/ FiresForPending(n, ok)
          \/ FiresForProtected(n, ok) \/ FiresForDue(n, ok)
  /\ UNCHANGED <<nextId, lost, op, outside, asked, footprint, path>>

\* The process holding the lock is killed.
Kill ==
  /\ ~Idle /\ Fault /\ Stop
  /\ UNCHANGED <<h, nextId, lost, outside, asked, footprint, path>>

Others ==
  /\ Outside /\ Disturbed
  /\ \/ OutsideStep /\ UNCHANGED path
     \/ path' \in {"ok", "unsafe", "dir"} \ {path} /\ UNCHANGED <<h, lost>>
  /\ UNCHANGED <<nextId, faults, asked, footprint>>

-----------------------------------------------------------------------------
Init ==
  /\ h \in {g \in [Names -> UNION {Leftovers[n] : n \in Names}] :
            \A n \in Names : g[n] \in Leftovers[n]}
  /\ nextId = 2 /\ lost = {}
  /\ op = IdleOp /\ faults = 0 /\ outside = 0 /\ asked = NoPlan
  /\ installed = TRUE /\ path = "ok" /\ tomb = FALSE /\ stamps = TRUE

Next == \/ \E o \in OptionSets : Plan(o)
        \/ Proceed \/ UninstallStep \/ StartCompact \/ CompactRuns
        \/ \E n \in Names : Invite(n) \/ TaskFires(n)
        \/ Kill \/ Others

Spec == Init /\ [][Next]_vars

-----------------------------------------------------------------------------
(* Properties.                                                                *)

\* Every variable stays in its type.
TypeOK ==
  /\ h \in [Names -> Hosts] /\ nextId \in 1 .. MaxId + 1 /\ lost \subseteq Names
  /\ op \in Ops /\ asked \in Plans /\ faults \in 0 .. MaxFaults /\ outside \in 0 .. MaxOutside
  /\ installed \in BOOLEAN /\ path \in {"ok", "unsafe", "dir"}
  /\ tomb \in BOOLEAN /\ stamps \in BOOLEAN

\* However uninstall got to its last step (failed revokes, kills, retries, an
\* edited plan, a forged marker): once the command is gone no grant and no task
\* is left that only the command could remove, no stamp either, and an account
\* the tool made is there only if its row was lost before.
NothingStranded ==
  ~installed => /\ \A n \in Names : /\ ~h[n].sudo /\ ~h[n].sshd /\ ~h[n].task
                                    /\ h[n].acct > 0 => n \in lost
                /\ ~stamps

Uninstalling == op.pc \in {"revoke", "stamps", "mark", "state", "command"}

\* What uninstall deletes is the account the operator saw under that name when
\* the plan was confirmed, bound by its row; never one created since, never one
\* that only a marker, a v1 line or a leftover names.
DeletesOnlyConfirmed ==
  [][\A n \in Names :
       Uninstalling /\ Live(h[n]) /\ ~Live(h'[n]) /\ outside' = outside =>
         h[n].acct > 0 /\ h[n].acct = op.view[n].acct /\ op.view[n].row # "none"]_vars

\* The gates before the first deletion are enough: an uninstall that was allowed
\* to start ends with the command removed, unless a helper failed, the process
\* was killed, or somebody else changed the host meanwhile.  In particular a
\* stale row or v1 line never stops it half-way.
AuthorizedUninstallFinishes ==
  [][Uninstalling /\ op'.pc = "idle" /\ installed' =>
       ~op.calm \/ ~op.smooth \/ faults' # faults]_vars

\* A live account that no unattended revoke may delete, and whose task is moot.
ManualOnly(r) == Live(r) /\ Classify(r) \in {"pending", "recoveryManual"}

\* A task is given up only with the grants it would have removed: by revoke,
\* after the grants; by compact, not where one was kept, could not be removed or
\* could not be listed.  The exception is a task that fires on an account it may
\* never delete: it can cancel itself and leave a grant it failed to remove, but
\* then the row stays, with the verdict under which the next compact sweeps that
\* grant.  (Nobody else changes the accounts between the sweeps.)
GrantKeepsTaskOrRow ==
  [][\A n \in Names :
       h[n].task /\ ~h'[n].task /\ op.calm =>
         \/ ~h'[n].sudo /\ ~h'[n].sshd
         \/ Idle /\ ManualOnly(h[n]) /\ ManualOnly(h'[n])]_vars

\* A row is given up last: when revoke or compact drops it no grant and no task
\* of that name is left.
RowNamesWhatIsLeft ==
  [][\A n \in Names :
       h[n].row # "none" /\ h'[n].row = "none" /\ op.calm /\ outside' = outside
         => ~h'[n].sudo /\ ~h'[n].sshd /\ ~h'[n].task]_vars
=============================================================================
