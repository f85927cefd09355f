--------------------------- MODULE SSHDExceptions ---------------------------
(***************************************************************************)
(* Per-account sshd exceptions (sshdconf/sshdconf.go).  An exception is a  *)
(* drop-in file, and it is in force while the running sshd has it in       *)
(* memory, which is not the same thing: sshd reads the directory when it   *)
(* is asked to reload.  Grant writes the file, has sshd check it and       *)
(* reloads; removal leaves a durable marker before it unlinks the file and *)
(* clears the marker only after a reload, so that whatever the daemon may  *)
(* still hold has something on disk that names it.                         *)
(***************************************************************************)
EXTENDS Naturals, FiniteSets

CONSTANTS Procs,          \* commands that use the manager
          Users,          \* account names
          NoProc,         \* nobody holds the transaction lock
          Grants,         \* bound on grants started
          Faults,         \* bound on failed calls, kills and power losses
          SyncFaults,     \* bound on unlinks and renames whose directory sync fails
          OutsideEdits,   \* bound on edits that break the host's own configuration
          OutsideReloads  \* bound on reloads asked for by somebody else

ASSUME SSHDAssumption ==
  /\ NoProc \notin Procs
  /\ {Grants, Faults, SyncFaults, OutsideEdits, OutsideReloads} \subseteq Nat

VARIABLES
  conf,     \* the drop-in of each user: absent, or what sshd makes of it
  pend,     \* users with a .remove-pending marker
  saved,    \* what a power loss cannot take back: [conf, pend] after the last sync
  mem,      \* users whose exception the running sshd enforces
  host,     \* the rest of the host's configuration is valid
  lock,     \* /run/...-sshd.lock
  pr,       \* the commands
  removed,  \* users whose last Remove succeeded, with no drop-in written since
  left      \* what is left of the bounds

vars == <<conf, pend, saved, mem, host, lock, pr, removed, left>>
disk == <<conf, pend, saved>>

\* A drop-in sshd rejects (a directive it does not know), accepts without effect
\* (no Include, an earlier Match), or accepts with the intended effect.
Contents == {"bad", "inert", "good"}

Idle == [pc |-> "idle", op |-> "none", user |-> "none", pre |-> FALSE, inherited |-> FALSE,
         restore |-> FALSE]
Pcs == {"idle", "lock", "check", "write", "verify", "reload", "stage", "unlink",
        "validate", "notify", "clear"}

TypeOK ==
  /\ conf \in [Users -> Contents \cup {"none"}]
  /\ pend \in SUBSET Users
  /\ saved \in [conf : [Users -> Contents \cup {"none"}], pend : SUBSET Users]
  /\ mem \in SUBSET Users
  /\ host \in BOOLEAN
  /\ lock \in Procs \cup {NoProc}
  /\ pr \in [Procs -> [pc : Pcs, op : {"none", "grant", "remove"}, user : Users \cup {"none"},
                       pre : BOOLEAN, inherited : BOOLEAN, restore : BOOLEAN]]
  /\ removed \in SUBSET Users
  /\ left \in [grants : 0..Grants, faults : 0..Faults, syncs : 0..SyncFaults,
               edits : 0..OutsideEdits, reloads : 0..OutsideReloads]

-----------------------------------------------------------------------------
(* The file system, sshd and the bounds.                                      *)

Fine == UNCHANGED left
Spend(f) == left[f] > 0 /\ left' = [left EXCEPT ![f] = @ - 1]
Fault == Spend("faults")

\* fsutil syncs the directory after the rename or the unlink: every earlier
\* change in it is saved too.
Synced == saved' = [conf |-> conf', pend |-> pend']

\* The call changed the directory and its sync failed (DurabilityError).
Unsynced == UNCHANGED saved /\ Spend("syncs")

\* sshd -t reads the whole configuration.
Valid == host /\ \A u \in Users : conf[u] # "bad"

\* The exceptions sshd takes from disk; it does not survive an invalid one.
OnDisk(c, h) == IF h /\ \A u \in Users : c[u] # "bad" THEN {u \in Users : c[u] = "good"} ELSE {}
Adopted == OnDisk(conf, host)

-----------------------------------------------------------------------------
(* Commands.                                                                  *)

At(p, pc) == pr[p].pc = pc
Goto(p, pc) == pr' = [pr EXCEPT ![p].pc = pc] /\ UNCHANGED <<lock, removed>>
U(p) == pr[p].user

\* The call returns and withLock unlocks.
Return(p) == pr' = [pr EXCEPT ![p] = Idle] /\ lock' = NoProc /\ UNCHANGED removed
ReturnOK(p) ==
  /\ pr' = [pr EXCEPT ![p] = Idle] /\ lock' = NoProc
  /\ removed' = IF pr[p].op = "remove" THEN removed \cup {U(p)} ELSE removed

StartGrant(p, u) ==
  /\ At(p, "idle") /\ Spend("grants")
  /\ pr' = [pr EXCEPT ![p] = [Idle EXCEPT !.pc = "lock", !.op = "grant", !.user = u]]
  /\ UNCHANGED <<disk, mem, host, lock, removed>>

StartRemove(p, u) ==
  /\ At(p, "idle") /\ Fine
  /\ pr' = [pr EXCEPT ![p] = [Idle EXCEPT !.pc = "lock", !.op = "remove", !.user = u]]
  /\ UNCHANGED <<disk, mem, host, lock, removed>>

\* Mutant: commands do not exclude one another.
WithLockIgnored(p) ==
  /\ At(p, "lock") /\ Fine
  /\ pr' = [pr EXCEPT ![p].pc = IF pr[p].op = "grant" THEN "check" ELSE "stage"]
  /\ UNCHANGED <<disk, mem, host, lock, removed>>

WithLock(p) ==
  /\ At(p, "lock") /\ lock = NoProc /\ Fine
  /\ lock' = p
  /\ pr' = [pr EXCEPT ![p].pc = IF pr[p].op = "grant" THEN "check" ELSE "stage"]
  /\ UNCHANGED <<disk, mem, host, removed>>

-----------------------------------------------------------------------------
(* Grant.                                                                     *)

\* The host's configuration must be valid before the tool adds to it.
GrantCheck(p) ==
  /\ At(p, "check")
  /\ \/ Valid /\ Fine /\ UNCHANGED lock /\ UNCHANGED removed
        /\ pr' = [pr EXCEPT ![p].pc = "write", ![p].pre = conf[U(p)] # "none"]
     \/ ~Valid /\ Fine /\ Return(p)
     \/ Fault /\ Return(p)
  /\ UNCHANGED <<disk, mem, host>>

Rollback(p, restore) ==
  /\ pr' = [pr EXCEPT ![p].pc = "stage", ![p].restore = restore]
  /\ UNCHANGED lock

\* WriteRootFile: replaced and synced, replaced and not synced, or not replaced.
GrantWrite(p) ==
  /\ At(p, "write")
  /\ \/ /\ \E c \in Contents : conf' = [conf EXCEPT ![U(p)] = c]
        /\ UNCHANGED pend
        /\ removed' = removed \ {U(p)}
        /\ \/ Synced /\ Fine /\ pr' = [pr EXCEPT ![p].pc = "verify"] /\ UNCHANGED lock
           \/ Unsynced /\ Rollback(p, FALSE)
     \/ Fault /\ Return(p) /\ UNCHANGED disk
  /\ UNCHANGED <<mem, host>>

\* sshd -t and sshd -T -C user=: the file is accepted and has its effect.
GrantVerify(p) ==
  /\ At(p, "verify")
  /\ \/ Valid /\ conf[U(p)] = "good" /\ Fine /\ Goto(p, "reload")
     \/ ~(Valid /\ conf[U(p)] = "good") /\ Fine /\ Rollback(p, FALSE) /\ UNCHANGED removed
     \/ Fault /\ Rollback(p, FALSE) /\ UNCHANGED removed
  /\ UNCHANGED <<disk, mem, host>>

\* Reloaded; no daemon was found, and the file stays for the next one; or an
\* error after which sshd may have reloaded or not.
GrantReload(p) ==
  /\ At(p, "reload")
  /\ \/ mem' = Adopted /\ Fine /\ ReturnOK(p)
     \/ UNCHANGED mem /\ Fault /\ ReturnOK(p)
     \/ mem' \in {mem, Adopted} /\ Fault /\ Rollback(p, TRUE) /\ UNCHANGED removed
  /\ UNCHANGED <<disk, host>>

-----------------------------------------------------------------------------
(* Removal: Remove, and the rollback of Grant.                                *)

\* stageRemovalLocked, up to the durable marker.
StageRemoval(p) ==
  /\ At(p, "stage")
  /\ LET u == U(p)
         next(pc) == /\ pr' = [pr EXCEPT ![p].pc = pc, ![p].inherited = u \in pend]
                     /\ UNCHANGED <<lock, removed>>
     IN  IF conf[u] = "none" /\ u \notin pend
         THEN /\ Fine /\ UNCHANGED disk
              /\ IF pr[p].op = "remove" THEN ReturnOK(p) ELSE Return(p)
         ELSE IF conf[u] = "none" THEN next("validate") /\ Fine /\ UNCHANGED disk
         ELSE IF u \in pend THEN next("unlink") /\ Fine /\ UNCHANGED disk
         ELSE \/ pend' = pend \cup {u} /\ UNCHANGED conf /\ Synced /\ Fine /\ next("unlink")
              \/ pend' = pend \cup {u} /\ UNCHANGED conf /\ Unsynced /\ Return(p)
              \/ Fault /\ Return(p) /\ UNCHANGED disk
  /\ UNCHANGED <<mem, host>>

\* Mutant: a replaced file is taken for one the daemon has never seen.
NeedsReloadIfRestored(c) == c.op = "remove" \/ c.restore \/ c.inherited

\* A file this very call created is not in the daemon's memory before its first
\* reload; everything else needs one.
NeedsReload(c) == c.op = "remove" \/ c.restore \/ c.inherited \/ c.pre

\* The unlink, synced by RemoveFile and once more by syncParent.
UnlinkDropIn(p) ==
  /\ At(p, "unlink")
  /\ LET gone == conf' = [conf EXCEPT ![U(p)] = "none"] /\ UNCHANGED pend
     IN  \/ gone /\ Synced /\ Fine /\ Goto(p, IF NeedsReload(pr[p]) THEN "validate" ELSE "clear")
         \/ gone /\ Synced /\ Fault /\ Return(p)
         \/ gone /\ Unsynced /\ Return(p)
         \/ Fault /\ Return(p) /\ UNCHANGED disk
  /\ UNCHANGED <<mem, host>>

\* finishRemovalLocked: no reload of a configuration sshd would not survive.
FinishValidate(p) ==
  /\ At(p, "validate")
  /\ \/ Valid /\ Fine /\ Goto(p, "notify")
     \/ ~Valid /\ Fine /\ Return(p)
     \/ Fault /\ Return(p)
  /\ UNCHANGED <<disk, mem, host>>

\* Mutant: finding no daemon is as good as a reload.
FinishReloadLenient(p) ==
  /\ At(p, "notify")
  /\ \/ mem' = Adopted /\ Fine /\ Goto(p, "clear")
     \/ UNCHANGED mem /\ Fault /\ Goto(p, "clear")
  /\ UNCHANGED <<disk, host>>

\* Only a confirmed reload lets the marker go.
FinishReload(p) ==
  /\ At(p, "notify")
  /\ \/ mem' = Adopted /\ Fine /\ Goto(p, "clear")
     \/ mem' \in {mem, Adopted} /\ Fault /\ Return(p)
  /\ UNCHANGED <<disk, host>>

ClearPending(p) ==
  /\ At(p, "clear")
  /\ LET gone == pend' = pend \ {U(p)} /\ UNCHANGED conf
     IN  \/ gone /\ Synced /\ Fine /\ IF pr[p].op = "remove" THEN ReturnOK(p) ELSE Return(p)
         \/ gone /\ Unsynced /\ Return(p)
         \/ Fault /\ Return(p) /\ UNCHANGED disk
  /\ UNCHANGED <<mem, host>>

-----------------------------------------------------------------------------
(* The environment.                                                           *)

\* A command is killed; the kernel drops its lock.
Kill(p) ==
  /\ ~At(p, "idle") /\ Fault
  /\ pr' = [pr EXCEPT ![p] = Idle]
  /\ lock' = IF lock = p THEN NoProc ELSE lock
  /\ UNCHANGED <<disk, mem, host, removed>>

\* Of every change not yet synced, a power loss keeps or drops each; sshd then
\* starts from what is on disk.
PowerLoss ==
  /\ Fault
  /\ conf' \in {c \in [Users -> Contents \cup {"none"}] :
                  \A u \in Users : c[u] \in {conf[u], saved.conf[u]}}
  /\ pend' \in {s \in SUBSET Users : /\ pend \cap saved.pend \subseteq s
                                     /\ s \subseteq pend \cup saved.pend}
  /\ Synced
  /\ mem' = OnDisk(conf', host)
  /\ pr' = [p \in Procs |-> Idle] /\ lock' = NoProc
  /\ UNCHANGED <<host, removed>>

\* Another administrator breaks, and later mends, the host's own configuration.
OutsideBreak == host /\ Spend("edits") /\ host' = FALSE /\ UNCHANGED <<disk, mem, lock, pr, removed>>
OutsideMend == ~host /\ Fine /\ host' = TRUE /\ UNCHANGED <<disk, mem, lock, pr, removed>>

\* Somebody else has sshd reload (a package upgrade, another administrator).
OutsideReload == Spend("reloads") /\ mem' = Adopted /\ UNCHANGED <<disk, host, lock, pr, removed>>

Step(p) ==
  \/ WithLock(p) \/ GrantCheck(p) \/ GrantWrite(p) \/ GrantVerify(p) \/ GrantReload(p)
  \/ StageRemoval(p) \/ UnlinkDropIn(p) \/ FinishValidate(p) \/ FinishReload(p) \/ ClearPending(p)

\* Mutant: a removal whose reload is still due is not listed.
ListedFilesOnly == {u \in Users : conf[u] # "none"}

\* All: what cleanup, doctor and uninstall can find.
Listed == {u \in Users : conf[u] # "none"} \cup pend

Init ==
  /\ conf = [u \in Users |-> "none"] /\ pend = {}
  /\ saved = [conf |-> conf, pend |-> pend]
  /\ mem = {} /\ host = TRUE
  /\ lock = NoProc /\ pr = [p \in Procs |-> Idle]
  /\ removed = {}
  /\ left = [grants |-> Grants, faults |-> Faults, syncs |-> SyncFaults,
             edits |-> OutsideEdits, reloads |-> OutsideReloads]

Next ==
  \/ \E p \in Procs : Step(p) \/ Kill(p) \/ \E u \in Users : StartGrant(p, u) \/ StartRemove(p, u)
  \/ PowerLoss \/ OutsideBreak \/ OutsideMend \/ OutsideReload

Spec == Init /\ [][Next]_vars

\* Every call returns (each probe has a timeout), the administrator mends what he
\* broke, and cleanup is run again for every name it finds.
FairSpec ==
  /\ Spec
  /\ \A p \in Procs : WF_vars(Step(p))
  /\ WF_vars(OutsideMend)
  /\ \A u \in Users : SF_vars(u \in Listed /\ \E p \in Procs : StartRemove(p, u))

-----------------------------------------------------------------------------
(* Properties.                                                                *)

\* Nothing but this program has asked sshd to reload.
OnlyOwnReloads == left.reloads = OutsideReloads

\* Whatever exception the running sshd may enforce has a drop-in or a pending
\* marker on disk, so that cleanup, doctor and uninstall find it, through every
\* kill, failed sync and power loss, as long as nobody else reloads sshd.
ExceptionTracked == OnlyOwnReloads => mem \subseteq Listed

\* Once Remove has reported success, no drop-in of the user is on disk and, as
\* long as nobody else reloads sshd, it does not enforce one, until a new grant
\* writes one (stageRemovalLocked "durably removes path", sshdconf.go:299).
RemovedStaysRemoved ==
  \A u \in removed : conf[u] = "none" /\ (OnlyOwnReloads => u \notin mem)

\* So it is through every kill, failed call and power loss, as long as no more
\* than one directory sync has failed.
OneFailedSync == left.syncs + 1 >= SyncFaults
RemovalSurvives == OneFailedSync => RemovedStaysRemoved

\* sshd is asked to reload only when every drop-in has been checked: one command
\* never pushes another's unchecked file live, nor one that a kill left behind.
ReloadsAreChecked ==
  \A p \in Procs : At(p, "reload") \/ At(p, "notify") => \A u \in Users : conf[u] # "bad"

\* Whoever runs cleanup until nothing is listed ends with no drop-in and no
\* marker anywhere, and no exception that this program's reloads put in force.
CleanupConverges ==
  \A u \in Users : <>[](conf[u] = "none" /\ u \notin pend /\ (OnlyOwnReloads => u \notin mem))

=============================================================================
