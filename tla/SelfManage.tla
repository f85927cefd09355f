----------------------------- MODULE SelfManage -----------------------------
(***************************************************************************)
(* The stable command (selfmanage/, cli/selfcmd.go, cli/stable_command.go) *)
(* that every scheduled task runs.  install, upgrade, uninstall and the    *)
(* commands that schedule a task change it under the lifecycle lock.  An   *)
(* upgrade downloads and verifies its candidate before it takes the lock,  *)
(* from servers that may answer anything.  A replacement is a rename; it   *)
(* survives a crash for certain only when the directory was synced.        *)
(***************************************************************************)
EXTENDS Versions, FiniteSets

CONSTANTS
  Procs,       \* commands
  Versions, NoVersion,
  Parse,       \* core and suffix of each version
  Rank,        \* the intended order of the versions, independent of Greater
  Binaries, NoBinary,
  Ver,         \* what each binary prints as its version
  Witness,     \* the version its bytes name, or NoVersion
  Signed,      \* those a release signature exists for
  HostBuilds,  \* those built for this machine
  Jobs,        \* [role, self, force, custom]: what a command may be
  MaxCrashes, MaxOutside

ASSUME SelfManageConstants ==
  /\ NoBinary \notin Binaries /\ NoVersion \notin Versions
  /\ Rank \in [Versions -> Nat] /\ Ver \in [Binaries -> Versions]
  /\ DOMAIN Parse = Versions /\ Witness \in [Binaries -> Versions \cup {NoVersion}]
  /\ Signed \cup HostBuilds \subseteq Binaries
  /\ \A j \in Jobs : j.role \in {"install", "upgrade", "account", "uninstall"} /\ j.self \in Binaries
  /\ MaxCrashes \in Nat /\ MaxOutside \in Nat

VARIABLES
  job,      \* what each command is
  pc,
  sel,      \* the version the mirror's manifest selected
  cand,     \* the verified candidate: [bin, expected]
  disk,     \* what is at InstallPath
  durable,  \* what is there after a crash
  tomb,     \* the uninstall marker
  tasks,    \* versions of the commands that scheduled the tasks there are
  owed,     \* the command told its operator that a replacement may not be durable
  lowered,  \* somebody lowered or damaged the command on purpose, or ignored that
  crashes, outside

net == <<sel, cand>>
file == <<disk, durable>>
bounds == <<crashes, outside>>
vars == <<job, pc, net, file, tomb, tasks, owed, lowered, bounds>>

\* meta: "exact" is root:root 0755; "loose" is root-safe with another mode.
File(b, m) == [kind |-> "file", bin |-> b, meta |-> m]
Absent == [kind |-> "none", bin |-> NoBinary, meta |-> "exact"]
Symlink == [kind |-> "link", bin |-> NoBinary, meta |-> "exact"]
Irregular == [kind |-> "odd", bin |-> NoBinary, meta |-> "exact"]
Files == {File(b, m) : b \in Binaries, m \in {"exact", "loose", "unsafe"}} \cup {Absent, Symlink, Irregular}

Job(p) == job[p]
To(p, l) == pc' = [pc EXCEPT ![p] = l]

\* What an upgrade has prepared goes with it.
NoCandidate == [bin |-> NoBinary, expected |-> NoVersion]
Forget(p) == sel' = [sel EXCEPT ![p] = NoVersion] /\ cand' = [cand EXCEPT ![p] = NoCandidate]

-----------------------------------------------------------------------------
(* Preparing an upgrade.                                                      *)

\* downloadContextWithPolicy: how a transfer ends, retries included.  "refused" is
\* a URL, an address or a redirect that is against the policy.
Answers == {"bytes", "refused", "transport"}

\* IsTransportFailure: only that sends an official download to the other source.
Fails(p, a) ==
  IF a = "transport" /\ pc[p] \in {"start", "mirror"}
  THEN To(p, "github") /\ UNCHANGED net
  ELSE To(p, "done") /\ Forget(p)

\* FetchReleaseManifest, in prepareOfficialUpgrade.
FetchManifest(p) ==
  /\ pc[p] = "start" /\ Job(p).role = "upgrade" /\ ~Job(p).custom
  /\ \/ \E v \in Versions : sel' = [sel EXCEPT ![p] = v] /\ To(p, "mirror") /\ UNCHANGED cand
     \/ \E a \in Answers : Fails(p, a)
  /\ UNCHANGED <<job, file, tomb, tasks, owed, lowered, bounds>>

\* A URL of the operator's.
StartCustom(p) ==
  /\ pc[p] = "start" /\ Job(p).role = "upgrade" /\ Job(p).custom
  /\ To(p, "custom")
  /\ UNCHANGED <<job, net, file, tomb, tasks, owed, lowered, bounds>>

\* prepareVerifiedCandidate: the signature, the machine, and the selected version
\* where the bytes name theirs.
Verified(b, expected) ==
  /\ b \in Signed \cap HostBuilds
  /\ expected # NoVersion => Witness[b] \in {expected, NoVersion}

\* prepareReleaseUpgrade: checksums, binary and signature; complete bytes that do
\* not verify are as final as a refusal.
Prepare(p, expected) ==
  /\ \/ \E b \in Binaries :
          /\ Verified(b, expected) /\ To(p, "ready")
          /\ cand' = [cand EXCEPT ![p] = [bin |-> b, expected |-> expected]]
          /\ UNCHANGED sel
     \/ \E a \in Answers : Fails(p, a)
  /\ UNCHANGED <<job, file, tomb, tasks, owed, lowered, bounds>>

\* Mutant: GitHub's latest release in any case.
GitHubLatest(p) == NoVersion

\* The same version; the latest where no manifest could be had.
GitHubVersion(p) == sel[p]

PrepareMirror(p) == pc[p] = "mirror" /\ Prepare(p, sel[p])
PrepareGitHub(p) == pc[p] = "github" /\ Prepare(p, GitHubVersion(p))
PrepareCustom(p) == pc[p] = "custom" /\ Prepare(p, NoVersion)

-----------------------------------------------------------------------------
(* Under the lock.                                                            *)

Locked == {"apply", "clear", "schedule", "remove"}

\* The global lock is free.
Lock == \A q \in Procs : pc[q] \notin Locked

\* Mutant: the marker is looked at before the download only.
EnterEarlyGate(p) ==
  /\ pc[p] = IF Job(p).role = "upgrade" THEN "ready" ELSE "start"
  /\ Lock
  /\ IF tomb /\ Job(p).role = "account"
     THEN To(p, "done") /\ Forget(p)
     ELSE To(p, "apply") /\ UNCHANGED net
  /\ UNCHANGED <<job, file, tomb, tasks, owed, lowered, bounds>>

\* withLifecycleLock; install may enter an uninstalled host.
Enter(p) ==
  /\ pc[p] = IF Job(p).role = "upgrade" THEN "ready" ELSE "start"
  /\ Lock
  /\ IF tomb /\ Job(p).role \in {"upgrade", "account"}
     THEN To(p, "done") /\ Forget(p)
     ELSE To(p, "apply") /\ UNCHANGED net
  /\ UNCHANGED <<job, file, tomb, tasks, owed, lowered, bounds>>

\* InstalledVersion: NoVersion where nothing is installed.  A command that is not
\* root-safe is not run.
Identifiable == disk.kind = "file" /\ disk.meta # "unsafe"
InstalledVersion == IF disk.kind = "none" THEN NoVersion ELSE Ver[disk.bin]

Newer(v, w) == Greater(Parse[v], Parse[w])

\* Install: what may come of it.
Results == {"failed", "same", "synced", "unsynced"}
InstallResults(b, force) ==
  LET same == disk.kind = "file" /\ disk.bin = b
      writes == {"failed", "synced", "unsynced"}
  IN  {"failed"} \cup
      CASE same /\ disk.meta = "exact" -> {"same"}
        [] same /\ disk.meta # "exact" -> writes
        [] ~same /\ disk.kind = "none" -> writes
        [] ~same /\ disk.kind = "file" /\ force -> writes
        [] OTHER -> {}

\* WriteRootFile: a rename, then the sync of the directory.
Written(b, r) ==
  /\ disk' = IF r \in {"synced", "unsynced"} THEN File(b, "exact") ELSE disk
  /\ durable' = IF r = "synced" THEN File(b, "exact") ELSE durable

\* Mutant: a replacement that may not be durable is good enough.
SettledUnsynced == {"same", "synced", "unsynced"}

\* Install returned no error; mutationResult reports the rename that was not synced.
Settled == {"same", "synced"}

\* What the operator has been told of the file that is there.
Told(r) == owed' = CASE r = "synced" -> FALSE [] r = "unsynced" -> r \notin Settled [] OTHER -> owed

\* A deliberate replacement by something older.
Lowers(b) == disk.kind = "file" /\ Rank[Ver[b]] < Rank[Ver[disk.bin]]

\* ApplyUpgrade leaves the command as it is.
NoUpgrade(p) == To(p, "done") /\ UNCHANGED <<file, owed, lowered>>

\* Install, and what follows from its result.
Replace(b, force, r) ==
  /\ r \in InstallResults(b, force)
  /\ Written(b, r) /\ Told(r)
  /\ lowered' = (lowered \/ (r \in {"synced", "unsynced"} /\ Lowers(b)))

\* The candidate is run, compared with what was signed and selected, and written.
CommitCandidate(p, b) ==
  /\ Witness[b] \in {Ver[b], NoVersion}
  /\ cand[p].expected # NoVersion => Ver[b] = cand[p].expected
  /\ \E r \in Results : Replace(b, TRUE, r)
  /\ To(p, "done")

\* ApplyUpgrade without force: a witness, and newer than what is installed now.
UpgradeAllowed(p) ==
  \/ Job(p).force
  \/ /\ Witness[cand[p].bin] # NoVersion
     /\ \/ disk.kind = "none"
        \/ Identifiable /\ Newer(Witness[cand[p].bin], InstalledVersion)

\* upgradePreparedLocked.  A probe may fail at any time.
Upgrade(p) ==
  /\ pc[p] = "apply" /\ Job(p).role = "upgrade"
  /\ \/ UpgradeAllowed(p) /\ CommitCandidate(p, cand[p].bin)
     \/ NoUpgrade(p)
  /\ Forget(p)
  /\ UNCHANGED <<job, tomb, tasks, bounds>>

\* installLocked: the running binary, then the marker.
Install(p) ==
  /\ pc[p] = "apply" /\ Job(p).role = "install"
  /\ \E r \in Results : /\ Replace(Job(p).self, Job(p).force, r)
                        /\ To(p, IF r \in Settled THEN "clear" ELSE "done")
  /\ UNCHANGED <<job, net, tomb, tasks, bounds>>

\* ClearUninstalled.
Clear(p) ==
  /\ pc[p] = "clear" /\ tomb' \in {tomb, FALSE} /\ To(p, "done")
  /\ UNCHANGED <<job, net, file, tasks, owed, lowered, bounds>>

\* ensureStableInstalled: a command that is as new stays; an older one, or any
\* where a development build runs, is replaced by the running binary.
EnsureStable(p) ==
  /\ pc[p] = "apply" /\ Job(p).role = "account"
  /\ LET b == Job(p).self
         keep == Identifiable /\ ~DevBuild(Parse[Ver[b]]) /\ ~Newer(Ver[b], InstalledVersion)
     IN  \/ keep /\ To(p, "schedule") /\ UNCHANGED <<file, owed, lowered>>
         \/ /\ ~keep /\ (disk.kind = "none" \/ Identifiable)
            /\ \E r \in Results :
                 /\ Replace(b, disk.kind = "file", r)
                 /\ \/ r \in Settled /\ To(p, "schedule")
                    \/ To(p, "done")
         \/ NoUpgrade(p)
  /\ UNCHANGED <<job, net, tomb, tasks, bounds>>

\* The task is scheduled, or the account action fails.
Schedule(p) ==
  /\ pc[p] = "schedule" /\ To(p, "done")
  /\ tasks' \in {tasks, tasks \cup {Ver[Job(p).self]}}
  /\ UNCHANGED <<job, net, file, tomb, owed, lowered, bounds>>

\* uninstall, once no account is left: the marker first, then the command.
MarkUninstalled(p) ==
  /\ pc[p] = "apply" /\ Job(p).role = "uninstall"
  /\ \/ tomb' = TRUE /\ tasks' = {} /\ To(p, "remove")
     \/ To(p, "done") /\ UNCHANGED <<tomb, tasks>>
  /\ UNCHANGED <<job, net, file, owed, lowered, bounds>>

\* Uninstall: RemoveFile syncs after the unlink; a file that is not root-safe
\* stays unless forced.
RemoveCommand(p) ==
  /\ pc[p] = "remove" /\ To(p, "done")
  /\ \/ UNCHANGED <<file, owed>>
     \/ /\ disk.kind \in {"none", "file"} \/ Job(p).force
        /\ disk.meta = "unsafe" => Job(p).force
        /\ disk' = Absent /\ durable' \in {Absent, durable}
        /\ owed' = (durable' # Absent)
  /\ UNCHANGED <<job, net, tomb, tasks, lowered, bounds>>

-----------------------------------------------------------------------------
(* The host.                                                                  *)

\* Every command ends; an entry that was not synced may be gone or may be there.
Crash ==
  /\ crashes < MaxCrashes /\ crashes' = crashes + 1
  /\ disk' \in {disk, durable} /\ durable' = disk'
  /\ lowered' = (lowered \/ (owed /\ disk' # disk)) /\ owed' = FALSE
  /\ pc' = [p \in Procs |-> IF pc[p] = "start" THEN "start" ELSE "done"]
  /\ sel' = [p \in Procs |-> NoVersion] /\ cand' = [p \in Procs |-> NoCandidate]
  /\ UNCHANGED <<job, tomb, tasks, outside>>

\* An administrator changes the mode, or puts something else there.
Outside ==
  /\ outside < MaxOutside /\ outside' = outside + 1
  /\ \/ disk.kind = "file" /\ \E m \in {"loose", "unsafe"} : disk' = [disk EXCEPT !.meta = m]
     \/ disk' \in {Absent, Symlink, Irregular}
  /\ durable' = disk' /\ lowered' = TRUE /\ owed' = FALSE
  /\ UNCHANGED <<job, pc, net, tomb, tasks, crashes>>

Init ==
  /\ job \in [Procs -> Jobs] /\ pc = [p \in Procs |-> "start"]
  /\ sel = [p \in Procs |-> NoVersion]
  /\ cand = [p \in Procs |-> NoCandidate]
  /\ \/ disk = Absent /\ tomb \in BOOLEAN
     \/ tomb = FALSE /\ \E b \in Signed \cap HostBuilds : Witness[b] \in {Ver[b], NoVersion} /\ disk = File(b, "exact")
  /\ durable = disk /\ tasks = {} /\ owed = FALSE /\ lowered = FALSE
  /\ crashes = 0 /\ outside = 0

Step(p) ==
  \/ FetchManifest(p) \/ StartCustom(p)
  \/ PrepareMirror(p) \/ PrepareGitHub(p) \/ PrepareCustom(p)
  \/ Enter(p) \/ Upgrade(p) \/ Install(p) \/ Clear(p)
  \/ EnsureStable(p) \/ Schedule(p) \/ MarkUninstalled(p) \/ RemoveCommand(p)

Done == (\A p \in Procs : pc[p] = "done") /\ UNCHANGED vars

Next == (\E p \in Procs : Step(p)) \/ Crash \/ Outside \/ Done
Spec == Init /\ [][Next]_vars

-----------------------------------------------------------------------------
(* Properties.                                                                *)

\* Every variable stays in its type, and one command at a time is in the lock.
TypeOK ==
  /\ job \in [Procs -> Jobs]
  /\ pc \in [Procs -> {"start", "mirror", "github", "custom", "ready", "done"} \cup Locked]
  /\ sel \in [Procs -> Versions \cup {NoVersion}]
  /\ cand \in [Procs -> [bin : Binaries \cup {NoBinary}, expected : Versions \cup {NoVersion}]]
  /\ disk \in Files /\ durable \in Files /\ tasks \subseteq Versions
  /\ tomb \in BOOLEAN /\ owed \in BOOLEAN /\ lowered \in BOOLEAN
  /\ crashes \in 0 .. MaxCrashes /\ outside \in 0 .. MaxOutside
  /\ \A p, q \in Procs : pc[p] \in Locked /\ pc[q] \in Locked => p = q

\* The commands that may replace a newer command: a forced one, and an account
\* action of a development build.
MayLower(p) == Job(p).force \/ (Job(p).role = "account" /\ DevBuild(Parse[Ver[Job(p).self]]))

\* No other command leaves an older version than it found, although its candidate
\* was chosen before it had the lock and others replaced the command since.  The
\* order is the intended one, not the one the code computes.
NeverLowered ==
  [][\A p \in Procs :
       /\ pc[p] = "apply" /\ pc'[p] # "apply" /\ ~MayLower(p) /\ crashes' = crashes
       /\ disk.kind = "file" /\ disk'.kind = "file"
       => Rank[Ver[disk'.bin]] >= Rank[Ver[disk.bin]]]_vars

\* Once the mirror's manifest has named a version, the upgrade installs that
\* version or nothing, from wherever the bytes came in the end.
SelectedVersion ==
  [][\A p \in Procs :
       /\ pc[p] = "apply" /\ pc'[p] # "apply" /\ Job(p).role = "upgrade" /\ crashes' = crashes
       /\ sel[p] # NoVersion /\ disk' # disk
       => Ver[disk'.bin] = sel[p]]_vars

\* An upgrade or an account action that began before an uninstall never brings the
\* command back after it.
UninstallFinal ==
  [][/\ tomb /\ disk.kind = "none" /\ crashes' = crashes /\ outside' = outside
     => disk'.kind = "none" \/ \E p \in Procs : pc[p] = "apply" /\ Job(p).role = "install"]_vars

\* "makes sure the binary at InstallPath can actually carry out the auto-revoke":
\* every task finds a safe command at least as new as the one that scheduled it,
\* after a crash too, unless the command was lowered on purpose or a warning
\* about durability was left at that.
TaskRunnable ==
  ~lowered => \A v \in tasks : Identifiable /\ Rank[Ver[disk.bin]] >= Rank[v]
=============================================================================
