# linux-temp-admin in TLA+

`linux-temp-admin` creates temporary administrator accounts on a Linux host and
removes them again: on request, at expiry through a scheduled task, or when the
tool is uninstalled. Its promise is about removal. No account may stay usable
without something that will end it, no grant may survive its account or pass to
the next owner of the name, and no deletion may hit an account it was not meant
for. All of this has to hold while commands are killed, helpers fail half-way, files
are renamed without being synced, and other administrators work on the host.

This directory models the parts that carry that promise, checks them with TLC
on small instances, and proves every safety and every action property that the
passing runs check, and the refinement of the account's abstract specification, with
TLAPS for every value of the constants; liveness stays with TLC. `PROJECT.json` maps each definition to the
lines it stands for and lists runs, mutants, hazards, findings and theorems.

## 1. Inventory

| Part | State it keeps | Operations | Hard behaviour |
|---|---|---|---|
| Registry (`internal/registry`) | registry file (one row per account, schema v2..v5), identity sequence file, a flock | Init, Record, BeginDeletion, BeginQuarantine, FinishDeletionRecovery, Remove, Compact, ReserveIdentity, RepairMissingIdentitySequence; readers Lookup, CheckIntegrity, InspectRegistryLoss | two files, two renames, two directory syncs; power loss between them; legacy schemas; readers without the lock |
| Lifecycle lock (`internal/lifecycle`, wrappers in `cli/cli.go`) | `/run` lock file, per-name barrier files, the uninstall marker | WithLock, account barriers (shared and exclusive, waiting or not), tombstone gate | lock order; commands queued behind uninstall; tasks of old releases that name only the user |
| invite (`cli/invite*.go`, `user/create.go`) | the transaction and its cleanups | clear reused name, reserve identity, useradd, quiesce, GECOS marker, credentials, grants, row, schedule, activate; reverse rollback | a failure or kill between any two steps |
| revoke (`cli/revoke*.go`, `user/delete.go`) | the transaction, quarantine | load, authorize, strip grants, disable, quarantine or tear down, cancel, release the row | identity checked and used at different times; retry of a partly done deletion; a task of another generation |
| Scheduler (`internal/schedule`, `internal/atqueue`) | unit files, enablement, manager state, at queue | Schedule, ScheduleQuarantine, Cancel, CancelAuto, CancelQuarantine, ScheduledUsers, ValidSchedule, ValidQuarantine | enable that fails after starting; timers without files; reused at ids; reboots |
| sshd exceptions (`internal/sshdconf`) | drop-ins, pending markers, a lock, the memory of sshd | Grant, Remove, All, Orphans | files and daemon disagree until a reload; others reload too; unsynced unlinks |
| sshd policy probe (`internal/sysinfo/sshd.go`) and login check (`cli/invite_login.go`) | the plan of one invite | plan for a predicted account, confirm on the real one, print a verdict | a probe that names no address and, at first, no account; rules it cannot evaluate; edits meanwhile |
| sudo rules (`internal/sudoers`) | drop-ins | Grant (validate, write, verify), Remove | the verdict is read off nsswitch.conf and a listing in which the last match counts |
| Quiescence (`user/processes.go`, `userjobs`) | none (the host's processes, cron and at jobs) | scan, signal, drain, scan again | processes and jobs that create each other; reused PIDs and at ids |
| uninstall, cleanup, compact, recover-sequence (`cli/`) | marker, inventory | inventory of every name-scoped artefact, revoke each, remove state, remove command | a sweep that is incomplete must keep its evidence |
| Self-management (`internal/selfmanage`, `cli/selfcmd.go`, `cli/stable_command.go`) | installed binary, staged candidate | install, upgrade, probe, download, verify | replacing the command that tasks will run |
| doctor, status, menu, audit, i18n, options, output, validation, probes | reports; the audit log | read-only, or append-only | doctor takes no lock |
| Scripts (`scripts/`), `cmd/lta-release` | release artefacts, a mirror | install.sh, publish, sign, mirror-receiver | separate programs |

How they interact: every mutating command takes the lifecycle lock, then works
through registry, account database, grants and scheduler in a fixed order. A
scheduled task is itself a revoke command that queues for the same lock with
the UID and generation it was created for. The registry row is the witness the
other artefacts hang on: it is written first and released last. There are no
threads: concurrency is between processes, and between the tool and the host
(systemd, at, sshd, other administrators, power).

What makes each part correct: numbers are never handed out twice and a
published registry stays recoverable (registry); commands exclude one another
and none acts behind an uninstall (lock); a usable account has its witnesses,
its grants are its own, it is deleted only prepared and intended, and it is
deleted in the end (account); what is cancelled stays cancelled, what is
promised fires, once (scheduler); what sshd enforces can be found and removed
(exceptions); what an invite calls verified is so (policy); nothing of a UID is
left when it is released, and nothing of others is touched (quiescence);
nothing is stranded when the tool goes, and only what was confirmed is deleted
(uninstall); tasks keep a command that can run them (self-management). The
hazards behind these are listed in `PROJECT.json`.

## 2. Modules

| Module | Models | Used by |
|---|---|---|
| `Registry` | the two files, their visible and durable versions, every store mutation step by step, the two unlocked readers | `MCRegistry`, `RegistryProofs` |
| `Account` | the state an account consists of and the helpers both transactions share | `Teardown` |
| `Teardown` | disable, persist the deletion row, userdel, reconcile | `Invite`, `Revoke` |
| `Invite` | the invite transaction and its rollback | `AccountLifecycle` |
| `Revoke` | revoke by operator, task, finalizer and uninstall; the quarantine | `AccountLifecycle` |
| `AccountLifecycle` | the composition: commands, tasks that fire, time, kills, other administrators; the properties | `MCAccountLifecycle`, `AccountProofs` |
| `Tenancy` | what all of that promises about one username: the abstract specification | `AccountLifecycle`, `AccountProofs` |
| `LifecycleLock` | flock in both modes, lock order, name-only tasks of old releases, uninstall and install | `MCLifecycleLock`, `LifecycleLockProofs` |
| `SSHDExceptions` | Grant, Remove, markers, lock, sshd's memory, durability | `MCSSHDExceptions`, `SSHDProofs` |
| `Scheduler` | unit files, manager, at queue, scheduling, fallback, rollback, cancellation, inventory | `MCScheduler`, `SchedulerProofs` |
| `SSHDPolicy` | sshd's own rules (Match, first value, lists), what a probe shows of them, the tool's conclusions, the text of the exception | `InvitePolicy` |
| `SudoPolicy` | the verdicts on nsswitch.conf and on a listing, beside what sudo does with the same input | `InvitePolicy` |
| `InvitePolicy` | plan, confirmation, exception and sudo grant of one invite, while the configuration may be edited | `MCInvitePolicy`, `SSHDProofs` |
| `Inventory` | the witnesses of one name, how the tool classifies them, and what revoke does to them | `Compact`, `Uninstall` |
| `Compact` | the three sweeps of cleanup and the compaction of rows | `Uninstall` |
| `Uninstall` | plan, confirmation, revokes, second inventory, stamps, marker, state, command; other commands and administrators beside it | `MCUninstall`, `UninstallProofs` |
| `Processes` | signal sweeps through pidfds and confirming scans over processes that fork, exit and have their PIDs reused | `Quiesce` |
| `Quiesce` | crontab, at queue, daemons, the three passes before userdel | `MCQuiesce`, `QuiesceProofs` |
| `Versions` | the order of releases: natural comparison of prerelease suffixes | `SelfManage`, `SelfManageProofs` |
| `SelfManage` | every replacement and removal of the stable command, downloads and checks included | `MCSelfManage`, `SelfManageProofs` |

**Registry.** `reg` and `seq` are the files every process sees; a rename changes
them at once, and the set of versions a power loss may leave grows until a
directory sync succeeds. `op` is the mutation holding the flock with the writes
it still has to make; each mutation is its guard and early returns, followed by
RenameSeq, SyncSeq, RenameReg, SyncReg, any of which can be the last before a
crash. Rows keep the fields that decide the lifecycle; `ValidRow` is
`lifecycleState`. Deadlines are numbers against a bounded clock.

**Account.** One username. `acct` is its passwd entry (which generation, which
GECOS marker, gate open or closed), `row` the registry row, `sudo`/`sshd` the
generation a drop-in was written for, `auto`/`quar` the tasks, `cmd` the command
that holds the lifecycle lock with its program counter and everything it has
captured so far. An operator's confirmation is typed before the lock is taken
and may be stale when it is used. Each phase of the code is an action with the
outcomes of its helpers as disjuncts; `Fault` is a helper that fails after doing
part of its work, `Crash` a killed process, `OutsideDelete` and `OutsideCreate` a change by another
administrator.

**LifecycleLock.** A process runs one command of a given role. It collects its
locks in the order of the code (barrier, then global), passes the marker gate,
acts, and releases. The at queue holds jobs of old releases, which name only the
user; invite scans for them twice.

**SSHDExceptions.** `conf` and `pend` are files, `saved` what a power loss leaves,
`mem` what the running daemon enforces. `pr` are the commands; the transaction
lock is explicit. Another administrator may break the host's configuration, mend
it, or reload the daemon.

**Scheduler.** One username, three unit name spaces (expiry, release 1,
quarantine). Per name space the disk has service, timer, enablement link and
timer stamp, and the manager has a phase (dead, waiting, running, elapsed) and
the contents it loaded. A task is a number: a service with that number runs
revoke for that generation, a timer with it elapses at that deadline. The rules
of systemd are external and stated at their definitions: reload re-reads
files, a timer that is not dead survives the loss of its file, start leaves an
elapsed timer alone (RemainAfterElapse), boot starts what is enabled and takes
the stamp into account (Persistent). `gone` and `promise` remember what calls
have reported; they are read by the properties and by the guard of Schedule,
which invite reaches only after a successful Cancel.

**Tenancy.** Who lives under a username, whether that account can be used, and
what the registry claims of it. A life goes one way: reserve, create, complete,
open, close, retire, remove, release. `AccountLifecycle` implements it under the
mapping `Tenants` (tenant is the generation in passwd, a claim the number of the
row, the phase read off its flags): TLC checks it as `ImplementsTenancy`, and
`AccountProofs` proves it.

**InvitePolicy.** A configuration is a sequence of lines, each with the Match
criterion it stands under and one directive out of those that decide a login;
names, addresses and groups are small sets, an `AllowUsers` pattern is what it
matches (`Who`, `From`). `Effective` is sshd, `Probe` is `sshd -T -C user=NAME`,
`Report` is the tool's conclusion; a scan of the files that could not be
completed is a free choice (`blind`). `at` says where in the stream the drop-in
is read, or that no Include reaches it. `exc` is the drop-in as `dropIn` renders
it: what the blockers found on the real account require. The sudo half is one
decision on two inputs, with the reference semantics of sudo beside it.

**Uninstall.** `h` holds per name what the sweeps can see: row, account, marker,
grants, task, a v1 line. `op` is the command with its plan, the confirmed view,
what is left to do and what failed; `lost` are names whose row somebody else
destroyed. Revoke is one step with the outcomes of its phases (`Inventory`),
because `AccountLifecycle` has its steps. A task that fires (`TaskFires`) ends where
the phases of revoke end: at an absent account, at a row of an old release, at a
creation intent, at an account it must not delete, or in a quarantine or deletion.
Tasks of old releases, which name only the user, are among them.

**Quiesce.** Each PID is nobody, a process of the account (live, or a zombie),
or of somebody else; a pidfd stays bound to the process it was opened for.
/proc is listed at once and read entry by entry. The at queue maps ids to
owners; ids are freed and reused. `sure` and `late` record the two premises of
the main property (section 3).

**SelfManage.** `disk` is the file at the install path and `durable` what a crash
leaves; a binary has a version it prints, a witness its bytes name, a signature
or none, a machine. A command prepares its candidate before it takes the lock,
from a mirror and GitHub that may answer anything a manifest can say.

## 3. Runs

Passing runs:

| Run | Shows | States |
|---|---|---|
| `registry` | no number twice; a published v5 registry stays covered by its sequence; deletion rows survive every rewrite; `CheckIntegrity` without the lock raises no false alarm | 3.4 M |
| `account_lifecycle` | with and without systemd: usable accounts are witnessed, grants never inherited, deletions prepared and intended, quarantine held and finalized, the row released last; the composition implements `Tenancy` | 1.3 M |
| `account_ends` | on a systemd host a temporary account that became usable is eventually gone; an operator who keeps confirming revoke removes every account, with one exception | 24 k |
| `lock_reuse` | a name-only revoke never removes a later generation; barriers and the global lock never deadlock, so every command ends | 371 k |
| `lock_gate` | no account outlives its command | 1.2 M |
| `sshd` | what sshd enforces is listed on disk; a removal that succeeded survives kills, failures and power losses; the tool never reloads an unchecked drop-in of its own; repeated cleanup ends with nothing left | 682 k |
| `scheduler` | cancelled stays cancelled over reboots and boots without systemd; the at fallback never doubles a task; a reported task stays valid and survives a boot until it fires or is cancelled; foreign at jobs are kept; repeated cleanup of listed names leaves nothing that can fire | 1.7 M |
| `uninstall` | nothing is stranded when the command goes; only confirmed accounts are deleted; an authorized uninstall finishes; a task is given up only with its grants, or under the row of an account it may not delete; a row only when nothing it names is left | 1.8 M |
| `quiesce` | when the UID is released nothing of the account is left; no signal reaches a process of somebody else | 8.2 M |
| `self_manage` | a scheduled task keeps a command that can run it; the command is never lowered; an upgrade installs what the operator's source selected; nothing comes back after an uninstall | 4.3 M |
| `invite_policy` | a login printed as verified is admitted from every address; an exception changes nothing for others, lifts no deny and cancels no address restriction the check could see; a reported sudo grant works | 3.3 M |

The violation run `account_half_promoted` is a disagreement between the code and
its own messages (quoted in `PROJECT.json`): a failure between promoting the
GECOS marker and completing the row leaves an account every later revoke
refuses.

More disagreements were met while modelling. Each can be reproduced by changing
a bound, dropping a premise or adding an invariant, and shapes a property as it is
stated; none has a run of its own.

- Registry: a sequence whose rename was never synced counts as present on a
  retry, so a v5 registry is published above a history that a power loss takes
  back (hence the premise of `PublishedCovered` that no sync was missed).
- Registry: `InspectRegistryLoss` stats the registry and then reads the sequence
  without the lock, so that on a fresh host the first invite can run in between
  and doctor reports a lost registry.
- sshd: a reload by somebody else between write and rollback of a grant leaves
  an exception in force that nothing on disk names (hence `OnlyOwnReloads`).
- sshd: `Remove` returns before `RemoveFile` when neither file is visible, so
  after two failed directory syncs it reports success with neither unlink durable,
  and a power loss brings the drop-in back, although the comment at
  `sshdconf.go:299` says "durably removes path". An attempt to prove
  `RemovedStaysRemoved` for any number of failed syncs led to it: with
  `SyncFaults = 2` TLC finds it violated by one command on one name. `RemovalSurvives`
  is what holds: it is proved for any `SyncFaults`, and TLC confirms it with two (1.6 M
  states).
- Scheduler: a quarantine finalizer scheduled over an elapsed timer of an
  interrupted attempt is never armed in this boot, although the row is committed
  and doctor finds it valid.
- Quiesce: a listed process that forks and then becomes a zombie, or has its PID
  reused, before its entry is read hides a child that was not listed, so one
  such scan can be empty; the comment at `user/processes.go:75` speaks of a
  lineage that makes revoke fail closed. `ReleasedQuiet` therefore assumes a scan
  nothing was hidden from (`sure`). It also assumes that no daemon reads a job
  during the last pass or the drain (`late`): the drain outlasts what was read
  before it, not what is read during it.
- Uninstall: a task that fires on a live account it may not delete can cancel itself
  although it could not remove a grant: for a creation intent the removals and
  `Scheduler.Cancel` share one `errors.Join` (`revoke.go:413`), and under a deletion row
  that does not match the account the schedules are cancelled whatever `grantErr`
  says (`revoke.go:493`). The tasks of legacy rows and of absent accounts wait for the
  grants, and `compact` pins the task of a grant it could not remove. The row stays in both cases, and
  its verdict makes the next `compact` sweep the grant, but nothing does so at a
  deadline. `GrantKeepsTaskOrRow` names this exception (`ManualOnly`). Under a deletion
  row the tool leaves no grant of its own (`DeletionIsPrepared`), so there it takes a
  drop-in that somebody restored.
- Uninstall: without `op.calm`, `GrantKeepsTaskOrRow` fails: another administrator
  who deletes the account, or its marker, between the grant sweeps and the task
  sweep of `compact` makes it cancel the task of a grant that stays until the
  next run.
- SelfManage: after a replacement whose directory sync failed, a retry finds
  nothing to change (`Install` of the same bytes, `ensureStableInstalled` of a
  version not greater) and does not sync again, so that a task can be scheduled
  on a command that a crash takes back. `TaskRunnable` excuses that case, because
  the first attempt told its operator that the replacement may not be durable
  (`owed`).
- InvitePolicy: `Grant` looks at its own blockers after the write and not at what
  became unverifiable meanwhile, so an edit after the last full check can make a
  "verified" invite wrong (`late`). And where the configuration has Match rules
  the probe cannot evaluate, an exception may cancel an address restriction that
  holds only under such a rule; the invite is then printed as unverified.

Deadlock is checked except in `lock_reuse`, `lock_gate`, `uninstall`, `quiesce` and
`invite_policy`, whose commands simply end.

### Bounds, and why they suffice

- Registry: two names and two numbers, so that two rows compete for a number
  and the range is exhausted; each kind of unlocked reader at once; one missed sync and one lost file, because each
  property concerns the first such event and its repair.
- Account: two lives of one name (`MaxGen = 2`) are what inheritance, stale tasks
  and stale confirmations need, temporary with every grant or permanent with none, on
  a host with or without systemd; two failures allow one in the forward path and
  one in its rollback or retry. Lifetime and quarantine are one tick: order
  matters, not duration. Liveness runs use one life.
- Lock: each run has the commands of one question (see `MCLifecycleLock`), one of
  which may be killed anywhere.
- sshd: two commands and two names for the interleaving, two faults so that a
  removal, its retry and a power loss fit in; one failed sync, since after a
  second one a removal need not hold (above).
- Scheduler: two tasks, so that a finalizer is scheduled beside an expiry task or
  over an interrupted one; one at id, which is enough for a job to be replaced
  under its own id by somebody else's (with no id free, at refuses); one change by
  others to at; two faults.

- Uninstall: one name with any of twelve leftovers known from comments and tests
  (completed, legacy, pending with and without its account, bound, quarantined but
  replaced, UID-only, mismatched, orphan, forged marker, v1 line)
  and a temporary account beside it, so that a bulk deletion has a first and a
  second; one failure or kill, one change by somebody else, one new life.
- Quiesce: two PIDs, so that a child can escape while its parent is read, with three
  births, and a PID given away once; one at id, which is how an id is reused; two
  sweeps, two scan attempts and two confirmations, the smallest numbers for which
  "again" and "in a row" mean something; one failed read. `MCSettings` has every
  kind of host the code distinguishes.
- SelfManage: three commands of any role; two prereleases whose byte order is
  not their order, an older release, a development build, and builds for another
  machine, unsigned, or mislabelled; one crash, one administrator.
- InvitePolicy: every single line of 13 settings under 5 Match criteria, every pair
  of lines of the seven settings that can disagree, two addresses, two groups,
  entries with and without an address; one edit at either end. The first value
  and the collected list are already decided by two lines. For sudo every
  source order of up to five tokens (a source, its control, a repetition, and a
  source behind them) and every listing of up to two rules; one more rule changes
  nothing that the fold over rules had not decided.

Symmetry is used in `registry`, on the two usernames, in `self_manage`, on the
commands; neither has a liveness property.

### Fairness

- `AccountLifecycle`: weak fairness of the running command (a process that is not
  killed continues) and of time; strong fairness of due tasks, because systemd
  restarts a failed unit (`Restart=on-failure`) and flock queues it among other
  commands. `OperatorPersists`, an operator who confirms again, is a premise of
  `RecoveryCompletesUnlessHalfPromoted` and part of `OperatorSpec`.
- `LifecycleLock`: weak fairness of each command; flock wakes waiters.
- `SSHDExceptions`: weak fairness of running commands and of mending the host's
  configuration, strong fairness of a removal while the name is listed, which is
  an operator or timer repeating cleanup.
- `Scheduler`: weak fairness of the running call, strong fairness of cleanup while
  the name is listed.

In all of them faults are finitely many; no property claims progress under
endless failure.

## 4. Proofs

Eight modules hold theorems; every one is stated for all values of the constants,
under the named assumptions of its component, which TLC evaluates in the runs.
Each inductive invariant was checked with TLC, on the instance of a run or a
smaller one, before it was proved.

`RegistryProofs` proves `TypeCorrect` and `IdentityNeverReusedTheorem`. The
property alone is not inductive: it says nothing of a sequence version that only
a power loss brings back, or of a number chosen but not yet written. `IdentityInv`
adds both: `FilesRemember` (every version of the sequence that may be read,
visible or after a crash, is at least every used number, or is absent under a
header that forbids allocation) and `WritesRemember` (a write in flight does not
fall below them, and a number in flight is above all of them). Assumptions:
`RegistryConstants` and `RegistryInputs`.

Its second part is about the rows and the files: `FilesInv` adds that rows of every version are
ones `ParseLine` accepts (`ValidInv`); that what the flock holder still has to
write raises the sequence, carries the deletion rows over and is covered
(`PendingInv`); and that without a missed sync at most one file is between its
rename and its sync (`SyncedInv`). From it follow `PublishedCovered`,
that every row can be turned into a deletion row (`DeletionAlwaysExpressible`)
which the sequence covers (`DeletionNeverUncovered`), that no write lowers the
sequence (`SequenceMonotone`), and that a deletion row leaves only by its own
discharge (`DeletionRowsFinal`). `CheckInv` says of the unlocked integrity check,
between its two reads, that the numbers it has read are covered by the sequence
of that moment: it read them from a published registry, and until a power loss,
which ends the check, the sequence only rises. Hence `CheckIntegrityNoFalseAlarm`.

`AccountProofs` proves every safety and action property of `account_lifecycle` for
any number of lives, failures and interventions, and that `AccountLifecycle`
implements `Tenancy`. What the properties say of the host holds because of what
the running command knows, so `AccountInv` has three parts beside the types.
`InviteInv` says what an invite has put in place at each phase, that the account
is closed until the last one, and that a gate of its rollback which is open (no
grant, no account left) tells the truth. `RevokeInv` says what a revoke has read
and that it is still so when it is used (`CaptureInv`), in which order an account
is taken apart (`TeardownInv`), and that the finalizer is armed before the row
says so (`QuarantiningInv`). `HostInv` is what holds between commands: the row
covers the account, what is quarantined is closed under its finalizer, and a
task's service does not end well with its account still usable. The lifecycle
lock makes the first two possible: while a command runs only another
administrator touches the account, and what such an administrator makes carries no number
of the tool's. A phase is proved once per outcome of its helpers. The action
properties rest on two lemmas, that only userdel and another administrator remove
an account and that only two steps release a row. Assumption:
`AccountConstants`.

`LifecycleLockProofs` proves `LockInvariant` for every set of commands, names and
kills. `LockInv` has parts: the global lock is taken last (`WantInv`); held locks
are pairwise compatible and being inside means holding the global one
(`HeldInv`), which gives that at most one command is inside; behind the gate the
marker is what the command saw (`GateInv`); accounts, marker, state and command
disappear in that order (`UninstallInv`). `IntentInv`, for `LegacyIntentHonored`,
says that a name-only revoke which would meet a later generation than its own meets
a creation intent, and why an invite may give that intent up: its Cancel emptied the
queue, its drain waited for what had left it, and its second scan found no such
revoke running. Assumption: `LockConstants`.

`SSHDProofs` proves `ExceptionTracked` and `ReloadsAreChecked` for every set of
commands and users and every number of failures. The invariant (`SSHDInv`) says
who is inside the transaction lock (`LockInv`), what a command is for and that a
grant which has loaded nothing has nothing to restore (`UserInv`), and, per program counter, what a command has
looked at and that it still holds when it is used (`KnowsInv`): a file is checked
before its reload, a marker stands before its drop-in goes, a rollback that skips
the reload has loaded nothing. `DurableInv` adds what a power loss may take back:
until a directory sync has failed, nothing; after the first failure the marker of
the drop-in concerned stands until a sync succeeds, so that a user without either file has
none after a power loss. From it follows `RemovalSurvives`.

`SchedulerProofs` proves `CancelledStaysGone`, `OneBackend`, `PromiseKept` and
`ForeignJobsKept` for every set of at ids and any number of tasks, faults and
changes by others. `SchedulerInv` says which calls come to which point and with which name
spaces still before them (`Flow`), that what was answered for is clear
(`GoneInv`), that a queued job is never the task of a timer that is or would be
armed and a schedule reaches the queue only with its timer dead and its file gone (`BackendInv`),
that a promised task is loaded and enabled and that no call in flight is about to
work on it (`PromiseInv`), how far the writes of a schedule have come
(`FilesInv`), that atrm is given only a job just read as a task of this name
(`AtInv`), and how far a cancellation without an error has come in the name
spaces and in at (`CancelInv`, `CancelAtInv`). Task numbers are fresh, which keeps
a call from being confused with an earlier one. Assumption: `SchedulerAssumption`.

`QuiesceProofs` proves `ForeignSpared`, `ForeignJobsSpared` and `ReleasedQuiet` for
every set of PIDs and at ids and every number of sweeps. In its invariant a pidfd
is on somebody else's process at most until the second look (`FdInv`), labels
belong to passes (`PassInv`), a job in a daemon's memory is known of or `late`
(`CacheInv`); a scan that has seen nothing while something lives has an entry left
to read that will give it away (`ScanInv`); and once the UID is empty, with no job
in a daemon's memory, no process (`SureInv`) and no job (`JobsInv`) returns.

`UninstallProofs` proves all properties of `uninstall` for any names, leftovers and
number of failures. The invariant (`UninstallInv`) says that an account without a
row is one whose row somebody else removed (`NamedInv`); that from the second
inventory on nothing is left, and in the end not the stamps (`EndingInv`); that the
plan an operator confirms was authorized as it stands (`AskedInv`); that a name still
to be revoked has the account the operator saw, or none of the tool's, and that a
name which is done with does not stop the second inventory (`RevokingInv`); what the
sweeps of `compact` have left of grants and tasks (`SweptInv`); and that the install
path stays as authorized while nobody else changes the host (`PathInv`). What a task
that fires may leave of a name is one formula (`FiredLeaves`); an account it may not
delete keeps account, marker and row whatever fails (`SparedName`), hence its verdict
(`StaysManual`), which is the exception in `GrantKeepsTaskOrRow`. Assumptions:
`InventoryConstants`, `UninstallConstants`, and `LeftoversNamed`, that no account a
host begins with lacks its row (others may remove it later: `lost`).

`SelfManageProofs` proves all four properties of `self_manage`. `SelfInv` says which
binary an upgrade brings to the lock, and the version selected for it (`NetInv`); that
behind the gate of an uninstalled host there is only an install or the uninstall
(`GateInv`); and that what is at the path survives a crash unless the operator was told that
it may not (`DurableInv`). `TasksInv` adds that the command found or put there is as
new as the account action about to schedule its task, and that no task is left when
the command goes. Assumption: `SelfManageConstants`.
`NeverLowered` and `TaskRunnable` compare `Rank`, the order a reader means, while the
code compares with `Greater`; that the two agree (`OrderIntended`) is a hypothesis of
these two theorems, and `MCSelfManage` an instance of it. `OrderAttainable` shows that
some rank meets it for any finitely many versions that parse, since `Greater` is a
strict total order (`GreaterOrdersVersions`): the comment above naturalCompare promises
"a deterministic total order", and `NaturalCompareTotal` proves that for suffixes of
any length. The argument: two suffixes that are the same up to a position are both cut
there in the same way, into runs of digits and single bytes (`SameGoesOn`); the tokens
at one position are totally ordered, the digits standing together in byte order
(`TokenOrder`, `DigitsTogether`), runs by number and then by bytes (`RunOrder`); and the
answer of the recursion from a position on follows from the tokens there and its answer
behind them (`ComparedStep`). That the recursive function exists, and what holds from
every position on, is again proved by the position that would break it
(`CompareExists`, `FromTheEnd`).

The second part of `SSHDProofs` is about `InvitePolicy`: `VerifiedLogsIn`,
`ExceptionConfined` and `SudoProofSound` for configurations, source orders and
listings of any length. `LoginInv` says that between the check and the write the
plan holds what the check said, unless the configuration was edited in between
(`PlanInv`); that what is written concerns the account alone, and lists users only
where a list did not name it (`WrittenInv`); and that a login is admitted from the moment it is
verified (`VerdictInv`). The lemmas beneath are about the models of sshd and sudo:
lines that do not concern a connection may stand anywhere without changing what it
gets (`SameValue`, `ExceptionSilent`); without `Match Address` a connection gets the
same from everywhere (`SameEverywhere`); a listing is proved only by a last rule for
root (`ProvedByLast`); and the reader of nsswitch.conf, token by token, knows exactly
the sources that sudo asks (`ReadInv`). The verdicts are folds over sequences; since
the library's induction theorems cannot be instantiated here, each such statement is
proved by the least position that would break it (`Least`, from `WFMin`), the
existence of the fold's values included. Assumptions: `PolicyConstants`,
`PolicyInputs` (what sshd and sudo accept as input).

The last part of `AccountProofs` shows of the abstract specification that an account
is usable only in the active life of its own claim (`OpenAlwaysOwned`);
`AccountLifecycle`, which implements it (`AccountImplementsTenancy`), inherits that.

Proved and not run, because a listed property of the same run is close to them or
they are the invariants behind one: the type invariants, `IdentityInv`, `AccountInv`, `IntentInv`,
`SchedulerInv`, `UninstallInv`, `SelfInv`, `LoginInv`, `SequenceMonotone`,
`DeletionAlwaysExpressible`, `DeletionNeverUncovered`, `BarriersHold`, `OpenGateHasCommand`,
`UninstalledStaysUninstalled`, `ForeignJobsSpared`, `NaturalCompareTotal`,
`GreaterOrdersVersions`, `OrderAttainable`.

Only model-checked: all liveness, since fairness is outside the prover
(`CommandsEnd`, `CleanupConverges`, `TasksDrain`, `ExpiryCompletes`,
`RecoveryCompletesUnlessHalfPromoted`, and `RecoveryCompletes`, which fails).

## 5. What the models leave out

- Account: reading an identity by name and calling userdel on the name are one
  step, since no interface of the system binds them closer. A crash is a killed
  process; loss of power during a task-started run is in `Scheduler` (stamps),
  not in the account modules. The fallback from systemd to at is in `Scheduler`;
  in the account modules a host has one backend for good (`systemd`). `--force
  --yes` for unregistered names, rows of releases before generations, chfn/chsh
  tolerance, and the expiry date in shadow as an additional net are left out;
  home and mail removal are part of one residue step.
- Lock: invites with generated names (which need no drain of old tasks) and
  `uninstall --force`; the drain is assumed to last longer than one polling cycle
  of the at daemon, as the code does.
- sshd exceptions: socket activation; deletion of a drop-in by hand without a
  reload; validation and the effective-policy probe are one step; a kill between
  unlink and sync is the same as a failed sync.
- Scheduler: unit files are durable when written or unlinked (`removeIfNotSymlink`
  does not sync for an absent file, the pattern described in section 3; an
  unlinked unit whose enablement is gone is not started by a boot); atd
  readiness; the at package does not change during a call; at does not reuse an
  id between the last read of a job and atrm.
- Policy: the text of configurations and of `sshd -T`, glob and name patterns, the
  traversal of Includes (its limits and loops are a scan that could not be
  completed), `AuthorizedKeysCommand`, the expansion of paths. That global lines
  after a drop-in keep their meaning behind `Match all` is taken as the comment in
  `dropIn` describes it. The tokenizing of nsswitch.conf and of a listing.
- Uninstall: its callers and the `--remove-users` gate; identities are compared
  within one name; the purge of the audit log. A task is one of systemd, which is
  still there after it fired; an at job is used up by firing, so that a revoke which fails
  leaves nothing scheduled (its messages say that such jobs "require manual handling").
  Whether a leftover task is bound to a generation or names only the user is left open.
- Quiesce: /proc is listed at one moment; the threads and user namespaces of a
  process are inside `HasUID`; at does not reuse an id between the read of its
  owner and atrm; a daemon starts what it read before the wait within it.
- SelfManage: the retries of one download are one answer; URLs; the durability of
  the marker is in `LifecycleLock`; `Rank` is the order of releases a reader
  means, independent of the code that computes it.
- Not modelled at all: account home and mail (file-system detail behind one
  step), release checking (`cmd/lta-release`, static), the audit log (no decision
  reads it), installation and release scripts (separate programs), menus, i18n,
  tables and other text. `PROJECT.json` gives the reason for each.

## 6. Plan

Done, in this order: `Registry` and its proofs; the account modules with
`Tenancy`; `LifecycleLock`, `SSHDExceptions` and `Quiesce` with their proofs;
`Scheduler`; `Inventory`, `Compact`, `Uninstall`; `Versions`, `SelfManage`;
`SSHDPolicy`, `SudoPolicy`, `InvitePolicy`; the proofs of `AccountLifecycle` and
`Scheduler`.

Then the proofs of `Uninstall`, `SelfManage`, `InvitePolicy`, of
`LegacyIntentHonored` and of the order of versions.

What could follow: an abstract specification of the scheduler's single task
object that both `Scheduler` and the account modules use; the mirror receiver
script; rotation of the audit log under crashes.
