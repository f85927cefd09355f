--------------------------- MODULE LifecycleLock ---------------------------
(***************************************************************************)
(* Which command may touch the host when (lifecycle/lock.go, the with*Lock *)
(* wrappers of cli/cli.go).                                                *)
(*                                                                         *)
(* Every mutation runs under one exclusive flock.  invite and revoke first *)
(* take a per-username barrier, exclusive for invite and shared for        *)
(* revoke.  A name-only revoke (the job older releases scheduled, or       *)
(* revoke --yes) must not outlive an invite of the same name: it tries the *)
(* barrier without waiting, and invite looks for it in /proc twice.        *)
(* uninstall leaves a tombstone that every queued command finds once it    *)
(* gets the lock.                                                          *)
(*                                                                         *)
(* A process runs one command.  An account is the generation living under  *)
(* its name, 0 for none; what invite and revoke do to it in between is     *)
(* module AccountLifecycle.                                                *)
(***************************************************************************)
EXTENDS Integers, Sequences, FiniteSets

CONSTANTS
  Names,      \* usernames
  Procs,      \* the commands that run
  Role,       \* what each of them is
  User,       \* the username it names (any, for a command without one)
  Existing,   \* the usernames with an account to begin with
  MaxKills    \* commands killed part-way

Roles == {"invite",     \* invite
          "revoke",     \* interactive or generation-bound revoke
          "job",        \* a name-only task in the at queue
          "yes",        \* revoke --user U --yes, typed by an operator
          "sweep",      \* cleanup-expired, upgrade, the language preference
          "install", "uninstall"}

ASSUME LockConstants ==
  /\ Role \in [Procs -> Roles] /\ User \in [Procs -> Names]
  /\ Existing \subseteq Names /\ MaxKills \in Nat

VARIABLES
  pc,        \* where each command is
  want,      \* the locks it has yet to take, in order
  held,      \* the locks it holds
  seen,      \* the accounts it saw, or was scheduled for, before any lock
  gen,       \* the account living under each name
  pending,   \* the names whose row is still a creation intent
  nextGen,
  tomb,      \* the uninstall marker
  state,     \* the state directory is there
  command,   \* the stable command is installed
  kills

host == <<gen, pending, nextGen, tomb, state, command>>
vars == <<pc, want, held, seen, gen, pending, nextGen, tomb, state, command, kills>>

PCs == {"start", "queued", "dequeued", "try", "lock", "gate", "act", "scan", "create", "drain",
        "rescan", "finish", "mark", "purge", "remove", "unlock", "done"}

Global == [on |-> "global", mode |-> "X"]

\* One lock file per username beside the global one.
Barrier(u, m) == [on |-> u, mode |-> m]
Locks == [on : {"global"} \cup Names, mode : {"S", "X"}]

\* Mutant: revoke nests the barrier inside the global lock.
LockOrderNested(p) ==
  IF Role[p] = "invite" THEN <<Barrier(User[p], "X"), Global>>
  ELSE IF Role[p] = "revoke" THEN <<Global, Barrier(User[p], "S")>>
  ELSE <<Global>>

\* "Account locks are always acquired before the global lock."  A name-only
\* revoke tries its barrier first, without waiting (TryShared).
LockOrder(p) ==
  IF Role[p] = "invite" THEN <<Barrier(User[p], "X"), Global>>
  ELSE IF Role[p] = "revoke" THEN <<Barrier(User[p], "S"), Global>>
  ELSE <<Global>>

NameOnly(p) == Role[p] \in {"job", "yes"}

\* A queued job waits in the at queue, has left it, or is already running the
\* binary of a release that knew no barrier.
Init ==
  /\ gen = [u \in Names |-> IF u \in Existing THEN 1 ELSE 0] /\ nextGen = 2 /\ pending = {}
  /\ seen = [p \in Procs |-> gen]
  /\ pc \in [Procs -> {"start", "queued", "dequeued", "lock"}]
  /\ \A p \in Procs : IF Role[p] = "job" THEN pc[p] # "start" ELSE pc[p] = "start"
  /\ want = [p \in Procs |-> LockOrder(p)] /\ held = [p \in Procs |-> {}]
  /\ tomb \in {"none", "unsafe"} /\ state = TRUE /\ command = TRUE /\ kills = 0

-----------------------------------------------------------------------------
(* flock.                                                                     *)

\* Nobody else holds the file, or everybody shares it.
Grantable(p, l) ==
  \A q \in Procs \ {p} : \A h \in held[q] : h.on = l.on => h.mode = "S" /\ l.mode = "S"

At(p, s) == pc[p] = s
To(p, s) == pc' = [pc EXCEPT ![p] = s]

\* The operator runs it; what a confirmation or an inventory shows is read now,
\* before any lock.
Start(p) ==
  /\ At(p, "start")
  /\ seen' = [seen EXCEPT ![p] = gen]
  /\ To(p, IF NameOnly(p) THEN "try" ELSE "lock")
  /\ UNCHANGED <<want, held, host, kills>>

\* acquire: blocks until the next lock of the order is granted.
Acquire(p) ==
  /\ At(p, "lock") /\ Grantable(p, Head(want[p]))
  /\ held' = [held EXCEPT ![p] = @ \cup {Head(want[p])}]
  /\ want' = [want EXCEPT ![p] = Tail(@)]
  /\ To(p, IF Len(want[p]) = 1 THEN "gate" ELSE "lock")
  /\ UNCHANGED <<seen, host, kills>>

\* withAccountTrySharedLock: busy means an invite of this name is under way; the
\* command ends with status 0 and has done nothing.
TryShared(p) ==
  /\ At(p, "try")
  /\ IF Grantable(p, Barrier(User[p], "S"))
     THEN held' = [held EXCEPT ![p] = {Barrier(User[p], "S")}] /\ To(p, "lock")
     ELSE To(p, "done") /\ UNCHANGED held
  /\ UNCHANGED <<want, seen, host, kills>>

\* The release functions run inside out: the global lock, then the barrier.
Release(p) ==
  /\ At(p, "unlock")
  /\ IF Global \in held[p]
     THEN held' = [held EXCEPT ![p] = @ \ {Global}] /\ UNCHANGED pc
     ELSE held' = [held EXCEPT ![p] = {}] /\ To(p, "done")
  /\ UNCHANGED <<want, seen, host, kills>>

\* withAcquiredLifecycleLock: read after the lock is held.  An unsafe marker is
\* an error, not "installed".
Gate(p) ==
  /\ At(p, "gate")
  /\ To(p, IF Role[p] \in {"install", "uninstall"} \/ tomb = "none" THEN "act" ELSE "unlock")
  /\ UNCHANGED <<want, held, seen, host, kills>>

-----------------------------------------------------------------------------
(* The at queue.                                                              *)

Dequeue(p) ==
  /\ At(p, "queued") /\ To(p, "dequeued")
  /\ UNCHANGED <<want, held, seen, host, kills>>

\* atd's shell starts the installed command; without one the job just ends.
Exec(p) ==
  /\ At(p, "dequeued") /\ To(p, IF command THEN "try" ELSE "done")
  /\ UNCHANGED <<want, held, seen, host, kills>>

\* Scheduler.Cancel: the names' jobs still in the queue are removed.
Cancelled(names) ==
  [p \in Procs |-> IF pc[p] = "queued" /\ User[p] \in names THEN "done" ELSE pc[p]]

\* Mutant: a command that waits for a lock is not recognized.
RunningLegacyRevokeBeforeLock(u) ==
  \E p \in Procs : NameOnly(p) /\ User[p] = u /\ pc[p] = "try"

\* runningLegacyRevokeProcess: some root process has the name-only argv.
RunningLegacyRevoke(u) ==
  \E p \in Procs : NameOnly(p) /\ User[p] = u /\ pc[p] \in {"try", "lock", "gate", "act", "unlock"}

-----------------------------------------------------------------------------
(* invite.                                                                    *)

\* clearReusedUsername up to Scheduler.Cancel.
InviteClear(p) ==
  /\ At(p, "act") /\ Role[p] = "invite"
  /\ IF gen[User[p]] # 0 THEN To(p, "unlock")
     ELSE pc' = [Cancelled({User[p]}) EXCEPT ![p] = "scan"]
  /\ UNCHANGED <<want, held, seen, host, kills>>

InviteScan(p) ==
  /\ At(p, "scan")
  /\ To(p, IF RunningLegacyRevoke(User[p]) THEN "unlock" ELSE "create")
  /\ UNCHANGED <<want, held, seen, host, kills>>

InviteCreate(p) ==
  /\ At(p, "create")
  /\ gen' = [gen EXCEPT ![User[p]] = nextGen] /\ nextGen' = nextGen + 1 /\ state' = TRUE
  /\ pending' = pending \cup {User[p]} /\ To(p, "drain")
  /\ UNCHANGED <<want, held, seen, tomb, command, kills>>

\* quiesceScheduledAccount waits a full polling cycle: what the daemon had taken
\* from the queue before the Cancel has started by its end.
InviteDrain(p) ==
  /\ At(p, "drain")
  /\ \A q \in Procs : At(q, "dequeued") => User[q] # User[p]
  /\ To(p, "rescan")
  /\ UNCHANGED <<want, held, seen, host, kills>>

\* The second scan, while the account is still pending; a match rolls back.
InviteRescan(p) ==
  /\ At(p, "rescan")
  /\ \/ /\ RunningLegacyRevoke(User[p]) /\ To(p, "unlock")
        /\ gen' = [gen EXCEPT ![User[p]] = 0] /\ pending' = pending \ {User[p]}
     \/ ~RunningLegacyRevoke(User[p]) /\ To(p, "finish") /\ UNCHANGED <<gen, pending>>
  /\ UNCHANGED <<want, held, seen, nextGen, tomb, state, command, kills>>

\* Record(completed), the grants, activation.
InviteFinish(p) ==
  /\ At(p, "finish") /\ To(p, "unlock")
  /\ pending' = pending \ {User[p]}
  /\ UNCHANGED <<want, held, seen, gen, nextGen, tomb, state, command, kills>>

-----------------------------------------------------------------------------
(* revoke, and the commands without a username.                               *)

\* A bound revoke acts on the generation it was issued for, a name-only one on
\* whatever the name is now, but never on a creation intent.
Intended(p) ==
  IF NameOnly(p) THEN User[p] \notin pending ELSE gen[User[p]] = seen[p][User[p]]

\* The tasks go with the account.
Revoke(p) ==
  /\ At(p, "act") /\ (NameOnly(p) \/ Role[p] = "revoke")
  /\ \/ /\ gen[User[p]] # 0 /\ Intended(p)
        /\ gen' = [gen EXCEPT ![User[p]] = 0] /\ pending' = pending \ {User[p]}
        /\ pc' = [Cancelled({User[p]}) EXCEPT ![p] = "unlock"]
     \/ To(p, "unlock") /\ UNCHANGED <<gen, pending>>
  /\ UNCHANGED <<want, held, seen, nextGen, tomb, state, command, kills>>

\* These may create the state directory again.
Sweep(p) ==
  /\ At(p, "act") /\ Role[p] = "sweep"
  /\ state' = TRUE /\ To(p, "unlock")
  /\ UNCHANGED <<want, held, seen, gen, pending, nextGen, tomb, command, kills>>

\* installLocked: the command first, the marker last; an unreadable marker or a
\* marker that cannot be removed stops it.
Install(p) ==
  /\ At(p, "act") /\ Role[p] = "install" /\ To(p, "unlock")
  /\ IF tomb = "unsafe" THEN UNCHANGED <<tomb, command>>
     ELSE command' = TRUE /\ tomb' \in {tomb, "none"}
  /\ UNCHANGED <<want, held, seen, gen, pending, nextGen, state, kills>>

\* Mutant: the confirmed inventory is used as it was.
UninstallRevokeStale(p) ==
  /\ At(p, "act") /\ Role[p] = "uninstall"
  /\ gen' = [u \in Names |-> IF seen[p][u] = gen[u] THEN 0 ELSE gen[u]]
  /\ To(p, "mark")
  /\ UNCHANGED <<want, held, seen, pending, nextGen, tomb, state, command, kills>>

\* The inventory is taken again under the lock and must be the confirmed one;
\* then every account is revoked with its tasks, and any that remains (a creation intent always
\* does) keeps the tool installed.
UninstallRevoke(p) ==
  /\ At(p, "act") /\ Role[p] = "uninstall"
  /\ \/ gen # seen[p] /\ UNCHANGED gen /\ To(p, "unlock")
     \/ /\ gen = seen[p]
        /\ \E kept \in SUBSET {u \in Names : gen[u] # 0} :
             /\ pending \subseteq kept
             /\ gen' = [u \in Names |-> IF u \in kept THEN gen[u] ELSE 0]
             /\ pc' = [Cancelled(Names \ kept) EXCEPT ![p] = IF kept = {} THEN "mark" ELSE "unlock"]
  /\ UNCHANGED <<want, held, seen, pending, nextGen, tomb, state, command, kills>>

\* MarkUninstalled, before any removable state goes.  A marker that cannot be
\* written stops the teardown.
MarkUninstalled(p) ==
  /\ At(p, "mark")
  /\ \/ tomb' = "set" /\ To(p, "purge")
     \/ UNCHANGED tomb /\ To(p, "unlock")
  /\ UNCHANGED <<want, held, seen, gen, pending, nextGen, state, command, kills>>

\* removeStateDir
UninstallPurge(p) ==
  /\ At(p, "purge")
  /\ \/ state' = FALSE /\ To(p, "remove")
     \/ UNCHANGED state /\ To(p, "unlock")
  /\ UNCHANGED <<want, held, seen, gen, pending, nextGen, tomb, command, kills>>

\* Selfmanage.Uninstall
UninstallCommand(p) ==
  /\ At(p, "remove") /\ To(p, "unlock")
  /\ command' \in {FALSE, command}
  /\ UNCHANGED <<want, held, seen, gen, pending, nextGen, tomb, state, kills>>

\* The process is killed; the kernel closes its descriptors.
Kill(p) ==
  /\ pc[p] \notin {"start", "queued", "dequeued", "done"} /\ kills < MaxKills
  /\ kills' = kills + 1
  /\ To(p, "done") /\ held' = [held EXCEPT ![p] = {}]
  /\ UNCHANGED <<want, seen, host>>

\* What a running command does next.
Step(p) ==
  \/ Acquire(p) \/ TryShared(p) \/ Release(p) \/ Gate(p) \/ Exec(p)
  \/ InviteClear(p) \/ InviteScan(p) \/ InviteCreate(p) \/ InviteDrain(p) \/ InviteRescan(p)
  \/ InviteFinish(p) \/ Revoke(p) \/ Sweep(p) \/ Install(p)
  \/ UninstallRevoke(p) \/ MarkUninstalled(p) \/ UninstallPurge(p) \/ UninstallCommand(p)

Next == \E p \in Procs : Start(p) \/ Dequeue(p) \/ Step(p) \/ Kill(p)

Spec == Init /\ [][Next]_vars

\* flock wakes a waiter when the file is free, and a command that can go on does.
FairSpec == Spec /\ \A p \in Procs : WF_vars(Step(p))

-----------------------------------------------------------------------------
(* Properties.                                                                *)

TypeOK ==
  /\ pc \in [Procs -> PCs] /\ want \in [Procs -> Seq(Locks)]
  /\ held \in [Procs -> SUBSET Locks]
  /\ gen \in [Names -> Nat] /\ pending \subseteq Names /\ seen \in [Procs -> [Names -> Nat]] /\ nextGen \in Nat \ {0}
  /\ tomb \in {"none", "set", "unsafe"} /\ state \in BOOLEAN /\ command \in BOOLEAN
  /\ kills \in 0 .. MaxKills

\* Between the global lock and its release.
Inside(p) == pc[p] \in {"gate", "act", "scan", "create", "drain", "rescan", "finish",
                        "mark", "purge", "remove"}

\* Two commands never change the host together, and no revoke of a name is
\* anywhere between its barrier and its end while an invite of it is.
BarriersHold ==
  \A p, q \in Procs : p # q =>
    /\ ~(Inside(p) /\ Inside(q))
    /\ \A u \in Names : Barrier(u, "X") \in held[p] =>
         Barrier(u, "X") \notin held[q] /\ Barrier(u, "S") \notin held[q]

\* A name-only revoke removes only the generation that was there when it was
\* scheduled or typed: an invite that reuses the name either waits for it,
\* refuses, rolls back, or makes it skip.
LegacyIntentHonored ==
  [][\A p \in Procs : NameOnly(p) /\ At(p, "act") /\ pc'[p] = "unlock" /\ gen' # gen
       => gen[User[p]] = seen[p][User[p]]]_vars

\* Once the marker is set nothing but an install brings the state directory or
\* an account back, however long a command was queued behind the uninstall.
UninstalledStaysUninstalled ==
  [][tomb = "set" /\ tomb' = "set" => (state' => state) /\ \A u \in Names : gen[u] = 0 => gen'[u] = 0]_vars

\* "Leaving a sudo grant behind while deleting the only thing that can clean it
\* up is worse than not uninstalling": while an account exists, the command and
\* its state do.
AccountsKeepTheirCommand ==
  (\E u \in Names : gen[u] # 0) => command /\ state

\* No marker, or one that was cleared, means there is a command: a crash between
\* any two steps of uninstall or install leaves the gate closed.
OpenGateHasCommand == tomb # "set" => command

\* The inductive invariant behind the three above, in parts.

\* A command that has yet to enter takes the global lock last.
WantInv ==
  \A p \in Procs : pc[p] \in {"start", "queued", "dequeued", "try", "lock"} =>
    Len(want[p]) \in {1, 2} /\ want[p][Len(want[p])] = Global

\* flock never grants conflicting locks.
Compatible ==
  \A p, q \in Procs : p # q => \A h \in held[p], k \in held[q] :
    h.on = k.on => h.mode = "S" /\ k.mode = "S"

\* Inside means holding the global lock.
HeldInv ==
  /\ Compatible
  /\ \A p \in Procs : Inside(p) => Global \in held[p]

\* Each command is at one of its own steps, and past the gate only with the
\* marker absent, unless it is exempt.
GateInv ==
  \A p \in Procs :
    /\ pc[p] \in {"scan", "create", "drain", "rescan", "finish"} => Role[p] = "invite"
    /\ pc[p] \in {"mark", "purge", "remove"} => Role[p] = "uninstall"
    /\ Inside(p) /\ pc[p] # "gate" /\ Role[p] \notin {"install", "uninstall"} => tomb = "none"

NoAccounts == \A u \in Names : gen[u] = 0

\* The order of uninstall: no accounts, the marker, the state, the command.
UninstallInv ==
  /\ \A p \in Procs : pc[p] \in {"mark", "purge", "remove"} => NoAccounts
  /\ \A p \in Procs : pc[p] \in {"purge", "remove"} => tomb = "set"
  /\ tomb = "set" => NoAccounts

LockInv ==
  /\ TypeOK /\ WantInv /\ HeldInv /\ GateInv /\ UninstallInv
  /\ OpenGateHasCommand /\ AccountsKeepTheirCommand

\* The inductive invariant behind LegacyIntentHonored.  A name-only revoke that
\* would meet another generation than its own meets a creation intent; an invite
\* that gives up the intent has emptied the queue, waited for what had left it and
\* found no such revoke running.
IntentInv ==
  \A p \in Procs : NameOnly(p) =>
    /\ pc[p] \in {"queued", "dequeued", "try", "lock", "gate", "act"}
         /\ gen[User[p]] \notin {0, seen[p][User[p]]} => User[p] \in pending
    /\ \A q \in Procs : User[q] = User[p] =>
         /\ pc[q] \in {"scan", "create", "drain", "rescan", "finish"} => pc[p] # "queued"
         /\ pc[q] \in {"rescan", "finish"} => pc[p] # "dequeued"
         /\ pc[q] = "finish" /\ pc[p] \in {"try", "lock", "gate", "act"}
              => gen[User[p]] = seen[p][User[p]]

\* Every command that started ends: no order of commands deadlocks on the two
\* kinds of lock.
CommandsEnd ==
  \A p \in Procs : pc[p] \notin {"start", "queued", "done"} ~> pc[p] = "done"

=============================================================================
