------------------------------ MODULE Scheduler ------------------------------
(***************************************************************************)
(* The automatic tasks of one account name (schedule/schedule.go,          *)
(* schedule/system.go, schedule/orphans.go).  A task is a systemd timer in *)
(* one of three name spaces (the expiry task, the one of release 1, the    *)
(* quarantine finalizer) or, where systemd does not take it, a job of at.  *)
(* A timer has two lives: its unit files, which a boot reads, and the      *)
(* state of the manager, which survives the files until it is stopped.     *)
(* One command at a time calls the scheduler (the lifecycle lock); what    *)
(* interleaves with it is the host: timers fire, at runs jobs and gives    *)
(* their ids to others, somebody reloads the manager, the machine reboots. *)
(***************************************************************************)
EXTENDS Naturals, FiniteSets, Sequences

CONSTANTS AtIds,       \* job ids of at, which it reuses
          Tasks,       \* bound on tasks scheduled
          Faults,      \* bound on failed calls, kills and reboots
          Others       \* bound on what others do to at: jobs they queue, and
                       \* installations and removals of the package

ASSUME SchedulerAssumption == {Tasks, Faults, Others} \subseteq Nat

VARIABLES
  unit,     \* per name space, on disk: unit files, enablement link, timer stamp
  mgr,      \* per name space, in the manager: state of the timer, loaded contents
  sysd,     \* this boot runs systemd
  queue,    \* the at queue
  at,       \* the at package: "none", "partial" (a tool is missing) or "full"
  rec,      \* the identifiers the registry row holds
  op,       \* the call in progress
  gone,     \* name spaces a Cancel reported clean, with nothing scheduled since
  promise,  \* tasks a Schedule reported, with no Cancel since
  left      \* what is left of the bounds

vars == <<unit, mgr, sysd, queue, at, rec, op, gone, promise, left>>
host == <<unit, mgr, sysd, queue, at>>
ghost == <<gone, promise>>

\* A task is numbered by the call that schedules it: a service with its number
\* runs revoke for that account generation, a timer with its number elapses at
\* that deadline.  0 is no file, no task.
Contents == 0..(Tasks + 1)
Legacy == Tasks + 1     \* left by an earlier release

Namespaces == {"auto", "v1", "quarantine"}
Phases == {"dead", "waiting", "running", "elapsed"}
Unloaded == [phase |-> "dead", svc |-> 0, tmr |-> 0]
NoUnit == [svc |-> 0, tmr |-> 0, link |-> FALSE, stamp |-> 0]
Free == [owner |-> "none", cmd |-> 0]
Own(j) == j.owner = "root" /\ j.cmd # 0

Idle == [pc |-> "idle", kind |-> "none", task |-> 0, rec |-> "none", ns |-> <<>>, clean |-> {},
         enabled |-> FALSE, todo |-> {}, id |-> "none", err |-> FALSE]
Pcs == {"idle", "service", "timer", "reload", "enable", "disable", "stop", "stamp",
        "rmtimer", "rmservice", "finish", "submit", "inventory", "reread", "atrm", "units",
        "commit"}

TypeOK ==
  /\ unit \in [Namespaces -> [svc : Contents, tmr : Contents, link : BOOLEAN, stamp : Contents]]
  /\ mgr \in [Namespaces -> [phase : Phases, svc : Contents, tmr : Contents]]
  /\ sysd \in BOOLEAN
  /\ queue \in [AtIds -> [owner : {"none", "root", "user"}, cmd : Contents]]
  /\ at \in {"none", "partial", "full"}
  /\ rec \in [auto : {"none", "unit"} \cup AtIds, quarantine : {"none", "unit"}]
  /\ op.pc \in Pcs /\ op.task \in Contents /\ op.todo \subseteq AtIds
  /\ op.kind \in {"none", "schedule", "scheduleQuarantine", "cancel", "cancelAuto", "cancelQuarantine"}
  /\ op.ns \in {<<>>} \cup UNION {[1..n -> Namespaces] : n \in 1..3}
  /\ gone \subseteq Namespaces \cup {"at"}
  /\ promise \in [{"auto", "quarantine", "at"} -> Contents]
  /\ left \in [tasks : 0..Tasks, faults : 0..Faults, others : 0..Others]

-----------------------------------------------------------------------------
(* systemd, and the bounds.                                                   *)

Spend(f) == left[f] > 0 /\ left' = [left EXCEPT ![f] = @ - 1]
Fine == UNCHANGED left
Fault == Spend("faults")

\* daemon-reload: fragments are read again.  A timer that waits follows its new
\* file; one whose file is gone keeps what it has as long as it is not dead; one
\* that has elapsed stays elapsed.
Reloaded == [n \in Namespaces |->
  IF unit[n].tmr # 0 THEN [mgr[n] EXCEPT !.svc = unit[n].svc, !.tmr = unit[n].tmr]
  ELSE IF mgr[n].phase = "dead" THEN Unloaded ELSE mgr[n]]

\* start: a timer that is not dead, elapsed included, is left as it is.
\* (RemainAfterElapse); a dead one takes its loaded fragment, or else its file.
Started(n) == LET m == IF mgr[n].tmr # 0 THEN mgr[n] ELSE [Unloaded EXCEPT !.svc = unit[n].svc, !.tmr = unit[n].tmr]
              IN [m EXCEPT !.phase = IF @ = "dead" THEN "waiting" ELSE @]

\* A boot starts the timers that are enabled.  Persistent=true: one whose
\* deadline passed meanwhile fires at once, unless its stamp says it has.
Booted(n) ==
  IF unit[n].link /\ unit[n].tmr # 0 /\ unit[n].svc # 0
  THEN [phase |-> IF unit[n].stamp = unit[n].tmr THEN "elapsed" ELSE "waiting",
        svc |-> unit[n].svc, tmr |-> unit[n].tmr]
  ELSE Unloaded

-----------------------------------------------------------------------------
(* Calls.                                                                     *)

At(pc) == op.pc = pc
Go(pc) == op' = [op EXCEPT !.pc = pc]
GoErr(pc) == op' = [op EXCEPT !.pc = pc, !.err = TRUE]
Cancelling == op.kind \in {"cancel", "cancelAuto", "cancelQuarantine"}
N == Head(op.ns)     \* the name space the call is working on

\* unitPrefixes, narrowed by CancelAuto and CancelQuarantine.
Prefixes(kind) == CASE kind = "cancel" -> <<"auto", "v1", "quarantine">>
                    [] kind = "cancelAuto" -> <<"auto", "v1">>
                    [] kind = "cancelQuarantine" -> <<"quarantine">>
                    [] kind = "schedule" -> <<"auto">>
                    [] kind = "scheduleQuarantine" -> <<"quarantine">>

Return == op' = Idle

\* What a cancellation answers for.  The queue of an at package that is not
\* installed is in it only when the registry row names a job of that queue.
Scope(kind, r) == {Prefixes(kind)[i] : i \in DOMAIN Prefixes(kind)}
                  \cup IF kind # "cancelQuarantine" /\ (at # "none" \/ r \in AtIds) THEN {"at"} ELSE {}

-----------------------------------------------------------------------------
(* Schedule and ScheduleQuarantine.                                           *)

\* An invite has cancelled whatever bears the name before it schedules
\* (prepareIdentity); a revoke that finds no quarantine in the row schedules the
\* finalizer over whatever is there.
StartSchedule ==
  /\ At("idle") /\ Spend("tasks")
  /\ Namespaces \subseteq gone
  /\ op' = [Idle EXCEPT !.pc = IF sysd THEN "service" ELSE "submit", !.kind = "schedule",
                        !.task = Tasks + 1 - left.tasks, !.ns = Prefixes("schedule")]
  /\ gone' = gone \ {"auto", "at"}
  /\ promise' = [promise EXCEPT !["auto"] = 0, !["at"] = 0]
  /\ rec' = [auto |-> "none", quarantine |-> "none"]
  /\ UNCHANGED host

StartScheduleQuarantine ==
  /\ At("idle") /\ sysd /\ rec.quarantine = "none" /\ Spend("tasks")
  /\ op' = [Idle EXCEPT !.pc = "service", !.kind = "scheduleQuarantine",
                        !.task = Tasks + 1 - left.tasks, !.ns = Prefixes("scheduleQuarantine")]
  /\ gone' = gone \ {"quarantine"}
  /\ promise' = [promise EXCEPT !["quarantine"] = 0]
  /\ UNCHANGED <<host, rec>>

\* scheduleSystemd failed and left nothing behind: only the expiry task has a
\* fallback.  A rollback that failed must not be followed by a second task.
Fallback == IF op.kind = "schedule" THEN Go("submit") ELSE Return
EndRollback == IF op.err THEN Return ELSE Fallback

\* WriteRootFile: written, not written, or renamed with a failed directory sync.
WriteService ==
  /\ At("service")
  /\ \/ Fine /\ Go("timer") /\ unit' = [unit EXCEPT ![N].svc = op.task]
     \/ Fault /\ Fallback /\ UNCHANGED unit
     \/ Fault /\ Go("rmservice") /\ unit' = [unit EXCEPT ![N].svc = op.task]
  /\ UNCHANGED <<mgr, sysd, queue, at, rec, ghost>>

WriteTimer ==
  /\ At("timer")
  /\ \/ Fine /\ Go("reload") /\ unit' = [unit EXCEPT ![N].tmr = op.task]
     \/ Fault /\ Go("rmservice") /\ UNCHANGED unit
     \/ Fault /\ Go("rmtimer") /\ unit' = [unit EXCEPT ![N].tmr = op.task]
  /\ UNCHANGED <<mgr, sysd, queue, at, rec, ghost>>

\* Mutant: the manager is not told of the new files.
ReloadSkipped == At("reload") /\ Fine /\ Go("enable") /\ UNCHANGED <<host, rec, ghost>>

Reload ==
  /\ At("reload")
  /\ \/ Fine /\ Go("enable") /\ mgr' = Reloaded
     \/ Fault /\ Go("rmtimer") /\ mgr' \in {mgr, Reloaded}
  /\ UNCHANGED <<unit, sysd, queue, at, rec, ghost>>

\* enable --now links, then starts; a failure may have done either or both.
Enable ==
  /\ At("enable")
  /\ \/ /\ Fine
        /\ unit' = [unit EXCEPT ![N].link = TRUE] /\ mgr' = [mgr EXCEPT ![N] = Started(N)]
        /\ op' = [op EXCEPT !.pc = "commit", !.id = "unit"]
        /\ promise' = [promise EXCEPT ![N] = op.task]
     \/ /\ Fault
        /\ op' = [op EXCEPT !.pc = "disable", !.enabled = TRUE]
        /\ \E l, s \in BOOLEAN : /\ l \/ ~s
                                 /\ unit' = [unit EXCEPT ![N].link = @ \/ l]
                                 /\ mgr' = IF s THEN [mgr EXCEPT ![N] = Started(N)] ELSE mgr
        /\ UNCHANGED promise
  /\ UNCHANGED <<sysd, queue, at, rec, gone>>

-----------------------------------------------------------------------------
(* Stopping a timer and removing its files: Cancel, and the rollback of a      *)
(* failed enable.                                                             *)

\* Mutant: the fallback is tried although the timer may run.
UnconfirmedFallsBack ==
  IF Cancelling THEN op' = [op EXCEPT !.pc = "units", !.err = TRUE, !.ns = Tail(@)] ELSE Fallback

\* The timer may still run: its files stay, as evidence, and nothing else is tried.
Unconfirmed == IF Cancelling THEN op' = [op EXCEPT !.pc = "units", !.err = TRUE, !.ns = Tail(@)] ELSE Return

Stopped(n) == [mgr EXCEPT ![n].phase = "dead"]

\* Mutant: a missing unit file is taken for a stopped timer.
DisableMissingIsStopped ==
  /\ At("disable")
  /\ \/ unit[N].tmr = 0 /\ Fine /\ Go("stamp") /\ UNCHANGED <<unit, mgr>>
     \/ unit[N].tmr # 0 /\ Fine /\ Go("stamp")
        /\ unit' = [unit EXCEPT ![N].link = FALSE] /\ mgr' = Stopped(N)
     \/ Fault /\ Unconfirmed /\ UNCHANGED <<unit, mgr>>
  /\ UNCHANGED <<sysd, queue, at, rec, ghost>>

\* disable --now: fails before it stops anything when the unit file is missing.
Disable ==
  /\ At("disable")
  /\ \/ unit[N].tmr = 0 /\ Fine /\ Go("stop") /\ UNCHANGED <<unit, mgr>>
     \/ unit[N].tmr # 0 /\ Fine /\ Go("stamp")
        /\ unit' = [unit EXCEPT ![N].link = FALSE] /\ mgr' = Stopped(N)
     \/ /\ Fault /\ Unconfirmed
        /\ unit' \in {unit, [unit EXCEPT ![N].link = FALSE]}
        /\ mgr' \in {mgr, Stopped(N)}
  /\ UNCHANGED <<sysd, queue, at, rec, ghost>>

\* stop, and is-active to confirm it.
Stop ==
  /\ At("stop")
  /\ \/ Fine /\ Go("stamp") /\ mgr' = Stopped(N)
     \/ Fault /\ Unconfirmed /\ mgr' \in {mgr, Stopped(N)}
  /\ UNCHANGED <<unit, sysd, queue, at, rec, ghost>>

RemoveStamp ==
  /\ At("stamp")
  /\ \/ Fine /\ Go("rmtimer") /\ unit' = [unit EXCEPT ![N].stamp = 0]
     \/ Fault /\ GoErr("rmtimer") /\ unit' \in {unit, [unit EXCEPT ![N].stamp = 0]}
  /\ UNCHANGED <<mgr, sysd, queue, at, rec, ghost>>

RemoveTimer ==
  /\ At("rmtimer")
  /\ \/ Fine /\ Go("rmservice") /\ unit' = [unit EXCEPT ![N].tmr = 0]
     \/ Fault /\ GoErr("rmservice") /\ unit' \in {unit, [unit EXCEPT ![N].tmr = 0]}
  /\ UNCHANGED <<mgr, sysd, queue, at, rec, ghost>>

\* Cancel goes on to the next name space, the rollback of enable to its reload;
\* the rollback of a failed write ends here.
RemoveService ==
  /\ At("rmservice")
  /\ \E failed \in BOOLEAN :
       /\ IF failed THEN Fault /\ unit' \in {unit, [unit EXCEPT ![N].svc = 0]}
                    ELSE Fine /\ unit' = [unit EXCEPT ![N].svc = 0]
       /\ CASE Cancelling -> op' = [op EXCEPT !.pc = "units", !.err = @ \/ failed, !.ns = Tail(@)]
            [] ~Cancelling /\ op.enabled -> op' = [op EXCEPT !.pc = "finish", !.err = @ \/ failed]
            [] OTHER -> IF failed THEN Return ELSE EndRollback
  /\ UNCHANGED <<mgr, sysd, queue, at, rec, ghost>>

\* The closing daemon-reload of Cancel and of the rollback.
FinishRollback ==
  /\ At("finish") /\ ~Cancelling
  /\ \/ Fine /\ mgr' = Reloaded /\ EndRollback
     \/ Fault /\ mgr' \in {mgr, Reloaded} /\ Return
  /\ UNCHANGED <<unit, sysd, queue, at, rec, ghost>>

-----------------------------------------------------------------------------
(* The at fallback.                                                           *)

\* The job is queued and named; or at failed, having no job number left or
\* perhaps after it queued the job, and every job with this exact command has to go.
ScheduleAt ==
  /\ At("submit")
  /\ \/ at # "full" /\ Fine /\ Return /\ UNCHANGED <<queue, promise>>
     \/ /\ at = "full" /\ Fine
        /\ \E id \in AtIds : /\ queue[id] = Free
                             /\ queue' = [queue EXCEPT ![id] = [owner |-> "root", cmd |-> op.task]]
                             /\ op' = [op EXCEPT !.pc = "commit", !.id = id]
                             /\ promise' = [promise EXCEPT !["at"] = op.task]
     \/ /\ at = "full" /\ (\A id \in AtIds : queue[id] # Free) /\ Fine /\ GoErr("inventory")
        /\ UNCHANGED <<queue, promise>>
     \/ /\ at = "full" /\ Fault /\ GoErr("inventory")
        /\ \/ UNCHANGED queue
           \/ \E id \in AtIds : /\ queue[id] = Free
                                /\ queue' = [queue EXCEPT ![id] = [owner |-> "root", cmd |-> op.task]]
        /\ UNCHANGED promise
  /\ UNCHANGED <<unit, mgr, sysd, at, rec, gone>>

\* Whose jobs the call removes: every known revoke of this name (Cancel), or the
\* ones with the command just submitted.
Match(j) == Own(j) /\ (Cancelling \/ j.cmd = op.task)

AfterAt(err) == IF Cancelling THEN op' = [op EXCEPT !.pc = "units", !.err = @ \/ err, !.todo = {}] ELSE Return

\* AtJobs, an inventory that is complete or an error.
AtInventory ==
  /\ At("inventory")
  /\ \/ (at = "none" \/ op.kind = "cancelQuarantine") /\ Fine /\ AfterAt(FALSE)
     \/ at = "partial" /\ op.kind # "cancelQuarantine" /\ Fine /\ AfterAt(TRUE)
     \/ /\ at = "full" /\ op.kind # "cancelQuarantine"
        /\ \/ Fine /\ op' = [op EXCEPT !.pc = "reread", !.todo = {id \in AtIds : Match(queue[id])}]
           \/ Fault /\ AfterAt(TRUE)
  /\ UNCHANGED <<host, rec, ghost>>

\* Mutant: the inventory alone authorizes atrm.
AtRereadTrusted ==
  /\ At("reread")
  /\ \/ op.todo = {} /\ Fine /\ AfterAt(FALSE)
     \/ \E id \in op.todo : Fine /\ op' = [op EXCEPT !.pc = "atrm", !.id = id]
  /\ UNCHANGED <<host, rec, ghost>>

\* removeAtJobIf reads the job again: its id may have gone to somebody else.
AtReread ==
  /\ At("reread")
  /\ \/ op.todo = {} /\ Fine /\ AfterAt(FALSE)
     \/ \E id \in op.todo :
          \/ Match(queue[id]) /\ Fine /\ op' = [op EXCEPT !.pc = "atrm", !.id = id]
          \/ ~Match(queue[id]) /\ Fine /\ op' = [op EXCEPT !.todo = @ \ {id}]
          \/ Fault /\ op' = [op EXCEPT !.todo = @ \ {id}, !.err = TRUE]
  /\ UNCHANGED <<host, rec, ghost>>

\* atrm, then a last look: gone is gone whatever atrm said.
AtRemove ==
  /\ At("atrm")
  /\ LET done == [op EXCEPT !.pc = "reread", !.todo = @ \ {op.id}, !.id = "none"]
         removed == [queue EXCEPT ![op.id] = Free]
     IN \/ Fine /\ queue' = removed /\ op' = done
        \/ Fault /\ queue' = removed /\ op' = done
        \/ Fault /\ queue' \in {queue, removed} /\ op' = [done EXCEPT !.err = TRUE]
  /\ UNCHANGED <<unit, mgr, sysd, at, rec, ghost>>

-----------------------------------------------------------------------------
(* Cancel, CancelAuto, CancelQuarantine.                                      *)

\* A recorded at job cannot be verified without at.
CancelCall(kind, r) ==
  [Idle EXCEPT !.pc = "inventory", !.kind = kind, !.rec = r, !.ns = Prefixes(kind),
               !.clean = Scope(kind, r), !.err = r \in AtIds /\ at = "none"]
Unpromise(kind) == [k \in DOMAIN promise |->
  IF (k = "quarantine" /\ kind # "cancelAuto") \/ (k # "quarantine" /\ kind # "cancelQuarantine") THEN 0 ELSE promise[k]]

\* The identifier the caller passes is what the row holds, or nothing when there
\* is no row.
StartCancel(kind, r) ==
  /\ At("idle") /\ Fine
  /\ op' = CancelCall(kind, r)
  /\ promise' = Unpromise(kind)
  /\ UNCHANGED <<host, rec, gone>>

\* One name space.  Without a manager nothing can be confirmed stopped, so any
\* evidence of a task is an error and is left in place.
Evidence(n) ==
  \/ unit[n].tmr # 0 \/ unit[n].svc # 0
  \/ op.rec = "unit" /\ n = IF op.kind = "cancelQuarantine" THEN "quarantine" ELSE "auto"

\* Mutant: without a manager the files are taken for inert.
CancelUnitUnmanaged ==
  /\ At("units") /\ op.ns # <<>> /\ Fine
  /\ IF sysd THEN Go("disable") ELSE op' = [op EXCEPT !.ns = Tail(@)]
  /\ UNCHANGED <<host, rec, ghost>>

CancelUnit ==
  /\ At("units") /\ op.ns # <<>> /\ Fine
  /\ IF sysd THEN Go("disable")
     ELSE op' = [op EXCEPT !.ns = Tail(@), !.err = @ \/ Evidence(N)]
  /\ UNCHANGED <<host, rec, ghost>>

FinishCancel ==
  /\ At("units") /\ op.ns = <<>>
  /\ Return
  /\ \/ /\ Fine
        /\ mgr' = IF sysd THEN Reloaded ELSE mgr
        /\ gone' = IF op.err THEN gone ELSE gone \cup op.clean
     \/ Fault /\ sysd /\ mgr' \in {mgr, Reloaded} /\ UNCHANGED gone
  /\ UNCHANGED <<unit, sysd, queue, at, rec, promise>>

-----------------------------------------------------------------------------
(* The caller records the identifier in the registry row.  If it cannot, it    *)
(* cancels: invite when it rolls the account back, revoke at once.            *)

RecordTask ==
  /\ At("commit")
  /\ LET column == IF op.kind = "schedule" THEN "auto" ELSE "quarantine"
         cancel == IF op.kind = "schedule" THEN "cancel" ELSE "cancelQuarantine"
     IN \/ Fine /\ Return /\ rec' = [rec EXCEPT ![column] = op.id] /\ UNCHANGED promise
        \/ Fault /\ op' = CancelCall(cancel, op.id) /\ promise' = Unpromise(cancel) /\ UNCHANGED rec
  /\ UNCHANGED <<host, gone>>

-----------------------------------------------------------------------------
(* The host.                                                                  *)

\* A timer fires and starts its service; when the service ends, the timer waits
\* for a later deadline it was given meanwhile, or has elapsed.
Fire(n) ==
  /\ mgr[n].phase = "waiting" /\ mgr[n].svc # 0
  /\ mgr' = [mgr EXCEPT ![n].phase = "running"]
  /\ unit' = [unit EXCEPT ![n].stamp = mgr[n].tmr]
  /\ UNCHANGED <<sysd, queue, at, rec, op, ghost, left>>

ServiceEnds(n) ==
  /\ mgr[n].phase = "running"
  /\ mgr' = [mgr EXCEPT ![n].phase = IF unit[n].stamp = mgr[n].tmr THEN "elapsed" ELSE "waiting"]
  /\ UNCHANGED <<unit, sysd, queue, at, rec, op, ghost, left>>

\* A package upgrade runs daemon-reload.
OutsideReload ==
  /\ sysd /\ mgr' = Reloaded
  /\ UNCHANGED <<unit, sysd, queue, at, rec, op, ghost, left>>

\* Others use at: root for something else, a user with any text, ours included.
\* The interval between the last read of a job and atrm is too short for at to
\* come round to the same id (it counts through 2^20 of them).
AtOther(id) ==
  /\ at = "full" /\ ~At("atrm") /\ queue[id] = Free /\ Spend("others")
  /\ \E j \in {[owner |-> "root", cmd |-> 0], [owner |-> "user", cmd |-> 1]} : queue' = [queue EXCEPT ![id] = j]
  /\ UNCHANGED <<unit, mgr, sysd, at, rec, op, ghost>>

AtRuns(id) ==
  /\ at = "full" /\ queue[id] # Free
  /\ queue' = [queue EXCEPT ![id] = Free]
  /\ promise' = IF Own(queue[id]) /\ queue[id].cmd = promise["at"] THEN [promise EXCEPT !["at"] = 0] ELSE promise
  /\ UNCHANGED <<unit, mgr, sysd, at, rec, op, gone, left>>

\* The package is removed, in part or whole, or installed again; the spool stays.
AtPackage ==
  /\ At("idle") /\ Spend("others")
  /\ \E a \in {"none", "partial", "full"} : a # at /\ at' = a
  /\ UNCHANGED <<unit, mgr, sysd, queue, rec, op, ghost>>

Kill == ~At("idle") /\ Fault /\ op' = Idle /\ UNCHANGED <<host, rec, ghost>>

\* The next boot may be one without systemd (a rescue system, another init).
Reboot ==
  /\ Fault /\ op' = Idle
  /\ \E s \in BOOLEAN : /\ sysd' = s
                        /\ mgr' = [n \in Namespaces |-> IF s THEN Booted(n) ELSE Unloaded]
  /\ UNCHANGED <<unit, queue, at, rec, ghost>>

-----------------------------------------------------------------------------
(* ScheduledUsers.                                                            *)

\* The name is listed: unit files, units the manager has loaded, root's at jobs.
Listed ==
  \/ \E n \in Namespaces : unit[n].tmr # 0 \/ unit[n].svc # 0
  \/ sysd /\ \E n \in Namespaces : mgr[n].phase # "dead" \/ mgr[n].tmr # 0
  \/ at # "none" /\ \E id \in AtIds : Own(queue[id])

\* What doctor takes for a live task: files of that identity and deadline,
\* enabled, active, its deadline ahead; or the recorded job, with that command.
ValidTimer(n, c) ==
  /\ unit[n].svc = c /\ unit[n].tmr = c /\ unit[n].stamp # c
  /\ sysd /\ unit[n].link /\ mgr[n].phase # "dead"
ValidAtJob(id, c) == at = "full" /\ Own(queue[id]) /\ queue[id].cmd = c

\* cleanup and uninstall cancel by name what is listed.
Cleanup == Listed /\ StartCancel("cancel", "none")

-----------------------------------------------------------------------------
\* An earlier release may have left a timer in its name space and a job of at.
Init ==
  /\ \E old \in {NoUnit, [svc |-> Legacy, tmr |-> Legacy, link |-> TRUE, stamp |-> 0]} :
       unit = [n \in Namespaces |-> IF n = "v1" THEN old ELSE NoUnit]
  /\ sysd = TRUE
  /\ mgr = [n \in Namespaces |-> Booted(n)]
  /\ at \in {"none", "full"}
  /\ \E j \in {Free, [owner |-> "root", cmd |-> Legacy]}, i \in AtIds :
       queue = [id \in AtIds |-> IF id = i THEN j ELSE Free]
  /\ rec = [auto |-> "none", quarantine |-> "none"]
  /\ op = Idle
  /\ gone = {}
  /\ promise = [k \in {"auto", "quarantine", "at"} |-> 0]
  /\ left = [tasks |-> Tasks, faults |-> Faults, others |-> Others]

Step == \/ WriteService \/ WriteTimer \/ Reload \/ Enable \/ Disable \/ Stop \/ RemoveStamp
        \/ RemoveTimer \/ RemoveService \/ FinishRollback \/ ScheduleAt \/ AtInventory
        \/ AtReread \/ AtRemove \/ CancelUnit \/ FinishCancel \/ RecordTask

Starts == \/ StartSchedule \/ StartScheduleQuarantine \/ StartCancel("cancel", "none")
          \/ StartCancel("cancel", rec.auto) \/ StartCancel("cancelAuto", rec.auto)
          \/ StartCancel("cancelQuarantine", rec.quarantine)

Next == \/ Step \/ Starts \/ Kill \/ Reboot \/ OutsideReload \/ AtPackage
        \/ \E n \in Namespaces : Fire(n) \/ ServiceEnds(n)
        \/ \E id \in AtIds : AtOther(id) \/ AtRuns(id)

Spec == Init /\ [][Next]_vars

\* A command that is not killed runs on; somebody repeats cleanup while it lists
\* the name.
FairSpec == Spec /\ WF_vars(Step) /\ SF_vars(Cleanup)

-----------------------------------------------------------------------------
(* Properties.                                                                *)

\* A task a successful Cancel answered for is gone and stays gone, over reboots,
\* reloads and boots without systemd, until the name is scheduled again: not in
\* the manager, not on disk for a later boot, not in the at queue.
CancelledStaysGone ==
  /\ \A n \in gone \cap Namespaces : mgr[n].phase = "dead" /\ unit[n].tmr = 0 /\ unit[n].svc = 0
  /\ "at" \in gone => \A id \in AtIds : ~Own(queue[id])

\* The fallback to at never makes a second task: no deletion is queued in at
\* while the timer it stands in for is running or would run after a boot.
OneBackend ==
  \A id \in AtIds : Own(queue[id]) =>
    /\ mgr["auto"].tmr # queue[id].cmd \/ mgr["auto"].phase = "dead"
    /\ Booted("auto").tmr # queue[id].cmd

\* A task Schedule or ScheduleQuarantine reported stays as reported until it
\* fires or somebody cancels it: doctor finds it valid, the manager holds the
\* contents of that call and of no earlier one, and a boot brings it back.  In
\* particular CancelAuto leaves the finalizer alone.
PromiseKept ==
  /\ \A n \in {"auto", "quarantine"} : LET c == promise[n] IN
       c # 0 /\ unit[n].stamp # c =>
         /\ Booted(n) = [phase |-> "waiting", svc |-> c, tmr |-> c]
         /\ sysd => ValidTimer(n, c) /\ mgr[n].svc = c /\ mgr[n].tmr = c
  /\ promise["at"] # 0 /\ at = "full" => \E id \in AtIds : ValidAtJob(id, promise["at"])

\* A job of at that is not a deletion task of this name leaves the queue only by
\* running: the tool never removes it, whatever id the registry or an earlier
\* inventory connected with the account.
ForeignJobsKept ==
  [][\A id \in AtIds : queue[id].owner # "none" /\ ~Own(queue[id]) /\ queue'[id] # queue[id] => AtRuns(id)]_vars

\* However a schedule or a cancellation was interrupted, repeating cleanup for
\* what ScheduledUsers lists ends with no task that can fire, on a host whose
\* schedulers answer.
Armed == \/ \E n \in Namespaces : mgr[n].phase = "waiting" \/ Booted(n).phase = "waiting"
         \/ at = "full" /\ \E id \in AtIds : Own(queue[id])
TasksDrain == <>[](sysd /\ at # "partial" => ~Armed)

=============================================================================
