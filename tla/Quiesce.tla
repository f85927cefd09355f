------------------------------ MODULE Quiesce ------------------------------
(***************************************************************************)
(* Deferred work of an account, and the passes that end in its deletion    *)
(* (userjobs/jobs.go, quiesceScheduledAccountWith and its relatives,       *)
(* deleteExpected).  A pass terminates the processes, then clears the      *)
(* crontab and the at queue.  Between the first two passes the command     *)
(* waits longer than a polling cycle of cron and atd, which may have read  *)
(* a job they have not started; a third pass runs after Home and mail are  *)
(* cleaned up, just before userdel.                                        *)
(***************************************************************************)
EXTENDS Processes

CONSTANTS
  AtIds,
  Settings   \* <<mode, tools, daemon>>: the kinds of host and call considered

ASSUME QuiesceConstants == Settings \subseteq {"drain", "immediate"} \X BOOLEAN \X BOOLEAN

VARIABLES
  mode,     \* "drain", or "immediate" for a fresh or quarantined identity
  tools,    \* crontab, at, atq and atrm are installed
  daemon,   \* cron or atd runs
  pass,     \* 1, 2: quiesce; 3: finalScheduledAccountCheck
  cron,     \* a personal crontab
  atq,      \* who owns each at job
  inv,      \* ids the inventory attributed to the UID
  cached,   \* a job that a daemon has read and not started
  late      \* a daemon read a job during this pass, or during the drain

spool == <<cron, atq>>
setting == <<mode, tools, daemon>>
vars == <<host, hid, pc, loops, todo, signalling, scan, err, faults,
          setting, pass, spool, inv, cached, late>>

Owners == {"none", "own", "foreign"}
Labels == {"begin", "signal", "match", "open", "recheck", "send", "scan", "read",
           "crontab", "crontabCheck", "atInventory", "atRemove", "atVerify",
           "passEnd", "drain", "home", "delete", "deleted", "failed"}

-----------------------------------------------------------------------------
(* The host.                                                                  *)

ProcessesRun ==
  /\ \E p \in Pids : Fork(p) \/ Exit(p) \/ Reap(p) \/ OtherStarts(p) \/ OtherExits(p)
  /\ UNCHANGED <<pc, loops, todo, cur, scan, err, faults, setting, pass, spool, inv, cached, late>>

\* A process of the account installs a crontab or queues a job.
Enqueue ==
  /\ tools /\ \E p \in Pids : proc[p] = "target"
  /\ \/ cron' = TRUE /\ UNCHANGED atq
     \/ \E id \in AtIds : atq[id] = "none" /\ atq' = [atq EXCEPT ![id] = "own"] /\ UNCHANGED cron
  /\ UNCHANGED <<host, hid, pc, loops, todo, signalling, scan, err, faults, setting, pass,
                 inv, cached, late>>

\* Somebody else queues a job under an id that is free, or that job runs.
OtherJob ==
  /\ \E id \in AtIds :
       \/ /\ atq[id] = "none" /\ foreign < MaxForeign /\ foreign' = foreign + 1
          /\ atq' = [atq EXCEPT ![id] = "foreign"]
       \/ atq[id] = "foreign" /\ atq' = [atq EXCEPT ![id] = "none"] /\ UNCHANGED foreign
  /\ UNCHANGED <<proc, births, hid, pc, loops, todo, signalling, scan, err, faults, setting, pass,
                 cron, inv, cached, late>>

\* cron or atd takes a due job.  Whatever it read before the wait is started by
\* the time the wait ends; nothing is known of what it reads later.
DaemonReads ==
  /\ daemon /\ cached = "no" /\ births < MaxBirths /\ births' = births + 1
  /\ \/ cron /\ UNCHANGED atq
     \/ \E id \in AtIds : atq[id] = "own" /\ atq' = [atq EXCEPT ![id] = "none"]
  /\ cached' = IF mode = "drain" /\ pass = 1 /\ pc # "drain" THEN "old" ELSE "new"
  /\ late' = TRUE
  /\ UNCHANGED <<proc, foreign, hid, pc, loops, todo, signalling, scan, err, faults, setting, pass,
                 cron, inv>>

DaemonStarts ==
  /\ cached # "no" /\ cached' = "no"
  /\ \/ \E p \in Pids : proc[p] = "free" /\ proc' = [proc EXCEPT ![p] = "target"]
     \/ (\A p \in Pids : proc[p] # "free") /\ UNCHANGED proc
  /\ UNCHANGED <<births, foreign, hid, pc, loops, todo, signalling, scan, err, faults, setting, pass,
                 spool, inv, late>>

-----------------------------------------------------------------------------
(* Clear.                                                                     *)

quiet == <<host, hid, loops, todo, signalling, scan, setting, pass, cached, late>>

\* crontab -r; its answer is ignored.
ClearCrontab ==
  /\ pc = "crontab" /\ Goto("crontabCheck")
  /\ \/ cron' = (cron /\ ~tools) /\ Fine
     \/ Fault /\ UNCHANGED cron
  /\ UNCHANGED <<quiet, atq, inv, err>>

\* A file under the account's name in a spool directory.
CrontabLeft == cron

\* crontab -l and the spool directories.
CrontabAbsent ==
  /\ pc = "crontabCheck" /\ Goto("atInventory")
  /\ \/ err' = (err \/ CrontabLeft) /\ Fine
     \/ Fault /\ err' = TRUE
  /\ UNCHANGED <<quiet, spool, inv>>

\* readAtJobOwner, and what the spool directory shows.
OwnedNow(id) == atq[id] = "own"
Own == {id \in AtIds : OwnedNow(id)}

\* inventoryAtJobs; without the tools only the spool is inspected.
InventoryAtJobs ==
  /\ pc = "atInventory"
  /\ \/ tools /\ Fine /\ inv' = Own /\ Goto("atRemove") /\ UNCHANGED err
     \/ ~tools /\ Fine /\ inv' = {} /\ err' = (err \/ Own # {}) /\ Goto("passEnd")
     \/ Fault /\ inv' = {} /\ err' = TRUE /\ Goto("passEnd")
  /\ UNCHANGED <<quiet, spool>>

\* removeAtJob: the owner is read again just before atrm.
RemoveAtJob(id) ==
  /\ pc = "atRemove" /\ id \in inv
  /\ \/ /\ atq' = IF OwnedNow(id) THEN [atq EXCEPT ![id] = "none"] ELSE atq
        /\ Fine /\ inv' = inv \ {id} /\ UNCHANGED <<pc, err>>
     \/ Fault /\ UNCHANGED atq /\ inv' = {} /\ err' = TRUE /\ Goto("passEnd")
  /\ UNCHANGED <<quiet, cron>>

\* The second inventory and the spool directories.
VerifyAtJobs ==
  /\ pc = "atRemove" /\ inv = {} /\ Goto("passEnd")
  /\ \/ err' = (err \/ Own # {}) /\ Fine
     \/ Fault /\ err' = TRUE
  /\ UNCHANGED <<quiet, spool, inv>>

ClearStep == ClearCrontab \/ CrontabAbsent \/ InventoryAtJobs \/ VerifyAtJobs
             \/ \E id \in AtIds : RemoveAtJob(id)

-----------------------------------------------------------------------------
(* The passes.                                                                *)

Terminates ==
  TerminateStep /\ UNCHANGED <<setting, pass, spool, inv, cached, late>>

\* stillMatches before the processes of the UID are touched.
BeginPass ==
  /\ pc = "begin" /\ Goto("signal")
  /\ sure' = FALSE
  /\ late' = (cached = "new")
  /\ UNCHANGED <<host, hid, loops, todo, signalling, seen, stable, err, faults, setting, pass,
                 spool, inv, cached>>

NextPass(n) == pass' = n /\ Goto("begin")

\* WaitForDrain: skipped only where neither a command nor a daemon is found.
WaitSkipped == ~tools /\ ~daemon

\* What follows a pass.  The errors of the pass before the wait are dropped: the
\* pass after it decides.
EndPass ==
  /\ pc = "passEnd"
  /\ IF pass = 1
     THEN \/ mode = "immediate" /\ NextPass(2) /\ UNCHANGED err
          \/ mode = "drain" /\ Goto("drain") /\ err' = FALSE /\ UNCHANGED pass
     ELSE /\ UNCHANGED <<pass, err>>
          /\ Goto(IF err THEN "failed" ELSE IF pass = 2 THEN "home" ELSE "delete")
  /\ UNCHANGED <<host, hid, loops, todo, signalling, scan, faults, setting, spool, inv, cached, late>>

\* An unreadable process table means waiting too.
WaitForDrain ==
  /\ pc = "drain" /\ NextPass(2)
  /\ \/ Fine /\ (WaitSkipped \/ cached # "old")
     \/ Fault /\ cached # "old"
  /\ UNCHANGED <<host, hid, loops, todo, signalling, scan, err, setting, spool, inv, cached, late>>

\* deleteExpected: mail and Home, then the last pass.
CleanHome ==
  /\ pc = "home" /\ NextPass(3)
  /\ UNCHANGED <<host, hid, loops, todo, signalling, scan, err, faults, setting, spool, inv, cached, late>>

\* userdel.
Delete ==
  /\ pc = "delete" /\ Goto("deleted")
  /\ UNCHANGED <<host, hid, loops, todo, signalling, scan, err, faults, setting, pass, spool, inv, cached, late>>

\* stillMatches fails, or mail, Home or userdel does.
Abort ==
  /\ pc \in {"begin", "crontab", "passEnd", "drain", "home", "delete"} /\ Fault /\ Goto("failed")
  /\ UNCHANGED <<host, hid, loops, todo, signalling, scan, err, setting, pass, spool, inv, cached, late>>

Command == Terminates \/ ClearStep \/ BeginPass \/ EndPass \/ WaitForDrain
           \/ CleanHome \/ Delete \/ Abort

-----------------------------------------------------------------------------
Init ==
  /\ proc \in [Pids -> {"free", "target"}]
  /\ births = 0 /\ foreign = 0 /\ faults = 0 /\ hid = FALSE
  /\ pc = "begin" /\ pass = 1 /\ sweep = 0 /\ attempt = 0 /\ confirm = 0
  /\ todo = {} /\ cur = NoPid /\ fd = "none"
  /\ seen = FALSE /\ stable = TRUE /\ sure = FALSE /\ err = FALSE
  /\ \E s \in Settings : mode = s[1] /\ tools = s[2] /\ daemon = s[3]
  /\ cron \in BOOLEAN /\ atq \in [AtIds -> {"none", "own"}] /\ inv = {}
  /\ cached \in (IF mode = "drain" /\ daemon THEN {"no", "old"} ELSE {"no"})
  /\ late = FALSE

Next == ProcessesRun \/ Enqueue \/ OtherJob \/ DaemonReads \/ DaemonStarts \/ Command
Spec == Init /\ [][Next]_vars

-----------------------------------------------------------------------------
(* Properties.                                                                *)

HostType ==
  /\ proc \in [Pids -> ProcStates] /\ atq \in [AtIds -> Owners] /\ cached \in {"no", "old", "new"}
PlaceType ==
  /\ pc \in Labels /\ pass \in 1 .. 3 /\ mode \in {"drain", "immediate"}
  /\ cur \in Pids \cup {NoPid} /\ fd \in {"none", "own", "foreign", "dead"}
  /\ todo \subseteq Pids /\ inv \subseteq AtIds
CountType ==
  /\ sweep \in 0 .. Sweeps /\ attempt \in 0 .. Attempts - 1 /\ confirm \in 0 .. Confirmations - 1
  /\ births \in 0 .. MaxBirths /\ foreign \in 0 .. MaxForeign /\ faults \in 0 .. MaxFaults
FlagType ==
  /\ seen \in BOOLEAN /\ stable \in BOOLEAN /\ sure \in BOOLEAN /\ hid \in BOOLEAN
  /\ err \in BOOLEAN /\ cron \in BOOLEAN /\ late \in BOOLEAN
  /\ tools \in BOOLEAN /\ daemon \in BOOLEAN

\* Every variable stays in its type, and the sweeps and scans within their limits.
TypeOK == HostType /\ PlaceType /\ CountType /\ FlagType

\* A signal sent by root never reaches a process of another account, whatever
\* PIDs are reused between listing, inspection, pidfd and signal.
ForeignSpared == \A p \in Pids : proc[p] # "shot"

\* Nothing of the account is left to run.
Quiet == /\ \A p \in Pids : ~HasUID(p)
         /\ ~cron /\ Own = {} /\ cached = "no"

\* When a pass has passed and the UID is about to be released, no process, no
\* job and no job in a daemon's memory is left: through forks, a failed first
\* pass, jobs queued by dying processes, and jobs read before the wait.  Two
\* things lie outside: a job read during the pass itself or the wait (late), and
\* a lineage that was hidden from both confirming scans (sure).
ReleasedQuiet == pc \in {"home", "delete", "deleted"} /\ ~late /\ sure => Quiet

\* A job of another account leaves the at queue only by running.
ForeignJobsSpared ==
  [][\A id \in AtIds : atq[id] = "foreign" /\ atq'[id] # "foreign" => pc' = pc /\ inv' = inv]_vars
=============================================================================
