--------------------------- MODULE QuiesceProofs ---------------------------
(***************************************************************************)
(* Proofs about Quiesce, for every set of PIDs, at ids and bounds.         *)
(*                                                                         *)
(* The two safety properties need the same kind of strengthening: what a   *)
(* step learned stays true although the host moves on.  A pidfd that was   *)
(* opened on somebody else's process is never the one that is signalled    *)
(* (FdInv); as long as a scan is stable, has seen nothing and had nothing  *)
(* hidden from it, a process of the UID that is alive has an unread entry  *)
(* that will give it away (ScanInv); and once the UID is empty, with no    *)
(* job in a daemon's memory, it stays empty (SureInv, JobsInv).            *)
(***************************************************************************)
EXTENDS Quiesce, TLAPS

NoneLive == \A p \in Pids : ~HasUID(p)

\* A pidfd on somebody else's process is open at most until the second look.
FdInv ==
  /\ pc \in {"open", "recheck", "send"} => cur \in Pids
  /\ fd # "none" => pc \in {"recheck", "send"}
  /\ fd = "foreign" => proc[cur] \in {"other", "shot"} /\ pc = "recheck"
  /\ fd = "own" => HasUID(cur)

\* Which labels belong to which pass.
PassInv ==
  /\ pc = "drain" => pass = 1
  /\ pc = "home" => pass = 2
  /\ pc \in {"delete", "deleted"} => pass = 3
  /\ confirm > 0 => pc \in {"scan", "read"}
  /\ hid \/ seen \/ ~stable => pc = "read"

\* Jobs in a daemon's memory that a pass after the wait does not know of.
CacheInv ==
  /\ cached = "old" => pass = 1 /\ mode = "drain"
  /\ ~daemon => cached = "no"
  /\ cached = "new" => late

\* A later pass in which no daemon read a job.
Alone == pass > 1 /\ ~late

ScanInv ==
  Alone /\ pc = "read" /\ ~hid /\ ~seen /\ stable /\ ~NoneLive
    => \E p \in todo : HasUID(p) \/ proc[p] = "free"

Cleared == {"crontab", "crontabCheck", "atInventory", "atRemove", "passEnd", "home", "delete", "deleted"}
SureInv ==
  /\ Alone /\ sure /\ confirm > 0 => NoneLive
  /\ Alone /\ sure /\ ~err /\ pc \in Cleared => NoneLive
  /\ pc \in {"home", "delete", "deleted"} => ~err

JobsInv ==
  /\ Alone /\ sure /\ ~err /\ pc \in Cleared \ {"crontab", "crontabCheck"} => ~cron
  /\ Alone /\ sure /\ ~err /\ pc \in {"passEnd", "home", "delete", "deleted"} => Own = {}

QuiesceInv == TypeOK /\ ForeignSpared /\ FdInv /\ PassInv /\ CacheInv
              /\ ScanInv /\ SureInv /\ JobsInv

\* The steps of Next in groups.
Signalling == StartSweep \/ Open \/ Recheck \/ Send \/ Signalled \/ \E p \in Pids : Match(p)
Scanning == StartScan \/ ScanFails \/ ScanFound \/ ScanEmpty \/ \E p \in Pids : Inspect(p)
Passing == BeginPass \/ EndPass \/ WaitForDrain \/ CleanHome \/ Delete \/ Abort
HostOnly == UNCHANGED <<pc, loops, todo, cur, scan, err, faults, setting, pass, spool, inv, cached, late>>
NoJobs == UNCHANGED <<setting, pass, spool, inv, cached, late>>

USE DEF host, signalling, scan, loops, setting, spool, quiet

-----------------------------------------------------------------------------
\* Every step keeps the types.
LEMMA TypeStep ==
  ASSUME TypeOK, [Next]_vars
  PROVE  TypeOK'
<1> HostType /\ PlaceType /\ CountType /\ FlagType  BY DEF TypeOK
<1>1. CASE ProcessesRun
  <2>1. HostType'
    BY <1>1, HostType DEF ProcessesRun, Fork, Exit, Closes, Hides, HasUID,
        Reap, OtherStarts, OtherExits, HostType, ProcStates, Owners
  <2>2. PlaceType'
    BY <1>1, PlaceType DEF ProcessesRun, Fork, Exit, Closes, Hides, HasUID,
        Reap, OtherStarts, OtherExits, PlaceType, Labels
  <2>3. CountType'
    BY <1>1, CountType, ProcessConstants DEF ProcessesRun, Fork, Exit, Closes,
        Hides, HasUID, Reap, OtherStarts, OtherExits, CountType
  <2>4. FlagType'
    BY <1>1, FlagType DEF ProcessesRun, Fork, Exit, Closes, Hides, HasUID,
        Reap, OtherStarts, OtherExits, FlagType
  <2> QED  BY <2>1, <2>2, <2>3, <2>4 DEF TypeOK
<1>2. CASE Enqueue \/ OtherJob
  <2>1. HostType'
    BY <1>2, HostType DEF Enqueue, OtherJob, HostType, ProcStates, Owners
  <2>2. PlaceType'
    BY <1>2, PlaceType DEF Enqueue, OtherJob, PlaceType, Labels
  <2>3. CountType'
    BY <1>2, CountType, ProcessConstants DEF Enqueue, OtherJob, CountType
  <2>4. FlagType'
    BY <1>2, FlagType DEF Enqueue, OtherJob, FlagType
  <2> QED  BY <2>1, <2>2, <2>3, <2>4 DEF TypeOK
<1>3. CASE DaemonReads \/ DaemonStarts
  <2>1. HostType'
    BY <1>3, HostType DEF DaemonReads, DaemonStarts, HostType, ProcStates,
        Owners
  <2>2. PlaceType'
    BY <1>3, PlaceType DEF DaemonReads, DaemonStarts, PlaceType, Labels
  <2>3. CountType'
    BY <1>3, CountType, ProcessConstants DEF DaemonReads, DaemonStarts,
        CountType
  <2>4. FlagType'
    BY <1>3, FlagType DEF DaemonReads, DaemonStarts, FlagType
  <2> QED  BY <2>1, <2>2, <2>3, <2>4 DEF TypeOK
<1>4. CASE Signalling /\ NoJobs
  <2>1. HostType'
    BY <1>4, HostType DEF Signalling, NoJobs, StartSweep, Goto, Listing, Open,
        Close, HasUID, Recheck, Fine, Fault, Send, Signalled, Match, HostType,
        ProcStates, Owners
  <2>2. PlaceType'
    BY <1>4, PlaceType DEF Signalling, NoJobs, StartSweep, Goto, Listing,
        Open, Close, HasUID, Recheck, Fine, Fault, Send, Signalled, Match,
        PlaceType, Labels
  <2>3. CountType'
    BY <1>4, CountType, ProcessConstants DEF Signalling, NoJobs, StartSweep,
        Goto, Listing, Open, Close, HasUID, Recheck, Fine, Fault, Send,
        Signalled, Match, CountType
  <2>4. FlagType'
    <3>1. CASE StartSweep
      BY <1>4, <3>1, FlagType DEF StartSweep, Goto, Listing, NoJobs, FlagType
    <3>2. CASE Open
      BY <1>4, <3>2, FlagType DEF Open, Goto, Close, HasUID, NoJobs, FlagType
    <3>3. CASE Recheck
      BY <1>4, <3>3, FlagType DEF Recheck, Goto, Fine, Fault, Close, HasUID, NoJobs, FlagType
    <3>4. CASE Send
      BY <1>4, <3>4, FlagType DEF Send, Goto, Close, NoJobs, FlagType
    <3>5. CASE Signalled
      BY <1>4, <3>5, FlagType DEF Signalled, Goto, NoJobs, FlagType
    <3>6. CASE \E p \in Pids : Match(p)
      BY <1>4, <3>6, FlagType DEF Match, Fine, Fault, Goto, HasUID, NoJobs, FlagType
    <3> QED
      BY <1>4, <3>1, <3>2, <3>3, <3>4, <3>5, <3>6 DEF Signalling
  <2> QED  BY <2>1, <2>2, <2>3, <2>4 DEF TypeOK
<1>5. CASE Scanning /\ NoJobs
  <2>1. HostType'
    BY <1>5, HostType DEF Scanning, NoJobs, StartScan, Goto, Listing,
        ScanFails, Fault, NextSweep, Terminated, Forget, ScanFound, ScanEmpty,
        Inspect, Fine, HasUID, HostType, ProcStates, Owners
  <2>2. PlaceType'
    BY <1>5, PlaceType DEF Scanning, NoJobs, StartScan, Goto, Listing,
        ScanFails, Fault, NextSweep, Terminated, Forget, ScanFound, ScanEmpty,
        Inspect, Fine, HasUID, PlaceType, Labels
  <2>3. CountType'
    BY <1>5, CountType, ProcessConstants DEF Scanning, NoJobs, StartScan,
        Goto, Listing, ScanFails, Fault, NextSweep, Terminated, Forget,
        ScanFound, ScanEmpty, Inspect, Fine, HasUID, CountType
  <2>4. FlagType'
    <3>1. CASE StartScan
      BY <1>5, <3>1, FlagType DEF StartScan, Goto, Listing, NoJobs, FlagType
    <3>2. CASE ScanFails
      BY <1>5, <3>2, FlagType DEF ScanFails, Fault, NextSweep, Terminated, Forget, Goto, NoJobs, FlagType
    <3>3. CASE ScanFound
      BY <1>5, <3>3, FlagType DEF ScanFound, Fault, NextSweep, Terminated, Forget, Goto, NoJobs, FlagType
    <3>4. CASE ScanEmpty
      BY <1>5, <3>4, FlagType DEF ScanEmpty, NextSweep, Terminated, Forget, Goto, NoJobs, FlagType
    <3>5. CASE \E p \in Pids : Inspect(p)
      BY <1>5, <3>5, FlagType DEF Inspect, Fine, HasUID, NoJobs, FlagType
    <3> QED
      BY <1>5, <3>1, <3>2, <3>3, <3>4, <3>5 DEF Scanning
  <2> QED  BY <2>1, <2>2, <2>3, <2>4 DEF TypeOK
<1>6. CASE ClearCrontab
  <2>1. HostType'
    BY <1>6, HostType DEF ClearCrontab, Goto, Fine, Fault, HostType,
        ProcStates, Owners
  <2>2. PlaceType'
    BY <1>6, PlaceType DEF ClearCrontab, Goto, Fine, Fault, PlaceType, Labels
  <2>3. CountType'
    BY <1>6, CountType, ProcessConstants DEF ClearCrontab, Goto, Fine, Fault,
        CountType
  <2>4. FlagType'
    BY <1>6, FlagType DEF ClearCrontab, Goto, Fine, Fault, FlagType
  <2> QED  BY <2>1, <2>2, <2>3, <2>4 DEF TypeOK
<1>7. CASE CrontabAbsent
  <2>1. HostType'
    BY <1>7, HostType DEF CrontabAbsent, Goto, Fine, Fault, CrontabLeft,
        HostType, ProcStates, Owners
  <2>2. PlaceType'
    BY <1>7, PlaceType DEF CrontabAbsent, Goto, Fine, Fault, CrontabLeft,
        PlaceType, Labels
  <2>3. CountType'
    BY <1>7, CountType, ProcessConstants DEF CrontabAbsent, Goto, Fine, Fault,
        CrontabLeft, CountType
  <2>4. FlagType'
    BY <1>7, FlagType DEF CrontabAbsent, Goto, Fine, Fault, CrontabLeft,
        FlagType
  <2> QED  BY <2>1, <2>2, <2>3, <2>4 DEF TypeOK
<1>8. CASE InventoryAtJobs
  <2>1. HostType'
    BY <1>8, HostType DEF InventoryAtJobs, Goto, Fine, Fault, Own, OwnedNow,
        HostType, ProcStates, Owners
  <2>2. PlaceType'
    BY <1>8, PlaceType DEF InventoryAtJobs, Goto, Fine, Fault, Own, OwnedNow,
        PlaceType, Labels
  <2>3. CountType'
    BY <1>8, CountType, ProcessConstants DEF InventoryAtJobs, Goto, Fine,
        Fault, Own, OwnedNow, CountType
  <2>4. FlagType'
    BY <1>8, FlagType DEF InventoryAtJobs, Goto, Fine, Fault, Own, OwnedNow,
        FlagType
  <2> QED  BY <2>1, <2>2, <2>3, <2>4 DEF TypeOK
<1>9. CASE VerifyAtJobs
  <2>1. HostType'
    BY <1>9, HostType DEF VerifyAtJobs, Goto, Fine, Fault, Own, OwnedNow,
        HostType, ProcStates, Owners
  <2>2. PlaceType'
    BY <1>9, PlaceType DEF VerifyAtJobs, Goto, Fine, Fault, Own, OwnedNow,
        PlaceType, Labels
  <2>3. CountType'
    BY <1>9, CountType, ProcessConstants DEF VerifyAtJobs, Goto, Fine, Fault,
        Own, OwnedNow, CountType
  <2>4. FlagType'
    BY <1>9, FlagType DEF VerifyAtJobs, Goto, Fine, Fault, Own, OwnedNow,
        FlagType
  <2> QED  BY <2>1, <2>2, <2>3, <2>4 DEF TypeOK
<1>10. ASSUME NEW id \in AtIds, RemoveAtJob(id)
      PROVE  TypeOK'
  <2>1. HostType'
    BY <1>10, HostType DEF RemoveAtJob, Goto, Fine, Fault, OwnedNow, HostType,
        ProcStates, Owners
  <2>2. PlaceType'
    BY <1>10, PlaceType DEF RemoveAtJob, Goto, Fine, Fault, OwnedNow,
        PlaceType, Labels
  <2>3. CountType'
    BY <1>10, CountType, ProcessConstants DEF RemoveAtJob, Goto, Fine, Fault,
        OwnedNow, CountType
  <2>4. FlagType'
    BY <1>10, FlagType DEF RemoveAtJob, Goto, Fine, Fault, OwnedNow, FlagType
  <2> QED  BY <2>1, <2>2, <2>3, <2>4 DEF TypeOK
<1>11. CASE Passing
  <2>1. HostType'
    BY <1>11, HostType DEF Passing, BeginPass, Goto, EndPass, NextPass,
        WaitForDrain, Fine, Fault, WaitSkipped, CleanHome, Delete, Abort,
        HostType, ProcStates, Owners
  <2>2. PlaceType'
    BY <1>11, PlaceType DEF Passing, BeginPass, Goto, EndPass, NextPass,
        WaitForDrain, Fine, Fault, WaitSkipped, CleanHome, Delete, Abort,
        PlaceType, Labels
  <2>3. CountType'
    BY <1>11, CountType, ProcessConstants DEF Passing, BeginPass, Goto,
        EndPass, NextPass, WaitForDrain, Fine, Fault, WaitSkipped, CleanHome,
        Delete, Abort, CountType
  <2>4. FlagType'
    <3>1. CASE BeginPass
      BY <1>11, <3>1, FlagType DEF BeginPass, Goto, FlagType
    <3>2. CASE EndPass
      BY <1>11, <3>2, FlagType DEF EndPass, Goto, NextPass, Fine, Fault, FlagType
    <3>3. CASE WaitForDrain
      BY <1>11, <3>3, FlagType DEF WaitForDrain, Goto, Fine, Fault, WaitSkipped, NextPass, FlagType
    <3>4. CASE CleanHome
      BY <1>11, <3>4, FlagType DEF CleanHome, Goto, Fine, Fault, NextPass, FlagType
    <3>5. CASE Delete
      BY <1>11, <3>5, FlagType DEF Delete, Goto, Fine, Fault, NextPass, FlagType
    <3>6. CASE Abort
      BY <1>11, <3>6, FlagType DEF Abort, Goto, Fine, Fault, FlagType
    <3> QED
      BY <1>11, <3>1, <3>2, <3>3, <3>4, <3>5, <3>6 DEF Passing
  <2> QED  BY <2>1, <2>2, <2>3, <2>4 DEF TypeOK
<1>12. CASE UNCHANGED vars
  <2>1. HostType'
    BY <1>12, HostType DEF vars, HostType, ProcStates, Owners
  <2>2. PlaceType'
    BY <1>12, PlaceType DEF vars, PlaceType, Labels
  <2>3. CountType'
    BY <1>12, CountType, ProcessConstants DEF vars, CountType
  <2>4. FlagType'
    BY <1>12, FlagType DEF vars, FlagType
  <2> QED  BY <2>1, <2>2, <2>3, <2>4 DEF TypeOK
<1> QED
  BY <1>1, <1>2, <1>3, <1>4, <1>5, <1>6, <1>7, <1>8, <1>9, <1>10, <1>11, <1>12 DEF
        Next, Command, Terminates, TerminateStep, Signalling, Scanning,
        Passing, NoJobs, ClearStep

\* A pidfd on another process is closed, not signalled.
LEMMA FdStep ==
  ASSUME TypeOK, FdInv, ForeignSpared, [Next]_vars
  PROVE  FdInv' /\ ForeignSpared'
<1>1. CASE ProcessesRun
  BY <1>1, TypeOK, FdInv, ForeignSpared, ProcessConstants DEF ProcessesRun,
        Fork, Exit, Closes, Hides, HasUID, Reap, OtherStarts, OtherExits,
        TypeOK, HostType, PlaceType, ProcStates, FdInv, ForeignSpared
<1>2. CASE Enqueue \/ OtherJob
  BY <1>2, TypeOK, FdInv, ForeignSpared, ProcessConstants DEF Enqueue,
        OtherJob, TypeOK, HostType, PlaceType, ProcStates, FdInv,
        ForeignSpared, HasUID
<1>3. CASE DaemonReads \/ DaemonStarts
  BY <1>3, TypeOK, FdInv, ForeignSpared, ProcessConstants DEF DaemonReads,
        DaemonStarts, TypeOK, HostType, PlaceType, ProcStates, FdInv,
        ForeignSpared, HasUID
<1>4. CASE Signalling /\ NoJobs
  BY <1>4, TypeOK, FdInv, ForeignSpared, ProcessConstants DEF Signalling,
        NoJobs, StartSweep, Goto, Listing, Open, Close, HasUID, Recheck, Fine,
        Fault, Send, Signalled, Match, TypeOK, HostType, PlaceType,
        ProcStates, FdInv, ForeignSpared
<1>5. CASE Scanning /\ NoJobs
  BY <1>5, TypeOK, FdInv, ForeignSpared, ProcessConstants DEF Scanning,
        NoJobs, StartScan, Goto, Listing, ScanFails, Fault, NextSweep,
        Terminated, Forget, ScanFound, ScanEmpty, Inspect, Fine, HasUID,
        TypeOK, HostType, PlaceType, ProcStates, FdInv, ForeignSpared
<1>6. CASE ClearStep
  BY <1>6, TypeOK, FdInv, ForeignSpared, ProcessConstants DEF ClearStep,
        ClearCrontab, Goto, Fine, Fault, CrontabAbsent, CrontabLeft,
        InventoryAtJobs, Own, OwnedNow, VerifyAtJobs, RemoveAtJob, TypeOK,
        HostType, PlaceType, ProcStates, FdInv, ForeignSpared, HasUID
<1>7. CASE Passing
  BY <1>7, TypeOK, FdInv, ForeignSpared, ProcessConstants DEF Passing,
        BeginPass, Goto, EndPass, NextPass, WaitForDrain, Fine, Fault,
        WaitSkipped, CleanHome, Delete, Abort, TypeOK, HostType, PlaceType,
        ProcStates, FdInv, ForeignSpared, HasUID
<1>8. CASE UNCHANGED vars
  BY <1>8, TypeOK, FdInv, ForeignSpared, ProcessConstants DEF vars, TypeOK,
        HostType, PlaceType, ProcStates, FdInv, ForeignSpared, HasUID
<1> QED
  BY <1>1, <1>2, <1>3, <1>4, <1>5, <1>6, <1>7, <1>8 DEF Next, Command,
        Terminates, TerminateStep, Signalling, Scanning, Passing, NoJobs

\* Which labels belong to which pass.
LEMMA PassStep ==
  ASSUME TypeOK, PassInv, [Next]_vars
  PROVE  PassInv'
<1>1. CASE ProcessesRun
  BY <1>1, TypeOK, PassInv DEF ProcessesRun, Fork, Exit, Closes, Hides,
        HasUID, Reap, OtherStarts, OtherExits, TypeOK, PlaceType, CountType,
        FlagType, PassInv
<1>2. CASE Enqueue \/ OtherJob
  BY <1>2, TypeOK, PassInv DEF Enqueue, OtherJob, TypeOK, PlaceType,
        CountType, FlagType, PassInv
<1>3. CASE DaemonReads \/ DaemonStarts
  BY <1>3, TypeOK, PassInv DEF DaemonReads, DaemonStarts, TypeOK, PlaceType,
        CountType, FlagType, PassInv
<1>4. CASE Signalling /\ NoJobs
  BY <1>4, TypeOK, PassInv DEF Signalling, NoJobs, StartSweep, Goto, Listing,
        Open, Close, HasUID, Recheck, Fine, Fault, Send, Signalled, Match,
        TypeOK, PlaceType, CountType, FlagType, PassInv
<1>5. CASE Scanning /\ NoJobs
  BY <1>5, TypeOK, PassInv DEF Scanning, NoJobs, StartScan, Goto, Listing,
        ScanFails, Fault, NextSweep, Terminated, Forget, ScanFound, ScanEmpty,
        Inspect, Fine, HasUID, TypeOK, PlaceType, CountType, FlagType, PassInv
<1>6. CASE ClearStep
  BY <1>6, TypeOK, PassInv DEF ClearStep, ClearCrontab, Goto, Fine, Fault,
        CrontabAbsent, CrontabLeft, InventoryAtJobs, Own, OwnedNow,
        VerifyAtJobs, RemoveAtJob, TypeOK, PlaceType, CountType, FlagType,
        PassInv
<1>7. CASE Passing
  BY <1>7, TypeOK, PassInv DEF Passing, BeginPass, Goto, EndPass, NextPass,
        WaitForDrain, Fine, Fault, WaitSkipped, CleanHome, Delete, Abort,
        TypeOK, PlaceType, CountType, FlagType, PassInv
<1>8. CASE UNCHANGED vars
  BY <1>8, TypeOK, PassInv DEF vars, TypeOK, PlaceType, CountType, FlagType,
        PassInv
<1> QED
  BY <1>1, <1>2, <1>3, <1>4, <1>5, <1>6, <1>7, <1>8 DEF Next, Command,
        Terminates, TerminateStep, Signalling, Scanning, Passing, NoJobs

\* What a daemon has read after the wait is known to be late.
LEMMA CacheStep ==
  ASSUME TypeOK, PassInv, CacheInv, [Next]_vars
  PROVE  CacheInv'
<1>1. CASE ProcessesRun
  BY <1>1, TypeOK, PassInv, CacheInv DEF ProcessesRun, Fork, Exit, Closes,
        Hides, HasUID, Reap, OtherStarts, OtherExits, TypeOK, HostType,
        PlaceType, FlagType, PassInv, CacheInv
<1>2. CASE Enqueue \/ OtherJob
  BY <1>2, TypeOK, PassInv, CacheInv DEF Enqueue, OtherJob, TypeOK, HostType,
        PlaceType, FlagType, PassInv, CacheInv
<1>3. CASE DaemonReads \/ DaemonStarts
  BY <1>3, TypeOK, PassInv, CacheInv DEF DaemonReads, DaemonStarts, TypeOK,
        HostType, PlaceType, FlagType, PassInv, CacheInv
<1>4. CASE Signalling /\ NoJobs
  BY <1>4, TypeOK, PassInv, CacheInv DEF Signalling, NoJobs, StartSweep, Goto,
        Listing, Open, Close, HasUID, Recheck, Fine, Fault, Send, Signalled,
        Match, TypeOK, HostType, PlaceType, FlagType, PassInv, CacheInv
<1>5. CASE Scanning /\ NoJobs
  BY <1>5, TypeOK, PassInv, CacheInv DEF Scanning, NoJobs, StartScan, Goto,
        Listing, ScanFails, Fault, NextSweep, Terminated, Forget, ScanFound,
        ScanEmpty, Inspect, Fine, HasUID, TypeOK, HostType, PlaceType,
        FlagType, PassInv, CacheInv
<1>6. CASE ClearStep
  BY <1>6, TypeOK, PassInv, CacheInv DEF ClearStep, ClearCrontab, Goto, Fine,
        Fault, CrontabAbsent, CrontabLeft, InventoryAtJobs, Own, OwnedNow,
        VerifyAtJobs, RemoveAtJob, TypeOK, HostType, PlaceType, FlagType,
        PassInv, CacheInv
<1>7. CASE Passing
  BY <1>7, TypeOK, PassInv, CacheInv DEF Passing, BeginPass, Goto, EndPass,
        NextPass, WaitForDrain, Fine, Fault, WaitSkipped, CleanHome, Delete,
        Abort, TypeOK, HostType, PlaceType, FlagType, PassInv, CacheInv
<1>8. CASE UNCHANGED vars
  BY <1>8, TypeOK, PassInv, CacheInv DEF vars, TypeOK, HostType, PlaceType,
        FlagType, PassInv, CacheInv
<1> QED
  BY <1>1, <1>2, <1>3, <1>4, <1>5, <1>6, <1>7, <1>8 DEF Next, Command,
        Terminates, TerminateStep, Signalling, Scanning, Passing, NoJobs

\* A live process of the UID keeps an unread entry that gives it away.
LEMMA ScanStep ==
  ASSUME TypeOK, PassInv, CacheInv, ScanInv, [Next]_vars
  PROVE  ScanInv'
<1>1. ASSUME NEW p \in Pids, Fork(p), HostOnly
      PROVE  ScanInv'
  BY <1>1, TypeOK, PassInv, CacheInv, ScanInv DEF HostOnly, Fork, TypeOK,
        HostType, PlaceType, ProcStates, PassInv, CacheInv, ScanInv, Alone,
        NoneLive, HasUID, FlagType
<1>2. ASSUME NEW p \in Pids, Exit(p), HostOnly
      PROVE  ScanInv'
  <2> SUFFICES ASSUME ~hid', Alone, pc = "read", ~seen, stable, ~NoneLive'
               PROVE  \E q \in todo : (HasUID(q) \/ proc[q] = "free")'
    BY <1>2 DEF HostOnly, ScanInv, Alone, NoneLive
  <2>1. proc \in [Pids -> ProcStates] /\ hid \in BOOLEAN /\ todo \subseteq Pids
    BY TypeOK DEF TypeOK, HostType, FlagType, PlaceType
  <2>2. \A q \in Pids : q # p => proc'[q] = proc[q]
    BY <1>2, <2>1 DEF Exit
  <2>3. ~hid /\ (p \in todo => proc'[p] = "free")
    BY <1>2, <2>1 DEF Exit, Hides
  <2>4. ~NoneLive
    BY <1>2, <2>2 DEF NoneLive, HasUID, Exit
  <2>5. PICK q \in todo : HasUID(q) \/ proc[q] = "free"
    BY <2>3, <2>4, ScanInv DEF ScanInv
  <2> QED  BY <2>1, <2>2, <2>3, <2>5 DEF HasUID
<1>3. ASSUME NEW p \in Pids, Reap(p), HostOnly
      PROVE  ScanInv'
  BY <1>3, TypeOK, PassInv, CacheInv, ScanInv DEF HostOnly, Reap, TypeOK,
        HostType, PlaceType, ProcStates, PassInv, CacheInv, ScanInv, Alone,
        NoneLive, HasUID, FlagType
<1>4. ASSUME NEW p \in Pids, OtherStarts(p), HostOnly
      PROVE  ScanInv'
  BY <1>4, TypeOK, PassInv, CacheInv, ScanInv DEF HostOnly, OtherStarts,
        Hides, TypeOK, HostType, PlaceType, ProcStates, PassInv, CacheInv,
        ScanInv, Alone, NoneLive, HasUID, FlagType
<1>5. ASSUME NEW p \in Pids, OtherExits(p), HostOnly
      PROVE  ScanInv'
  BY <1>5, TypeOK, PassInv, CacheInv, ScanInv DEF HostOnly, OtherExits,
        Closes, TypeOK, HostType, PlaceType, ProcStates, PassInv, CacheInv,
        ScanInv, Alone, NoneLive, HasUID, FlagType
<1>6. CASE Enqueue \/ OtherJob
  BY <1>6, TypeOK, PassInv, CacheInv, ScanInv DEF Enqueue, OtherJob, TypeOK,
        HostType, PlaceType, ProcStates, PassInv, CacheInv, ScanInv, Alone,
        NoneLive, HasUID, FlagType
<1>7. CASE DaemonReads
  BY <1>7, TypeOK, PassInv, CacheInv, ScanInv DEF DaemonReads, TypeOK,
        HostType, PlaceType, ProcStates, PassInv, CacheInv, ScanInv, Alone,
        NoneLive, HasUID, FlagType
<1>8. CASE DaemonStarts
  BY <1>8, TypeOK, PassInv, CacheInv, ScanInv DEF DaemonStarts, TypeOK,
        HostType, PlaceType, ProcStates, PassInv, CacheInv, ScanInv, Alone,
        NoneLive, HasUID, FlagType
<1>9. CASE Signalling /\ NoJobs
  BY <1>9, TypeOK, PassInv, CacheInv, ScanInv DEF Signalling, NoJobs,
        StartSweep, Goto, Listing, Open, Close, HasUID, Recheck, Fine, Fault,
        Send, Signalled, Match, TypeOK, HostType, PlaceType, ProcStates,
        PassInv, CacheInv, ScanInv, Alone, NoneLive, FlagType
<1>10. CASE Scanning /\ NoJobs
  BY <1>10, TypeOK, PassInv, CacheInv, ScanInv DEF Scanning, NoJobs,
        StartScan, Goto, Listing, ScanFails, Fault, NextSweep, Terminated,
        Forget, ScanFound, ScanEmpty, Inspect, Fine, HasUID, TypeOK, HostType,
        PlaceType, ProcStates, PassInv, CacheInv, ScanInv, Alone, NoneLive,
        FlagType
<1>11. CASE ClearStep
  BY <1>11, TypeOK, PassInv, CacheInv, ScanInv DEF ClearStep, ClearCrontab,
        Goto, Fine, Fault, CrontabAbsent, CrontabLeft, InventoryAtJobs, Own,
        OwnedNow, VerifyAtJobs, RemoveAtJob, TypeOK, HostType, PlaceType,
        ProcStates, PassInv, CacheInv, ScanInv, Alone, NoneLive, HasUID,
        FlagType
<1>12. CASE Passing
  BY <1>12, TypeOK, PassInv, CacheInv, ScanInv DEF Passing, BeginPass, Goto,
        EndPass, NextPass, WaitForDrain, Fine, Fault, WaitSkipped, CleanHome,
        Delete, Abort, TypeOK, HostType, PlaceType, ProcStates, PassInv,
        CacheInv, ScanInv, Alone, NoneLive, HasUID, FlagType
<1>13. CASE UNCHANGED vars
  BY <1>13, TypeOK, PassInv, CacheInv, ScanInv DEF vars, TypeOK, HostType,
        PlaceType, ProcStates, PassInv, CacheInv, ScanInv, Alone, NoneLive,
        HasUID, FlagType
<1> QED
  BY <1>1, <1>2, <1>3, <1>4, <1>5, <1>6, <1>7, <1>8, <1>9, <1>10, <1>11, <1>12, <1>13 DEF
        Next, Command, Terminates, TerminateStep, Signalling, Scanning,
        Passing, NoJobs, ProcessesRun, HostOnly

\* An empty UID stays empty.
LEMMA SureStep ==
  ASSUME TypeOK, PassInv, CacheInv, ScanInv, SureInv, [Next]_vars
  PROVE  SureInv'
<1>1. CASE ProcessesRun
  BY <1>1, TypeOK, PassInv, CacheInv, ScanInv, SureInv DEF ProcessesRun, Fork,
        Exit, Closes, Hides, HasUID, Reap, OtherStarts, OtherExits, TypeOK,
        HostType, PlaceType, CountType, ProcStates, PassInv, CacheInv,
        ScanInv, SureInv, Cleared, Alone, NoneLive
<1>2. CASE Enqueue \/ OtherJob
  BY <1>2, TypeOK, PassInv, CacheInv, ScanInv, SureInv DEF Enqueue, OtherJob,
        TypeOK, HostType, PlaceType, CountType, ProcStates, PassInv, CacheInv,
        ScanInv, SureInv, Cleared, Alone, NoneLive, HasUID
<1>3. CASE DaemonReads \/ DaemonStarts
  BY <1>3, TypeOK, PassInv, CacheInv, ScanInv, SureInv DEF DaemonReads,
        DaemonStarts, TypeOK, HostType, PlaceType, CountType, ProcStates,
        PassInv, CacheInv, ScanInv, SureInv, Cleared, Alone, NoneLive, HasUID
<1>4. CASE Signalling /\ NoJobs
  BY <1>4, TypeOK, PassInv, CacheInv, ScanInv, SureInv DEF Signalling, NoJobs,
        StartSweep, Goto, Listing, Open, Close, HasUID, Recheck, Fine, Fault,
        Send, Signalled, Match, TypeOK, HostType, PlaceType, CountType,
        ProcStates, PassInv, CacheInv, ScanInv, SureInv, Cleared, Alone,
        NoneLive
<1>5. CASE StartScan /\ NoJobs
  BY <1>5, TypeOK, PassInv, CacheInv, ScanInv, SureInv DEF NoJobs, StartScan,
        Goto, Listing, TypeOK, HostType, PlaceType, CountType, ProcStates,
        PassInv, CacheInv, ScanInv, SureInv, Cleared, Alone, NoneLive, HasUID
<1>6. CASE ScanFails /\ NoJobs
  BY <1>6, TypeOK, PassInv, CacheInv, ScanInv, SureInv DEF NoJobs, ScanFails,
        Goto, Fault, NextSweep, Terminated, Forget, TypeOK, HostType,
        PlaceType, CountType, ProcStates, PassInv, CacheInv, ScanInv, SureInv,
        Cleared, Alone, NoneLive, HasUID
<1>7. CASE ScanFound /\ NoJobs
  <2>1. CASE sweep < Sweeps
    BY <1>7, <2>1, SureInv DEF NoJobs, ScanFound, Goto, NextSweep, SureInv, Cleared
  <2>2. CASE ~(sweep < Sweeps)
    <3>1. sweep = Sweeps
      BY <2>2, TypeOK, ProcessConstants DEF TypeOK, CountType
    <3>2. err' = (err \/ sweep = Sweeps)
      BY <1>7 DEF ScanFound
    <3>3. err'
      BY <3>1, <3>2
    <3> QED  BY <1>7, <2>2, <3>3, SureInv DEF NoJobs, ScanFound,
                 Goto, NextSweep, Terminated, SureInv, Cleared
  <2> QED  BY <2>1, <2>2
<1>8. CASE ScanEmpty /\ NoJobs
  <2>1. pc = "read" /\ todo = {} /\ ~seen /\ proc' = proc /\ pass' = pass /\ late' = late
    BY <1>8 DEF NoJobs, ScanEmpty
  <2>2. Alone /\ sure' /\ stable => NoneLive
    BY <1>8, <2>1, TypeOK, ScanInv, SureInv DEF ScanEmpty, ScanInv, SureInv, TypeOK, FlagType
  <2>3. confirm' > 0 => stable
    BY <1>8 DEF ScanEmpty, NextSweep, Terminated
  <2>4. pc' \in Cleared => err' \/ stable
    BY <1>8, TypeOK, ProcessConstants DEF ScanEmpty, NextSweep, Terminated, Goto, Cleared, TypeOK, CountType, FlagType
  <2>5. pc' \notin {"home", "delete", "deleted"}
    BY <1>8 DEF ScanEmpty, NextSweep, Terminated, Goto
  <2> QED  BY <2>1, <2>2, <2>3, <2>4, <2>5 DEF SureInv, Alone, NoneLive, HasUID
<1>9. ASSUME NEW p \in Pids, Inspect(p), NoJobs
      PROVE  SureInv'
  BY <1>9, TypeOK, PassInv, CacheInv, ScanInv, SureInv DEF NoJobs, Inspect,
        Fine, HasUID, TypeOK, HostType, PlaceType, CountType, ProcStates,
        PassInv, CacheInv, ScanInv, SureInv, Cleared, Alone, NoneLive
<1>10. CASE ClearCrontab
  BY <1>10, TypeOK, PassInv, CacheInv, ScanInv, SureInv DEF ClearCrontab,
        Goto, Fine, Fault, TypeOK, HostType, PlaceType, CountType, ProcStates,
        PassInv, CacheInv, ScanInv, SureInv, Cleared, Alone, NoneLive, HasUID
<1>11. CASE CrontabAbsent
  BY <1>11, TypeOK, PassInv, CacheInv, ScanInv, SureInv DEF CrontabAbsent,
        Goto, Fine, Fault, CrontabLeft, TypeOK, HostType, PlaceType,
        CountType, ProcStates, PassInv, CacheInv, ScanInv, SureInv, Cleared,
        Alone, NoneLive, HasUID
<1>12. CASE InventoryAtJobs
  BY <1>12, TypeOK, PassInv, CacheInv, ScanInv, SureInv DEF InventoryAtJobs,
        Goto, Fine, Fault, Own, OwnedNow, TypeOK, HostType, PlaceType,
        CountType, ProcStates, PassInv, CacheInv, ScanInv, SureInv, Cleared,
        Alone, NoneLive, HasUID
<1>13. CASE VerifyAtJobs
  BY <1>13, TypeOK, PassInv, CacheInv, ScanInv, SureInv DEF VerifyAtJobs,
        Goto, Fine, Fault, Own, OwnedNow, TypeOK, HostType, PlaceType,
        CountType, ProcStates, PassInv, CacheInv, ScanInv, SureInv, Cleared,
        Alone, NoneLive, HasUID
<1>14. ASSUME NEW id \in AtIds, RemoveAtJob(id)
      PROVE  SureInv'
  BY <1>14, TypeOK, PassInv, CacheInv, ScanInv, SureInv DEF RemoveAtJob, Goto,
        Fine, Fault, OwnedNow, TypeOK, HostType, PlaceType, CountType,
        ProcStates, PassInv, CacheInv, ScanInv, SureInv, Cleared, Alone,
        NoneLive, HasUID
<1>15. CASE Passing
  BY <1>15, TypeOK, PassInv, CacheInv, ScanInv, SureInv DEF Passing,
        BeginPass, Goto, EndPass, NextPass, WaitForDrain, Fine, Fault,
        WaitSkipped, CleanHome, Delete, Abort, TypeOK, HostType, PlaceType,
        CountType, ProcStates, PassInv, CacheInv, ScanInv, SureInv, Cleared,
        Alone, NoneLive, HasUID
<1>16. CASE UNCHANGED vars
  BY <1>16, TypeOK, PassInv, CacheInv, ScanInv, SureInv DEF vars, TypeOK,
        HostType, PlaceType, CountType, ProcStates, PassInv, CacheInv,
        ScanInv, SureInv, Cleared, Alone, NoneLive, HasUID
<1> QED
  BY <1>1, <1>2, <1>3, <1>4, <1>5, <1>6, <1>7, <1>8, <1>9, <1>10, <1>11, <1>12, <1>13, <1>14, <1>15, <1>16 DEF
        Next, Command, Terminates, TerminateStep, Signalling, Scanning,
        Passing, NoJobs, ClearStep

\* A cleared crontab and queue stay cleared.
LEMMA JobsStep ==
  ASSUME TypeOK, PassInv, CacheInv, SureInv, JobsInv, [Next]_vars
  PROVE  JobsInv'
<1>1. CASE ProcessesRun
  BY <1>1, TypeOK, PassInv, CacheInv, SureInv, JobsInv DEF ProcessesRun, Fork,
        Exit, Closes, Hides, HasUID, Reap, OtherStarts, OtherExits, TypeOK,
        HostType, PlaceType, PassInv, CacheInv, SureInv, JobsInv, Cleared,
        Alone, NoneLive, Own, OwnedNow
<1>2. CASE Enqueue \/ OtherJob
  BY <1>2, TypeOK, PassInv, CacheInv, SureInv, JobsInv DEF Enqueue, OtherJob,
        TypeOK, HostType, PlaceType, PassInv, CacheInv, SureInv, JobsInv,
        Cleared, Alone, NoneLive, HasUID, Own, OwnedNow
<1>3. CASE DaemonReads \/ DaemonStarts
  BY <1>3, TypeOK, PassInv, CacheInv, SureInv, JobsInv DEF DaemonReads,
        DaemonStarts, TypeOK, HostType, PlaceType, PassInv, CacheInv, SureInv,
        JobsInv, Cleared, Alone, NoneLive, HasUID, Own, OwnedNow
<1>4. CASE Signalling /\ NoJobs
  BY <1>4, TypeOK, PassInv, CacheInv, SureInv, JobsInv DEF Signalling, NoJobs,
        StartSweep, Goto, Listing, Open, Close, HasUID, Recheck, Fine, Fault,
        Send, Signalled, Match, TypeOK, HostType, PlaceType, PassInv,
        CacheInv, SureInv, JobsInv, Cleared, Alone, NoneLive, Own, OwnedNow
<1>5. CASE Scanning /\ NoJobs
  BY <1>5, TypeOK, PassInv, CacheInv, SureInv, JobsInv DEF Scanning, NoJobs,
        StartScan, Goto, Listing, ScanFails, Fault, NextSweep, Terminated,
        Forget, ScanFound, ScanEmpty, Inspect, Fine, HasUID, TypeOK, HostType,
        PlaceType, PassInv, CacheInv, SureInv, JobsInv, Cleared, Alone,
        NoneLive, Own, OwnedNow
<1>6. CASE ClearCrontab
  BY <1>6, TypeOK, PassInv, CacheInv, SureInv, JobsInv DEF ClearCrontab, Goto,
        Fine, Fault, TypeOK, HostType, PlaceType, PassInv, CacheInv, SureInv,
        JobsInv, Cleared, Alone, NoneLive, HasUID, Own, OwnedNow
<1>7. CASE CrontabAbsent
  BY <1>7, TypeOK, PassInv, CacheInv, SureInv, JobsInv DEF CrontabAbsent,
        Goto, Fine, Fault, CrontabLeft, TypeOK, HostType, PlaceType, PassInv,
        CacheInv, SureInv, JobsInv, Cleared, Alone, NoneLive, HasUID, Own,
        OwnedNow
<1>8. CASE InventoryAtJobs
  BY <1>8, TypeOK, PassInv, CacheInv, SureInv, JobsInv DEF InventoryAtJobs,
        Goto, Fine, Fault, Own, OwnedNow, TypeOK, HostType, PlaceType,
        PassInv, CacheInv, SureInv, JobsInv, Cleared, Alone, NoneLive, HasUID
<1>9. CASE VerifyAtJobs
  BY <1>9, TypeOK, PassInv, CacheInv, SureInv, JobsInv DEF VerifyAtJobs, Goto,
        Fine, Fault, Own, OwnedNow, TypeOK, HostType, PlaceType, PassInv,
        CacheInv, SureInv, JobsInv, Cleared, Alone, NoneLive, HasUID
<1>10. ASSUME NEW id \in AtIds, RemoveAtJob(id)
      PROVE  JobsInv'
  BY <1>10, TypeOK, PassInv, CacheInv, SureInv, JobsInv DEF RemoveAtJob, Goto,
        Fine, Fault, OwnedNow, TypeOK, HostType, PlaceType, PassInv, CacheInv,
        SureInv, JobsInv, Cleared, Alone, NoneLive, HasUID, Own
<1>11. CASE Passing
  BY <1>11, TypeOK, PassInv, CacheInv, SureInv, JobsInv DEF Passing,
        BeginPass, Goto, EndPass, NextPass, WaitForDrain, Fine, Fault,
        WaitSkipped, CleanHome, Delete, Abort, TypeOK, HostType, PlaceType,
        PassInv, CacheInv, SureInv, JobsInv, Cleared, Alone, NoneLive, HasUID,
        Own, OwnedNow
<1>12. CASE UNCHANGED vars
  BY <1>12, TypeOK, PassInv, CacheInv, SureInv, JobsInv DEF vars, TypeOK,
        HostType, PlaceType, PassInv, CacheInv, SureInv, JobsInv, Cleared,
        Alone, NoneLive, HasUID, Own, OwnedNow
<1> QED
  BY <1>1, <1>2, <1>3, <1>4, <1>5, <1>6, <1>7, <1>8, <1>9, <1>10, <1>11, <1>12 DEF
        Next, Command, Terminates, TerminateStep, Signalling, Scanning,
        Passing, NoJobs, ClearStep

-----------------------------------------------------------------------------
\* The strengthened invariant holds in every state that can be reached.
THEOREM QuiesceInvariant == Spec => []QuiesceInv
<1>1. Init => QuiesceInv
  <2> SUFFICES ASSUME Init PROVE QuiesceInv
    OBVIOUS
  <2>0. PICK s \in Settings : mode = s[1] /\ tools = s[2] /\ daemon = s[3]
    BY DEF Init
  <2>1. TypeOK
    <3>0. mode \in {"drain", "immediate"} /\ tools \in BOOLEAN /\ daemon \in BOOLEAN
      BY <2>0, QuiesceConstants
    <3>1. proc \in [Pids -> ProcStates]
      BY DEF Init, ProcStates
    <3>2. atq \in [AtIds -> Owners] /\ cached \in {"no", "old", "new"}
      BY DEF Init, Owners
    <3>3. PlaceType
      BY <3>0 DEF Init, PlaceType, Labels
    <3>4. CountType
      BY ProcessConstants DEF Init, CountType
    <3>5. FlagType
      BY <3>0 DEF Init, FlagType
    <3> QED  BY <3>1, <3>2, <3>3, <3>4, <3>5 DEF TypeOK, HostType
  <2>2. ForeignSpared /\ FdInv /\ PassInv
    BY DEF Init, ForeignSpared, FdInv, PassInv
  <2>3. CacheInv
    BY DEF Init, CacheInv
  <2>4. ScanInv /\ SureInv /\ JobsInv
    BY DEF Init, ScanInv, SureInv, JobsInv, Cleared
  <2> QED  BY <2>1, <2>2, <2>3, <2>4 DEF QuiesceInv
<1>2. QuiesceInv /\ [Next]_vars => QuiesceInv'
  BY TypeStep, FdStep, PassStep, CacheStep, ScanStep, SureStep, JobsStep DEF QuiesceInv
<1> QED  BY <1>1, <1>2, PTL DEF Spec

\* Types, and the limits on sweeps and scans.
THEOREM TypeCorrect == Spec => []TypeOK
<1>1. QuiesceInv => TypeOK
  BY DEF QuiesceInv
<1> QED  BY <1>1, QuiesceInvariant, PTL

\* No process of another account is ever signalled, on any host.
THEOREM ForeignAlwaysSpared == Spec => []ForeignSpared
<1>1. QuiesceInv => ForeignSpared
  BY DEF QuiesceInv
<1> QED  BY <1>1, QuiesceInvariant, PTL

\* Whenever the UID is about to be released nothing of the account is left, if the
\* scan saw everything (`sure') and no daemon read a job of it during the pass or
\* the drain (`late').
THEOREM ReleasedAlwaysQuiet == Spec => []ReleasedQuiet
<1>1. QuiesceInv => ReleasedQuiet
  <2> SUFFICES ASSUME QuiesceInv, pc \in {"home", "delete", "deleted"}, ~late, sure
               PROVE  Quiet
    BY DEF ReleasedQuiet
  <2>1. pass > 1 /\ ~err /\ pc \in Cleared
    BY DEF QuiesceInv, PassInv, SureInv, Cleared
  <2>2. cached = "no"
    BY <2>1 DEF QuiesceInv, TypeOK, HostType, CacheInv
  <2> QED  BY <2>1, <2>2 DEF QuiesceInv, SureInv, JobsInv, Alone, NoneLive, Quiet
<1> QED  BY <1>1, QuiesceInvariant, PTL

\* No step of the command takes a job of another account out of the at queue, and
\* the daemons take only those of this one: it is gone only when it has run.
THEOREM ForeignJobsAlwaysSpared == Spec => ForeignJobsSpared
<1>1. TypeOK /\ [Next]_vars =>
        \A id \in AtIds : atq[id] = "foreign" /\ atq'[id] # "foreign" => pc' = pc /\ inv' = inv
  <2> SUFFICES ASSUME TypeOK, [Next]_vars, NEW id \in AtIds, atq[id] = "foreign", atq'[id] # "foreign"
               PROVE  pc' = pc /\ inv' = inv
    OBVIOUS
  <2>t. atq \in [AtIds -> Owners]
    BY DEF TypeOK, HostType
  <2>1. CASE ProcessesRun
    BY <2>1 DEF ProcessesRun
  <2>2. CASE Enqueue \/ OtherJob \/ DaemonReads \/ DaemonStarts
    BY <2>2 DEF Enqueue, OtherJob, DaemonReads, DaemonStarts
  <2>3. CASE Command
    <3>1. CASE Terminates \/ Passing
      BY <3>1 DEF Terminates, Passing, BeginPass, EndPass, WaitForDrain, CleanHome, Delete, Abort
    <3>2. CASE ClearCrontab \/ CrontabAbsent \/ InventoryAtJobs \/ VerifyAtJobs
      BY <3>2 DEF ClearCrontab, CrontabAbsent, InventoryAtJobs, VerifyAtJobs
    <3>3. ASSUME NEW i \in AtIds, RemoveAtJob(i) PROVE FALSE
      BY <2>t, <3>3 DEF RemoveAtJob, OwnedNow
    <3> QED
      BY <2>3, <3>1, <3>2, <3>3 DEF Command, ClearStep, Passing
  <2>4. CASE UNCHANGED vars
    BY <2>4 DEF vars
  <2> QED
    BY <2>1, <2>2, <2>3, <2>4 DEF Next
<1> QED
  BY <1>1, TypeCorrect, PTL DEF Spec, ForeignJobsSpared

=============================================================================
