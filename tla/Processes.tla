----------------------------- MODULE Processes -----------------------------
(***************************************************************************)
(* TerminateProcesses (user/processes.go): every process of a UID is       *)
(* signalled through a pidfd and /proc is scanned until the UID is empty,  *)
(* while its processes fork and exit, PIDs are reused, and some processes  *)
(* cannot be killed.  A directory listing is a snapshot; each entry is     *)
(* inspected later.                                                        *)
(***************************************************************************)
EXTENDS Integers, FiniteSets

CONSTANTS
  Pids, NoPid,
  Sweeps,         \* terminateSweeps
  Attempts,       \* processScanAttempts
  Confirmations,  \* processEmptyConfirmations
  MaxBirths,      \* forks, and jobs a daemon starts
  MaxForeign,     \* processes and jobs of others that appear
  MaxFaults       \* failed reads, and account checks that fail

ASSUME ProcessConstants ==
  /\ IsFiniteSet(Pids) /\ NoPid \notin Pids
  /\ Sweeps \in Nat \ {0} /\ Attempts \in Nat \ {0} /\ Confirmations \in Nat \ {0}
  /\ MaxBirths \in Nat /\ MaxForeign \in Nat /\ MaxFaults \in Nat

VARIABLES
  proc,      \* who has each PID
  pc,        \* where the command is
  sweep,     \* 0 is the SIGTERM pass
  attempt, confirm,
  todo,      \* entries of the last /proc listing not inspected yet
  cur, fd,   \* the process being signalled, and what its pidfd refers to
  seen,      \* a process of the UID was met in this scan
  stable,    \* no listed entry had vanished in this scan
  err,       \* this pass has an error to report
  births, foreign, faults,
  hid,       \* a listed process was hidden before its turn: see Hides
  sure       \* some confirming scan had nothing hidden from it

host == <<proc, births, foreign>>
signalling == <<cur, fd>>
scan == <<seen, stable, sure>>
loops == <<sweep, attempt, confirm>>

\* free; target, a process with the UID in any credential of any thread, or in a
\* user namespace the UID owns; dying, the same with SIGKILL pending; zombie;
\* other, anybody else's; shot, one of those that was sent a signal.
ProcStates == {"free", "target", "dying", "zombie", "other", "shot"}

\* processGroupHasUID.  A zombie has no thread that runs.
HasUID(p) == proc[p] \in {"target", "dying"}
Listing == {p \in Pids : proc[p] # "free"}

-----------------------------------------------------------------------------
(* The host.                                                                  *)

Fork(p) ==
  /\ proc[p] = "target" /\ births < MaxBirths /\ births' = births + 1
  /\ \E q \in Pids : proc[q] = "free" /\ proc' = [proc EXCEPT ![q] = "target"]
  /\ UNCHANGED <<foreign, fd, hid>>

\* A pidfd never refers to a later process with the same PID.
Closes(p) == fd' = IF p = cur /\ fd # "none" THEN "dead" ELSE fd

\* An entry that was listed and turns into something that is neither absent nor
\* of the UID hides whatever the process forked after the listing.
Hides(p) == hid' = (hid \/ (pc = "read" /\ p \in todo))

Exit(p) ==
  /\ HasUID(p) /\ Closes(p)
  /\ \/ proc' = [proc EXCEPT ![p] = "free"] /\ UNCHANGED hid
     \/ proc' = [proc EXCEPT ![p] = "zombie"] /\ Hides(p)
  /\ UNCHANGED <<births, foreign>>

Reap(p) ==
  /\ proc[p] = "zombie" /\ proc' = [proc EXCEPT ![p] = "free"]
  /\ UNCHANGED <<births, foreign, fd, hid>>

OtherStarts(p) ==
  /\ proc[p] = "free" /\ foreign < MaxForeign /\ foreign' = foreign + 1
  /\ proc' = [proc EXCEPT ![p] = "other"] /\ Hides(p)
  /\ UNCHANGED <<births, fd>>

OtherExits(p) ==
  /\ proc[p] \in {"other", "shot"} /\ Closes(p)
  /\ proc' = [proc EXCEPT ![p] = "free"]
  /\ UNCHANGED <<births, foreign, hid>>

-----------------------------------------------------------------------------
(* signalUID.                                                                 *)

Fault == faults < MaxFaults /\ faults' = faults + 1
Fine == UNCHANGED faults
Goto(l) == pc' = l

\* The directory is read.
StartSweep ==
  /\ pc = "signal" /\ todo' = Listing /\ Goto("match")
  /\ UNCHANGED <<host, hid, loops, signalling, scan, err, faults>>

\* The first look at a listed group; an unreadable one is skipped and reported.
Match(p) ==
  /\ pc = "match" /\ p \in todo /\ todo' = todo \ {p}
  /\ \/ Fine /\ HasUID(p) /\ cur' = p /\ Goto("open") /\ UNCHANGED err
     \/ Fine /\ ~HasUID(p) /\ UNCHANGED <<pc, cur, err>>
     \/ Fault /\ err' = TRUE /\ UNCHANGED <<pc, cur>>
  /\ UNCHANGED <<host, hid, loops, fd, scan>>

\* closeFD, and on to the next entry.
Close == Goto("match") /\ fd' = "none" /\ cur' = NoPid

\* pidfdOpen: whoever has the PID now.
Open ==
  /\ pc = "open"
  /\ IF proc[cur] = "free" THEN Close
     ELSE /\ Goto("recheck") /\ UNCHANGED cur
          /\ fd' = IF HasUID(cur) THEN "own"
                   ELSE IF proc[cur] = "zombie" THEN "dead" ELSE "foreign"
  /\ UNCHANGED <<host, hid, loops, todo, scan, err, faults>>

\* The look that counts, with the pidfd already held.
Recheck ==
  /\ pc = "recheck"
  /\ \/ Fine /\ HasUID(cur) /\ Goto("send") /\ UNCHANGED <<signalling, err>>
     \/ Fine /\ ~HasUID(cur) /\ Close /\ UNCHANGED err
     \/ Fault /\ err' = TRUE /\ Close
  /\ UNCHANGED <<host, hid, loops, todo, scan>>

\* Mutant: the signal goes to the PID.
SendToPid ==
  /\ pc = "send" /\ Close
  /\ proc' = CASE proc[cur] = "target" /\ sweep > 0 -> [proc EXCEPT ![cur] = "dying"]
               [] proc[cur] = "other" -> [proc EXCEPT ![cur] = "shot"]
               [] OTHER -> proc
  /\ UNCHANGED <<births, foreign, hid, loops, todo, scan, err, faults>>

\* pidfdSendSignal.  SIGTERM may be ignored, SIGKILL may be delayed for ever.
Send ==
  /\ pc = "send" /\ Close
  /\ proc' = CASE fd = "own" /\ sweep > 0 -> [proc EXCEPT ![cur] = "dying"]
               [] fd = "foreign" -> [proc EXCEPT ![cur] = "shot"]
               [] OTHER -> proc
  /\ UNCHANGED <<births, foreign, hid, loops, todo, scan, err, faults>>

\* After SIGTERM, SIGKILL; after SIGKILL, processesForUID.
Signalled ==
  /\ pc = "match" /\ todo = {}
  /\ IF sweep = 0 THEN sweep' = 1 /\ Goto("signal") ELSE UNCHANGED sweep /\ Goto("scan")
  /\ UNCHANGED <<host, hid, attempt, confirm, todo, signalling, scan, err, faults>>

-----------------------------------------------------------------------------
(* processesForUID.                                                           *)

\* processSnapshotForUID reads the directory.
StartScan ==
  /\ pc = "scan" /\ todo' = Listing /\ Goto("read")
  /\ UNCHANGED <<host, hid, loops, signalling, scan, err, faults>>

\* Mutant: an entry that has vanished is simply not of the UID.
InspectVanishedIsAbsent(p) ==
  /\ pc = "read" /\ p \in todo /\ todo' = todo \ {p} /\ Fine
  /\ seen' = (seen \/ HasUID(p)) /\ UNCHANGED stable
  /\ UNCHANGED <<pc, host, hid, loops, signalling, sure, err>>

\* One entry.  Vanished: the snapshot proves nothing.
Inspect(p) ==
  /\ pc = "read" /\ p \in todo /\ todo' = todo \ {p} /\ Fine
  /\ seen' = (seen \/ HasUID(p)) /\ stable' = (stable /\ proc[p] # "free")
  /\ UNCHANGED <<pc, host, hid, loops, signalling, sure, err>>

\* TerminateProcesses returns.
Terminated == sweep' = 0 /\ attempt' = 0 /\ confirm' = 0 /\ Goto("crontab")

\* The sweep did not end with an empty UID: another, or report it.
NextSweep ==
  IF sweep < Sweeps
  THEN sweep' = sweep + 1 /\ attempt' = 0 /\ confirm' = 0 /\ Goto("signal")
  ELSE Terminated

\* The results of one scan are not kept for the next.
Forget == hid' = FALSE /\ seen' = FALSE /\ stable' = TRUE

\* A read error ends the scan, not the sweeps.
ScanFails ==
  /\ pc = "read" /\ Fault /\ err' = TRUE /\ todo' = {} /\ NextSweep /\ Forget
  /\ UNCHANGED <<host, signalling, sure>>

\* Some process is left.
ScanFound ==
  /\ pc = "read" /\ todo = {} /\ seen /\ NextSweep /\ Forget /\ err' = (err \/ sweep = Sweeps)
  /\ UNCHANGED <<host, todo, signalling, sure, faults>>

\* Empty; only consecutive stable scans confirm it.
ScanEmpty ==
  /\ pc = "read" /\ todo = {} /\ ~seen /\ Forget
  /\ sure' = (~hid \/ (sure /\ confirm > 0))
  /\ LET n == IF stable THEN confirm + 1 ELSE 0
     IN  CASE n = Confirmations -> Terminated /\ UNCHANGED err
           [] n # Confirmations /\ attempt + 1 < Attempts ->
                confirm' = n /\ attempt' = attempt + 1 /\ Goto("scan") /\ UNCHANGED <<sweep, err>>
           [] OTHER -> err' = TRUE /\ NextSweep
  /\ UNCHANGED <<host, todo, signalling, faults>>

TerminateStep ==
  \/ StartSweep \/ Open \/ Recheck \/ Send \/ Signalled
  \/ StartScan \/ ScanFails \/ ScanFound \/ ScanEmpty
  \/ \E p \in Pids : Match(p) \/ Inspect(p)
=============================================================================
