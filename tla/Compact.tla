------------------------------ MODULE Compact ------------------------------
(***************************************************************************)
(* cleanup-expired --compact (compactLocked): sweep the sshd exceptions,   *)
(* the sudoers grants and the tasks that no live account of this tool's    *)
(* owns, then drop the rows of accounts that are gone.  A task is the last *)
(* thing that would remove a grant, and a row the last thing that names    *)
(* it, so whatever could not be confirmed keeps both.                      *)
(***************************************************************************)
EXTENDS Inventory

\* Drop a field of the names in S.
NoSSHD(S) == h' = [n \in Names |-> IF n \in S THEN [h[n] EXCEPT !.sshd = FALSE] ELSE h[n]]
NoSudo(S) == h' = [n \in Names |-> IF n \in S THEN [h[n] EXCEPT !.sudo = FALSE] ELSE h[n]]
NoTask(S) == h' = [n \in Names |-> IF n \in S THEN [h[n] EXCEPT !.task = FALSE] ELSE h[n]]

FineIf(ok) == IF ok THEN Fine ELSE Fault
Rc(ok) == IF ok THEN op.rc ELSE 1

\* SSHD.Orphans, then Remove one by one.  A Remove that failed pins the task even
\* when the file is gone: the daemon may not have been reloaded.
SweepSSHD ==
  LET orphans == {n \in Names : h[n].sshd /\ ~OursAndLive(h[n])}
  IN  /\ op.pc = "sshd"
      /\ \/ /\ Fault /\ UNCHANGED h
            /\ op' = [op EXCEPT !.pc = "sudo", !.incomplete = TRUE, !.rc = 1]
         \/ \E failed \in SUBSET orphans : \E unlinked \in SUBSET failed :
              /\ FineIf(failed = {}) /\ NoSSHD((orphans \ failed) \cup unlinked)
              /\ op' = [op EXCEPT !.pc = "sudo", !.kept = failed, !.rc = Rc(failed = {})]

\* Sudoers.Orphans and Remove; pinIfStillOnDisk.
SweepSudo ==
  LET orphans == {n \in Names : h[n].sudo /\ ~OursAndLive(h[n])}
  IN  /\ op.pc = "sudo"
      /\ \/ /\ Fault /\ UNCHANGED h
            /\ op' = [op EXCEPT !.pc = "tasks", !.incomplete = TRUE, !.rc = 1]
         \/ \E failed \in SUBSET orphans : \E unlinked \in SUBSET failed :
              /\ FineIf(failed = {}) /\ NoSudo((orphans \ failed) \cup unlinked)
              /\ op' = [op EXCEPT !.pc = "tasks", !.kept = @ \cup (failed \ unlinked),
                                  !.rc = Rc(failed = {})]

\* Scheduler.Orphans and Cancel, except where a grant may be left.
SweepTasks ==
  LET orphans == {n \in Names : h[n].task /\ ~NeedsAutoRevoke(h[n])}
      sure == IF op.incomplete THEN {} ELSE orphans \ op.kept
  IN  /\ op.pc = "tasks"
      /\ \/ Fault /\ UNCHANGED h /\ op' = [op EXCEPT !.pc = "rows", !.rc = 1]
         \/ \E failed \in SUBSET sure : \E gone \in SUBSET failed :
              /\ FineIf(failed = {}) /\ NoTask((sure \ failed) \cup gone)
              /\ op' = [op EXCEPT !.pc = "rows", !.rc = Rc(failed = {} /\ sure = orphans)]

\* Mutant: the rows are compacted whatever the sweeps reported.
CompactRowsAlways ==
  /\ op.pc = "rows" /\ op' = IdleOp /\ Fine
  /\ h' = [n \in Names |-> IF Classify(h[n]) = "missing"
                           THEN [h[n] EXCEPT !.row = "none", !.rid = 0] ELSE h[n]]

\* Registry.Compact, only after sweeps that completed: rows whose account is
\* gone, deletion rows excepted.
CompactRows ==
  /\ op.pc = "rows" /\ op' = IdleOp
  /\ LET compacted == [n \in Names |-> IF Classify(h[n]) = "missing"
                                       THEN [h[n] EXCEPT !.row = "none", !.rid = 0] ELSE h[n]]
     IN  IF op.rc # 0 THEN UNCHANGED h /\ Fine
         ELSE \/ h' = compacted /\ Fine
              \/ h' \in {h, compacted} /\ Fault

CompactStep == SweepSSHD \/ SweepSudo \/ SweepTasks \/ CompactRows
=============================================================================
