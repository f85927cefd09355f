----------------------------- MODULE SSHDProofs -----------------------------
(***************************************************************************)
(* Two parts.  SSHDExceptions, for every set of commands and users and     *)
(* every bound: sshd is never asked to load an unchecked drop-in, and what *)
(* it may enforce can always be found on disk; both rest on what the one   *)
(* command inside the lock knows at each of its steps (InsideInv).         *)
(* InvitePolicy, for every configuration, source order and sudo listing:   *)
(* what an invite says of the login and of sudo is so (LoginInv).          *)
(***************************************************************************)
EXTENDS SSHDExceptions, InvitePolicy, FiniteSetTheorems, WellFoundedInduction, TLAPS

Inside(p) == pr[p].pc \notin {"idle", "lock"}
NoBad == \A u \in Users : conf[u] # "bad"

\* The lock is held by the command that is inside.
LockInv == \A p \in Procs : Inside(p) => lock = p

\* A command that has begun names a user; a grant that has not reloaded sshd has
\* no old exception to take out of its memory.
UserInv == \A p \in Procs :
  /\ pr[p].pc # "idle" => pr[p].user \in Users
  /\ pr[p].pc \in {"lock", "check", "write", "verify", "reload"} => ~pr[p].restore
  /\ pr[p].pc = "lock" => pr[p].op # "none"

\* What a command knows, from its own look at the files to the step that uses it.
\* A grant that has loaded nothing yet finds the user enforced only if a removal
\* of an earlier exception is still pending.
KnowsInv(p) ==
  LET u == pr[p].user
  IN  /\ pr[p].pc \in {"reload", "notify"} => NoBad
      /\ pr[p].pc = "unlink" => u \in pend
      /\ pr[p].pc = "unlink" /\ ~NeedsReload(pr[p]) /\ OnlyOwnReloads => u \notin mem
      /\ pr[p].pc \in {"validate", "notify", "clear"} => conf[u] = "none"
      /\ pr[p].pc = "clear" /\ OnlyOwnReloads => u \notin mem
      /\ pr[p].pc \in {"write", "verify", "reload", "stage"} /\ pr[p].op # "remove"
           /\ ~pr[p].pre /\ ~pr[p].restore /\ OnlyOwnReloads
           => (u \in mem => u \in pend)

InsideInv == LockInv /\ UserInv /\ \A p \in Procs : KnowsInv(p)
SSHDInv == TypeOK /\ InsideInv /\ ExceptionTracked

-----------------------------------------------------------------------------
(* The bounds, and the frame of a step.                                      *)

LeftType == left \in [grants : 0..Grants, faults : 0..Faults, syncs : 0..SyncFaults,
                      edits : 0..OutsideEdits, reloads : 0..OutsideReloads]

\* Whatever a step of the program spends, nobody else has reloaded sshd by it.
LEMMA Spending ==
  ASSUME LeftType, Fine \/ Fault \/ Spend("syncs") \/ Spend("edits") \/ Spend("grants")
  PROVE  LeftType' /\ (OnlyOwnReloads' <=> OnlyOwnReloads)
<1>1. CASE Fine
  BY <1>1 DEF Fine, LeftType, OnlyOwnReloads
<1>2. ASSUME NEW f \in {"faults", "syncs", "edits", "grants"}, Spend(f)
      PROVE  LeftType' /\ (OnlyOwnReloads' <=> OnlyOwnReloads)
  BY <1>2, SSHDAssumption DEF Spend, LeftType, OnlyOwnReloads
<1> QED
  BY <1>1, <1>2 DEF Fault

\* A reload by somebody else is remembered.
LEMMA ReloadSpent ==
  ASSUME LeftType, Spend("reloads")
  PROVE  LeftType' /\ ~OnlyOwnReloads'
BY SSHDAssumption DEF Spend, LeftType, OnlyOwnReloads

\* Only one command is inside.
LEMMA OneInside ==
  ASSUME InsideInv, NEW p \in Procs, Inside(p), NEW q \in Procs, q # p
  PROVE  ~Inside(q)
BY DEF InsideInv, LockInv

\* A command outside knows nothing.
LEMMA OutsideKnows ==
  ASSUME NEW p, ~Inside(p)
  PROVE  KnowsInv(p)
BY DEF Inside, KnowsInv

\* A step of the command inside can disturb only what it knows itself.
LEMMA InsideFrame ==
  ASSUME InsideInv, NEW p \in Procs, Inside(p),
         \A q \in Procs \ {p} : pr'[q] = pr[q],
         \/ pr'[p].pc = "idle"
         \/ /\ lock' = lock /\ pr'[p].user \in Users
            /\ pr'[p].pc \in {"check", "write", "verify", "reload"} => ~pr'[p].restore
            /\ pr'[p].pc # "lock",
         KnowsInv(p)'
  PROVE  InsideInv'
<1>1. \A q \in Procs \ {p} : ~Inside(q)'
  BY OneInside DEF Inside
<1>2. LockInv'
  BY <1>1 DEF InsideInv, LockInv, Inside
<1>3. UserInv'
  BY DEF InsideInv, UserInv
<1>4. \A q \in Procs \ {p} : KnowsInv(q)'
  BY <1>1 DEF Inside, KnowsInv
<1> QED
  BY <1>2, <1>3, <1>4 DEF InsideInv

\* A call that returns.
LEMMA Returned ==
  ASSUME TypeOK, NEW p \in Procs, Return(p) \/ ReturnOK(p)
  PROVE  /\ pr' = [pr EXCEPT ![p] = Idle] /\ lock' = NoProc /\ pr'[p] = Idle
         /\ \A q \in Procs \ {p} : pr'[q] = pr[q]
         /\ removed' \subseteq removed \cup {pr[p].user}
         /\ removed' # removed => pr[p].op = "remove"
BY DEF Return, ReturnOK, TypeOK, U

\* A call that moves on to another label.
LEMMA Moved ==
  ASSUME TypeOK, NEW p \in Procs, NEW l, Goto(p, l)
  PROVE  /\ pr'[p] = [pr[p] EXCEPT !.pc = l] /\ lock' = lock /\ removed' = removed
         /\ \A q \in Procs \ {p} : pr'[q] = pr[q]
BY DEF Goto, TypeOK

-----------------------------------------------------------------------------
(* Types.                                                                     *)

FileType ==
  /\ conf \in [Users -> Contents \cup {"none"}] /\ pend \in SUBSET Users
  /\ saved \in [conf : [Users -> Contents \cup {"none"}], pend : SUBSET Users]
HostType == mem \in SUBSET Users /\ host \in BOOLEAN /\ removed \in SUBSET Users
ProcType ==
  /\ lock \in Procs \cup {NoProc}
  /\ pr \in [Procs -> [pc : Pcs, op : {"none", "grant", "remove"}, user : Users \cup {"none"},
                       pre : BOOLEAN, inherited : BOOLEAN, restore : BOOLEAN]]

\* The initial state is typed.
LEMMA TypeInit == Init => TypeOK
<1> SUFFICES ASSUME Init PROVE TypeOK
  OBVIOUS
<1>1. FileType /\ HostType
  BY DEF Init, FileType, HostType
<1>2. ProcType
  BY DEF Init, ProcType, Idle, Pcs
<1>3. LeftType
  BY SSHDAssumption DEF Init, LeftType
<1> QED
  BY <1>1, <1>2, <1>3 DEF TypeOK, FileType, HostType, ProcType, LeftType

\* What sshd takes from disk is a set of users.
LEMMA AdoptedType == Adopted \in SUBSET Users /\ \A u \in Adopted : conf[u] = "good"
BY DEF Adopted, OnDisk

\* The ways a command changes its own record.
LEMMA ReturnType ==
  ASSUME ProcType, HostType, UserInv, NEW p \in Procs, ~At(p, "idle"), Return(p) \/ ReturnOK(p)
  PROVE  ProcType' /\ removed' \in SUBSET Users
<1>1. Idle \in [pc : Pcs, op : {"none", "grant", "remove"}, user : Users \cup {"none"},
                 pre : BOOLEAN, inherited : BOOLEAN, restore : BOOLEAN]
  BY DEF Idle, Pcs
<1>2. ProcType'
  BY <1>1 DEF ProcType, Return, ReturnOK
<1>3. U(p) \in Users
  BY DEF UserInv, U, At
<1>4. removed' = removed \/ removed' = removed \cup {U(p)}
  BY DEF Return, ReturnOK
<1> QED
  BY <1>2, <1>3, <1>4 DEF HostType

\* Moving to another label keeps the types.
LEMMA GotoType ==
  ASSUME ProcType, HostType, NEW p \in Procs, NEW l \in Pcs, Goto(p, l)
  PROVE  ProcType' /\ removed' \in SUBSET Users
BY DEF ProcType, HostType, Goto

\* The records a command may have.
Records == [pc : Pcs, op : {"none", "grant", "remove"}, user : Users \cup {"none"},
            pre : BOOLEAN, inherited : BOOLEAN, restore : BOOLEAN]

\* So does beginning a rollback,
LEMMA RollbackType ==
  ASSUME ProcType, NEW p \in Procs, NEW b \in BOOLEAN, Rollback(p, b)
  PROVE  ProcType'
<1> DEFINE r == [pr[p] EXCEPT !.pc = "stage", !.restore = b]
<1>1. r \in Records
  BY DEF ProcType, Records, Pcs
<1>2. pr' = [pr EXCEPT ![p] = r]
  BY DEF ProcType, Rollback
<1>3. pr \in [Procs -> Records] /\ lock' \in Procs \cup {NoProc}
  BY DEF ProcType, Records, Rollback
<1> HIDE DEF r
<1>4. pr' \in [Procs -> Records]
  BY <1>1, <1>2, <1>3
<1> QED
  BY <1>3, <1>4 DEF ProcType, Records

\* noting whether there was a file before,
LEMMA PreType ==
  ASSUME ProcType, NEW p \in Procs, NEW b \in BOOLEAN, UNCHANGED lock,
         pr' = [pr EXCEPT ![p].pc = "write", ![p].pre = b]
  PROVE  ProcType'
<1> DEFINE r == [pr[p] EXCEPT !.pc = "write", !.pre = b]
<1>1. r \in Records
  BY DEF ProcType, Records, Pcs
<1>2. pr' = [pr EXCEPT ![p] = r]
  BY DEF ProcType
<1>3. pr \in [Procs -> Records] /\ lock' \in Procs \cup {NoProc}
  BY DEF ProcType, Records
<1> HIDE DEF r
<1>4. pr' \in [Procs -> Records]
  BY <1>1, <1>2, <1>3
<1> QED
  BY <1>3, <1>4 DEF ProcType, Records

\* and noting whether a removal was already pending.
LEMMA StageType ==
  ASSUME ProcType, NEW p \in Procs, NEW b \in BOOLEAN, NEW l \in Pcs, UNCHANGED lock,
         pr' = [pr EXCEPT ![p].pc = l, ![p].inherited = b]
  PROVE  ProcType'
<1> DEFINE r == [pr[p] EXCEPT !.pc = l, !.inherited = b]
<1>1. r \in Records
  BY DEF ProcType, Records, Pcs
<1>2. pr' = [pr EXCEPT ![p] = r]
  BY DEF ProcType
<1>3. pr \in [Procs -> Records] /\ lock' \in Procs \cup {NoProc}
  BY DEF ProcType, Records
<1> HIDE DEF r
<1>4. pr' \in [Procs -> Records]
  BY <1>1, <1>2, <1>3
<1> QED
  BY <1>3, <1>4 DEF ProcType, Records

\* Every step keeps the types.
LEMMA TypeStep ==
  ASSUME TypeOK, UserInv, [Next]_vars
  PROVE  TypeOK'
<1>t. FileType /\ HostType /\ ProcType /\ LeftType
  BY DEF TypeOK, FileType, HostType, ProcType, LeftType
<1>s. ASSUME FileType', HostType', ProcType', LeftType' PROVE TypeOK'
  BY <1>s DEF TypeOK, FileType, HostType, ProcType, LeftType
<1>l. Pcs = {"idle", "lock", "check", "write", "verify", "reload", "stage", "unlink",
             "validate", "notify", "clear"} /\ TRUE \in BOOLEAN /\ FALSE \in BOOLEAN
  BY DEF Pcs
<1>1. ASSUME NEW p \in Procs, NEW u \in Users, StartGrant(p, u) PROVE TypeOK'
  <2> USE <1>1
  <2>1. FileType'
    BY <1>t DEF StartGrant, disk, FileType
  <2>2. ProcType' /\ removed' \in SUBSET Users
    BY <1>t DEF StartGrant, ProcType, HostType, Idle, Pcs
  <2>3. mem' \in SUBSET Users /\ host' \in BOOLEAN
    BY <1>t DEF StartGrant, HostType
  <2>4. LeftType'
    BY <1>t, Spending DEF StartGrant, Unsynced
  <2> QED
    BY <1>s, <2>1, <2>2, <2>3, <2>4 DEF HostType
<1>2. ASSUME NEW p \in Procs, NEW u \in Users, StartRemove(p, u) PROVE TypeOK'
  <2> USE <1>2
  <2>1. FileType'
    BY <1>t DEF StartRemove, disk, FileType
  <2>2. ProcType' /\ removed' \in SUBSET Users
    BY <1>t DEF StartRemove, ProcType, HostType, Idle, Pcs
  <2>3. mem' \in SUBSET Users /\ host' \in BOOLEAN
    BY <1>t DEF StartRemove, HostType
  <2>4. LeftType'
    BY <1>t, Spending DEF StartRemove, Unsynced
  <2> QED
    BY <1>s, <2>1, <2>2, <2>3, <2>4 DEF HostType
<1>3. ASSUME NEW p \in Procs, WithLock(p) PROVE TypeOK'
  <2> USE <1>3
  <2>1. FileType'
    BY <1>t DEF WithLock, disk, FileType
  <2>2. ProcType' /\ removed' \in SUBSET Users
    BY <1>t DEF WithLock, ProcType, HostType, Idle, Pcs
  <2>3. mem' \in SUBSET Users /\ host' \in BOOLEAN
    BY <1>t DEF WithLock, HostType
  <2>4. LeftType'
    BY <1>t, Spending DEF WithLock, Unsynced
  <2> QED
    BY <1>s, <2>1, <2>2, <2>3, <2>4 DEF HostType
<1>4. ASSUME NEW p \in Procs, GrantCheck(p) PROVE TypeOK'
  <2> USE <1>4
  <2>u. ~At(p, "idle") /\ U(p) \in Users
    BY DEF GrantCheck, At, U, UserInv
  <2>1. FileType'
    BY <1>t DEF GrantCheck, disk, FileType
  <2>2. ProcType' /\ removed' \in SUBSET Users
    <3> DEFINE b == conf[U(p)] # "none"
    <3>1. b \in BOOLEAN
      OBVIOUS
    <3>2. (pr' = [pr EXCEPT ![p].pc = "write", ![p].pre = b] /\ UNCHANGED <<lock, removed>>) \/ Return(p)
      BY DEF GrantCheck
    <3> HIDE DEF b
    <3> QED
      BY <1>t, <2>u, <3>1, <3>2, PreType, ReturnType DEF HostType
  <2>3. mem' \in SUBSET Users /\ host' \in BOOLEAN
    BY <1>t DEF GrantCheck, HostType
  <2>4. LeftType'
    BY <1>t, Spending DEF GrantCheck, Unsynced
  <2> QED
    BY <1>s, <2>1, <2>2, <2>3, <2>4 DEF HostType
<1>5. ASSUME NEW p \in Procs, GrantWrite(p) PROVE TypeOK'
  <2> USE <1>5
  <2>u. ~At(p, "idle") /\ U(p) \in Users
    BY DEF GrantWrite, At, U, UserInv
  <2>1. FileType'
    <3>1. UNCHANGED <<conf, pend, saved>> \/ Synced \/ Unsynced
      BY DEF GrantWrite, disk
    <3>2. conf' \in [Users -> Contents \cup {"none"}] /\ pend' \in SUBSET Users
      <4>1. /\ \/ \E c \in Contents : conf' = [conf EXCEPT ![U(p)] = c]
               \/ UNCHANGED conf
            /\ UNCHANGED pend
        BY DEF GrantWrite, disk
      <4> QED
        BY <1>t, <2>u, <4>1 DEF FileType
    <3> QED
      BY <1>t, <3>1, <3>2 DEF FileType, Synced, Unsynced
  <2>2. ProcType' /\ removed' \in SUBSET Users
    <3>1. \/ pr' = [pr EXCEPT ![p].pc = "verify"] /\ UNCHANGED lock /\ removed' = removed \ {U(p)}
          \/ Rollback(p, FALSE) /\ removed' = removed \ {U(p)}
          \/ Return(p)
      BY DEF GrantWrite
    <3>2. ASSUME pr' = [pr EXCEPT ![p].pc = "verify"], UNCHANGED lock PROVE ProcType'
      BY <1>t, <3>2 DEF ProcType, Pcs
    <3>3. removed \ {U(p)} \in SUBSET Users
      BY <1>t DEF HostType
    <3> QED
      BY <1>t, <1>l, <2>u, <3>1, <3>2, <3>3, RollbackType, ReturnType
  <2>3. mem' \in SUBSET Users /\ host' \in BOOLEAN
    BY <1>t DEF GrantWrite, HostType
  <2>4. LeftType'
    BY <1>t, Spending DEF GrantWrite, Unsynced
  <2> QED
    BY <1>s, <2>1, <2>2, <2>3, <2>4 DEF HostType
<1>6. ASSUME NEW p \in Procs, GrantVerify(p) PROVE TypeOK'
  <2> USE <1>6
  <2>u. ~At(p, "idle") /\ U(p) \in Users
    BY DEF GrantVerify, At, U, UserInv
  <2>1. FileType'
    BY <1>t DEF GrantVerify, disk, FileType
  <2>2. ProcType' /\ removed' \in SUBSET Users
    <3>1. Goto(p, "reload") \/ (Rollback(p, FALSE) /\ UNCHANGED removed)
      BY DEF GrantVerify
    <3> QED
      BY <1>t, <1>l, <3>1, RollbackType, GotoType DEF HostType
  <2>3. mem' \in SUBSET Users /\ host' \in BOOLEAN
    BY <1>t DEF GrantVerify, HostType
  <2>4. LeftType'
    BY <1>t, Spending DEF GrantVerify, Unsynced
  <2> QED
    BY <1>s, <2>1, <2>2, <2>3, <2>4 DEF HostType
<1>7. ASSUME NEW p \in Procs, GrantReload(p) PROVE TypeOK'
  <2> USE <1>7
  <2>u. ~At(p, "idle") /\ U(p) \in Users
    BY DEF GrantReload, At, U, UserInv
  <2>1. FileType'
    BY <1>t DEF GrantReload, disk, FileType
  <2>2. ProcType' /\ removed' \in SUBSET Users
    <3>1. ReturnOK(p) \/ (Rollback(p, TRUE) /\ UNCHANGED removed)
      BY DEF GrantReload
    <3> QED
      BY <1>t, <1>l, <2>u, <3>1, RollbackType, ReturnType DEF HostType
  <2>3. mem' \in SUBSET Users /\ host' \in BOOLEAN
    <3>1. mem' = Adopted \/ mem' = mem
      BY DEF GrantReload
    <3> QED
      BY <1>t, <3>1, AdoptedType DEF GrantReload, HostType
  <2>4. LeftType'
    BY <1>t, Spending DEF GrantReload, Unsynced
  <2> QED
    BY <1>s, <2>1, <2>2, <2>3, <2>4 DEF HostType
<1>8. ASSUME NEW p \in Procs, StageRemoval(p) PROVE TypeOK'
  <2> USE <1>8
  <2>u. ~At(p, "idle") /\ U(p) \in Users
    BY DEF StageRemoval, At, U, UserInv
  <2>1. FileType'
    <3>1. UNCHANGED <<conf, pend, saved>> \/ Synced \/ Unsynced
      BY DEF StageRemoval, disk
    <3>2. UNCHANGED conf /\ pend' \in SUBSET Users
      BY <1>t, <2>u DEF StageRemoval, disk, FileType, U
    <3> QED
      BY <1>t, <3>1, <3>2 DEF FileType, Synced, Unsynced
  <2>2. ProcType' /\ removed' \in SUBSET Users
    <3> DEFINE b == U(p) \in pend
    <3>1. b \in BOOLEAN
      OBVIOUS
    <3>2. \/ Return(p) \/ ReturnOK(p)
          \/ /\ pr' = [pr EXCEPT ![p].pc = "validate", ![p].inherited = b]
             /\ UNCHANGED <<lock, removed>>
          \/ /\ pr' = [pr EXCEPT ![p].pc = "unlink", ![p].inherited = b]
             /\ UNCHANGED <<lock, removed>>
      BY DEF StageRemoval
    <3> HIDE DEF b
    <3> QED
      BY <1>t, <1>l, <2>u, <3>1, <3>2, StageType, ReturnType DEF HostType
  <2>3. mem' \in SUBSET Users /\ host' \in BOOLEAN
    BY <1>t DEF StageRemoval, HostType
  <2>4. LeftType'
    BY <1>t, Spending DEF StageRemoval, Unsynced
  <2> QED
    BY <1>s, <2>1, <2>2, <2>3, <2>4 DEF HostType
<1>9. ASSUME NEW p \in Procs, UnlinkDropIn(p) PROVE TypeOK'
  <2> USE <1>9
  <2>u. ~At(p, "idle") /\ U(p) \in Users
    BY DEF UnlinkDropIn, At, U, UserInv
  <2>1. FileType'
    <3>1. UNCHANGED <<conf, pend, saved>> \/ Synced \/ Unsynced
      BY DEF UnlinkDropIn, disk
    <3>2. conf' \in [Users -> Contents \cup {"none"}] /\ pend' \in SUBSET Users
      BY <1>t, <2>u DEF UnlinkDropIn, disk, FileType, U
    <3> QED
      BY <1>t, <3>1, <3>2 DEF FileType, Synced, Unsynced
  <2>2. ProcType' /\ removed' \in SUBSET Users
    <3>1. Goto(p, "validate") \/ Goto(p, "clear") \/ Return(p)
      BY DEF UnlinkDropIn
    <3> QED
      BY <1>t, <1>l, <2>u, <3>1, GotoType, ReturnType
  <2>3. mem' \in SUBSET Users /\ host' \in BOOLEAN
    BY <1>t DEF UnlinkDropIn, HostType
  <2>4. LeftType'
    BY <1>t, Spending DEF UnlinkDropIn, Unsynced
  <2> QED
    BY <1>s, <2>1, <2>2, <2>3, <2>4 DEF HostType
<1>10. ASSUME NEW p \in Procs, FinishValidate(p) PROVE TypeOK'
  <2> USE <1>10
  <2>u. ~At(p, "idle") /\ U(p) \in Users
    BY DEF FinishValidate, At, U, UserInv
  <2>1. FileType'
    BY <1>t DEF FinishValidate, disk, FileType
  <2>2. ProcType' /\ removed' \in SUBSET Users
    <3>1. Goto(p, "notify") \/ Return(p)
      BY DEF FinishValidate
    <3> QED
      BY <1>t, <1>l, <2>u, <3>1, GotoType, ReturnType
  <2>3. mem' \in SUBSET Users /\ host' \in BOOLEAN
    BY <1>t DEF FinishValidate, HostType
  <2>4. LeftType'
    BY <1>t, Spending DEF FinishValidate, Unsynced
  <2> QED
    BY <1>s, <2>1, <2>2, <2>3, <2>4 DEF HostType
<1>11. ASSUME NEW p \in Procs, FinishReload(p) PROVE TypeOK'
  <2> USE <1>11
  <2>u. ~At(p, "idle") /\ U(p) \in Users
    BY DEF FinishReload, At, U, UserInv
  <2>1. FileType'
    BY <1>t DEF FinishReload, disk, FileType
  <2>2. ProcType' /\ removed' \in SUBSET Users
    <3>1. Goto(p, "clear") \/ Return(p)
      BY DEF FinishReload
    <3> QED
      BY <1>t, <1>l, <2>u, <3>1, GotoType, ReturnType
  <2>3. mem' \in SUBSET Users /\ host' \in BOOLEAN
    <3>1. mem' = Adopted \/ mem' = mem
      BY DEF FinishReload
    <3> QED
      BY <1>t, <3>1, AdoptedType DEF FinishReload, HostType
  <2>4. LeftType'
    BY <1>t, Spending DEF FinishReload, Unsynced
  <2> QED
    BY <1>s, <2>1, <2>2, <2>3, <2>4 DEF HostType
<1>12. ASSUME NEW p \in Procs, ClearPending(p) PROVE TypeOK'
  <2> USE <1>12
  <2>u. ~At(p, "idle") /\ U(p) \in Users
    BY DEF ClearPending, At, U, UserInv
  <2>1. FileType'
    <3>1. UNCHANGED <<conf, pend, saved>> \/ Synced \/ Unsynced
      BY DEF ClearPending, disk
    <3>2. UNCHANGED conf /\ pend' \in SUBSET Users
      BY <1>t, <2>u DEF ClearPending, disk, FileType, U
    <3> QED
      BY <1>t, <3>1, <3>2 DEF FileType, Synced, Unsynced
  <2>2. ProcType' /\ removed' \in SUBSET Users
    <3>1. Return(p) \/ ReturnOK(p)
      BY DEF ClearPending
    <3> QED
      BY <1>t, <2>u, <3>1, ReturnType
  <2>3. mem' \in SUBSET Users /\ host' \in BOOLEAN
    BY <1>t DEF ClearPending, HostType
  <2>4. LeftType'
    BY <1>t, Spending DEF ClearPending, Unsynced
  <2> QED
    BY <1>s, <2>1, <2>2, <2>3, <2>4 DEF HostType
<1>13. ASSUME NEW p \in Procs, Kill(p) PROVE TypeOK'
  <2> USE <1>13
  <2>1. FileType'
    BY <1>t DEF Kill, disk, FileType
  <2>2. ProcType' /\ removed' \in SUBSET Users
    BY <1>t DEF Kill, ProcType, HostType, Idle, Pcs
  <2>3. mem' \in SUBSET Users /\ host' \in BOOLEAN
    BY <1>t DEF Kill, HostType
  <2>4. LeftType'
    BY <1>t, Spending DEF Kill, Unsynced
  <2> QED
    BY <1>s, <2>1, <2>2, <2>3, <2>4 DEF HostType
<1>14. CASE PowerLoss
  <2>1. FileType'
    BY <1>t, <1>14 DEF PowerLoss, FileType, Synced
  <2>2. HostType'
    BY <1>t, <1>14 DEF PowerLoss, HostType, OnDisk
  <2>3. ProcType'
    BY <1>t, <1>14 DEF PowerLoss, ProcType, Idle, Pcs
  <2>4. LeftType'
    BY <1>t, <1>14, Spending DEF PowerLoss
  <2> QED
    BY <1>s, <2>1, <2>2, <2>3, <2>4
<1>15. CASE OutsideBreak \/ OutsideMend \/ OutsideReload
  <2>1. FileType' /\ ProcType'
    BY <1>t, <1>15 DEF OutsideBreak, OutsideMend, OutsideReload, FileType, ProcType, disk
  <2>2. HostType'
    BY <1>t, <1>15, AdoptedType DEF OutsideBreak, OutsideMend, OutsideReload, HostType
  <2>3. LeftType'
    BY <1>t, <1>15, Spending, ReloadSpent DEF OutsideBreak, OutsideMend, OutsideReload
  <2> QED
    BY <1>s, <2>1, <2>2, <2>3
<1>16. CASE UNCHANGED vars
  BY <1>16 DEF vars, disk, TypeOK
<1> QED
  BY <1>1, <1>2, <1>3, <1>4, <1>5, <1>6, <1>7, <1>8, <1>9, <1>10, <1>11,
     <1>12, <1>13, <1>14, <1>15, <1>16 DEF Next, Step

-----------------------------------------------------------------------------
(* What the command inside knows, and what sshd enforces, action by action.   *)

\* Nothing is known or enforced at first.
LEMMA InvInit == Init => InsideInv /\ ExceptionTracked
BY DEF Init, InsideInv, LockInv, UserInv, KnowsInv, Inside, Idle, ExceptionTracked

\* A call that returns knows nothing any more.
LEMMA ReturnFrame ==
  ASSUME TypeOK, InsideInv, NEW p \in Procs, Inside(p), Return(p) \/ ReturnOK(p)
  PROVE  InsideInv'
<1>1. pr'[p] = Idle /\ \A q \in Procs \ {p} : pr'[q] = pr[q]
  BY Returned
<1>2. pr'[p].pc = "idle"
  BY <1>1 DEF Idle
<1>3. KnowsInv(p)'
  BY <1>2 DEF KnowsInv
<1> QED
  BY <1>1, <1>2, <1>3, InsideFrame

\* Files that keep or gain names keep what was tracked.
LEMMA StillTracked ==
  ASSUME ExceptionTracked, OnlyOwnReloads' <=> OnlyOwnReloads,
         mem' = mem \/ mem' = {}, Listed \subseteq Listed'
  PROVE  ExceptionTracked'
BY DEF ExceptionTracked

\* What sshd has just taken from disk is on disk.
LEMMA AdoptedTracked ==
  ASSUME mem' = Adopted, UNCHANGED <<conf, pend>>
  PROVE  ExceptionTracked'
BY DEF ExceptionTracked, Adopted, OnDisk, Listed

\* Every action keeps what the command inside knows, and every exception tracked.
LEMMA InsideStep ==
  ASSUME SSHDInv, [Next]_vars
  PROVE  InsideInv' /\ ExceptionTracked'
<1>t. TypeOK /\ InsideInv /\ ExceptionTracked /\ LeftType /\ UserInv /\ ProcType
  BY DEF SSHDInv, InsideInv, TypeOK, LeftType, ProcType
<1>c. conf \in [Users -> Contents \cup {"none"}] /\ pend \subseteq Users /\ mem \subseteq Users
  BY DEF SSHDInv, TypeOK
<1>k. \A p \in Procs : KnowsInv(p)
  BY DEF SSHDInv, InsideInv
\* A command that is not inside afterwards, while the files and sshd stay.
<1>f. ASSUME NEW p \in Procs, UNCHANGED <<conf, pend, mem>>, OnlyOwnReloads' <=> OnlyOwnReloads,
             \A q \in Procs \ {p} : pr'[q] = pr[q],
             \A q \in Procs \ {p} : Inside(q) => lock' = q,
             pr'[p].pc # "idle" => pr'[p].user \in Users /\ ~pr'[p].restore /\ pr'[p].op # "none",
             ~Inside(p)'
      PROVE  InsideInv' /\ ExceptionTracked'
  <2>1. LockInv' /\ UserInv'
    BY <1>t, <1>f DEF LockInv, UserInv, Inside
  <2>2. \A q \in Procs : KnowsInv(q)'
    <3>1. KnowsInv(p)'
      BY <1>f DEF Inside, KnowsInv
    <3>2. ASSUME NEW q \in Procs \ {p} PROVE KnowsInv(q)'
      BY <1>f, <1>k, <3>2 DEF KnowsInv, NoBad
    <3> QED
      BY <3>1, <3>2
  <2> QED
    BY <1>t, <1>f, <2>1, <2>2 DEF InsideInv, ExceptionTracked, Listed
<1>1. ASSUME NEW p \in Procs, NEW u \in Users, StartGrant(p, u) \/ StartRemove(p, u)
      PROVE  InsideInv' /\ ExceptionTracked'
  <2>1. OnlyOwnReloads' <=> OnlyOwnReloads
    BY <1>t, <1>1, Spending DEF StartGrant, StartRemove
  <2>2. /\ UNCHANGED <<conf, pend, mem, lock>> /\ pr'[p].pc = "lock" /\ pr'[p].user = u
        /\ ~pr'[p].restore /\ pr'[p].op # "none"
        /\ \A q \in Procs \ {p} : pr'[q] = pr[q]
    <3> DEFINE r(o) == [Idle EXCEPT !.pc = "lock", !.op = o, !.user = u]
    <3>1. \E o \in {"grant", "remove"} : pr' = [pr EXCEPT ![p] = r(o)]
      BY <1>1 DEF StartGrant, StartRemove
    <3>2. PICK o \in {"grant", "remove"} : pr' = [pr EXCEPT ![p] = r(o)]
      BY <3>1
    <3>3. /\ r(o).pc = "lock" /\ r(o).user = u /\ ~r(o).restore /\ r(o).op # "none"
      BY <3>2 DEF Idle
    <3> HIDE DEF r
    <3>4. pr'[p] = r(o) /\ \A q \in Procs \ {p} : pr'[q] = pr[q]
      BY <1>t, <3>2 DEF ProcType
    <3>5. UNCHANGED <<conf, pend, mem, lock>>
      BY <1>1 DEF StartGrant, StartRemove, disk
    <3> QED
      BY <3>3, <3>4, <3>5
  <2> QED
    BY <1>f, <1>t, <2>1, <2>2 DEF InsideInv, LockInv, Inside
<1>2. ASSUME NEW p \in Procs, WithLock(p)
      PROVE  InsideInv' /\ ExceptionTracked'
  <2>1. OnlyOwnReloads' <=> OnlyOwnReloads
    BY <1>t, <1>2, Spending DEF WithLock
  <2>2. /\ UNCHANGED <<conf, pend, mem>> /\ lock' = p /\ lock = NoProc /\ pr[p].pc = "lock"
        /\ pr'[p] = [pr[p] EXCEPT !.pc = IF pr[p].op = "grant" THEN "check" ELSE "stage"]
        /\ \A q \in Procs \ {p} : pr'[q] = pr[q]
    BY <1>t, <1>2 DEF WithLock, disk, ProcType, At
  <2>3. /\ pr'[p].pc \in {"check", "stage"} /\ pr'[p].user = pr[p].user /\ pr'[p].op = pr[p].op
        /\ pr'[p].restore = pr[p].restore
        /\ pr'[p].op # "remove" => pr'[p].pc = "check"
    BY <1>t, <2>2 DEF ProcType, UserInv
  <2>4. \A q \in Procs : ~Inside(q)
    BY <1>t, <2>2, SSHDAssumption DEF InsideInv, LockInv
  <2>5. LockInv' /\ UserInv'
    BY <1>t, <2>2, <2>3, <2>4 DEF LockInv, UserInv, Inside
  <2>6. \A q \in Procs : KnowsInv(q)'
    BY <2>2, <2>3, <2>4 DEF KnowsInv, Inside
  <2> QED
    BY <1>t, <2>1, <2>2, <2>5, <2>6 DEF InsideInv, ExceptionTracked, Listed
<1>3. ASSUME NEW p \in Procs, GrantCheck(p)
      PROVE  InsideInv' /\ ExceptionTracked'
  <2>i. Inside(p) /\ pr[p].user \in Users
    BY <1>t, <1>3 DEF GrantCheck, At, Inside, UserInv
  <2>r. pr[p].pc = "check" /\ ~pr[p].restore
    BY <1>t, <1>3 DEF GrantCheck, At, UserInv
  <2>1. (OnlyOwnReloads' <=> OnlyOwnReloads) /\ UNCHANGED <<conf, pend, mem>>
    BY <1>t, <1>3, Spending DEF GrantCheck, disk
  <2>2. ExceptionTracked'
    BY <1>t, <2>1 DEF ExceptionTracked, Listed
  <2>3. CASE Return(p)
    BY <1>t, <2>i, <2>2, <2>3, ReturnFrame
  <2>4. CASE /\ UNCHANGED lock
             /\ pr' = [pr EXCEPT ![p].pc = "write", ![p].pre = conf[U(p)] # "none"]
    <3> DEFINE b == conf[U(p)] # "none"
    <3>1. /\ pr'[p] = [pr[p] EXCEPT !.pc = "write", !.pre = b]
          /\ \A q \in Procs \ {p} : pr'[q] = pr[q]
      BY <1>t, <2>4 DEF ProcType
    <3>2. (b \in BOOLEAN) /\ (conf[pr[p].user] # "none" => b)
      BY DEF U
    <3> HIDE DEF b
    <3>3. /\ pr'[p].pc = "write" /\ pr'[p].user = pr[p].user /\ pr'[p].pre = b
          /\ pr'[p].restore = pr[p].restore
      BY <1>t, <3>1 DEF ProcType
    <3>4. KnowsInv(p)'
      <4>1. OnlyOwnReloads /\ ~b => (pr[p].user \in mem => pr[p].user \in pend)
        BY <1>t, <3>2 DEF ExceptionTracked, Listed
      <4> QED
        BY <2>1, <3>3, <4>1 DEF KnowsInv
    <3>5. pr'[p].user \in Users /\ ~pr'[p].restore
      BY <2>i, <2>r, <3>3
    <3> QED
      BY <1>t, <2>i, <2>2, <2>4, <3>1, <3>3, <3>4, <3>5, InsideFrame
  <2> QED
    BY <1>3, <2>3, <2>4 DEF GrantCheck
<1>4. ASSUME NEW p \in Procs, GrantWrite(p)
      PROVE  InsideInv' /\ ExceptionTracked'
  <2>i. Inside(p) /\ pr[p].user \in Users /\ pr[p].pc = "write" /\ ~pr[p].restore
    BY <1>t, <1>4 DEF GrantWrite, At, Inside, UserInv
  <2>1. /\ OnlyOwnReloads' <=> OnlyOwnReloads
        /\ UNCHANGED <<pend, mem>>
        /\ conf' = conf \/ \E c \in Contents : conf' = [conf EXCEPT ![U(p)] = c]
    BY <1>t, <1>4, Spending DEF GrantWrite, Unsynced, disk
  <2>2. ExceptionTracked'
    <3>1. Listed \subseteq Listed'
      BY <1>c, <2>1 DEF Listed, Contents
    <3> QED
      BY <1>t, <2>1, <3>1, StillTracked
  <2>3. CASE Return(p)
    BY <1>t, <2>i, <2>2, <2>3, ReturnFrame
  <2>4. ASSUME NEW l \in {"verify", "stage"}, UNCHANGED lock,
               pr'[p].pc = l, pr'[p].user = pr[p].user, pr'[p].op = pr[p].op,
               pr'[p].pre = pr[p].pre, ~pr'[p].restore,
               \A q \in Procs \ {p} : pr'[q] = pr[q]
        PROVE  InsideInv'
    <3>1. KnowsInv(p)'
      BY <1>k, <2>i, <2>1, <2>4 DEF KnowsInv
    <3> QED
      BY <1>t, <2>i, <2>4, <3>1, InsideFrame
  <2>5. CASE pr' = [pr EXCEPT ![p].pc = "verify"] /\ UNCHANGED lock
    <3>1. /\ UNCHANGED lock /\ pr'[p].pc = "verify" /\ pr'[p].user = pr[p].user
          /\ pr'[p].op = pr[p].op /\ pr'[p].pre = pr[p].pre /\ pr'[p].restore = pr[p].restore
          /\ \A q \in Procs \ {p} : pr'[q] = pr[q]
      BY <1>t, <2>5 DEF ProcType
    <3> QED
      BY <2>i, <2>2, <2>4, <3>1
  <2>6. CASE Rollback(p, FALSE)
    <3>1. /\ UNCHANGED lock /\ pr'[p].pc = "stage" /\ pr'[p].user = pr[p].user
          /\ pr'[p].op = pr[p].op /\ pr'[p].pre = pr[p].pre /\ pr'[p].restore = FALSE
          /\ \A q \in Procs \ {p} : pr'[q] = pr[q]
      BY <1>t, <2>6 DEF ProcType, Rollback
    <3> QED
      BY <2>i, <2>2, <2>4, <3>1
  <2> QED
    BY <1>4, <2>2, <2>3, <2>5, <2>6 DEF GrantWrite
<1>5. ASSUME NEW p \in Procs, GrantVerify(p)
      PROVE  InsideInv' /\ ExceptionTracked'
  <2>i. Inside(p) /\ pr[p].user \in Users /\ pr[p].pc = "verify" /\ ~pr[p].restore
    BY <1>t, <1>5 DEF GrantVerify, At, Inside, UserInv
  <2>1. (OnlyOwnReloads' <=> OnlyOwnReloads) /\ UNCHANGED <<conf, pend, mem>>
    BY <1>t, <1>5, Spending DEF GrantVerify, disk
  <2>2. ExceptionTracked'
    BY <1>t, <2>1 DEF ExceptionTracked, Listed
  <2>3. CASE Valid /\ Goto(p, "reload")
    <3>1. /\ pr'[p] = [pr[p] EXCEPT !.pc = "reload"] /\ lock' = lock
          /\ \A q \in Procs \ {p} : pr'[q] = pr[q]
      BY <1>t, <2>3, Moved
    <3>2. /\ pr'[p].pc = "reload" /\ pr'[p].user = pr[p].user /\ pr'[p].op = pr[p].op
          /\ pr'[p].pre = pr[p].pre /\ pr'[p].restore = pr[p].restore
      BY <1>t, <3>1 DEF ProcType
    <3>3. KnowsInv(p)'
      BY <1>k, <2>i, <2>1, <2>3, <3>2 DEF KnowsInv, NoBad, Valid
    <3> QED
      BY <1>t, <2>i, <2>2, <3>1, <3>2, <3>3, InsideFrame
  <2>4. CASE Rollback(p, FALSE)
    <3>1. /\ pr'[p].pc = "stage" /\ pr'[p].user = pr[p].user /\ pr'[p].op = pr[p].op
          /\ pr'[p].pre = pr[p].pre /\ ~pr'[p].restore /\ lock' = lock
          /\ \A q \in Procs \ {p} : pr'[q] = pr[q]
      BY <1>t, <2>4 DEF ProcType, Rollback
    <3>2. KnowsInv(p)'
      BY <1>k, <2>i, <2>1, <3>1 DEF KnowsInv
    <3> QED
      BY <1>t, <2>i, <2>2, <3>1, <3>2, InsideFrame
  <2> QED
    BY <1>5, <2>3, <2>4 DEF GrantVerify
<1>6. ASSUME NEW p \in Procs, GrantReload(p)
      PROVE  InsideInv' /\ ExceptionTracked'
  <2>i. Inside(p) /\ pr[p].user \in Users
    BY <1>t, <1>6 DEF GrantReload, At, Inside, UserInv
  <2>1. /\ OnlyOwnReloads' <=> OnlyOwnReloads
        /\ UNCHANGED <<conf, pend>> /\ (mem' = mem \/ mem' = Adopted)
    BY <1>t, <1>6, Spending DEF GrantReload, disk
  <2>2. ExceptionTracked'
    BY <1>t, <2>1, AdoptedTracked DEF ExceptionTracked, Listed
  <2>3. CASE ReturnOK(p)
    BY <1>t, <2>i, <2>2, <2>3, ReturnFrame
  <2>4. CASE Rollback(p, TRUE)
    <3>1. /\ pr'[p].pc = "stage" /\ pr'[p].user = pr[p].user /\ pr'[p].restore /\ lock' = lock
          /\ \A q \in Procs \ {p} : pr'[q] = pr[q]
      BY <1>t, <2>4 DEF ProcType, Rollback
    <3>2. KnowsInv(p)'
      BY <3>1 DEF KnowsInv
    <3> QED
      BY <1>t, <2>i, <2>2, <3>1, <3>2, InsideFrame
  <2> QED
    BY <1>6, <2>2, <2>3, <2>4 DEF GrantReload
<1>7. ASSUME NEW p \in Procs, StageRemoval(p)
      PROVE  InsideInv' /\ ExceptionTracked'
  <2>i. Inside(p) /\ pr[p].user \in Users /\ pr[p].pc = "stage"
    BY <1>t, <1>7 DEF StageRemoval, At, Inside, UserInv
  <2>1. /\ OnlyOwnReloads' <=> OnlyOwnReloads
        /\ UNCHANGED <<conf, mem>> /\ pend \subseteq pend'
    BY <1>t, <1>7, Spending DEF StageRemoval, Unsynced, disk
  <2>2. ExceptionTracked'
    BY <1>t, <2>1 DEF ExceptionTracked, Listed
  <2>3. CASE Return(p) \/ ReturnOK(p)
    BY <1>t, <2>i, <2>2, <2>3, ReturnFrame
  <2> DEFINE b == U(p) \in pend
  <2>4. CASE /\ pr' = [pr EXCEPT ![p].pc = "validate", ![p].inherited = b] /\ UNCHANGED lock
             /\ conf[U(p)] = "none"
    <3>1. /\ pr'[p].pc = "validate" /\ pr'[p].user = pr[p].user
          /\ \A q \in Procs \ {p} : pr'[q] = pr[q]
      BY <1>t, <2>4 DEF ProcType
    <3>2. KnowsInv(p)'
      BY <2>1, <2>4, <3>1 DEF KnowsInv, U
    <3> QED
      BY <1>t, <2>i, <2>2, <2>4, <3>1, <3>2, InsideFrame
  <2>5. CASE /\ pr' = [pr EXCEPT ![p].pc = "unlink", ![p].inherited = b] /\ UNCHANGED lock
             /\ U(p) \in pend'
    <3>1. /\ pr'[p].pc = "unlink" /\ pr'[p].user = pr[p].user /\ pr'[p].op = pr[p].op
          /\ pr'[p].pre = pr[p].pre /\ pr'[p].restore = pr[p].restore /\ (pr'[p].inherited <=> b)
          /\ \A q \in Procs \ {p} : pr'[q] = pr[q]
      BY <1>t, <2>5 DEF ProcType
    <3>3. KnowsInv(p)'
      BY <1>k, <2>i, <2>1, <2>5, <3>1 DEF KnowsInv, U, NeedsReload
    <3> QED
      BY <1>t, <2>i, <2>2, <2>5, <3>1, <3>3, InsideFrame
  <2>6. \/ Return(p) \/ ReturnOK(p)
        \/ /\ pr' = [pr EXCEPT ![p].pc = "validate", ![p].inherited = b] /\ UNCHANGED lock
           /\ conf[U(p)] = "none"
        \/ /\ pr' = [pr EXCEPT ![p].pc = "unlink", ![p].inherited = b] /\ UNCHANGED lock
           /\ U(p) \in pend'
    BY <1>7 DEF StageRemoval, disk
  <2> QED
    BY <2>2, <2>3, <2>4, <2>5, <2>6
<1>8. ASSUME NEW p \in Procs, UnlinkDropIn(p)
      PROVE  InsideInv' /\ ExceptionTracked'
  <2>i. Inside(p) /\ pr[p].user \in Users /\ pr[p].pc = "unlink" /\ U(p) \in pend
    BY <1>t, <1>k, <1>8 DEF UnlinkDropIn, At, Inside, UserInv, KnowsInv, U
  <2>1. /\ OnlyOwnReloads' <=> OnlyOwnReloads
        /\ UNCHANGED <<pend, mem>>
        /\ conf' = conf \/ conf' = [conf EXCEPT ![U(p)] = "none"]
    BY <1>t, <1>8, Spending DEF UnlinkDropIn, Unsynced, disk
  <2>2. ExceptionTracked'
    <3>1. Listed \subseteq Listed'
      BY <1>c, <2>i, <2>1 DEF Listed
    <3> QED
      BY <1>t, <2>1, <3>1, StillTracked
  <2>3. CASE Return(p)
    BY <1>t, <2>i, <2>2, <2>3, ReturnFrame
  <2>4. CASE /\ conf' = [conf EXCEPT ![U(p)] = "none"]
             /\ Goto(p, IF NeedsReload(pr[p]) THEN "validate" ELSE "clear")
    <3> DEFINE l == IF NeedsReload(pr[p]) THEN "validate" ELSE "clear"
    <3>1. /\ pr'[p] = [pr[p] EXCEPT !.pc = l] /\ lock' = lock
          /\ \A q \in Procs \ {p} : pr'[q] = pr[q]
      BY <1>t, <2>4, Moved
    <3>2. /\ pr'[p].pc = l /\ pr'[p].user = pr[p].user
      BY <1>t, <3>1 DEF ProcType
    <3>3. l = "validate" \/ (l = "clear" /\ (OnlyOwnReloads => U(p) \notin mem))
      BY <1>k, <2>i DEF KnowsInv, U
    <3>4. conf'[U(p)] = "none"
      BY <1>c, <2>i, <2>4 DEF U
    <3> HIDE DEF l
    <3>5. KnowsInv(p)'
      BY <2>1, <3>2, <3>3, <3>4 DEF KnowsInv, U
    <3> QED
      BY <1>t, <2>i, <2>2, <3>1, <3>2, <3>3, <3>5, InsideFrame
  <2> QED
    BY <1>8, <2>2, <2>3, <2>4 DEF UnlinkDropIn
<1>9. ASSUME NEW p \in Procs, FinishValidate(p)
      PROVE  InsideInv' /\ ExceptionTracked'
  <2>i. Inside(p) /\ pr[p].user \in Users /\ pr[p].pc = "validate"
    BY <1>t, <1>9 DEF FinishValidate, At, Inside, UserInv
  <2>1. (OnlyOwnReloads' <=> OnlyOwnReloads) /\ UNCHANGED <<conf, pend, mem>>
    BY <1>t, <1>9, Spending DEF FinishValidate, disk
  <2>2. ExceptionTracked'
    BY <1>t, <2>1 DEF ExceptionTracked, Listed
  <2>3. CASE Return(p)
    BY <1>t, <2>i, <2>2, <2>3, ReturnFrame
  <2>4. CASE Valid /\ Goto(p, "notify")
    <3>1. /\ pr'[p] = [pr[p] EXCEPT !.pc = "notify"] /\ lock' = lock
          /\ \A q \in Procs \ {p} : pr'[q] = pr[q]
      BY <1>t, <2>4, Moved
    <3>2. pr'[p].pc = "notify" /\ pr'[p].user = pr[p].user
      BY <1>t, <3>1 DEF ProcType
    <3>3. KnowsInv(p)'
      BY <1>k, <2>i, <2>1, <2>4, <3>2 DEF KnowsInv, NoBad, Valid
    <3> QED
      BY <1>t, <2>i, <2>2, <3>1, <3>2, <3>3, InsideFrame
  <2> QED
    BY <1>9, <2>2, <2>3, <2>4 DEF FinishValidate
<1>10. ASSUME NEW p \in Procs, FinishReload(p)
      PROVE  InsideInv' /\ ExceptionTracked'
  <2>i. Inside(p) /\ pr[p].user \in Users /\ pr[p].pc = "notify"
    BY <1>t, <1>10 DEF FinishReload, At, Inside, UserInv
  <2>1. /\ OnlyOwnReloads' <=> OnlyOwnReloads
        /\ UNCHANGED <<conf, pend>> /\ (mem' = mem \/ mem' = Adopted)
    BY <1>t, <1>10, Spending DEF FinishReload, disk
  <2>2. ExceptionTracked'
    BY <1>t, <2>1, AdoptedTracked DEF ExceptionTracked, Listed
  <2>3. CASE Return(p)
    BY <1>t, <2>i, <2>2, <2>3, ReturnFrame
  <2>4. CASE mem' = Adopted /\ Goto(p, "clear")
    <3>1. /\ pr'[p] = [pr[p] EXCEPT !.pc = "clear"] /\ lock' = lock
          /\ \A q \in Procs \ {p} : pr'[q] = pr[q]
      BY <1>t, <2>4, Moved
    <3>2. pr'[p].pc = "clear" /\ pr'[p].user = pr[p].user
      BY <1>t, <3>1 DEF ProcType
    <3>3. conf[pr[p].user] = "none" /\ pr[p].user \notin Adopted
      BY <1>k, <2>i, AdoptedType DEF KnowsInv
    <3>4. KnowsInv(p)'
      BY <2>1, <2>4, <3>2, <3>3 DEF KnowsInv
    <3> QED
      BY <1>t, <2>i, <2>2, <3>1, <3>2, <3>4, InsideFrame
  <2> QED
    BY <1>10, <2>2, <2>3, <2>4 DEF FinishReload
<1>11. ASSUME NEW p \in Procs, ClearPending(p)
      PROVE  InsideInv' /\ ExceptionTracked'
  <2>i. /\ Inside(p) /\ conf[U(p)] = "none" /\ (OnlyOwnReloads => U(p) \notin mem)
        /\ Return(p) \/ ReturnOK(p)
    BY <1>k, <1>11 DEF ClearPending, At, Inside, KnowsInv, U
  <2>1. /\ OnlyOwnReloads' <=> OnlyOwnReloads
        /\ UNCHANGED <<conf, mem>> /\ (pend' = pend \/ pend' = pend \ {U(p)})
    BY <1>t, <1>11, Spending DEF ClearPending, Unsynced, disk
  <2>2. ExceptionTracked'
    BY <1>t, <2>i, <2>1 DEF ExceptionTracked, Listed
  <2> QED
    BY <1>t, <2>i, <2>2, ReturnFrame
<1>12. ASSUME NEW p \in Procs, Kill(p)
      PROVE  InsideInv' /\ ExceptionTracked'
  <2>1. (OnlyOwnReloads' <=> OnlyOwnReloads) /\ UNCHANGED <<conf, pend, mem>>
    BY <1>t, <1>12, Spending DEF Kill, disk
  <2>2. /\ pr'[p] = Idle /\ lock' = IF lock = p THEN NoProc ELSE lock
        /\ \A q \in Procs \ {p} : pr'[q] = pr[q]
    BY <1>t, <1>12 DEF Kill, ProcType
  <2>3. pr'[p].pc = "idle" /\ ~pr'[p].restore
    BY <2>2 DEF Idle
  <2> QED
    BY <1>f, <1>t, <2>1, <2>2, <2>3 DEF InsideInv, LockInv, Inside
<1>13. CASE PowerLoss
  <2>1. (OnlyOwnReloads' <=> OnlyOwnReloads) /\ mem' = OnDisk(conf', host)
        /\ \A q \in Procs : pr'[q].pc = "idle"
    BY <1>t, <1>13, Spending DEF PowerLoss, Idle
  <2>2. InsideInv'
    BY <2>1 DEF InsideInv, LockInv, UserInv, KnowsInv, Inside
  <2>3. ExceptionTracked'
    BY <2>1 DEF ExceptionTracked, OnDisk, Listed
  <2> QED
    BY <2>2, <2>3
<1>14. CASE OutsideBreak \/ OutsideMend
  <2>1. /\ OnlyOwnReloads' <=> OnlyOwnReloads
        /\ UNCHANGED <<conf, pend, mem, lock, pr>>
    BY <1>t, <1>14, Spending DEF OutsideBreak, OutsideMend, disk
  <2> QED
    BY <1>t, <1>k, <2>1
    DEF InsideInv, LockInv, UserInv, KnowsInv, Inside, NoBad, ExceptionTracked, Listed, NeedsReload
<1>15. CASE OutsideReload
  <2>1. ~OnlyOwnReloads' /\ UNCHANGED <<conf, pend, lock, pr>>
    BY <1>t, <1>15, ReloadSpent DEF OutsideReload, disk
  <2> QED
    BY <1>t, <1>k, <2>1
    DEF InsideInv, LockInv, UserInv, KnowsInv, Inside, NoBad, ExceptionTracked, NeedsReload
<1>16. CASE UNCHANGED vars
  BY <1>t, <1>k, <1>16
  DEF vars, disk, InsideInv, LockInv, UserInv, KnowsInv, Inside, NoBad, ExceptionTracked, Listed,
      OnlyOwnReloads, NeedsReload
<1> QED
  BY <1>1, <1>2, <1>3, <1>4, <1>5, <1>6, <1>7, <1>8, <1>9, <1>10, <1>11, <1>12, <1>13, <1>14,
     <1>15, <1>16 DEF Next, Step

\* The invariant of the exceptions, for every number of commands and users.
THEOREM SSHDInvariant == Spec => []SSHDInv
<1>1. SSHDInv /\ [Next]_vars => SSHDInv'
  BY TypeStep, InsideStep DEF SSHDInv, InsideInv
<1>2. Init => SSHDInv
  BY TypeInit, InvInit DEF SSHDInv
<1> QED
  BY <1>1, <1>2, PTL DEF Spec

\* Files, daemon memory, lock and commands keep their types; no bound is passed.
THEOREM TypeCorrect == Spec => []TypeOK
<1>1. SSHDInv => TypeOK
  BY DEF SSHDInv
<1> QED
  BY <1>1, SSHDInvariant, PTL

\* As long as nobody else reloads sshd, every exception it may enforce has a
\* drop-in or a pending marker on disk.
THEOREM ExceptionAlwaysTracked == Spec => []ExceptionTracked
<1>1. SSHDInv => ExceptionTracked
  BY DEF SSHDInv
<1> QED
  BY <1>1, SSHDInvariant, PTL

\* No command asks sshd to load a drop-in that sshd has not accepted.
THEOREM ReloadsAlwaysChecked == Spec => []ReloadsAreChecked
<1>1. SSHDInv => ReloadsAreChecked
  BY DEF SSHDInv, InsideInv, KnowsInv, NoBad, ReloadsAreChecked, At
<1> QED
  BY <1>1, SSHDInvariant, PTL

-----------------------------------------------------------------------------
(* What a power loss may take back.                                           *)

\* A command that writes or reloads a drop-in is a grant: only a removal reports
\* that a user has none.
OpInv == \A p \in Procs : pr[p].pc \in {"check", "write", "verify", "reload"} => pr[p].op # "remove"

\* As long as no directory sync has failed, a power loss takes nothing back.  Once
\* one has, the marker of its drop-in stands until another sync succeeds, so that
\* a user without drop-in and marker has none after a power loss either.
DurableInv ==
  /\ left.syncs = SyncFaults => saved = [conf |-> conf, pend |-> pend]
  /\ OneFailedSync =>
       /\ \A u \in Users : conf[u] = "none" /\ u \notin pend => saved.conf[u] = "none"
       /\ \A u \in removed : conf[u] = "none" /\ saved.conf[u] = "none"
       /\ OnlyOwnReloads => removed \cap mem = {}

\* A failed sync is never forgotten.
LEMMA SyncSpending ==
  ASSUME LeftType, NEW f \in {"faults", "syncs", "edits", "grants", "reloads"}, Fine \/ Spend(f)
  PROVE  /\ left'.syncs = SyncFaults => left.syncs = SyncFaults
         /\ OneFailedSync' => OneFailedSync
         /\ Spend("syncs") => left'.syncs # SyncFaults /\ (OneFailedSync' => left.syncs = SyncFaults)
<1>1. CASE Fine
  <2>1. left' = left /\ ~Spend("syncs")
    BY <1>1, SSHDAssumption DEF Fine, Spend, LeftType
  <2> QED
    BY <2>1 DEF OneFailedSync
<1>2. CASE Spend("syncs")
  <2>1. left'.syncs = left.syncs - 1 /\ left.syncs \in 0..SyncFaults
    BY <1>2 DEF Spend, LeftType
  <2> QED
    BY <2>1, SSHDAssumption DEF OneFailedSync
<1>3. CASE Spend(f) /\ f # "syncs"
  <2>1. left'.syncs = left.syncs /\ left'[f] = left[f] - 1 /\ left[f] \in Nat
    BY <1>3, SSHDAssumption DEF Spend, LeftType
  <2>2. ~Spend("syncs")
    BY <1>3, <2>1, SSHDAssumption DEF Spend, LeftType
  <2> QED
    BY <2>1, <2>2 DEF OneFailedSync
<1> QED
  BY <1>1, <1>2, <1>3

\* The bounds in the forms the actions spend them.
LEMMA Costs ==
  ASSUME LeftType, \/ Fine \/ Fault \/ Spend("syncs") \/ Spend("edits") \/ Spend("grants")
                   \/ Spend("reloads")
  PROVE  /\ left'.syncs = SyncFaults => left.syncs = SyncFaults
         /\ OneFailedSync' => OneFailedSync
         /\ Spend("syncs") => left'.syncs # SyncFaults /\ (OneFailedSync' => left.syncs = SyncFaults)
         /\ OnlyOwnReloads' => OnlyOwnReloads
BY SyncSpending, Spending, ReloadSpent DEF Fault

\* Only grants write and reload.
LEMMA OpStep ==
  ASSUME TypeOK, UserInv, OpInv, [Next]_vars
  PROVE  OpInv'
<1>t. ProcType
  BY DEF TypeOK, ProcType
<1> DEFINE Writing(c) == c.pc \in {"check", "write", "verify", "reload"}
<1>f. ASSUME NEW p \in Procs, \A q \in Procs \ {p} : pr'[q] = pr[q],
             Writing(pr'[p]) => pr'[p].op # "remove"
      PROVE  OpInv'
  BY <1>f DEF OpInv
<1>1. ASSUME NEW p \in Procs, NEW u \in Users, StartGrant(p, u) \/ StartRemove(p, u) PROVE OpInv'
  <2>1. \/ pr' = [pr EXCEPT ![p] = [Idle EXCEPT !.pc = "lock", !.op = "grant", !.user = u]]
        \/ pr' = [pr EXCEPT ![p] = [Idle EXCEPT !.pc = "lock", !.op = "remove", !.user = u]]
    BY <1>1 DEF StartGrant, StartRemove
  <2>2. (\A q \in Procs \ {p} : pr'[q] = pr[q]) /\ pr'[p].pc = "lock"
    BY <1>t, <2>1 DEF ProcType, Idle
  <2> QED
    BY <1>f, <2>2
<1>2. ASSUME NEW p \in Procs, WithLock(p) PROVE OpInv'
  <2>1. pr' = [pr EXCEPT ![p].pc = IF pr[p].op = "grant" THEN "check" ELSE "stage"]
    BY <1>2 DEF WithLock
  <2>2. (\A q \in Procs \ {p} : pr'[q] = pr[q]) /\ pr'[p].op = pr[p].op
        /\ (pr[p].op = "remove" => pr'[p].pc = "stage")
    BY <1>t, <2>1 DEF ProcType
  <2> QED
    BY <1>f, <2>2
<1>3. ASSUME NEW p \in Procs, Return(p) \/ ReturnOK(p) PROVE OpInv'
  <2>1. (\A q \in Procs \ {p} : pr'[q] = pr[q]) /\ pr'[p].pc = "idle"
    BY <1>t, <1>3 DEF Return, ReturnOK, ProcType, Idle
  <2> QED
    BY <1>f, <2>1
<1>4. ASSUME NEW p \in Procs, NEW l \in Pcs,
             Writing([pr[p] EXCEPT !.pc = l]) => Writing(pr[p]), Goto(p, l)
      PROVE  OpInv'
  <2>1. (\A q \in Procs \ {p} : pr'[q] = pr[q]) /\ pr'[p].op = pr[p].op /\ pr'[p].pc = l
    BY <1>t, <1>4 DEF Goto, ProcType
  <2> QED
    BY <1>f, <1>t, <1>4, <2>1 DEF OpInv, ProcType
<1>5. ASSUME NEW p \in Procs, NEW b \in BOOLEAN, Rollback(p, b) PROVE OpInv'
  <2>1. (\A q \in Procs \ {p} : pr'[q] = pr[q]) /\ pr'[p].pc = "stage"
    BY <1>t, <1>5 DEF Rollback, ProcType
  <2> QED
    BY <1>f, <2>1
<1>6. ASSUME NEW p \in Procs, GrantCheck(p) PROVE OpInv'
  <2>1. CASE pr' = [pr EXCEPT ![p].pc = "write", ![p].pre = conf[U(p)] # "none"]
    <3>1. (\A q \in Procs \ {p} : pr'[q] = pr[q]) /\ pr'[p].op = pr[p].op
      BY <1>t, <2>1 DEF ProcType
    <3>2. pr[p].op # "remove"
      BY <1>6 DEF OpInv, GrantCheck, At
    <3> QED
      BY <1>f, <3>1, <3>2
  <2> QED
    BY <1>3, <1>6, <2>1 DEF GrantCheck
<1>7. ASSUME NEW p \in Procs, GrantWrite(p) PROVE OpInv'
  <2>1. CASE pr' = [pr EXCEPT ![p].pc = "verify"]
    <3>1. (\A q \in Procs \ {p} : pr'[q] = pr[q]) /\ pr'[p].op = pr[p].op
      BY <1>t, <2>1 DEF ProcType
    <3>2. pr[p].op # "remove"
      BY <1>7 DEF OpInv, GrantWrite, At
    <3> QED
      BY <1>f, <3>1, <3>2
  <2> QED
    BY <1>3, <1>5, <1>7, <2>1 DEF GrantWrite
<1>8. ASSUME NEW p \in Procs, GrantVerify(p) \/ GrantReload(p) PROVE OpInv'
  <2>1. Goto(p, "reload") => pr[p].pc = "verify"
    BY <1>8, <1>t DEF GrantVerify, GrantReload, At, Goto, Return, ReturnOK, Rollback, ProcType, Idle
  <2> QED
    BY <1>3, <1>4, <1>5, <1>8, <2>1 DEF GrantVerify, GrantReload, At, Pcs
<1>9. ASSUME NEW p \in Procs, StageRemoval(p) PROVE OpInv'
  <2>1. ASSUME NEW l \in {"validate", "unlink"},
               pr' = [pr EXCEPT ![p].pc = l, ![p].inherited = U(p) \in pend]
        PROVE  OpInv'
    <3>1. (\A q \in Procs \ {p} : pr'[q] = pr[q]) /\ pr'[p].pc = l
      BY <1>t, <2>1 DEF ProcType
    <3> QED
      BY <1>f, <3>1
  <2> QED
    BY <1>3, <1>9, <2>1 DEF StageRemoval
<1>10. ASSUME NEW p \in Procs, UnlinkDropIn(p) \/ FinishValidate(p) \/ FinishReload(p) PROVE OpInv'
  <2>1. \A l \in {"validate", "clear", "notify"} : l \in Pcs /\ ~Writing([pr[p] EXCEPT !.pc = l])
    BY <1>t DEF ProcType, Pcs
  <2>2. \/ Return(p)
        \/ \E l \in {"validate", "clear", "notify"} : Goto(p, l)
    BY <1>10 DEF UnlinkDropIn, FinishValidate, FinishReload
  <2> QED
    BY <1>3, <1>4, <2>1, <2>2
<1>11. ASSUME NEW p \in Procs, ClearPending(p) PROVE OpInv'
  BY <1>3, <1>11 DEF ClearPending
<1>12. ASSUME NEW p \in Procs, Kill(p) PROVE OpInv'
  <2>1. (\A q \in Procs \ {p} : pr'[q] = pr[q]) /\ pr'[p].pc = "idle"
    BY <1>t, <1>12 DEF Kill, ProcType, Idle
  <2> QED
    BY <1>f, <2>1
<1>13. CASE PowerLoss
  BY <1>13 DEF PowerLoss, OpInv, Idle
<1>14. CASE OutsideBreak \/ OutsideMend \/ OutsideReload \/ UNCHANGED vars
  BY <1>14 DEF OutsideBreak, OutsideMend, OutsideReload, vars, OpInv
<1> QED
  BY <1>1, <1>2, <1>6, <1>7, <1>8, <1>9, <1>10, <1>11, <1>12, <1>13, <1>14 DEF Next, Step

\* A step that leaves the files alone, and by which sshd takes at most what is on
\* disk, disturbs nothing, as long as no user is reported removed by it.
LEMMA DurableFrame ==
  ASSUME TypeOK, DurableInv, UNCHANGED disk, removed' \subseteq removed,
         mem' \in {mem, Adopted},
         left'.syncs = SyncFaults => left.syncs = SyncFaults,
         OneFailedSync' => OneFailedSync, OnlyOwnReloads' => OnlyOwnReloads
  PROVE  DurableInv'
<1>1. \A u \in Adopted : conf[u] = "good"
  BY AdoptedType
<1> QED
  BY <1>1 DEF DurableInv, disk

\* Every action keeps what a power loss may not take back.
LEMMA DurableStep ==
  ASSUME SSHDInv, OpInv, DurableInv, [Next]_vars
  PROVE  DurableInv'
<1>t. /\ TypeOK /\ LeftType /\ ProcType
      /\ conf \in [Users -> Contents \cup {"none"}] /\ pend \subseteq Users /\ removed \subseteq Users
  BY DEF SSHDInv, TypeOK, LeftType, ProcType
<1>k. \A p \in Procs : KnowsInv(p) /\ (pr[p].pc # "idle" => U(p) \in Users)
  BY DEF SSHDInv, InsideInv, UserInv, U
<1>1. ASSUME NEW p \in Procs, NEW u \in Users, StartGrant(p, u) \/ StartRemove(p, u) PROVE DurableInv'
  BY <1>t, <1>1, Costs, DurableFrame DEF StartGrant, StartRemove
<1>2. ASSUME NEW p \in Procs, WithLock(p) \/ Kill(p) PROVE DurableInv'
  BY <1>t, <1>2, Costs, DurableFrame DEF WithLock, Kill
<1>3. ASSUME NEW p \in Procs, GrantCheck(p) PROVE DurableInv'
  <2>1. UNCHANGED <<disk, mem>> /\ removed' = removed
    BY <1>3 DEF GrantCheck, Return
  <2> QED
    BY <1>t, <1>3, <2>1, Costs, DurableFrame DEF GrantCheck
<1>4. ASSUME NEW p \in Procs, GrantWrite(p) PROVE DurableInv'
  <2>1. pr[p].pc = "write" /\ U(p) \in Users /\ UNCHANGED mem
    BY <1>k, <1>4 DEF GrantWrite, At
  <2>2. CASE Return(p) /\ UNCHANGED disk /\ Fault
    <3>1. removed' = removed
      BY <2>2 DEF Return
    <3> QED
      BY <1>t, <2>1, <2>2, <3>1, Costs, DurableFrame
  <2>3. CASE /\ \E c \in Contents : conf' = [conf EXCEPT ![U(p)] = c]
             /\ pend' = pend /\ removed' = removed \ {U(p)}
             /\ (Synced /\ Fine) \/ Unsynced
    <3>1. /\ conf'[U(p)] # "none"
          /\ \A u \in Users \ {U(p)} : conf'[u] = conf[u]
      BY <1>t, <2>1, <2>3 DEF Contents
    <3>2. /\ left'.syncs = SyncFaults => left.syncs = SyncFaults
          /\ OneFailedSync' => OneFailedSync
          /\ Spend("syncs") => left'.syncs # SyncFaults
          /\ OnlyOwnReloads' => OnlyOwnReloads
      BY <1>t, <2>3, Costs DEF Unsynced
    <3>3. CASE Synced
      BY <1>t, <2>1, <2>3, <3>1, <3>2, <3>3 DEF DurableInv, Synced
    <3>4. CASE Unsynced
      BY <1>t, <2>1, <2>3, <3>1, <3>2, <3>4 DEF DurableInv, Unsynced
    <3> QED
      BY <2>3, <3>3, <3>4
  <2> QED
    BY <1>4, <2>2, <2>3 DEF GrantWrite
<1>5. ASSUME NEW p \in Procs, GrantVerify(p) PROVE DurableInv'
  <2>1. UNCHANGED <<disk, mem>> /\ removed' = removed
    BY <1>5 DEF GrantVerify, Goto
  <2> QED
    BY <1>t, <1>5, <2>1, Costs, DurableFrame DEF GrantVerify
<1>6. ASSUME NEW p \in Procs, GrantReload(p) PROVE DurableInv'
  <2>1. UNCHANGED disk /\ mem' \in {mem, Adopted} /\ (Fine \/ Fault)
    BY <1>6 DEF GrantReload
  <2>2. removed' = removed
    BY <1>6 DEF GrantReload, At, OpInv, ReturnOK
  <2> QED
    BY <1>t, <2>1, <2>2, Costs, DurableFrame
<1>7. ASSUME NEW p \in Procs, StageRemoval(p) PROVE DurableInv'
  <2>1. UNCHANGED <<conf, mem>> /\ U(p) \in Users
    BY <1>k, <1>7 DEF StageRemoval, disk, At
  <2>2. CASE conf[U(p)] = "none" /\ U(p) \notin pend
    <3>1. UNCHANGED disk /\ Fine /\ removed' \subseteq removed \cup {U(p)}
      BY <1>7, <2>2 DEF StageRemoval, Return, ReturnOK
    <3>2. OnlyOwnReloads => U(p) \notin mem
      BY <2>2 DEF SSHDInv, ExceptionTracked, Listed
    <3>3. /\ left' = left /\ OneFailedSync' = OneFailedSync /\ OnlyOwnReloads' = OnlyOwnReloads
      BY <3>1 DEF Fine, OneFailedSync, OnlyOwnReloads
    <3> QED
      BY <1>t, <2>1, <2>2, <3>1, <3>2, <3>3 DEF DurableInv, disk
  <2>3. CASE ~(conf[U(p)] = "none" /\ U(p) \notin pend)
    <3>1. removed' = removed /\ pend \subseteq pend'
      BY <1>7, <2>3 DEF StageRemoval, Return, disk
    <3>2. \/ UNCHANGED disk /\ (Fine \/ Fault)
          \/ Synced /\ Fine
          \/ Unsynced
      BY <1>7, <2>3 DEF StageRemoval
    <3>3. /\ left'.syncs = SyncFaults => left.syncs = SyncFaults
          /\ OneFailedSync' => OneFailedSync
          /\ Spend("syncs") => left'.syncs # SyncFaults
          /\ OnlyOwnReloads' => OnlyOwnReloads
      BY <1>t, <3>2, Costs DEF Unsynced
    <3>4. CASE UNCHANGED disk
      BY <1>t, <2>1, <3>1, <3>3, <3>4, DurableFrame
    <3>5. CASE Synced
      BY <1>t, <2>1, <3>1, <3>3, <3>5 DEF DurableInv, Synced
    <3>6. CASE Unsynced
      BY <1>t, <2>1, <3>1, <3>3, <3>6 DEF DurableInv, Unsynced
    <3> QED
      BY <3>2, <3>4, <3>5, <3>6
  <2> QED
    BY <2>2, <2>3
<1>8. ASSUME NEW p \in Procs, UnlinkDropIn(p) PROVE DurableInv'
  <2>1. UNCHANGED mem /\ U(p) \in Users /\ U(p) \in pend /\ removed' = removed
    BY <1>k, <1>8 DEF UnlinkDropIn, At, KnowsInv, U, Return, Goto
  <2>2. CASE UNCHANGED disk
    BY <1>t, <1>8, <2>1, <2>2, Costs, DurableFrame DEF UnlinkDropIn, Unsynced
  <2>3. CASE /\ conf' = [conf EXCEPT ![U(p)] = "none"] /\ pend' = pend
             /\ (Synced /\ (Fine \/ Fault)) \/ Unsynced
    <3>1. /\ conf'[U(p)] = "none"
          /\ \A u \in Users \ {U(p)} : conf'[u] = conf[u]
      BY <1>t, <2>1, <2>3
    <3>2. /\ left'.syncs = SyncFaults => left.syncs = SyncFaults
          /\ OneFailedSync' => OneFailedSync
          /\ Spend("syncs") => left'.syncs # SyncFaults
          /\ OnlyOwnReloads' => OnlyOwnReloads
      BY <1>t, <2>3, Costs DEF Unsynced
    <3>3. CASE Synced
      BY <1>t, <2>1, <2>3, <3>1, <3>2, <3>3 DEF DurableInv, Synced
    <3>4. CASE Unsynced
      BY <1>t, <2>1, <2>3, <3>1, <3>2, <3>4 DEF DurableInv, Unsynced
    <3> QED
      BY <2>3, <3>3, <3>4
  <2> QED
    BY <1>8, <2>2, <2>3 DEF UnlinkDropIn
<1>9. ASSUME NEW p \in Procs, FinishValidate(p) \/ FinishReload(p) PROVE DurableInv'
  <2>1. UNCHANGED disk /\ mem' \in {mem, Adopted} /\ (Fine \/ Fault) /\ removed' = removed
    BY <1>9 DEF FinishValidate, FinishReload, Return, Goto
  <2> QED
    BY <1>t, <2>1, Costs, DurableFrame
<1>10. ASSUME NEW p \in Procs, ClearPending(p) PROVE DurableInv'
  <2>1. /\ U(p) \in Users /\ conf[U(p)] = "none" /\ (OnlyOwnReloads => U(p) \notin mem)
        /\ UNCHANGED mem
    BY <1>k, <1>10 DEF ClearPending, At, KnowsInv, U
  <2>2. CASE Return(p) /\ UNCHANGED disk /\ Fault
    <3>1. removed' = removed
      BY <2>2 DEF Return
    <3> QED
      BY <1>t, <2>1, <2>2, <3>1, Costs, DurableFrame
  <2>3. CASE pend' = pend \ {U(p)} /\ UNCHANGED conf /\ Synced /\ Fine
    <3>1. removed' \subseteq removed \cup {U(p)}
      BY <1>10, <2>3 DEF ClearPending, Return, ReturnOK, disk
    <3>2. /\ left' = left /\ OneFailedSync' = OneFailedSync /\ OnlyOwnReloads' = OnlyOwnReloads
      BY <2>3 DEF Fine, OneFailedSync, OnlyOwnReloads
    <3> QED
      BY <1>t, <2>1, <2>3, <3>1, <3>2 DEF DurableInv, Synced
  <2>4. CASE pend' = pend \ {U(p)} /\ UNCHANGED conf /\ Unsynced /\ Return(p)
    <3>1. removed' = removed /\ saved' = saved
      BY <2>4 DEF Return, Unsynced
    <3>2. /\ left'.syncs # SyncFaults /\ (OneFailedSync' => left.syncs = SyncFaults)
          /\ OneFailedSync' => OneFailedSync
          /\ OnlyOwnReloads' => OnlyOwnReloads
      BY <1>t, <2>4, Costs DEF Unsynced
    <3> QED
      BY <1>t, <2>1, <2>4, <3>1, <3>2 DEF DurableInv
  <2> QED
    BY <1>10, <2>2, <2>3, <2>4 DEF ClearPending
<1>11. CASE PowerLoss
  <2>1. /\ left'.syncs = SyncFaults => left.syncs = SyncFaults
        /\ OneFailedSync' => OneFailedSync
        /\ OnlyOwnReloads' => OnlyOwnReloads
    BY <1>t, <1>11, Costs DEF PowerLoss
  <2>2. /\ saved' = [conf |-> conf', pend |-> pend'] /\ removed' = removed
        /\ \A u \in Users : conf'[u] \in {conf[u], saved.conf[u]}
        /\ \A u \in mem' : conf'[u] = "good"
    BY <1>11 DEF PowerLoss, Synced, OnDisk
  <2> QED
    BY <1>t, <2>1, <2>2 DEF DurableInv
<1>12. CASE OutsideBreak \/ OutsideMend
  BY <1>t, <1>12, Costs, DurableFrame DEF OutsideBreak, OutsideMend
<1>13. CASE OutsideReload
  BY <1>t, <1>13, Costs, DurableFrame DEF OutsideReload
<1>14. CASE UNCHANGED vars
  BY <1>14 DEF vars, disk, DurableInv, OneFailedSync, OnlyOwnReloads
<1> QED
  BY <1>1, <1>2, <1>3, <1>4, <1>5, <1>6, <1>7, <1>8, <1>9, <1>10, <1>11, <1>12, <1>13, <1>14
     DEF Next, Step

\* What Remove reported survives every kill, failed call and power loss, until the
\* user is granted an exception again, as long as no more than one directory sync
\* has failed (stageRemovalLocked: the marker stands until a sync has succeeded).
THEOREM RemovalAlwaysSurvives == Spec => []RemovalSurvives
<1>1. Init => SSHDInv /\ OpInv /\ DurableInv
  <2>1. Init => OpInv /\ DurableInv
    BY DEF Init, OpInv, DurableInv, Idle
  <2> QED
    BY <2>1, TypeInit, InvInit DEF SSHDInv
<1>2. SSHDInv /\ OpInv /\ DurableInv /\ [Next]_vars => SSHDInv' /\ OpInv' /\ DurableInv'
  BY TypeStep, InsideStep, OpStep, DurableStep DEF SSHDInv, InsideInv
<1>3. DurableInv => RemovalSurvives
  BY DEF DurableInv, RemovalSurvives, RemovedStaysRemoved
<1> QED
  BY <1>1, <1>2, <1>3, PTL DEF Spec

-----------------------------------------------------------------------------
(* InvitePolicy.  The listing and the source order are read by folds, whose   *)
(* values are described one position at a time; a statement about every       *)
(* position is proved by the least one that would break it.                   *)

\* Every set of naturals that is not empty has a least element.
LEMMA Least ==
  ASSUME NEW S \in SUBSET Nat, S # {}
  PROVE  \E m \in S : \A k \in S : m <= k
<1>1. PICK m \in S : \A k \in S : <<k, m>> \notin OpToRel(<, Nat)
  BY NatLessThanWellFounded, WFMin, Zenon
<1>2. ASSUME NEW k \in S, k < m
      PROVE  FALSE
  <2>1. <<k, m>> \in {ss \in Nat \X Nat : ss[1] < ss[2]}
    BY <1>2
  <2> QED
    BY <1>1, <2>1 DEF OpToRel
<1> QED
  BY <1>2

\* g is the fold of F over the sets of 1 .. n, from `base', largest element last.
IsFold(g, A, base, n, F) ==
  /\ g \in [SUBSET (1 .. n) -> A]
  /\ \A s \in SUBSET (1 .. n) :
       g[s] = IF s = {} THEN base ELSE F[<<g[s \ {Max(s)}], Max(s)>>]

\* A fold over finite sets of positions exists; by the least n for which it would not.
LEMMA FoldExists ==
  ASSUME NEW A, NEW base \in A, NEW n \in Nat, NEW F \in [A \X (1 .. n) -> A]
  PROVE  \E g : IsFold(g, A, base, n, F)
<1> DEFINE Folds(g, k) == IsFold(g, A, base, k, F)
           Bad == {k \in 0 .. n : ~\E g : Folds(g, k)}
<1> HIDE DEF Folds, Bad
<1>0. Bad \in SUBSET Nat
  BY DEF Bad
<1>1. SUFFICES ASSUME n \in Bad PROVE FALSE
  <2>1. n \notin Bad => \E g : Folds(g, n)
    BY DEF Bad
  <2> QED
    BY <2>1 DEF Folds, IsFold
<1>2. PICK m \in Bad : \A k \in Bad : m <= k
  BY <1>0, <1>1, Least
<1>3. CASE m = 0
  <2> DEFINE g == [s \in SUBSET (1 .. 0) |-> base]
  <2>1. Folds(g, 0)
    BY DEF Folds, IsFold
  <2> QED
    BY <1>2, <1>3, <2>1 DEF Bad
<1>4. CASE m > 0
  <2>1. m \in 1 .. n /\ m - 1 \in 0 .. n /\ m - 1 \notin Bad
    <3>1. m \in 0 .. n
      BY DEF Bad
    <3> QED
      BY <1>2, <1>4, <3>1
  <2>2. PICK g : Folds(g, m - 1)
    BY <2>1 DEF Bad
  <2> DEFINE h == [s \in SUBSET (1 .. m) |-> IF m \in s THEN F[<<g[s \ {m}], m>>] ELSE g[s]]
  <2>3. ASSUME NEW s \in SUBSET (1 .. m)
        PROVE  /\ s \ {m} \in SUBSET (1 .. m - 1)
               /\ m \notin s => s \in SUBSET (1 .. m - 1)
    BY <2>1
  <2>4. ASSUME NEW s \in SUBSET (1 .. m), m \in s
        PROVE  Max(s) = m
    <3>1. \A y \in s : m >= y
      BY <2>1
    <3>2. \A x \in s : (\A y \in s : x >= y) => x = m
      BY <2>1, <2>4
    <3> QED
      BY <2>4, <3>1, <3>2 DEF Max
  <2>5. h \in [SUBSET (1 .. m) -> A]
    BY <2>1, <2>2, <2>3 DEF Folds, IsFold
  <2>6. ASSUME NEW s \in SUBSET (1 .. m)
        PROVE  h[s] = IF s = {} THEN base ELSE F[<<h[s \ {Max(s)}], Max(s)>>]
    <3>1. CASE m \in s
      BY <2>3, <2>4, <3>1
    <3>2. CASE m \notin s
      <4>1. s \in SUBSET (1 .. m - 1) /\ s \ {Max(s)} \in SUBSET (1 .. m) /\ m \notin s \ {Max(s)}
        BY <2>3, <3>2
      <4>2. g[s] = IF s = {} THEN base ELSE F[<<g[s \ {Max(s)}], Max(s)>>]
        BY <2>2, <4>1 DEF Folds, IsFold
      <4> QED
        BY <3>2, <4>1, <4>2
    <3> QED
      BY <3>1, <3>2
  <2>7. Folds(h, m)
    BY <2>5, <2>6 DEF Folds, IsFold
  <2> QED
    BY <1>2, <2>7 DEF Bad
<1> QED
  BY <1>0, <1>2, <1>3, <1>4

\* The positions up to k without the last one.
LEMMA RangeSteps ==
  ASSUME NEW n \in Nat, NEW k \in 1 .. n
  PROVE  /\ k \in Nat \ {0} /\ 1 .. k \in SUBSET (1 .. n) /\ 1 .. k # {}
         /\ k \in 0 .. n /\ k - 1 \in 0 .. n
         /\ (1 .. k) \ {k} = 1 .. k - 1
<1>1. k \in Nat \ {0} /\ 1 .. k # {} /\ k \in 0 .. n /\ k - 1 \in 0 .. n
  OBVIOUS
<1>2. \A x \in 1 .. k : x \in 1 .. n
  OBVIOUS
<1>3. ASSUME NEW x
      PROVE  x \in (1 .. k) \ {k} <=> x \in 1 .. k - 1
  OBVIOUS
<1> QED
  BY <1>1, <1>2, <1>3

\* The last of the first k positions.
LEMMA MaxOfRange ==
  ASSUME NEW k \in Nat \ {0}
  PROVE  Max(1 .. k) = k
<1>1. k \in 1 .. k /\ \A y \in 1 .. k : k >= y
  OBVIOUS
<1>2. \A x \in 1 .. k : (\A y \in 1 .. k : x >= y) => x = k
  OBVIOUS
<1> QED
  BY <1>1, <1>2 DEF Max

\* A set of positions that is not empty has a greatest element.
LEMMA MaxInSet ==
  ASSUME NEW n \in Nat, NEW s \in SUBSET (1 .. n), s # {}
  PROVE  Max(s) \in s /\ \A y \in s : Max(s) >= y
<1> DEFINE T == {n - x : x \in s}
<1>1. T \in SUBSET Nat /\ T # {}
  <2>1. \A x \in s : n - x \in Nat
    OBVIOUS
  <2> QED
    BY <2>1
<1>2. PICK m \in T : \A k \in T : m <= k
  <2> HIDE DEF T
  <2> QED
    BY <1>1, Least
<1>3. PICK x \in s : m = n - x
  OBVIOUS
<1>4. ASSUME NEW y \in s
      PROVE  x >= y
  <2>1. n - y \in T
    OBVIOUS
  <2>2. n - x <= n - y
    <3> HIDE DEF T
    <3> QED
      BY <1>2, <1>3, <2>1
  <2> QED
    BY <2>2
<1> QED
  BY <1>4 DEF Max

\* What VerifyRule may have concluded.
Verdicts == {"ambiguous", "unproved", "proved"}

\* The verdict on a listing, one rule after the other.
LEMMA VerdictFold ==
  ASSUME NEW list \in Seq(ListedRule)
  PROVE  \E v :
           /\ v[0] = "unproved"
           /\ \A k \in 1 .. Len(list) : v[k] = VerifyRule(v[k - 1], list[k])
           /\ ProvesNopasswd(list) <=> v[Len(list)] = "proved"
<1> DEFINE n == Len(list)
           F == [x \in Verdicts \X (1 .. n) |-> VerifyRule(x[1], list[x[2]])]
           Body(g, s) == IF s = {} THEN "unproved" ELSE VerifyRule(g[s \ {Max(s)}], list[Max(s)])
           iter == CHOOSE g : g = [s \in SUBSET (1 .. n) |-> Body(g, s)]
           v == [k \in 0 .. n |-> iter[1 .. k]]
<1>1. n \in Nat /\ 1 .. n = DOMAIN list
  OBVIOUS
<1>2. ProvesNopasswd(list) <=> iter[1 .. n] = "proved"
  BY <1>1 DEF ProvesNopasswd, FoldLeft, MapThenFoldSet
<1>3. F \in [Verdicts \X (1 .. n) -> Verdicts]
  BY DEF VerifyRule, Verdicts
<1>4. PICK g : IsFold(g, Verdicts, "unproved", n, F)
  <2> HIDE DEF F, n
  <2>1. "unproved" \in Verdicts
    BY DEF Verdicts
  <2> QED
    BY <1>1, <1>3, <2>1, FoldExists
<1>5. ASSUME NEW s \in SUBSET (1 .. n), s # {}
      PROVE  Max(s) \in s
  BY <1>1, <1>5, MaxInSet
<1>6. g = [s \in SUBSET (1 .. n) |-> Body(g, s)]
  <2>1. ASSUME NEW s \in SUBSET (1 .. n)
        PROVE  g[s] = Body(g, s)
    <3>1. CASE s = {}
      BY <1>4, <3>1 DEF IsFold
    <3>2. CASE s # {}
      <4>1. Max(s) \in 1 .. n /\ s \ {Max(s)} \in SUBSET (1 .. n)
        BY <1>5, <3>2
      <4> QED
        BY <1>4, <3>2, <4>1 DEF IsFold
    <3> QED
      BY <3>1, <3>2
  <2> HIDE DEF Body
  <2> QED
    BY <1>4, <2>1 DEF IsFold
<1>7. iter = [s \in SUBSET (1 .. n) |-> Body(iter, s)]
  <2> HIDE DEF Body
  <2> QED
    BY <1>6
<1>8. v[0] = "unproved"
  <2>1. 1 .. 0 = {} /\ {} \in SUBSET (1 .. n) /\ 0 \in 0 .. n
    BY <1>1
  <2>2. v[0] = iter[{}]
    BY <2>1
  <2>3. iter[{}] = Body(iter, {})
    <3> HIDE DEF iter, Body
    <3> QED
      BY <1>7, <2>1
  <2> QED
    BY <2>2, <2>3
<1>9. ASSUME NEW k \in 1 .. n
      PROVE  v[k] = VerifyRule(v[k - 1], list[k])
  <2>1. /\ k \in Nat \ {0} /\ 1 .. k \in SUBSET (1 .. n) /\ 1 .. k # {}
        /\ k \in 0 .. n /\ k - 1 \in 0 .. n
        /\ (1 .. k) \ {k} = 1 .. k - 1
    BY <1>1, RangeSteps
  <2>2. Max(1 .. k) = k
    BY <2>1, MaxOfRange
  <2>3. v[k] = iter[1 .. k] /\ v[k - 1] = iter[1 .. k - 1]
    <3> HIDE DEF iter
    <3> QED
      BY <2>1
  <2>4. iter[1 .. k] = Body(iter, 1 .. k)
    <3> HIDE DEF iter, Body
    <3> QED
      BY <1>7, <2>1
  <2> HIDE DEF iter, v
  <2> QED
    BY <2>1, <2>2, <2>3, <2>4
<1>10. v[n] = iter[1 .. n]
  <2> HIDE DEF iter
  <2> QED
    BY <1>1
<1> HIDE DEF v
<1> QED
  BY <1>2, <1>8, <1>9, <1>10

\* A rule that proves, and one that changes nothing.
Included(r) == RootScope(r.runas) = "included" /\ ExactAll(r) /\ NoPassword(r.tags)
Excluded(r) == RootScope(r.runas) = "excluded"

\* A proof rests on one rule, and every later one is for other users.
LEMMA ProvedByLast ==
  ASSUME NEW list \in Seq(ListedRule), ProvesNopasswd(list)
  PROVE  \E i \in 1 .. Len(list) :
           Included(list[i]) /\ \A j \in i + 1 .. Len(list) : Excluded(list[j])
<1> DEFINE n == Len(list)
           LastRule(k) == \E i \in 1 .. k : Included(list[i]) /\ \A j \in i + 1 .. k : Excluded(list[j])
<1>1. PICK v : /\ v[0] = "unproved"
               /\ \A k \in 1 .. n : v[k] = VerifyRule(v[k - 1], list[k])
               /\ v[n] = "proved"
  BY VerdictFold
<1> DEFINE Bad == {k \in 0 .. n : v[k] = "proved" /\ ~LastRule(k)}
<1>2. n \in Nat
  OBVIOUS
<1> HIDE DEF n
<1>3. SUFFICES ASSUME Bad # {} PROVE FALSE
  <2>1. n \notin Bad => LastRule(n)
    BY <1>1, <1>2
  <2> QED
    BY <2>1 DEF n
<1>4. PICK m \in Bad : \A k \in Bad : m <= k
  <2>1. Bad \in SUBSET Nat
    BY <1>2
  <2> HIDE DEF Bad
  <2> QED
    BY <1>3, <2>1, Least
<1>5. m # 0 /\ m \in 1 .. n /\ v[m] = "proved" /\ ~LastRule(m)
  BY <1>1, <1>2
<1>6. v[m] = VerifyRule(v[m - 1], list[m])
  BY <1>1, <1>5
<1>7. CASE Included(list[m])
  <2>1. m \in 1 .. m /\ \A j \in m + 1 .. m : Excluded(list[j])
    BY <1>2, <1>5
  <2> QED
    BY <1>5, <1>7, <2>1
<1>8. CASE ~Included(list[m])
  <2>1. v[m - 1] = "proved" /\ Excluded(list[m])
    <3>1. list[m] \in ListedRule
      BY <1>5 DEF n
    <3>2. Excluded(list[m]) \/ ~(RootScope(list[m].runas) = "excluded")
      BY DEF Excluded
    <3> QED
      BY <1>5, <1>6, <1>8 DEF VerifyRule, Included, Excluded, RootScope
  <2>2. m - 1 \in 0 .. n /\ m - 1 \notin Bad
    <3> HIDE DEF Bad
    <3> QED
      BY <1>2, <1>4, <1>5
  <2>3. PICK i \in 1 .. m - 1 : Included(list[i]) /\ \A j \in i + 1 .. m - 1 : Excluded(list[j])
    BY <2>1, <2>2
  <2>4. i \in 1 .. m /\ \A j \in i + 1 .. m : Excluded(list[j])
    BY <1>2, <1>5, <2>1, <2>3
  <2> QED
    BY <1>5, <2>3, <2>4
<1> QED
  BY <1>7, <1>8

\* What verifyNopasswdOutput accepts is silent for every command, however the names
\* resolve that only sudo can.
LEMMA ProvedIsSilent ==
  ASSUME NEW list \in Seq(ListedRule), ProvesNopasswd(list),
         NEW cmd \in {"ALL", "some"}, NEW root \in BOOLEAN
  PROVE  SilentFor(list, cmd, root)
<1>1. PICK i \in 1 .. Len(list) :
        Included(list[i]) /\ \A j \in i + 1 .. Len(list) : Excluded(list[j])
  BY ProvedByLast
<1> DEFINE hits == {j \in DOMAIN list : AppliesToRoot(list[j], root)
                                          /\ (list[j].cmds = "ALL" \/ cmd = "some")}
<1>2. DOMAIN list = 1 .. Len(list) /\ Len(list) \in Nat
  OBVIOUS
<1>3. i \in hits
  BY <1>1, <1>2 DEF Included, ExactAll, RootScope, AppliesToRoot
<1>4. ASSUME NEW j \in hits
      PROVE  j <= i
  <2>1. j \in 1 .. Len(list) /\ ~Excluded(list[j])
    BY <1>2 DEF Excluded, RootScope, AppliesToRoot
  <2> HIDE DEF hits
  <2> QED
    BY <1>1, <1>2, <2>1
<1>5. NoPassword(list[i].tags) /\ "unknown" \notin ToSet(list[i].tags)
  BY <1>1 DEF Included, ExactAll
<1> QED
  BY <1>3, <1>4, <1>5 DEF SilentFor

-----------------------------------------------------------------------------
\* What the reader of nsswitch.conf holds.
ReadStates == [sources : Seq([name : Sources, stops : BOOLEAN]), fresh : BOOLEAN]

\* A token leads from one such state to another.
LEMMA ReadTokenType ==
  ASSUME NEW st \in ReadStates, NEW t \in Tokens
  PROVE  ReadToken(st, t) \in ReadStates
<1> DEFINE Src == [name : Sources, stops : BOOLEAN]
<1>1. CASE t \in Sources /\ \A s \in ToSet(st.sources) : s.name # t
  <2>1. [name |-> t, stops |-> FALSE] \in Src
    BY <1>1
  <2>2. Append(st.sources, [name |-> t, stops |-> FALSE]) \in Seq(Src)
    <3> HIDE DEF Src
    <3> QED
      BY <2>1 DEF ReadStates, Src
  <2>3. t \notin Controls
    BY <1>1 DEF Controls, Sources
  <2>4. ReadToken(st, t) = [sources |-> Append(st.sources, [name |-> t, stops |-> FALSE]), fresh |-> TRUE]
    BY <1>1, <2>3 DEF ReadToken
  <2> QED
    BY <2>2, <2>4 DEF ReadStates
<1>2. CASE t \in Controls /\ st.fresh
  <2> DEFINE new == [st.sources EXCEPT ![Len(st.sources)].stops = TRUE]
  <2>1. st.sources \in Seq(Src) /\ Len(st.sources) \in Nat
    BY DEF ReadStates
  <2>2. new \in [1 .. Len(st.sources) -> Src]
    <3>1. ASSUME NEW i \in 1 .. Len(st.sources)
          PROVE  st.sources[i] \in Src /\ [st.sources[i] EXCEPT !.stops = TRUE] \in Src
      <4>1. st.sources[i] \in Src
        <5> HIDE DEF Src
        <5> QED
          BY <2>1
      <4> QED
        BY <4>1
    <3>2. new = [i \in 1 .. Len(st.sources) |->
                   IF i = Len(st.sources) THEN [st.sources[i] EXCEPT !.stops = TRUE] ELSE st.sources[i]]
      <4>1. st.sources \in [1 .. Len(st.sources) -> Src]
        <5> HIDE DEF Src
        <5> QED
          BY <2>1
      <4> DEFINE ss == st.sources
                 n == Len(ss)
      <4>2. DOMAIN ss = 1 .. n
        BY <4>1
      <4> HIDE DEF ss, n
      <4>3. [ss EXCEPT ![n].stops = TRUE] =
              [i \in 1 .. n |-> IF i = n THEN [ss[i] EXCEPT !.stops = TRUE] ELSE ss[i]]
        BY <4>2
      <4> QED
        BY <4>3 DEF ss, n
    <3> HIDE DEF new, Src
    <3> QED
      BY <3>1, <3>2
  <2>3. new \in Seq(Src)
    <3> HIDE DEF new, Src
    <3> QED
      BY <2>1, <2>2
  <2>4. t \notin Sources
    BY <1>2 DEF Controls, Sources
  <2> QED
    BY <1>2, <2>3, <2>4 DEF ReadToken, ReadStates
<1>3. CASE ~(t \in Sources /\ \A s \in ToSet(st.sources) : s.name # t) /\ ~(t \in Controls /\ st.fresh)
  BY <1>3 DEF ReadToken, ReadStates
<1> QED
  BY <1>1, <1>2, <1>3

\* Before the first token.
StartRead == [sources |-> <<>>, fresh |-> FALSE]

\* The reading of nsswitch.conf, one token after the other.
LEMMA ReadFold ==
  ASSUME NEW toks \in Seq(Tokens)
  PROVE  \E r :
           /\ r[0] = StartRead
           /\ \A k \in 1 .. Len(toks) : r[k] = ReadToken(r[k - 1], toks[k])
           /\ FoldLeft(ReadToken, StartRead, toks) = r[Len(toks)]
<1> DEFINE n == Len(toks)
           F == [x \in ReadStates \X (1 .. n) |-> ReadToken(x[1], toks[x[2]])]
           Body(g, s) == IF s = {} THEN StartRead ELSE ReadToken(g[s \ {Max(s)}], toks[Max(s)])
           iter == CHOOSE g : g = [s \in SUBSET (1 .. n) |-> Body(g, s)]
           r == [k \in 0 .. n |-> iter[1 .. k]]
<1>1. n \in Nat /\ 1 .. n = DOMAIN toks /\ \A k \in 1 .. n : toks[k] \in Tokens
  OBVIOUS
<1>2. FoldLeft(ReadToken, StartRead, toks) = iter[1 .. n]
  BY <1>1 DEF FoldLeft, MapThenFoldSet
<1>3. F \in [ReadStates \X (1 .. n) -> ReadStates]
  BY <1>1, ReadTokenType
<1>4. PICK g : IsFold(g, ReadStates, StartRead, n, F)
  <2> HIDE DEF F, n
  <2>1. StartRead \in ReadStates
    BY DEF ReadStates, StartRead
  <2> QED
    BY <1>1, <1>3, <2>1, FoldExists
<1>5. ASSUME NEW s \in SUBSET (1 .. n), s # {}
      PROVE  Max(s) \in s
  BY <1>1, <1>5, MaxInSet
<1>6. g = [s \in SUBSET (1 .. n) |-> Body(g, s)]
  <2>1. ASSUME NEW s \in SUBSET (1 .. n)
        PROVE  g[s] = Body(g, s)
    <3>1. CASE s = {}
      BY <1>4, <3>1 DEF IsFold
    <3>2. CASE s # {}
      <4>1. Max(s) \in 1 .. n /\ s \ {Max(s)} \in SUBSET (1 .. n)
        BY <1>5, <3>2
      <4> QED
        BY <1>4, <3>2, <4>1 DEF IsFold
    <3> QED
      BY <3>1, <3>2
  <2> HIDE DEF Body
  <2> QED
    BY <1>4, <2>1 DEF IsFold
<1>7. iter = [s \in SUBSET (1 .. n) |-> Body(iter, s)]
  <2> HIDE DEF Body
  <2> QED
    BY <1>6
<1>8. r[0] = StartRead
  <2>1. 1 .. 0 = {} /\ {} \in SUBSET (1 .. n) /\ 0 \in 0 .. n
    BY <1>1
  <2>2. r[0] = iter[{}]
    BY <2>1
  <2>3. iter[{}] = Body(iter, {})
    <3> HIDE DEF iter, Body
    <3> QED
      BY <1>7, <2>1
  <2> QED
    BY <2>2, <2>3
<1>9. ASSUME NEW k \in 1 .. n
      PROVE  r[k] = ReadToken(r[k - 1], toks[k])
  <2>1. /\ k \in Nat \ {0} /\ 1 .. k \in SUBSET (1 .. n) /\ 1 .. k # {}
        /\ k \in 0 .. n /\ k - 1 \in 0 .. n
        /\ (1 .. k) \ {k} = 1 .. k - 1
    BY <1>1, RangeSteps
  <2>2. Max(1 .. k) = k
    BY <2>1, MaxOfRange
  <2>3. r[k] = iter[1 .. k] /\ r[k - 1] = iter[1 .. k - 1]
    <3> HIDE DEF iter
    <3> QED
      BY <2>1
  <2>4. iter[1 .. k] = Body(iter, 1 .. k)
    <3> HIDE DEF iter, Body
    <3> QED
      BY <1>7, <2>1
  <2> HIDE DEF iter, r
  <2> QED
    BY <2>1, <2>2, <2>3, <2>4
<1>10. r[n] = iter[1 .. n]
  <2> HIDE DEF iter
  <2> QED
    BY <1>1
<1> HIDE DEF r
<1> QED
  BY <1>2, <1>8, <1>9, <1>10

\* After the first k tokens the tool knows, in order, the sources sudo has asked for
\* the first time, and of each but the newest whether a control follows it.
ReadInv(st, pos, toks, k) ==
  LET S == st.sources
  IN  /\ st \in ReadStates
      /\ pos \in [1 .. Len(S) -> 1 .. k]
      /\ \A i \in 1 .. Len(S) : /\ FirstAsked(toks, pos[i]) /\ toks[pos[i]] = S[i].name
                                /\ pos[i] < k /\ toks[pos[i] + 1] \in Controls => S[i].stops
                                /\ \A j \in 1 .. i - 1 : pos[j] < pos[i]
      /\ \A p \in 1 .. k : /\ FirstAsked(toks, p) => \E i \in 1 .. Len(S) : pos[i] = p
                           /\ toks[p] \in Sources => \E i \in 1 .. Len(S) : S[i].name = toks[p]
      /\ k > 0 /\ FirstAsked(toks, k) => st.fresh

\* ReadInv holds before the first token,
LEMMA ReadStart ==
  ASSUME NEW toks \in Seq(Tokens)
  PROVE  \E pos : ReadInv(StartRead, pos, toks, 0)
<1> DEFINE pos == [i \in 1 .. 0 |-> 0]
<1>1. StartRead.sources = <<>> /\ Len(StartRead.sources) = 0 /\ StartRead \in ReadStates
  BY DEF StartRead, ReadStates
<1>2. pos \in [1 .. 0 -> 1 .. 0]
  OBVIOUS
<1>3. ReadInv(StartRead, pos, toks, 0)
  BY <1>1, <1>2 DEF ReadInv
<1> QED
  BY <1>3

\* is kept by every token,
LEMMA ReadStep ==
  ASSUME NEW toks \in Seq(Tokens), NEW k \in 1 .. Len(toks),
         NEW st, NEW pos, ReadInv(st, pos, toks, k - 1)
  PROVE  \E new : ReadInv(ReadToken(st, toks[k]), new, toks, k)
<1> DEFINE t == toks[k]
           S == st.sources
           n == Len(S)
<1>1. /\ t \in Tokens /\ k \in Nat \ {0} /\ k - 1 \in Nat /\ st \in ReadStates
      /\ S \in Seq([name : Sources, stops : BOOLEAN]) /\ n \in Nat
  BY DEF ReadInv, ReadStates
<1>2. /\ pos \in [1 .. n -> 1 .. k - 1]
      /\ \A i \in 1 .. n : pos[i] \in 1 .. k - 1 /\ pos[i] \in 1 .. k
      /\ \A i \in 1 .. n : /\ FirstAsked(toks, pos[i]) /\ toks[pos[i]] = S[i].name
                           /\ pos[i] < k - 1 /\ toks[pos[i] + 1] \in Controls => S[i].stops
                           /\ \A j \in 1 .. i - 1 : pos[j] < pos[i]
      /\ \A p \in 1 .. k - 1 : /\ FirstAsked(toks, p) => \E i \in 1 .. n : pos[i] = p
                               /\ toks[p] \in Sources => \E i \in 1 .. n : S[i].name = toks[p]
      /\ k - 1 > 0 /\ FirstAsked(toks, k - 1) => st.fresh
  <2>1. pos \in [1 .. n -> 1 .. k - 1]
    BY DEF ReadInv
  <2>2. \A i \in 1 .. n : pos[i] \in 1 .. k - 1 /\ pos[i] \in 1 .. k
    <3> HIDE DEF n
    <3> QED
      BY <1>1, <2>1
  <2> QED
    BY <2>1, <2>2 DEF ReadInv
<1>3. Controls \cap Sources = {}
  BY DEF Controls, Sources
<1>4. ReadToken(st, t) \in ReadStates
  BY <1>1, ReadTokenType
<1>5. ASSUME NEW p \in 1 .. k
      PROVE  p = k \/ p \in 1 .. k - 1
  BY <1>1
<1> HIDE DEF t, S, n
<1>6. CASE t \in Sources /\ \A s \in ToSet(S) : s.name # t
  <2> DEFINE x == [name |-> t, stops |-> FALSE]
             S2 == Append(S, x)
             new == [i \in 1 .. n + 1 |-> IF i = n + 1 THEN k ELSE pos[i]]
  <2>1. ReadToken(st, t) = [sources |-> S2, fresh |-> TRUE]
    BY <1>3, <1>6 DEF ReadToken, S
  <2>2. \A i \in 1 .. n : S[i].name # t
    BY <1>1, <1>6 DEF ToSet, n
  <2>3. FirstAsked(toks, k)
    BY <1>1, <1>2, <1>6, <2>2 DEF FirstAsked, t
  <2>4. Len(S2) = n + 1 /\ S2[n + 1] = x /\ \A i \in 1 .. n : S2[i] = S[i]
    BY <1>1, <1>6 DEF n
  <2> HIDE DEF S2
  <2>5. new \in [1 .. n + 1 -> 1 .. k] /\ new[n + 1] = k /\ \A i \in 1 .. n : new[i] = pos[i]
    BY <1>1, <1>2
  <2> HIDE DEF new
  <2>6. ASSUME NEW i \in 1 .. n + 1
        PROVE  /\ FirstAsked(toks, new[i]) /\ toks[new[i]] = S2[i].name
               /\ new[i] < k /\ toks[new[i] + 1] \in Controls => S2[i].stops
               /\ \A j \in 1 .. i - 1 : new[j] < new[i]
    <3>1. CASE i = n + 1
      <4>1. FirstAsked(toks, new[i]) /\ toks[new[i]] = S2[i].name /\ ~(new[i] < k)
        BY <1>1, <2>3, <2>4, <2>5, <3>1 DEF t
      <4>2. \A j \in 1 .. n : new[j] < k
        BY <1>1, <1>2, <2>5
      <4> QED
        BY <1>1, <2>5, <3>1, <4>1, <4>2
    <3>2. CASE i \in 1 .. n
      <4>1. new[i] = pos[i] /\ S2[i] = S[i] /\ \A j \in 1 .. i - 1 : new[j] = pos[j]
        BY <1>1, <2>4, <2>5, <3>2
      <4>2. pos[i] = k - 1 => toks[pos[i] + 1] \notin Controls
        BY <1>1, <1>3, <1>6 DEF t
      <4>3. pos[i] < k => pos[i] = k - 1 \/ pos[i] < k - 1
        <5>1. pos[i] \in 1 .. k - 1
          BY <1>2, <3>2
        <5> QED
          BY <1>1, <5>1
      <4> QED
        BY <1>2, <3>2, <4>1, <4>2, <4>3
    <3> QED
      BY <1>1, <3>1, <3>2
  <2>7. ASSUME NEW p \in 1 .. k
        PROVE  /\ FirstAsked(toks, p) => \E i \in 1 .. n + 1 : new[i] = p
               /\ toks[p] \in Sources => \E i \in 1 .. n + 1 : S2[i].name = toks[p]
    <3>1. n + 1 \in 1 .. n + 1 /\ \A i \in 1 .. n : i \in 1 .. n + 1
      BY <1>1
    <3>2. CASE p = k
      BY <2>4, <2>5, <3>1, <3>2 DEF t
    <3>3. CASE p \in 1 .. k - 1
      BY <1>2, <2>4, <2>5, <3>1, <3>3
    <3> QED
      BY <1>5, <3>2, <3>3
  <2>8. ReadInv(ReadToken(st, t), new, toks, k)
    BY <1>4, <2>1, <2>4, <2>5, <2>6, <2>7 DEF ReadInv
  <2> QED
    BY <2>8 DEF t
<1>7. CASE ~(t \in Sources /\ \A s \in ToSet(S) : s.name # t)
  <2> DEFINE st2 == ReadToken(st, t)
             S2 == st2.sources
  <2>1. ~FirstAsked(toks, k)
    <3>1. SUFFICES ASSUME t \in Sources, NEW s \in ToSet(S), s.name = t
                   PROVE  \E j \in 1 .. k - 1 : toks[j] = toks[k]
      BY <1>7 DEF FirstAsked, t
    <3>2. PICK i \in 1 .. n : s = S[i]
      BY <1>1, <3>1 DEF ToSet, n
    <3> QED
      BY <1>2, <3>1, <3>2 DEF t
  <2>2. \A i \in 1 .. n : pos[i] = k - 1 => i = n /\ st.fresh
    <3>1. ASSUME NEW i \in 1 .. n, pos[i] = k - 1
          PROVE  i = n /\ st.fresh
      <4>1. st.fresh
        BY <1>1, <1>2, <3>1
      <4>2. i < n => pos[i] < pos[n]
        BY <1>1, <1>2
      <4>3. pos[n] \in 1 .. k - 1 /\ i <= n
        BY <1>1, <1>2
      <4> QED
        BY <1>1, <3>1, <4>1, <4>2, <4>3
    <3> QED
      BY <3>1
  <2>3. /\ Len(S2) = n
        /\ \A i \in 1 .. n : S2[i].name = S[i].name /\ (S[i].stops => S2[i].stops)
        /\ \A i \in 1 .. n : pos[i] = k - 1 /\ t \in Controls => S2[i].stops
    <3>1. CASE t \in Controls /\ st.fresh
      <4>1. st2 = [sources |-> [S EXCEPT ![Len(S)].stops = TRUE], fresh |-> FALSE]
        BY <1>3, <3>1 DEF ReadToken, S
      <4>2. S2 = [S EXCEPT ![n].stops = TRUE]
        BY <4>1 DEF n
      <4>3. S \in [1 .. n -> [name : Sources, stops : BOOLEAN]]
        <5> DEFINE Src == [name : Sources, stops : BOOLEAN]
        <5>1. S \in Seq(Src)
          BY <1>1
        <5> HIDE DEF Src
        <5>2. S \in [1 .. n -> Src]
          BY <5>1 DEF n
        <5> QED
          BY <5>2 DEF Src
      <4> HIDE DEF S2
      <4>4. S2 = [i \in 1 .. n |-> IF i = n THEN [S[i] EXCEPT !.stops = TRUE] ELSE S[i]]
        <5>1. DOMAIN S = 1 .. n
          BY <4>3
        <5> QED
          BY <4>2, <5>1
      <4>5. Len(S2) = n
        BY <1>1, <4>4
      <4>6. ASSUME NEW i \in 1 .. n
            PROVE  S2[i] = IF i = n THEN [S[i] EXCEPT !.stops = TRUE] ELSE S[i]
        BY <4>4
      <4>7. ASSUME NEW i \in 1 .. n
            PROVE  S[i] \in [name : Sources, stops : BOOLEAN]
        BY <4>3
      <4> QED
        BY <2>2, <4>5, <4>6, <4>7
    <3>2. CASE ~(t \in Controls /\ st.fresh)
      <4>1. st2 = [st EXCEPT !.fresh = FALSE]
        BY <1>7, <3>2 DEF ReadToken, S
      <4>2. S2 = S
        BY <1>1, <4>1 DEF ReadStates, S
      <4> QED
        BY <2>2, <3>2, <4>2 DEF n
    <3> QED
      BY <3>1, <3>2
  <2>4. pos \in [1 .. n -> 1 .. k]
    BY <1>2
  <2> HIDE DEF S2, st2
  <2>5. ASSUME NEW i \in 1 .. n
        PROVE  /\ FirstAsked(toks, pos[i]) /\ toks[pos[i]] = S2[i].name
               /\ pos[i] < k /\ toks[pos[i] + 1] \in Controls => S2[i].stops
               /\ \A j \in 1 .. i - 1 : pos[j] < pos[i]
    <3>1. pos[i] < k => pos[i] = k - 1 \/ pos[i] < k - 1
      BY <1>1, <1>2
    <3>2. pos[i] = k - 1 => toks[pos[i] + 1] = t
      BY <1>1 DEF t
    <3> QED
      BY <1>2, <2>3, <3>1, <3>2
  <2>6. ASSUME NEW p \in 1 .. k
        PROVE  /\ FirstAsked(toks, p) => \E i \in 1 .. n : pos[i] = p
               /\ toks[p] \in Sources => \E i \in 1 .. n : S2[i].name = toks[p]
    <3>1. CASE p \in 1 .. k - 1
      BY <1>2, <2>3, <3>1
    <3>2. CASE p = k
      <4>1. t \in Sources => \E i \in 1 .. n : S[i].name = t
        BY <1>1, <1>7 DEF ToSet, n
      <4> QED
        BY <2>1, <2>3, <3>2, <4>1 DEF t
    <3> QED
      BY <1>5, <3>1, <3>2
  <2>7. ReadInv(st2, pos, toks, k)
    BY <1>4, <2>1, <2>3, <2>4, <2>5, <2>6 DEF ReadInv, S2, st2
  <2> QED
    BY <2>7 DEF st2, t
<1> QED
  BY <1>6, <1>7

\* and so holds of the whole line.
LEMMA ReadAll ==
  ASSUME NEW toks \in Seq(Tokens)
  PROVE  \E pos : ReadInv(FoldLeft(ReadToken, StartRead, toks), pos, toks, Len(toks))
<1> DEFINE n == Len(toks)
<1>1. PICK r : /\ r[0] = StartRead
               /\ \A k \in 1 .. n : r[k] = ReadToken(r[k - 1], toks[k])
               /\ FoldLeft(ReadToken, StartRead, toks) = r[n]
  BY ReadFold
<1> DEFINE Bad == {k \in 0 .. n : ~\E pos : ReadInv(r[k], pos, toks, k)}
<1>2. n \in Nat
  OBVIOUS
<1> HIDE DEF n, Bad
<1>3. SUFFICES ASSUME n \in Bad PROVE FALSE
  <2>1. n \notin Bad => \E pos : ReadInv(r[n], pos, toks, n)
    BY <1>2 DEF Bad
  <2> QED
    BY <1>1, <2>1 DEF n
<1>4. Bad \in SUBSET Nat
  BY <1>2 DEF Bad
<1>5. PICK m \in Bad : \A k \in Bad : m <= k
  BY <1>3, <1>4, Least
<1>6. m \in 0 .. n /\ ~\E pos : ReadInv(r[m], pos, toks, m)
  BY <1>5 DEF Bad
<1>7. m # 0
  BY <1>1, <1>6, ReadStart
<1>8. m \in 1 .. n /\ m - 1 \in 0 .. n /\ m - 1 \notin Bad
  BY <1>2, <1>4, <1>5, <1>6, <1>7
<1>9. PICK pos : ReadInv(r[m - 1], pos, toks, m - 1)
  BY <1>8 DEF Bad
<1>10. \E new : ReadInv(ReadToken(r[m - 1], toks[m]), new, toks, m)
  BY <1>8, <1>9, ReadStep DEF n
<1> QED
  BY <1>1, <1>6, <1>8, <1>10

\* What requireReachableFilesSource accepts reaches the local files, whatever the
\* sources before them answer.
LEMMA ReachableIsAsked ==
  ASSUME NEW toks \in Seq(Tokens), FilesReachable(toks), NEW answer \in [Sources -> Controls]
  PROVE  FilesAsked(toks, answer)
<1> DEFINE n == Len(toks)
           st == FoldLeft(ReadToken, StartRead, toks)
           S == st.sources
<1>1. n \in Nat /\ DOMAIN toks = 1 .. n
  OBVIOUS
<1>2. PICK pos : ReadInv(st, pos, toks, n)
  BY ReadAll
<1>3. \/ S = <<>>
      \/ \E i \in DOMAIN S : S[i].name = "files" /\ \A j \in 1 .. i - 1 : ~S[j].stops
  BY DEF FilesReachable, StartRead
<1> HIDE DEF st
<1>4. /\ S \in Seq([name : Sources, stops : BOOLEAN]) /\ Len(S) \in Nat /\ DOMAIN S = 1 .. Len(S)
  BY <1>2 DEF ReadInv, ReadStates
<1>5. /\ \A i \in 1 .. Len(S) : pos[i] \in 1 .. n
      /\ \A i \in 1 .. Len(S) : /\ FirstAsked(toks, pos[i]) /\ toks[pos[i]] = S[i].name
                                /\ pos[i] < n /\ toks[pos[i] + 1] \in Controls => S[i].stops
                                /\ \A j \in 1 .. i - 1 : pos[j] < pos[i]
      /\ \A p \in 1 .. n : /\ FirstAsked(toks, p) => \E i \in 1 .. Len(S) : pos[i] = p
                           /\ toks[p] \in Sources => \E i \in 1 .. Len(S) : S[i].name = toks[p]
  BY <1>2 DEF ReadInv
<1> HIDE DEF S, n
<1>6. CASE S = <<>>
  <2>1. \A p \in 1 .. n : toks[p] \notin Sources
    BY <1>5, <1>6
  <2> QED
    BY <1>1, <2>1 DEF FilesAsked
<1>7. CASE \E i \in DOMAIN S : S[i].name = "files" /\ \A j \in 1 .. i - 1 : ~S[j].stops
  <2>1. PICK i \in 1 .. Len(S) : S[i].name = "files" /\ \A j \in 1 .. i - 1 : ~S[j].stops
    BY <1>4, <1>7
  <2>2. ASSUME NEW q \in 1 .. pos[i] - 1, Returns(toks, q, answer)
        PROVE  FALSE
    <3>1. q \in 1 .. n /\ q < pos[i] /\ pos[i] \in 1 .. n
      BY <1>1, <1>5
    <3>2. FirstAsked(toks, q) /\ q < n /\ toks[q + 1] = answer[toks[q]] /\ toks[q] \in Sources
      BY <2>2 DEF Returns, FirstAsked, n
    <3>3. PICK j \in 1 .. Len(S) : pos[j] = q
      BY <1>5, <3>1, <3>2
    <3>4. S[j].stops
      BY <1>5, <3>2, <3>3
    <3>5. j \in 1 .. i - 1
      <4>1. i < j => pos[i] < pos[j]
        BY <1>4, <1>5
      <4> QED
        BY <1>4, <3>1, <3>3, <4>1
    <3> QED
      BY <2>1, <3>4, <3>5
  <2>3. pos[i] \in DOMAIN toks /\ FirstAsked(toks, pos[i]) /\ toks[pos[i]] = "files"
    BY <1>1, <1>5, <2>1
  <2> QED
    BY <2>2, <2>3 DEF FilesAsked
<1> QED
  BY <1>3, <1>6, <1>7

-----------------------------------------------------------------------------
\* The lines of the exception: each is scoped to the account, and sets something
\* that CanLift names; a list of users is only lifted where it was the blocker.
LiftKeys == {"pubkey", "keysfile", "methods", "algs", "allowusers", "allowgroups"}
OfTheAccount(line) ==
  /\ line.kind = "user" /\ line.of = {Acct} /\ line.key \in LiftKeys
  /\ line.key = "allowusers" => line.val = {AcctPattern}
IsException(lines) ==
  /\ Len(lines) \in Nat /\ lines \in Seq({lines[i] : i \in 1 .. Len(lines)})
  /\ \A i \in 1 .. Len(lines) : OfTheAccount(lines[i])
\* A line of the exception sets the directive.
Sets(lines, key) == \E i \in 1 .. Len(lines) : lines[i].key = key

\* A finite set of directives is listed without repetition.
LEMMA SetToSeqLists ==
  ASSUME NEW S, IsFiniteSet(S)
  PROVE  \E n \in Nat : /\ SetToSeq(S) \in [1 .. n -> S]
                        /\ \A x \in S : \E i \in 1 .. n : SetToSeq(S)[i] = x
<1> DEFINE n == Cardinality(S)
<1>1. n \in Nat /\ ExistsBijection(1 .. n, S)
  BY FS_CardinalityType
<1>2. \E f \in [1 .. n -> S] : IsInjective(f)
  BY <1>1 DEF ExistsBijection, Bijection, Injection
<1>3. SetToSeq(S) \in [1 .. n -> S] /\ IsInjective(SetToSeq(S))
  BY <1>2 DEF SetToSeq
<1>4. SetToSeq(S) \in Injection(1 .. n, S)
  BY <1>3 DEF Injection
<1>5. Cardinality(1 .. n) = n
  BY <1>1, FS_Interval
<1>6. SetToSeq(S) \in Surjection(1 .. n, S)
  BY <1>4, <1>5, FS_Injection
<1> QED
  BY <1>1, <1>3, <1>6 DEF Surjection

\* What dropIn writes is such an exception.
LEMMA DropInLines ==
  ASSUME NEW rep, NEW primary
  PROVE  /\ IsException(DropIn(rep, primary))
         /\ Sets(DropIn(rep, primary), "allowusers") <=> "AllowUsers" \in rep.blockers
<1> DEFINE lifts == [pubkey |-> <<"Pubkey", {"yes"}>>, keysfile |-> <<"KeysFile", {"home"}>>,
                     methods |-> <<"Methods", {"publickey"}>>,
                     algs |-> <<"Algorithm", rep.algs \cup {"ed25519"}>>,
                     allowusers |-> <<"AllowUsers", {AcctPattern}>>,
                     allowgroups |-> <<"AllowGroups", {primary}>>]
           lifted == {k \in DOMAIN lifts : lifts[k][1] \in rep.blockers}
           keys == SetToSeq(lifted)
           lines == [i \in DOMAIN keys |-> [kind |-> "user", of |-> {Acct}, key |-> keys[i],
                                            val |-> lifts[keys[i]][2]]]
<1>1. DropIn(rep, primary) = lines
  BY DEF DropIn
<1>2. DOMAIN lifts = LiftKeys
  BY DEF LiftKeys
<1>3. IsFiniteSet(LiftKeys)
  <2>1. IsFiniteSet({}) /\ LiftKeys = ((((({} \cup {"pubkey"}) \cup {"keysfile"}) \cup {"methods"})
                                         \cup {"algs"}) \cup {"allowusers"}) \cup {"allowgroups"}
    BY FS_EmptySet DEF LiftKeys
  <2> QED
    BY <2>1, FS_AddElement
<1>4. lifted \subseteq LiftKeys /\ ("allowusers" \in lifted <=> "AllowUsers" \in rep.blockers)
  BY <1>2 DEF LiftKeys
<1>5. lifts["allowusers"][2] = {AcctPattern}
  OBVIOUS
<1> HIDE DEF lifts, lifted
<1>6. IsFiniteSet(lifted)
  BY <1>3, <1>4, FS_Subset
<1>7. PICK n \in Nat : keys \in [1 .. n -> lifted] /\ \A k \in lifted : \E i \in 1 .. n : keys[i] = k
  BY <1>6, SetToSeqLists
<1> HIDE DEF keys
<1>8. DOMAIN keys = 1 .. n /\ \A i \in 1 .. n : keys[i] \in lifted
  BY <1>7
<1>9. lines = [i \in 1 .. n |-> [kind |-> "user", of |-> {Acct}, key |-> keys[i],
                                 val |-> lifts[keys[i]][2]]]
  BY <1>8
<1>10. Len(lines) = n
  BY <1>7, <1>9
<1>11. ASSUME NEW i \in 1 .. n
       PROVE  OfTheAccount(lines[i]) /\ lines[i].key = keys[i]
  <2>1. lines[i] = [kind |-> "user", of |-> {Acct}, key |-> keys[i], val |-> lifts[keys[i]][2]]
    BY <1>9
  <2>2. keys[i] \in LiftKeys
    BY <1>4, <1>8
  <2>3. /\ lines[i].kind = "user" /\ lines[i].of = {Acct} /\ lines[i].key = keys[i]
        /\ lines[i].val = lifts[keys[i]][2]
    <3> HIDE DEF lines
    <3> QED
      BY <2>1
  <2>4. keys[i] = "allowusers" => lifts[keys[i]][2] = {AcctPattern}
    BY <1>5
  <2> HIDE DEF lines
  <2> QED
    BY <2>2, <2>3, <2>4 DEF OfTheAccount
<1>12. lines \in Seq({lines[i] : i \in 1 .. n})
  <2> DEFINE T == {lines[i] : i \in 1 .. n}
  <2>1. lines \in [1 .. n -> T]
    BY <1>9
  <2> HIDE DEF lines, T
  <2>2. lines \in Seq(T)
    BY <1>7, <2>1
  <2> QED
    BY <2>2 DEF T
<1> HIDE DEF lines
<1>13. IsException(lines)
  BY <1>7, <1>10, <1>11, <1>12 DEF IsException
<1>14. Sets(lines, "allowusers") <=> "allowusers" \in lifted
  BY <1>7, <1>8, <1>10, <1>11 DEF Sets
<1> QED
  BY <1>1, <1>4, <1>13, <1>14

\* Two sequences of lines show a connection the same value of a directive when one
\* is the other with lines between that do not concern it.
Spread(mu, a, b, conn, key) ==
  /\ mu \in [1 .. Len(a) -> 1 .. Len(b)]
  /\ \A i, j \in 1 .. Len(a) : i < j <=> mu[i] < mu[j]
  /\ \A i \in 1 .. Len(a) : b[mu[i]] = a[i]
  /\ \A j \in Hits(b, conn, key) : \E i \in 1 .. Len(a) : mu[i] = j

\* The lines between do not show.
LEMMA SameValue ==
  ASSUME NEW A, NEW B, NEW a \in Seq(A), NEW b \in Seq(B), NEW mu, NEW conn, NEW key,
         Spread(mu, a, b, conn, key)
  PROVE  Value(b, conn, key) = Value(a, conn, key)
<1> DEFINE ha == Hits(a, conn, key)
           hb == Hits(b, conn, key)
           ua == IF Scoped(a, ha) # {} THEN Scoped(a, ha) ELSE ha
           ub == IF Scoped(b, hb) # {} THEN Scoped(b, hb) ELSE hb
<1>1. /\ DOMAIN a = 1 .. Len(a) /\ DOMAIN b = 1 .. Len(b)
      /\ Len(a) \in Nat /\ Len(b) \in Nat
  OBVIOUS
<1>2. /\ mu \in [1 .. Len(a) -> 1 .. Len(b)]
      /\ \A i, j \in 1 .. Len(a) : i < j <=> mu[i] < mu[j]
      /\ \A i \in 1 .. Len(a) : b[mu[i]] = a[i]
      /\ \A j \in hb : \E i \in 1 .. Len(a) : mu[i] = j
  BY DEF Spread
<1>3. \A i \in 1 .. Len(a) : i \in ha <=> mu[i] \in hb
  BY <1>1, <1>2 DEF Hits
<1>4. ha \subseteq 1 .. Len(a) /\ hb \subseteq 1 .. Len(b)
  BY <1>1 DEF Hits
<1>5. \A i \in 1 .. Len(a) : i \in Scoped(a, ha) <=> mu[i] \in Scoped(b, hb)
  BY <1>2, <1>3 DEF Scoped
<1>6. Scoped(a, ha) \subseteq ha /\ Scoped(b, hb) \subseteq hb
  BY DEF Scoped
<1> HIDE DEF ha, hb
<1>7. Scoped(a, ha) # {} <=> Scoped(b, hb) # {}
  BY <1>2, <1>4, <1>5, <1>6
<1>8. ua \subseteq 1 .. Len(a) /\ ub \subseteq hb
  BY <1>4, <1>6
<1>9. \A i \in 1 .. Len(a) : i \in ua <=> mu[i] \in ub
  BY <1>3, <1>5, <1>7
<1>10. /\ Value(a, conn, key) = IF key \in Lists THEN UNION {a[i].val : i \in ua}
                                ELSE IF ua = {} THEN Default[key]
                                ELSE a[CHOOSE i \in ua : \A j \in ua : i <= j].val
       /\ Value(b, conn, key) = IF key \in Lists THEN UNION {b[i].val : i \in ub}
                                ELSE IF ub = {} THEN Default[key]
                                ELSE b[CHOOSE i \in ub : \A j \in ub : i <= j].val
  BY DEF Value, ha, hb
<1> HIDE DEF ua, ub
<1>11. CASE key \in Lists
  <2>1. ASSUME NEW v
        PROVE  v \in UNION {a[i].val : i \in ua} <=> v \in UNION {b[i].val : i \in ub}
    <3>1. ASSUME NEW i \in ua, v \in a[i].val
          PROVE  mu[i] \in ub /\ v \in b[mu[i]].val
      BY <1>2, <1>8, <1>9, <3>1
    <3>2. ASSUME NEW j \in ub, v \in b[j].val
          PROVE  \E i \in ua : v \in a[i].val
      <4>1. PICK i \in 1 .. Len(a) : mu[i] = j
        BY <1>2, <1>8
      <4>2. i \in ua /\ b[mu[i]] = a[i]
        BY <1>2, <1>9, <4>1
      <4> QED
        BY <3>2, <4>1, <4>2
    <3> QED
      BY <3>1, <3>2
  <2>2. UNION {a[i].val : i \in ua} = UNION {b[i].val : i \in ub}
    BY <2>1
  <2> QED
    BY <1>10, <1>11, <2>2
<1>12. CASE key \notin Lists /\ ua = {}
  <2>1. ub = {}
    BY <1>2, <1>8, <1>9, <1>12
  <2> QED
    BY <1>10, <1>12, <2>1
<1>13. CASE key \notin Lists /\ ua # {}
  <2>1. ua \in SUBSET Nat
    BY <1>8
  <2>2. PICK m \in ua : \A j \in ua : m <= j
    BY <1>13, <2>1, Least
  <2>3. m \in 1 .. Len(a) /\ mu[m] \in ub
    BY <1>8, <1>9
  <2>4. \A x \in ua : (\A j \in ua : x <= j) => x = m
    BY <2>1, <2>2
  <2>5. (CHOOSE i \in ua : \A j \in ua : i <= j) = m
    BY <2>2, <2>4
  <2>6. ASSUME NEW j \in ub
        PROVE  mu[m] <= j
    <3>1. PICK i \in 1 .. Len(a) : mu[i] = j
      BY <1>2, <1>8
    <3>2. i \in ua
      BY <1>9, <3>1
    <3>3. m <= i
      BY <2>2, <3>2
    <3>4. mu[m] \in Int /\ mu[i] \in Int
      BY <1>2, <2>3
    <3>5. ~(i < m)
      BY <2>3, <3>1, <3>3
    <3>6. ~(mu[i] < mu[m])
      BY <1>2, <2>3, <3>5
    <3> QED
      BY <3>1, <3>4, <3>6
  <2>7. \A x \in ub : x \in Int
    BY <1>4, <1>8
  <2>8. \A x \in ub : (\A j \in ub : x <= j) => x = mu[m]
    BY <2>3, <2>6, <2>7
  <2>9. (CHOOSE i \in ub : \A j \in ub : i <= j) = mu[m]
    BY <2>3, <2>6, <2>8
  <2> QED
    BY <1>2, <1>10, <1>13, <2>3, <2>5, <2>9
<1> QED
  BY <1>11, <1>12, <1>13

\* Two sequences joined.
LEMMA Joined ==
  ASSUME NEW S, NEW s \in Seq(S), NEW t \in Seq(S)
  PROVE  /\ s \o t \in Seq(S) /\ Len(s \o t) = Len(s) + Len(t)
         /\ \A i \in 1 .. Len(s) : (s \o t)[i] = s[i]
         /\ \A i \in 1 .. Len(t) : (s \o t)[Len(s) + i] = t[i]
OBVIOUS

\* f holds the lines of c with those of e between the first k and the others.
Inserted(f, c, e, k) ==
  /\ f \in Seq(ConfigLine \cup {e[i] : i \in 1 .. Len(e)}) /\ Len(f) = Len(c) + Len(e)
  /\ \A i \in 1 .. k : f[i] = c[i]
  /\ \A i \in 1 .. Len(e) : f[k + i] = e[i]
  /\ \A i \in k + 1 .. Len(c) : f[i + Len(e)] = c[i]

\* Where an Include reads the drop-in, its lines stand together among the others.
LEMMA InForceLines ==
  ASSUME NEW c \in Seq(ConfigLine), NEW e, IsException(e), NEW k \in 0 .. Len(c)
  PROVE  Inserted(InForce(c, k, e), c, e, k)
<1> DEFINE T == ConfigLine \cup {e[i] : i \in 1 .. Len(e)}
           s1 == SubSeq(c, 1, k)
           s2 == SubSeq(c, k + 1, Len(c))
<1>1. InForce(c, k, e) = s1 \o e \o s2
  <2>1. ~(k < 0)
    OBVIOUS
  <2> QED
    BY <2>1 DEF InForce, AfterException
<1>2. c \in Seq(T) /\ e \in Seq(T) /\ Len(c) \in Nat /\ Len(e) \in Nat /\ k \in Nat
  <2> DEFINE own == {e[i] : i \in 1 .. Len(e)}
  <2>1. e \in Seq(own) /\ Len(e) \in Nat
    BY DEF IsException
  <2>2. T = ConfigLine \cup own
    OBVIOUS
  <2> HIDE DEF T, own
  <2> QED
    BY <2>1, <2>2
<1> HIDE DEF T
<1>3. /\ s1 \in Seq(T) /\ Len(s1) = k /\ \A i \in 1 .. k : s1[i] = c[i]
      /\ s2 \in Seq(T) /\ Len(s2) = Len(c) - k
      /\ \A i \in 1 .. Len(c) - k : s2[i] = c[k + i]
  BY <1>2
<1> HIDE DEF s1, s2
<1> DEFINE s12 == s1 \o e
<1>4. /\ s12 \in Seq(T) /\ Len(s12) = k + Len(e)
      /\ \A i \in 1 .. k : s12[i] = c[i]
      /\ \A i \in 1 .. Len(e) : s12[k + i] = e[i]
  <2>1. /\ s12 \in Seq(T) /\ Len(s12) = Len(s1) + Len(e)
        /\ \A i \in 1 .. Len(s1) : s12[i] = s1[i]
        /\ \A i \in 1 .. Len(e) : s12[Len(s1) + i] = e[i]
    <3>1. s1 \in Seq(T) /\ e \in Seq(T)
      BY <1>2, <1>3
    <3> QED
      BY <3>1, Joined
  <2> HIDE DEF s12
  <2> QED
    BY <1>2, <1>3, <2>1
<1> HIDE DEF s12
<1> DEFINE f == s12 \o s2
<1>5. f \in Seq(T) /\ Len(f) = Len(c) + Len(e)
  <2>1. f \in Seq(T) /\ Len(f) = Len(s12) + Len(s2)
    BY <1>3, <1>4, Joined
  <2> QED
    BY <1>2, <1>3, <1>4, <2>1
<1>6. \A i \in 1 .. k + Len(e) : f[i] = s12[i]
  BY <1>2, <1>3, <1>4
<1>7. ASSUME NEW i \in k + 1 .. Len(c)
      PROVE  f[i + Len(e)] = c[i]
  <2>1. i - k \in 1 .. Len(c) - k /\ i + Len(e) = Len(s12) + (i - k)
    BY <1>2, <1>4
  <2>2. f[Len(s12) + (i - k)] = s2[i - k]
    BY <1>2, <1>3, <1>4, <2>1
  <2>3. s2[i - k] = c[k + (i - k)] /\ k + (i - k) = i
    BY <1>2, <1>3, <2>1
  <2> QED
    BY <2>1, <2>2, <2>3
<1>8. /\ \A i \in 1 .. k : f[i] = c[i]
      /\ \A i \in 1 .. Len(e) : f[k + i] = e[i]
  BY <1>2, <1>4, <1>6
<1>9. InForce(c, k, e) = f
  BY <1>1 DEF s12
<1> HIDE DEF f
<1> QED
  BY <1>5, <1>7, <1>8, <1>9 DEF T, Inserted

\* Where the exception has nothing to say the configuration decides alone.
LEMMA ExceptionSilent ==
  ASSUME NEW c \in Seq(ConfigLine), NEW e, IsException(e), NEW at0 \in -1 .. Len(c),
         NEW conn, NEW key,
         \A i \in 1 .. Len(e) : ~(e[i].key = key /\ Applies(e[i], conn))
  PROVE  Value(InForce(c, at0, e), conn, key) = Value(c, conn, key)
<1>1. CASE at0 < 0
  BY <1>1 DEF InForce
<1>2. CASE at0 \in 0 .. Len(c)
  <2> DEFINE f == InForce(c, at0, e)
             T == ConfigLine \cup {e[i] : i \in 1 .. Len(e)}
             mu == [i \in 1 .. Len(c) |-> IF i <= at0 THEN i ELSE i + Len(e)]
  <2>1. /\ f \in Seq(T) /\ Len(f) = Len(c) + Len(e)
        /\ \A i \in 1 .. at0 : f[i] = c[i]
        /\ \A i \in 1 .. Len(e) : f[at0 + i] = e[i]
        /\ \A i \in at0 + 1 .. Len(c) : f[i + Len(e)] = c[i]
    <3> HIDE DEF f, T, mu
    <3>1. Inserted(InForce(c, at0, e), c, e, at0)
      BY <1>2, InForceLines
    <3> QED
      BY <3>1 DEF Inserted, f, T
  <2>2. Len(c) \in Nat /\ Len(e) \in Nat /\ at0 \in Nat
    BY <1>2 DEF IsException
  <2> HIDE DEF f, T
  <2>3. mu \in [1 .. Len(c) -> 1 .. Len(f)]
    BY <1>2, <2>1, <2>2
  <2>4. \A i, j \in 1 .. Len(c) : i < j <=> mu[i] < mu[j]
    BY <2>2
  <2>5. ASSUME NEW i \in 1 .. Len(c)
        PROVE  f[mu[i]] = c[i]
    <3>1. CASE i <= at0
      BY <2>1, <2>2, <3>1
    <3>2. CASE i > at0
      BY <2>1, <2>2, <3>2
    <3> QED
      BY <2>2, <3>1, <3>2
  <2>6. ASSUME NEW j \in Hits(f, conn, key)
        PROVE  \E i \in 1 .. Len(c) : mu[i] = j
    <3>1. j \in 1 .. Len(f) /\ f[j].key = key /\ Applies(f[j], conn)
      BY <2>1 DEF Hits
    <3>2. CASE j <= at0
      <4>1. j \in 1 .. Len(c)
        BY <1>2, <2>2, <3>1, <3>2
      <4> QED
        BY <3>2, <4>1
    <3>3. CASE j > at0 /\ j <= at0 + Len(e)
      <4>1. j - at0 \in 1 .. Len(e) /\ at0 + (j - at0) = j
        BY <2>2, <3>1, <3>3
      <4> QED
        BY <2>1, <3>1, <4>1
    <3>4. CASE j > at0 + Len(e)
      <4>1. j - Len(e) \in 1 .. Len(c) /\ ~(j - Len(e) <= at0) /\ (j - Len(e)) + Len(e) = j
        BY <2>1, <2>2, <3>1, <3>4
      <4> QED
        BY <4>1
    <3> QED
      BY <2>2, <3>1, <3>2, <3>3, <3>4
  <2> HIDE DEF mu
  <2>7. Spread(mu, c, f, conn, key)
    BY <2>3, <2>4, <2>5, <2>6 DEF Spread
  <2> QED
    BY <2>1, <2>7, SameValue DEF f
<1> QED
  BY <1>1, <1>2

\* For anybody else it has nothing to say at all.
LEMMA OthersUntouched ==
  ASSUME PolicyConstants, NEW c \in Seq(ConfigLine), NEW e, IsException(e),
         NEW at0 \in -1 .. Len(c), NEW gs, NEW addr
  PROVE  Effective(InForce(c, at0, e), Conn(Other, gs, addr)) = Effective(c, Conn(Other, gs, addr))
<1>1. \A i \in 1 .. Len(e) : ~Applies(e[i], Conn(Other, gs, addr))
  BY PolicyConstants DEF IsException, OfTheAccount, Applies, Conn
<1>2. ASSUME NEW key
      PROVE  Value(InForce(c, at0, e), Conn(Other, gs, addr), key) = Value(c, Conn(Other, gs, addr), key)
  BY <1>1, ExceptionSilent
<1> QED
  BY <1>2 DEF Effective

\* It lifts no list it does not set.
LEMMA UnsetUntouched ==
  ASSUME NEW c \in Seq(ConfigLine), NEW e, IsException(e), NEW at0 \in -1 .. Len(c),
         NEW conn, NEW key \in Keys, ~Sets(e, key)
  PROVE  Effective(InForce(c, at0, e), conn)[key] = Effective(c, conn)[key]
<1>1. Value(InForce(c, at0, e), conn, key) = Value(c, conn, key)
  BY ExceptionSilent DEF Sets
<1> QED
  BY <1>1 DEF Effective

\* The directives of the model.
LEMMA KeysAre ==
  Keys = {"pubkey", "password", "keysfile", "methods", "algs",
          "denyusers", "allowusers", "denygroups", "allowgroups"}
BY DEF Keys, Default

\* Once it lists the users it lists the account, and not only from somewhere.
LEMMA ListNamesAccount ==
  ASSUME NEW c \in Seq(ConfigLine), NEW e, IsException(e), NEW k \in 0 .. Len(c),
         Sets(e, "allowusers"), NEW gs, NEW addr
  PROVE  AcctPattern \in Effective(InForce(c, k, e), Conn(Acct, gs, addr)).allowusers
<1> DEFINE f == InForce(c, k, e)
           conn == Conn(Acct, gs, addr)
           hits == Hits(f, conn, "allowusers")
<1>1. PICK i \in 1 .. Len(e) : e[i].key = "allowusers"
  BY DEF Sets
<1>2. e[i].val = {AcctPattern} /\ e[i].kind = "user" /\ Applies(e[i], conn)
  BY <1>1 DEF IsException, OfTheAccount, Applies, Conn
<1>3. f \in Seq(ConfigLine \cup {e[j] : j \in 1 .. Len(e)}) /\ Len(f) = Len(c) + Len(e) /\ f[k + i] = e[i]
  <2> HIDE DEF f, conn, hits
  <2>1. Inserted(InForce(c, k, e), c, e, k)
    BY InForceLines
  <2> QED
    BY <2>1 DEF Inserted, f
<1>4. k + i \in DOMAIN f
  <2>1. Len(c) \in Nat /\ Len(e) \in Nat
    BY DEF IsException
  <2>2. k + i \in 1 .. Len(c) + Len(e)
    BY <2>1
  <2>3. DOMAIN f = 1 .. Len(f)
    <3> HIDE DEF f
    <3> QED
      BY <1>3
  <2> QED
    BY <1>3, <2>2, <2>3
<1> HIDE DEF f, conn
<1>5. k + i \in Scoped(f, hits)
  BY <1>1, <1>2, <1>3, <1>4 DEF Scoped, Hits
<1>6. Value(f, conn, "allowusers") = UNION {f[j].val : j \in Scoped(f, hits)}
  BY <1>5 DEF Value, Lists
<1> HIDE DEF hits
<1>7. AcctPattern \in Value(f, conn, "allowusers")
  BY <1>2, <1>3, <1>5, <1>6
<1> QED
  BY <1>7, KeysAre DEF Effective, f, conn

\* A configuration without Match Address is the same from everywhere.
LEMMA SameEverywhere ==
  ASSUME NEW lines, \A i \in DOMAIN lines : lines[i].kind \in Kinds \ {"addr"},
         NEW user, NEW gs, NEW here, NEW there
  PROVE  Effective(lines, Conn(user, gs, here)) = Effective(lines, Conn(user, gs, there))
<1>1. ASSUME NEW i \in DOMAIN lines
      PROVE  Applies(lines[i], Conn(user, gs, here)) <=> Applies(lines[i], Conn(user, gs, there))
  BY DEF Applies, Conn, Kinds
<1>2. ASSUME NEW key
      PROVE  Hits(lines, Conn(user, gs, here), key) = Hits(lines, Conn(user, gs, there), key)
  BY <1>1 DEF Hits
<1>3. ASSUME NEW key
      PROVE  Value(lines, Conn(user, gs, here), key) = Value(lines, Conn(user, gs, there), key)
  <2> DEFINE OfHits(hits) ==
               LET used == IF Scoped(lines, hits) # {} THEN Scoped(lines, hits) ELSE hits
               IN  IF key \in Lists THEN UNION {lines[i].val : i \in used}
                   ELSE IF used = {} THEN Default[key]
                   ELSE lines[CHOOSE i \in used : \A j \in used : i <= j].val
  <2>1. /\ Value(lines, Conn(user, gs, here), key) = OfHits(Hits(lines, Conn(user, gs, here), key))
        /\ Value(lines, Conn(user, gs, there), key) = OfHits(Hits(lines, Conn(user, gs, there), key))
    BY DEF Value
  <2> HIDE DEF OfHits
  <2> QED
    BY <1>2, <2>1
<1> QED
  BY <1>3 DEF Effective

\* The users listed for a connection are entries.
LEMMA ListedPatterns ==
  ASSUME NEW c \in Seq(ConfigLine), NEW conn
  PROVE  Effective(c, conn).allowusers \subseteq Patterns
<1> DEFINE hits == Hits(c, conn, "allowusers")
           used == IF Scoped(c, hits) # {} THEN Scoped(c, hits) ELSE hits
<1>1. Effective(c, conn).allowusers = UNION {c[i].val : i \in used}
  BY KeysAre DEF Effective, Value, Lists
<1>2. ASSUME NEW i \in used
      PROVE  c[i].val \subseteq Patterns
  <2>1. i \in DOMAIN c /\ c[i].key = "allowusers"
    BY DEF Hits, Scoped
  <2>2. c[i] \in ConfigLine
    BY <2>1
  <2> QED
    BY <2>1, <2>2 DEF ConfigLine, Lists
<1> HIDE DEF used
<1> QED
  BY <1>1, <1>2

\* The two ways to log in that invite checks.
Creds == {"publickey", "password"}

\* A list of users that names the account, and not only from somewhere.
NamedAnywhere(users) == \E p \in users : p \in Patterns \ Qualified /\ Acct \in Who[p]

\* A configuration in which the tool finds no blocker, and whose list of users, if
\* it has one, names the account from everywhere, admits it.
LEMMA CheckedAdmits ==
  ASSUME PolicyConstants, NEW cfg, NEW gs, NEW cred \in Creds, NEW addr \in Addrs,
         Blockers(cfg, gs, cred) = {},
         cfg.allowusers # {} => NamedAnywhere(cfg.allowusers)
  PROVE  Admits(cfg, Acct, gs, addr, cred)
<1>1. \A b \in {"DenyUsers", "DenyGroups", "AllowUsers", "AllowGroups"} :
        b \notin AccessBlockers(cfg, gs)
  BY DEF Blockers
<1>2. ~DeniedUser(cfg, Acct, addr)
  <2>1. "DenyUsers" \notin AccessBlockers(cfg, gs)
    BY <1>1
  <2> QED
    BY <2>1 DEF AccessBlockers, DeniedUser
<1>3. ~DeniedGroup(cfg, gs)
  <2>1. "DenyGroups" \notin AccessBlockers(cfg, gs)
    BY <1>1
  <2> QED
    BY <2>1 DEF AccessBlockers, DeniedGroup
<1>4. cfg.allowusers # {} => \E p \in cfg.allowusers : Acct \in Who[p] /\ addr \in From[p]
  BY PolicyConstants DEF NamedAnywhere
<1>5. cfg.allowgroups # {} => cfg.allowgroups \cap gs # {}
  <2>1. "AllowGroups" \notin AccessBlockers(cfg, gs)
    BY <1>1
  <2> QED
    BY <2>1 DEF AccessBlockers
<1>6. {"any", cred} \cap cfg.methods # {}
  <2>1. "Methods" \notin Blockers(cfg, gs, cred)
    OBVIOUS
  <2> QED
    BY <2>1 DEF Blockers
<1>7. cred = "publickey" => cfg.pubkey = {"yes"} /\ "home" \in cfg.keysfile /\ "ed25519" \in cfg.algs
  <2>1. \A b \in {"Pubkey", "KeysFile", "Algorithm"} : b \notin Blockers(cfg, gs, cred)
    OBVIOUS
  <2> QED
    BY <2>1 DEF Blockers
<1>8. cred = "password" => cfg.password = {"yes"}
  <2>1. "Password" \notin Blockers(cfg, gs, cred)
    OBVIOUS
  <2> QED
    BY <2>1 DEF Blockers
<1> QED
  BY <1>2, <1>3, <1>4, <1>5, <1>6, <1>7, <1>8 DEF Admits

\* A list of users that blocks nothing and is sure names the account from everywhere.
LEMMA SureList ==
  ASSUME NEW c \in Seq(ConfigLine), NEW conn, NEW gs,
         "AllowUsers" \notin AccessBlockers(Effective(c, conn), gs),
         ~UnsureAccess(Effective(c, conn)),
         Effective(c, conn).allowusers # {}
  PROVE  NamedAnywhere(Effective(c, conn).allowusers)
<1> DEFINE users == Effective(c, conn).allowusers
           naming == {p \in users : Acct \in Who[p]}
<1>1. naming # {}
  BY DEF AccessBlockers
<1>2. ~(naming \subseteq Qualified)
  BY <1>1 DEF UnsureAccess
<1>3. users \subseteq Patterns
  BY ListedPatterns
<1> HIDE DEF users
<1>4. NamedAnywhere(users)
  BY <1>2, <1>3 DEF NamedAnywhere
<1> QED
  BY <1>4 DEF users

\* What a check without a blocker or a doubt saw is what sshd does, from anywhere.
LEMMA VerifiedByCheck ==
  ASSUME PolicyConstants, NEW c \in Seq(ConfigLine), NEW gs, NEW cred \in Creds, NEW blind \in BOOLEAN,
         Certain(Report(c, gs, TRUE, cred, blind)), NEW addr \in Addrs
  PROVE  Admits(Effective(c, Conn(Acct, gs, addr)), Acct, gs, addr, cred)
<1> DEFINE cfg == Probe(c, gs, TRUE)
<1>1. Blockers(cfg, gs, cred) = {} /\ ~UnsureAccess(cfg) /\ ~HasUnverifiableMatch(c, TRUE)
  BY DEF Certain, Ok, Report
<1>2. cfg = Effective(c, Conn(Acct, gs, NoAddr))
  BY DEF Probe
<1>3. \A i \in DOMAIN c : c[i].kind \in Kinds \ {"addr"}
  <2>1. \A i \in DOMAIN c : c[i] \in ConfigLine
    OBVIOUS
  <2> QED
    BY <1>1, <2>1 DEF HasUnverifiableMatch, ConfigLine
<1>4. cfg = Effective(c, Conn(Acct, gs, addr))
  <2> HIDE DEF cfg
  <2> QED
    BY <1>2, <1>3, SameEverywhere
<1>5. "AllowUsers" \notin AccessBlockers(cfg, gs)
  BY <1>1 DEF Blockers
<1>6. cfg.allowusers # {} => NamedAnywhere(cfg.allowusers)
  BY <1>1, <1>2, <1>5, SureList
<1> HIDE DEF cfg
<1>7. Admits(cfg, Acct, gs, addr, cred)
  BY <1>1, <1>6, CheckedAdmits
<1> QED
  BY <1>4, <1>7

\* The same for the account's exception, once it is written and checked.
LEMMA VerifiedByException ==
  ASSUME PolicyConstants, NEW c \in Seq(ConfigLine), NEW gs, NEW blind \in BOOLEAN, NEW primary,
         NEW at0 \in -1 .. Len(c), NEW rep, rep = Report(c, gs, TRUE, "publickey", blind),
         ~Ok(rep), ~rep.unsure,
         Blockers(Probe(InForce(c, at0, DropIn(rep, primary)), gs, TRUE), gs, "publickey") = {},
         NEW addr \in Addrs
  PROVE  Admits(Effective(InForce(c, at0, DropIn(rep, primary)), Conn(Acct, gs, addr)),
                Acct, gs, addr, "publickey")
<1> DEFINE e == DropIn(rep, primary)
           f == InForce(c, at0, e)
           seen == Conn(Acct, gs, NoAddr)
<1>1. IsException(e) /\ (Sets(e, "allowusers") <=> "AllowUsers" \in rep.blockers)
  BY DropInLines
<1>2. /\ rep.blockers = Blockers(Effective(c, seen), gs, "publickey")
      /\ ~UnsureAccess(Effective(c, seen)) /\ ~HasUnverifiableMatch(c, TRUE)
  BY DEF Report, Probe
<1>3. Blockers(Effective(f, seen), gs, "publickey") = {}
  BY DEF Probe
<1>4. at0 \in 0 .. Len(c)
  <2>1. CASE at0 < 0
    BY <1>2, <1>3, <2>1 DEF Ok, InForce
  <2> QED
    BY <2>1
<1> HIDE DEF e
<1>5. /\ f \in Seq(ConfigLine \cup {e[i] : i \in 1 .. Len(e)}) /\ Len(f) = Len(c) + Len(e)
      /\ \A i \in 1 .. at0 : f[i] = c[i]
      /\ \A i \in 1 .. Len(e) : f[at0 + i] = e[i]
      /\ \A i \in at0 + 1 .. Len(c) : f[i + Len(e)] = c[i]
  <2> HIDE DEF f, seen
  <2>1. Inserted(InForce(c, at0, e), c, e, at0)
    BY <1>1, <1>4, InForceLines
  <2> QED
    BY <2>1 DEF Inserted, f
<1>6. \A i \in DOMAIN f : f[i].kind \in Kinds \ {"addr"}
  <2>1. ASSUME NEW i \in 1 .. Len(c)
        PROVE  c[i].kind \in Kinds \ {"addr"}
    <3>1. c[i] \in ConfigLine
      OBVIOUS
    <3> QED
      BY <1>2, <3>1 DEF HasUnverifiableMatch, ConfigLine
  <2>2. \A i \in 1 .. Len(e) : e[i].kind \in Kinds \ {"addr"}
    BY <1>1 DEF IsException, OfTheAccount, Kinds
  <2> HIDE DEF f
  <2>3. DOMAIN f = 1 .. Len(f) /\ Len(c) \in Nat /\ Len(e) \in Nat
    BY <1>1, <1>5 DEF IsException
  <2>4. ASSUME NEW i \in 1 .. Len(f)
        PROVE  \/ \E j \in 1 .. Len(c) : f[i] = c[j]
               \/ \E j \in 1 .. Len(e) : f[i] = e[j]
    <3>1. CASE i <= at0
      <4>1. i \in 1 .. at0 /\ i \in 1 .. Len(c)
        BY <1>4, <1>5, <2>3, <3>1
      <4> QED
        BY <1>5, <4>1
    <3>2. CASE i > at0 /\ i <= at0 + Len(e)
      <4>1. i - at0 \in 1 .. Len(e) /\ at0 + (i - at0) = i
        BY <1>4, <1>5, <2>3, <3>2
      <4>2. f[at0 + (i - at0)] = e[i - at0]
        BY <1>5, <4>1
      <4> QED
        BY <4>1, <4>2
    <3>3. CASE i > at0 + Len(e)
      <4>1. i - Len(e) \in at0 + 1 .. Len(c) /\ (i - Len(e)) + Len(e) = i /\ i - Len(e) \in 1 .. Len(c)
        BY <1>4, <1>5, <2>3, <3>3
      <4>2. f[(i - Len(e)) + Len(e)] = c[i - Len(e)]
        BY <1>5, <4>1
      <4> QED
        BY <4>1, <4>2
    <3> QED
      BY <1>4, <2>3, <3>1, <3>2, <3>3
  <2> QED
    BY <2>1, <2>2, <2>3, <2>4
<1>7. Effective(f, seen) = Effective(f, Conn(Acct, gs, addr))
  <2> HIDE DEF f
  <2> QED
    BY <1>6, SameEverywhere
<1>8. Effective(f, seen).allowusers # {} => NamedAnywhere(Effective(f, seen).allowusers)
  <2>1. CASE Sets(e, "allowusers")
    <3>1. AcctPattern \in Effective(f, seen).allowusers
      <4> HIDE DEF e
      <4> QED
        BY <1>1, <1>4, <2>1, ListNamesAccount
    <3> QED
      BY <3>1, PolicyConstants DEF NamedAnywhere
  <2>2. CASE ~Sets(e, "allowusers")
    <3>1. Effective(f, seen)["allowusers"] = Effective(c, seen)["allowusers"]
      <4>1. "allowusers" \in Keys
        BY KeysAre
      <4> QED
        BY <1>1, <2>2, <4>1, UnsetUntouched
    <3>2. Effective(f, seen).allowusers = Effective(c, seen).allowusers
      <4> HIDE DEF f, seen
      <4> QED
        BY <3>1
    <3>3. "AllowUsers" \notin AccessBlockers(Effective(c, seen), gs)
      <4> HIDE DEF seen
      <4> QED
        BY <1>1, <1>2, <2>2 DEF Blockers
    <3> HIDE DEF f, seen
    <3> QED
      BY <1>2, <3>2, <3>3, SureList
  <2> QED
    BY <2>1, <2>2
<1> HIDE DEF f, seen
<1>9. Admits(Effective(f, seen), Acct, gs, addr, "publickey")
  BY <1>3, <1>8, CheckedAdmits DEF Creds
<1> QED
  BY <1>7, <1>9 DEF f, e

-----------------------------------------------------------------------------
(* The inductive invariant of the invite's login and sudo steps.              *)

\* The configuration stays one that sshd accepts, and the drop-in has its place in it.
TypedInv ==
  /\ config \in Seq(ConfigLine) /\ at \in -1 .. Len(config)
  /\ opts \in [password : BOOLEAN, fix : {"yes", "no", "ask"}, sudo : BOOLEAN]
  /\ plan = [password |-> plan.password, fix |-> plan.fix, rep |-> plan.rep]
  /\ tokens \in Seq(Tokens) /\ listing \in Seq(ListedRule)

\* A plan with an exception is one for a key, and between the check and the write
\* it holds what the check said of the configuration, unless that was edited since.
PlanInv ==
  /\ plan.fix => ~plan.password
  /\ pc = "exception" =>
       /\ plan.fix /\ Fixable(plan.rep)
       /\ ~late => \E blind \in BOOLEAN : plan.rep = Report(config, Real, TRUE, "publickey", blind)

\* The drop-in is what an exception may be; it lists users only where the check
\* found a list that does not name the account.
WrittenInv ==
  /\ IsException(exc)
  /\ pc \in {"plan", "confirm", "exception"} => exc = <<>>
  /\ ~late /\ Sets(exc, "allowusers") =>
       "AllowUsers" \in Blockers(Probe(config, Real, TRUE), Real, "publickey")

\* VerifiedLogsIn, from the moment the verdict is reached.
VerdictInv ==
  pc \in {"sudo", "done"} /\ verdict = "verified" /\ ~late =>
    \A addr \in Addrs : Admits(With(addr), Acct, Real, addr, Cred)

\* A grant was checked on both sides, and neither changes.
SudoInv == sudo = "granted" => FilesReachable(tokens) /\ ProvesNopasswd(listing)

LoginInv == TypedInv /\ PlanInv /\ WrittenInv /\ VerdictInv /\ SudoInv

\* No drop-in changes nothing.
LEMMA NothingWritten ==
  /\ IsException(<<>>) /\ \A key : ~Sets(<<>>, key)
  /\ \A c \in Seq(ConfigLine) : \A k \in -1 .. Len(c) : \A conn :
       Effective(InForce(c, k, <<>>), conn) = Effective(c, conn)
<1>1. IsException(<<>>)
  BY DEF IsException
<1>2. \A key : ~Sets(<<>>, key)
  BY DEF Sets
<1>3. ASSUME NEW c \in Seq(ConfigLine), NEW k \in -1 .. Len(c), NEW conn
      PROVE  Effective(InForce(c, k, <<>>), conn) = Effective(c, conn)
  <2>1. ASSUME NEW key \in Keys
        PROVE  Value(InForce(c, k, <<>>), conn, key) = Value(c, conn, key)
    <3>1. \A i \in 1 .. Len(<<>>) : ~(<<>>[i].key = key /\ Applies(<<>>[i], conn))
      OBVIOUS
    <3> QED
      BY <1>1, <3>1, ExceptionSilent
  <2> QED
    BY <2>1 DEF Effective
<1> QED
  BY <1>1, <1>2, <1>3

\* The plans: an exception is planned for a key only.
LEMMA PlansShape ==
  ASSUME NEW key, NEW pw, opts.password \in BOOLEAN, NEW p \in LoginPlans(key, pw)
  PROVE  /\ p = [password |-> p.password, fix |-> p.fix, rep |-> p.rep]
         /\ p.fix => ~p.password
<1>1. \A q \in PasswordPlans(pw) : q = [password |-> TRUE, fix |-> FALSE, rep |-> NoReport]
  BY DEF PasswordPlans, NoPlan
<1>2. \/ p \in PasswordPlans(pw)
      \/ p = [NoPlan EXCEPT !.fix = key.deferred /\ opts.fix = "yes"]
      \/ p = [NoPlan EXCEPT !.fix = TRUE]
  BY DEF LoginPlans
<1>3. \/ p = [password |-> TRUE, fix |-> FALSE, rep |-> NoReport]
      \/ p = [password |-> FALSE, fix |-> key.deferred /\ opts.fix = "yes", rep |-> NoReport]
      \/ p = [password |-> FALSE, fix |-> TRUE, rep |-> NoReport]
  BY <1>1, <1>2 DEF NoPlan
<1> QED
  BY <1>3

\* The invariant holds before the plan.
LEMMA LoginStart == LoginInit => LoginInv
<1> SUFFICES ASSUME LoginInit
             PROVE  LoginInv
  OBVIOUS
<1>1. TypedInv
  <2>1. CASE /\ config \in Confs /\ at \in -1 .. Len(config)
             /\ opts \in [password : BOOLEAN, fix : {"yes", "no", "ask"}, sudo : {FALSE}]
             /\ tokens = <<>> /\ listing = <<>>
    <3>1. config \in Seq(ConfigLine)
      BY <2>1, PolicyInputs, Zenon
    <3>2. opts \in [password : BOOLEAN, fix : {"yes", "no", "ask"}, sudo : BOOLEAN]
      BY <2>1
    <3>3. tokens \in Seq(Tokens) /\ listing \in Seq(ListedRule)
      BY <2>1
    <3>4. plan = [password |-> plan.password, fix |-> plan.fix, rep |-> plan.rep]
      BY DEF LoginInit, NoPlan
    <3> QED
      BY <2>1, <3>1, <3>2, <3>3, <3>4 DEF TypedInv
  <2>2. CASE /\ config = <<>> /\ at = 0 /\ groups = <<Acct>>
             /\ opts = [password |-> FALSE, fix |-> "no", sudo |-> TRUE]
             /\ \E h \in SudoHosts : tokens = h[1] /\ listing = h[2]
    BY <2>2, PolicyInputs DEF LoginInit, TypedInv, NoPlan
  <2> QED
    BY <2>1, <2>2 DEF LoginInit
<1>2. PlanInv /\ VerdictInv /\ SudoInv
  BY DEF LoginInit, PlanInv, VerdictInv, SudoInv, NoPlan
<1>3. WrittenInv
  BY NothingWritten DEF LoginInit, WrittenInv
<1> QED
  BY <1>1, <1>2, <1>3 DEF LoginInv

\* The plan: nothing is written and nothing said yet.
LEMMA PlanStep ==
  ASSUME LoginInv, PlanLogin \/ PlanUnread
  PROVE  LoginInv'
<1>1. TypedInv' /\ PlanInv'
  <2>1. CASE PlanLogin
    <3>1. PICK key, pw : plan' \in LoginPlans(key, pw)
      BY <2>1 DEF PlanLogin
    <3>2. /\ plan' = [password |-> plan'.password, fix |-> plan'.fix, rep |-> plan'.rep]
          /\ plan'.fix => ~plan'.password
      BY <3>1, PlansShape DEF LoginInv, TypedInv
    <3> QED
      BY <2>1, <3>2 DEF LoginInv, TypedInv, PlanInv, PlanLogin, sshdside, sudoside
  <2>2. CASE PlanUnread
    BY <2>2 DEF LoginInv, TypedInv, PlanInv, PlanUnread, sshdside, sudoside, NoPlan
  <2> QED
    BY <2>1, <2>2
<1>2. pc' = "confirm" /\ exc = <<>> /\ UNCHANGED <<exc, tokens, listing, sudo>>
  BY DEF PlanLogin, PlanUnread, sudoside, LoginInv, WrittenInv
<1>3. WrittenInv' /\ VerdictInv' /\ SudoInv'
  BY <1>2, NothingWritten DEF LoginInv, WrittenInv, VerdictInv, SudoInv
<1> QED
  BY <1>1, <1>3 DEF LoginInv

\* The check of the real groups: nothing is written yet, and what it verifies holds.
LEMMA ConfirmedStep ==
  ASSUME LoginInv, Confirmed
  PROVE  LoginInv'
<1> PICK blind \in BOOLEAN :
      LET rep == Report(config, Real, TRUE, Cred, blind)
      IN  \/ /\ Ok(rep) /\ (plan.password => Certain(rep))
             /\ verdict' = ConfirmedVerdict(rep)
             /\ plan' = [plan EXCEPT !.fix = FALSE]
             /\ pc' = "sudo"
          \/ /\ plan.fix /\ Fixable(rep)
             /\ plan' = [plan EXCEPT !.rep = rep]
             /\ pc' = "exception" /\ UNCHANGED verdict
  BY DEF Confirmed
<1> DEFINE rep == Report(config, Real, TRUE, Cred, blind)
<1>1. exc = <<>> /\ UNCHANGED <<config, at, late, groups, opts, exc, tokens, listing, sudo>>
  BY DEF Confirmed, sshdside, sudoside, LoginInv, WrittenInv
<1>2. Real' = Real
  BY <1>1 DEF Real
<1>3. WrittenInv' /\ SudoInv'
  BY <1>1, NothingWritten DEF LoginInv, WrittenInv, SudoInv
<1>4. CASE /\ Ok(rep) /\ (plan.password => Certain(rep))
           /\ verdict' = ConfirmedVerdict(rep)
           /\ plan' = [plan EXCEPT !.fix = FALSE]
           /\ pc' = "sudo"
  <2>1. plan' = [password |-> plan.password, fix |-> FALSE, rep |-> plan.rep]
    BY <1>4 DEF LoginInv, TypedInv
  <2>2. TypedInv' /\ PlanInv'
    BY <1>1, <1>4, <2>1 DEF LoginInv, TypedInv, PlanInv
  <2>3. ASSUME verdict' = "verified", NEW addr \in Addrs
        PROVE  Admits(With(addr)', Acct, Real', addr, Cred')
    <3>1. Cred' = Cred /\ Cred \in Creds
      BY <2>1 DEF Cred, Creds
    <3>2. Certain(rep)
      BY <1>4, <2>3 DEF ConfirmedVerdict, Certain
    <3>3. Admits(Effective(config, Conn(Acct, Real, addr)), Acct, Real, addr, Cred)
      BY <3>1, <3>2, VerifiedByCheck, PolicyConstants DEF LoginInv, TypedInv
    <3>4. With(addr)' = Effective(InForce(config, at, <<>>), Conn(Acct, Real, addr))
      BY <1>1, <1>2 DEF With
    <3>5. With(addr)' = Effective(config, Conn(Acct, Real, addr))
      BY <3>4, NothingWritten DEF LoginInv, TypedInv
    <3> QED
      BY <1>2, <3>1, <3>3, <3>5
  <2> QED
    BY <1>3, <2>2, <2>3 DEF LoginInv, VerdictInv
<1>5. CASE /\ plan.fix /\ Fixable(rep)
           /\ plan' = [plan EXCEPT !.rep = rep]
           /\ pc' = "exception" /\ UNCHANGED verdict
  <2>1. plan' = [password |-> plan.password, fix |-> plan.fix, rep |-> rep]
    BY <1>5 DEF LoginInv, TypedInv
  <2>2. ~plan.password /\ Cred = "publickey"
    BY <1>5 DEF LoginInv, PlanInv, Cred
  <2>3. TypedInv'
    BY <1>1, <2>1 DEF LoginInv, TypedInv
  <2>4. plan'.rep = Report(config', Real', TRUE, "publickey", blind)
    BY <1>1, <1>2, <2>1, <2>2
  <2>5. PlanInv'
    BY <1>5, <2>1, <2>2, <2>4 DEF PlanInv
  <2> QED
    BY <1>3, <1>5, <2>3, <2>5 DEF LoginInv, VerdictInv
<1> QED
  BY <1>4, <1>5

\* The exception is one that OfTheAccount describes, and what it verifies holds.
LEMMA ExceptionStep ==
  ASSUME LoginInv, GrantException
  PROVE  LoginInv'
<1> DEFINE new == DropIn(plan.rep, groups[1])
<1>1. /\ exc' = new /\ Blockers(Probe(InForce(config, at, new), Real, TRUE), Real, "publickey") = {}
      /\ verdict' = "verified" => ~plan.rep.unsure
      /\ pc' = "sudo" /\ UNCHANGED <<config, at, late, groups, opts, plan, tokens, listing, sudo>>
  BY DEF GrantException, sshdside, sudoside
<1>2. /\ plan.fix /\ Fixable(plan.rep) /\ ~plan.password
      /\ ~late => \E blind \in BOOLEAN : plan.rep = Report(config, Real, TRUE, "publickey", blind)
  BY DEF GrantException, LoginInv, PlanInv
<1>3. Real' = Real /\ Cred' = "publickey"
  BY <1>1, <1>2 DEF Real, Cred
<1>4. IsException(new) /\ (Sets(new, "allowusers") <=> "AllowUsers" \in plan.rep.blockers)
  BY DropInLines
<1>5. ASSUME ~late
      PROVE  plan.rep.blockers = Blockers(Probe(config, Real, TRUE), Real, "publickey")
  <2>1. PICK blind \in BOOLEAN : plan.rep = Report(config, Real, TRUE, "publickey", blind)
    BY <1>2, <1>5
  <2> QED
    BY <2>1 DEF Report
<1> HIDE DEF new
<1>6. TypedInv' /\ PlanInv' /\ SudoInv'
  BY <1>1 DEF LoginInv, TypedInv, PlanInv, SudoInv
<1>7. WrittenInv'
  <2>1. IsException(exc') /\ pc' = "sudo"
    BY <1>1, <1>4
  <2>2. ~late' /\ Sets(exc', "allowusers") =>
          "AllowUsers" \in Blockers(Probe(config', Real', TRUE), Real', "publickey")
    BY <1>1, <1>3, <1>4, <1>5
  <2> QED
    BY <2>1, <2>2 DEF WrittenInv
<1>8. ASSUME ~late, verdict' = "verified", NEW addr \in Addrs
      PROVE  Admits(With(addr)', Acct, Real', addr, Cred')
  <2>1. PICK blind \in BOOLEAN : plan.rep = Report(config, Real, TRUE, "publickey", blind)
    BY <1>2, <1>8
  <2>2. ~Ok(plan.rep) /\ ~plan.rep.unsure
    BY <1>1, <1>2, <1>8 DEF Fixable
  <2>3. config \in Seq(ConfigLine) /\ at \in -1 .. Len(config)
    BY DEF LoginInv, TypedInv
  <2>4. Admits(Effective(InForce(config, at, new), Conn(Acct, Real, addr)), Acct, Real, addr, "publickey")
    BY <1>1, <2>1, <2>2, <2>3, VerifiedByException, PolicyConstants DEF new
  <2> QED
    BY <1>1, <1>3, <2>4 DEF With
<1> QED
  BY <1>1, <1>6, <1>7, <1>8 DEF LoginInv, VerdictInv

\* An edit moves the place of the drop-in along with the lines; what was checked
\* before it is no longer vouched for.
LEMMA EditStep ==
  ASSUME LoginInv, Edit
  PROVE  LoginInv'
<1>1. /\ pc \in {"confirm", "exception", "sudo"} /\ late' = (late \/ pc # "confirm")
      /\ UNCHANGED <<groups, opts, pc, plan, exc, verdict, tokens, listing, sudo>>
  BY DEF Edit, sudoside
<1>2. TypedInv'
  <2>1. config \in Seq(ConfigLine) /\ Len(config) \in Nat /\ at \in -1 .. Len(config)
    BY DEF LoginInv, TypedInv
  <2>2. PICK line \in ConfigLine :
          \/ config' = Append(config, line) /\ at' = at
          \/ config' = <<line>> \o config /\ at' = IF at < 0 THEN at ELSE at + 1
    BY PolicyInputs DEF Edit
  <2> HIDE DEF ConfigLine
  <2>3. config' \in Seq(ConfigLine) /\ at' \in -1 .. Len(config')
    <3>1. CASE config' = Append(config, line) /\ at' = at
      BY <2>1, <3>1
    <3>2. CASE config' = <<line>> \o config /\ at' = IF at < 0 THEN at ELSE at + 1
      <4>1. config' \in Seq(ConfigLine) /\ Len(config') = 1 + Len(config)
        BY <2>1, <3>2
      <4> QED
        BY <2>1, <3>2, <4>1
    <3> QED
      BY <2>2, <3>1, <3>2
  <2> QED
    BY <1>1, <2>3 DEF LoginInv, TypedInv
<1>3. CASE pc = "confirm"
  <2>1. exc = <<>>
    BY <1>3 DEF LoginInv, WrittenInv
  <2> QED
    BY <1>1, <1>2, <1>3, <2>1, NothingWritten
    DEF LoginInv, PlanInv, WrittenInv, VerdictInv, SudoInv
<1>4. CASE pc # "confirm"
  BY <1>1, <1>2, <1>4 DEF LoginInv, PlanInv, WrittenInv, VerdictInv, SudoInv
<1> QED
  BY <1>3, <1>4

\* The remaining steps change neither the configuration nor the drop-in.
LEMMA OtherSteps ==
  ASSUME LoginInv,
         \/ PlanRefused \/ ConfirmUnread \/ ConfirmRefused \/ ExceptionFails
         \/ NoSudo \/ GrantSudo \/ SudoFails \/ UNCHANGED loginVars
  PROVE  LoginInv'
<1>1. UNCHANGED <<config, at, late, groups, opts, plan, exc, tokens, listing>>
  BY DEF PlanRefused, ConfirmUnread, ConfirmRefused, ExceptionFails, Refuse, NoSudo, GrantSudo,
         SudoFails, loginVars, sshdside, sudoside
<1>2. Real' = Real /\ Cred' = Cred /\ \A addr : With(addr)' = With(addr)
  BY <1>1 DEF Real, Cred, With
<1>3. TypedInv'
  BY <1>1 DEF LoginInv, TypedInv
<1>4. /\ pc' \in {"plan", "confirm", "exception"} => pc' = pc
      /\ pc' \in {"sudo", "done"} /\ verdict' = "verified"
           => pc \in {"sudo", "done"} /\ verdict = "verified"
      /\ sudo' = "granted" => sudo = "granted" \/ (FilesReachable(tokens) /\ ProvesNopasswd(listing))
  BY DEF PlanRefused, ConfirmUnread, ConfirmRefused, ExceptionFails, Refuse, NoSudo, GrantSudo,
         SudoFails, loginVars, sshdside, sudoside
<1>5. PlanInv'
  BY <1>1, <1>2, <1>4 DEF LoginInv, PlanInv
<1>6. WrittenInv'
  BY <1>1, <1>2, <1>4 DEF LoginInv, WrittenInv
<1>7. VerdictInv'
  BY <1>1, <1>2, <1>4 DEF LoginInv, VerdictInv
<1>8. SudoInv'
  BY <1>1, <1>4 DEF LoginInv, SudoInv
<1> QED
  BY <1>3, <1>5, <1>6, <1>7, <1>8 DEF LoginInv

\* The invariant holds in every state of an invite.
THEOREM LoginInvariant == LoginSpec => []LoginInv
<1>1. LoginInv /\ [LoginNext]_loginVars => LoginInv'
  BY PlanStep, ConfirmedStep, ExceptionStep, EditStep, OtherSteps DEF LoginNext
<1> QED
  BY LoginStart, <1>1, PTL DEF LoginSpec

\* An invite that reports a verified login has one: sshd admits the account from
\* every address, whatever the configuration and however the administrator edited
\* it before the last check (confirmLogin, sshdconf.Grant).
THEOREM VerifiedAlwaysLogsIn == LoginSpec => []VerifiedLogsIn
<1>1. LoginInv => VerifiedLogsIn
  BY DEF LoginInv, VerdictInv, VerifiedLogsIn
<1> QED
  BY LoginInvariant, <1>1, PTL

\* The exception grants its account no more than it must and everybody else
\* nothing: every other connection gets what it got before, an explicit deny stays
\* one through any later edit, and an address restriction the check saw stays one.
THEOREM ExceptionAlwaysConfined == LoginSpec => []ExceptionConfined
<1>1. LoginInv => ExceptionConfined
  <2> SUFFICES ASSUME LoginInv, exc # <<>>
               PROVE  /\ \A addr \in Addrs, gs \in SUBSET Groups :
                           Effective(InForce(config, at, exc), Conn(Other, gs, addr))
                             = Effective(config, Conn(Other, gs, addr))
                      /\ \A addr \in Addrs :
                           \/ DeniedUser(Without(addr), Acct, addr) \/ DeniedGroup(Without(addr), Real)
                           \/ Restricted(Without(addr), addr) /\ ~late /\ ~HasUnverifiableMatch(config, TRUE)
                           => ~Admits(With(addr), Acct, Real, addr, "publickey")
    BY DEF ExceptionConfined
  <2>1. /\ config \in Seq(ConfigLine) /\ at \in -1 .. Len(config) /\ IsException(exc)
        /\ ~late /\ Sets(exc, "allowusers") =>
             "AllowUsers" \in Blockers(Probe(config, Real, TRUE), Real, "publickey")
    BY DEF LoginInv, TypedInv, WrittenInv
  <2>2. \A addr \in Addrs, gs \in SUBSET Groups :
          Effective(InForce(config, at, exc), Conn(Other, gs, addr)) = Effective(config, Conn(Other, gs, addr))
    BY <2>1, OthersUntouched, PolicyConstants
  <2>3. ASSUME NEW addr, NEW key \in Keys, ~Sets(exc, key)
        PROVE  With(addr)[key] = Without(addr)[key]
    BY <2>1, <2>3, UnsetUntouched DEF With, Without
  <2>4. ASSUME NEW addr \in Addrs, DeniedUser(Without(addr), Acct, addr) \/ DeniedGroup(Without(addr), Real)
        PROVE  ~Admits(With(addr), Acct, Real, addr, "publickey")
    <3>1. ~Sets(exc, "denyusers") /\ ~Sets(exc, "denygroups")
      BY <2>1 DEF Sets, IsException, OfTheAccount, LiftKeys
    <3>2. With(addr)["denyusers"] = Without(addr)["denyusers"]
      BY <2>3, <3>1, KeysAre
    <3>3. With(addr)["denygroups"] = Without(addr)["denygroups"]
      BY <2>3, <3>1, KeysAre
    <3> QED
      BY <2>4, <3>2, <3>3 DEF Admits, DeniedUser, DeniedGroup
  <2>5. ASSUME NEW addr \in Addrs, Restricted(Without(addr), addr), ~late, ~HasUnverifiableMatch(config, TRUE)
        PROVE  ~Admits(With(addr), Acct, Real, addr, "publickey")
    <3>1. ~Sets(exc, "allowusers")
      <4>1. Probe(config, Real, TRUE) = Effective(config, Conn(Acct, Real, NoAddr))
        BY DEF Probe
      <4>2. \A i \in DOMAIN config : config[i].kind \in Kinds \ {"addr"}
        <5>1. \A i \in DOMAIN config : config[i] \in ConfigLine
          BY <2>1
        <5> QED
          BY <2>5, <5>1 DEF HasUnverifiableMatch, ConfigLine
      <4>3. Probe(config, Real, TRUE) = Without(addr)
        BY <4>1, <4>2, SameEverywhere DEF Without
      <4>4. "AllowUsers" \notin Blockers(Without(addr), Real, "publickey")
        BY <2>5 DEF Restricted, Blockers, AccessBlockers
      <4> QED
        BY <2>1, <2>5, <4>3, <4>4
    <3>2. With(addr)["allowusers"] = Without(addr)["allowusers"]
      BY <2>3, <3>1, KeysAre
    <3> QED
      BY <2>5, <3>2 DEF Admits, Restricted
  <2> QED
    BY <2>2, <2>4, <2>5
<1> QED
  BY LoginInvariant, <1>1, PTL

\* A sudo grant that is reported as effective is, for every nsswitch.conf and every
\* listing of rules: the local files are asked whatever the other sources answer,
\* and the last rule that matches needs no password (requireReachableFilesSource,
\* verifyNopasswdOutput).
THEOREM SudoProofAlwaysSound == LoginSpec => []SudoProofSound
<1>1. LoginInv => SudoProofSound
  <2> SUFFICES ASSUME LoginInv, sudo = "granted"
               PROVE  /\ \A answer \in [Sources -> Controls] : FilesAsked(tokens, answer)
                      /\ \A cmd \in {"ALL", "some"}, root \in BOOLEAN : SilentFor(listing, cmd, root)
    BY DEF SudoProofSound
  <2>1. /\ tokens \in Seq(Tokens) /\ listing \in Seq(ListedRule)
        /\ FilesReachable(tokens) /\ ProvesNopasswd(listing)
    BY DEF LoginInv, TypedInv, SudoInv
  <2> QED
    BY <2>1, ReachableIsAsked, ProvedIsSilent
<1> QED
  BY LoginInvariant, <1>1, PTL
=============================================================================
