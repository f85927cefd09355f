------------------------ MODULE LifecycleLockProofs ------------------------
(***************************************************************************)
(* For any set of commands and usernames: the locks exclude what they must *)
(* exclude, and no order of queued, killed or failing commands leaves an   *)
(* account without the command that can remove it.                         *)
(***************************************************************************)
EXTENDS LifecycleLock, SequenceTheorems, TLAPS

\* A step of one command.
Moves(p) == Start(p) \/ Dequeue(p) \/ Step(p) \/ Kill(p)

\* The global lock and the barrier of every name are locks.
LEMMA LocksTyped ==
  /\ Global \in Locks
  /\ \A u \in Names, m \in {"S", "X"} : Barrier(u, m) \in Locks
BY DEF Global, Barrier, Locks

\* What is left of two locks once the first is taken.
LEMMA SeqOfTwo ==
  ASSUME NEW S, NEW s \in Seq(S), Len(s) = 2
  PROVE  Len(Tail(s)) = 1 /\ Tail(s)[1] = s[2]
BY HeadTailProperties

\* The head of a lock order.
LEMMA HeadIsFirst ==
  ASSUME NEW S, NEW s \in Seq(S), Len(s) = 1
  PROVE  Head(s) = s[1]
OBVIOUS

\* A lock order is one or two locks, the global one last.
LEMMA OrderShape ==
  ASSUME NEW p \in Procs
  PROVE  /\ LockOrder(p) \in Seq(Locks)
         /\ Len(LockOrder(p)) \in {1, 2}
         /\ LockOrder(p)[Len(LockOrder(p))] = Global
<1>1. Global \in Locks /\ Barrier(User[p], "X") \in Locks /\ Barrier(User[p], "S") \in Locks
  BY LocksTyped, LockConstants
<1> QED BY <1>1 DEF LockOrder

\* The initial state satisfies every part of the invariant.
LEMMA InitInv == Init => LockInv
<1> SUFFICES ASSUME Init PROVE LockInv
  OBVIOUS
<1> USE LockConstants
<1>2. TypeOK
  <2>1. want \in [Procs -> Seq(Locks)]
    BY OrderShape DEF Init
  <2>2. pc \in [Procs -> PCs]
    BY DEF Init, PCs
  <2> QED BY <2>1, <2>2 DEF Init, TypeOK
<1>3. WantInv
  BY OrderShape DEF Init, WantInv
<1>4. HeldInv /\ GateInv /\ UninstallInv
  BY DEF Init, HeldInv, Compatible, GateInv, UninstallInv, Inside
<1>5. OpenGateHasCommand /\ AccountsKeepTheirCommand
  BY DEF Init, OpenGateHasCommand, AccountsKeepTheirCommand
<1> QED BY <1>2, <1>3, <1>4, <1>5 DEF LockInv

\* Every step keeps every variable in its type.
LEMMA TypeStep ==
  ASSUME TypeOK, WantInv, NEW p \in Procs, Moves(p) PROVE TypeOK'
<1> USE LockConstants DEF TypeOK, At, To, host, Cancelled, PCs
<1>1. CASE Start(p)
  BY <1>1 DEF Start
<1>2. CASE Dequeue(p)
  BY <1>2 DEF Dequeue
<1>3. CASE Acquire(p)
  <2>1. want[p] \in Seq(Locks) /\ want[p] # << >>
    BY <1>3 DEF Acquire, WantInv
  <2>2. Head(want[p]) \in Locks /\ Tail(want[p]) \in Seq(Locks)
    BY <2>1
  <2> QED BY <1>3, <2>2 DEF Acquire
<1>4. CASE TryShared(p)
  <2>0. {Barrier(User[p], "S")} \in SUBSET Locks
    BY LocksTyped
  <2>1. held' \in [Procs -> SUBSET Locks]
    BY <1>4, <2>0 DEF TryShared
  <2> QED BY <1>4, <2>1 DEF TryShared
<1>5. CASE Release(p)
  <2>1. pc' = pc \/ pc' = [pc EXCEPT ![p] = "done"]
    BY <1>5 DEF Release
  <2>2. \/ held' = [held EXCEPT ![p] = held[p] \ {Global}]
        \/ held' = [held EXCEPT ![p] = {}]
    BY <1>5 DEF Release
  <2>3. held' \in [Procs -> SUBSET Locks]
    BY <2>2
  <2>4. pc' \in [Procs -> PCs]
    BY <2>1
  <2>5. UNCHANGED <<want, seen, gen, pending, nextGen, tomb, state, command, kills>>
    BY <1>5 DEF Release
  <2> QED BY <2>3, <2>4, <2>5
<1>6. CASE Gate(p)
  BY <1>6 DEF Gate
<1>7. CASE Exec(p)
  BY <1>7 DEF Exec
<1>8. CASE InviteClear(p)
  BY <1>8 DEF InviteClear
<1>9. CASE InviteScan(p)
  BY <1>9 DEF InviteScan
<1>10. CASE InviteCreate(p)
  BY <1>10 DEF InviteCreate
<1>11. CASE InviteDrain(p)
  BY <1>11 DEF InviteDrain
<1>12. CASE InviteRescan(p)
  <2>1. gen' = gen \/ gen' = [gen EXCEPT ![User[p]] = 0]
    BY <1>12 DEF InviteRescan
  <2>3. gen' \in [Names -> Nat]
    <3>1. CASE gen' = gen
      BY <3>1
    <3>2. CASE gen' = [gen EXCEPT ![User[p]] = 0]
      BY <3>2
    <3> QED BY <2>1, <3>1, <3>2
  <2>2. pc' \in [Procs -> PCs] /\ pending' \subseteq Names
    BY <1>12 DEF InviteRescan
  <2> QED BY <1>12, <2>2, <2>3 DEF InviteRescan
<1>13. CASE InviteFinish(p)
  BY <1>13 DEF InviteFinish
<1>14. CASE Revoke(p)
  <2>1. gen' \in [Names -> Nat]
    BY <1>14 DEF Revoke
  <2>2. pc' \in [Procs -> PCs]
    BY <1>14 DEF Revoke
  <2>3. pending' \subseteq Names
    BY <1>14 DEF Revoke
  <2> QED BY <1>14, <2>1, <2>2, <2>3 DEF Revoke
<1>15. CASE Sweep(p)
  BY <1>15 DEF Sweep
<1>16. CASE Install(p)
  BY <1>16 DEF Install
<1>17. CASE UninstallRevoke(p)
  <2>1. gen' \in [Names -> Nat]
    BY <1>17 DEF UninstallRevoke
  <2>2. pc' \in [Procs -> PCs]
    BY <1>17 DEF UninstallRevoke
  <2> QED BY <1>17, <2>1, <2>2 DEF UninstallRevoke
<1>18. CASE MarkUninstalled(p)
  BY <1>18 DEF MarkUninstalled
<1>19. CASE UninstallPurge(p)
  BY <1>19 DEF UninstallPurge
<1>20. CASE UninstallCommand(p)
  BY <1>20 DEF UninstallCommand
<1>21. CASE Kill(p)
  BY <1>21 DEF Kill
<1> QED BY <1>1, <1>2, <1>3, <1>4, <1>5, <1>6, <1>7, <1>8, <1>9, <1>10, <1>11, <1>12,
            <1>13, <1>14, <1>15, <1>16, <1>17, <1>18, <1>19, <1>20, <1>21 DEF Moves, Step

\* Steps before the gate take locks in order and leave the host alone.
LEMMA WantStep ==
  ASSUME TypeOK, WantInv, NEW p \in Procs, Moves(p) PROVE WantInv'
<1> USE LockConstants DEF TypeOK, WantInv, At, To, host, Cancelled
<1>1. CASE Start(p)
  BY <1>1 DEF Start
<1>2. CASE Dequeue(p)
  BY <1>2 DEF Dequeue
<1>3. CASE Acquire(p)
  <2>1. CASE Len(want[p]) = 1
    BY <1>3, <2>1 DEF Acquire
  <2>2. CASE Len(want[p]) = 2
    <3>1. Len(Tail(want[p])) = 1 /\ Tail(want[p])[1] = want[p][2]
      BY <2>2, SeqOfTwo
    <3>2. want[p][2] = Global
      BY <1>3, <2>2 DEF Acquire
    <3> QED BY <1>3, <2>2, <3>1, <3>2 DEF Acquire
  <2> QED BY <1>3, <2>1, <2>2 DEF Acquire
<1>4. CASE TryShared(p)
  BY <1>4 DEF TryShared
<1>5. CASE Release(p)
  BY <1>5 DEF Release
<1>6. CASE Gate(p)
  BY <1>6 DEF Gate
<1>7. CASE Exec(p)
  BY <1>7 DEF Exec
<1>8. CASE InviteClear(p)
  BY <1>8 DEF InviteClear
<1>9. CASE InviteScan(p)
  BY <1>9 DEF InviteScan
<1>10. CASE InviteCreate(p)
  BY <1>10 DEF InviteCreate
<1>11. CASE InviteDrain(p)
  BY <1>11 DEF InviteDrain
<1>12. CASE InviteRescan(p)
  BY <1>12 DEF InviteRescan
<1>13. CASE InviteFinish(p)
  BY <1>13 DEF InviteFinish
<1>14. CASE Revoke(p)
  BY <1>14 DEF Revoke
<1>15. CASE Sweep(p)
  BY <1>15 DEF Sweep
<1>16. CASE Install(p)
  BY <1>16 DEF Install
<1>17. CASE UninstallRevoke(p)
  BY <1>17 DEF UninstallRevoke
<1>18. CASE MarkUninstalled(p)
  BY <1>18 DEF MarkUninstalled
<1>19. CASE UninstallPurge(p)
  BY <1>19 DEF UninstallPurge
<1>20. CASE UninstallCommand(p)
  BY <1>20 DEF UninstallCommand
<1>21. CASE Kill(p)
  BY <1>21 DEF Kill
<1> QED BY <1>1, <1>2, <1>3, <1>4, <1>5, <1>6, <1>7, <1>8, <1>9, <1>10, <1>11, <1>12,
            <1>13, <1>14, <1>15, <1>16, <1>17, <1>18, <1>19, <1>20, <1>21 DEF Moves, Step

\* Whatever a command keeps of its locks and the one it was granted fits with
\* everybody else's.
LEMMA GrantKeepsCompatible ==
  ASSUME TypeOK, Compatible, NEW p \in Procs, NEW l, Grantable(p, l),
         NEW S, S \subseteq held[p] \cup {l}, held' = [held EXCEPT ![p] = S]
  PROVE  Compatible'
<1> SUFFICES ASSUME NEW q \in Procs, NEW r \in Procs, q # r,
                    NEW h \in held'[q], NEW k \in held'[r], h.on = k.on
             PROVE  h.mode = "S" /\ k.mode = "S"
  BY DEF Compatible
<1>1. held'[p] = S /\ \A x \in Procs \ {p} : held'[x] = held[x]
  BY DEF TypeOK
<1>2. CASE q = p
  BY <1>1, <1>2 DEF Compatible, Grantable
<1>3. CASE r = p
  BY <1>1, <1>3 DEF Compatible, Grantable
<1>4. CASE q # p /\ r # p
  BY <1>1, <1>4 DEF Compatible
<1> QED BY <1>2, <1>3, <1>4

\* So does what it keeps after a release.
LEMMA ReleaseKeepsCompatible ==
  ASSUME TypeOK, Compatible, NEW p \in Procs,
         NEW S, S \subseteq held[p], held' = [held EXCEPT ![p] = S]
  PROVE  Compatible'
<1>1. held'[p] = S /\ \A x \in Procs \ {p} : held'[x] = held[x]
  BY DEF TypeOK
<1> QED BY <1>1 DEF Compatible

\* The global lock is exclusive: at most one command is inside.
LEMMA OneInside ==
  ASSUME HeldInv, NEW p \in Procs, NEW q \in Procs, Inside(p), Inside(q)
  PROVE  p = q
BY DEF HeldInv, Compatible, Global

\* A lock is granted only beside compatible ones, and inside means holding the
\* global lock.
LEMMA HeldStep ==
  ASSUME TypeOK, WantInv, HeldInv, NEW p \in Procs, Moves(p) PROVE HeldInv'
<1> USE LockConstants DEF TypeOK, HeldInv, At, To, host, Cancelled, Inside
<1>1. CASE Start(p)
  BY <1>1 DEF Start, Compatible
<1>2. CASE Dequeue(p)
  BY <1>2 DEF Dequeue, Compatible
<1>3. CASE Acquire(p)
  <2> DEFINE l == Head(want[p])
  <2>1. Compatible'
    <3>1. Grantable(p, l) /\ held' = [held EXCEPT ![p] = held[p] \cup {l}]
      BY <1>3 DEF Acquire
    <3> HIDE DEF l
    <3> QED BY <3>1, GrantKeepsCompatible
  <2>2. Len(want[p]) = 1 => l = Global
    BY <1>3, HeadIsFirst DEF Acquire, WantInv
  <2>3. l \in held'[p] /\ \A q \in Procs : q # p => held'[q] = held[q] /\ pc'[q] = pc[q]
    BY <1>3 DEF Acquire
  <2>4. pc'[p] \in {"gate", "lock"} /\ (pc'[p] = "gate" => Len(want[p]) = 1)
    BY <1>3 DEF Acquire
  <2> QED BY <2>1, <2>2, <2>3, <2>4
<1>4. CASE TryShared(p)
  <2>1. \A q \in Procs : q # p => held'[q] = held[q] /\ pc'[q] = pc[q]
    BY <1>4 DEF TryShared
  <2>2. pc'[p] \in {"lock", "done"}
    BY <1>4 DEF TryShared
  <2>3. Compatible'
    <3>1. CASE Grantable(p, Barrier(User[p], "S"))
      <4>1. held' = [held EXCEPT ![p] = {Barrier(User[p], "S")}]
        BY <1>4, <3>1 DEF TryShared
      <4> QED BY <3>1, <4>1, GrantKeepsCompatible
    <3>2. CASE ~Grantable(p, Barrier(User[p], "S"))
      BY <1>4, <3>2 DEF TryShared, Compatible
    <3> QED BY <3>1, <3>2
  <2> QED BY <2>1, <2>2, <2>3
<1>5. CASE Release(p)
  <2>1. PICK S : S \subseteq held[p] /\ held' = [held EXCEPT ![p] = S]
    BY <1>5 DEF Release
  <2>2. Compatible'
    BY <2>1, ReleaseKeepsCompatible
  <2>3. pc'[p] \in {"unlock", "done"} /\ \A q \in Procs : q # p => held'[q] = held[q] /\ pc'[q] = pc[q]
    BY <1>5 DEF Release
  <2> QED BY <2>2, <2>3
<1>6. CASE Gate(p)
  BY <1>6 DEF Gate, Compatible
<1>7. CASE Exec(p)
  BY <1>7 DEF Exec, Compatible
<1>8. CASE InviteClear(p)
  <2>1. held' = held /\ \A q \in Procs : Inside(q)' => Inside(q)
    BY <1>8 DEF InviteClear
  <2> QED BY <2>1 DEF Compatible
<1>9. CASE InviteScan(p)
  BY <1>9 DEF InviteScan, Compatible
<1>10. CASE InviteCreate(p)
  BY <1>10 DEF InviteCreate, Compatible
<1>11. CASE InviteDrain(p)
  BY <1>11 DEF InviteDrain, Compatible
<1>12. CASE InviteRescan(p)
  BY <1>12 DEF InviteRescan, Compatible
<1>13. CASE InviteFinish(p)
  BY <1>13 DEF InviteFinish, Compatible
<1>14. CASE Revoke(p)
  <2>1. held' = held /\ \A q \in Procs : Inside(q)' => Inside(q)
    BY <1>14 DEF Revoke
  <2> QED BY <2>1 DEF Compatible
<1>15. CASE Sweep(p)
  BY <1>15 DEF Sweep, Compatible
<1>16. CASE Install(p)
  BY <1>16 DEF Install, Compatible
<1>17. CASE UninstallRevoke(p)
  <2>1. held' = held /\ \A q \in Procs : Inside(q)' => Inside(q)
    BY <1>17 DEF UninstallRevoke
  <2> QED BY <2>1 DEF Compatible
<1>18. CASE MarkUninstalled(p)
  BY <1>18 DEF MarkUninstalled, Compatible
<1>19. CASE UninstallPurge(p)
  BY <1>19 DEF UninstallPurge, Compatible
<1>20. CASE UninstallCommand(p)
  BY <1>20 DEF UninstallCommand, Compatible
<1>21. CASE Kill(p)
  <2>0. PICK S : S \subseteq held[p] /\ held' = [held EXCEPT ![p] = S]
    BY <1>21 DEF Kill
  <2>1. Compatible'
    BY <2>0, ReleaseKeepsCompatible
  <2>2. pc'[p] = "done" /\ \A q \in Procs : q # p => held'[q] = held[q] /\ pc'[q] = pc[q]
    BY <1>21 DEF Kill
  <2> QED BY <2>1, <2>2
<1> QED BY <1>1, <1>2, <1>3, <1>4, <1>5, <1>6, <1>7, <1>8, <1>9, <1>10, <1>11, <1>12,
            <1>13, <1>14, <1>15, <1>16, <1>17, <1>18, <1>19, <1>20, <1>21 DEF Moves, Step

\* Nobody else is inside, so what the gate saw stays true.
LEMMA GateStep ==
  ASSUME TypeOK, HeldInv, GateInv, NEW p \in Procs, Moves(p) PROVE GateInv'
<1> USE LockConstants DEF TypeOK, GateInv, At, To, host, Cancelled, Inside
<1>1. CASE Start(p)
  BY <1>1 DEF Start
<1>2. CASE Dequeue(p)
  BY <1>2 DEF Dequeue
<1>3. CASE Acquire(p)
  BY <1>3 DEF Acquire
<1>4. CASE TryShared(p)
  BY <1>4 DEF TryShared
<1>5. CASE Release(p)
  BY <1>5 DEF Release
<1>6. CASE Gate(p)
  BY <1>6 DEF Gate
<1>7. CASE Exec(p)
  BY <1>7 DEF Exec
<1>8. CASE InviteClear(p)
  BY <1>8 DEF InviteClear
<1>9. CASE InviteScan(p)
  BY <1>9 DEF InviteScan
<1>10. CASE InviteCreate(p)
  BY <1>10 DEF InviteCreate
<1>11. CASE InviteDrain(p)
  BY <1>11 DEF InviteDrain
<1>12. CASE InviteRescan(p)
  BY <1>12 DEF InviteRescan
<1>13. CASE InviteFinish(p)
  BY <1>13 DEF InviteFinish
<1>14. CASE Revoke(p)
  BY <1>14 DEF Revoke
<1>15. CASE Sweep(p)
  BY <1>15 DEF Sweep
<1>16. CASE Install(p)
  BY <1>16 DEF Install
<1>17. CASE UninstallRevoke(p)
  BY <1>17 DEF UninstallRevoke
<1>18. CASE MarkUninstalled(p)
  <2>1. \A q \in Procs : Inside(q) => q = p
    BY <1>18, OneInside DEF MarkUninstalled
  <2> QED BY <1>18, <2>1 DEF MarkUninstalled
<1>19. CASE UninstallPurge(p)
  BY <1>19 DEF UninstallPurge
<1>20. CASE UninstallCommand(p)
  BY <1>20 DEF UninstallCommand
<1>21. CASE Kill(p)
  BY <1>21 DEF Kill
<1> QED BY <1>1, <1>2, <1>3, <1>4, <1>5, <1>6, <1>7, <1>8, <1>9, <1>10, <1>11, <1>12,
            <1>13, <1>14, <1>15, <1>16, <1>17, <1>18, <1>19, <1>20, <1>21 DEF Moves, Step

\* Accounts, marker, state and command go in that order, and only an invite that
\* is inside with the marker absent makes an account.
LEMMA UninstallStep ==
  ASSUME LockInv, NEW p \in Procs, Moves(p)
  PROVE  UninstallInv' /\ OpenGateHasCommand' /\ AccountsKeepTheirCommand'
<1> USE LockConstants DEF LockInv, TypeOK, GateInv, UninstallInv, NoAccounts, OpenGateHasCommand,
          AccountsKeepTheirCommand, At, To, host, Cancelled, Inside
<1>0. \A q \in Procs : Inside(p) /\ Inside(q) => q = p
  BY OneInside
<1>1. CASE Start(p)
  BY <1>1 DEF Start
<1>2. CASE Dequeue(p)
  BY <1>2 DEF Dequeue
<1>3. CASE Acquire(p)
  BY <1>3 DEF Acquire
<1>4. CASE TryShared(p)
  BY <1>4 DEF TryShared
<1>5. CASE Release(p)
  BY <1>5 DEF Release
<1>6. CASE Gate(p)
  BY <1>6 DEF Gate
<1>7. CASE Exec(p)
  BY <1>7 DEF Exec
<1>8. CASE InviteClear(p)
  BY <1>8 DEF InviteClear
<1>9. CASE InviteScan(p)
  BY <1>9 DEF InviteScan
<1>10. CASE InviteCreate(p)
  BY <1>10, <1>0 DEF InviteCreate
<1>11. CASE InviteDrain(p)
  BY <1>11 DEF InviteDrain
<1>12. CASE InviteRescan(p)
  BY <1>12 DEF InviteRescan
<1>13. CASE InviteFinish(p)
  BY <1>13 DEF InviteFinish
<1>14. CASE Revoke(p)
  BY <1>14 DEF Revoke
<1>15. CASE Sweep(p)
  BY <1>15 DEF Sweep
<1>16. CASE Install(p)
  BY <1>16, <1>0 DEF Install
<1>17. CASE UninstallRevoke(p)
  <2>0. UNCHANGED <<tomb, state, command>> /\ At(p, "act")
    BY <1>17 DEF UninstallRevoke
  <2>1. \A u \in Names : gen'[u] = gen[u] \/ gen'[u] = 0
    BY <1>17 DEF UninstallRevoke
  <2>2. \A q \in Procs \ {p} : pc'[q] = pc[q] \/ pc'[q] = "done"
    BY <1>17 DEF UninstallRevoke
  <2>3. pc'[p] = "unlock" \/ (pc'[p] = "mark" /\ NoAccounts')
    BY <1>17 DEF UninstallRevoke
  <2>4. NoAccounts => NoAccounts'
    BY <2>1
  <2> QED BY <2>0, <2>1, <2>2, <2>3, <2>4
<1>18. CASE MarkUninstalled(p)
  BY <1>18, <1>0 DEF MarkUninstalled
<1>19. CASE UninstallPurge(p)
  BY <1>19, <1>0 DEF UninstallPurge
<1>20. CASE UninstallCommand(p)
  BY <1>20, <1>0 DEF UninstallCommand
<1>21. CASE Kill(p)
  BY <1>21 DEF Kill
<1> QED BY <1>1, <1>2, <1>3, <1>4, <1>5, <1>6, <1>7, <1>8, <1>9, <1>10, <1>11, <1>12,
            <1>13, <1>14, <1>15, <1>16, <1>17, <1>18, <1>19, <1>20, <1>21 DEF Moves, Step

\* Every part together.
LEMMA InvStep == LockInv /\ [Next]_vars => LockInv'
<1> SUFFICES ASSUME LockInv, [Next]_vars PROVE LockInv'
  OBVIOUS
<1>1. CASE UNCHANGED vars
  BY <1>1 DEF vars, LockInv, TypeOK, WantInv, HeldInv, Compatible, GateInv, UninstallInv, NoAccounts,
              OpenGateHasCommand, AccountsKeepTheirCommand, Inside
<1>2. ASSUME NEW p \in Procs, Moves(p) PROVE LockInv'
  <2>1. TypeOK' /\ WantInv' /\ HeldInv' /\ GateInv'
    BY <1>2, TypeStep, WantStep, HeldStep, GateStep DEF LockInv
  <2>2. UninstallInv' /\ OpenGateHasCommand' /\ AccountsKeepTheirCommand'
    BY <1>2, UninstallStep
  <2> QED BY <2>1, <2>2 DEF LockInv
<1> QED BY <1>1, <1>2 DEF Next, Moves

\* The invariant holds in every reachable state, for any set of commands.
THEOREM LockInvariant == Spec => []LockInv
BY InitInv, InvStep, PTL DEF Spec

\* Every variable keeps its type.
THEOREM TypeCorrect == Spec => []TypeOK
<1>1. LockInv => TypeOK
  BY DEF LockInv
<1> QED BY <1>1, LockInvariant, PTL

\* withLifecycleLock and the account barriers exclude: one command inside, and
\* no revoke beside an invite of the same name.
THEOREM BarriersAlwaysHold == Spec => []BarriersHold
<1>1. LockInv => BarriersHold
  <2> SUFFICES ASSUME LockInv, NEW p \in Procs, NEW q \in Procs, p # q
               PROVE  /\ ~(Inside(p) /\ Inside(q))
                      /\ \A u \in Names : Barrier(u, "X") \in held[p] =>
                           Barrier(u, "X") \notin held[q] /\ Barrier(u, "S") \notin held[q]
    BY DEF BarriersHold
  <2>1. ~(Inside(p) /\ Inside(q))
    BY OneInside DEF LockInv
  <2>2. \A u \in Names : Barrier(u, "X") \in held[p] =>
          Barrier(u, "X") \notin held[q] /\ Barrier(u, "S") \notin held[q]
    BY DEF LockInv, HeldInv, Compatible, Barrier
  <2> QED BY <2>1, <2>2
<1> QED BY <1>1, LockInvariant, PTL

\* uninstall and install never leave an account without the command and the
\* state that can remove it, whatever is queued, killed or fails.
THEOREM AccountsAlwaysKeepTheirCommand == Spec => []AccountsKeepTheirCommand
<1>1. LockInv => AccountsKeepTheirCommand
  BY DEF LockInv
<1> QED BY <1>1, LockInvariant, PTL

\* A gate that is not closed by the marker has a command behind it.
THEOREM OpenGateAlwaysHasCommand == Spec => []OpenGateHasCommand
<1>1. LockInv => OpenGateHasCommand
  BY DEF LockInv
<1> QED BY <1>1, LockInvariant, PTL

\* One step of one command brings nothing back behind the marker.
LEMMA NothingComesBack ==
  ASSUME LockInv, NEW p \in Procs, Moves(p), tomb = "set", tomb' = "set"
  PROVE  (state' => state) /\ \A u \in Names : gen[u] = 0 => gen'[u] = 0
<1> USE LockConstants DEF LockInv, TypeOK, GateInv, At, To, host, Inside
<1>1. CASE Start(p)
  BY <1>1 DEF Start
<1>2. CASE Dequeue(p)
  BY <1>2 DEF Dequeue
<1>3. CASE Acquire(p)
  BY <1>3 DEF Acquire
<1>4. CASE TryShared(p)
  BY <1>4 DEF TryShared
<1>5. CASE Release(p)
  BY <1>5 DEF Release
<1>6. CASE Gate(p)
  BY <1>6 DEF Gate
<1>7. CASE Exec(p)
  BY <1>7 DEF Exec
<1>8. CASE InviteClear(p)
  BY <1>8 DEF InviteClear
<1>9. CASE InviteScan(p)
  BY <1>9 DEF InviteScan
<1>10. CASE InviteCreate(p)
  BY <1>10 DEF InviteCreate
<1>11. CASE InviteDrain(p)
  BY <1>11 DEF InviteDrain
<1>12. CASE InviteRescan(p)
  BY <1>12 DEF InviteRescan
<1>13. CASE InviteFinish(p)
  BY <1>13 DEF InviteFinish
<1>14. CASE Revoke(p)
  BY <1>14 DEF Revoke
<1>15. CASE Sweep(p)
  BY <1>15 DEF Sweep
<1>16. CASE Install(p)
  BY <1>16 DEF Install
<1>17. CASE UninstallRevoke(p)
  BY <1>17 DEF UninstallRevoke
<1>18. CASE MarkUninstalled(p)
  BY <1>18 DEF MarkUninstalled
<1>19. CASE UninstallPurge(p)
  BY <1>19 DEF UninstallPurge
<1>20. CASE UninstallCommand(p)
  BY <1>20 DEF UninstallCommand
<1>21. CASE Kill(p)
  BY <1>21 DEF Kill
<1> QED BY <1>1, <1>2, <1>3, <1>4, <1>5, <1>6, <1>7, <1>8, <1>9, <1>10, <1>11, <1>12,
            <1>13, <1>14, <1>15, <1>16, <1>17, <1>18, <1>19, <1>20, <1>21 DEF Moves, Step

\* Behind the uninstall marker no queued command makes an account or the state
\* directory again.
THEOREM UninstalledAlwaysStays == Spec => UninstalledStaysUninstalled
<1> DEFINE Back == tomb = "set" /\ tomb' = "set" =>
             (state' => state) /\ \A u \in Names : gen[u] = 0 => gen'[u] = 0
<1>1. LockInv /\ [Next]_vars => [Back]_vars
  <2> SUFFICES ASSUME LockInv, Next PROVE Back
    OBVIOUS
  <2>1. PICK p \in Procs : Moves(p)
    BY DEF Next, Moves
  <2> QED BY <2>1, NothingComesBack
<1> QED BY <1>1, LockInvariant, PTL DEF Spec, UninstalledStaysUninstalled

\* Steps that touch no account and only take a command to its locks or to its end.
LEMMA IntentFrame ==
  ASSUME TypeOK, IntentInv, UNCHANGED <<seen, gen, pending>>,
         \A x \in Procs : \/ pc'[x] = pc[x]
                          \/ pc'[x] \in {"mark", "purge", "remove", "unlock", "done"}
                          \/ pc[x] \in {"try", "lock", "gate"} /\ pc'[x] \in {"lock", "gate", "act"}
  PROVE  IntentInv'
BY DEF IntentInv, NameOnly

\* Such steps are these.
LEMMA IntentQuiet ==
  ASSUME TypeOK, IntentInv, NEW p \in Procs,
         \/ Acquire(p) \/ TryShared(p) \/ Release(p) \/ Gate(p) \/ Sweep(p) \/ Install(p)
         \/ MarkUninstalled(p) \/ UninstallPurge(p) \/ UninstallCommand(p) \/ Kill(p)
  PROVE  IntentInv'
<1> USE DEF At, To, host
<1>1. pc \in [Procs -> PCs]
  BY DEF TypeOK
<1>2. UNCHANGED <<seen, gen, pending>>
  BY DEF Acquire, TryShared, Release, Gate, Sweep, Install, MarkUninstalled, UninstallPurge,
         UninstallCommand, Kill
<1>3. \/ pc' = pc
      \/ \E s \in {"mark", "purge", "remove", "unlock", "done"} : pc' = [pc EXCEPT ![p] = s]
      \/ pc[p] \in {"try", "lock", "gate"} /\ \E s \in {"lock", "gate", "act"} : pc' = [pc EXCEPT ![p] = s]
  <2>1. CASE Acquire(p)
    BY <2>1 DEF Acquire
  <2>2. CASE TryShared(p)
    BY <2>2 DEF TryShared
  <2>3. CASE Release(p)
    BY <2>3 DEF Release
  <2>4. CASE Gate(p)
    BY <2>4 DEF Gate
  <2>5. CASE Sweep(p)
    BY <2>5 DEF Sweep
  <2>6. CASE Install(p)
    BY <2>6 DEF Install
  <2>7. CASE MarkUninstalled(p)
    BY <2>7 DEF MarkUninstalled
  <2>8. CASE UninstallPurge(p)
    BY <2>8 DEF UninstallPurge
  <2>9. CASE UninstallCommand(p)
    BY <2>9 DEF UninstallCommand
  <2>10. CASE Kill(p)
    BY <2>10 DEF Kill
  <2> QED BY <2>1, <2>2, <2>3, <2>4, <2>5, <2>6, <2>7, <2>8, <2>9, <2>10
<1>4. \A x \in Procs : \/ pc'[x] = pc[x]
                       \/ pc'[x] \in {"mark", "purge", "remove", "unlock", "done"}
                       \/ pc[x] \in {"try", "lock", "gate"} /\ pc'[x] \in {"lock", "gate", "act"}
  BY <1>1, <1>3
<1> QED BY <1>2, <1>4, IntentFrame

\* A name-only revoke keeps meeting its own generation, none, or an intent.
LEMMA IntentStep ==
  ASSUME LockInv, IntentInv, NEW p \in Procs, Moves(p)
  PROVE  IntentInv'
<1>q. Acquire(p) \/ TryShared(p) \/ Release(p) \/ Gate(p) \/ Sweep(p) \/ Install(p)
      \/ MarkUninstalled(p) \/ UninstallPurge(p) \/ UninstallCommand(p) \/ Kill(p) => IntentInv'
  BY IntentQuiet DEF LockInv
<1> USE LockConstants DEF TypeOK, GateInv, IntentInv, NameOnly, At, To, host, Cancelled, Inside
<1>0. TypeOK /\ GateInv /\ \A q \in Procs : Inside(p) /\ Inside(q) => q = p
  BY OneInside DEF LockInv
<1>1. CASE Start(p)
  BY <1>1, <1>0 DEF Start
<1>2. CASE Dequeue(p)
  BY <1>2, <1>0 DEF Dequeue
<1>3. CASE Acquire(p)
  BY <1>3, <1>q
<1>4. CASE TryShared(p)
  BY <1>4, <1>q
<1>5. CASE Release(p)
  BY <1>5, <1>q
<1>6. CASE Gate(p)
  BY <1>6, <1>q
<1>7. CASE Exec(p)
  BY <1>7, <1>0 DEF Exec
<1>8. CASE InviteClear(p)
  <2>1. UNCHANGED <<seen, gen, pending>> /\ pc'[p] \in {"unlock", "scan"}
    BY <1>8, <1>0 DEF InviteClear
  <2>2. \A q \in Procs \ {p} : pc'[q] = pc[q] \/ pc'[q] = "done"
    BY <1>8, <1>0 DEF InviteClear
  <2>3. pc'[p] = "scan" => \A q \in Procs : User[q] = User[p] => pc'[q] # "queued"
    BY <1>8, <1>0 DEF InviteClear
  <2> QED BY <2>1, <2>2, <2>3
<1>9. CASE InviteScan(p)
  BY <1>9, <1>0 DEF InviteScan
<1>10. CASE InviteCreate(p)
  BY <1>10, <1>0 DEF InviteCreate
<1>11. CASE InviteDrain(p)
  BY <1>11, <1>0 DEF InviteDrain
<1>12. CASE InviteRescan(p)
  <2>1. CASE ~RunningLegacyRevoke(User[p]) /\ To(p, "finish") /\ UNCHANGED <<gen, pending>>
    <3>1. UNCHANGED <<seen, gen, pending>> /\ pc' = [pc EXCEPT ![p] = "finish"] /\ pc[p] = "rescan"
      BY <1>12, <2>1 DEF InviteRescan
    <3>2. \A q \in Procs : NameOnly(q) /\ User[q] = User[p] => pc[q] \notin {"try", "lock", "gate", "act"}
      BY <2>1 DEF RunningLegacyRevoke
    <3> QED BY <1>0, <3>1, <3>2
  <2>2. CASE gen' = [gen EXCEPT ![User[p]] = 0] /\ pending' = pending \ {User[p]} /\ To(p, "unlock")
    <3>1. \A u \in Names : gen'[u] = 0 \/ (gen'[u] = gen[u] /\ (u \in pending => u \in pending'))
      BY <1>0, <2>2
    <3>2. UNCHANGED seen /\ pc' = [pc EXCEPT ![p] = "unlock"] /\ At(p, "rescan")
      BY <1>12, <2>2 DEF InviteRescan
    <3>3. \A q \in Procs : pc[q] = "finish" => FALSE
      BY <1>0, <3>2
    <3> QED BY <1>0, <3>1, <3>2, <3>3
  <2> QED BY <1>12, <2>1, <2>2 DEF InviteRescan
<1>13. CASE InviteFinish(p)
  BY <1>13, <1>0 DEF InviteFinish
<1>14. CASE Revoke(p)
  <2>1. \A u \in Names : gen'[u] = 0 \/ (gen'[u] = gen[u] /\ (u \in pending => u \in pending'))
    BY <1>14, <1>0 DEF Revoke
  <2>2. UNCHANGED seen /\ At(p, "act") /\ pc'[p] = "unlock"
    BY <1>14, <1>0 DEF Revoke
  <2>3. \A q \in Procs \ {p} : pc'[q] = pc[q] \/ pc'[q] = "done"
    BY <1>14, <1>0 DEF Revoke
  <2>4. \A q \in Procs : pc[q] = "finish" => FALSE
    BY <1>0, <2>2
  <2> SUFFICES ASSUME NEW x \in Procs, NameOnly(x)
               PROVE  /\ pc'[x] \in {"queued", "dequeued", "try", "lock", "gate", "act"}
                           /\ gen'[User[x]] \notin {0, seen'[x][User[x]]} => User[x] \in pending'
                      /\ \A q \in Procs : User[q] = User[x] =>
                           /\ pc'[q] \in {"scan", "create", "drain", "rescan", "finish"} => pc'[x] # "queued"
                           /\ pc'[q] \in {"rescan", "finish"} => pc'[x] # "dequeued"
                           /\ pc'[q] # "finish"
    OBVIOUS
  <2>5. pc'[x] = pc[x] \/ pc'[x] \in {"done", "mark", "unlock"}
    BY <2>2, <2>3
  <2>6. User[x] \in Names
    OBVIOUS
  <2>7. \A q \in Procs : pc'[q] = pc[q] \/ pc'[q] \in {"done", "mark", "unlock"}
    BY <2>2, <2>3
  <2>8. /\ pc[x] \in {"queued", "dequeued", "try", "lock", "gate", "act"}
             /\ gen[User[x]] \notin {0, seen[x][User[x]]} => User[x] \in pending
        /\ \A q \in Procs : User[q] = User[x] =>
             /\ pc[q] \in {"scan", "create", "drain", "rescan", "finish"} => pc[x] # "queued"
             /\ pc[q] \in {"rescan", "finish"} => pc[x] # "dequeued"
    OBVIOUS
  <2> QED BY <2>1, <2>2, <2>4, <2>5, <2>6, <2>7, <2>8
<1>15. CASE Sweep(p)
  BY <1>15, <1>q
<1>16. CASE Install(p)
  BY <1>16, <1>q
<1>17. CASE UninstallRevoke(p)
  <2>1. \A u \in Names : gen'[u] = 0 \/ gen'[u] = gen[u]
    BY <1>17, <1>0 DEF UninstallRevoke
  <2>2. UNCHANGED <<seen, pending>> /\ At(p, "act") /\ pc'[p] \in {"mark", "unlock"}
    BY <1>17, <1>0 DEF UninstallRevoke
  <2>3. \A q \in Procs \ {p} : pc'[q] = pc[q] \/ pc'[q] = "done"
    BY <1>17, <1>0 DEF UninstallRevoke
  <2>4. \A q \in Procs : pc[q] = "finish" => FALSE
    BY <1>0, <2>2
  <2> SUFFICES ASSUME NEW x \in Procs, NameOnly(x)
               PROVE  /\ pc'[x] \in {"queued", "dequeued", "try", "lock", "gate", "act"}
                           /\ gen'[User[x]] \notin {0, seen'[x][User[x]]} => User[x] \in pending'
                      /\ \A q \in Procs : User[q] = User[x] =>
                           /\ pc'[q] \in {"scan", "create", "drain", "rescan", "finish"} => pc'[x] # "queued"
                           /\ pc'[q] \in {"rescan", "finish"} => pc'[x] # "dequeued"
                           /\ pc'[q] # "finish"
    OBVIOUS
  <2>5. pc'[x] = pc[x] \/ pc'[x] \in {"done", "mark", "unlock"}
    BY <2>2, <2>3
  <2>6. User[x] \in Names
    OBVIOUS
  <2>7. \A q \in Procs : pc'[q] = pc[q] \/ pc'[q] \in {"done", "mark", "unlock"}
    BY <2>2, <2>3
  <2>8. /\ pc[x] \in {"queued", "dequeued", "try", "lock", "gate", "act"}
             /\ gen[User[x]] \notin {0, seen[x][User[x]]} => User[x] \in pending
        /\ \A q \in Procs : User[q] = User[x] =>
             /\ pc[q] \in {"scan", "create", "drain", "rescan", "finish"} => pc[x] # "queued"
             /\ pc[q] \in {"rescan", "finish"} => pc[x] # "dequeued"
    OBVIOUS
  <2> QED BY <2>1, <2>2, <2>4, <2>5, <2>6, <2>7, <2>8
<1>18. CASE MarkUninstalled(p)
  BY <1>18, <1>q
<1>19. CASE UninstallPurge(p)
  BY <1>19, <1>q
<1>20. CASE UninstallCommand(p)
  BY <1>20, <1>q
<1>21. CASE Kill(p)
  BY <1>21, <1>q
<1> QED BY <1>1, <1>2, <1>3, <1>4, <1>5, <1>6, <1>7, <1>8, <1>9, <1>10, <1>11, <1>12,
            <1>13, <1>14, <1>15, <1>16, <1>17, <1>18, <1>19, <1>20, <1>21 DEF Moves, Step

\* Nothing but its own removal takes a name-only revoke from its turn to its end
\* in a step that changes an account.
LEMMA OwnRemoval ==
  ASSUME LockInv, NEW p \in Procs, Moves(p), NEW r \in Procs,
         NameOnly(r), At(r, "act"), pc'[r] = "unlock", gen' # gen
  PROVE  gen[User[r]] # 0 /\ User[r] \notin pending
<1> USE LockConstants DEF TypeOK, NameOnly, At, To, host, Cancelled
<1>0. /\ TypeOK /\ gen' # gen
      /\ pc[r] = "act" /\ pc'[r] = "unlock" /\ Role[r] \in {"job", "yes"}
  BY DEF LockInv
<1>1. CASE InviteCreate(p)
  BY <1>0, <1>1 DEF InviteCreate
<1>2. CASE InviteRescan(p)
  BY <1>0, <1>2 DEF InviteRescan
<1>3. CASE Revoke(p)
  BY <1>0, <1>3 DEF Revoke, Intended
<1>4. CASE UninstallRevoke(p)
  BY <1>0, <1>4 DEF UninstallRevoke
<1>5. CASE ~InviteCreate(p) /\ ~InviteRescan(p) /\ ~Revoke(p) /\ ~UninstallRevoke(p)
  BY <1>0, <1>5 DEF Moves, Step, Start, Dequeue, Acquire, TryShared, Release, Gate, Exec, InviteClear,
     InviteScan, InviteDrain, InviteFinish, Sweep, Install, MarkUninstalled, UninstallPurge,
     UninstallCommand, Kill
<1> QED BY <1>1, <1>2, <1>3, <1>4, <1>5

\* The invariant holds in every reachable state, for any set of commands.
THEOREM IntentInvariant == Spec => []IntentInv
<1>1. Init => IntentInv
  BY LockConstants DEF Init, IntentInv, NameOnly
<1>2. LockInv /\ IntentInv /\ [Next]_vars => IntentInv'
  <2>1. CASE UNCHANGED vars
    BY <2>1 DEF vars, IntentInv
  <2> QED BY <2>1, IntentStep DEF Next, Moves
<1> QED BY <1>1, <1>2, LockInvariant, PTL DEF Spec

\* A revoke that only knows a name removes the generation it was meant for, in any
\* number of invites that reuse the name, with any command killed
\* (withAccountTrySharedLock, runningLegacyRevokeProcess, quiesceScheduledAccount).
THEOREM LegacyIntentAlwaysHonored == Spec => LegacyIntentHonored
<1> DEFINE Honored == \A p \in Procs : NameOnly(p) /\ At(p, "act") /\ pc'[p] = "unlock" /\ gen' # gen
                        => gen[User[p]] = seen[p][User[p]]
<1>1. LockInv /\ IntentInv /\ [Next]_vars => [Honored]_vars
  <2> SUFFICES ASSUME LockInv, IntentInv, Next, NEW r \in Procs,
                      NameOnly(r), At(r, "act"), pc'[r] = "unlock", gen' # gen
               PROVE  gen[User[r]] = seen[r][User[r]]
    OBVIOUS
  <2>1. PICK p \in Procs : Moves(p)
    BY DEF Next, Moves
  <2>2. gen[User[r]] # 0 /\ User[r] \notin pending
    BY <2>1, OwnRemoval
  <2> QED BY <2>2 DEF IntentInv, At
<1> QED BY <1>1, LockInvariant, IntentInvariant, PTL DEF Spec, LegacyIntentHonored

=============================================================================
