-------------------------- MODULE UninstallProofs --------------------------
(***************************************************************************)
(* Proofs about Uninstall for every set of names, leftovers, options and   *)
(* bounds: nothing is stranded, only what was confirmed is deleted, an     *)
(* authorized uninstall finishes, and tasks and rows are given up last.    *)
(***************************************************************************)
EXTENDS Uninstall, TLAPS

\* The fields the verdict on a name is made from.
SameIdentity(r, s) == r.acct = s.acct /\ r.mark = s.mark /\ r.row = s.row /\ r.rid = s.rid

\* No grant and no task, and an account of the tool's only where its row was lost.
Bereft(n) ==
  /\ ~h[n].sudo /\ ~h[n].sshd /\ ~h[n].task
  /\ h[n].acct > 0 => n \in lost

\* What authorizeUninstall accepts of one name.
Acceptable(r, opts) ==
  Listed(r) => /\ Classify(r) # "recoveryManual"
               /\ Live(r) => CompletedIdentity(r) \/ Ignored(r, opts)

\* The install path as binaryBlocker wants it, while the command is installed.
PathFits(p, opts) == p # "dir" /\ (p = "unsafe" => opts.force)

\* Only an account whose row others removed has no row.
NamedInv == \A n \in Names : h[n].acct > 0 /\ h[n].row = "none" => n \in lost

\* From the second inventory on nothing is left, and in the end not the stamps.
EndingInv ==
  /\ op.pc \in {"stamps", "mark", "state", "command"} => \A n \in Names : Bereft(n)
  /\ op.pc \in {"mark", "state", "command"} => ~stamps
  /\ ~installed => Idle /\ ~stamps /\ \A n \in Names : Bereft(n)

\* The plan an operator is asked to confirm was authorized as it stands.
AskedInv ==
  asked.live => /\ PathFits(asked.path, asked.opts)
                /\ \A n \in Names : Acceptable(asked.view[n], asked.opts)

\* A name still to be revoked has the account the operator saw, or none of the
\* tool's; while nobody else interferes it is as the operator saw it, and a name
\* that is done with does not stop the second inventory.
RevokingInv ==
  op.pc = "revoke" =>
    /\ \A n \in op.todo : h[n].acct > 0 => h[n].acct = op.view[n].acct
    /\ op.calm => \A n \in op.todo :
         h[n] = op.view[n] /\ Listed(h[n]) /\ Acceptable(h[n], op.opts)
    /\ op.calm /\ op.smooth =>
         /\ ~op.failed
         /\ \A n \in Names \ op.todo :
              Listed(h[n]) /\ Blocks(h[n]) => Ignored(h[n], op.opts)

\* What compact has swept: a grant left is a live account's, kept, or not listed.
SweptInv ==
  /\ op.pc \in {"sshd", "sudo", "tasks", "rows"} /\ op.rc = 0 => ~op.incomplete /\ op.kept = {}
  /\ op.calm /\ ~op.incomplete /\ op.pc \in {"sudo", "tasks", "rows"} =>
       \A n \in Names \ op.kept : h[n].sshd => OursAndLive(h[n])
  /\ op.calm /\ ~op.incomplete /\ op.pc \in {"tasks", "rows"} =>
       \A n \in Names \ op.kept : h[n].sudo => OursAndLive(h[n])
  /\ op.calm /\ op.rc = 0 /\ op.pc = "rows" =>
       \A n \in Names : h[n].task => NeedsAutoRevoke(h[n])

\* While nobody else changes the host the path stays as authorized.
PathInv == Uninstalling /\ op.calm => PathFits(path, op.opts)

SafeInv == NamedInv /\ EndingInv /\ AskedInv /\ RevokingInv /\ SweptInv /\ PathInv
UninstallInv == TypeOK /\ SafeInv

-----------------------------------------------------------------------------
(* Names.                                                                     *)

\* The empty host and the bounds are in their types.
LEMMA Nothings ==
  Nothing \in Hosts /\ 0 \in Other .. MaxId /\ 0 \in 0 .. MaxId /\ Other \in Other .. MaxId
BY InventoryConstants DEF Nothing, Hosts, RowStates, Other

\* A revoke leaves a name in its type, whatever it stops at.
LEMMA RevokeTypes ==
  ASSUME NEW r \in Hosts, NEW ok \in BOOLEAN
  PROVE  RevokeOutcome(r, ok) \subseteq Hosts /\ Stripped(r) \subseteq Hosts /\ Bare(r) \in Hosts
<1>1. \A s, d \in BOOLEAN : [r EXCEPT !.sudo = s, !.sshd = d] \in Hosts
  BY DEF Hosts
<1>2. Bare(r) \in Hosts
  BY DEF Hosts, Bare
<1>3. r.sudo \in BOOLEAN /\ r.sshd \in BOOLEAN /\ r.task \in BOOLEAN
  BY DEF Hosts
<1>4. Stripped(r) \subseteq Hosts
  <2> SUFFICES ASSUME NEW x \in Stripped(r) PROVE x \in Hosts
    OBVIOUS
  <2>1. PICK s \in {r.sudo, FALSE}, d \in {r.sshd, FALSE} : x = [r EXCEPT !.sudo = s, !.sshd = d]
    BY SMT DEF Stripped
  <2> QED
    BY <1>1, <1>3, <2>1
<1>5. Marked(r) \in Hosts
  BY <1>2 DEF Hosts, RowStates, Marked
<1>6. Deleted(r) \in Hosts
  BY <1>5, Nothings DEF Hosts, Deleted
<1>7. Cancelled(r) \in Hosts
  BY <1>6 DEF Hosts, Cancelled
<1>8. Released(r) \in Hosts
  BY <1>7, Nothings DEF Hosts, RowStates, Released
<1>9. \A t \in BOOLEAN : [Bare(r) EXCEPT !.task = t] \in Hosts
  BY <1>2 DEF Hosts
<1>10. RevokeStops(r) \subseteq Hosts
  BY <1>3, <1>4, <1>5, <1>6, <1>7, <1>9 DEF RevokeStops
<1> QED
  BY <1>2, <1>4, <1>8, <1>10 DEF RevokeOutcome

\* What a revoke leaves of the account: it, retired or not, or nothing; and the
\* row stays unless the account is gone.
LEMMA RevokeKeeps ==
  ASSUME NEW r \in Hosts, NEW ok \in BOOLEAN, NEW s \in RevokeOutcome(r, ok)
  PROVE  /\ s.acct \in {r.acct, 0}
         /\ s.row = "none" => r.row = "none" \/ s.acct = 0
         /\ ok => ~Live(s) /\ ~Artifact(s)
         /\ ~s.task => (r.task => ~s.sudo /\ ~s.sshd)
         /\ r.row # "none" /\ s.row = "none" => ~s.sudo /\ ~s.sshd /\ ~s.task
<1>1. CASE ok
  BY <1>1, ZenonT(40)
     DEF RevokeOutcome, Released, Cancelled, Deleted, Marked, Bare, Hosts, Live, Artifact, Witnesses
<1>2. CASE ~ok /\ s \in Stripped(r)
  <2>1. PICK u \in {r.sudo, FALSE}, d \in {r.sshd, FALSE} : s = [r EXCEPT !.sudo = u, !.sshd = d]
    BY <1>2, SMT DEF Stripped
  <2> QED
    BY <1>2, <2>1 DEF Hosts
<1>3. CASE ~ok /\ s \in {Marked(r), Deleted(r), Cancelled(r)}
  BY <1>3, ZenonT(40) DEF Cancelled, Deleted, Marked, Bare, Hosts, RowStates
<1>4. CASE ~ok /\ ~Live(r) /\ s \in {[Bare(r) EXCEPT !.task = t] : t \in {r.task, FALSE}}
  BY <1>4 DEF Bare, Hosts
<1> QED
  BY <1>1, <1>2, <1>3, <1>4 DEF RevokeOutcome, RevokeStops

\* The verdict on a name does not depend on its grants and tasks.
LEMMA SameVerdict ==
  ASSUME NEW r \in Hosts, NEW s \in Hosts, SameIdentity(r, s)
  PROVE  Classify(r) = Classify(s)
BY DEF SameIdentity, Classify, Retired, Matches, Live

\* Grants removed, any of them, leave the rest of a name as it was.
LEMMA StrippedName ==
  ASSUME NEW r \in Hosts, NEW s \in Stripped(r) \cup {Bare(r)}
  PROVE  s \in Hosts /\ SameIdentity(r, s) /\ s.task = r.task
<1>1. s \in Hosts
  BY RevokeTypes
<1>2. CASE s \in Stripped(r)
  <2>1. PICK u \in {r.sudo, FALSE}, d \in {r.sshd, FALSE} : s = [r EXCEPT !.sudo = u, !.sshd = d]
    BY <1>2, SMT DEF Stripped
  <2> QED
    BY <1>1, <2>1 DEF Hosts, SameIdentity
<1>3. CASE s = Bare(r)
  BY <1>1, <1>3 DEF Bare, Hosts, SameIdentity
<1> QED
  BY <1>2, <1>3

\* A revoke that may not delete keeps account, marker and row, whatever fails.
LEMMA SparedName ==
  ASSUME NEW r \in Hosts, NEW ok \in BOOLEAN,
         NEW s \in Protected(r, ok) \cup SpentLast(r, ok) \cup GivenUp(r, ok)
  PROVE  s \in Hosts /\ SameIdentity(r, s)
<1>1. CASE s \in Stripped(r) \cup {Bare(r)}
  BY <1>1, StrippedName
<1>2. CASE s = NoTaskLeft(r)
  <2>1. Bare(r) \in Hosts /\ SameIdentity(r, Bare(r))
    BY StrippedName
  <2> QED
    BY <1>2, <2>1 DEF NoTaskLeft, Hosts, SameIdentity
<1>3. CASE \E x \in Stripped(r), t \in {r.task, FALSE} : s = [x EXCEPT !.task = t]
  <2>1. PICK x \in Stripped(r), t \in {r.task, FALSE} : s = [x EXCEPT !.task = t]
    BY <1>3
  <2>2. x \in Hosts /\ SameIdentity(r, x) /\ t \in BOOLEAN
    BY StrippedName DEF Hosts
  <2> QED
    BY <2>1, <2>2 DEF Hosts, SameIdentity
<1>4. CASE s \in GivenUp(r, ok)
  BY <1>2, <1>3, <1>4 DEF GivenUp
<1> QED
  BY <1>1, <1>2, <1>4 DEF Protected, SpentLast

\* What no unattended revoke may delete stays so, and keeps its row.
LEMMA StaysManual ==
  ASSUME NEW r \in Hosts, NEW s \in Hosts, ManualOnly(r), SameIdentity(r, s)
  PROVE  ManualOnly(s) /\ s.row # "none"
<1>1. Classify(s) = Classify(r) /\ Live(s)
  BY SameVerdict DEF ManualOnly, Live, SameIdentity
<1> QED
  BY <1>1 DEF ManualOnly, Classify

\* An account that may be deleted has its row and the row's identity.
LEMMA CompletedNamed ==
  ASSUME NEW r \in Hosts, CompletedIdentity(r), Live(r)
  PROVE  r.acct > 0 /\ r.row # "none"
BY DEF CompletedIdentity, Classify, Retired, Matches, Live, Hosts, RowStates

\* A name without witnesses has neither row nor grant nor task.
LEMMA Unlisted ==
  ASSUME NEW r \in Hosts, ~Listed(r)
  PROVE  r.row = "none" /\ ~r.sudo /\ ~r.sshd /\ ~r.task
<1>1. \A w \in {"registry", "sudoers", "sshd", "unit"} : w \notin Witnesses(r)
  BY DEF Listed
<1> QED
  BY <1>1 DEF Witnesses, Hosts

\* Grants and tasks are what Artifact is about.
LEMMA NoArtifact ==
  ASSUME NEW r \in Hosts
  PROVE  Artifact(r) <=> r.sudo \/ r.sshd \/ r.task
BY DEF Artifact, Witnesses, Hosts

\* An ignored name has nothing but a marker.
LEMMA MarkerNoMore ==
  ASSUME NEW r \in Hosts, MarkerOnly(r)
  PROVE  r.row = "none" /\ ~r.sudo /\ ~r.sshd /\ ~r.task
<1>1. \A w \in {"registry", "sudoers", "sshd", "unit"} : w \notin Witnesses(r)
  BY DEF MarkerOnly
<1> QED
  BY <1>1 DEF Witnesses, Hosts

-----------------------------------------------------------------------------
(* The invariant, step by step.                                               *)

\* The sweep at rest and the empty plan are in their types.
LEMMA RestTypes == IdleOp \in Ops /\ NoPlan \in Plans /\ NoOpts \in Options
BY Nothings DEF IdleOp, Ops, PCs, NoPlan, Plans, NoOpts, Options

\* At rest there is nothing for the invariant to say of a sweep.
LEMMA RestSafe ==
  ASSUME TypeOK, SafeInv, op' = IdleOp, NamedInv', AskedInv', h' = h, UNCHANGED <<stamps, lost>>,
         ~installed' => ~stamps /\ \A n \in Names : Bereft(n)
  PROVE  SafeInv'
BY DEF SafeInv, EndingInv, RevokingInv, SweptInv, PathInv, Uninstalling, IdleOp, Idle, Bereft

\* The host before the first uninstall.
LEMMA UninstallInit == Init => UninstallInv
<1> SUFFICES ASSUME Init PROVE UninstallInv
  OBVIOUS
<1>1. h \in [Names -> Hosts] /\ \A n \in Names : h[n] \in Leftovers[n]
  BY UninstallConstants DEF Init
<1>2. TypeOK
  <2>1. nextId \in 1 .. MaxId + 1 /\ faults \in 0 .. MaxFaults /\ outside \in 0 .. MaxOutside
    BY InventoryConstants DEF Init
  <2>2. op \in Ops /\ asked \in Plans /\ lost \subseteq Names
    BY RestTypes DEF Init
  <2> QED
    BY <1>1, <2>1, <2>2 DEF Init, TypeOK
<1>3. NamedInv
  BY <1>1, LeftoversNamed DEF NamedInv
<1> QED
  BY <1>2, <1>3 DEF Init, UninstallInv, SafeInv, EndingInv, AskedInv, RevokingInv, SweptInv, PathInv,
                    Uninstalling, IdleOp, NoPlan

\* The plan shown is an authorized one.
LEMMA PlanSafe == UninstallInv /\ (\E o \in OptionSets : Plan(o)) => UninstallInv'
<1> SUFFICES ASSUME UninstallInv, NEW o \in OptionSets, Plan(o) PROVE UninstallInv'
  OBVIOUS
<1> USE DEF UninstallInv
<1>1. View \in [Names -> Hosts]
  BY Nothings DEF View, TypeOK
<1>2. TypeOK'
  BY <1>1, UninstallConstants DEF TypeOK, Plan, Plans, footprint
<1>3. AskedInv'
  <2>1. PathFits(path, o)
    BY DEF Plan, Authorized, Blocked, PathFits
  <2>2. \A n \in Names : Acceptable(View[n], o)
    <3>1. ~Listed(Nothing)
      BY DEF Listed, Witnesses, Nothing, NamedByMarker, NamedByV1, Live
    <3> QED
      BY <3>1 DEF Plan, Authorized, Acceptable, View
  <2> QED
    BY <2>1, <2>2 DEF Plan, AskedInv, Acceptable
<1> QED
  BY <1>2, <1>3 DEF Plan, SafeInv, NamedInv, EndingInv, RevokingInv, SweptInv, PathInv, Uninstalling,
                    Idle, Bereft, footprint

\* What starts is the plan that was confirmed, on the host it was made from.
LEMMA ProceedSafe == UninstallInv /\ Proceed => UninstallInv'
<1> SUFFICES ASSUME UninstallInv, Proceed PROVE UninstallInv'
  OBVIOUS
<1> USE DEF UninstallInv
<1>1. faults' \in 0 .. MaxFaults
  BY InventoryConstants DEF Proceed, Fault, Fine, TypeOK
<1>2. AskedInv'
  BY DEF Proceed, AskedInv, NoPlan
<1>3. CASE UNCHANGED op
  <2>1. TypeOK'
    BY <1>1, <1>3, RestTypes DEF TypeOK, Proceed, footprint
  <2> QED
    BY <1>2, <1>3, <2>1 DEF Proceed, SafeInv, NamedInv, EndingInv, RevokingInv, SweptInv, PathInv,
                            Uninstalling, Idle, Bereft, footprint
<1>4. CASE op' # op
  <2> DEFINE listed == {n \in Names : Listed(h[n])}
  <2>1. /\ op' = [IdleOp EXCEPT !.pc = "revoke", !.opts = asked.opts, !.view = asked.view,
                                !.todo = listed]
        /\ View = asked.view /\ path = asked.path /\ asked.live /\ installed
    BY <1>4 DEF Proceed
  <2>2. op' \in Ops
    BY <2>1, RestTypes DEF Ops, PCs, TypeOK, Plans
  <2>3. TypeOK'
    BY <1>1, <2>2, RestTypes DEF TypeOK, Proceed, footprint
  <2>4. /\ op'.pc = "revoke" /\ op'.opts = asked.opts /\ op'.view = asked.view /\ op'.todo = listed
        /\ op'.failed = FALSE
    BY <2>1, RestTypes DEF Ops, IdleOp
  <2>5. \A n \in listed : h[n] = asked.view[n] /\ Listed(h[n]) /\ Acceptable(h[n], asked.opts)
    BY <2>1 DEF View, SafeInv, AskedInv
  <2>6. RevokingInv'
    BY <2>4, <2>5 DEF RevokingInv, Acceptable, Proceed
  <2>7. PathInv'
    BY <2>1, <2>4 DEF PathInv, SafeInv, AskedInv, Proceed
  <2> QED
    BY <1>2, <2>1, <2>3, <2>4, <2>6, <2>7
       DEF Proceed, SafeInv, NamedInv, EndingInv, SweptInv, Idle, Bereft, footprint
<1> QED
  BY <1>3, <1>4

\* One account of the plan: the others stay as they are, and what a revoke left
\* of this one does not stop the second inventory if it went well.
LEMMA RevokeSafe == UninstallInv /\ (\E n \in Names : RevokeAccount(n)) => UninstallInv'
<1> SUFFICES ASSUME UninstallInv, NEW n \in Names, RevokeAccount(n) PROVE UninstallInv'
  OBVIOUS
<1> USE DEF UninstallInv
<1> DEFINE planned == op.view[n]
           refused == \/ Live(planned) /\ planned.row = "none"
                      \/ Live(h[n]) /\ ~CompletedIdentity(h[n])
<1>1. /\ op.pc = "revoke" /\ n \in op.todo /\ op \in Ops /\ h \in [Names -> Hosts]
      /\ UNCHANGED <<nextId, lost, outside, asked, installed, tomb, stamps, path>>
  BY DEF RevokeAccount, TypeOK, footprint
<1>2. installed /\ AskedInv'
  BY <1>1 DEF SafeInv, EndingInv, Idle, AskedInv
<1>3. faults' \in 0 .. MaxFaults
  <2>1. Fine \/ Fault
    BY DEF RevokeAccount, FineIf
  <2> QED
    BY <2>1, InventoryConstants DEF Fault, Fine, TypeOK
<1>4. CASE /\ Ignored(planned, op.opts) /\ UNCHANGED h
           /\ op' = [op EXCEPT !.todo = @ \ {n}]
  <2>1. op' \in Ops
    BY <1>1, <1>4 DEF Ops
  <2>2. TypeOK'
    BY <1>1, <1>3, <1>4, <2>1 DEF TypeOK
  <2>3. /\ op'.pc = "revoke" /\ op'.todo = op.todo \ {n} /\ op'.view = op.view /\ op'.opts = op.opts
        /\ op'.calm = op.calm /\ op'.smooth = op.smooth /\ op'.failed = op.failed
    BY <1>1, <1>4 DEF Ops
  <2>4. RevokingInv'
    BY <1>1, <1>4, <2>3 DEF SafeInv, RevokingInv, Acceptable
  <2> QED
    BY <1>1, <1>2, <1>4, <2>2, <2>3, <2>4
       DEF SafeInv, NamedInv, EndingInv, SweptInv, PathInv, Uninstalling, Idle, Bereft
<1>5. CASE /\ ~Ignored(planned, op.opts) /\ refused /\ UNCHANGED h
           /\ op' = [op EXCEPT !.todo = @ \ {n}, !.failed = TRUE]
  <2>1. op' \in Ops
    BY <1>1, <1>5 DEF Ops
  <2>2. TypeOK'
    BY <1>1, <1>3, <1>5, <2>1 DEF TypeOK
  <2>3. /\ op'.pc = "revoke" /\ op'.todo = op.todo \ {n} /\ op'.view = op.view /\ op'.opts = op.opts
        /\ op'.calm = op.calm /\ op'.smooth = op.smooth
    BY <1>1, <1>5 DEF Ops
  <2>4. ~op.calm
    <3> SUFFICES ASSUME op.calm PROVE FALSE
      OBVIOUS
    <3>1. h[n] = planned /\ Listed(h[n]) /\ Acceptable(h[n], op.opts)
      BY <1>1 DEF SafeInv, RevokingInv
    <3> QED
      BY <1>1, <1>5, <3>1, CompletedNamed DEF Acceptable
  <2>5. RevokingInv'
    BY <1>1, <1>5, <2>3, <2>4 DEF SafeInv, RevokingInv
  <2> QED
    BY <1>1, <1>2, <1>5, <2>2, <2>3, <2>5
       DEF SafeInv, NamedInv, EndingInv, SweptInv, PathInv, Uninstalling, Idle, Bereft
<1>6. ASSUME NEW ok \in BOOLEAN, NEW r \in RevokeOutcome(h[n], ok), h' = [h EXCEPT ![n] = r],
             op' = [op EXCEPT !.todo = @ \ {n}, !.failed = @ \/ ~ok, !.smooth = @ /\ ok]
      PROVE  UninstallInv'
  <2>1. op' \in Ops
    BY <1>1, <1>6, ZenonT(40) DEF Ops
  <2>2. r \in Hosts
    BY <1>1, <1>6, RevokeTypes
  <2>3. TypeOK'
    BY <1>1, <1>3, <1>6, <2>1, <2>2 DEF TypeOK
  <2>4. /\ op'.pc = "revoke" /\ op'.todo = op.todo \ {n} /\ op'.view = op.view /\ op'.opts = op.opts
        /\ op'.calm = op.calm /\ op'.smooth = (op.smooth /\ ok) /\ op'.failed = (op.failed \/ ~ok)
    BY <1>1, <1>6 DEF Ops
  <2>5. /\ r.acct \in {h[n].acct, 0} /\ (r.row = "none" => h[n].row = "none" \/ r.acct = 0)
        /\ ok => ~Live(r) /\ ~Artifact(r)
    BY <1>1, <1>6, RevokeKeeps
  <2>6. h'[n] = r /\ \A m \in Names \ {n} : h'[m] = h[m]
    BY <1>1, <1>6
  <2>7. NamedInv'
    BY <1>1, <2>5, <2>6 DEF SafeInv, NamedInv
  <2>8. RevokingInv'
    <3>1. \A m \in op'.todo : h'[m] = h[m] /\ m \in op.todo
      BY <1>1, <2>1, <2>4, <2>6 DEF Ops
    <3>2. op.calm => \A m \in op.todo : h[m] = op.view[m] /\ Acceptable(h[m], op.opts)
      BY <1>1 DEF SafeInv, RevokingInv
    <3>3. ok => ~Blocks(h'[n])
      BY <2>5, <2>6 DEF Blocks
    <3> QED
      BY <1>1, <2>4, <2>6, <3>1, <3>2, <3>3, ZenonT(40) DEF SafeInv, RevokingInv, Acceptable
  <2> QED
    BY <1>1, <1>2, <2>3, <2>4, <2>7, <2>8
       DEF SafeInv, EndingInv, SweptInv, PathInv, Uninstalling, Idle
<1> QED
  BY <1>4, <1>5, <1>6 DEF RevokeAccount

\* The second inventory lets only a host through on which nothing is left.
LEMMA ResidualSafe == UninstallInv /\ Residual => UninstallInv'
<1> SUFFICES ASSUME UninstallInv, Residual PROVE UninstallInv'
  OBVIOUS
<1> USE DEF UninstallInv
<1>1. /\ op.pc = "revoke" /\ op.todo = {} /\ op \in Ops /\ h \in [Names -> Hosts]
      /\ UNCHANGED <<h, nextId, lost, outside, asked, installed, tomb, stamps, path>>
  BY DEF Residual, TypeOK, footprint
<1>2. installed /\ AskedInv' /\ NamedInv'
  BY <1>1 DEF SafeInv, EndingInv, Idle, AskedInv, NamedInv
<1>3. faults' \in 0 .. MaxFaults
  BY InventoryConstants DEF Residual, Fault, Fine, TypeOK
<1>4. CASE Stop
  <2>1. TypeOK'
    BY <1>1, <1>3, <1>4, RestTypes DEF TypeOK, Stop
  <2> QED
    BY <1>1, <1>2, <1>4, <2>1, RestSafe DEF Stop
<1>5. CASE /\ Goto("stamps")
           /\ ~\E n \in Names : Listed(h[n]) /\ ~Ignored(h[n], op.opts) /\ Blocks(h[n])
           /\ ~Blocked(op.opts)
  <2>1. op' \in Ops
    BY <1>1, <1>5 DEF Ops, PCs, Goto
  <2>2. TypeOK'
    BY <1>1, <1>3, <2>1 DEF TypeOK
  <2>3. op'.pc = "stamps" /\ op'.calm = op.calm /\ op'.opts = op.opts
    BY <1>1, <1>5 DEF Ops, Goto
  <2>4. ASSUME NEW n \in Names
        PROVE  Bereft(n)'
    <3>1. h[n] \in Hosts /\ (h[n].acct > 0 => Live(h[n]))
      BY <1>1 DEF Live
    <3>2. CASE ~Listed(h[n])
      BY <1>1, <3>1, <3>2, Unlisted DEF SafeInv, NamedInv, Bereft
    <3>3. CASE Ignored(h[n], op.opts)
      BY <1>1, <3>1, <3>3, MarkerNoMore DEF Ignored, SafeInv, NamedInv, Bereft
    <3>4. CASE ~Blocks(h[n])
      BY <1>1, <3>1, <3>4, NoArtifact DEF Blocks, Bereft
    <3> QED
      BY <1>5, <3>2, <3>3, <3>4
  <2> QED
    BY <1>1, <1>2, <2>2, <2>3, <2>4
       DEF SafeInv, EndingInv, RevokingInv, SweptInv, PathInv, Uninstalling, Idle
<1> QED
  BY <1>4, <1>5 DEF Residual

\* Each of the last steps keeps the host without anything to strand.
LEMMA EndSafe ==
  UninstallInv /\ (CleanupTimerStamps \/ MarkUninstalled \/ RemoveStateDir \/ RemoveCommand) => UninstallInv'
<1> SUFFICES ASSUME UninstallInv, CleanupTimerStamps \/ MarkUninstalled \/ RemoveStateDir \/ RemoveCommand
             PROVE  UninstallInv'
  OBVIOUS
<1> USE DEF UninstallInv
<1>1. /\ op \in Ops /\ h \in [Names -> Hosts] /\ op.pc \in {"stamps", "mark", "state", "command"}
      /\ \A n \in Names : Bereft(n)
      /\ UNCHANGED <<nextId, lost, outside, asked, path>>
  BY DEF CleanupTimerStamps, MarkUninstalled, RemoveStateDir, RemoveCommand, TypeOK, SafeInv, EndingInv
<1>2. installed /\ AskedInv'
  BY <1>1 DEF SafeInv, EndingInv, Idle, AskedInv
<1>3. faults' \in 0 .. MaxFaults
  <2>1. Fine \/ Fault
    BY DEF CleanupTimerStamps, MarkUninstalled, RemoveStateDir, RemoveCommand
  <2> QED
    BY <2>1, InventoryConstants DEF Fault, Fine, TypeOK
<1>4. /\ h' \in {h, NoState}
      /\ installed' \in {installed, FALSE} /\ tomb' \in {tomb, TRUE} /\ stamps' \in {stamps, FALSE}
  BY DEF CleanupTimerStamps, MarkUninstalled, RemoveStateDir, RemoveCommand, footprint
<1>5. NoState \in [Names -> Hosts]
  <2>1. \A n \in Names : [h[n] EXCEPT !.row = "none", !.rid = 0, !.v1 = FALSE] \in Hosts
    BY <1>1, Nothings DEF Hosts, RowStates
  <2> QED
    BY <2>1 DEF NoState
<1>6. ASSUME NEW n \in Names
      PROVE  /\ h'[n].acct = h[n].acct /\ h'[n].sudo = h[n].sudo
             /\ h'[n].sshd = h[n].sshd /\ h'[n].task = h[n].task
  <2>1. h[n] \in Hosts /\ NoState[n] = [h[n] EXCEPT !.row = "none", !.rid = 0, !.v1 = FALSE]
    BY <1>1 DEF NoState
  <2> QED
    <3>1. CASE h' = h
      BY <3>1
    <3>2. CASE h' = NoState
      BY <2>1, <3>2 DEF Hosts
    <3> QED
      BY <1>4, <3>1, <3>2
<1>7. \A n \in Names : Bereft(n)'
  BY <1>1, <1>6 DEF Bereft
<1>8. NamedInv'
  BY <1>7 DEF NamedInv, Bereft
<1>9. CASE Stop
  <2>1. TypeOK'
    BY <1>1, <1>3, <1>4, <1>5, <1>9, RestTypes DEF TypeOK, Stop
  <2>2. ~installed' => ~stamps'
    BY <1>2, <1>9 DEF CleanupTimerStamps, MarkUninstalled, RemoveStateDir, RemoveCommand,
                      SafeInv, EndingInv, footprint
  <2> QED
    BY <1>2, <1>7, <1>8, <1>9, <2>1, <2>2
       DEF SafeInv, EndingInv, RevokingInv, SweptInv, PathInv, Uninstalling, IdleOp, Idle, Stop
<1>10. ASSUME NEW pc \in {"mark", "state", "command"}, Goto(pc), ~RemoveCommand
       PROVE  UninstallInv'
  <2>1. op' \in Ops
    BY <1>1, <1>10 DEF Ops, PCs, Goto
  <2>2. TypeOK'
    BY <1>1, <1>3, <1>4, <1>5, <2>1 DEF TypeOK
  <2>3. op'.pc = pc /\ op'.calm = op.calm /\ op'.opts = op.opts
    BY <1>1, <1>10 DEF Ops, Goto
  <2>4. installed' = installed
    BY <1>10 DEF CleanupTimerStamps, MarkUninstalled, RemoveStateDir, footprint
  <2>5. ~stamps'
    <3>1. ~Stop
      BY <2>3 DEF Stop, IdleOp
    <3>2. op.pc # "stamps" => ~stamps
      BY <1>1 DEF SafeInv, EndingInv
    <3> QED
      BY <1>4, <1>10, <3>1, <3>2 DEF CleanupTimerStamps, MarkUninstalled, RemoveStateDir
  <2> QED
    BY <1>1, <1>2, <1>7, <1>8, <2>2, <2>3, <2>4, <2>5
       DEF SafeInv, EndingInv, RevokingInv, SweptInv, PathInv, Uninstalling, Idle
<1> QED
  BY <1>9, <1>10 DEF CleanupTimerStamps, MarkUninstalled, RemoveStateDir, RemoveCommand

-----------------------------------------------------------------------------
(* Compact.                                                                   *)

\* Dropping a sshd changes nothing else.
LEMMA SSHDDropped ==
  ASSUME TypeOK, NEW S, NoSSHD(S)
  PROVE  /\ h' \in [Names -> Hosts]
         /\ \A n \in Names : /\ SameIdentity(h[n], h'[n]) /\ Classify(h'[n]) = Classify(h[n])
                             /\ h'[n].sudo = h[n].sudo /\ h'[n].sshd = (h[n].sshd /\ n \notin S) /\ h'[n].task = h[n].task
<1>1. \A n \in Names : h[n] \in Hosts
  BY DEF TypeOK
<1>2. \A n \in Names : [h[n] EXCEPT !.sshd = FALSE] \in Hosts
  BY <1>1 DEF Hosts
<1>3. h' \in [Names -> Hosts]
  BY <1>1, <1>2 DEF NoSSHD
<1>4. ASSUME NEW n \in Names
      PROVE  SameIdentity(h[n], h'[n]) /\ h'[n].sudo = h[n].sudo /\ h'[n].sshd = (h[n].sshd /\ n \notin S) /\ h'[n].task = h[n].task
  <2>1. h[n] \in Hosts /\ h'[n] = IF n \in S THEN [h[n] EXCEPT !.sshd = FALSE] ELSE h[n]
    BY <1>1 DEF NoSSHD
  <2> QED
    BY <2>1 DEF Hosts, SameIdentity
<1> QED
  BY <1>1, <1>3, <1>4, SameVerdict

\* Dropping a sudo changes nothing else.
LEMMA SudoDropped ==
  ASSUME TypeOK, NEW S, NoSudo(S)
  PROVE  /\ h' \in [Names -> Hosts]
         /\ \A n \in Names : /\ SameIdentity(h[n], h'[n]) /\ Classify(h'[n]) = Classify(h[n])
                             /\ h'[n].sudo = (h[n].sudo /\ n \notin S) /\ h'[n].sshd = h[n].sshd /\ h'[n].task = h[n].task
<1>1. \A n \in Names : h[n] \in Hosts
  BY DEF TypeOK
<1>2. \A n \in Names : [h[n] EXCEPT !.sudo = FALSE] \in Hosts
  BY <1>1 DEF Hosts
<1>3. h' \in [Names -> Hosts]
  BY <1>1, <1>2 DEF NoSudo
<1>4. ASSUME NEW n \in Names
      PROVE  SameIdentity(h[n], h'[n]) /\ h'[n].sudo = (h[n].sudo /\ n \notin S) /\ h'[n].sshd = h[n].sshd /\ h'[n].task = h[n].task
  <2>1. h[n] \in Hosts /\ h'[n] = IF n \in S THEN [h[n] EXCEPT !.sudo = FALSE] ELSE h[n]
    BY <1>1 DEF NoSudo
  <2> QED
    BY <2>1 DEF Hosts, SameIdentity
<1> QED
  BY <1>1, <1>3, <1>4, SameVerdict

\* Dropping a task changes nothing else.
LEMMA TaskDropped ==
  ASSUME TypeOK, NEW S, NoTask(S)
  PROVE  /\ h' \in [Names -> Hosts]
         /\ \A n \in Names : /\ SameIdentity(h[n], h'[n]) /\ Classify(h'[n]) = Classify(h[n])
                             /\ h'[n].sudo = h[n].sudo /\ h'[n].sshd = h[n].sshd /\ h'[n].task = (h[n].task /\ n \notin S)
<1>1. \A n \in Names : h[n] \in Hosts
  BY DEF TypeOK
<1>2. \A n \in Names : [h[n] EXCEPT !.task = FALSE] \in Hosts
  BY <1>1 DEF Hosts
<1>3. h' \in [Names -> Hosts]
  BY <1>1, <1>2 DEF NoTask
<1>4. ASSUME NEW n \in Names
      PROVE  SameIdentity(h[n], h'[n]) /\ h'[n].sudo = h[n].sudo /\ h'[n].sshd = h[n].sshd /\ h'[n].task = (h[n].task /\ n \notin S)
  <2>1. h[n] \in Hosts /\ h'[n] = IF n \in S THEN [h[n] EXCEPT !.task = FALSE] ELSE h[n]
    BY <1>1 DEF NoTask
  <2> QED
    BY <2>1 DEF Hosts, SameIdentity
<1> QED
  BY <1>1, <1>3, <1>4, SameVerdict

\* While compact runs the command is there, and nothing outside its sweep's state
\* is disturbed by a step that keeps the identities.
LEMMA CompactFrame ==
  ASSUME UninstallInv, UNCHANGED <<nextId, lost, outside, asked, footprint, path>>,
         op.pc \in {"sshd", "sudo", "tasks", "rows"}, op' \in Ops,
         op'.pc \in {"idle", "sshd", "sudo", "tasks", "rows"}, SweptInv', faults' \in 0 .. MaxFaults,
         h' \in [Names -> Hosts], \A n \in Names : SameIdentity(h[n], h'[n])
  PROVE  UninstallInv'
<1> USE DEF UninstallInv
<1>1. TypeOK'
  BY DEF TypeOK, footprint
<1>2. NamedInv'
  BY DEF SafeInv, NamedInv, SameIdentity
<1>3. installed' /\ AskedInv'
  BY DEF SafeInv, EndingInv, Idle, AskedInv, footprint
<1> QED
  BY <1>1, <1>2, <1>3 DEF SafeInv, EndingInv, RevokingInv, PathInv, Uninstalling

\* Every live account's verdict that spares its grants spares its task as well.
LEMMA OursNeedsTask == ASSUME NEW r, OursAndLive(r) PROVE NeedsAutoRevoke(r)
BY DEF OursAndLive, NeedsAutoRevoke

\* The sshd exceptions that are left are live accounts', or kept.
LEMMA SweepSSHDSafe == UninstallInv /\ SweepSSHD /\ UNCHANGED <<nextId, lost, outside, asked, footprint, path>>
                       => UninstallInv'
<1> SUFFICES ASSUME UninstallInv, SweepSSHD, UNCHANGED <<nextId, lost, outside, asked, footprint, path>>
             PROVE  UninstallInv'
  OBVIOUS
<1> DEFINE orphans == {n \in Names : h[n].sshd /\ ~OursAndLive(h[n])}
<1>1. op.pc = "sshd" /\ op \in Ops /\ TypeOK
  BY DEF SweepSSHD, UninstallInv, TypeOK
<1>2. faults' \in 0 .. MaxFaults
  <2>1. Fine \/ Fault
    BY DEF SweepSSHD, FineIf
  <2> QED
    BY <1>1, <2>1, InventoryConstants DEF Fault, Fine, TypeOK
<1>3. CASE UNCHANGED h /\ op' = [op EXCEPT !.pc = "sudo", !.incomplete = TRUE, !.rc = 1]
  <2>1. op' \in Ops /\ op'.pc = "sudo" /\ op'.incomplete /\ op'.rc = 1
    BY <1>1, <1>3 DEF Ops, PCs
  <2>2. SweptInv'
    BY <2>1 DEF SweptInv
  <2> QED
    BY <1>1, <1>2, <1>3, <2>1, <2>2, CompactFrame DEF TypeOK, SameIdentity
<1>4. ASSUME NEW failed \in SUBSET orphans, NEW unlinked \in SUBSET failed,
             NoSSHD((orphans \ failed) \cup unlinked),
             op' = [op EXCEPT !.pc = "sudo", !.kept = failed, !.rc = Rc(failed = {})]
      PROVE  UninstallInv'
  <2>1. /\ op' \in Ops /\ op'.pc = "sudo" /\ op'.incomplete = op.incomplete /\ op'.kept = failed
        /\ op'.calm = op.calm
        /\ op'.rc = 0 => failed = {} /\ op.rc = 0
    <3>1. failed \in SUBSET Names
      OBVIOUS
    <3>2. Rc(failed = {}) \in {0, 1} /\ (Rc(failed = {}) = 0 => failed = {} /\ op.rc = 0)
      BY <1>1 DEF Rc, Ops
    <3> QED
      BY <1>1, <1>4, <3>1, <3>2 DEF Ops, PCs
  <2>2. /\ h' \in [Names -> Hosts]
        /\ \A n \in Names : /\ SameIdentity(h[n], h'[n]) /\ Classify(h'[n]) = Classify(h[n])
                            /\ h'[n].sshd = (h[n].sshd /\ n \notin (orphans \ failed) \cup unlinked)
    BY <1>1, <1>4, SSHDDropped
  <2>3. \A n \in Names \ failed : h'[n].sshd => OursAndLive(h'[n])
    BY <2>2 DEF OursAndLive
  <2>4. SweptInv'
    BY <1>1, <2>1, <2>3 DEF SweptInv, UninstallInv, SafeInv
  <2> QED
    BY <1>1, <1>2, <2>1, <2>2, <2>4, CompactFrame
<1> QED
  BY <1>3, <1>4 DEF SweepSSHD

\* The rules that are left are live accounts', or kept.
LEMMA SweepSudoSafe == UninstallInv /\ SweepSudo /\ UNCHANGED <<nextId, lost, outside, asked, footprint, path>>
                       => UninstallInv'
<1> SUFFICES ASSUME UninstallInv, SweepSudo, UNCHANGED <<nextId, lost, outside, asked, footprint, path>>
             PROVE  UninstallInv'
  OBVIOUS
<1> DEFINE orphans == {n \in Names : h[n].sudo /\ ~OursAndLive(h[n])}
<1>1. op.pc = "sudo" /\ op \in Ops /\ TypeOK
  BY DEF SweepSudo, UninstallInv, TypeOK
<1>2. faults' \in 0 .. MaxFaults
  <2>1. Fine \/ Fault
    BY DEF SweepSudo, FineIf
  <2> QED
    BY <1>1, <2>1, InventoryConstants DEF Fault, Fine, TypeOK
<1>3. CASE UNCHANGED h /\ op' = [op EXCEPT !.pc = "tasks", !.incomplete = TRUE, !.rc = 1]
  <2>1. op' \in Ops /\ op'.pc = "tasks" /\ op'.incomplete /\ op'.rc = 1
    BY <1>1, <1>3 DEF Ops, PCs
  <2>2. SweptInv'
    BY <2>1 DEF SweptInv
  <2> QED
    BY <1>1, <1>2, <1>3, <2>1, <2>2, CompactFrame DEF TypeOK, SameIdentity
<1>4. ASSUME NEW failed \in SUBSET orphans, NEW unlinked \in SUBSET failed,
             NoSudo((orphans \ failed) \cup unlinked),
             op' = [op EXCEPT !.pc = "tasks", !.kept = @ \cup (failed \ unlinked), !.rc = Rc(failed = {})]
      PROVE  UninstallInv'
  <2>1. /\ op' \in Ops /\ op'.pc = "tasks" /\ op'.incomplete = op.incomplete
        /\ op'.kept = op.kept \cup (failed \ unlinked) /\ op'.calm = op.calm
        /\ op'.rc = 0 => failed = {} /\ op.rc = 0
    <3>1. op.kept \cup (failed \ unlinked) \in SUBSET Names
      BY <1>1 DEF Ops
    <3>2. Rc(failed = {}) \in {0, 1} /\ (Rc(failed = {}) = 0 => failed = {} /\ op.rc = 0)
      BY <1>1 DEF Rc, Ops
    <3> QED
      BY <1>1, <1>4, <3>1, <3>2 DEF Ops, PCs
  <2>2. /\ h' \in [Names -> Hosts]
        /\ \A n \in Names : /\ SameIdentity(h[n], h'[n]) /\ Classify(h'[n]) = Classify(h[n])
                            /\ h'[n].sudo = (h[n].sudo /\ n \notin (orphans \ failed) \cup unlinked)
                            /\ h'[n].sshd = h[n].sshd
    BY <1>1, <1>4, SudoDropped
  <2>3. \A n \in Names \ op'.kept : h'[n].sudo => OursAndLive(h'[n])
    BY <2>1, <2>2 DEF OursAndLive
  <2>4. op.calm /\ ~op.incomplete => \A n \in Names \ op'.kept : h'[n].sshd => OursAndLive(h'[n])
    BY <1>1, <2>1, <2>2 DEF OursAndLive, SweptInv, UninstallInv, SafeInv
  <2>5. SweptInv'
    BY <1>1, <2>1, <2>3, <2>4 DEF SweptInv, UninstallInv, SafeInv
  <2> QED
    BY <1>1, <1>2, <2>1, <2>2, <2>5, CompactFrame
<1> QED
  BY <1>3, <1>4 DEF SweepSudo

\* After a sweep without errors the tasks that are left are needed.
LEMMA SweepTasksSafe == UninstallInv /\ SweepTasks /\ UNCHANGED <<nextId, lost, outside, asked, footprint, path>>
                        => UninstallInv'
<1> SUFFICES ASSUME UninstallInv, SweepTasks, UNCHANGED <<nextId, lost, outside, asked, footprint, path>>
             PROVE  UninstallInv'
  OBVIOUS
<1> DEFINE orphans == {n \in Names : h[n].task /\ ~NeedsAutoRevoke(h[n])}
           sure == IF op.incomplete THEN {} ELSE orphans \ op.kept
<1>1. op.pc = "tasks" /\ op \in Ops /\ TypeOK
  BY DEF SweepTasks, UninstallInv, TypeOK
<1>2. faults' \in 0 .. MaxFaults
  <2>1. Fine \/ Fault
    BY DEF SweepTasks, FineIf
  <2> QED
    BY <1>1, <2>1, InventoryConstants DEF Fault, Fine, TypeOK
<1>3. CASE UNCHANGED h /\ op' = [op EXCEPT !.pc = "rows", !.rc = 1]
  <2>1. /\ op' \in Ops /\ op'.pc = "rows" /\ op'.rc = 1
        /\ op'.incomplete = op.incomplete /\ op'.kept = op.kept /\ op'.calm = op.calm
    BY <1>1, <1>3 DEF Ops, PCs
  <2>2. SweptInv'
    BY <1>1, <1>3, <2>1 DEF SweptInv, UninstallInv, SafeInv
  <2> QED
    BY <1>1, <1>2, <1>3, <2>1, <2>2, CompactFrame DEF TypeOK, SameIdentity
<1>4. ASSUME NEW failed \in SUBSET sure, NEW gone \in SUBSET failed,
             NoTask((sure \ failed) \cup gone),
             op' = [op EXCEPT !.pc = "rows", !.rc = Rc(failed = {} /\ sure = orphans)]
      PROVE  UninstallInv'
  <2>1. /\ op' \in Ops /\ op'.pc = "rows" /\ op'.incomplete = op.incomplete
        /\ op'.kept = op.kept /\ op'.calm = op.calm
        /\ op'.rc = 0 => failed = {} /\ sure = orphans /\ op.rc = 0
    <3> DEFINE rc == Rc(failed = {} /\ sure = orphans)
    <3>1. rc \in {0, 1} /\ (rc = 0 => failed = {} /\ sure = orphans /\ op.rc = 0)
      BY <1>1 DEF Rc, Ops
    <3> HIDE DEF rc
    <3>2. op' = [op EXCEPT !.pc = "rows", !.rc = rc]
      BY <1>4 DEF rc
    <3> QED
      BY <1>1, <3>1, <3>2 DEF Ops, PCs
  <2>2. /\ h' \in [Names -> Hosts]
        /\ \A n \in Names : /\ SameIdentity(h[n], h'[n]) /\ Classify(h'[n]) = Classify(h[n])
                            /\ h'[n].sudo = h[n].sudo /\ h'[n].sshd = h[n].sshd
                            /\ h'[n].task = (h[n].task /\ n \notin (sure \ failed) \cup gone)
    BY <1>1, <1>4, TaskDropped
  <2>3. op'.rc = 0 => \A n \in Names : h'[n].task => NeedsAutoRevoke(h'[n])
    BY <2>1, <2>2 DEF NeedsAutoRevoke
  <2>4. op.calm /\ ~op.incomplete => \A n \in Names \ op.kept : h'[n].sshd \/ h'[n].sudo => OursAndLive(h'[n])
    BY <1>1, <2>2 DEF OursAndLive, SweptInv, UninstallInv, SafeInv
  <2>5. SweptInv'
    BY <1>1, <2>1, <2>3, <2>4 DEF SweptInv, UninstallInv, SafeInv
  <2> QED
    BY <1>1, <1>2, <2>1, <2>2, <2>5, CompactFrame
<1> QED
  BY <1>3, <1>4 DEF SweepTasks

\* Only a row without its account is compacted.
LEMMA RowCompacted ==
  ASSUME NEW r \in Hosts, Classify(r) = "missing"
  PROVE  r.acct = 0 /\ [r EXCEPT !.row = "none", !.rid = 0] \in Hosts
<1>1. r.acct = 0
  BY DEF Classify, Retired, Live, Hosts, RowStates
<1> QED
  BY <1>1, Nothings DEF Hosts, RowStates

\* Compact ends with the rows of accounts that are gone, or with what it found.
LEMMA CompactRowsSafe == UninstallInv /\ CompactRows /\ UNCHANGED <<nextId, lost, outside, asked, footprint, path>>
                         => UninstallInv'
<1> SUFFICES ASSUME UninstallInv, CompactRows, UNCHANGED <<nextId, lost, outside, asked, footprint, path>>
             PROVE  UninstallInv'
  OBVIOUS
<1> USE DEF UninstallInv
<1>1. op.pc = "rows" /\ op' = IdleOp /\ h \in [Names -> Hosts]
  BY DEF CompactRows, TypeOK
<1>2. faults' \in 0 .. MaxFaults
  <2>1. Fine \/ Fault
    BY DEF CompactRows
  <2> QED
    BY <2>1, InventoryConstants DEF Fault, Fine, TypeOK
<1> DEFINE compacted == [n \in Names |-> IF Classify(h[n]) = "missing"
                                        THEN [h[n] EXCEPT !.row = "none", !.rid = 0] ELSE h[n]]
<1>3. h' \in {h, compacted}
  BY DEF CompactRows
<1>4. compacted \in [Names -> Hosts]
  BY <1>1, RowCompacted
<1>5. TypeOK'
  BY <1>1, <1>2, <1>3, <1>4, RestTypes DEF TypeOK, footprint
<1>6. ASSUME NEW n \in Names
      PROVE  h'[n].acct > 0 /\ h'[n].row = "none" => n \in lost'
  <2>1. CASE h'[n] = h[n]
    BY <2>1 DEF SafeInv, NamedInv
  <2>2. CASE Classify(h[n]) = "missing" /\ h'[n] = [h[n] EXCEPT !.row = "none", !.rid = 0]
    <3>1. h[n] \in Hosts /\ h[n].acct = 0
      BY <1>1, <2>2, RowCompacted
    <3> QED
      BY <2>2, <3>1 DEF Hosts
  <2> QED
    BY <1>3, <2>1, <2>2
<1>7. installed' /\ AskedInv'
  BY <1>1 DEF SafeInv, EndingInv, Idle, AskedInv, footprint
<1> QED
  BY <1>1, <1>5, <1>6, <1>7
     DEF SafeInv, NamedInv, EndingInv, RevokingInv, SweptInv, PathInv, Uninstalling, IdleOp, Idle

\* Compact starts with nothing swept.
LEMMA StartCompactSafe == UninstallInv /\ StartCompact => UninstallInv'
<1> SUFFICES ASSUME UninstallInv, StartCompact PROVE UninstallInv'
  OBVIOUS
<1> USE DEF UninstallInv
<1>1. op' \in Ops /\ op'.pc = "sshd" /\ ~op'.incomplete /\ op'.kept = {}
  BY RestTypes DEF StartCompact, Ops, PCs, IdleOp
<1>2. TypeOK'
  BY <1>1 DEF StartCompact, TypeOK, footprint
<1>3. installed' /\ AskedInv' /\ NamedInv'
  BY DEF StartCompact, Open, SafeInv, AskedInv, NamedInv, footprint
<1> QED
  BY <1>1, <1>2, <1>3 DEF SafeInv, EndingInv, RevokingInv, SweptInv, PathInv, Uninstalling

-----------------------------------------------------------------------------
(* Everybody else.                                                            *)

\* Between two sweeps, while the command is there, whatever happens to one name
\* keeps the invariant if the name keeps its row or loses its account.
LEMMA OneNameSafe ==
  ASSUME UninstallInv, Open, NEW n \in Names, NEW r \in Hosts, h' = [h EXCEPT ![n] = r],
         r.acct > 0 /\ r.row = "none" => n \in lost', lost' \subseteq Names, lost \ {n} \subseteq lost',
         UNCHANGED <<op, outside, asked, footprint, path>>,
         nextId' \in 1 .. MaxId + 1, faults' \in 0 .. MaxFaults
  PROVE  UninstallInv'
<1> USE DEF UninstallInv
<1>1. h' \in [Names -> Hosts] /\ h'[n] = r /\ \A m \in Names \ {n} : h'[m] = h[m]
  BY DEF TypeOK
<1>2. TypeOK'
  BY <1>1 DEF TypeOK, footprint
<1>3. NamedInv'
  BY <1>1 DEF SafeInv, NamedInv
<1> QED
  BY <1>2, <1>3 DEF Open, Idle, SafeInv, EndingInv, AskedInv, RevokingInv, SweptInv, PathInv, Uninstalling, footprint

\* An invite makes the row with the account.
LEMMA InviteSafe == UninstallInv /\ (\E n \in Names : Invite(n)) => UninstallInv'
<1> SUFFICES ASSUME UninstallInv, NEW n \in Names, Invite(n) PROVE UninstallInv'
  OBVIOUS
<1>1. PICK temp \in BOOLEAN :
        h' = [h EXCEPT ![n] = [Nothing EXCEPT !.acct = nextId, !.mark = TRUE, !.row = "active",
                                              !.rid = nextId, !.sudo = temp, !.sshd = temp,
                                              !.task = temp]]
  BY DEF Invite
<1>2. nextId \in 1 .. MaxId /\ nextId' = nextId + 1 /\ faults \in 0 .. MaxFaults /\ lost \subseteq Names
  BY InventoryConstants DEF Invite, UninstallInv, TypeOK
<1> DEFINE r == [Nothing EXCEPT !.acct = nextId, !.mark = TRUE, !.row = "active",
                                !.rid = nextId, !.sudo = temp, !.sshd = temp, !.task = temp]
<1>3. r \in Hosts /\ r.row = "active"
  <2>1. nextId \in Other .. MaxId /\ nextId \in 0 .. MaxId
    BY <1>2, InventoryConstants DEF Other
  <2> QED
    BY <2>1, Nothings DEF Hosts, RowStates
<1>4. nextId' \in 1 .. MaxId + 1
  BY <1>2, InventoryConstants
<1> HIDE DEF r
<1> QED
  BY <1>1, <1>2, <1>3, <1>4, OneNameSafe DEF Invite, r

\* What a task that fires may leave of a name.
FiredLeaves(r, s) ==
  \/ s = [Bare(r) EXCEPT !.row = "quar"]
  \/ \E ok \in BOOLEAN : s \in RevokeOutcome(r, ok)
  \/ \E ok \in BOOLEAN : s \in Protected(r, ok) \cup SpentLast(r, ok)
  \/ ManualOnly(r) /\ \E ok \in BOOLEAN : s \in GivenUp(r, ok)

LEMMA FiredName ==
  ASSUME NEW m \in Names, TaskFires(m)
  PROVE  \E r : h' = [h EXCEPT ![m] = r] /\ FiredLeaves(h[m], r)
<1>1. PICK ok \in BOOLEAN :
        \/ FiresForAbsent(m, ok) \/ FiresForLegacy(m, ok) \/ FiresForPending(m, ok)
        \/ FiresForProtected(m, ok) \/ FiresForDue(m, ok)
  BY DEF TaskFires
<1>2. CASE FiresForAbsent(m, ok) \/ FiresForLegacy(m, ok)
  BY <1>2 DEF FiresForAbsent, FiresForLegacy, Becomes, FiredLeaves
<1>3. CASE FiresForPending(m, ok) \/ FiresForProtected(m, ok)
  BY <1>3 DEF FiresForPending, FiresForProtected, Becomes, FiredLeaves, ManualOnly
<1>4. CASE FiresForDue(m, ok)
  BY <1>4 DEF FiresForDue, Becomes, FiredLeaves
<1> QED
  BY <1>1, <1>2, <1>3, <1>4

\* A task leaves a name in its type, and no account without its row that had one.
LEMMA TaskSafe == UninstallInv /\ (\E n \in Names : TaskFires(n)) => UninstallInv'
<1> SUFFICES ASSUME UninstallInv, NEW n \in Names, TaskFires(n) PROVE UninstallInv'
  OBVIOUS
<1>1. h[n] \in Hosts /\ NamedInv
  BY DEF UninstallInv, TypeOK, SafeInv
<1>2. faults' \in 0 .. MaxFaults
  <2>1. Fine \/ Fault
    BY DEF TaskFires, FineIf
  <2> QED
    BY <2>1, InventoryConstants DEF Fault, Fine, UninstallInv, TypeOK
<1>3. PICK r : h' = [h EXCEPT ![n] = r] /\ FiredLeaves(h[n], r)
  BY FiredName
<1>4. r \in Hosts /\ (r.acct > 0 /\ r.row = "none" => h[n].acct > 0 /\ h[n].row = "none")
  <2>1. CASE r = [Bare(h[n]) EXCEPT !.row = "quar"]
    <3>1. Bare(h[n]) \in Hosts
      BY <1>1, RevokeTypes
    <3> QED
      BY <2>1, <3>1 DEF Hosts, RowStates
  <2>2. CASE \E ok \in BOOLEAN : r \in RevokeOutcome(h[n], ok)
    <3>1. r \in Hosts /\ r.acct \in {h[n].acct, 0} /\ (r.row = "none" => h[n].row = "none" \/ r.acct = 0)
      BY <1>1, <2>2, RevokeTypes, RevokeKeeps
    <3> QED
      BY <3>1
  <2>3. CASE \E ok \in BOOLEAN : r \in Protected(h[n], ok) \cup SpentLast(h[n], ok) \cup GivenUp(h[n], ok)
    BY <1>1, <2>3, SparedName DEF SameIdentity
  <2> QED
    BY <1>3, <2>1, <2>2, <2>3 DEF FiredLeaves
<1> QED
  BY <1>1, <1>2, <1>3, <1>4, OneNameSafe DEF TaskFires, NamedInv, UninstallInv, TypeOK

\* A kill leaves the host as it is.
LEMMA KillSafe == UninstallInv /\ Kill => UninstallInv'
<1> SUFFICES ASSUME UninstallInv, Kill PROVE UninstallInv'
  OBVIOUS
<1> USE DEF UninstallInv
<1>1. op' = IdleOp /\ UNCHANGED <<h, nextId, lost, outside, asked, installed, tomb, stamps, path>> /\ installed
  BY DEF Kill, Stop, footprint, SafeInv, EndingInv
<1>2. faults' \in 0 .. MaxFaults
  BY InventoryConstants DEF Kill, Fault, TypeOK
<1>3. TypeOK'
  BY <1>1, <1>2, RestTypes DEF TypeOK
<1>4. NamedInv' /\ AskedInv'
  BY <1>1 DEF SafeInv, NamedInv, AskedInv
<1> QED
  BY <1>1, <1>3, <1>4, RestSafe

\* Others make no account of the tool's, and what they do to a row is remembered.
LEMMA OthersSafe == UninstallInv /\ Others => UninstallInv'
<1> SUFFICES ASSUME UninstallInv, Others PROVE UninstallInv'
  OBVIOUS
<1> USE DEF UninstallInv
<1>1. h \in [Names -> Hosts] /\ op \in Ops /\ lost \subseteq Names
  BY DEF TypeOK
<1>2. outside' \in 0 .. MaxOutside /\ UNCHANGED <<nextId, faults, asked, installed, tomb, stamps>>
  BY InventoryConstants DEF Others, Outside, TypeOK, footprint
<1>3. /\ op' \in Ops /\ op'.pc = op.pc /\ op'.todo = op.todo /\ op'.view = op.view /\ op'.opts = op.opts
      /\ op'.incomplete = op.incomplete /\ op'.kept = op.kept /\ op'.rc = op.rc
      /\ op'.calm => Idle
  BY <1>1 DEF Others, Disturbed, Ops
<1>4. /\ h' \in [Names -> Hosts] /\ lost' \subseteq Names /\ lost \subseteq lost'
      /\ \A n \in Names : /\ h'[n].sudo = h[n].sudo /\ h'[n].sshd = h[n].sshd /\ h'[n].task = h[n].task
                          /\ h'[n].acct > 0 => h'[n].acct = h[n].acct
                          /\ h'[n].row = h[n].row \/ n \in lost'
  <2>1. CASE UNCHANGED <<h, lost>>
    BY <1>1, <2>1
  <2>2. ASSUME NEW n \in Names, OutsideDelete(n) \/ OutsideCreate(n) \/ Chfn(n) \/ LoseRow(n)
        PROVE  /\ h[n] \in Hosts /\ lost' \subseteq Names /\ lost \subseteq lost'
               /\ \E r \in Hosts :
                    /\ h' = [h EXCEPT ![n] = r]
                    /\ r.sudo = h[n].sudo /\ r.sshd = h[n].sshd /\ r.task = h[n].task
                    /\ r.acct > 0 => r.acct = h[n].acct
                    /\ r.row = h[n].row \/ n \in lost'
    <3>1. h[n] \in Hosts
      BY <1>1
    <3>2. CASE OutsideDelete(n)
      <4> DEFINE r == [h[n] EXCEPT !.acct = 0, !.mark = FALSE]
      <4>1. r \in Hosts /\ h' = [h EXCEPT ![n] = r]
        BY <1>1, <3>1, <3>2, Nothings DEF OutsideDelete, Hosts
      <4>2. /\ r.sudo = h[n].sudo /\ r.sshd = h[n].sshd /\ r.task = h[n].task /\ r.row = h[n].row
            /\ ~(r.acct > 0)
        BY <3>1 DEF Hosts
      <4>3. lost' = lost
        BY <3>2 DEF OutsideDelete
      <4> QED
        BY <1>1, <3>1, <4>1, <4>2, <4>3
    <3>3. CASE OutsideCreate(n)
      <4> DEFINE r == [h[n] EXCEPT !.acct = Other, !.mark = FALSE]
      <4>1. r \in Hosts /\ h' = [h EXCEPT ![n] = r]
        BY <1>1, <3>1, <3>3, Nothings DEF OutsideCreate, Hosts
      <4>2. /\ r.sudo = h[n].sudo /\ r.sshd = h[n].sshd /\ r.task = h[n].task /\ r.row = h[n].row
            /\ ~(r.acct > 0)
        BY <3>1 DEF Hosts, Other
      <4>3. lost' = lost
        BY <3>3 DEF OutsideCreate
      <4> QED
        BY <1>1, <3>1, <4>1, <4>2, <4>3
    <3>4. CASE Chfn(n)
      <4> DEFINE r == [h[n] EXCEPT !.mark = ~@]
      <4>1. r \in Hosts /\ h' = [h EXCEPT ![n] = r]
        BY <1>1, <3>1, <3>4 DEF Chfn, Hosts
      <4> QED
        BY <1>1, <3>1, <3>4, <4>1 DEF Chfn, Hosts
    <3>5. CASE LoseRow(n)
      <4> DEFINE r == [h[n] EXCEPT !.row = "none", !.rid = 0]
      <4>1. r \in Hosts /\ h' = [h EXCEPT ![n] = r]
        BY <1>1, <3>1, <3>5, Nothings DEF LoseRow, Hosts, RowStates
      <4> QED
        BY <1>1, <3>1, <3>5, <4>1 DEF LoseRow, Hosts
    <3> QED
      BY <2>2, <3>2, <3>3, <3>4, <3>5
  <2>3. CASE OutsideStep
    <3>1. PICK n \in Names : OutsideDelete(n) \/ OutsideCreate(n) \/ Chfn(n) \/ LoseRow(n)
      BY <2>3 DEF OutsideStep
    <3> QED
      BY <1>1, <2>2, <3>1
  <2> QED
    BY <2>1, <2>3 DEF Others
<1>5. TypeOK'
  BY <1>2, <1>3, <1>4 DEF TypeOK, Others
<1>6. NamedInv'
  BY <1>4 DEF SafeInv, NamedInv
<1>7. \A n \in Names : Bereft(n) => Bereft(n)'
  BY <1>4 DEF Bereft
<1>8. EndingInv'
  BY <1>2, <1>3, <1>7 DEF SafeInv, EndingInv, Idle
<1>9. AskedInv'
  BY <1>2 DEF SafeInv, AskedInv
<1>10. RevokingInv' /\ SweptInv' /\ PathInv'
  <2>1. op.pc = "revoke" => \A n \in op.todo : h'[n].acct > 0 => h'[n].acct = op.view[n].acct
    BY <1>1, <1>4 DEF SafeInv, RevokingInv, Ops
  <2> QED
    BY <1>3, <2>1 DEF SafeInv, RevokingInv, SweptInv, PathInv, Uninstalling, Idle
<1> QED
  BY <1>5, <1>6, <1>8, <1>9, <1>10 DEF SafeInv

\* Every step of anybody keeps the invariant.
LEMMA UninstallInvStep == UninstallInv /\ [Next]_vars => UninstallInv'
<1> SUFFICES ASSUME UninstallInv, [Next]_vars PROVE UninstallInv'
  OBVIOUS
<1>1. CASE UninstallStep
  BY <1>1, RevokeSafe, ResidualSafe, EndSafe DEF UninstallStep
<1>2. CASE CompactRuns
  BY <1>2, SweepSSHDSafe, SweepSudoSafe, SweepTasksSafe, CompactRowsSafe DEF CompactRuns, CompactStep
<1>3. CASE UNCHANGED vars
  BY <1>3 DEF vars, footprint, UninstallInv, TypeOK, SafeInv, NamedInv, EndingInv, AskedInv, RevokingInv,
              SweptInv, PathInv, Uninstalling, Idle, Bereft
<1> QED
  BY <1>1, <1>2, <1>3, PlanSafe, ProceedSafe, StartCompactSafe, InviteSafe, TaskSafe, KillSafe, OthersSafe
     DEF Next

\* What an uninstall, a compact and the names between two sweeps are sure of, for
\* every set of names, leftovers and options and any number of faults, kills and
\* changes by others.
THEOREM UninstallInvariant == Spec => []UninstallInv
BY UninstallInit, UninstallInvStep, PTL DEF Spec

\* Once the command is gone no grant, no task and no stamp is left that only the
\* command could remove, and an account of the tool's only where its row was lost.
THEOREM NothingEverStranded == Spec => []NothingStranded
<1>1. UninstallInv => NothingStranded
  BY DEF UninstallInv, SafeInv, EndingInv, Bereft, NothingStranded
<1> QED
  BY <1>1, UninstallInvariant, PTL

-----------------------------------------------------------------------------
(* What a step may do.                                                        *)

\* Every change by somebody else is counted.
LEMMA OthersCounted ==
  ASSUME UninstallInv, outside' = outside
  PROVE  ~Others
<1>1. outside \in 0 .. MaxOutside
  BY DEF UninstallInv, TypeOK
<1> QED
  BY <1>1, InventoryConstants DEF Others, Outside

\* A step that uninstall does not take while it holds the lock leaves the host as
\* it is, or is somebody else's.
LEMMA OnlyUninstallActs ==
  ASSUME UninstallInv, [Next]_vars, Uninstalling, outside' = outside
  PROVE  UninstallStep \/ h' = h
<1>1. ~Others
  BY OthersCounted
<1>2. CASE CompactRuns
  BY <1>2 DEF CompactRuns, CompactStep, SweepSSHD, SweepSudo, SweepTasks, CompactRows, Uninstalling
<1>3. CASE \E n \in Names : Invite(n) \/ TaskFires(n)
  BY <1>3 DEF Invite, TaskFires, Open, Idle, Uninstalling
<1> QED
  BY <1>1, <1>2, <1>3 DEF Next, Plan, Proceed, StartCompact, Kill, vars

\* The steps of uninstall that are no revoke change rows only, and only on a host
\* on which nothing is left.
LEMMA EndsKeepAccounts ==
  ASSUME UninstallInv, NEW n \in Names,
         Residual \/ CleanupTimerStamps \/ MarkUninstalled \/ RemoveStateDir \/ RemoveCommand
  PROVE  /\ h'[n].acct = h[n].acct /\ h'[n].sudo = h[n].sudo
         /\ h'[n].sshd = h[n].sshd /\ h'[n].task = h[n].task
         /\ h'[n] # h[n] => Bereft(n)
<1>1. CASE RemoveStateDir
  <2>1. h[n] \in Hosts /\ Bereft(n)
    BY <1>1 DEF RemoveStateDir, UninstallInv, TypeOK, SafeInv, EndingInv
  <2>2. NoState[n] = [h[n] EXCEPT !.row = "none", !.rid = 0, !.v1 = FALSE] /\ h' \in {h, NoState}
    BY <1>1 DEF RemoveStateDir, NoState
  <2>3. CASE h' = h
    BY <2>3
  <2>4. CASE h' = NoState
    BY <2>1, <2>2, <2>4 DEF Hosts
  <2> QED
    BY <2>2, <2>3, <2>4
<1>2. CASE Residual \/ CleanupTimerStamps \/ MarkUninstalled \/ RemoveCommand
  BY <1>2 DEF Residual, CleanupTimerStamps, MarkUninstalled, RemoveCommand
<1> QED
  BY <1>1, <1>2

\* What a revoke of uninstall leaves of one name of the plan.
LEMMA RevokedName ==
  ASSUME UninstallInv, NEW m \in Names, RevokeAccount(m), NEW n \in Names, h'[n] # h[n]
  PROVE  /\ n = m /\ op.pc = "revoke" /\ n \in op.todo /\ h[n] \in Hosts
         /\ Live(h[n]) => CompletedIdentity(h[n])
         /\ Live(op.view[n]) => op.view[n].row # "none"
         /\ \E ok \in BOOLEAN : h'[n] \in RevokeOutcome(h[n], ok)
<1>1. h \in [Names -> Hosts] /\ op.pc = "revoke" /\ m \in op.todo
  BY DEF UninstallInv, TypeOK, RevokeAccount
<1>2. /\ \E ok \in BOOLEAN : \E r \in RevokeOutcome(h[m], ok) : h' = [h EXCEPT ![m] = r]
      /\ Live(h[m]) => CompletedIdentity(h[m])
      /\ Live(op.view[m]) => op.view[m].row # "none"
  BY DEF RevokeAccount
<1>3. PICK ok \in BOOLEAN : \E r \in RevokeOutcome(h[m], ok) : h' = [h EXCEPT ![m] = r]
  BY <1>2
<1>4. n = m /\ h'[n] \in RevokeOutcome(h[m], ok)
  BY <1>1, <1>3
<1> QED
  BY <1>1, <1>2, <1>4

\* Uninstall deletes the account the operator saw when the plan was confirmed,
\* bound by its row, and no other.
THEOREM DeletesOnlyTheConfirmed == Spec => DeletesOnlyConfirmed
<1>1. ASSUME UninstallInv, [Next]_vars, NEW n \in Names,
             Uninstalling, Live(h[n]), ~Live(h'[n]), outside' = outside
      PROVE  h[n].acct > 0 /\ h[n].acct = op.view[n].acct /\ op.view[n].row # "none"
  <2>1. h'[n].acct # h[n].acct
    BY <1>1 DEF Live
  <2>2. PICK m \in Names : RevokeAccount(m)
    BY <1>1, <2>1, OnlyUninstallActs, EndsKeepAccounts DEF UninstallStep
  <2>3. /\ op.pc = "revoke" /\ n \in op.todo /\ h[n] \in Hosts
        /\ CompletedIdentity(h[n]) /\ (Live(op.view[n]) => op.view[n].row # "none")
    BY <1>1, <2>1, <2>2, RevokedName
  <2>4. h[n].acct > 0
    BY <1>1, <2>3, CompletedNamed
  <2>5. h[n].acct = op.view[n].acct
    BY <1>1, <2>3, <2>4 DEF UninstallInv, SafeInv, RevokingInv
  <2> QED
    BY <2>3, <2>4, <2>5 DEF Live
<1>2. UninstallInv /\ [Next]_vars =>
        \A n \in Names :
          Uninstalling /\ Live(h[n]) /\ ~Live(h'[n]) /\ outside' = outside =>
            h[n].acct > 0 /\ h[n].acct = op.view[n].acct /\ op.view[n].row # "none"
  BY <1>1
<1> QED
  BY <1>2, UninstallInvariant, PTL DEF Spec, DeletesOnlyConfirmed

\* An uninstall that was allowed to start and that nothing fails, kills or changes
\* under its hands ends with the command removed.
THEOREM AuthorizedUninstallAlwaysFinishes == Spec => AuthorizedUninstallFinishes
<1>1. ASSUME UninstallInv, [Next]_vars, Uninstalling, op'.pc = "idle", installed'
      PROVE  ~op.calm \/ ~op.smooth \/ faults' # faults
  <2> SUFFICES ASSUME op.calm, op.smooth, faults' = faults PROVE FALSE
    OBVIOUS
  <2> USE DEF UninstallInv
  <2>1. op \in Ops /\ faults \in Nat /\ h \in [Names -> Hosts]
    BY <1>1, InventoryConstants DEF TypeOK
  <2>2. ~Fault
    BY <2>1 DEF Fault
  <2>3. ~Blocked(op.opts)
    BY <1>1 DEF SafeInv, PathInv, PathFits, Blocked
  <2>4. ~Residual
    <3>1. ASSUME Residual, NEW n \in Names, Listed(h[n]), Blocks(h[n])
          PROVE  Ignored(h[n], op.opts)
      BY <1>1, <3>1 DEF Residual, SafeInv, RevokingInv
    <3>2. Residual => ~op.failed /\ op.pc = "revoke"
      BY <1>1 DEF Residual, SafeInv, RevokingInv
    <3>3. Residual => Goto("stamps")
      BY <2>2, <2>3, <3>1, <3>2 DEF Residual
    <3> QED
      BY <1>1, <2>1, <3>3 DEF Goto, Ops
  <2>5. ~RemoveCommand
    BY <1>1, <2>2, <2>3 DEF RemoveCommand
  <2>6. ~CleanupTimerStamps /\ ~MarkUninstalled /\ ~RemoveStateDir
    BY <1>1, <2>1, <2>2 DEF CleanupTimerStamps, MarkUninstalled, RemoveStateDir, Goto, Ops
  <2>7. ~\E n \in Names : RevokeAccount(n)
    <3> SUFFICES ASSUME NEW n \in Names, RevokeAccount(n) PROVE FALSE
      OBVIOUS
    <3>1. op.pc = "revoke"
      BY DEF RevokeAccount
    <3>2. op'.pc = op.pc
      BY <2>1, ZenonT(40) DEF RevokeAccount, Ops
    <3> QED
      BY <1>1, <3>1, <3>2
  <2>8. ~Kill /\ ~Others
    BY <1>1, <2>1, <2>2 DEF Kill, Others, Disturbed, Ops, Uninstalling, Idle
  <2>9. ~CompactRuns /\ ~Proceed /\ ~StartCompact /\ ~\E n \in Names : Invite(n) \/ TaskFires(n)
    BY <1>1 DEF CompactRuns, CompactStep, SweepSSHD, SweepSudo, SweepTasks, CompactRows, Uninstalling,
                Proceed, StartCompact, Invite, TaskFires, Open, Idle
  <2>10. ~(\E o \in OptionSets : Plan(o)) /\ ~UNCHANGED vars
    BY <1>1 DEF Plan, vars, Uninstalling
  <2> QED
    BY <1>1, <2>4, <2>5, <2>6, <2>7, <2>8, <2>9, <2>10 DEF Next, UninstallStep
<1>2. UninstallInv /\ [Next]_vars =>
        (Uninstalling /\ op'.pc = "idle" /\ installed' =>
           ~op.calm \/ ~op.smooth \/ faults' # faults)
  BY <1>1
<1> QED
  BY <1>2, UninstallInvariant, PTL DEF Spec, AuthorizedUninstallFinishes

\* Without the exception neither of them gives up a task before the grants, or the
\* row before either.
LEMMA NameTakenApart ==
  ASSUME NEW r \in Hosts, NEW s, FiredLeaves(r, s)
  PROVE  \/ /\ r.task /\ ~s.task => ~s.sudo /\ ~s.sshd
            /\ r.row # "none" /\ s.row = "none" => ~s.sudo /\ ~s.sshd /\ ~s.task
         \/ ManualOnly(r) /\ ManualOnly(s) /\ s.row # "none"
<1>1. CASE s = [Bare(r) EXCEPT !.row = "quar"]
  BY <1>1 DEF Bare, Hosts
<1>2. CASE \E ok \in BOOLEAN : s \in RevokeOutcome(r, ok)
  BY <1>2, RevokeKeeps
<1>3. CASE \E ok \in BOOLEAN : s \in Protected(r, ok) \cup SpentLast(r, ok)
  <2>1. SameIdentity(r, s)
    BY <1>3, SparedName
  <2>2. CASE s \in Stripped(r) \cup {Bare(r)}
    BY <2>1, <2>2, StrippedName DEF SameIdentity
  <2>3. CASE s = NoTaskLeft(r)
    BY <2>1, <2>3 DEF NoTaskLeft, Bare, Hosts, SameIdentity
  <2> QED
    BY <1>3, <2>2, <2>3 DEF Protected, SpentLast
<1>4. CASE ManualOnly(r) /\ \E ok \in BOOLEAN : s \in GivenUp(r, ok)
  BY <1>4, SparedName, StaysManual
<1> QED
  BY <1>1, <1>2, <1>3, <1>4 DEF FiredLeaves

\* What a step of somebody else's that is no change from outside does to a name.
LEMMA NameChanges ==
  ASSUME UninstallInv, [Next]_vars, NEW n \in Names, h'[n] # h[n]
  PROVE  \/ /\ h[n].task /\ ~h'[n].task => ~h'[n].sudo /\ ~h'[n].sshd
            /\ h[n].row # "none" /\ h'[n].row = "none" => ~h'[n].sudo /\ ~h'[n].sshd /\ ~h'[n].task
         \/ Idle /\ ManualOnly(h[n]) /\ ManualOnly(h'[n]) /\ h'[n].row # "none"
         \/ CompactRuns \/ Others
<1>1. CASE \E m \in Names : RevokeAccount(m)
  BY <1>1, RevokedName, RevokeKeeps
<1>2. CASE \E m \in Names : TaskFires(m)
  <2>1. PICK m \in Names : TaskFires(m)
    BY <1>2
  <2>2. PICK r : h' = [h EXCEPT ![m] = r] /\ FiredLeaves(h[m], r)
    BY <2>1, FiredName
  <2>3. h \in [Names -> Hosts] /\ Idle
    BY <2>1 DEF UninstallInv, TypeOK, TaskFires, Open
  <2>4. n = m /\ h'[n] = r /\ h[n] \in Hosts
    BY <2>2, <2>3
  <2> QED
    BY <2>2, <2>3, <2>4, NameTakenApart
<1>3. CASE Residual \/ CleanupTimerStamps \/ MarkUninstalled \/ RemoveStateDir \/ RemoveCommand
  BY <1>3, EndsKeepAccounts DEF Bereft
<1>4. CASE \E m \in Names : Invite(m)
  <2>1. PICK m \in Names : Invite(m)
    BY <1>4
  <2>2. n = m /\ h[n] = Nothing
    BY <2>1 DEF Invite, UninstallInv, TypeOK
  <2> QED
    BY <2>2 DEF Nothing
<1> QED
  BY <1>1, <1>2, <1>3, <1>4 DEF Next, UninstallStep, Plan, Proceed, StartCompact, Kill, vars

\* What compact does to a name: a grant goes alone; a task goes where no grant of
\* anybody's is left, a row where nothing is.
LEMMA CompactedName ==
  ASSUME UninstallInv, CompactRuns, op.calm, NEW n \in Names
  PROVE  /\ h[n].task /\ ~h'[n].task => ~h'[n].sudo /\ ~h'[n].sshd
         /\ h[n].row # "none" /\ h'[n].row = "none" => ~h'[n].sudo /\ ~h'[n].sshd /\ ~h'[n].task
<1> USE DEF UninstallInv
<1>1. TypeOK /\ SweptInv /\ op \in Ops /\ h[n] \in Hosts
  BY DEF TypeOK, SafeInv
<1>2. CASE SweepSSHD
  <2>1. h' = h \/ \E S : NoSSHD(S)
    BY <1>2 DEF SweepSSHD
  <2> QED
    BY <1>1, <2>1, SSHDDropped DEF SameIdentity
<1>3. CASE SweepSudo
  <2>1. h' = h \/ \E S : NoSudo(S)
    BY <1>3 DEF SweepSudo
  <2> QED
    BY <1>1, <2>1, SudoDropped DEF SameIdentity
<1>4. CASE SweepTasks
  <2>1. CASE h' = h
    BY <2>1
  <2>2. CASE h' # h
    <3> DEFINE orphans == {m \in Names : h[m].task /\ ~NeedsAutoRevoke(h[m])}
               sure == IF op.incomplete THEN {} ELSE orphans \ op.kept
    <3>1. PICK S \in SUBSET sure : NoTask(S)
      <4>1. PICK failed \in SUBSET sure : \E gone \in SUBSET failed : NoTask((sure \ failed) \cup gone)
        BY <1>4, <2>2 DEF SweepTasks
      <4> QED
        BY <4>1
    <3>2. /\ SameIdentity(h[n], h'[n]) /\ h'[n].sudo = h[n].sudo /\ h'[n].sshd = h[n].sshd
          /\ h'[n].task = (h[n].task /\ n \notin S)
      BY <1>1, <3>1, TaskDropped
    <3>3. h[n].task /\ ~h'[n].task => ~op.incomplete /\ n \in orphans \ op.kept
      BY <3>1, <3>2
    <3>4. h[n].task /\ ~h'[n].task => ~OursAndLive(h[n])
      BY <3>3, OursNeedsTask
    <3>5. h[n].task /\ ~h'[n].task => ~h[n].sudo /\ ~h[n].sshd
      BY <1>1, <1>4, <3>3, <3>4 DEF SweepTasks, SweptInv
    <3> QED
      BY <3>2, <3>5 DEF SameIdentity
  <2> QED
    BY <2>1, <2>2
<1>5. CASE CompactRows
  <2> DEFINE compacted == [m \in Names |-> IF Classify(h[m]) = "missing"
                                         THEN [h[m] EXCEPT !.row = "none", !.rid = 0] ELSE h[m]]
  <2>1. op.pc = "rows" /\ (h' = h \/ (op.rc = 0 /\ h' = compacted))
    BY <1>5 DEF CompactRows
  <2>2. CASE h'[n] = h[n]
    BY <2>2
  <2>3. CASE /\ op.rc = 0 /\ Classify(h[n]) = "missing"
             /\ h'[n] = [h[n] EXCEPT !.row = "none", !.rid = 0]
    <3>1. ~OursAndLive(h[n]) /\ ~NeedsAutoRevoke(h[n])
      BY <2>3 DEF OursAndLive, NeedsAutoRevoke
    <3>2. ~h[n].sudo /\ ~h[n].sshd /\ ~h[n].task
      BY <1>1, <2>1, <2>3, <3>1 DEF SweptInv
    <3> QED
      BY <1>1, <2>3, <3>2 DEF Hosts
  <2> QED
    BY <2>1, <2>2, <2>3
<1> QED
  BY <1>2, <1>3, <1>4, <1>5 DEF CompactRuns, CompactStep

\* A task is given up only with the grants it would have removed, by uninstall, by
\* a task and by compact, whatever fails; or by a task that fires on an account which
\* stays with its row for an operator, and for compact to sweep.
THEOREM GrantAlwaysKeepsTaskOrRow == Spec => GrantKeepsTaskOrRow
<1>1. ASSUME UninstallInv, [Next]_vars, NEW n \in Names, h[n].task, ~h'[n].task, op.calm
      PROVE  \/ ~h'[n].sudo /\ ~h'[n].sshd
             \/ Idle /\ ManualOnly(h[n]) /\ ManualOnly(h'[n])
  <2>1. ~Others
    <3> SUFFICES ASSUME Others PROVE FALSE
      OBVIOUS
    <3>1. h \in [Names -> Hosts] /\ h[n] \in Hosts
      BY <1>1 DEF UninstallInv, TypeOK
    <3>2. PICK m \in Names : OutsideDelete(m) \/ OutsideCreate(m) \/ Chfn(m) \/ LoseRow(m)
      BY <1>1 DEF Others, OutsideStep
    <3> QED
      BY <1>1, <3>1, <3>2 DEF OutsideDelete, OutsideCreate, Chfn, LoseRow, Hosts
  <2> QED
    BY <1>1, <2>1, NameChanges, CompactedName
<1>2. UninstallInv /\ [Next]_vars =>
        \A n \in Names :
          h[n].task /\ ~h'[n].task /\ op.calm =>
            \/ ~h'[n].sudo /\ ~h'[n].sshd
            \/ Idle /\ ManualOnly(h[n]) /\ ManualOnly(h'[n])
  BY <1>1
<1> QED
  BY <1>2, UninstallInvariant, PTL DEF Spec, GrantKeepsTaskOrRow

\* When uninstall, a task or compact drops a row no grant and no task of that name
\* is left.
THEOREM RowAlwaysNamesWhatIsLeft == Spec => RowNamesWhatIsLeft
<1>1. ASSUME UninstallInv, [Next]_vars, NEW n \in Names,
             h[n].row # "none", h'[n].row = "none", op.calm, outside' = outside
      PROVE  ~h'[n].sudo /\ ~h'[n].sshd /\ ~h'[n].task
  <2>1. ~Others
    <3>1. outside \in 0 .. MaxOutside
      BY <1>1 DEF UninstallInv, TypeOK
    <3> QED
      BY <1>1, <3>1, InventoryConstants DEF Others, Outside
  <2> QED
    BY <1>1, <2>1, NameChanges, CompactedName
<1>2. UninstallInv /\ [Next]_vars =>
        \A n \in Names :
          h[n].row # "none" /\ h'[n].row = "none" /\ op.calm /\ outside' = outside
            => ~h'[n].sudo /\ ~h'[n].sshd /\ ~h'[n].task
  BY <1>1
<1> QED
  BY <1>2, UninstallInvariant, PTL DEF Spec, RowNamesWhatIsLeft

=============================================================================
