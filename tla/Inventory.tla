----------------------------- MODULE Inventory -----------------------------
(***************************************************************************)
(* What this tool has left on a host, name by name, and how uninstall and  *)
(* compact read it.                                                        *)
(*                                                                         *)
(* An account is named by up to six witnesses that can disagree: its       *)
(* registry row, a row of the shell release (v1), the sudoers and sshd     *)
(* drop-ins, its scheduled tasks and the GECOS marker.  Modules Invite and *)
(* Revoke take one name apart step by step; here a revoke of one name is a *)
(* step with every state it can stop in, and the question is what a sweep  *)
(* over all names may conclude from witnesses that get lost, are forged    *)
(* with chfn, or change while it runs.                                     *)
(***************************************************************************)
EXTENDS Integers, FiniteSets

CONSTANTS
  Names,       \* usernames
  MaxId,       \* account identities (UID and generation) ever handed out
  MaxFaults,   \* helper failures and killed processes
  MaxOutside   \* changes made to the host outside this tool

ASSUME InventoryConstants ==
  /\ IsFiniteSet(Names) /\ MaxId \in Nat \ {0}
  /\ MaxFaults \in Nat /\ MaxOutside \in Nat

VARIABLES
  h,          \* what each name has on the host
  nextId,     \* the identity the next invite gets
  lost,       \* names whose row was lost outside this tool
  op,         \* the sweep holding the lifecycle lock
  faults, outside

Other == -1   \* the identity of an account this tool did not create

\* row: none; active, a completed generation-bound row; pending, a creation
\* intent; quar and bound, deletion rows bound to the generation; uidonly, one
\* that is not; legacy, a migrated v2 row with a UID and the fixed marker.
RowStates == {"none", "active", "pending", "quar", "bound", "uidonly", "legacy"}
Hosts == [acct : Other .. MaxId,   \* the passwd entry, 0 when there is none
          mark : BOOLEAN,          \* it carries the marker of its identity
          row : RowStates, rid : 0 .. MaxId,
          v1 : BOOLEAN, sudo : BOOLEAN, sshd : BOOLEAN,
          task : BOOLEAN]                \* a systemd task: firing does not use it up
Nothing == [acct |-> 0, mark |-> FALSE, row |-> "none", rid |-> 0,
            v1 |-> FALSE, sudo |-> FALSE, sshd |-> FALSE, task |-> FALSE]

Live(r) == r.acct # 0

-----------------------------------------------------------------------------
(* Classification.                                                            *)

\* deletionRecordMatchesPasswd, MatchesManagedGeneration: UID and marker of one
\* passwd snapshot are the row's.
Matches(r) == r.acct > 0 /\ r.acct = r.rid /\ r.mark

Retired(r) == r.row \in {"quar", "bound", "uidonly"}

\* classifyRegisteredAccount
Classify(r) ==
  IF r.row = "none" THEN "unregistered"
  ELSE IF ~Live(r) THEN IF Retired(r) THEN "recoveryAbsent" ELSE "missing"
  ELSE CASE r.row = "quar" /\ Matches(r) -> "quarantine"
         [] r.row = "bound" /\ Matches(r) -> "recoveryBound"
         [] Retired(r) /\ (r.row = "uidonly" \/ ~Matches(r)) -> "recoveryManual"
         [] r.row = "pending" -> "pending"
         [] r.row \in {"legacy", "active"} /\ ~Matches(r) -> "mismatch"
         [] r.row = "legacy" /\ Matches(r) -> "legacy"
         [] OTHER -> "active"

\* accountIsOursAndLive: whose name-scoped grants the sweeps leave alone.
OursAndLive(r) == Classify(r) \in {"active", "quarantine", "legacy"}

\* Mutant: the task of a legacy account is swept while its grants are kept.
NeedsAutoRevokeUnlessLegacy(r) ==
  Classify(r) \in {"active", "quarantine", "recoveryAbsent", "recoveryBound"}

\* accountNeedsAutoRevoke: whose task is not stale.
NeedsAutoRevoke(r) ==
  Classify(r) \in {"active", "quarantine", "legacy", "recoveryAbsent", "recoveryBound"}

\* completedAccountIdentity, liveTeardownAccountAuthorized: which live accounts a
\* bulk deletion may touch.
CompletedIdentity(r) == Classify(r) \in {"active", "quarantine", "recoveryBound"}

-----------------------------------------------------------------------------
(* Witnesses.                                                                 *)

\* LifecycleMarkerAccounts: a marker is seen on whichever account carries it.
NamedByMarker(r) == Live(r) /\ r.mark

\* v1RegistryUsers: the names in the registry of the shell release.
NamedByV1(r) == r.v1

\* Mutant: the inventory is what the registry lists.
WitnessesInRegistry(r) == IF r.row # "none" THEN {"registry"} ELSE {}

\* teardownPlan: the places that name an account, each of which may be the last.
Witnesses(r) ==
  {w \in {"registry", "v1", "sudoers", "sshd", "unit", "marker"} :
     CASE w = "registry" -> r.row # "none"
       [] w = "v1" -> NamedByV1(r)
       [] w = "sudoers" -> r.sudo
       [] w = "sshd" -> r.sshd
       [] w = "unit" -> r.task
       [] w = "marker" -> NamedByMarker(r)}
Listed(r) == Witnesses(r) # {}

\* hasArtifactWitness: a live loosening of policy, as opposed to a record.
Artifact(r) == Witnesses(r) \cap {"sudoers", "sshd", "unit"} # {}

\* markerOnlyForeignAccount: the one witness a user can forge.
MarkerOnly(r) == Witnesses(r) = {"marker"}

-----------------------------------------------------------------------------
(* Revoking one name, seen from outside.                                      *)

Fine == UNCHANGED faults
Fault == faults < MaxFaults /\ faults' = faults + 1

\* What revoke leaves when it stops early, in its order: the grants, by name; the
\* deletion row; the account; the tasks; the row.  Module Revoke shows the order.
Stripped(r) == {[r EXCEPT !.sudo = s, !.sshd = d] :
                  s \in {r.sudo, FALSE}, d \in {r.sshd, FALSE}}
Bare(r) == [r EXCEPT !.sudo = FALSE, !.sshd = FALSE]
Marked(r) ==
  CASE r.row = "active" -> [Bare(r) EXCEPT !.row = "bound"]
    [] r.row = "none" -> [Bare(r) EXCEPT !.row = "uidonly"]
    [] OTHER -> Bare(r)
Deleted(r) == [Marked(r) EXCEPT !.acct = 0, !.mark = FALSE]
Cancelled(r) == [Deleted(r) EXCEPT !.task = FALSE]
Released(r) == [Cancelled(r) EXCEPT !.row = "none", !.rid = 0]
RevokeStops(r) ==
  Stripped(r) \cup (IF Live(r) THEN {Marked(r), Deleted(r), Cancelled(r)}
                    ELSE {[Bare(r) EXCEPT !.task = t] : t \in {r.task, FALSE}})

\* revokeLocked on an account it may delete, or on the leftovers of one.
RevokeOutcome(r, ok) == IF ok THEN {Released(r)} ELSE RevokeStops(r)

\* A revoke that may not delete the account strips its grants all the same, and
\* keeps the account, the row and the task;
Protected(r, ok) == IF ok THEN {Bare(r)} ELSE Stripped(r)

\* or cancels the task too, whether or not the grants could be removed;
NoTaskLeft(r) == [Bare(r) EXCEPT !.task = FALSE]
GivenUp(r, ok) ==
  IF ok THEN {NoTaskLeft(r)}
  ELSE {[s EXCEPT !.task = t] : s \in Stripped(r), t \in {r.task, FALSE}}

\* or only once they are.
SpentLast(r, ok) == IF ok THEN {NoTaskLeft(r)} ELSE Stripped(r) \cup {NoTaskLeft(r)}

-----------------------------------------------------------------------------
(* The running sweep.                                                         *)

Options == [ignore : BOOLEAN, force : BOOLEAN]

\* compact keeps incomplete, kept and rc; uninstall its options, the inventory
\* the operator confirmed and the revokes that failed.  calm holds until
\* somebody else changes the host, smooth until a revoke fails by itself.
PCs == {"idle", "sshd", "sudo", "tasks", "rows",
        "revoke", "stamps", "mark", "state", "command"}
Ops == [pc : PCs, calm : BOOLEAN, smooth : BOOLEAN, incomplete : BOOLEAN, kept : SUBSET Names,
        rc : {0, 1}, opts : Options, view : [Names -> Hosts], todo : SUBSET Names, failed : BOOLEAN]
NoOpts == [ignore |-> FALSE, force |-> FALSE]
IdleOp == [pc |-> "idle", calm |-> TRUE, smooth |-> TRUE, incomplete |-> FALSE, kept |-> {},
           rc |-> 0, opts |-> NoOpts, view |-> [n \in Names |-> Nothing], todo |-> {}, failed |-> FALSE]

Idle == op.pc = "idle"

-----------------------------------------------------------------------------
(* Other people.  The lock does not keep them out.                            *)

OutsideDelete(n) == Live(h[n]) /\ h' = [h EXCEPT ![n].acct = 0, ![n].mark = FALSE] /\ UNCHANGED lost
OutsideCreate(n) ==
  ~Live(h[n]) /\ h' = [h EXCEPT ![n].acct = Other, ![n].mark = FALSE] /\ UNCHANGED lost

\* GECOS is edited: any user can forge the fixed marker, or erase its own.
Chfn(n) == Live(h[n]) /\ h' = [h EXCEPT ![n].mark = ~@] /\ UNCHANGED lost

\* The registry is restored from an old copy, edited or truncated.
LoseRow(n) ==
  /\ h[n].row # "none" /\ h' = [h EXCEPT ![n].row = "none", ![n].rid = 0]
  /\ lost' = lost \cup {n}

OutsideStep == \E n \in Names : OutsideDelete(n) \/ OutsideCreate(n) \/ Chfn(n) \/ LoseRow(n)
Outside == outside < MaxOutside /\ outside' = outside + 1
Disturbed == op' = IF Idle THEN op ELSE [op EXCEPT !.calm = FALSE]
=============================================================================
