--------------------------- MODULE SchedulerProofs ---------------------------
(***************************************************************************)
(* Proofs about Scheduler: its invariants and what it never does to the    *)
(* jobs of others, for any number of at ids, tasks, failed calls, kills    *)
(* and reboots.  The inductive invariant SchedulerInv says of a call, at   *)
(* each place it can be stopped at, what it has already done to the unit   *)
(* files, to the state of the manager and to the at queue.                 *)
(***************************************************************************)
EXTENDS Scheduler, TLAPS

Kinds == {"none", "schedule", "scheduleQuarantine", "cancel", "cancelAuto", "cancelQuarantine"}
Schedules == {"schedule", "scheduleQuarantine"}
Cancels == {"cancel", "cancelAuto", "cancelQuarantine"}

Left(s) == {s[i] : i \in DOMAIN s}

\* The name spaces a call of one kind may still have before it.
Ahead(k) == CASE k = "none" -> {<<>>}
              [] k = "schedule" -> {<<"auto">>}
              [] k = "scheduleQuarantine" -> {<<"quarantine">>}
              [] k = "cancel" -> {<<"auto", "v1", "quarantine">>, <<"v1", "quarantine">>,
                                  <<"quarantine">>, <<>>}
              [] k = "cancelAuto" -> {<<"auto", "v1">>, <<"v1">>, <<>>}
              [] k = "cancelQuarantine" -> {<<"quarantine">>, <<>>}
Rests == UNION {Ahead(k) : k \in Kinds}

UnitType == [Namespaces -> [svc : Contents, tmr : Contents, link : BOOLEAN, stamp : Contents]]
MgrType == [Namespaces -> [phase : Phases, svc : Contents, tmr : Contents]]
QueueType == [AtIds -> [owner : {"none", "root", "user"}, cmd : Contents]]
Ids == {"none", "unit"} \cup AtIds
RecType == [auto : Ids, quarantine : {"none", "unit"}]
PromiseType == [{"auto", "quarantine", "at"} -> Contents]
LeftType == [tasks : 0..Tasks, faults : 0..Faults, others : 0..Others]
OpType == [pc : Pcs, kind : Kinds, task : Contents, rec : Ids, ns : Rests,
           clean : SUBSET (Namespaces \cup {"at"}), enabled : BOOLEAN, todo : SUBSET AtIds,
           id : Ids, err : BOOLEAN]

Typed ==
  /\ unit \in UnitType
  /\ mgr \in MgrType
  /\ sysd \in BOOLEAN
  /\ queue \in QueueType
  /\ at \in {"none", "partial", "full"}
  /\ rec \in RecType
  /\ op \in OpType
  /\ gone \subseteq Namespaces \cup {"at"}
  /\ promise \in PromiseType
  /\ left \in LeftType

\* Which calls come to a place.
KindAt(pc) ==
  CASE pc = "idle" -> {"none"}
    [] pc \in {"service", "timer", "reload", "enable", "finish", "commit"} -> Schedules
    [] pc = "submit" -> {"schedule"}
    [] pc = "units" -> Cancels
    [] pc = "inventory" -> {"schedule"} \cup Cancels
    [] pc \in {"reread", "atrm"} -> {"schedule", "cancel", "cancelAuto"}
    [] OTHER -> Schedules \cup Cancels

\* Where a call talks to systemd about its first name space.
OnUnits == {"service", "timer", "reload", "enable", "disable", "stop", "stamp", "rmtimer",
            "rmservice", "finish"}

Issued == Tasks - left.tasks        \* the number of the last task
Dead(n) == mgr[n].phase = "dead"
Clear(n) == Dead(n) /\ unit[n].tmr = 0 /\ unit[n].svc = 0
NoOwn == \A id \in AtIds : ~Own(queue[id])

Flow ==
  /\ op.kind \in KindAt(op.pc)
  /\ op.ns \in Ahead(op.kind)
  /\ op.pc \in OnUnits => sysd /\ op.ns # <<>>
  /\ op.kind \in Schedules => op.task = Issued /\ op.task # 0
  /\ op.pc = "commit" /\ op.kind = "scheduleQuarantine" => op.id = "unit"
  /\ ~sysd => \A n \in Namespaces : mgr[n] = Unloaded

\* What a cancellation answered for is clear, and a schedule works elsewhere.
GoneInv ==
  /\ \A n \in gone \cap Namespaces : Clear(n)
  /\ "at" \in gone => NoOwn
  /\ op.kind = "schedule" => "auto" \notin gone /\ "at" \notin gone
  /\ op.kind = "scheduleQuarantine" => "quarantine" \notin gone

\* A queued task is not the one of the expiry timer; and a schedule comes to the
\* queue, if it does, with its timer dead and its timer file gone.
BackendInv ==
  /\ \A id \in AtIds : Own(queue[id]) =>
       /\ unit["auto"].tmr # queue[id].cmd
       /\ mgr["auto"].tmr # queue[id].cmd \/ Dead("auto")
       /\ queue[id].cmd \in 1..Issued \cup {Legacy}
  /\ op.kind = "schedule" =>
       /\ op.pc \notin {"inventory", "reread", "atrm", "commit"} =>
            \A id \in AtIds : Own(queue[id]) => queue[id].cmd # op.task
       /\ op.pc \in {"service", "timer", "reload", "enable", "stamp", "rmtimer", "rmservice",
                     "finish", "submit"} => Dead("auto")
       /\ op.pc \in {"service", "timer", "submit"} => unit["auto"].tmr = 0
       /\ op.pc \in {"rmservice", "finish"} /\ ~op.err => unit["auto"].tmr = 0

\* A promised task is armed, and nobody works on the place it was promised at.
Standing(n) ==
  /\ unit[n].svc = promise[n] /\ unit[n].tmr = promise[n] /\ unit[n].link
  /\ sysd => ~Dead(n) /\ mgr[n].svc = promise[n] /\ mgr[n].tmr = promise[n]
PromiseInv ==
  /\ \A n \in {"auto", "quarantine"} : promise[n] # 0 => Standing(n)
  /\ promise["at"] # 0 => \E id \in AtIds : Own(queue[id]) /\ queue[id].cmd = promise["at"]
  /\ op.pc # "commit" =>
       /\ \A n \in Left(op.ns) \cap {"auto", "quarantine"} : promise[n] = 0
       /\ op.kind \in {"schedule", "cancel", "cancelAuto"} => promise["at"] = 0

\* How far a schedule has come.
FilesInv ==
  /\ op.pc \in {"timer", "reload", "enable"} => unit[N].svc = op.task
  /\ op.pc \in {"reload", "enable"} => unit[N].tmr = op.task
  /\ op.pc = "enable" => mgr[N].svc = op.task /\ mgr[N].tmr = op.task

\* The job atrm is about to remove is a task, or has just run.
AtInv ==
  op.pc = "atrm" => op.id \in AtIds /\ (queue[op.id] = Free \/ Own(queue[op.id]))

\* How far a cancellation without an error has come, in the name spaces and in at.
CancelInv ==
  Cancelling /\ ~op.err =>
    /\ \A n \in (op.clean \cap Namespaces) \ Left(op.ns) : Clear(n)
    /\ op.pc \in {"stamp", "rmtimer", "rmservice"} => Dead(N)
    /\ op.pc = "rmservice" => unit[N].tmr = 0
CancelAtInv ==
  Cancelling /\ ~op.err /\ "at" \in op.clean =>
    /\ at # "none" /\ op.kind # "cancelQuarantine"
    /\ op.pc \in {"reread", "atrm"} => \A id \in AtIds : Own(queue[id]) => id \in op.todo
    /\ op.pc \notin {"inventory", "reread", "atrm"} => NoOwn

SchedulerInv ==
  /\ Typed /\ Flow
  /\ GoneInv /\ BackendInv
  /\ PromiseInv /\ FilesInv /\ AtInv
  /\ CancelInv /\ CancelAtInv

-----------------------------------------------------------------------------
(* The name spaces before a call, and what systemd does.                      *)

\* A call that has a name space before it: which one, and what is behind it.
LEMMA RestFacts ==
  ASSUME NEW k \in Kinds, NEW s \in Ahead(k), s # <<>>
  PROVE  /\ s \in Rests /\ Head(s) \in Namespaces
         /\ k \in Cancels => Tail(s) \in Ahead(k)
         /\ Left(s) = {Head(s)} \cup Left(Tail(s))
         /\ k \in Schedules => s = Prefixes(k)
         /\ k = "schedule" => Head(s) = "auto"
         /\ k = "scheduleQuarantine" => Head(s) = "quarantine"
<1>1. \A a : Head(<<a>>) = a /\ Tail(<<a>>) = <<>> /\ Left(<<a>>) = {a}
  BY DEF Left
<1>2. \A a, b : Head(<<a, b>>) = a /\ Tail(<<a, b>>) = <<b>> /\ Left(<<a, b>>) = {a, b}
  BY DEF Left
<1>3. \A a, b, c : /\ Head(<<a, b, c>>) = a /\ Tail(<<a, b, c>>) = <<b, c>>
                   /\ Left(<<a, b, c>>) = {a, b, c}
  BY DEF Left
<1>4. Left(<<>>) = {}
  BY DEF Left
<1>5. s \in Rests
  BY DEF Rests
<1>6. CASE k = "schedule"
  <2>1. s = <<"auto">>
    BY <1>6, Zenon DEF Ahead
  <2> QED
    BY <1>1, <1>4, <1>5, <1>6, <2>1 DEF Cancels, Schedules, Namespaces, Prefixes
<1>7. CASE k = "scheduleQuarantine"
  <2>1. s = <<"quarantine">>
    BY <1>7, Zenon DEF Ahead
  <2> QED
    BY <1>1, <1>4, <1>5, <1>7, <2>1 DEF Cancels, Schedules, Namespaces, Prefixes
<1>8. CASE k = "cancelQuarantine"
  <2>1. s = <<"quarantine">> /\ <<>> \in Ahead(k)
    BY <1>8, Zenon DEF Ahead
  <2> QED
    BY <1>1, <1>4, <1>5, <1>8, <2>1 DEF Cancels, Schedules, Namespaces
<1>9. CASE k = "cancelAuto"
  <2>1. s \in {<<"auto", "v1">>, <<"v1">>} /\ <<>> \in Ahead(k) /\ <<"v1">> \in Ahead(k)
    BY <1>9, Zenon DEF Ahead
  <2>2. CASE s = <<"auto", "v1">>
    BY <1>1, <1>2, <1>5, <1>9, <2>1, <2>2 DEF Schedules, Namespaces
  <2>3. CASE s = <<"v1">>
    BY <1>1, <1>4, <1>5, <1>9, <2>1, <2>3 DEF Schedules, Namespaces
  <2> QED
    BY <2>1, <2>2, <2>3
<1>10. CASE k = "cancel"
  <2>1. s \in {<<"auto", "v1", "quarantine">>, <<"v1", "quarantine">>, <<"quarantine">>}
        /\ <<>> \in Ahead(k) /\ <<"quarantine">> \in Ahead(k) /\ <<"v1", "quarantine">> \in Ahead(k)
    BY <1>10, Zenon DEF Ahead
  <2>2. CASE s = <<"auto", "v1", "quarantine">>
    BY <1>2, <1>3, <1>5, <1>10, <2>1, <2>2 DEF Schedules, Namespaces
  <2>3. CASE s = <<"v1", "quarantine">>
    BY <1>1, <1>2, <1>5, <1>10, <2>1, <2>3 DEF Schedules, Namespaces
  <2>4. CASE s = <<"quarantine">>
    BY <1>1, <1>4, <1>5, <1>10, <2>1, <2>4 DEF Schedules, Namespaces
  <2> QED
    BY <2>1, <2>2, <2>3, <2>4
<1>11. k # "none"
  BY DEF Ahead
<1> QED
  BY <1>6, <1>7, <1>8, <1>9, <1>10, <1>11 DEF Kinds

\* The name spaces a call begins with.
LEMMA PrefixFacts ==
  ASSUME NEW k \in Kinds, k # "none"
  PROVE  /\ Prefixes(k) \in Ahead(k) /\ Prefixes(k) # <<>>
         /\ Left(Prefixes(k)) = {Prefixes(k)[i] : i \in DOMAIN Prefixes(k)}
         /\ Left(Prefixes(k)) \subseteq Namespaces
         /\ k = "schedule" => Left(Prefixes(k)) = {"auto"}
         /\ k = "scheduleQuarantine" => Left(Prefixes(k)) = {"quarantine"}
         /\ k = "cancelQuarantine" => Left(Prefixes(k)) = {"quarantine"}
         /\ k = "cancelAuto" => Left(Prefixes(k)) = {"auto", "v1"}
<1>1. \A a : <<a>> # <<>> /\ Left(<<a>>) = {a}
  BY DEF Left
<1>2. \A a, b : <<a, b>> # <<>> /\ Left(<<a, b>>) = {a, b}
  BY DEF Left
<1>3. \A a, b, c : <<a, b, c>> # <<>> /\ Left(<<a, b, c>>) = {a, b, c}
  BY DEF Left
<1>4. Prefixes(k) \in Ahead(k) /\ Prefixes(k) # <<>>
  BY <1>1, <1>2, <1>3 DEF Kinds, Ahead, Prefixes
<1>5. Left(Prefixes(k)) = {Prefixes(k)[i] : i \in DOMAIN Prefixes(k)}
  BY DEF Left
<1> QED
  BY <1>1, <1>2, <1>3, <1>4, <1>5 DEF Kinds, Prefixes, Namespaces

\* What the manager keeps of a timer it does not know.
LEMMA UnloadedType == Unloaded \in [phase : Phases, svc : Contents, tmr : Contents]
<1>1. 0 \in Contents
  BY SchedulerAssumption DEF Contents
<1> QED
  BY <1>1 DEF Unloaded, Phases

\* A daemon-reload changes the phase of no timer: it loads what is on disk, or forgets
\* a dead timer without a file.
LEMMA ReloadedFacts ==
  ASSUME unit \in UnitType, mgr \in MgrType
  PROVE  /\ Reloaded \in MgrType
         /\ \A n \in Namespaces :
              /\ Reloaded[n].phase = mgr[n].phase
              /\ unit[n].tmr # 0 => Reloaded[n].svc = unit[n].svc /\ Reloaded[n].tmr = unit[n].tmr
              /\ unit[n].tmr = 0 => \/ Reloaded[n] = mgr[n]
                                    \/ Reloaded[n] = Unloaded
<1>1. Reloaded \in MgrType
  BY UnloadedType DEF Reloaded, MgrType, UnitType
<1>2. \A n \in Namespaces : Reloaded[n].phase = mgr[n].phase
  BY DEF Reloaded, MgrType, UnitType, Unloaded
<1>3. \A n \in Namespaces :
              /\ unit[n].tmr # 0 => Reloaded[n].svc = unit[n].svc /\ Reloaded[n].tmr = unit[n].tmr
              /\ unit[n].tmr = 0 => \/ Reloaded[n] = mgr[n]
                                    \/ Reloaded[n] = Unloaded
  BY DEF Reloaded, MgrType, UnitType, Unloaded
<1> QED
  BY <1>1, <1>2, <1>3

\* A start leaves a timer alive, on the contents that were loaded.
LEMMA StartedFacts ==
  ASSUME unit \in UnitType, mgr \in MgrType, NEW n \in Namespaces
  PROVE  /\ [mgr EXCEPT ![n] = Started(n)] \in MgrType
         /\ Started(n).phase # "dead"
         /\ mgr[n].tmr # 0 => Started(n).svc = mgr[n].svc /\ Started(n).tmr = mgr[n].tmr
<1>1. Started(n) \in [phase : Phases, svc : Contents, tmr : Contents]
  BY UnloadedType DEF Started, MgrType, UnitType, Phases
<1>2. /\ Started(n).phase # "dead"
      /\ mgr[n].tmr # 0 => Started(n).svc = mgr[n].svc /\ Started(n).tmr = mgr[n].tmr
  BY UnloadedType DEF Started, MgrType, UnitType, Phases
<1> QED
  BY <1>1, <1>2 DEF MgrType

\* What a boot makes of a name space: nothing without a timer file, and the task on disk
\* when both files and the link are there.
LEMMA BootedFacts ==
  ASSUME unit \in UnitType, NEW n \in Namespaces
  PROVE  /\ Booted(n) \in [phase : Phases, svc : Contents, tmr : Contents]
         /\ Booted(n).tmr = unit[n].tmr \/ Booted(n).tmr = 0
         /\ unit[n].tmr = 0 => Booted(n).phase = "dead"
         /\ unit[n].link /\ unit[n].tmr # 0 /\ unit[n].svc # 0 =>
              /\ Booted(n).phase = IF unit[n].stamp = unit[n].tmr THEN "elapsed" ELSE "waiting"
              /\ Booted(n).svc = unit[n].svc /\ Booted(n).tmr = unit[n].tmr
<1>1. Booted(n) \in [phase : Phases, svc : Contents, tmr : Contents]
  BY UnloadedType DEF Booted, UnitType, Phases
<1> QED
  BY <1>1, UnloadedType DEF Booted, UnitType, Phases, Unloaded

Kept ==
  /\ op' \in OpType
  /\ op'.kind = op.kind /\ op'.task = op.task /\ op'.ns = op.ns /\ op'.clean = op.clean

\* A call that goes on changes nothing else of itself.
LEMMA GoFacts ==
  ASSUME op \in OpType, NEW pc \in Pcs, Go(pc)
  PROVE  Kept /\ op'.pc = pc /\ op'.err = op.err
<1>1. op' \in OpType
  BY Zenon DEF Go, OpType
<1> QED
  BY <1>1 DEF Go, OpType, Kept

\* So does one that goes on with an error.
LEMMA GoErrFacts ==
  ASSUME op \in OpType, NEW pc \in Pcs, GoErr(pc)
  PROVE  Kept /\ op'.pc = pc /\ op'.err
<1>1. op' \in OpType
  BY Zenon DEF GoErr, OpType
<1> QED
  BY <1>1 DEF GoErr, OpType, Kept

\* The call that is none.
LEMMA IdleFacts ==
  /\ Idle \in OpType /\ Idle.ns \in Ahead(Idle.kind)
  /\ Idle.pc = "idle" /\ Idle.kind = "none" /\ Idle.ns = <<>>
  /\ Idle.task = 0 /\ Idle.clean = {} /\ Idle.todo = {} /\ Idle.id = "none" /\ Idle.err = FALSE
<1>1. <<>> \in Rests
  BY DEF Rests, Ahead, Kinds
<1>2. 0 \in Contents
  BY SchedulerAssumption DEF Contents
<1>3. Idle \in OpType
  BY <1>1, <1>2, Zenon DEF Idle, OpType, Ids, Pcs, Kinds
<1> QED
  BY <1>3 DEF Idle, Ahead

Returned ==
  /\ op' = Idle /\ op' \in OpType /\ op'.pc = "idle" /\ op'.kind = "none"
  /\ op'.ns \in Ahead(op'.kind) /\ Left(op'.ns) = {}

\* A call that returns leaves that behind.
LEMMA ReturnFacts ==
  ASSUME Return \/ op' = Idle
  PROVE  Returned
<1>1. Left(<<>>) = {}
  BY DEF Left
<1> QED
  BY <1>1, IdleFacts DEF Return, Returned

\* The call goes on with the next name space.
Skip(e) == op' = [op EXCEPT !.pc = "units", !.err = e, !.ns = Tail(@)]

Skipped ==
  /\ op' \in OpType /\ op'.pc = "units" /\ op'.ns = Tail(op.ns)
  /\ op'.kind = op.kind /\ op'.task = op.task /\ op'.clean = op.clean

\* What that keeps of the call.
LEMMA SkipFacts ==
  ASSUME op \in OpType, NEW e \in BOOLEAN, Skip(e), Tail(op.ns) \in Rests
  PROVE  Skipped /\ op'.err = e
<1>1. op' \in OpType
  BY Zenon DEF Skip, OpType, Pcs
<1> QED
  BY <1>1 DEF Skip, OpType, Skipped

\* A cancellation is done with at.
AtDone(e) == op' = [op EXCEPT !.pc = "units", !.err = @ \/ e, !.todo = {}]

\* What that keeps of the call.
LEMMA AtDoneFacts ==
  ASSUME op \in OpType, NEW e \in BOOLEAN, AtDone(e)
  PROVE  Kept /\ op'.pc = "units" /\ op'.err = (op.err \/ e)
<1>1. op' \in OpType
  BY Zenon DEF AtDone, OpType, Pcs
<1> QED
  BY <1>1 DEF AtDone, OpType, Kept

\* The other ways in which a call goes on: to the rollback of enable, to the registry row or
\* atrm with an identifier, to the jobs of an inventory, past one of them.
LEMMA OpFacts ==
  ASSUME op \in OpType
  PROVE  /\ op' = [op EXCEPT !.pc = "disable", !.enabled = TRUE] =>
              Kept /\ op'.pc = "disable" /\ op'.err = op.err
         /\ \A id \in Ids, pc \in {"commit", "atrm"} : op' = [op EXCEPT !.pc = pc, !.id = id] =>
              Kept /\ op'.pc = pc /\ op'.id = id /\ op'.err = op.err /\ op'.todo = op.todo
         /\ \A s \in SUBSET AtIds : op' = [op EXCEPT !.pc = "reread", !.todo = s] =>
              Kept /\ op'.pc = "reread" /\ op'.err = op.err /\ op'.todo = s
         /\ \A id \in AtIds : op' = [op EXCEPT !.todo = @ \ {id}] =>
              Kept /\ op'.pc = op.pc /\ op'.err = op.err /\ op'.todo = op.todo \ {id}
         /\ \A id \in AtIds : op' = [op EXCEPT !.todo = @ \ {id}, !.err = TRUE] =>
              Kept /\ op'.pc = op.pc /\ op'.err
<1>1. op' = [op EXCEPT !.pc = "disable", !.enabled = TRUE] => op' \in OpType
  BY ZenonT(40) DEF OpType, Pcs
<1>2. \A id \in Ids, pc \in {"commit", "atrm"} :
        op' = [op EXCEPT !.pc = pc, !.id = id] => op' \in OpType
  <2>1. {"commit", "atrm"} \subseteq Pcs
    BY DEF Pcs
  <2> QED
    BY <2>1, ZenonT(40) DEF OpType
<1>3. \A s \in SUBSET AtIds : op' = [op EXCEPT !.pc = "reread", !.todo = s] => op' \in OpType
  BY ZenonT(40) DEF OpType, Pcs
<1>4. \A id \in AtIds : op' = [op EXCEPT !.todo = @ \ {id}] => op' \in OpType
  BY Zenon DEF OpType
<1>5. \A id \in AtIds : op' = [op EXCEPT !.todo = @ \ {id}, !.err = TRUE] => op' \in OpType
  BY Zenon DEF OpType
<1> QED
  BY <1>1, <1>2, <1>3, <1>4, <1>5, ZenonT(40) DEF OpType, Kept

\* The job was looked at once more.
Removed == [op EXCEPT !.pc = "reread", !.todo = @ \ {op.id}, !.id = "none"]

\* What that keeps of the call, whether or not the job is gone.
LEMMA RemovedFacts ==
  ASSUME op \in OpType
  PROVE  /\ op' = Removed =>
              /\ Kept /\ op'.pc = "reread" /\ op'.err = op.err
              /\ op'.todo = op.todo \ {op.id}
         /\ op' = [Removed EXCEPT !.err = TRUE] =>
              /\ Kept /\ op'.pc = "reread" /\ op'.err
<1>1. Removed \in OpType
  BY Zenon DEF Removed, OpType, Pcs, Ids
<1>2. [Removed EXCEPT !.err = TRUE] \in OpType
  BY <1>1, Zenon DEF OpType
<1> QED
  BY <1>1, <1>2 DEF OpType, Removed, Kept

\* The rollback goes on to its daemon-reload, with the error it may have met.
LEMMA FinishFacts ==
  ASSUME op \in OpType, NEW e \in BOOLEAN, op' = [op EXCEPT !.pc = "finish", !.err = @ \/ e]
  PROVE  Kept /\ op'.pc = "finish" /\ (~op'.err => ~op.err)
<1>1. op' \in OpType
  BY Zenon DEF OpType, Pcs
<1> QED
  BY <1>1 DEF OpType, Kept

\* A cancellation of one kind begins.
Called(kind) ==
  /\ op' \in OpType /\ op'.pc = "inventory" /\ op'.kind = kind
  /\ op'.ns \in Ahead(kind) /\ op'.ns = Prefixes(kind)
  /\ op'.clean \cap Namespaces \subseteq Left(op'.ns)
  /\ "at" \in op'.clean /\ ~op'.err => kind # "cancelQuarantine" /\ at # "none"

\* A cancellation answers for the name spaces it has before it, and for the queue only of an
\* at package that is installed, unless it begins with an error.
LEMMA CancelCallFacts ==
  ASSUME 0 \in Contents, NEW kind \in Cancels, NEW r \in Ids, op' = CancelCall(kind, r)
  PROVE  Called(kind)
<1>1. kind \in Kinds /\ kind # "none"
  BY DEF Cancels, Kinds
<1>2. /\ Prefixes(kind) \in Ahead(kind) /\ Left(Prefixes(kind)) \subseteq Namespaces
      /\ Left(Prefixes(kind)) = {Prefixes(kind)[i] : i \in DOMAIN Prefixes(kind)}
  BY <1>1, PrefixFacts
<1>3. Prefixes(kind) \in Rests
  BY <1>1, <1>2 DEF Rests
<1>4. /\ Scope(kind, r) \in SUBSET (Namespaces \cup {"at"})
      /\ Scope(kind, r) \cap Namespaces \subseteq Left(Prefixes(kind))
      /\ "at" \in Scope(kind, r) => kind # "cancelQuarantine" /\ (at # "none" \/ r \in AtIds)
  BY <1>2 DEF Scope, Namespaces
<1>5. op' \in OpType
  BY <1>1, <1>3, <1>4, IdleFacts, Zenon DEF CancelCall, OpType, Pcs
<1>6. Idle \in OpType
  BY IdleFacts
<1> QED
  BY <1>2, <1>4, <1>5, <1>6 DEF CancelCall, OpType, Called

Unpromised(kind) ==
  /\ promise' \in PromiseType
  /\ \A k \in {"auto", "quarantine", "at"} : promise'[k] \in {0, promise[k]}
  /\ \A n \in Left(Prefixes(kind)) \cap {"auto", "quarantine"} : promise'[n] = 0
  /\ kind # "cancelQuarantine" => promise'["at"] = 0

\* A cancellation takes back what was promised in the name spaces it has before it.
LEMMA UnpromiseFacts ==
  ASSUME promise \in PromiseType, NEW kind \in Cancels, promise' = Unpromise(kind)
  PROVE  Unpromised(kind)
<1>1. 0 \in Contents /\ kind \in Kinds /\ kind # "none"
  BY SchedulerAssumption DEF Contents, Kinds, Cancels
<1>2. /\ kind = "cancelQuarantine" => Left(Prefixes(kind)) = {"quarantine"}
      /\ kind = "cancelAuto" => Left(Prefixes(kind)) = {"auto", "v1"}
  BY <1>1, PrefixFacts
<1>3. Unpromise(kind) \in PromiseType
  BY <1>1 DEF Unpromise, PromiseType
<1>4. /\ \A k \in {"auto", "quarantine", "at"} : Unpromise(kind)[k] \in {0, promise[k]}
      /\ kind # "cancelQuarantine" => Unpromise(kind)["at"] = 0
      /\ kind = "cancel" => Unpromise(kind)["auto"] = 0 /\ Unpromise(kind)["quarantine"] = 0
      /\ kind = "cancelAuto" => Unpromise(kind)["auto"] = 0
      /\ kind = "cancelQuarantine" => Unpromise(kind)["quarantine"] = 0
  BY DEF Unpromise, PromiseType
<1> QED
  BY <1>2, <1>3, <1>4 DEF Cancels, Unpromised

\* A schedule has its one name space before it.
LEMMA StartFacts ==
  ASSUME NEW kind \in Schedules, NEW pc \in Pcs, NEW t \in Contents,
         op' = [Idle EXCEPT !.pc = pc, !.kind = kind, !.task = t, !.ns = Prefixes(kind)]
  PROVE  /\ op' \in OpType /\ op'.pc = pc /\ op'.kind = kind /\ op'.task = t
         /\ op'.ns \in Ahead(kind) /\ op'.ns # <<>>
         /\ kind = "schedule" => Left(op'.ns) = {"auto"}
         /\ kind = "scheduleQuarantine" => Left(op'.ns) = {"quarantine"}
<1>1. kind \in Kinds /\ kind # "none"
  BY DEF Schedules, Kinds
<1>2. /\ Prefixes(kind) \in Ahead(kind) /\ Prefixes(kind) # <<>>
      /\ kind = "schedule" => Left(Prefixes(kind)) = {"auto"}
      /\ kind = "scheduleQuarantine" => Left(Prefixes(kind)) = {"quarantine"}
  BY <1>1, PrefixFacts
<1>3. Prefixes(kind) \in Rests
  BY <1>1, <1>2 DEF Rests
<1>4. op' \in OpType
  BY <1>1, <1>3, IdleFacts, Zenon DEF OpType
<1> QED
  BY <1>2, <1>4, IdleFacts DEF OpType

\* A task that is scheduled has a number no earlier task had.
LEMMA IssueFacts ==
  ASSUME left \in LeftType, Spend("tasks")
  PROVE  /\ left' \in LeftType /\ Issued' = Issued + 1 /\ Issued \in Nat
         /\ Tasks + 1 - left.tasks = Issued + 1
         /\ Issued + 1 \in Contents /\ Issued + 1 # 0 /\ Issued + 1 # Legacy
BY SchedulerAssumption DEF LeftType, Spend, Issued, Contents, Legacy

\* What a step leaves alone in the other name spaces.
OtherUnits(n) == unit' \in UnitType /\ \A m \in Namespaces \ {n} : unit'[m] = unit[m]
OtherTimers(n) == /\ mgr' \in MgrType /\ \A m \in Namespaces \ {n} : mgr'[m] = mgr[m]
                  /\ mgr'[n].svc = mgr[n].svc /\ mgr'[n].tmr = mgr[n].tmr

\* A service file written or removed,
LEMMA PutSvcFacts ==
  ASSUME unit \in UnitType, NEW n \in Namespaces, NEW c \in Contents,
         unit' = [unit EXCEPT ![n].svc = c]
  PROVE  /\ OtherUnits(n) /\ unit'[n].svc = c
         /\ unit'[n].tmr = unit[n].tmr /\ unit'[n].link = unit[n].link
BY DEF UnitType, OtherUnits

\* a timer file,
LEMMA PutTmrFacts ==
  ASSUME unit \in UnitType, NEW n \in Namespaces, NEW c \in Contents,
         unit' = [unit EXCEPT ![n].tmr = c]
  PROVE  /\ OtherUnits(n) /\ unit'[n].tmr = c
         /\ unit'[n].svc = unit[n].svc /\ unit'[n].link = unit[n].link
BY DEF UnitType, OtherUnits

\* a stamp,
LEMMA PutStampFacts ==
  ASSUME unit \in UnitType, NEW n \in Namespaces, NEW c \in Contents,
         unit' = [unit EXCEPT ![n].stamp = c]
  PROVE  /\ OtherUnits(n)
         /\ unit'[n].tmr = unit[n].tmr /\ unit'[n].svc = unit[n].svc /\ unit'[n].link = unit[n].link
BY DEF UnitType, OtherUnits

\* an enablement link.
LEMMA PutLinkFacts ==
  ASSUME unit \in UnitType, NEW n \in Namespaces, NEW b \in BOOLEAN,
         unit' = [unit EXCEPT ![n].link = b]
  PROVE  /\ OtherUnits(n) /\ unit'[n].link = b
         /\ unit'[n].tmr = unit[n].tmr /\ unit'[n].svc = unit[n].svc
<1>1. unit' \in UnitType
  BY Zenon DEF UnitType
<1> QED
  BY <1>1 DEF UnitType, OtherUnits

\* A timer that fires or ends keeps its contents.
LEMMA RephasedFacts ==
  ASSUME mgr \in MgrType, NEW n \in Namespaces, NEW p \in Phases, mgr' = [mgr EXCEPT ![n].phase = p]
  PROVE  OtherTimers(n) /\ mgr'[n].phase = p
BY DEF MgrType, OtherTimers

\* So does one that is stopped, if it is.
LEMMA StoppedFacts ==
  ASSUME mgr \in MgrType, NEW n \in Namespaces, mgr' \in {mgr, Stopped(n)}
  PROVE  /\ OtherTimers(n) /\ mgr'[n].phase \in {mgr[n].phase, "dead"}
         /\ mgr' = Stopped(n) => mgr'[n].phase = "dead"
BY DEF MgrType, OtherTimers, Stopped, Phases

\* A daemon-reload that may not have happened.
MaybeReloaded ==
  /\ mgr' \in MgrType
  /\ \A n \in Namespaces :
       /\ mgr'[n].phase = mgr[n].phase
       /\ \/ mgr'[n] = mgr[n]
          \/ mgr'[n] = Unloaded /\ unit[n].tmr = 0
          \/ unit[n].tmr # 0 /\ mgr'[n].svc = unit[n].svc /\ mgr'[n].tmr = unit[n].tmr

\* That is what such a daemon-reload does.
LEMMA MaybeReloadedFacts ==
  ASSUME unit \in UnitType, mgr \in MgrType, mgr' \in {mgr, Reloaded}
  PROVE  MaybeReloaded
BY ReloadedFacts DEF MaybeReloaded

Paid == left' \in LeftType /\ left'.tasks = left.tasks

\* No step but a schedule takes a task number.
LEMMA CostFacts ==
  ASSUME left \in LeftType, left' = left \/ Fine \/ Fault \/ Spend("others")
  PROVE  Paid
BY SchedulerAssumption DEF LeftType, Fine, Fault, Spend, Paid

\* The call works on its first name space, whose task nobody has been promised.
AtWork ==
  /\ op.kind \in Schedules \cup Cancels /\ N \in Namespaces
  /\ op.task \in Contents /\ 0 \in Contents
  /\ op.kind = "schedule" => N = "auto"
  /\ op.kind = "scheduleQuarantine" => N = "quarantine"
  /\ N \in Left(op.ns) /\ Left(op.ns) = {N} \cup Left(Tail(op.ns))
  /\ op.kind \in Cancels => Tail(op.ns) \in Ahead(op.kind) /\ Tail(op.ns) \in Rests
  /\ N \in {"auto", "quarantine"} => promise[N] = 0

\* That is so wherever a call talks to systemd: it took the promise back when it began, and
\* nobody makes another while it runs.
LEMMA Working ==
  ASSUME SchedulerInv, op.pc \in OnUnits \/ (op.pc = "units" /\ op.ns # <<>>)
  PROVE  AtWork
<1>1. op.kind \in Kinds /\ op.ns \in Ahead(op.kind) /\ op.ns # <<>> /\ op.task \in Contents
  BY DEF SchedulerInv, Typed, OpType, Flow
<1>2. op.kind # "none"
  BY <1>1 DEF Ahead
<1>3. /\ N \in Namespaces
      /\ op.kind = "schedule" => N = "auto"
      /\ op.kind = "scheduleQuarantine" => N = "quarantine"
      /\ Left(op.ns) = {N} \cup Left(Tail(op.ns))
      /\ op.kind \in Cancels => Tail(op.ns) \in Ahead(op.kind)
  BY <1>1, RestFacts DEF N
<1>4. Tail(op.ns) \in Ahead(op.kind) => Tail(op.ns) \in Rests
  BY <1>1 DEF Rests
<1>5. N \in {"auto", "quarantine"} => promise[N] = 0
  BY <1>3 DEF SchedulerInv, PromiseInv, OnUnits
<1>6. 0 \in Contents
  BY SchedulerAssumption DEF Contents
<1> QED
  BY <1>1, <1>2, <1>3, <1>4, <1>5, <1>6 DEF Kinds, Schedules, Cancels, AtWork

\* The call that is none has nothing before it.
LEMMA Bare ==
  Left(<<>>) = {}
BY DEF Left

\* An enable that failed may have linked the timer.
LEMMA MaybeLinkFacts ==
  ASSUME unit \in UnitType, NEW n \in Namespaces, NEW l \in BOOLEAN,
         unit' = [unit EXCEPT ![n].link = @ \/ l]
  PROVE  /\ OtherUnits(n)
         /\ unit'[n].tmr = unit[n].tmr /\ unit'[n].svc = unit[n].svc
<1>1. unit' \in UnitType
  BY Zenon DEF UnitType
<1> QED
  BY <1>1 DEF UnitType, OtherUnits

\* A job submitted takes a free id.
LEMMA SubmittedFacts ==
  ASSUME queue \in QueueType, NEW id \in AtIds, NEW c \in Contents, c # 0, queue[id] = Free,
         queue' = [queue EXCEPT ![id] = [owner |-> "root", cmd |-> c]]
  PROVE  /\ queue' \in QueueType /\ Own(queue'[id]) /\ queue'[id].cmd = c /\ ~Own(queue[id])
         /\ \A i \in AtIds \ {id} : queue'[i] = queue[i]
BY DEF QueueType, Own, Free

\* A job that is gone frees its id.
LEMMA FreedFacts ==
  ASSUME queue \in QueueType, NEW id \in AtIds, queue' = [queue EXCEPT ![id] = Free]
  PROVE  /\ queue' \in QueueType /\ ~Own(queue'[id]) /\ queue'[id] = Free
         /\ \A i \in AtIds \ {id} : queue'[i] = queue[i]
<1>1. 0 \in Contents
  BY SchedulerAssumption DEF Contents
<1> QED
  BY <1>1 DEF QueueType, Own, Free

\* The task being scheduled is the last one numbered.
LEMMA TaskFacts ==
  ASSUME SchedulerInv, op.kind \in Schedules
  PROVE  op.task # 0 /\ op.task \in Contents /\ op.task \in 1..Issued
BY SchedulerAssumption DEF SchedulerInv, Typed, OpType, LeftType, Flow, Issued, Contents

-----------------------------------------------------------------------------
(* Each action keeps the invariant, whatever its outcome.                     *)

USE DEF SchedulerInv, Typed, At, Own, Dead, Clear, NoOwn, Schedules, Cancels, Cancelling,
        Kept, Returned, Skipped, OtherUnits, OtherTimers, MaybeReloaded, Paid, AtWork, Called,
        Unpromised

\* WriteRootFile on the service: written, not written with the fallback to at, or written but
\* not synced, with a rollback.
LEMMA WriteServiceKeeps ==
  ASSUME SchedulerInv, WriteService
  PROVE  SchedulerInv'
<1>1. op.pc = "service"
  BY DEF WriteService, At
<1>2. AtWork
  BY <1>1, Working DEF OnUnits
<1>3. op.kind \in Schedules /\ op.task # 0
  BY <1>1, <1>2 DEF SchedulerInv, Flow, KindAt
<1>4. CASE Fine /\ Go("timer") /\ unit' = [unit EXCEPT ![N].svc = op.task]
  <2>1. UNCHANGED <<mgr, sysd, queue, at, rec, gone, promise>> /\ Paid
    BY <1>4, CostFacts DEF WriteService, ghost, host
  <2>2. Kept /\ op'.pc = "timer" /\ op'.err = op.err
    BY <1>1, <1>2, <1>3, <1>4, GoFacts DEF Pcs
  <2>3. OtherUnits(N) /\ unit'[N].svc = op.task /\ unit'[N].tmr = unit[N].tmr
       /\ unit'[N].link = unit[N].link
    BY <1>1, <1>2, <1>3, <1>4, PutSvcFacts
  <2>4. Typed' /\ Flow'
    BY <1>1, <1>2, <1>3, <1>4, <2>1, <2>2, <2>3 DEF Flow, KindAt, OnUnits, Issued
  <2>5. GoneInv' /\ BackendInv'
    BY <1>1, <1>2, <1>3, <1>4, <2>1, <2>2, <2>3 DEF GoneInv, BackendInv, Issued, Namespaces,
       Unloaded
  <2>6. PromiseInv' /\ FilesInv' /\ AtInv'
    BY <1>1, <1>2, <1>3, <1>4, <2>1, <2>2, <2>3 DEF PromiseInv, Standing, FilesInv, AtInv, N,
       Namespaces
  <2>7. CancelInv' /\ CancelAtInv'
    BY <1>1, <1>2, <1>3, <1>4, <2>1, <2>2, <2>3 DEF CancelInv, CancelAtInv, N
  <2> QED
    BY <2>4, <2>5, <2>6, <2>7 DEF SchedulerInv
<1>5. CASE op.kind = "schedule" /\ Fault /\ Go("submit") /\ unit' = unit
  <2>1. UNCHANGED <<unit, mgr, sysd, queue, at, rec, gone, promise>> /\ Paid
    BY <1>5, CostFacts DEF WriteService, ghost, host
  <2>2. Kept /\ op'.pc = "submit" /\ op'.err = op.err
    BY <1>1, <1>2, <1>3, <1>5, GoFacts DEF Pcs
  <2>3. Typed' /\ Flow'
    BY <1>1, <1>2, <1>3, <1>5, <2>1, <2>2 DEF Flow, KindAt, OnUnits, Issued
  <2>4. GoneInv' /\ BackendInv'
    BY <1>1, <1>2, <1>3, <1>5, <2>1, <2>2 DEF GoneInv, BackendInv, Issued, Namespaces, Unloaded
  <2>5. PromiseInv' /\ FilesInv' /\ AtInv'
    BY <1>1, <1>2, <1>3, <1>5, <2>1, <2>2 DEF PromiseInv, Standing, FilesInv, AtInv, N, Namespaces
  <2>6. CancelInv' /\ CancelAtInv'
    BY <1>1, <1>2, <1>3, <1>5, <2>1, <2>2 DEF CancelInv, CancelAtInv, N
  <2> QED
    BY <2>3, <2>4, <2>5, <2>6 DEF SchedulerInv
<1>6. CASE op.kind # "schedule" /\ Fault /\ Return /\ unit' = unit
  <2>1. UNCHANGED <<unit, mgr, sysd, queue, at, rec, gone, promise>> /\ Paid
    BY <1>6, CostFacts DEF WriteService, ghost, host
  <2>2. Returned
    BY <1>1, <1>2, <1>3, <1>6, ReturnFacts
  <2>3. Typed' /\ Flow'
    BY <1>1, <1>2, <1>3, <1>6, <2>1, <2>2 DEF Flow, KindAt, OnUnits, Issued
  <2>4. GoneInv' /\ BackendInv'
    BY <1>1, <1>2, <1>3, <1>6, <2>1, <2>2 DEF GoneInv, BackendInv, Issued, Namespaces, Unloaded
  <2>5. PromiseInv' /\ FilesInv' /\ AtInv'
    BY <1>1, <1>2, <1>3, <1>6, <2>1, <2>2 DEF PromiseInv, Standing, FilesInv, AtInv, N, Namespaces
  <2>6. CancelInv' /\ CancelAtInv'
    BY <1>1, <1>2, <1>3, <1>6, <2>1, <2>2 DEF CancelInv, CancelAtInv, N
  <2> QED
    BY <2>3, <2>4, <2>5, <2>6 DEF SchedulerInv
<1>7. CASE Fault /\ Go("rmservice") /\ unit' = [unit EXCEPT ![N].svc = op.task]
  <2>1. UNCHANGED <<mgr, sysd, queue, at, rec, gone, promise>> /\ Paid
    BY <1>7, CostFacts DEF WriteService, ghost, host
  <2>2. Kept /\ op'.pc = "rmservice" /\ op'.err = op.err
    BY <1>1, <1>2, <1>3, <1>7, GoFacts DEF Pcs
  <2>3. OtherUnits(N) /\ unit'[N].svc = op.task /\ unit'[N].tmr = unit[N].tmr
       /\ unit'[N].link = unit[N].link
    BY <1>1, <1>2, <1>3, <1>7, PutSvcFacts
  <2>4. Typed' /\ Flow'
    BY <1>1, <1>2, <1>3, <1>7, <2>1, <2>2, <2>3 DEF Flow, KindAt, OnUnits, Issued
  <2>5. GoneInv' /\ BackendInv'
    BY <1>1, <1>2, <1>3, <1>7, <2>1, <2>2, <2>3 DEF GoneInv, BackendInv, Issued, Namespaces,
       Unloaded
  <2>6. PromiseInv' /\ FilesInv' /\ AtInv'
    BY <1>1, <1>2, <1>3, <1>7, <2>1, <2>2, <2>3 DEF PromiseInv, Standing, FilesInv, AtInv, N,
       Namespaces
  <2>7. CancelInv' /\ CancelAtInv'
    BY <1>1, <1>2, <1>3, <1>7, <2>1, <2>2, <2>3 DEF CancelInv, CancelAtInv, N
  <2> QED
    BY <2>4, <2>5, <2>6, <2>7 DEF SchedulerInv
<1> QED
  BY <1>1, <1>2, <1>3, <1>4, <1>5, <1>6, <1>7 DEF WriteService, Fallback

\* WriteRootFile on the timer: a failure rolls both files back.
LEMMA WriteTimerKeeps ==
  ASSUME SchedulerInv, WriteTimer
  PROVE  SchedulerInv'
<1>1. op.pc = "timer"
  BY DEF WriteTimer, At
<1>2. AtWork
  BY <1>1, Working DEF OnUnits
<1>3. op.kind \in Schedules /\ op.task # 0
  BY <1>1, <1>2 DEF SchedulerInv, Flow, KindAt
<1>4. CASE Fine /\ Go("reload") /\ unit' = [unit EXCEPT ![N].tmr = op.task]
  <2>1. UNCHANGED <<mgr, sysd, queue, at, rec, gone, promise>> /\ Paid
    BY <1>4, CostFacts DEF WriteTimer, ghost, host
  <2>2. Kept /\ op'.pc = "reload" /\ op'.err = op.err
    BY <1>1, <1>2, <1>3, <1>4, GoFacts DEF Pcs
  <2>3. OtherUnits(N) /\ unit'[N].tmr = op.task /\ unit'[N].svc = unit[N].svc
       /\ unit'[N].link = unit[N].link
    BY <1>1, <1>2, <1>3, <1>4, PutTmrFacts
  <2>4. Typed' /\ Flow'
    BY <1>1, <1>2, <1>3, <1>4, <2>1, <2>2, <2>3 DEF Flow, KindAt, OnUnits, Issued
  <2>5. GoneInv' /\ BackendInv'
    BY <1>1, <1>2, <1>3, <1>4, <2>1, <2>2, <2>3 DEF GoneInv, BackendInv, Issued, Namespaces,
       Unloaded
  <2>6. PromiseInv' /\ FilesInv' /\ AtInv'
    BY <1>1, <1>2, <1>3, <1>4, <2>1, <2>2, <2>3 DEF PromiseInv, Standing, FilesInv, AtInv, N,
       Namespaces
  <2>7. CancelInv' /\ CancelAtInv'
    BY <1>1, <1>2, <1>3, <1>4, <2>1, <2>2, <2>3 DEF CancelInv, CancelAtInv, N
  <2> QED
    BY <2>4, <2>5, <2>6, <2>7 DEF SchedulerInv
<1>5. CASE Fault /\ Go("rmservice") /\ unit' = unit
  <2>1. UNCHANGED <<unit, mgr, sysd, queue, at, rec, gone, promise>> /\ Paid
    BY <1>5, CostFacts DEF WriteTimer, ghost, host
  <2>2. Kept /\ op'.pc = "rmservice" /\ op'.err = op.err
    BY <1>1, <1>2, <1>3, <1>5, GoFacts DEF Pcs
  <2>3. Typed' /\ Flow'
    BY <1>1, <1>2, <1>3, <1>5, <2>1, <2>2 DEF Flow, KindAt, OnUnits, Issued
  <2>4. GoneInv' /\ BackendInv'
    BY <1>1, <1>2, <1>3, <1>5, <2>1, <2>2 DEF GoneInv, BackendInv, Issued, Namespaces, Unloaded
  <2>5. PromiseInv' /\ FilesInv' /\ AtInv'
    BY <1>1, <1>2, <1>3, <1>5, <2>1, <2>2 DEF PromiseInv, Standing, FilesInv, AtInv, N, Namespaces
  <2>6. CancelInv' /\ CancelAtInv'
    BY <1>1, <1>2, <1>3, <1>5, <2>1, <2>2 DEF CancelInv, CancelAtInv, N
  <2> QED
    BY <2>3, <2>4, <2>5, <2>6 DEF SchedulerInv
<1>6. CASE Fault /\ Go("rmtimer") /\ unit' = [unit EXCEPT ![N].tmr = op.task]
  <2>1. UNCHANGED <<mgr, sysd, queue, at, rec, gone, promise>> /\ Paid
    BY <1>6, CostFacts DEF WriteTimer, ghost, host
  <2>2. Kept /\ op'.pc = "rmtimer" /\ op'.err = op.err
    BY <1>1, <1>2, <1>3, <1>6, GoFacts DEF Pcs
  <2>3. OtherUnits(N) /\ unit'[N].tmr = op.task /\ unit'[N].svc = unit[N].svc
       /\ unit'[N].link = unit[N].link
    BY <1>1, <1>2, <1>3, <1>6, PutTmrFacts
  <2>4. Typed' /\ Flow'
    BY <1>1, <1>2, <1>3, <1>6, <2>1, <2>2, <2>3 DEF Flow, KindAt, OnUnits, Issued
  <2>5. GoneInv' /\ BackendInv'
    BY <1>1, <1>2, <1>3, <1>6, <2>1, <2>2, <2>3 DEF GoneInv, BackendInv, Issued, Namespaces,
       Unloaded
  <2>6. PromiseInv' /\ FilesInv' /\ AtInv'
    BY <1>1, <1>2, <1>3, <1>6, <2>1, <2>2, <2>3 DEF PromiseInv, Standing, FilesInv, AtInv, N,
       Namespaces
  <2>7. CancelInv' /\ CancelAtInv'
    BY <1>1, <1>2, <1>3, <1>6, <2>1, <2>2, <2>3 DEF CancelInv, CancelAtInv, N
  <2> QED
    BY <2>4, <2>5, <2>6, <2>7 DEF SchedulerInv
<1> QED
  BY <1>1, <1>2, <1>3, <1>4, <1>5, <1>6 DEF WriteTimer

\* daemon-reload, after which the manager has the contents of this task.
LEMMA ReloadKeeps ==
  ASSUME SchedulerInv, Reload
  PROVE  SchedulerInv'
<1>1. op.pc = "reload"
  BY DEF Reload, At
<1>2. AtWork
  BY <1>1, Working DEF OnUnits
<1>3. op.kind \in Schedules /\ op.task # 0
  BY <1>1, <1>2 DEF SchedulerInv, Flow, KindAt
<1>4. CASE Fine /\ Go("enable") /\ mgr' = Reloaded
  <2>1. UNCHANGED <<unit, sysd, queue, at, rec, gone, promise>> /\ Paid
    BY <1>4, CostFacts DEF Reload, ghost, host
  <2>2. Kept /\ op'.pc = "enable" /\ op'.err = op.err
    BY <1>1, <1>2, <1>3, <1>4, GoFacts DEF Pcs
  <2>3. MaybeReloaded /\ \A n \in Namespaces : unit[n].tmr # 0 => mgr'[n].svc = unit[n].svc
        /\ mgr'[n].tmr = unit[n].tmr
    BY <1>1, <1>2, <1>3, <1>4, MaybeReloadedFacts, ReloadedFacts
  <2>4. Typed' /\ Flow'
    BY <1>1, <1>2, <1>3, <1>4, <2>1, <2>2, <2>3 DEF Flow, KindAt, OnUnits, Issued
  <2>5. GoneInv' /\ BackendInv'
    BY <1>1, <1>2, <1>3, <1>4, <2>1, <2>2, <2>3 DEF GoneInv, BackendInv, Issued, Namespaces,
       Unloaded
  <2>6. PromiseInv' /\ FilesInv' /\ AtInv'
    BY <1>1, <1>2, <1>3, <1>4, <2>1, <2>2, <2>3 DEF PromiseInv, Standing, FilesInv, AtInv, N,
       Namespaces
  <2>7. CancelInv' /\ CancelAtInv'
    BY <1>1, <1>2, <1>3, <1>4, <2>1, <2>2, <2>3 DEF CancelInv, CancelAtInv, N
  <2> QED
    BY <2>4, <2>5, <2>6, <2>7 DEF SchedulerInv
<1>5. CASE Fault /\ Go("rmtimer") /\ mgr' \in {mgr, Reloaded}
  <2>1. UNCHANGED <<unit, sysd, queue, at, rec, gone, promise>> /\ Paid
    BY <1>5, CostFacts DEF Reload, ghost, host
  <2>2. Kept /\ op'.pc = "rmtimer" /\ op'.err = op.err
    BY <1>1, <1>2, <1>3, <1>5, GoFacts DEF Pcs
  <2>3. MaybeReloaded
    BY <1>1, <1>2, <1>3, <1>5, MaybeReloadedFacts
  <2>4. Typed' /\ Flow'
    BY <1>1, <1>2, <1>3, <1>5, <2>1, <2>2, <2>3 DEF Flow, KindAt, OnUnits, Issued
  <2>5. GoneInv' /\ BackendInv'
    BY <1>1, <1>2, <1>3, <1>5, <2>1, <2>2, <2>3 DEF GoneInv, BackendInv, Issued, Namespaces,
       Unloaded
  <2>6. PromiseInv' /\ FilesInv' /\ AtInv'
    BY <1>1, <1>2, <1>3, <1>5, <2>1, <2>2, <2>3 DEF PromiseInv, Standing, FilesInv, AtInv, N,
       Namespaces
  <2>7. CancelInv' /\ CancelAtInv'
    BY <1>1, <1>2, <1>3, <1>5, <2>1, <2>2, <2>3 DEF CancelInv, CancelAtInv, N
  <2> QED
    BY <2>4, <2>5, <2>6, <2>7 DEF SchedulerInv
<1> QED
  BY <1>1, <1>2, <1>3, <1>4, <1>5 DEF Reload

\* enable --now: the task is reported armed, or the rollback disables what may be armed.
LEMMA EnableKeeps ==
  ASSUME SchedulerInv, Enable
  PROVE  SchedulerInv'
<1>1. op.pc = "enable"
  BY DEF Enable, At
<1>2. AtWork
  BY <1>1, Working DEF OnUnits
<1>3. op.kind \in Schedules /\ op.task # 0
  BY <1>1, <1>2 DEF SchedulerInv, Flow, KindAt
<1>4. CASE /\ Fine
           /\ unit' = [unit EXCEPT ![N].link = TRUE] /\ mgr' = [mgr EXCEPT ![N] = Started(N)]
           /\ op' = [op EXCEPT !.pc = "commit", !.id = "unit"]
           /\ promise' = [promise EXCEPT ![N] = op.task]
  <2>1. UNCHANGED <<sysd, queue, at, rec, gone>> /\ Paid
    BY <1>4, CostFacts DEF Enable, ghost, host
  <2>2. Kept /\ op'.pc = "commit" /\ op'.id = "unit"
    BY <1>1, <1>2, <1>3, <1>4, OpFacts DEF Ids
  <2>3. OtherUnits(N) /\ unit'[N].link = TRUE /\ unit'[N].svc = unit[N].svc
       /\ unit'[N].tmr = unit[N].tmr
    BY <1>1, <1>2, <1>3, <1>4, PutLinkFacts
  <2>4. OtherTimers(N) /\ mgr'[N].phase # "dead" /\ mgr'[N].svc = op.task /\ mgr'[N].tmr = op.task
    BY <1>1, <1>2, <1>3, <1>4, StartedFacts DEF FilesInv, MgrType
  <2>5. /\ promise' \in PromiseType /\ promise'[N] = op.task
        /\ \A k \in {"auto", "quarantine", "at"} \ {N} : promise'[k] = promise[k]
    BY <1>1, <1>2, <1>3, <1>4 DEF PromiseType
  <2>6. unit'[N].svc = op.task /\ unit'[N].tmr = op.task
    BY <1>1, <1>2, <1>3, <1>4, <2>1, <2>2, <2>3, <2>4, <2>5 DEF FilesInv
  <2>7. Typed' /\ Flow'
    BY <1>1, <1>2, <1>3, <1>4, <2>1, <2>2, <2>3, <2>4, <2>5, <2>6 DEF Flow, KindAt, OnUnits, Issued
  <2>8. GoneInv' /\ BackendInv'
    BY <1>1, <1>2, <1>3, <1>4, <2>1, <2>2, <2>3, <2>4, <2>5, <2>6 DEF GoneInv, BackendInv, Issued,
       Namespaces, Unloaded
  <2>9. PromiseInv' /\ FilesInv' /\ AtInv'
    BY <1>1, <1>2, <1>3, <1>4, <2>1, <2>2, <2>3, <2>4, <2>5, <2>6 DEF PromiseInv, Standing,
       FilesInv, AtInv, N, Namespaces
  <2>10. CancelInv' /\ CancelAtInv'
    BY <1>1, <1>2, <1>3, <1>4, <2>1, <2>2, <2>3, <2>4, <2>5, <2>6 DEF CancelInv, CancelAtInv, N
  <2> QED
    BY <2>7, <2>8, <2>9, <2>10 DEF SchedulerInv
<1>5. CASE /\ Fault /\ promise' = promise
           /\ op' = [op EXCEPT !.pc = "disable", !.enabled = TRUE]
           /\ \E l, s \in BOOLEAN : /\ unit' = [unit EXCEPT ![N].link = @ \/ l]
                                    /\ mgr' = IF s THEN [mgr EXCEPT ![N] = Started(N)] ELSE mgr
  <2>1. PICK l \in BOOLEAN, s \in BOOLEAN :
           /\ unit' = [unit EXCEPT ![N].link = @ \/ l]
           /\ mgr' = IF s THEN [mgr EXCEPT ![N] = Started(N)] ELSE mgr
    BY <1>5
  <2>2. UNCHANGED <<sysd, queue, at, rec, gone, promise>> /\ Paid
    BY <1>5, CostFacts DEF Enable, ghost, host
  <2>3. Kept /\ op'.pc = "disable" /\ op'.err = op.err
    BY <1>1, <1>2, <1>3, <1>5, <2>1, <2>2, OpFacts
  <2>4. OtherUnits(N) /\ unit'[N].svc = unit[N].svc /\ unit'[N].tmr = unit[N].tmr
    BY <1>1, <1>2, <1>3, <1>5, <2>1, <2>2, <2>3, MaybeLinkFacts
  <2>5. OtherTimers(N) /\ mgr'[N].tmr = op.task
    BY <1>1, <1>2, <1>3, <1>5, <2>1, <2>2, <2>3, <2>4, StartedFacts DEF FilesInv, MgrType
  <2>6. Typed' /\ Flow'
    BY <1>1, <1>2, <1>3, <1>5, <2>1, <2>2, <2>3, <2>4, <2>5 DEF Flow, KindAt, OnUnits, Issued
  <2>7. GoneInv' /\ BackendInv'
    BY <1>1, <1>2, <1>3, <1>5, <2>1, <2>2, <2>3, <2>4, <2>5, SMTT(30) DEF GoneInv, BackendInv,
       Issued, Namespaces, Unloaded
  <2>8. PromiseInv' /\ FilesInv' /\ AtInv'
    BY <1>1, <1>2, <1>3, <1>5, <2>1, <2>2, <2>3, <2>4, <2>5 DEF PromiseInv, Standing, FilesInv,
       AtInv, N, Namespaces
  <2>9. CancelInv' /\ CancelAtInv'
    BY <1>1, <1>2, <1>3, <1>5, <2>1, <2>2, <2>3, <2>4, <2>5 DEF CancelInv, CancelAtInv, N
  <2> QED
    BY <2>6, <2>7, <2>8, <2>9 DEF SchedulerInv
<1> QED
  BY <1>1, <1>2, <1>3, <1>4, <1>5 DEF Enable

\* disable --now: a timer that is not confirmed stopped keeps its files; a schedule ends there,
\* a cancellation goes on with an error.
LEMMA DisableKeeps ==
  ASSUME SchedulerInv, Disable
  PROVE  SchedulerInv'
<1>1. op.pc = "disable"
  BY DEF Disable, At
<1>2. AtWork
  BY <1>1, Working DEF OnUnits
<1>3. CASE Fine /\ Go("stop") /\ unit' = unit /\ mgr' = mgr
  <2>1. UNCHANGED <<unit, mgr, sysd, queue, at, rec, gone, promise>> /\ Paid
    BY <1>3, CostFacts DEF Disable, ghost, host
  <2>2. Kept /\ op'.pc = "stop" /\ op'.err = op.err
    BY <1>1, <1>2, <1>3, GoFacts DEF Pcs
  <2>3. Typed' /\ Flow'
    BY <1>1, <1>2, <1>3, <2>1, <2>2 DEF Flow, KindAt, OnUnits, Issued
  <2>4. GoneInv' /\ BackendInv'
    BY <1>1, <1>2, <1>3, <2>1, <2>2 DEF GoneInv, BackendInv, Issued, Namespaces, Unloaded
  <2>5. PromiseInv' /\ FilesInv' /\ AtInv'
    BY <1>1, <1>2, <1>3, <2>1, <2>2 DEF PromiseInv, Standing, FilesInv, AtInv, N, Namespaces
  <2>6. CancelInv' /\ CancelAtInv'
    BY <1>1, <1>2, <1>3, <2>1, <2>2 DEF CancelInv, CancelAtInv, N
  <2> QED
    BY <2>3, <2>4, <2>5, <2>6 DEF SchedulerInv
<1>4. CASE Fine /\ Go("stamp") /\ unit' = [unit EXCEPT ![N].link = FALSE] /\ mgr' = Stopped(N)
  <2>1. UNCHANGED <<sysd, queue, at, rec, gone, promise>> /\ Paid
    BY <1>4, CostFacts DEF Disable, ghost, host
  <2>2. Kept /\ op'.pc = "stamp" /\ op'.err = op.err
    BY <1>1, <1>2, <1>4, GoFacts DEF Pcs
  <2>3. OtherUnits(N) /\ unit'[N].link = FALSE /\ unit'[N].svc = unit[N].svc
       /\ unit'[N].tmr = unit[N].tmr
    BY <1>1, <1>2, <1>4, PutLinkFacts
  <2>4. OtherTimers(N) /\ mgr'[N].phase = "dead"
    BY <1>1, <1>2, <1>4, StoppedFacts
  <2>5. Typed' /\ Flow'
    BY <1>1, <1>2, <1>4, <2>1, <2>2, <2>3, <2>4 DEF Flow, KindAt, OnUnits, Issued
  <2>6. GoneInv' /\ BackendInv'
    BY <1>1, <1>2, <1>4, <2>1, <2>2, <2>3, <2>4 DEF GoneInv, BackendInv, Issued, Namespaces,
       Unloaded
  <2>7. PromiseInv' /\ FilesInv' /\ AtInv'
    BY <1>1, <1>2, <1>4, <2>1, <2>2, <2>3, <2>4 DEF PromiseInv, Standing, FilesInv, AtInv, N,
       Namespaces
  <2>8. CancelInv' /\ CancelAtInv'
    BY <1>1, <1>2, <1>4, <2>1, <2>2, <2>3, <2>4 DEF CancelInv, CancelAtInv, N
  <2> QED
    BY <2>5, <2>6, <2>7, <2>8 DEF SchedulerInv
<1>5. CASE op.kind \in Cancels /\ Fault /\ Skip(TRUE)
           /\ unit' \in {unit, [unit EXCEPT ![N].link = FALSE]} /\ mgr' \in {mgr, Stopped(N)}
  <2>1. UNCHANGED <<sysd, queue, at, rec, gone, promise>> /\ Paid
    BY <1>5, CostFacts DEF Disable, ghost, host
  <2>2. Skipped /\ op'.err
    BY <1>1, <1>2, <1>5, SkipFacts
  <2>3. OtherUnits(N) /\ unit'[N].link \in {unit[N].link, FALSE} /\ unit'[N].svc = unit[N].svc
       /\ unit'[N].tmr = unit[N].tmr
    BY <1>1, <1>2, <1>5, PutLinkFacts
  <2>4. OtherTimers(N) /\ mgr'[N].phase \in {mgr[N].phase, "dead"}
    BY <1>1, <1>2, <1>5, StoppedFacts
  <2>5. Typed' /\ Flow'
    BY <1>1, <1>2, <1>5, <2>1, <2>2, <2>3, <2>4 DEF Flow, KindAt, OnUnits, Issued
  <2>6. GoneInv' /\ BackendInv'
    BY <1>1, <1>2, <1>5, <2>1, <2>2, <2>3, <2>4 DEF GoneInv, BackendInv, Issued, Namespaces,
       Unloaded
  <2>7. PromiseInv' /\ FilesInv' /\ AtInv'
    BY <1>1, <1>2, <1>5, <2>1, <2>2, <2>3, <2>4 DEF PromiseInv, Standing, FilesInv, AtInv, N,
       Namespaces
  <2>8. CancelInv' /\ CancelAtInv'
    BY <1>1, <1>2, <1>5, <2>1, <2>2, <2>3, <2>4 DEF CancelInv, CancelAtInv, N
  <2> QED
    BY <2>5, <2>6, <2>7, <2>8 DEF SchedulerInv
<1>6. CASE op.kind \notin Cancels /\ Fault /\ Return
           /\ unit' \in {unit, [unit EXCEPT ![N].link = FALSE]} /\ mgr' \in {mgr, Stopped(N)}
  <2>1. UNCHANGED <<sysd, queue, at, rec, gone, promise>> /\ Paid
    BY <1>6, CostFacts DEF Disable, ghost, host
  <2>2. Returned
    BY <1>1, <1>2, <1>6, ReturnFacts
  <2>3. OtherUnits(N) /\ unit'[N].link \in {unit[N].link, FALSE} /\ unit'[N].svc = unit[N].svc
       /\ unit'[N].tmr = unit[N].tmr
    BY <1>1, <1>2, <1>6, PutLinkFacts
  <2>4. OtherTimers(N) /\ mgr'[N].phase \in {mgr[N].phase, "dead"}
    BY <1>1, <1>2, <1>6, StoppedFacts
  <2>5. Typed' /\ Flow'
    BY <1>1, <1>2, <1>6, <2>1, <2>2, <2>3, <2>4 DEF Flow, KindAt, OnUnits, Issued
  <2>6. GoneInv' /\ BackendInv'
    BY <1>1, <1>2, <1>6, <2>1, <2>2, <2>3, <2>4 DEF GoneInv, BackendInv, Issued, Namespaces,
       Unloaded
  <2>7. PromiseInv' /\ FilesInv' /\ AtInv'
    BY <1>1, <1>2, <1>6, <2>1, <2>2, <2>3, <2>4 DEF PromiseInv, Standing, FilesInv, AtInv, N,
       Namespaces
  <2>8. CancelInv' /\ CancelAtInv'
    BY <1>1, <1>2, <1>6, <2>1, <2>2, <2>3, <2>4 DEF CancelInv, CancelAtInv, N
  <2> QED
    BY <2>5, <2>6, <2>7, <2>8 DEF SchedulerInv
<1> QED
  BY <1>1, <1>2, <1>3, <1>4, <1>5, <1>6 DEF Disable, Unconfirmed, Skip

\* stop, and is-active: only a timer confirmed dead loses its files.
LEMMA StopKeeps ==
  ASSUME SchedulerInv, Stop
  PROVE  SchedulerInv'
<1>1. op.pc = "stop"
  BY DEF Stop, At
<1>2. AtWork
  BY <1>1, Working DEF OnUnits
<1>3. CASE Fine /\ Go("stamp") /\ mgr' = Stopped(N)
  <2>1. UNCHANGED <<unit, sysd, queue, at, rec, gone, promise>> /\ Paid
    BY <1>3, CostFacts DEF Stop, ghost, host
  <2>2. Kept /\ op'.pc = "stamp" /\ op'.err = op.err
    BY <1>1, <1>2, <1>3, GoFacts DEF Pcs
  <2>3. OtherTimers(N) /\ mgr'[N].phase = "dead"
    BY <1>1, <1>2, <1>3, StoppedFacts
  <2>4. Typed' /\ Flow'
    BY <1>1, <1>2, <1>3, <2>1, <2>2, <2>3 DEF Flow, KindAt, OnUnits, Issued
  <2>5. GoneInv' /\ BackendInv'
    BY <1>1, <1>2, <1>3, <2>1, <2>2, <2>3 DEF GoneInv, BackendInv, Issued, Namespaces, Unloaded
  <2>6. PromiseInv' /\ FilesInv' /\ AtInv'
    BY <1>1, <1>2, <1>3, <2>1, <2>2, <2>3 DEF PromiseInv, Standing, FilesInv, AtInv, N, Namespaces
  <2>7. CancelInv' /\ CancelAtInv'
    BY <1>1, <1>2, <1>3, <2>1, <2>2, <2>3 DEF CancelInv, CancelAtInv, N
  <2> QED
    BY <2>4, <2>5, <2>6, <2>7 DEF SchedulerInv
<1>4. CASE op.kind \in Cancels /\ Fault /\ Skip(TRUE) /\ mgr' \in {mgr, Stopped(N)}
  <2>1. UNCHANGED <<unit, sysd, queue, at, rec, gone, promise>> /\ Paid
    BY <1>4, CostFacts DEF Stop, ghost, host
  <2>2. Skipped /\ op'.err
    BY <1>1, <1>2, <1>4, SkipFacts
  <2>3. OtherTimers(N) /\ mgr'[N].phase \in {mgr[N].phase, "dead"}
    BY <1>1, <1>2, <1>4, StoppedFacts
  <2>4. Typed' /\ Flow'
    BY <1>1, <1>2, <1>4, <2>1, <2>2, <2>3 DEF Flow, KindAt, OnUnits, Issued
  <2>5. GoneInv' /\ BackendInv'
    BY <1>1, <1>2, <1>4, <2>1, <2>2, <2>3 DEF GoneInv, BackendInv, Issued, Namespaces, Unloaded
  <2>6. PromiseInv' /\ FilesInv' /\ AtInv'
    BY <1>1, <1>2, <1>4, <2>1, <2>2, <2>3 DEF PromiseInv, Standing, FilesInv, AtInv, N, Namespaces
  <2>7. CancelInv' /\ CancelAtInv'
    BY <1>1, <1>2, <1>4, <2>1, <2>2, <2>3 DEF CancelInv, CancelAtInv, N
  <2> QED
    BY <2>4, <2>5, <2>6, <2>7 DEF SchedulerInv
<1>5. CASE op.kind \notin Cancels /\ Fault /\ Return /\ mgr' \in {mgr, Stopped(N)}
  <2>1. UNCHANGED <<unit, sysd, queue, at, rec, gone, promise>> /\ Paid
    BY <1>5, CostFacts DEF Stop, ghost, host
  <2>2. Returned
    BY <1>1, <1>2, <1>5, ReturnFacts
  <2>3. OtherTimers(N) /\ mgr'[N].phase \in {mgr[N].phase, "dead"}
    BY <1>1, <1>2, <1>5, StoppedFacts
  <2>4. Typed' /\ Flow'
    BY <1>1, <1>2, <1>5, <2>1, <2>2, <2>3 DEF Flow, KindAt, OnUnits, Issued
  <2>5. GoneInv' /\ BackendInv'
    BY <1>1, <1>2, <1>5, <2>1, <2>2, <2>3 DEF GoneInv, BackendInv, Issued, Namespaces, Unloaded
  <2>6. PromiseInv' /\ FilesInv' /\ AtInv'
    BY <1>1, <1>2, <1>5, <2>1, <2>2, <2>3 DEF PromiseInv, Standing, FilesInv, AtInv, N, Namespaces
  <2>7. CancelInv' /\ CancelAtInv'
    BY <1>1, <1>2, <1>5, <2>1, <2>2, <2>3 DEF CancelInv, CancelAtInv, N
  <2> QED
    BY <2>4, <2>5, <2>6, <2>7 DEF SchedulerInv
<1> QED
  BY <1>1, <1>2, <1>3, <1>4, <1>5 DEF Stop, Unconfirmed, Skip

\* The stamp goes first,
LEMMA RemoveStampKeeps ==
  ASSUME SchedulerInv, RemoveStamp
  PROVE  SchedulerInv'
<1>1. op.pc = "stamp"
  BY DEF RemoveStamp, At
<1>2. AtWork
  BY <1>1, Working DEF OnUnits
<1>3. CASE Fine /\ Go("rmtimer") /\ unit' = [unit EXCEPT ![N].stamp = 0]
  <2>1. UNCHANGED <<mgr, sysd, queue, at, rec, gone, promise>> /\ Paid
    BY <1>3, CostFacts DEF RemoveStamp, ghost, host
  <2>2. Kept /\ op'.pc = "rmtimer" /\ op'.err = op.err
    BY <1>1, <1>2, <1>3, GoFacts DEF Pcs
  <2>3. OtherUnits(N) /\ unit'[N].svc = unit[N].svc /\ unit'[N].tmr = unit[N].tmr
       /\ unit'[N].link = unit[N].link
    BY <1>1, <1>2, <1>3, PutStampFacts
  <2>4. Typed' /\ Flow'
    BY <1>1, <1>2, <1>3, <2>1, <2>2, <2>3 DEF Flow, KindAt, OnUnits, Issued
  <2>5. GoneInv' /\ BackendInv'
    BY <1>1, <1>2, <1>3, <2>1, <2>2, <2>3 DEF GoneInv, BackendInv, Issued, Namespaces, Unloaded
  <2>6. PromiseInv' /\ FilesInv' /\ AtInv'
    BY <1>1, <1>2, <1>3, <2>1, <2>2, <2>3 DEF PromiseInv, Standing, FilesInv, AtInv, N, Namespaces
  <2>7. CancelInv' /\ CancelAtInv'
    BY <1>1, <1>2, <1>3, <2>1, <2>2, <2>3 DEF CancelInv, CancelAtInv, N
  <2> QED
    BY <2>4, <2>5, <2>6, <2>7 DEF SchedulerInv
<1>4. CASE Fault /\ GoErr("rmtimer") /\ unit' \in {unit, [unit EXCEPT ![N].stamp = 0]}
  <2>1. UNCHANGED <<mgr, sysd, queue, at, rec, gone, promise>> /\ Paid
    BY <1>4, CostFacts DEF RemoveStamp, ghost, host
  <2>2. Kept /\ op'.pc = "rmtimer" /\ op'.err
    BY <1>1, <1>2, <1>4, GoErrFacts DEF Pcs
  <2>3. OtherUnits(N) /\ unit'[N].svc = unit[N].svc /\ unit'[N].tmr = unit[N].tmr
       /\ unit'[N].link = unit[N].link
    BY <1>1, <1>2, <1>4, PutStampFacts
  <2>4. Typed' /\ Flow'
    BY <1>1, <1>2, <1>4, <2>1, <2>2, <2>3 DEF Flow, KindAt, OnUnits, Issued
  <2>5. GoneInv' /\ BackendInv'
    BY <1>1, <1>2, <1>4, <2>1, <2>2, <2>3 DEF GoneInv, BackendInv, Issued, Namespaces, Unloaded
  <2>6. PromiseInv' /\ FilesInv' /\ AtInv'
    BY <1>1, <1>2, <1>4, <2>1, <2>2, <2>3 DEF PromiseInv, Standing, FilesInv, AtInv, N, Namespaces
  <2>7. CancelInv' /\ CancelAtInv'
    BY <1>1, <1>2, <1>4, <2>1, <2>2, <2>3 DEF CancelInv, CancelAtInv, N
  <2> QED
    BY <2>4, <2>5, <2>6, <2>7 DEF SchedulerInv
<1> QED
  BY <1>1, <1>2, <1>3, <1>4 DEF RemoveStamp

\* the timer file next,
LEMMA RemoveTimerKeeps ==
  ASSUME SchedulerInv, RemoveTimer
  PROVE  SchedulerInv'
<1>1. op.pc = "rmtimer"
  BY DEF RemoveTimer, At
<1>2. AtWork
  BY <1>1, Working DEF OnUnits
<1>3. CASE Fine /\ Go("rmservice") /\ unit' = [unit EXCEPT ![N].tmr = 0]
  <2>1. UNCHANGED <<mgr, sysd, queue, at, rec, gone, promise>> /\ Paid
    BY <1>3, CostFacts DEF RemoveTimer, ghost, host
  <2>2. Kept /\ op'.pc = "rmservice" /\ op'.err = op.err
    BY <1>1, <1>2, <1>3, GoFacts DEF Pcs
  <2>3. OtherUnits(N) /\ unit'[N].tmr = 0 /\ unit'[N].svc = unit[N].svc
       /\ unit'[N].link = unit[N].link
    BY <1>1, <1>2, <1>3, PutTmrFacts
  <2>4. Typed' /\ Flow'
    BY <1>1, <1>2, <1>3, <2>1, <2>2, <2>3 DEF Flow, KindAt, OnUnits, Issued
  <2>5. GoneInv' /\ BackendInv'
    BY <1>1, <1>2, <1>3, <2>1, <2>2, <2>3 DEF GoneInv, BackendInv, Issued, Namespaces, Unloaded
  <2>6. PromiseInv' /\ FilesInv' /\ AtInv'
    BY <1>1, <1>2, <1>3, <2>1, <2>2, <2>3 DEF PromiseInv, Standing, FilesInv, AtInv, N, Namespaces
  <2>7. CancelInv' /\ CancelAtInv'
    BY <1>1, <1>2, <1>3, <2>1, <2>2, <2>3 DEF CancelInv, CancelAtInv, N
  <2> QED
    BY <2>4, <2>5, <2>6, <2>7 DEF SchedulerInv
<1>4. CASE Fault /\ GoErr("rmservice") /\ unit' \in {unit, [unit EXCEPT ![N].tmr = 0]}
  <2>1. UNCHANGED <<mgr, sysd, queue, at, rec, gone, promise>> /\ Paid
    BY <1>4, CostFacts DEF RemoveTimer, ghost, host
  <2>2. Kept /\ op'.pc = "rmservice" /\ op'.err
    BY <1>1, <1>2, <1>4, GoErrFacts DEF Pcs
  <2>3. OtherUnits(N) /\ unit'[N].tmr \in {unit[N].tmr, 0} /\ unit'[N].svc = unit[N].svc
       /\ unit'[N].link = unit[N].link
    BY <1>1, <1>2, <1>4, PutTmrFacts
  <2>4. Typed' /\ Flow'
    BY <1>1, <1>2, <1>4, <2>1, <2>2, <2>3 DEF Flow, KindAt, OnUnits, Issued
  <2>5. GoneInv' /\ BackendInv'
    BY <1>1, <1>2, <1>4, <2>1, <2>2, <2>3 DEF GoneInv, BackendInv, Issued, Namespaces, Unloaded
  <2>6. PromiseInv' /\ FilesInv' /\ AtInv'
    BY <1>1, <1>2, <1>4, <2>1, <2>2, <2>3 DEF PromiseInv, Standing, FilesInv, AtInv, N, Namespaces
  <2>7. CancelInv' /\ CancelAtInv'
    BY <1>1, <1>2, <1>4, <2>1, <2>2, <2>3 DEF CancelInv, CancelAtInv, N
  <2> QED
    BY <2>4, <2>5, <2>6, <2>7 DEF SchedulerInv
<1> QED
  BY <1>1, <1>2, <1>3, <1>4 DEF RemoveTimer

\* and the service last, whose timer is then dead and has no file: the name space of a
\* cancellation is clear.
LEMMA RemoveServiceKeeps ==
  ASSUME SchedulerInv, RemoveService
  PROVE  SchedulerInv'
<1>1. op.pc = "rmservice"
  BY DEF RemoveService, At
<1>2. AtWork
  <2>1. op.pc \in OnUnits
    BY <1>1, ZenonT(40) DEF OnUnits
  <2> QED
    BY <2>1, Working
<1>3. PICK failed \in BOOLEAN :
       /\ IF failed THEN Fault /\ unit' \in {unit, [unit EXCEPT ![N].svc = 0]}
                    ELSE Fine /\ unit' = [unit EXCEPT ![N].svc = 0]
       /\ CASE Cancelling -> op' = [op EXCEPT !.pc = "units", !.err = @ \/ failed, !.ns = Tail(@)]
            [] ~Cancelling /\ op.enabled -> op' = [op EXCEPT !.pc = "finish", !.err = @ \/ failed]
            [] OTHER -> IF failed THEN Return ELSE EndRollback
  BY DEF RemoveService
<1>4. CASE op.kind \in Cancels /\ Skip(op.err \/ failed)
  <2>1. UNCHANGED <<mgr, sysd, queue, at, rec, gone, promise>> /\ Paid
    BY <1>4, <1>3, CostFacts DEF RemoveService, ghost, host
  <2>2. Skipped /\ op'.err = (op.err \/ failed)
    BY <1>1, <1>2, <1>3, <1>4, SkipFacts
  <2>3. OtherUnits(N) /\ unit'[N].tmr = unit[N].tmr /\ unit'[N].link = unit[N].link
       /\ unit'[N].svc \in {unit[N].svc, 0} /\ (~failed => unit'[N].svc = 0)
    BY <1>1, <1>2, <1>3, <1>4, PutSvcFacts
  <2>4. op.kind \in Cancels /\ ~op'.err => mgr'[N].phase = "dead" /\ unit'[N].tmr = 0
        /\ unit'[N].svc = 0 /\ ~op.err
    BY <1>1, <1>2, <1>3, <1>4, <2>1, <2>2, <2>3 DEF OpType, CancelInv
  <2>5. Typed' /\ Flow'
    BY <1>1, <1>2, <1>3, <1>4, <2>1, <2>2, <2>3, <2>4 DEF Flow, KindAt, OnUnits, Issued
  <2>6. GoneInv' /\ BackendInv'
    BY <1>1, <1>2, <1>3, <1>4, <2>1, <2>2, <2>3, <2>4 DEF GoneInv, BackendInv, Issued, Namespaces,
       Unloaded
  <2>7. PromiseInv' /\ FilesInv' /\ AtInv'
    BY <1>1, <1>2, <1>3, <1>4, <2>1, <2>2, <2>3, <2>4 DEF PromiseInv, Standing, FilesInv, AtInv, N,
       Namespaces
  <2>8. CancelInv' /\ CancelAtInv'
    BY <1>1, <1>2, <1>3, <1>4, <2>1, <2>2, <2>3, <2>4 DEF CancelInv, CancelAtInv, N
  <2> QED
    BY <2>5, <2>6, <2>7, <2>8 DEF SchedulerInv
<1>5. CASE op.kind \notin Cancels /\ op' = [op EXCEPT !.pc = "finish", !.err = @ \/ failed]
  <2>1. UNCHANGED <<mgr, sysd, queue, at, rec, gone, promise>> /\ Paid
    BY <1>5, <1>3, CostFacts DEF RemoveService, ghost, host
  <2>2. Kept /\ op'.pc = "finish" /\ (~op'.err => ~op.err)
    BY <1>1, <1>2, <1>3, <1>5, FinishFacts
  <2>3. OtherUnits(N) /\ unit'[N].tmr = unit[N].tmr /\ unit'[N].link = unit[N].link
       /\ unit'[N].svc \in {unit[N].svc, 0} /\ (~failed => unit'[N].svc = 0)
    BY <1>1, <1>2, <1>3, <1>5, PutSvcFacts
  <2>4. Typed' /\ Flow'
    BY <1>1, <1>2, <1>3, <1>5, <2>1, <2>2, <2>3 DEF Flow, KindAt, OnUnits, Issued
  <2>5. GoneInv' /\ BackendInv'
    BY <1>1, <1>2, <1>3, <1>5, <2>1, <2>2, <2>3 DEF GoneInv, BackendInv, Issued, Namespaces,
       Unloaded
  <2>6. PromiseInv' /\ FilesInv' /\ AtInv'
    BY <1>1, <1>2, <1>3, <1>5, <2>1, <2>2, <2>3 DEF PromiseInv, Standing, FilesInv, AtInv, N,
       Namespaces
  <2>7. CancelInv' /\ CancelAtInv'
    BY <1>1, <1>2, <1>3, <1>5, <2>1, <2>2, <2>3 DEF CancelInv, CancelAtInv, N
  <2> QED
    BY <2>4, <2>5, <2>6, <2>7 DEF SchedulerInv
<1>6. CASE Return
  <2>1. UNCHANGED <<mgr, sysd, queue, at, rec, gone, promise>> /\ Paid
    BY <1>6, <1>3, CostFacts DEF RemoveService, ghost, host
  <2>2. Returned
    BY <1>1, <1>2, <1>3, <1>6, ReturnFacts
  <2>3. OtherUnits(N) /\ unit'[N].tmr = unit[N].tmr /\ unit'[N].link = unit[N].link
       /\ unit'[N].svc \in {unit[N].svc, 0} /\ (~failed => unit'[N].svc = 0)
    BY <1>1, <1>2, <1>3, <1>6, PutSvcFacts
  <2>4. Typed' /\ Flow'
    BY <1>1, <1>2, <1>3, <1>6, <2>1, <2>2, <2>3 DEF Flow, KindAt, OnUnits, Issued
  <2>5. GoneInv' /\ BackendInv'
    BY <1>1, <1>2, <1>3, <1>6, <2>1, <2>2, <2>3 DEF GoneInv, BackendInv, Issued, Namespaces,
       Unloaded
  <2>6. PromiseInv' /\ FilesInv' /\ AtInv'
    BY <1>1, <1>2, <1>3, <1>6, <2>1, <2>2, <2>3 DEF PromiseInv, Standing, FilesInv, AtInv, N,
       Namespaces
  <2>7. CancelInv' /\ CancelAtInv'
    BY <1>1, <1>2, <1>3, <1>6, <2>1, <2>2, <2>3 DEF CancelInv, CancelAtInv, N
  <2> QED
    BY <2>4, <2>5, <2>6, <2>7 DEF SchedulerInv
<1>7. CASE op.kind = "schedule" /\ ~failed /\ ~op.err /\ Go("submit")
  <2>1. UNCHANGED <<mgr, sysd, queue, at, rec, gone, promise>> /\ Paid
    BY <1>7, <1>3, CostFacts DEF RemoveService, ghost, host
  <2>2. Kept /\ op'.pc = "submit" /\ op'.err = op.err
    BY <1>1, <1>2, <1>3, <1>7, GoFacts DEF Pcs
  <2>3. OtherUnits(N) /\ unit'[N].tmr = unit[N].tmr /\ unit'[N].link = unit[N].link
       /\ unit'[N].svc \in {unit[N].svc, 0} /\ (~failed => unit'[N].svc = 0)
    BY <1>1, <1>2, <1>3, <1>7, PutSvcFacts
  <2>4. Typed' /\ Flow'
    BY <1>1, <1>2, <1>3, <1>7, <2>1, <2>2, <2>3 DEF Flow, KindAt, OnUnits, Issued
  <2>5. GoneInv' /\ BackendInv'
    BY <1>1, <1>2, <1>3, <1>7, <2>1, <2>2, <2>3 DEF GoneInv, BackendInv, Issued, Namespaces,
       Unloaded
  <2>6. PromiseInv' /\ FilesInv' /\ AtInv'
    BY <1>1, <1>2, <1>3, <1>7, <2>1, <2>2, <2>3 DEF PromiseInv, Standing, FilesInv, AtInv, N,
       Namespaces
  <2>7. CancelInv' /\ CancelAtInv'
    BY <1>1, <1>2, <1>3, <1>7, <2>1, <2>2, <2>3 DEF CancelInv, CancelAtInv, N
  <2> QED
    BY <2>4, <2>5, <2>6, <2>7 DEF SchedulerInv
<1>8. CASE Cancelling
  <2>1. op' = [op EXCEPT !.pc = "units", !.err = @ \/ failed, !.ns = Tail(@)]
    BY <1>3, <1>8
  <2> QED
    BY <2>1, <1>4, <1>8, Zenon DEF Skip
<1>9. CASE ~Cancelling /\ op.enabled
  <2>1. op' = [op EXCEPT !.pc = "finish", !.err = @ \/ failed]
    BY <1>3, <1>9
  <2> QED
    BY <2>1, <1>5, <1>9, Zenon
<1>10. CASE ~Cancelling /\ ~op.enabled
  <2>1. IF failed THEN Return ELSE EndRollback
    BY <1>3, <1>10
  <2> QED
    BY <2>1, <1>6, <1>7 DEF EndRollback, Fallback
<1> QED
  BY <1>8, <1>9, <1>10

\* The closing daemon-reload of a rollback: only one without an error leads to at.
LEMMA FinishRollbackKeeps ==
  ASSUME SchedulerInv, FinishRollback
  PROVE  SchedulerInv'
<1>1. op.pc = "finish"
  BY DEF FinishRollback, At
<1>2. AtWork
  BY <1>1, Working DEF OnUnits
<1>3. CASE Fine /\ mgr' = Reloaded /\ Return
  <2>1. UNCHANGED <<unit, sysd, queue, at, rec, gone, promise>> /\ Paid
    BY <1>3, CostFacts DEF FinishRollback, ghost, host
  <2>2. Returned
    BY <1>1, <1>2, <1>3, ReturnFacts
  <2>3. MaybeReloaded
    BY <1>1, <1>2, <1>3, MaybeReloadedFacts
  <2>4. Typed' /\ Flow'
    BY <1>1, <1>2, <1>3, <2>1, <2>2, <2>3 DEF Flow, KindAt, OnUnits, Issued
  <2>5. GoneInv' /\ BackendInv'
    BY <1>1, <1>2, <1>3, <2>1, <2>2, <2>3 DEF GoneInv, BackendInv, Issued, Namespaces, Unloaded
  <2>6. PromiseInv' /\ FilesInv' /\ AtInv'
    BY <1>1, <1>2, <1>3, <2>1, <2>2, <2>3 DEF PromiseInv, Standing, FilesInv, AtInv, N, Namespaces
  <2>7. CancelInv' /\ CancelAtInv'
    BY <1>1, <1>2, <1>3, <2>1, <2>2, <2>3 DEF CancelInv, CancelAtInv, N
  <2> QED
    BY <2>4, <2>5, <2>6, <2>7 DEF SchedulerInv
<1>4. CASE Fine /\ mgr' = Reloaded /\ op.kind = "schedule" /\ ~op.err /\ Go("submit")
  <2>1. UNCHANGED <<unit, sysd, queue, at, rec, gone, promise>> /\ Paid
    BY <1>4, CostFacts DEF FinishRollback, ghost, host
  <2>2. Kept /\ op'.pc = "submit" /\ op'.err = op.err
    BY <1>1, <1>2, <1>4, GoFacts DEF Pcs
  <2>3. MaybeReloaded
    BY <1>1, <1>2, <1>4, MaybeReloadedFacts
  <2>4. Typed' /\ Flow'
    BY <1>1, <1>2, <1>4, <2>1, <2>2, <2>3 DEF Flow, KindAt, OnUnits, Issued
  <2>5. GoneInv' /\ BackendInv'
    BY <1>1, <1>2, <1>4, <2>1, <2>2, <2>3 DEF GoneInv, BackendInv, Issued, Namespaces, Unloaded
  <2>6. PromiseInv' /\ FilesInv' /\ AtInv'
    BY <1>1, <1>2, <1>4, <2>1, <2>2, <2>3 DEF PromiseInv, Standing, FilesInv, AtInv, N, Namespaces
  <2>7. CancelInv' /\ CancelAtInv'
    BY <1>1, <1>2, <1>4, <2>1, <2>2, <2>3 DEF CancelInv, CancelAtInv, N
  <2> QED
    BY <2>4, <2>5, <2>6, <2>7 DEF SchedulerInv
<1>5. CASE Fault /\ mgr' \in {mgr, Reloaded} /\ Return
  <2>1. UNCHANGED <<unit, sysd, queue, at, rec, gone, promise>> /\ Paid
    BY <1>5, CostFacts DEF FinishRollback, ghost, host
  <2>2. Returned
    BY <1>1, <1>2, <1>5, ReturnFacts
  <2>3. MaybeReloaded
    BY <1>1, <1>2, <1>5, MaybeReloadedFacts
  <2>4. Typed' /\ Flow'
    BY <1>1, <1>2, <1>5, <2>1, <2>2, <2>3 DEF Flow, KindAt, OnUnits, Issued
  <2>5. GoneInv' /\ BackendInv'
    BY <1>1, <1>2, <1>5, <2>1, <2>2, <2>3 DEF GoneInv, BackendInv, Issued, Namespaces, Unloaded
  <2>6. PromiseInv' /\ FilesInv' /\ AtInv'
    BY <1>1, <1>2, <1>5, <2>1, <2>2, <2>3 DEF PromiseInv, Standing, FilesInv, AtInv, N, Namespaces
  <2>7. CancelInv' /\ CancelAtInv'
    BY <1>1, <1>2, <1>5, <2>1, <2>2, <2>3 DEF CancelInv, CancelAtInv, N
  <2> QED
    BY <2>4, <2>5, <2>6, <2>7 DEF SchedulerInv
<1> QED
  BY <1>1, <1>2, <1>3, <1>4, <1>5 DEF FinishRollback, EndRollback, Fallback

\* The job is queued while the timer it stands in for is dead and has no file; or at failed,
\* and may have queued it.
LEMMA ScheduleAtKeeps ==
  ASSUME SchedulerInv, ScheduleAt
  PROVE  SchedulerInv'
<1>1. op.pc = "submit"
  BY DEF ScheduleAt, At
<1>2. op.kind \in {"schedule"} /\ op.task # 0 /\ op.task \in Contents /\ op.task \in 1..Issued
  BY <1>1, TaskFacts DEF SchedulerInv, Flow, KindAt, Typed, OpType, Schedules
<1>3. CASE Fine /\ Return /\ queue' = queue /\ promise' = promise
  <2>1. UNCHANGED <<unit, mgr, sysd, queue, at, rec, gone, promise>> /\ Paid
    BY <1>3, CostFacts DEF ScheduleAt, ghost, host
  <2>2. Returned
    BY <1>1, <1>2, <1>3, ReturnFacts
  <2>3. Typed' /\ Flow'
    BY <1>1, <1>2, <1>3, <2>1, <2>2 DEF Flow, KindAt, OnUnits, Issued
  <2>4. GoneInv' /\ BackendInv'
    BY <1>1, <1>2, <1>3, <2>1, <2>2 DEF GoneInv, BackendInv, Issued, Namespaces, Unloaded
  <2>5. PromiseInv' /\ FilesInv' /\ AtInv'
    BY <1>1, <1>2, <1>3, <2>1, <2>2 DEF PromiseInv, Standing, FilesInv, AtInv, N, Namespaces
  <2>6. CancelInv' /\ CancelAtInv'
    BY <1>1, <1>2, <1>3, <2>1, <2>2 DEF CancelInv, CancelAtInv, N
  <2> QED
    BY <2>3, <2>4, <2>5, <2>6 DEF SchedulerInv
<1>4. CASE /\ Fine
           /\ \E id \in AtIds : /\ queue[id] = Free
                                /\ queue' = [queue EXCEPT ![id] = [owner |-> "root", cmd |-> op.task]]
                                /\ op' = [op EXCEPT !.pc = "commit", !.id = id]
                                /\ promise' = [promise EXCEPT !["at"] = op.task]
  <2>1. PICK id \in AtIds :
           /\ queue[id] = Free
           /\ queue' = [queue EXCEPT ![id] = [owner |-> "root", cmd |-> op.task]]
           /\ op' = [op EXCEPT !.pc = "commit", !.id = id]
           /\ promise' = [promise EXCEPT !["at"] = op.task]
    BY <1>4
  <2>2. UNCHANGED <<unit, mgr, sysd, at, rec, gone>> /\ Paid
    BY <1>4, CostFacts DEF ScheduleAt, ghost, host
  <2>3. Kept /\ op'.pc = "commit" /\ op'.id = id
    BY <1>1, <1>2, <1>4, <2>1, <2>2, OpFacts DEF Ids
  <2>4. /\ queue' \in QueueType /\ Own(queue'[id]) /\ queue'[id].cmd = op.task /\ ~Own(queue[id])
        /\ \A i \in AtIds \ {id} : queue'[i] = queue[i]
    BY <1>1, <1>2, <1>4, <2>1, <2>2, <2>3, SubmittedFacts
  <2>5. /\ promise' \in PromiseType /\ promise'["at"] = op.task
        /\ \A k \in {"auto", "quarantine"} : promise'[k] = promise[k]
    BY <1>1, <1>2, <1>4, <2>1, <2>2, <2>3, <2>4 DEF PromiseType
  <2>6. Typed' /\ Flow'
    BY <1>1, <1>2, <1>4, <2>1, <2>2, <2>3, <2>4, <2>5 DEF Flow, KindAt, OnUnits, Issued
  <2>7. GoneInv' /\ BackendInv'
    BY <1>1, <1>2, <1>4, <2>1, <2>2, <2>3, <2>4, <2>5 DEF GoneInv, BackendInv, Issued, Namespaces,
       Unloaded
  <2>8. PromiseInv' /\ FilesInv' /\ AtInv'
    BY <1>1, <1>2, <1>4, <2>1, <2>2, <2>3, <2>4, <2>5 DEF PromiseInv, Standing, FilesInv, AtInv, N,
       Namespaces
  <2>9. CancelInv' /\ CancelAtInv'
    BY <1>1, <1>2, <1>4, <2>1, <2>2, <2>3, <2>4, <2>5 DEF CancelInv, CancelAtInv, N
  <2> QED
    BY <2>6, <2>7, <2>8, <2>9 DEF SchedulerInv
<1>5. CASE (Fine \/ Fault) /\ GoErr("inventory") /\ queue' = queue /\ promise' = promise
  <2>1. UNCHANGED <<unit, mgr, sysd, queue, at, rec, gone, promise>> /\ Paid
    BY <1>5, CostFacts DEF ScheduleAt, ghost, host
  <2>2. Kept /\ op'.pc = "inventory" /\ op'.err
    BY <1>1, <1>2, <1>5, GoErrFacts DEF Pcs
  <2>3. Typed' /\ Flow'
    BY <1>1, <1>2, <1>5, <2>1, <2>2 DEF Flow, KindAt, OnUnits, Issued
  <2>4. GoneInv' /\ BackendInv'
    BY <1>1, <1>2, <1>5, <2>1, <2>2 DEF GoneInv, BackendInv, Issued, Namespaces, Unloaded
  <2>5. PromiseInv' /\ FilesInv' /\ AtInv'
    BY <1>1, <1>2, <1>5, <2>1, <2>2 DEF PromiseInv, Standing, FilesInv, AtInv, N, Namespaces
  <2>6. CancelInv' /\ CancelAtInv'
    BY <1>1, <1>2, <1>5, <2>1, <2>2 DEF CancelInv, CancelAtInv, N
  <2> QED
    BY <2>3, <2>4, <2>5, <2>6 DEF SchedulerInv
<1>6. CASE /\ Fault /\ GoErr("inventory") /\ promise' = promise
           /\ \E id \in AtIds : /\ queue[id] = Free
                                /\ queue' = [queue EXCEPT ![id] = [owner |-> "root", cmd |-> op.task]]
  <2>1. PICK id \in AtIds :
           /\ queue[id] = Free
           /\ queue' = [queue EXCEPT ![id] = [owner |-> "root", cmd |-> op.task]]
    BY <1>6
  <2>2. UNCHANGED <<unit, mgr, sysd, at, rec, gone, promise>> /\ Paid
    BY <1>6, CostFacts DEF ScheduleAt, ghost, host
  <2>3. Kept /\ op'.pc = "inventory" /\ op'.err
    BY <1>1, <1>2, <1>6, <2>1, <2>2, GoErrFacts DEF Pcs
  <2>4. /\ queue' \in QueueType /\ Own(queue'[id]) /\ queue'[id].cmd = op.task /\ ~Own(queue[id])
        /\ \A i \in AtIds \ {id} : queue'[i] = queue[i]
    BY <1>1, <1>2, <1>6, <2>1, <2>2, <2>3, SubmittedFacts
  <2>5. Typed' /\ Flow'
    BY <1>1, <1>2, <1>6, <2>1, <2>2, <2>3, <2>4 DEF Flow, KindAt, OnUnits, Issued
  <2>6. GoneInv' /\ BackendInv'
    BY <1>1, <1>2, <1>6, <2>1, <2>2, <2>3, <2>4 DEF GoneInv, BackendInv, Issued, Namespaces,
       Unloaded
  <2>7. PromiseInv' /\ FilesInv' /\ AtInv'
    BY <1>1, <1>2, <1>6, <2>1, <2>2, <2>3, <2>4 DEF PromiseInv, Standing, FilesInv, AtInv, N,
       Namespaces
  <2>8. CancelInv' /\ CancelAtInv'
    BY <1>1, <1>2, <1>6, <2>1, <2>2, <2>3, <2>4 DEF CancelInv, CancelAtInv, N
  <2> QED
    BY <2>5, <2>6, <2>7, <2>8 DEF SchedulerInv
<1> QED
  BY <1>1, <1>2, <1>3, <1>4, <1>5, <1>6 DEF ScheduleAt

\* A complete inventory names every task that is in the queue.
LEMMA AtInventoryKeeps ==
  ASSUME SchedulerInv, AtInventory
  PROVE  SchedulerInv'
<1>1. op.pc = "inventory"
  BY DEF AtInventory, At
<1>2. op.kind \in {"schedule"} \cup Cancels
  BY <1>1 DEF SchedulerInv, Flow, KindAt, Typed, OpType, Schedules
<1>3. CASE Fine /\ op.kind \in Cancels /\ AtDone(FALSE)
           /\ (at = "none" \/ op.kind = "cancelQuarantine")
  <2>1. UNCHANGED <<unit, mgr, sysd, queue, at, rec, gone, promise>> /\ Paid
    BY <1>3, CostFacts DEF AtInventory, ghost, host
  <2>2. Kept /\ op'.pc = "units" /\ op'.err = (op.err \/ FALSE)
    BY <1>1, <1>2, <1>3, AtDoneFacts
  <2>3. Typed' /\ Flow'
    BY <1>1, <1>2, <1>3, <2>1, <2>2 DEF Flow, KindAt, OnUnits, Issued
  <2>4. GoneInv' /\ BackendInv'
    BY <1>1, <1>2, <1>3, <2>1, <2>2 DEF GoneInv, BackendInv, Issued, Namespaces, Unloaded
  <2>5. PromiseInv' /\ FilesInv' /\ AtInv'
    BY <1>1, <1>2, <1>3, <2>1, <2>2 DEF PromiseInv, Standing, FilesInv, AtInv, N, Namespaces
  <2>6. CancelInv' /\ CancelAtInv'
    BY <1>1, <1>2, <1>3, <2>1, <2>2 DEF CancelInv, CancelAtInv, N
  <2> QED
    BY <2>3, <2>4, <2>5, <2>6 DEF SchedulerInv
<1>4. CASE (Fine \/ Fault) /\ op.kind \in Cancels /\ AtDone(TRUE)
  <2>1. UNCHANGED <<unit, mgr, sysd, queue, at, rec, gone, promise>> /\ Paid
    BY <1>4, CostFacts DEF AtInventory, ghost, host
  <2>2. Kept /\ op'.pc = "units" /\ op'.err = (op.err \/ TRUE)
    BY <1>1, <1>2, <1>4, AtDoneFacts
  <2>3. Typed' /\ Flow'
    BY <1>1, <1>2, <1>4, <2>1, <2>2 DEF Flow, KindAt, OnUnits, Issued
  <2>4. GoneInv' /\ BackendInv'
    BY <1>1, <1>2, <1>4, <2>1, <2>2 DEF GoneInv, BackendInv, Issued, Namespaces, Unloaded
  <2>5. PromiseInv' /\ FilesInv' /\ AtInv'
    BY <1>1, <1>2, <1>4, <2>1, <2>2 DEF PromiseInv, Standing, FilesInv, AtInv, N, Namespaces
  <2>6. CancelInv' /\ CancelAtInv'
    BY <1>1, <1>2, <1>4, <2>1, <2>2 DEF CancelInv, CancelAtInv, N
  <2> QED
    BY <2>3, <2>4, <2>5, <2>6 DEF SchedulerInv
<1>5. CASE (Fine \/ Fault) /\ op.kind \notin Cancels /\ Return
  <2>1. UNCHANGED <<unit, mgr, sysd, queue, at, rec, gone, promise>> /\ Paid
    BY <1>5, CostFacts DEF AtInventory, ghost, host
  <2>2. Returned
    BY <1>1, <1>2, <1>5, ReturnFacts
  <2>3. Typed' /\ Flow'
    BY <1>1, <1>2, <1>5, <2>1, <2>2 DEF Flow, KindAt, OnUnits, Issued
  <2>4. GoneInv' /\ BackendInv'
    BY <1>1, <1>2, <1>5, <2>1, <2>2 DEF GoneInv, BackendInv, Issued, Namespaces, Unloaded
  <2>5. PromiseInv' /\ FilesInv' /\ AtInv'
    BY <1>1, <1>2, <1>5, <2>1, <2>2 DEF PromiseInv, Standing, FilesInv, AtInv, N, Namespaces
  <2>6. CancelInv' /\ CancelAtInv'
    BY <1>1, <1>2, <1>5, <2>1, <2>2 DEF CancelInv, CancelAtInv, N
  <2> QED
    BY <2>3, <2>4, <2>5, <2>6 DEF SchedulerInv
<1>6. CASE /\ Fine /\ op.kind # "cancelQuarantine"
           /\ op' = [op EXCEPT !.pc = "reread", !.todo = {id \in AtIds : Match(queue[id])}]
  <2>1. PICK s \in SUBSET AtIds : s = {id \in AtIds : Match(queue[id])}
        /\ op' = [op EXCEPT !.pc = "reread", !.todo = s]
    BY <1>6
  <2>2. UNCHANGED <<unit, mgr, sysd, queue, at, rec, gone, promise>> /\ Paid
    <3>1. UNCHANGED <<host, rec, ghost>>
      BY DEF AtInventory
    <3>2. Paid
      BY <1>6, CostFacts, ZenonT(40)
    <3> QED
      BY <3>1, <3>2 DEF ghost, host
  <2>3. Kept /\ op'.pc = "reread" /\ op'.err = op.err
        /\ op'.todo = {id \in AtIds : Match(queue[id])}
    BY <1>1, <1>2, <1>6, <2>1, <2>2, OpFacts
  <2>4. op.kind \in Cancels => \A id \in AtIds : Own(queue[id]) => id \in op'.todo
    BY <1>1, <1>2, <1>6, <2>1, <2>2, <2>3 DEF Match
  <2>5. Typed' /\ Flow'
    BY <1>1, <1>2, <1>6, <2>1, <2>2, <2>3, <2>4 DEF Flow, KindAt, OnUnits, Issued
  <2>6. GoneInv' /\ BackendInv'
    BY <1>1, <1>2, <1>6, <2>1, <2>2, <2>3, <2>4 DEF GoneInv, BackendInv, Issued, Namespaces,
       Unloaded
  <2>7. PromiseInv' /\ FilesInv' /\ AtInv'
    BY <1>1, <1>2, <1>6, <2>1, <2>2, <2>3, <2>4 DEF PromiseInv, Standing, FilesInv, AtInv, N,
       Namespaces
  <2>8. CancelInv' /\ CancelAtInv'
    BY <1>1, <1>2, <1>6, <2>1, <2>2, <2>3, <2>4, SMTT(30) DEF CancelInv, CancelAtInv, N
  <2> QED
    BY <2>5, <2>6, <2>7, <2>8 DEF SchedulerInv
<1> QED
  BY <1>3, <1>4, <1>5, <1>6 DEF AtInventory, AfterAt, AtDone

\* A job is authorized for atrm only as long as it is a task.
LEMMA AtRereadKeeps ==
  ASSUME SchedulerInv, AtReread
  PROVE  SchedulerInv'
<1>1. op.pc = "reread"
  BY DEF AtReread, At
<1>2. op.kind \in {"schedule", "cancel", "cancelAuto"}
  BY <1>1 DEF SchedulerInv, Flow, KindAt, Typed, OpType, Schedules
<1>3. CASE Fine /\ op.kind \in Cancels /\ op.todo = {} /\ AtDone(FALSE)
  <2>1. UNCHANGED <<unit, mgr, sysd, queue, at, rec, gone, promise>> /\ Paid
    BY <1>3, CostFacts DEF AtReread, ghost, host
  <2>2. Kept /\ op'.pc = "units" /\ op'.err = (op.err \/ FALSE)
    BY <1>1, <1>2, <1>3, AtDoneFacts
  <2>3. Typed' /\ Flow'
    BY <1>1, <1>2, <1>3, <2>1, <2>2 DEF Flow, KindAt, OnUnits, Issued
  <2>4. GoneInv' /\ BackendInv'
    BY <1>1, <1>2, <1>3, <2>1, <2>2 DEF GoneInv, BackendInv, Issued, Namespaces, Unloaded
  <2>5. PromiseInv' /\ FilesInv' /\ AtInv'
    BY <1>1, <1>2, <1>3, <2>1, <2>2 DEF PromiseInv, Standing, FilesInv, AtInv, N, Namespaces
  <2>6. CancelInv' /\ CancelAtInv'
    BY <1>1, <1>2, <1>3, <2>1, <2>2 DEF CancelInv, CancelAtInv, N
  <2> QED
    BY <2>3, <2>4, <2>5, <2>6 DEF SchedulerInv
<1>4. CASE Fine /\ op.kind \notin Cancels /\ Return
  <2>1. UNCHANGED <<unit, mgr, sysd, queue, at, rec, gone, promise>> /\ Paid
    BY <1>4, CostFacts DEF AtReread, ghost, host
  <2>2. Returned
    BY <1>1, <1>2, <1>4, ReturnFacts
  <2>3. Typed' /\ Flow'
    BY <1>1, <1>2, <1>4, <2>1, <2>2 DEF Flow, KindAt, OnUnits, Issued
  <2>4. GoneInv' /\ BackendInv'
    BY <1>1, <1>2, <1>4, <2>1, <2>2 DEF GoneInv, BackendInv, Issued, Namespaces, Unloaded
  <2>5. PromiseInv' /\ FilesInv' /\ AtInv'
    BY <1>1, <1>2, <1>4, <2>1, <2>2 DEF PromiseInv, Standing, FilesInv, AtInv, N, Namespaces
  <2>6. CancelInv' /\ CancelAtInv'
    BY <1>1, <1>2, <1>4, <2>1, <2>2 DEF CancelInv, CancelAtInv, N
  <2> QED
    BY <2>3, <2>4, <2>5, <2>6 DEF SchedulerInv
<1>5. CASE Fine /\ \E id \in op.todo : Match(queue[id])
           /\ op' = [op EXCEPT !.pc = "atrm", !.id = id]
  <2>1. PICK id \in op.todo : Match(queue[id]) /\ op' = [op EXCEPT !.pc = "atrm", !.id = id]
    BY <1>5
  <2>2. UNCHANGED <<unit, mgr, sysd, queue, at, rec, gone, promise>> /\ Paid
    BY <1>5, CostFacts DEF AtReread, ghost, host
  <2>3. Kept /\ op'.pc = "atrm" /\ op'.id = id /\ id \in AtIds /\ op'.err = op.err
        /\ op'.todo = op.todo
    BY <1>1, <1>2, <1>5, <2>1, <2>2, OpFacts DEF OpType, Ids
  <2>4. Own(queue[id])
    BY <1>1, <1>2, <1>5, <2>1, <2>2, <2>3 DEF Match
  <2>5. Typed' /\ Flow'
    BY <1>1, <1>2, <1>5, <2>1, <2>2, <2>3, <2>4 DEF Flow, KindAt, OnUnits, Issued
  <2>6. GoneInv' /\ BackendInv'
    BY <1>1, <1>2, <1>5, <2>1, <2>2, <2>3, <2>4 DEF GoneInv, BackendInv, Issued, Namespaces,
       Unloaded
  <2>7. PromiseInv' /\ FilesInv' /\ AtInv'
    BY <1>1, <1>2, <1>5, <2>1, <2>2, <2>3, <2>4 DEF PromiseInv, Standing, FilesInv, AtInv, N,
       Namespaces
  <2>8. CancelInv' /\ CancelAtInv'
    BY <1>1, <1>2, <1>5, <2>1, <2>2, <2>3, <2>4 DEF CancelInv, CancelAtInv, N
  <2> QED
    BY <2>5, <2>6, <2>7, <2>8 DEF SchedulerInv
<1>6. CASE Fine /\ \E id \in op.todo : ~Match(queue[id]) /\ op' = [op EXCEPT !.todo = @ \ {id}]
  <2>1. PICK id \in op.todo : ~Match(queue[id]) /\ op' = [op EXCEPT !.todo = @ \ {id}]
    BY <1>6
  <2>2. UNCHANGED <<unit, mgr, sysd, queue, at, rec, gone, promise>> /\ Paid
    BY <1>6, CostFacts DEF AtReread, ghost, host
  <2>3. Kept /\ op'.pc = "reread" /\ op'.err = op.err /\ op'.todo = op.todo \ {id}
    BY <1>1, <1>2, <1>6, <2>1, <2>2, OpFacts DEF OpType
  <2>4. op.kind \in Cancels => ~Own(queue[id])
    BY <1>1, <1>2, <1>6, <2>1, <2>2, <2>3 DEF Match
  <2>5. Typed' /\ Flow'
    BY <1>1, <1>2, <1>6, <2>1, <2>2, <2>3, <2>4 DEF Flow, KindAt, OnUnits, Issued
  <2>6. GoneInv' /\ BackendInv'
    BY <1>1, <1>2, <1>6, <2>1, <2>2, <2>3, <2>4 DEF GoneInv, BackendInv, Issued, Namespaces,
       Unloaded
  <2>7. PromiseInv' /\ FilesInv' /\ AtInv'
    BY <1>1, <1>2, <1>6, <2>1, <2>2, <2>3, <2>4 DEF PromiseInv, Standing, FilesInv, AtInv, N,
       Namespaces
  <2>8. CancelInv' /\ CancelAtInv'
    BY <1>1, <1>2, <1>6, <2>1, <2>2, <2>3, <2>4 DEF CancelInv, CancelAtInv, N
  <2> QED
    BY <2>5, <2>6, <2>7, <2>8 DEF SchedulerInv
<1>7. CASE Fault /\ \E id \in op.todo : op' = [op EXCEPT !.todo = @ \ {id}, !.err = TRUE]
  <2>1. PICK id \in op.todo : op' = [op EXCEPT !.todo = @ \ {id}, !.err = TRUE]
    BY <1>7
  <2>2. UNCHANGED <<unit, mgr, sysd, queue, at, rec, gone, promise>> /\ Paid
    BY <1>7, CostFacts DEF AtReread, ghost, host
  <2>3. Kept /\ op'.pc = "reread" /\ op'.err
    BY <1>1, <1>2, <1>7, <2>1, <2>2, OpFacts DEF OpType
  <2>4. Typed' /\ Flow'
    BY <1>1, <1>2, <1>7, <2>1, <2>2, <2>3 DEF Flow, KindAt, OnUnits, Issued
  <2>5. GoneInv' /\ BackendInv'
    BY <1>1, <1>2, <1>7, <2>1, <2>2, <2>3 DEF GoneInv, BackendInv, Issued, Namespaces, Unloaded
  <2>6. PromiseInv' /\ FilesInv' /\ AtInv'
    BY <1>1, <1>2, <1>7, <2>1, <2>2, <2>3 DEF PromiseInv, Standing, FilesInv, AtInv, N, Namespaces
  <2>7. CancelInv' /\ CancelAtInv'
    BY <1>1, <1>2, <1>7, <2>1, <2>2, <2>3 DEF CancelInv, CancelAtInv, N
  <2> QED
    BY <2>4, <2>5, <2>6, <2>7 DEF SchedulerInv
<1> QED
  BY <1>3, <1>4, <1>5, <1>6, <1>7 DEF AtReread, AfterAt, AtDone

\* atrm on a task that was there just now: the queue has one task less, or the call an error.
LEMMA AtRemoveKeeps ==
  ASSUME SchedulerInv, AtRemove
  PROVE  SchedulerInv'
<1>1. op.pc = "atrm"
  BY DEF AtRemove, At
<1>2. op.kind \in {"schedule", "cancel", "cancelAuto"}
  BY <1>1 DEF SchedulerInv, Flow, KindAt, Typed, OpType, Schedules
<1>3. CASE (Fine \/ Fault) /\ queue' = [queue EXCEPT ![op.id] = Free] /\ op' = Removed
  <2>1. UNCHANGED <<unit, mgr, sysd, at, rec, gone, promise>> /\ Paid
    BY <1>3, CostFacts DEF AtRemove, ghost, host
  <2>2. Kept /\ op'.pc = "reread" /\ op'.err = op.err /\ op'.todo = op.todo \ {op.id}
    BY <1>1, <1>2, <1>3, RemovedFacts
  <2>3. /\ queue' \in QueueType /\ ~Own(queue'[op.id]) /\ queue'[op.id] = Free
        /\ \A i \in AtIds \ {op.id} : queue'[i] = queue[i]
    BY <1>1, <1>2, <1>3, FreedFacts DEF AtInv
  <2>4. Typed' /\ Flow'
    BY <1>1, <1>2, <1>3, <2>1, <2>2, <2>3 DEF Flow, KindAt, OnUnits, Issued
  <2>5. GoneInv' /\ BackendInv'
    BY <1>1, <1>2, <1>3, <2>1, <2>2, <2>3 DEF GoneInv, BackendInv, Issued, Namespaces, Unloaded
  <2>6. PromiseInv' /\ FilesInv' /\ AtInv'
    BY <1>1, <1>2, <1>3, <2>1, <2>2, <2>3 DEF PromiseInv, Standing, FilesInv, AtInv, N, Namespaces
  <2>7. CancelInv' /\ CancelAtInv'
    BY <1>1, <1>2, <1>3, <2>1, <2>2, <2>3 DEF CancelInv, CancelAtInv, N
  <2> QED
    BY <2>4, <2>5, <2>6, <2>7 DEF SchedulerInv
<1>4. CASE Fault /\ queue' \in {queue, [queue EXCEPT ![op.id] = Free]}
           /\ op' = [Removed EXCEPT !.err = TRUE]
  <2>1. UNCHANGED <<unit, mgr, sysd, at, rec, gone, promise>> /\ Paid
    BY <1>4, CostFacts DEF AtRemove, ghost, host
  <2>2. Kept /\ op'.pc = "reread" /\ op'.err
    BY <1>1, <1>2, <1>4, RemovedFacts
  <2>3. /\ queue' \in QueueType /\ (queue'[op.id] = queue[op.id] \/ ~Own(queue'[op.id]))
        /\ \A i \in AtIds \ {op.id} : queue'[i] = queue[i]
    BY <1>1, <1>2, <1>4, FreedFacts DEF AtInv
  <2>4. Typed' /\ Flow'
    BY <1>1, <1>2, <1>4, <2>1, <2>2, <2>3 DEF Flow, KindAt, OnUnits, Issued
  <2>5. GoneInv' /\ BackendInv'
    BY <1>1, <1>2, <1>4, <2>1, <2>2, <2>3 DEF GoneInv, BackendInv, Issued, Namespaces, Unloaded
  <2>6. PromiseInv' /\ FilesInv' /\ AtInv'
    BY <1>1, <1>2, <1>4, <2>1, <2>2, <2>3 DEF PromiseInv, Standing, FilesInv, AtInv, N, Namespaces
  <2>7. CancelInv' /\ CancelAtInv'
    BY <1>1, <1>2, <1>4, <2>1, <2>2, <2>3 DEF CancelInv, CancelAtInv, N
  <2> QED
    BY <2>4, <2>5, <2>6, <2>7 DEF SchedulerInv
<1> QED
  BY <1>1, <1>2, <1>3, <1>4 DEF AtRemove, Removed

\* A name space of a cancellation: without a manager, one without any evidence of a task.
LEMMA CancelUnitKeeps ==
  ASSUME SchedulerInv, CancelUnit
  PROVE  SchedulerInv'
<1>1. op.pc = "units"
  BY DEF CancelUnit, At
<1>2. AtWork
  BY <1>1, Working DEF CancelUnit
<1>3. op.kind \in Cancels
  BY <1>1, <1>2 DEF SchedulerInv, Flow, KindAt, Typed, OpType, Schedules
<1>4. CASE Fine /\ sysd /\ Go("disable")
  <2>1. UNCHANGED <<unit, mgr, sysd, queue, at, rec, gone, promise>> /\ Paid
    BY <1>4, CostFacts DEF CancelUnit, ghost, host
  <2>2. Kept /\ op'.pc = "disable" /\ op'.err = op.err
    BY <1>1, <1>2, <1>3, <1>4, GoFacts DEF Pcs
  <2>3. op.ns # <<>>
    BY <1>1, <1>2, <1>3, <1>4, <2>1, <2>2 DEF CancelUnit
  <2>4. Typed' /\ Flow'
    BY <1>1, <1>2, <1>3, <1>4, <2>1, <2>2, <2>3 DEF Flow, KindAt, OnUnits, Issued
  <2>5. GoneInv' /\ BackendInv'
    BY <1>1, <1>2, <1>3, <1>4, <2>1, <2>2, <2>3 DEF GoneInv, BackendInv, Issued, Namespaces,
       Unloaded
  <2>6. PromiseInv' /\ FilesInv' /\ AtInv'
    BY <1>1, <1>2, <1>3, <1>4, <2>1, <2>2, <2>3 DEF PromiseInv, Standing, FilesInv, AtInv, N,
       Namespaces
  <2>7. CancelInv' /\ CancelAtInv'
    BY <1>1, <1>2, <1>3, <1>4, <2>1, <2>2, <2>3 DEF CancelInv, CancelAtInv, N
  <2> QED
    BY <2>4, <2>5, <2>6, <2>7 DEF SchedulerInv
<1>5. CASE Fine /\ ~sysd /\ Skip(op.err \/ Evidence(N))
  <2>1. UNCHANGED <<unit, mgr, sysd, queue, at, rec, gone, promise>> /\ Paid
    BY <1>5, CostFacts DEF CancelUnit, ghost, host
  <2>2. Skipped /\ op'.err = (op.err \/ Evidence(N))
    BY <1>1, <1>2, <1>3, <1>5, SkipFacts DEF OpType, Evidence
  <2>3. ~op'.err => mgr[N].phase = "dead" /\ unit[N].tmr = 0 /\ unit[N].svc = 0 /\ ~op.err
    BY <1>1, <1>2, <1>3, <1>5, <2>1, <2>2 DEF OpType, Flow, Evidence, Unloaded
  <2>4. Typed' /\ Flow'
    BY <1>1, <1>2, <1>3, <1>5, <2>1, <2>2, <2>3 DEF Flow, KindAt, OnUnits, Issued
  <2>5. GoneInv' /\ BackendInv'
    BY <1>1, <1>2, <1>3, <1>5, <2>1, <2>2, <2>3 DEF GoneInv, BackendInv, Issued, Namespaces,
       Unloaded
  <2>6. PromiseInv' /\ FilesInv' /\ AtInv'
    BY <1>1, <1>2, <1>3, <1>5, <2>1, <2>2, <2>3 DEF PromiseInv, Standing, FilesInv, AtInv, N,
       Namespaces
  <2>7. CancelInv' /\ CancelAtInv'
    BY <1>1, <1>2, <1>3, <1>5, <2>1, <2>2, <2>3 DEF CancelInv, CancelAtInv, N
  <2> QED
    BY <2>4, <2>5, <2>6, <2>7 DEF SchedulerInv
<1> QED
  BY <1>1, <1>2, <1>3, <1>4, <1>5 DEF CancelUnit, Skip

\* A cancellation without an error has reached every name space and the queue, so that what
\* it answers for is clear.
LEMMA FinishCancelKeeps ==
  ASSUME SchedulerInv, FinishCancel
  PROVE  SchedulerInv'
<1>1. op.pc = "units"
  BY DEF FinishCancel, At
<1>2. op.kind \in Cancels
  BY <1>1 DEF SchedulerInv, Flow, KindAt, Typed, OpType, Schedules
<1>3. CASE /\ Fine /\ Return /\ mgr' = IF sysd THEN Reloaded ELSE mgr
           /\ gone' = IF op.err THEN gone ELSE gone \cup op.clean
  <2>1. UNCHANGED <<unit, sysd, queue, at, rec, promise>> /\ Paid
    BY <1>3, CostFacts DEF FinishCancel, ghost, host
  <2>2. Returned
    BY <1>1, <1>2, <1>3, ReturnFacts
  <2>3. MaybeReloaded /\ (~sysd => mgr' = mgr)
    BY <1>1, <1>2, <1>3, MaybeReloadedFacts
  <2>4. /\ gone' \subseteq Namespaces \cup {"at"}
        /\ gone' = gone \/ (~op.err /\ gone' = gone \cup op.clean)
    BY <1>1, <1>2, <1>3 DEF OpType
  <2>5. Cancelling /\ Left(op.ns) = {}
    BY <1>1, <1>2, <1>3, <2>1, <2>2, <2>3, <2>4, Bare DEF FinishCancel
  <2>6. gone' # gone => /\ \A n \in op.clean \cap Namespaces : Clear(n)
                        /\ "at" \in op.clean => NoOwn
    BY <1>1, <1>2, <1>3, <2>1, <2>2, <2>3, <2>4, <2>5 DEF CancelInv, CancelAtInv
  <2>7. Typed' /\ Flow'
    BY <1>1, <1>2, <1>3, <2>1, <2>2, <2>3, <2>4, <2>5, <2>6 DEF Flow, KindAt, OnUnits, Issued
  <2>8. GoneInv' /\ BackendInv'
    BY <1>1, <1>2, <1>3, <2>1, <2>2, <2>3, <2>4, <2>5, <2>6 DEF GoneInv, BackendInv, Issued,
       Namespaces, Unloaded
  <2>9. PromiseInv' /\ FilesInv' /\ AtInv'
    BY <1>1, <1>2, <1>3, <2>1, <2>2, <2>3, <2>4, <2>5, <2>6 DEF PromiseInv, Standing, FilesInv,
       AtInv, N, Namespaces
  <2>10. CancelInv' /\ CancelAtInv'
    BY <1>1, <1>2, <1>3, <2>1, <2>2, <2>3, <2>4, <2>5, <2>6 DEF CancelInv, CancelAtInv, N
  <2> QED
    BY <2>7, <2>8, <2>9, <2>10 DEF SchedulerInv
<1>4. CASE Fault /\ Return /\ sysd /\ mgr' \in {mgr, Reloaded} /\ gone' = gone
  <2>1. UNCHANGED <<unit, sysd, queue, at, rec, gone, promise>> /\ Paid
    BY <1>4, CostFacts DEF FinishCancel, ghost, host
  <2>2. Returned
    BY <1>1, <1>2, <1>4, ReturnFacts
  <2>3. MaybeReloaded
    BY <1>1, <1>2, <1>4, MaybeReloadedFacts
  <2>4. Typed' /\ Flow'
    BY <1>1, <1>2, <1>4, <2>1, <2>2, <2>3 DEF Flow, KindAt, OnUnits, Issued
  <2>5. GoneInv' /\ BackendInv'
    BY <1>1, <1>2, <1>4, <2>1, <2>2, <2>3 DEF GoneInv, BackendInv, Issued, Namespaces, Unloaded
  <2>6. PromiseInv' /\ FilesInv' /\ AtInv'
    BY <1>1, <1>2, <1>4, <2>1, <2>2, <2>3 DEF PromiseInv, Standing, FilesInv, AtInv, N, Namespaces
  <2>7. CancelInv' /\ CancelAtInv'
    BY <1>1, <1>2, <1>4, <2>1, <2>2, <2>3 DEF CancelInv, CancelAtInv, N
  <2> QED
    BY <2>4, <2>5, <2>6, <2>7 DEF SchedulerInv
<1> QED
  BY <1>1, <1>2, <1>3, <1>4 DEF FinishCancel

\* The registry row takes the identifier of the task, or a cancellation takes its promise back.
LEMMA RecordTaskKeeps ==
  ASSUME SchedulerInv, RecordTask
  PROVE  SchedulerInv'
<1>1. op.pc = "commit"
  BY DEF RecordTask, At
<1>2. op.kind \in Schedules /\ op.task # 0
  BY <1>1 DEF SchedulerInv, Flow, KindAt
<1>3. CASE Fine /\ Return /\ promise' = promise /\ op.kind = "schedule"
           /\ rec' = [rec EXCEPT !["auto"] = op.id]
  <2>1. UNCHANGED <<unit, mgr, sysd, queue, at, gone, promise>> /\ Paid
    BY <1>3, CostFacts DEF RecordTask, ghost, host
  <2>2. Returned
    BY <1>1, <1>2, <1>3, ReturnFacts
  <2>3. /\ rec' \in RecType
    BY <1>1, <1>2, <1>3 DEF RecType, OpType, Ids, Flow
  <2>4. Typed' /\ Flow'
    BY <1>1, <1>2, <1>3, <2>1, <2>2, <2>3 DEF Flow, KindAt, OnUnits, Issued
  <2>5. GoneInv' /\ BackendInv'
    BY <1>1, <1>2, <1>3, <2>1, <2>2, <2>3 DEF GoneInv, BackendInv, Issued, Namespaces, Unloaded
  <2>6. PromiseInv' /\ FilesInv' /\ AtInv'
    BY <1>1, <1>2, <1>3, <2>1, <2>2, <2>3 DEF PromiseInv, Standing, FilesInv, AtInv, N, Namespaces
  <2>7. CancelInv' /\ CancelAtInv'
    BY <1>1, <1>2, <1>3, <2>1, <2>2, <2>3 DEF CancelInv, CancelAtInv, N
  <2> QED
    BY <2>4, <2>5, <2>6, <2>7 DEF SchedulerInv
<1>4. CASE Fine /\ Return /\ promise' = promise /\ op.kind = "scheduleQuarantine"
           /\ rec' = [rec EXCEPT !["quarantine"] = op.id]
  <2>1. UNCHANGED <<unit, mgr, sysd, queue, at, gone, promise>> /\ Paid
    BY <1>4, CostFacts DEF RecordTask, ghost, host
  <2>2. Returned
    BY <1>1, <1>2, <1>4, ReturnFacts
  <2>3. /\ rec' \in RecType
    BY <1>1, <1>2, <1>4 DEF RecType, OpType, Ids, Flow
  <2>4. Typed' /\ Flow'
    BY <1>1, <1>2, <1>4, <2>1, <2>2, <2>3 DEF Flow, KindAt, OnUnits, Issued
  <2>5. GoneInv' /\ BackendInv'
    BY <1>1, <1>2, <1>4, <2>1, <2>2, <2>3 DEF GoneInv, BackendInv, Issued, Namespaces, Unloaded
  <2>6. PromiseInv' /\ FilesInv' /\ AtInv'
    BY <1>1, <1>2, <1>4, <2>1, <2>2, <2>3 DEF PromiseInv, Standing, FilesInv, AtInv, N, Namespaces
  <2>7. CancelInv' /\ CancelAtInv'
    BY <1>1, <1>2, <1>4, <2>1, <2>2, <2>3 DEF CancelInv, CancelAtInv, N
  <2> QED
    BY <2>4, <2>5, <2>6, <2>7 DEF SchedulerInv
<1>5. CASE Fault /\ rec' = rec /\ op' = CancelCall("cancel", op.id)
           /\ promise' = Unpromise("cancel")
  <2>1. UNCHANGED <<unit, mgr, sysd, queue, at, rec, gone>> /\ Paid
    BY <1>5, CostFacts DEF RecordTask, ghost, host
  <2>2. Called("cancel")
    BY <1>1, <1>2, <1>5, CancelCallFacts, SchedulerAssumption DEF Contents, OpType
  <2>3. Unpromised("cancel")
    BY <1>1, <1>2, <1>5, UnpromiseFacts
  <2>4. Typed' /\ Flow'
    BY <1>1, <1>2, <1>5, <2>1, <2>2, <2>3 DEF Flow, KindAt, OnUnits, Issued
  <2>5. GoneInv' /\ BackendInv'
    BY <1>1, <1>2, <1>5, <2>1, <2>2, <2>3 DEF GoneInv, BackendInv, Issued, Namespaces, Unloaded
  <2>6. PromiseInv' /\ FilesInv' /\ AtInv'
    BY <1>1, <1>2, <1>5, <2>1, <2>2, <2>3 DEF PromiseInv, Standing, FilesInv, AtInv, N, Namespaces
  <2>7. CancelInv' /\ CancelAtInv'
    BY <1>1, <1>2, <1>5, <2>1, <2>2, <2>3 DEF CancelInv, CancelAtInv, N
  <2> QED
    BY <2>4, <2>5, <2>6, <2>7 DEF SchedulerInv
<1>6. CASE Fault /\ rec' = rec /\ op' = CancelCall("cancelQuarantine", op.id)
           /\ promise' = Unpromise("cancelQuarantine")
  <2>1. UNCHANGED <<unit, mgr, sysd, queue, at, rec, gone>> /\ Paid
    BY <1>6, CostFacts DEF RecordTask, ghost, host
  <2>2. Called("cancelQuarantine")
    BY <1>1, <1>2, <1>6, CancelCallFacts, SchedulerAssumption DEF Contents, OpType
  <2>3. Unpromised("cancelQuarantine")
    BY <1>1, <1>2, <1>6, UnpromiseFacts
  <2>4. Typed' /\ Flow'
    BY <1>1, <1>2, <1>6, <2>1, <2>2, <2>3 DEF Flow, KindAt, OnUnits, Issued
  <2>5. GoneInv' /\ BackendInv'
    BY <1>1, <1>2, <1>6, <2>1, <2>2, <2>3 DEF GoneInv, BackendInv, Issued, Namespaces, Unloaded
  <2>6. PromiseInv' /\ FilesInv' /\ AtInv'
    BY <1>1, <1>2, <1>6, <2>1, <2>2, <2>3 DEF PromiseInv, Standing, FilesInv, AtInv, N, Namespaces
  <2>7. CancelInv' /\ CancelAtInv'
    BY <1>1, <1>2, <1>6, <2>1, <2>2, <2>3 DEF CancelInv, CancelAtInv, N
  <2> QED
    BY <2>4, <2>5, <2>6, <2>7 DEF SchedulerInv
<1> QED
  BY <1>1, <1>2, <1>3, <1>4, <1>5, <1>6 DEF RecordTask

\* An expiry task has a fresh number, so that no job in the queue is its own.
LEMMA StartScheduleKeeps ==
  ASSUME SchedulerInv, StartSchedule
  PROVE  SchedulerInv'
<1>1. op.pc = "idle"
  BY DEF StartSchedule, At
<1>2. CASE Spend("tasks") /\ sysd /\ op' = [Idle EXCEPT !.pc = "service", !.kind = "schedule",
                                   !.task = Tasks + 1 - left.tasks, !.ns = Prefixes("schedule")]
  <2>1. UNCHANGED <<unit, mgr, sysd, queue, at>>
    BY <1>2 DEF StartSchedule, ghost, host
  <2>2. left' \in LeftType /\ Issued' = Issued + 1 /\ Issued \in Nat /\ Issued + 1 # Legacy
        /\ Issued + 1 # 0
        /\ Issued + 1 \in Contents /\ Tasks + 1 - left.tasks = Issued + 1
    BY <1>1, <1>2, IssueFacts
  <2>3. /\ op' \in OpType /\ op'.pc = "service" /\ op'.kind = "schedule" /\ op'.task = Issued + 1
        /\ op'.ns \in Ahead("schedule") /\ op'.ns # <<>> /\ Left(op'.ns) = {"auto"}
    BY <1>1, <1>2, <2>2, StartFacts DEF Pcs
  <2>4. rec' \in RecType
    BY <1>1, <1>2 DEF StartSchedule, RecType, Ids
  <2>5. gone' = gone \ {"auto", "at"}
    BY <1>1, <1>2 DEF StartSchedule
  <2>6. /\ promise' \in PromiseType /\ promise'["auto"] = 0 /\ promise'["at"] = 0
        /\ promise'["quarantine"] = promise["quarantine"]
    BY <1>1, <1>2, SchedulerAssumption DEF StartSchedule, PromiseType, Contents
  <2>7. Dead("auto") /\ unit["auto"].tmr = 0
    BY <1>1, <1>2, <2>1, <2>2, <2>3, <2>4, <2>5, <2>6 DEF StartSchedule, GoneInv, Namespaces
  <2>8. \A id \in AtIds : Own(queue[id]) => queue[id].cmd # op'.task
        /\ queue[id].cmd \in 1..(Issued + 1) \cup {Legacy}
    BY <1>1, <1>2, <2>1, <2>2, <2>3, <2>4, <2>5, <2>6, <2>7 DEF BackendInv
  <2>9. Typed' /\ Flow'
    BY <1>1, <1>2, <2>1, <2>2, <2>3, <2>4, <2>5, <2>6, <2>7, <2>8 DEF Flow, KindAt, OnUnits, Issued
  <2>10. GoneInv' /\ BackendInv'
    BY <1>1, <1>2, <2>1, <2>2, <2>3, <2>4, <2>5, <2>6, <2>7, <2>8 DEF GoneInv, BackendInv, Issued,
       Namespaces, Unloaded
  <2>11. PromiseInv' /\ FilesInv' /\ AtInv'
    BY <1>1, <1>2, <2>1, <2>2, <2>3, <2>4, <2>5, <2>6, <2>7, <2>8 DEF PromiseInv, Standing,
       FilesInv, AtInv, N, Namespaces
  <2>12. CancelInv' /\ CancelAtInv'
    BY <1>1, <1>2, <2>1, <2>2, <2>3, <2>4, <2>5, <2>6, <2>7, <2>8 DEF CancelInv, CancelAtInv, N
  <2> QED
    BY <2>9, <2>10, <2>11, <2>12 DEF SchedulerInv
<1>3. CASE Spend("tasks") /\ ~sysd /\ op' = [Idle EXCEPT !.pc = "submit", !.kind = "schedule",
                                   !.task = Tasks + 1 - left.tasks, !.ns = Prefixes("schedule")]
  <2>1. UNCHANGED <<unit, mgr, sysd, queue, at>>
    BY <1>3 DEF StartSchedule, ghost, host
  <2>2. left' \in LeftType /\ Issued' = Issued + 1 /\ Issued \in Nat /\ Issued + 1 # Legacy
        /\ Issued + 1 # 0
        /\ Issued + 1 \in Contents /\ Tasks + 1 - left.tasks = Issued + 1
    BY <1>1, <1>3, IssueFacts
  <2>3. /\ op' \in OpType /\ op'.pc = "submit" /\ op'.kind = "schedule" /\ op'.task = Issued + 1
        /\ op'.ns \in Ahead("schedule") /\ op'.ns # <<>> /\ Left(op'.ns) = {"auto"}
    BY <1>1, <1>3, <2>2, StartFacts DEF Pcs
  <2>4. rec' \in RecType
    BY <1>1, <1>3 DEF StartSchedule, RecType, Ids
  <2>5. gone' = gone \ {"auto", "at"}
    BY <1>1, <1>3 DEF StartSchedule
  <2>6. /\ promise' \in PromiseType /\ promise'["auto"] = 0 /\ promise'["at"] = 0
        /\ promise'["quarantine"] = promise["quarantine"]
    BY <1>1, <1>3, SchedulerAssumption DEF StartSchedule, PromiseType, Contents
  <2>7. Dead("auto") /\ unit["auto"].tmr = 0
    BY <1>1, <1>3, <2>1, <2>2, <2>3, <2>4, <2>5, <2>6 DEF StartSchedule, GoneInv, Namespaces
  <2>8. \A id \in AtIds : Own(queue[id]) => queue[id].cmd # op'.task
        /\ queue[id].cmd \in 1..(Issued + 1) \cup {Legacy}
    BY <1>1, <1>3, <2>1, <2>2, <2>3, <2>4, <2>5, <2>6, <2>7 DEF BackendInv
  <2>9. Typed' /\ Flow'
    BY <1>1, <1>3, <2>1, <2>2, <2>3, <2>4, <2>5, <2>6, <2>7, <2>8 DEF Flow, KindAt, OnUnits, Issued
  <2>10. GoneInv' /\ BackendInv'
    BY <1>1, <1>3, <2>1, <2>2, <2>3, <2>4, <2>5, <2>6, <2>7, <2>8 DEF GoneInv, BackendInv, Issued,
       Namespaces, Unloaded
  <2>11. PromiseInv' /\ FilesInv' /\ AtInv'
    BY <1>1, <1>3, <2>1, <2>2, <2>3, <2>4, <2>5, <2>6, <2>7, <2>8 DEF PromiseInv, Standing,
       FilesInv, AtInv, N, Namespaces
  <2>12. CancelInv' /\ CancelAtInv'
    BY <1>1, <1>3, <2>1, <2>2, <2>3, <2>4, <2>5, <2>6, <2>7, <2>8 DEF CancelInv, CancelAtInv, N
  <2> QED
    BY <2>9, <2>10, <2>11, <2>12 DEF SchedulerInv
<1> QED
  BY <1>1, <1>2, <1>3 DEF StartSchedule

\* So has the finalizer of a quarantine.
LEMMA StartScheduleQuarantineKeeps ==
  ASSUME SchedulerInv, StartScheduleQuarantine
  PROVE  SchedulerInv'
<1>1. op.pc = "idle"
  BY DEF StartScheduleQuarantine, At
<1>2. CASE Spend("tasks") /\ sysd
           /\ op' = [Idle EXCEPT !.pc = "service", !.kind = "scheduleQuarantine",
                                   !.task = Tasks + 1 - left.tasks, !.ns = Prefixes("scheduleQuarantine")]
  <2>1. UNCHANGED <<unit, mgr, sysd, queue, at, rec>>
    BY <1>2 DEF StartScheduleQuarantine, ghost, host
  <2>2. left' \in LeftType /\ Issued' = Issued + 1 /\ Issued \in Nat /\ Issued + 1 # Legacy
        /\ Issued + 1 # 0
        /\ Issued + 1 \in Contents /\ Tasks + 1 - left.tasks = Issued + 1
    BY <1>1, <1>2, IssueFacts
  <2>3. /\ op' \in OpType /\ op'.pc = "service" /\ op'.kind = "scheduleQuarantine"
        /\ op'.task = Issued + 1
        /\ op'.ns \in Ahead("scheduleQuarantine") /\ op'.ns # <<>> /\ Left(op'.ns) = {"quarantine"}
    BY <1>1, <1>2, <2>2, StartFacts DEF Pcs
  <2>4. gone' = gone \ {"quarantine"}
    BY <1>1, <1>2 DEF StartScheduleQuarantine
  <2>5. /\ promise' \in PromiseType /\ promise'["quarantine"] = 0
        /\ promise'["auto"] = promise["auto"] /\ promise'["at"] = promise["at"]
    BY <1>1, <1>2, SchedulerAssumption DEF StartScheduleQuarantine, PromiseType, Contents
  <2>6. \A id \in AtIds : Own(queue[id]) => queue[id].cmd # op'.task
        /\ queue[id].cmd \in 1..(Issued + 1) \cup {Legacy}
    BY <1>1, <1>2, <2>1, <2>2, <2>3, <2>4, <2>5 DEF BackendInv
  <2>7. Typed' /\ Flow'
    BY <1>1, <1>2, <2>1, <2>2, <2>3, <2>4, <2>5, <2>6 DEF Flow, KindAt, OnUnits, Issued
  <2>8. GoneInv' /\ BackendInv'
    BY <1>1, <1>2, <2>1, <2>2, <2>3, <2>4, <2>5, <2>6 DEF GoneInv, BackendInv, Issued, Namespaces,
       Unloaded
  <2>9. PromiseInv' /\ FilesInv' /\ AtInv'
    BY <1>1, <1>2, <2>1, <2>2, <2>3, <2>4, <2>5, <2>6 DEF PromiseInv, Standing, FilesInv, AtInv, N,
       Namespaces
  <2>10. CancelInv' /\ CancelAtInv'
    BY <1>1, <1>2, <2>1, <2>2, <2>3, <2>4, <2>5, <2>6 DEF CancelInv, CancelAtInv, N
  <2> QED
    BY <2>7, <2>8, <2>9, <2>10 DEF SchedulerInv
<1> QED
  BY <1>1, <1>2 DEF StartScheduleQuarantine

\* A cancellation begins, with a recorded at job it may not be able to verify.
LEMMA StartCancelKeeps ==
  ASSUME SchedulerInv, NEW kind \in Cancels, NEW r \in Ids, StartCancel(kind, r)
  PROVE  SchedulerInv'
<1>1. op.pc = "idle"
  BY DEF StartCancel, At
<1>2. CASE Fine /\ op' = CancelCall(kind, r) /\ promise' = Unpromise(kind)
  <2>1. UNCHANGED <<unit, mgr, sysd, queue, at, rec, gone>> /\ Paid
    BY <1>2, CostFacts DEF StartCancel, ghost, host
  <2>2. Called(kind)
    BY <1>1, <1>2, CancelCallFacts, SchedulerAssumption DEF Contents
  <2>3. Unpromised(kind)
    BY <1>1, <1>2, UnpromiseFacts
  <2>4. Typed' /\ Flow'
    BY <1>1, <1>2, <2>1, <2>2, <2>3 DEF Flow, KindAt, OnUnits, Issued
  <2>5. GoneInv' /\ BackendInv'
    BY <1>1, <1>2, <2>1, <2>2, <2>3 DEF GoneInv, BackendInv, Issued, Namespaces, Unloaded
  <2>6. PromiseInv' /\ FilesInv' /\ AtInv'
    BY <1>1, <1>2, <2>1, <2>2, <2>3 DEF PromiseInv, Standing, FilesInv, AtInv, N, Namespaces
  <2>7. CancelInv' /\ CancelAtInv'
    BY <1>1, <1>2, <2>1, <2>2, <2>3 DEF CancelInv, CancelAtInv, N
  <2> QED
    BY <2>4, <2>5, <2>6, <2>7 DEF SchedulerInv
<1> QED
  BY <1>1, <1>2 DEF StartCancel

\* A command that is killed leaves whatever it had done; what is promised or cancelled does
\* not depend on it.
LEMMA KillKeeps ==
  ASSUME SchedulerInv, Kill
  PROVE  SchedulerInv'
<1>1. CASE Fault /\ op' = Idle
  <2>1. UNCHANGED <<unit, mgr, sysd, queue, at, rec, gone, promise>> /\ Paid
    BY <1>1, CostFacts DEF Kill, ghost, host
  <2>2. Returned
    BY <1>1, ReturnFacts
  <2>3. Typed' /\ Flow'
    BY <1>1, <2>1, <2>2 DEF Flow, KindAt, OnUnits, Issued
  <2>4. GoneInv' /\ BackendInv'
    BY <1>1, <2>1, <2>2 DEF GoneInv, BackendInv, Issued, Namespaces, Unloaded
  <2>5. PromiseInv' /\ FilesInv' /\ AtInv'
    BY <1>1, <2>1, <2>2 DEF PromiseInv, Standing, FilesInv, AtInv, N, Namespaces
  <2>6. CancelInv' /\ CancelAtInv'
    BY <1>1, <2>1, <2>2 DEF CancelInv, CancelAtInv, N
  <2> QED
    BY <2>3, <2>4, <2>5, <2>6 DEF SchedulerInv
<1> QED
  BY <1>1 DEF Kill

\* A boot arms the timers on disk, or runs without a manager: nothing comes back that was
\* cancelled, and what was promised does.
LEMMA RebootKeeps ==
  ASSUME SchedulerInv, Reboot
  PROVE  SchedulerInv'
<1>1. CASE /\ Fault /\ op' = Idle
           /\ \E s \in BOOLEAN : /\ sysd' = s
                                 /\ mgr' = [n \in Namespaces |-> IF s THEN Booted(n) ELSE Unloaded]
  <2>1. PICK s \in BOOLEAN : sysd' = s
        /\ mgr' = [n \in Namespaces |-> IF s THEN Booted(n) ELSE Unloaded]
    BY <1>1
  <2>2. UNCHANGED <<unit, queue, at, rec, gone, promise>> /\ Paid
    BY <1>1, CostFacts DEF Reboot, ghost, host
  <2>3. Returned
    BY <1>1, <2>1, <2>2, ReturnFacts
  <2>4. /\ mgr' \in MgrType /\ sysd' \in BOOLEAN
        /\ ~sysd' => \A n \in Namespaces : mgr'[n] = Unloaded
        /\ \A n \in Namespaces :
             /\ mgr'[n].tmr = unit[n].tmr \/ mgr'[n].tmr = 0
             /\ unit[n].tmr = 0 => mgr'[n].phase = "dead"
             /\ sysd' /\ unit[n].link /\ unit[n].tmr # 0 /\ unit[n].svc # 0 =>
                  mgr'[n].phase # "dead" /\ mgr'[n].svc = unit[n].svc /\ mgr'[n].tmr = unit[n].tmr
    BY <1>1, <2>1, <2>2, <2>3, BootedFacts, UnloadedType DEF MgrType, Unloaded
  <2>5. sysd' \in BOOLEAN
    BY <1>1, <2>1, <2>2, <2>3, <2>4
  <2>6. Typed' /\ Flow'
    BY <1>1, <2>1, <2>2, <2>3, <2>4, <2>5 DEF Flow, KindAt, OnUnits, Issued
  <2>7. GoneInv' /\ BackendInv'
    BY <1>1, <2>1, <2>2, <2>3, <2>4, <2>5 DEF GoneInv, BackendInv, Issued, Namespaces, Unloaded
  <2>8. PromiseInv' /\ FilesInv' /\ AtInv'
    BY <1>1, <2>1, <2>2, <2>3, <2>4, <2>5 DEF PromiseInv, Standing, FilesInv, AtInv, N, Namespaces
  <2>9. CancelInv' /\ CancelAtInv'
    BY <1>1, <2>1, <2>2, <2>3, <2>4, <2>5 DEF CancelInv, CancelAtInv, N
  <2> QED
    BY <2>6, <2>7, <2>8, <2>9 DEF SchedulerInv
<1> QED
  BY <1>1 DEF Reboot

\* Somebody's daemon-reload arms nothing.
LEMMA OutsideReloadKeeps ==
  ASSUME SchedulerInv, OutsideReload
  PROVE  SchedulerInv'
<1>1. CASE sysd /\ mgr' = Reloaded /\ left' = left
  <2>1. UNCHANGED <<unit, sysd, queue, at, rec, gone, promise>> /\ Paid
    BY <1>1, CostFacts DEF OutsideReload, ghost, host
  <2>2. op' = op /\ op' \in OpType
    BY <1>1, SchedulerAssumption DEF OutsideReload
  <2>3. MaybeReloaded /\ \A n \in Namespaces : unit[n].tmr # 0 => mgr'[n].svc = unit[n].svc
        /\ mgr'[n].tmr = unit[n].tmr
    BY <1>1, MaybeReloadedFacts, ReloadedFacts
  <2>4. op.pc \in OnUnits => N \in Namespaces
    BY <1>1, <2>1, <2>2, <2>3, Working
  <2>5. op.pc \in {"timer", "reload", "enable"} => op.task # 0
    BY <1>1, <2>1, <2>2, <2>3, <2>4 DEF Flow, KindAt
  <2>6. op.pc \in {"timer", "reload", "enable", "stamp", "rmtimer", "rmservice"} => N \in Namespaces
    BY <1>1, <2>1, <2>2, <2>3, <2>4, <2>5 DEF OnUnits
  <2>7. Typed' /\ Flow'
    BY <1>1, <2>1, <2>2, <2>3, <2>4, <2>5, <2>6 DEF Flow, KindAt, OnUnits, Issued
  <2>8. GoneInv' /\ BackendInv'
    BY <1>1, <2>1, <2>2, <2>3, <2>4, <2>5, <2>6 DEF GoneInv, BackendInv, Issued, Namespaces,
       Unloaded
  <2>9. PromiseInv' /\ FilesInv' /\ AtInv'
    BY <1>1, <2>1, <2>2, <2>3, <2>4, <2>5, <2>6 DEF PromiseInv, Standing, FilesInv, AtInv, N,
       Namespaces
  <2>10. CancelInv' /\ CancelAtInv'
    BY <1>1, <2>1, <2>2, <2>3, <2>4, <2>5, <2>6 DEF CancelInv, CancelAtInv, N
  <2> QED
    BY <2>7, <2>8, <2>9, <2>10 DEF SchedulerInv
<1> QED
  BY <1>1 DEF OutsideReload

\* The at package comes or goes while no command runs; the queue stays.
LEMMA AtPackageKeeps ==
  ASSUME SchedulerInv, AtPackage
  PROVE  SchedulerInv'
<1>1. op.pc = "idle"
  BY DEF AtPackage, At
<1>2. op.kind \in {"none"}
  BY <1>1 DEF SchedulerInv, Flow, KindAt, Typed, OpType, Schedules
<1>3. CASE Spend("others")
  <2>1. UNCHANGED <<unit, mgr, sysd, queue, rec, gone, promise>> /\ Paid
    BY <1>3, CostFacts DEF AtPackage, ghost, host
  <2>2. op' = op /\ op' \in OpType
    BY <1>1, <1>2, <1>3, SchedulerAssumption DEF AtPackage
  <2>3. at' \in {"none", "partial", "full"}
    BY <1>1, <1>2, <1>3 DEF AtPackage
  <2>4. Typed' /\ Flow'
    BY <1>1, <1>2, <1>3, <2>1, <2>2, <2>3 DEF Flow, KindAt, OnUnits, Issued
  <2>5. GoneInv' /\ BackendInv'
    BY <1>1, <1>2, <1>3, <2>1, <2>2, <2>3 DEF GoneInv, BackendInv, Issued, Namespaces, Unloaded
  <2>6. PromiseInv' /\ FilesInv' /\ AtInv'
    BY <1>1, <1>2, <1>3, <2>1, <2>2, <2>3 DEF PromiseInv, Standing, FilesInv, AtInv, N, Namespaces
  <2>7. CancelInv' /\ CancelAtInv'
    BY <1>1, <1>2, <1>3, <2>1, <2>2, <2>3 DEF CancelInv, CancelAtInv, N
  <2> QED
    BY <2>4, <2>5, <2>6, <2>7 DEF SchedulerInv
<1> QED
  BY <1>1, <1>2, <1>3 DEF AtPackage

\* A timer that is alive fires,
LEMMA FireKeeps ==
  ASSUME SchedulerInv, NEW n \in Namespaces, Fire(n)
  PROVE  SchedulerInv'
<1>1. CASE /\ mgr[n].phase = "waiting" /\ left' = left
           /\ mgr' = [mgr EXCEPT ![n].phase = "running"]
           /\ unit' = [unit EXCEPT ![n].stamp = mgr[n].tmr]
  <2>1. UNCHANGED <<sysd, queue, at, rec, gone, promise>> /\ Paid
    BY <1>1, CostFacts DEF Fire, ghost, host
  <2>2. op' = op /\ op' \in OpType
    BY <1>1, SchedulerAssumption DEF Fire
  <2>3. OtherTimers(n) /\ mgr'[n].phase # "dead" /\ mgr[n].phase # "dead"
    BY <1>1, RephasedFacts DEF Phases
  <2>4. /\ unit' \in UnitType
        /\ \A m \in Namespaces : /\ unit'[m].svc = unit[m].svc /\ unit'[m].tmr = unit[m].tmr
                                 /\ unit'[m].link = unit[m].link
    BY <1>1, PutStampFacts DEF MgrType
  <2>5. sysd
    BY <1>1, <2>1, <2>2, <2>3, <2>4 DEF Flow, Unloaded
  <2>6. Typed' /\ Flow'
    BY <1>1, <2>1, <2>2, <2>3, <2>4, <2>5 DEF Flow, KindAt, OnUnits, Issued
  <2>7. GoneInv' /\ BackendInv'
    BY <1>1, <2>1, <2>2, <2>3, <2>4, <2>5 DEF GoneInv, BackendInv, Issued, Namespaces, Unloaded
  <2>8. PromiseInv' /\ FilesInv' /\ AtInv'
    BY <1>1, <2>1, <2>2, <2>3, <2>4, <2>5 DEF PromiseInv, Standing, FilesInv, AtInv, N, Namespaces
  <2>9. CancelInv' /\ CancelAtInv'
    BY <1>1, <2>1, <2>2, <2>3, <2>4, <2>5 DEF CancelInv, CancelAtInv, N
  <2> QED
    BY <2>6, <2>7, <2>8, <2>9 DEF SchedulerInv
<1> QED
  BY <1>1 DEF Fire

\* and has elapsed when its service ends, or waits for a later deadline.
LEMMA ServiceEndsKeeps ==
  ASSUME SchedulerInv, NEW n \in Namespaces, ServiceEnds(n)
  PROVE  SchedulerInv'
<1>1. CASE /\ mgr[n].phase = "running" /\ left' = left
           /\ mgr' = [mgr EXCEPT ![n].phase = IF unit[n].stamp = mgr[n].tmr THEN "elapsed" ELSE "waiting"]
  <2>1. UNCHANGED <<unit, sysd, queue, at, rec, gone, promise>> /\ Paid
    BY <1>1, CostFacts DEF ServiceEnds, ghost, host
  <2>2. op' = op /\ op' \in OpType
    BY <1>1, SchedulerAssumption DEF ServiceEnds
  <2>3. OtherTimers(n) /\ mgr'[n].phase # "dead" /\ mgr[n].phase # "dead"
    BY <1>1, RephasedFacts DEF Phases
  <2>4. sysd
    BY <1>1, <2>1, <2>2, <2>3 DEF Flow, Unloaded
  <2>5. Typed' /\ Flow'
    BY <1>1, <2>1, <2>2, <2>3, <2>4 DEF Flow, KindAt, OnUnits, Issued
  <2>6. GoneInv' /\ BackendInv'
    BY <1>1, <2>1, <2>2, <2>3, <2>4 DEF GoneInv, BackendInv, Issued, Namespaces, Unloaded
  <2>7. PromiseInv' /\ FilesInv' /\ AtInv'
    BY <1>1, <2>1, <2>2, <2>3, <2>4 DEF PromiseInv, Standing, FilesInv, AtInv, N, Namespaces
  <2>8. CancelInv' /\ CancelAtInv'
    BY <1>1, <2>1, <2>2, <2>3, <2>4 DEF CancelInv, CancelAtInv, N
  <2> QED
    BY <2>5, <2>6, <2>7, <2>8 DEF SchedulerInv
<1> QED
  BY <1>1 DEF ServiceEnds

\* Others queue jobs that are no task of this name.
LEMMA AtOtherKeeps ==
  ASSUME SchedulerInv, NEW id \in AtIds, AtOther(id)
  PROVE  SchedulerInv'
<1>1. CASE Spend("others") /\ op.pc # "atrm"
  <2>1. UNCHANGED <<unit, mgr, sysd, at, rec, gone, promise>> /\ Paid
    BY <1>1, CostFacts DEF AtOther, ghost, host
  <2>2. op' = op /\ op' \in OpType
    BY <1>1, SchedulerAssumption DEF AtOther
  <2>3. /\ queue' \in QueueType /\ queue[id] = Free /\ ~Own(queue[id]) /\ ~Own(queue'[id])
        /\ \A i \in AtIds \ {id} : queue'[i] = queue[i]
    BY <1>1, SchedulerAssumption, IssueFacts DEF AtOther, QueueType, Own, Free, Contents, LeftType,
       Spend
  <2>4. Typed' /\ Flow'
    BY <1>1, <2>1, <2>2, <2>3 DEF Flow, KindAt, OnUnits, Issued
  <2>5. GoneInv' /\ BackendInv'
    BY <1>1, <2>1, <2>2, <2>3 DEF GoneInv, BackendInv, Issued, Namespaces, Unloaded
  <2>6. PromiseInv' /\ FilesInv' /\ AtInv'
    BY <1>1, <2>1, <2>2, <2>3 DEF PromiseInv, Standing, FilesInv, AtInv, N, Namespaces
  <2>7. CancelInv' /\ CancelAtInv'
    BY <1>1, <2>1, <2>2, <2>3 DEF CancelInv, CancelAtInv, N
  <2> QED
    BY <2>4, <2>5, <2>6, <2>7 DEF SchedulerInv
<1> QED
  BY <1>1 DEF AtOther

\* at runs a job, which then is no promise any more.
LEMMA AtRunsKeeps ==
  ASSUME SchedulerInv, NEW id \in AtIds, AtRuns(id)
  PROVE  SchedulerInv'
<1>1. CASE left' = left
  <2>1. UNCHANGED <<unit, mgr, sysd, at, rec, gone>> /\ Paid
    BY <1>1, CostFacts DEF AtRuns, ghost, host
  <2>2. op' = op /\ op' \in OpType
    BY <1>1, SchedulerAssumption DEF AtRuns
  <2>3. /\ queue' \in QueueType /\ ~Own(queue'[id]) /\ queue'[id] = Free
        /\ \A i \in AtIds \ {id} : queue'[i] = queue[i]
    BY <1>1, FreedFacts DEF AtRuns
  <2>4. /\ promise' \in PromiseType /\ \A k \in {"auto", "quarantine"} : promise'[k] = promise[k]
        /\ \/ promise'["at"] = 0
           \/ promise'["at"] = promise["at"] /\ ~(Own(queue[id]) /\ queue[id].cmd = promise["at"])
    BY <1>1, SchedulerAssumption DEF AtRuns, PromiseType, Contents
  <2>5. Typed' /\ Flow'
    BY <1>1, <2>1, <2>2, <2>3, <2>4 DEF Flow, KindAt, OnUnits, Issued
  <2>6. GoneInv' /\ BackendInv'
    BY <1>1, <2>1, <2>2, <2>3, <2>4 DEF GoneInv, BackendInv, Issued, Namespaces, Unloaded
  <2>7. PromiseInv' /\ FilesInv' /\ AtInv'
    BY <1>1, <2>1, <2>2, <2>3, <2>4 DEF PromiseInv, Standing, FilesInv, AtInv, N, Namespaces
  <2>8. CancelInv' /\ CancelAtInv'
    BY <1>1, <2>1, <2>2, <2>3, <2>4 DEF CancelInv, CancelAtInv, N
  <2> QED
    BY <2>5, <2>6, <2>7, <2>8 DEF SchedulerInv
<1> QED
  BY <1>1 DEF AtRuns

-----------------------------------------------------------------------------
(* From the initial states on.                                                *)

\* A host may start with a timer and a job of an earlier release.
LEMMA InitHolds ==
  ASSUME Init
  PROVE  SchedulerInv
<1> USE IdleFacts, Bare
<1>1. 0 \in Contents /\ Legacy \in Contents /\ Legacy # 0
  BY SchedulerAssumption DEF Contents, Legacy
<1>2. unit \in UnitType /\ \A n \in Namespaces : unit[n].tmr = 0 \/ n = "v1"
  <2>1. NoUnit \in [svc : Contents, tmr : Contents, link : BOOLEAN, stamp : Contents]
    BY <1>1, Zenon DEF NoUnit
  <2>2. [svc |-> Legacy, tmr |-> Legacy, link |-> TRUE, stamp |-> 0]
          \in [svc : Contents, tmr : Contents, link : BOOLEAN, stamp : Contents]
    BY <1>1, Zenon
  <2>3. PICK old \in {NoUnit, [svc |-> Legacy, tmr |-> Legacy, link |-> TRUE, stamp |-> 0]} :
          unit = [n \in Namespaces |-> IF n = "v1" THEN old ELSE NoUnit]
    BY DEF Init
  <2> QED
    BY <2>1, <2>2, <2>3 DEF UnitType, NoUnit
<1>3. mgr \in MgrType /\ (\A n \in Namespaces : mgr[n].tmr = 0 \/ n = "v1")
  <2>1. mgr = [n \in Namespaces |-> Booted(n)]
    BY DEF Init
  <2> QED
    BY <1>2, <2>1, BootedFacts DEF MgrType
<1>4. queue \in QueueType /\ \A id \in AtIds : Own(queue[id]) => queue[id].cmd = Legacy
  <2>1. PICK j \in {Free, [owner |-> "root", cmd |-> Legacy]}, i \in AtIds :
          queue = [id \in AtIds |-> IF id = i THEN j ELSE Free]
    BY DEF Init
  <2> QED
    BY <1>1, <2>1 DEF QueueType, Free, Own
<1>5. promise \in PromiseType /\ \A k \in {"auto", "quarantine", "at"} : promise[k] = 0
  BY <1>1 DEF Init, PromiseType
<1>6. /\ left \in LeftType /\ rec \in RecType /\ op = Idle /\ gone = {} /\ sysd = TRUE
      /\ at \in {"none", "partial", "full"}
  BY SchedulerAssumption DEF Init, LeftType, RecType, Ids
<1>7. Typed
  BY <1>2, <1>3, <1>4, <1>5, <1>6 DEF Typed
<1>8. Flow
  BY <1>6 DEF Flow, KindAt, OnUnits, Schedules
<1>9. GoneInv
  BY <1>6 DEF GoneInv
<1>10. BackendInv
  BY <1>2, <1>3, <1>4, <1>6 DEF BackendInv, Own, Namespaces
<1>11. PromiseInv
  BY <1>5, <1>6 DEF PromiseInv
<1>12. FilesInv /\ AtInv /\ CancelInv /\ CancelAtInv
  BY <1>6 DEF FilesInv, AtInv, CancelInv, CancelAtInv, Cancelling
<1> QED
  BY <1>7, <1>8, <1>9, <1>10, <1>11, <1>12 DEF SchedulerInv

\* A step that changes nothing keeps the invariant.
LEMMA StutterKeeps ==
  ASSUME SchedulerInv, UNCHANGED vars
  PROVE  SchedulerInv'
<1>1. /\ unit' = unit /\ mgr' = mgr /\ sysd' = sysd /\ queue' = queue /\ at' = at /\ rec' = rec
      /\ op' = op /\ gone' = gone /\ promise' = promise /\ left' = left
  BY DEF vars
<1>2. Typed' /\ Flow' /\ GoneInv'
  BY <1>1 DEF SchedulerInv, Typed, Flow, GoneInv, Issued, Clear, Dead, NoOwn
<1>3. BackendInv' /\ PromiseInv'
  BY <1>1 DEF SchedulerInv, BackendInv, PromiseInv, Issued, Standing, Dead
<1>4. FilesInv' /\ AtInv' /\ CancelInv' /\ CancelAtInv'
  BY <1>1 DEF SchedulerInv, FilesInv, AtInv, CancelInv, CancelAtInv, Cancelling, N, Clear, Dead,
     NoOwn
<1> QED
  BY <1>2, <1>3, <1>4 DEF SchedulerInv

\* So does every step of the scheduler and of the host.
LEMMA NextKeeps ==
  ASSUME SchedulerInv, Next
  PROVE  SchedulerInv'
<1>1. CASE Step
  BY <1>1, WriteServiceKeeps, WriteTimerKeeps, ReloadKeeps, EnableKeeps, DisableKeeps, StopKeeps,
     RemoveStampKeeps, RemoveTimerKeeps, RemoveServiceKeeps, FinishRollbackKeeps, ScheduleAtKeeps,
     AtInventoryKeeps, AtRereadKeeps, AtRemoveKeeps, CancelUnitKeeps, FinishCancelKeeps,
     RecordTaskKeeps DEF Step
<1>2. CASE Starts
  <2>1. rec.auto \in Ids /\ rec.quarantine \in Ids /\ "none" \in Ids
    BY DEF SchedulerInv, Typed, RecType, Ids
  <2> QED
    BY <1>2, <2>1, StartScheduleKeeps, StartScheduleQuarantineKeeps, StartCancelKeeps
       DEF Starts, Cancels
<1>3. CASE Kill \/ Reboot \/ OutsideReload \/ AtPackage
  BY <1>3, KillKeeps, RebootKeeps, OutsideReloadKeeps, AtPackageKeeps
<1>4. CASE \E n \in Namespaces : Fire(n) \/ ServiceEnds(n)
  BY <1>4, FireKeeps, ServiceEndsKeeps
<1>5. CASE \E id \in AtIds : AtOther(id) \/ AtRuns(id)
  BY <1>5, AtOtherKeeps, AtRunsKeeps
<1> QED
  BY <1>1, <1>2, <1>3, <1>4, <1>5 DEF Next

-----------------------------------------------------------------------------
(* The properties.                                                            *)

\* SchedulerInv is an invariant: what Schedule, ScheduleQuarantine and the cancellations have
\* done at each place they can fail, be killed or be interleaved with the host.
THEOREM SchedulerInvariant == Spec => []SchedulerInv
<1>1. Init => SchedulerInv
  BY InitHolds
<1>2. SchedulerInv /\ [Next]_vars => SchedulerInv'
  BY NextKeeps, StutterKeeps
<1> QED
  BY <1>1, <1>2, PTL DEF Spec

\* The variables keep their types (Scheduler, and the state of systemd and at it reads).
THEOREM SchedulerTyped == Spec => []TypeOK
<1>1. ASSUME SchedulerInv PROVE TypeOK
  <2>1. op.ns \in {<<>>} \cup UNION {[1..n -> Namespaces] : n \in 1..3}
    <3>1. op.ns \in {<<>>, <<"auto">>, <<"quarantine">>, <<"v1">>, <<"auto", "v1">>,
                     <<"v1", "quarantine">>, <<"auto", "v1", "quarantine">>}
      <4>1. op.ns \in Rests
        BY <1>1, Zenon DEF SchedulerInv, Typed, OpType
      <4>2. PICK k \in Kinds : op.ns \in Ahead(k)
        BY <4>1 DEF Rests
      <4> QED
        BY <4>2 DEF Ahead, Kinds
    <3>2. \A a \in Namespaces : <<a>> \in [1..1 -> Namespaces]
      OBVIOUS
    <3>3. \A a, b \in Namespaces : <<a, b>> \in [1..2 -> Namespaces]
      OBVIOUS
    <3>4. \A a, b, c \in Namespaces : <<a, b, c>> \in [1..3 -> Namespaces]
      OBVIOUS
    <3>5. 1 \in 1..3 /\ 2 \in 1..3 /\ 3 \in 1..3
      OBVIOUS
    <3>6. "auto" \in Namespaces /\ "v1" \in Namespaces /\ "quarantine" \in Namespaces
      BY DEF Namespaces
    <3> DEFINE Tuples == UNION {[1..n -> Namespaces] : n \in 1..3}
    <3>7. \A n \in 1..3 : [1..n -> Namespaces] \subseteq Tuples
      OBVIOUS
    <3>8. /\ <<"auto">> \in Tuples /\ <<"v1">> \in Tuples /\ <<"quarantine">> \in Tuples
      BY <3>2, <3>5, <3>6, <3>7
    <3>9. <<"auto", "v1">> \in Tuples /\ <<"v1", "quarantine">> \in Tuples
      BY <3>3, <3>5, <3>6, <3>7
    <3>10. <<"auto", "v1", "quarantine">> \in Tuples
      BY <3>4, <3>5, <3>6, <3>7
    <3> QED
      BY <3>1, <3>8, <3>9, <3>10, Zenon
  <2>2. op.pc \in Pcs /\ op.task \in Contents /\ op.todo \subseteq AtIds /\ op.kind \in Kinds
    BY <1>1 DEF SchedulerInv, Typed, OpType
  <2> QED
    BY <1>1, <2>1, <2>2, Zenon DEF SchedulerInv, Typed, TypeOK, Kinds, UnitType, MgrType,
       QueueType, RecType, PromiseType, LeftType, Ids
<1> QED
  BY <1>1, SchedulerInvariant, PTL

\* What a Cancel, CancelAuto or CancelQuarantine that returned no error answered for is not in
\* the manager, not on disk and not in the at queue, until the name is scheduled again
\* (cancelUnitPrefixes, removeAtJobs): over any reboots, reloads and boots without systemd.
THEOREM CancelledAlwaysStaysGone == Spec => []CancelledStaysGone
<1>1. SchedulerInv => CancelledStaysGone
  BY DEF SchedulerInv, GoneInv, CancelledStaysGone, Clear, Dead, NoOwn
<1> QED
  BY <1>1, SchedulerInvariant, PTL

\* Schedule falls back to at only when the timer is dead and its file gone (scheduleSystemd and
\* its rollback): no deletion waits in at while the timer of the same call is armed.
THEOREM AlwaysOneBackend == Spec => []OneBackend
<1>1. ASSUME SchedulerInv PROVE OneBackend
  <2>1. Booted("auto").tmr = unit["auto"].tmr \/ Booted("auto").tmr = 0
    BY <1>1, BootedFacts DEF SchedulerInv, Typed, Namespaces
  <2> QED
    BY <1>1, <2>1 DEF SchedulerInv, BackendInv, OneBackend, Dead, Own
<1> QED
  BY <1>1, SchedulerInvariant, PTL

\* A task Schedule or ScheduleQuarantine reported, whose timer has not fired and that nobody
\* cancelled, is valid for doctor, loaded in the manager and back after a boot; CancelAuto in
\* particular leaves the finalizer alone.
THEOREM PromiseAlwaysKept == Spec => []PromiseKept
<1>1. ASSUME SchedulerInv PROVE PromiseKept
  <2>1. ASSUME NEW n \in {"auto", "quarantine"}, promise[n] # 0, unit[n].stamp # promise[n]
        PROVE  /\ Booted(n) = [phase |-> "waiting", svc |-> promise[n], tmr |-> promise[n]]
               /\ sysd => /\ ValidTimer(n, promise[n])
                          /\ mgr[n].svc = promise[n] /\ mgr[n].tmr = promise[n]
    <3>1. Standing(n) /\ sysd \in BOOLEAN
      BY <1>1, <2>1 DEF SchedulerInv, PromiseInv, Typed
    <3>2. Booted(n) = [phase |-> "waiting", svc |-> promise[n], tmr |-> promise[n]]
      BY <2>1, <3>1 DEF Booted, Standing
    <3> QED
      BY <2>1, <3>1, <3>2 DEF Standing, ValidTimer, Dead
  <2>2. promise["at"] # 0 /\ at = "full" => \E id \in AtIds : ValidAtJob(id, promise["at"])
    BY <1>1 DEF SchedulerInv, PromiseInv, ValidAtJob
  <2> QED
    BY <2>1, <2>2 DEF PromiseKept
<1> QED
  BY <1>1, SchedulerInvariant, PTL

\* A job in the queue that is no task of this name survives every step except its own run: a
\* submission takes a free id, and atrm is given a task.
LEMMA QueueSteps ==
  ASSUME SchedulerInv, [Next]_vars, NEW id \in AtIds,
         queue[id].owner # "none", ~Own(queue[id]), queue'[id] # queue[id]
  PROVE  AtRuns(id)
<1>1. queue[id] # Free
  BY DEF Free
<1>2. ~ScheduleAt
  BY <1>1 DEF ScheduleAt, SchedulerInv, Typed, QueueType
<1>3. ~AtRemove
  <2> SUFFICES ASSUME AtRemove PROVE FALSE
    OBVIOUS
  <2>1. op.id \in AtIds /\ (queue[op.id] = Free \/ Own(queue[op.id]))
    BY DEF AtRemove, At, SchedulerInv, AtInv
  <2>2. queue' \in {queue, [queue EXCEPT ![op.id] = Free]}
    BY DEF AtRemove
  <2> QED
    BY <1>1, <2>1, <2>2 DEF SchedulerInv, Typed, QueueType
<1>4. ~Step
  BY <1>2, <1>3, Zenon DEF Step, WriteService, WriteTimer, Reload, Enable, Disable, Stop,
     RemoveStamp, RemoveTimer, RemoveService, FinishRollback, AtInventory, AtReread, CancelUnit, FinishCancel,
     RecordTask, host
<1>5. ~Starts
  BY DEF Starts, StartSchedule, StartScheduleQuarantine, StartCancel, host
<1>6. ~Kill /\ ~Reboot /\ ~OutsideReload /\ ~AtPackage /\ ~UNCHANGED vars
  BY DEF Kill, Reboot, OutsideReload, AtPackage, host, vars
<1>7. ~\E n \in Namespaces : Fire(n) \/ ServiceEnds(n)
  BY DEF Fire, ServiceEnds
<1>8. \A i \in AtIds : ~AtOther(i)
  BY <1>1 DEF AtOther, SchedulerInv, Typed, QueueType
<1>9. \A i \in AtIds : AtRuns(i) => i = id
  BY DEF AtRuns, SchedulerInv, Typed, QueueType
<1> QED
  BY <1>4, <1>5, <1>6, <1>7, <1>8, <1>9 DEF Next

\* removeAtJobIf never removes a job that is not a deletion task of this name: such a job leaves
\* the queue by running, whatever id the registry row or the inventory connected with it.
THEOREM ForeignJobsAlwaysKept == Spec => ForeignJobsKept
<1>1. SchedulerInv /\ [Next]_vars =>
        \A id \in AtIds : queue[id].owner # "none" /\ ~Own(queue[id]) /\ queue'[id] # queue[id]
                          => AtRuns(id)
  BY QueueSteps
<1> QED
  BY <1>1, SchedulerInvariant, PTL DEF Spec, ForeignJobsKept
=============================================================================
