----------------------------- MODULE SSHDPolicy -----------------------------
(***************************************************************************)
(* The configuration of sshd as the invite sees it: what a connection gets *)
(* (sshd's own rules), what a probe for a user name shows of it, what the  *)
(* tool concludes (sysinfo/sshd.go), and the exception it writes.          *)
(***************************************************************************)
EXTENDS Integers, Sequences, SequencesExt

CONSTANTS
  Acct, Other,   \* the invited account, and any other
  Groups,        \* group names
  Addrs,         \* where a connection may come from
  NoAddr,        \* the probe names none
  Patterns,      \* AllowUsers and DenyUsers entries
  AcctPattern,   \* the account's bare name
  Who,           \* the users whose name an entry matches
  From,          \* the addresses an entry is limited to
  Qualified      \* the entries of the form user@host

Accounts == {Acct, Other}

ASSUME PolicyConstants ==
  /\ Acct # Other /\ NoAddr \notin Addrs
  /\ Who \in [Patterns -> SUBSET Accounts] /\ From \in [Patterns -> SUBSET Addrs]
  /\ Qualified \subseteq Patterns
  /\ \A p \in Patterns \ Qualified : From[p] = Addrs
  /\ AcctPattern \in Patterns \ Qualified /\ Who[AcctPattern] = {Acct}

Lists == {"denyusers", "allowusers", "denygroups", "allowgroups"}
Default == [pubkey |-> {"yes"}, password |-> {"yes"}, keysfile |-> {"home"},
            methods |-> {"any"}, algs |-> {"ed25519", "rsa"},
            denyusers |-> {}, allowusers |-> {}, denygroups |-> {}, allowgroups |-> {}]
Keys == DOMAIN Default

Kinds == {"all", "user", "group", "addr"}
Holders == SUBSET (Accounts \cup Groups \cup Addrs)
ConfigLine ==
  [kind : Kinds, of : Holders, key : {"denyusers", "allowusers"}, val : SUBSET Patterns]
  \cup [kind : Kinds, of : Holders, key : {"denygroups", "allowgroups"}, val : SUBSET Groups]
  \cup [kind : Kinds, of : Holders, key : Keys \ Lists, val : SUBSET STRING]

-----------------------------------------------------------------------------
(* sshd.  A line is a directive with the Match criterion it stands under:     *)
(* "all" outside every block, else the users, groups or addresses accepted.   *)

Conn(user, groups, addr) == [user |-> user, groups |-> groups, addr |-> addr]

Applies(line, conn) ==
  CASE line.kind = "all" -> TRUE
    [] line.kind = "user" -> conn.user \in line.of
    [] line.kind = "group" -> conn.groups \cap line.of # {}
    [] line.kind = "addr" -> conn.addr \in line.of

Hits(lines, conn, key) == {i \in DOMAIN lines : lines[i].key = key /\ Applies(lines[i], conn)}
Scoped(lines, hits) == {i \in hits : lines[i].kind # "all"}

\* Matching blocks go before the global lines; the first value of a directive
\* counts, and lists of names are collected.
Value(lines, conn, key) ==
  LET hits == Hits(lines, conn, key)
      used == IF Scoped(lines, hits) # {} THEN Scoped(lines, hits) ELSE hits
  IN  IF key \in Lists THEN UNION {lines[i].val : i \in used}
      ELSE IF used = {} THEN Default[key]
      ELSE lines[CHOOSE i \in used : \A j \in used : i <= j].val

Effective(lines, conn) == [k \in Keys |-> Value(lines, conn, k)]

DeniedUser(cfg, user, addr) == \E p \in cfg.denyusers : user \in Who[p] /\ addr \in From[p]
DeniedGroup(cfg, groups) == cfg.denygroups \cap groups # {}

\* Whether a login with one credential succeeds.
Admits(cfg, user, groups, addr, cred) ==
  /\ ~DeniedUser(cfg, user, addr) /\ ~DeniedGroup(cfg, groups)
  /\ cfg.allowusers # {} => \E p \in cfg.allowusers : user \in Who[p] /\ addr \in From[p]
  /\ cfg.allowgroups # {} => cfg.allowgroups \cap groups # {}
  /\ {"any", cred} \cap cfg.methods # {}
  /\ cred = "publickey" => cfg.pubkey = {"yes"} /\ "home" \in cfg.keysfile /\ "ed25519" \in cfg.algs
  /\ cred = "password" => cfg.password = {"yes"}

-----------------------------------------------------------------------------
(* The tool's reading of it.                                                  *)

\* sshd -T -C user=NAME: no address, and groups only of an account that exists.
Probe(lines, groups, exists) ==
  Effective(lines, Conn(Acct, IF exists THEN groups ELSE {}, NoAddr))

\* checkAccess; an entry's user half decides, so that a deny always counts.
AccessBlockers(cfg, groups) ==
  LET Naming(entries) == {p \in entries : Acct \in Who[p]}
  IN  {b \in {"DenyUsers", "DenyGroups", "AllowUsers", "AllowGroups"} :
         CASE b = "DenyUsers" -> Naming(cfg.denyusers) # {}
           [] b = "DenyGroups" -> cfg.denygroups \cap groups # {}
           [] b = "AllowUsers" -> cfg.allowusers # {} /\ Naming(cfg.allowusers) = {}
           [] b = "AllowGroups" -> cfg.allowgroups # {} /\ cfg.allowgroups \cap groups = {}}

\* An allow list that admits the account from some addresses only.
UnsureAccess(cfg) ==
  LET naming == {p \in cfg.allowusers : Acct \in Who[p]}
  IN  naming # {} /\ naming \subseteq Qualified

\* CheckKeyLogin and CheckPasswordLogin
Blockers(cfg, groups, cred) ==
  AccessBlockers(cfg, groups)
  \cup {b \in {"Pubkey", "KeysFile", "Algorithm", "Password", "Methods"} :
          CASE b = "Pubkey" -> cred = "publickey" /\ cfg.pubkey # {"yes"}
            [] b = "KeysFile" -> cred = "publickey" /\ "home" \notin cfg.keysfile
            [] b = "Algorithm" -> cred = "publickey" /\ "ed25519" \notin cfg.algs
            [] b = "Password" -> cred = "password" /\ cfg.password # {"yes"}
            [] b = "Methods" -> {"any", cred} \cap cfg.methods = {}}

\* A Match the probe cannot evaluate in this phase of the account.
HasUnverifiableMatch(lines, exists) ==
  \E i \in DOMAIN lines : lines[i].kind = "addr" \/ (lines[i].kind = "group" /\ ~exists)

\* The checks with withUnverifiableMatch; `blind' is a scan that could not be
\* completed.  Deferred: only the account's existence is missing.
Report(lines, groups, exists, cred, blind) ==
  LET cfg == Probe(lines, groups, exists)
      never == blind \/ HasUnverifiableMatch(lines, TRUE)
      yet == ~exists /\ HasUnverifiableMatch(lines, FALSE)
  IN  [blockers |-> Blockers(cfg, groups, cred),
       unsure |-> UnsureAccess(cfg) \/ never \/ yet,
       deferred |-> yet /\ ~never /\ ~UnsureAccess(cfg),
       algs |-> cfg.algs]

Ok(rep) == rep.blockers = {}
Certain(rep) == Ok(rep) /\ ~rep.unsure

\* An explicit deny is a decision no exception may lift.
CanLift == {"Pubkey", "KeysFile", "Algorithm", "Methods", "AllowUsers", "AllowGroups"}
Fixable(rep) == ~Ok(rep) /\ rep.blockers \subseteq CanLift

-----------------------------------------------------------------------------
(* The exception.                                                             *)

\* dropIn: exactly what lifts the blockers, the algorithms being the list in
\* force and ours, the group being the account's own primary one.
DropIn(rep, primary) ==
  LET lifts == [pubkey |-> <<"Pubkey", {"yes"}>>, keysfile |-> <<"KeysFile", {"home"}>>,
                methods |-> <<"Methods", {"publickey"}>>,
                algs |-> <<"Algorithm", rep.algs \cup {"ed25519"}>>,
                allowusers |-> <<"AllowUsers", {AcctPattern}>>,
                allowgroups |-> <<"AllowGroups", {primary}>>]
      keys == SetToSeq({k \in DOMAIN lifts : lifts[k][1] \in rep.blockers})
  IN  [i \in DOMAIN keys |-> [kind |-> "user", of |-> {Acct}, key |-> keys[i],
                              val |-> lifts[keys[i]][2]]]

\* Mutant: without the closing Match all, the global lines that follow in the
\* same Include are read as part of our block.
AfterExceptionUnscoped(rest) ==
  [i \in DOMAIN rest |->
     IF \A j \in 1 .. i : rest[j].kind = "all"
     THEN [rest[i] EXCEPT !.kind = "user", !.of = {Acct}] ELSE rest[i]]

\* The lines after our drop-in keep their scope.
AfterException(rest) == rest

\* The host's lines with the drop-in read after the first `at' of them, or not at
\* all when no Include reaches it.
InForce(lines, at, exc) ==
  IF at < 0 THEN lines
  ELSE SubSeq(lines, 1, at) \o exc \o AfterException(SubSeq(lines, at + 1, Len(lines)))
=============================================================================
