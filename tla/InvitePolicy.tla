---------------------------- MODULE InvitePolicy ----------------------------
(***************************************************************************)
(* What invite says about logging in, and what it writes to make it so:    *)
(* the plan before the account exists, the check against its real groups,  *)
(* the sshd exception, the sudo rule (cli/invite_login.go, sshdconf.Grant, *)
(* sudoers.Grant).  The host's administrator edits sshd's configuration    *)
(* meanwhile; an explicit username alone makes invite wait a minute.       *)
(***************************************************************************)
EXTENDS SSHDPolicy, SudoPolicy

CONSTANTS
  Confs,         \* configurations to begin with
  Edits,         \* lines somebody may add
  GroupLists,    \* the groups useradd may give the account, primary first
  SudoHosts,     \* what nsswitch.conf and `sudo -l -U' may hold, together
  MaxEdits

\* What sshd and sudo accept as their input.
ASSUME PolicyInputs ==
  /\ Confs \subseteq Seq(ConfigLine) /\ Edits \subseteq ConfigLine
  /\ SudoHosts \subseteq Seq(Tokens) \X Seq(ListedRule)

VARIABLES
  config, at,   \* sshd's lines, and where an Include reads the drop-in (-1: nowhere)
  groups,     \* of the account
  opts,       \* flags: a password, whether sshd may be changed, sudo
  pc, plan,   \* the step of invite, and what it intends
  exc,        \* the drop-in on disk
  verdict,    \* what the invite will say of the login
  edits, late,   \* edits so far; one came after the last full check
  tokens, listing,   \* the sudo side of the host
  rule, sudo         \* the sudoers drop-in, and what Grant reported

sshdside == <<config, at, edits, late>>
sudoside == <<tokens, listing, rule, sudo>>
loginVars == <<sshdside, sudoside, groups, opts, pc, plan, exc, verdict>>

NoReport == [blockers |-> {}, unsure |-> FALSE, deferred |-> FALSE, algs |-> {}]
NoPlan == [password |-> FALSE, fix |-> FALSE, rep |-> NoReport]
Cred == IF plan.password THEN "password" ELSE "publickey"

Refuse ==
  /\ pc' = "refused" /\ UNCHANGED <<sshdside, sudoside, groups, opts, plan, exc, verdict>>

-----------------------------------------------------------------------------
(* planLogin, with the name's own group predicted.                            *)

Issuable(rep) == Certain(rep) \/ (rep.deferred /\ Ok(rep))
PasswordPlans(pw) == IF Issuable(pw) THEN {[NoPlan EXCEPT !.password = TRUE]} ELSE {}

\* The plans some answers at the prompts lead to; with none invite ends.
LoginPlans(key, pw) ==
  CASE opts.password -> PasswordPlans(pw)
    [] ~opts.password /\ Ok(key) -> {[NoPlan EXCEPT !.fix = key.deferred /\ opts.fix = "yes"]}
    [] OTHER -> (IF Fixable(key) /\ opts.fix # "no" THEN {[NoPlan EXCEPT !.fix = TRUE]} ELSE {})
                \cup (IF Fixable(key) /\ opts.fix = "yes" THEN {} ELSE PasswordPlans(pw))

PlanLogin ==
  /\ pc = "plan"
  /\ \E blind \in BOOLEAN :
       LET predicted == {Acct}
       IN  plan' \in LoginPlans(Report(config, predicted, FALSE, "publickey", blind),
                                Report(config, predicted, FALSE, "password", blind))
  /\ pc' = "confirm"
  /\ UNCHANGED <<sshdside, sudoside, groups, opts, exc, verdict>>

\* The configuration cannot be read: good enough for a key, not for a password.
PlanUnread ==
  /\ pc = "plan" /\ ~opts.password
  /\ plan' = NoPlan /\ pc' = "confirm"
  /\ UNCHANGED <<sshdside, sudoside, groups, opts, exc, verdict>>

\* A refusal, or an operator who declines.
PlanRefused == pc = "plan" /\ Refuse

-----------------------------------------------------------------------------
(* confirmLogin, on the account's real groups.                                *)

Real == ToSet(groups)

\* Mutant: a rule that could not be evaluated does not matter once nothing blocks.
ConfirmedVerdictUnlessBlocked(rep) == "verified"

ConfirmedVerdict(rep) == IF rep.unsure THEN "unverified" ELSE "verified"

Confirmed ==
  /\ pc = "confirm"
  /\ \E blind \in BOOLEAN :
       LET rep == Report(config, Real, TRUE, Cred, blind)
       IN  \/ /\ Ok(rep) /\ (plan.password => Certain(rep))
              /\ verdict' = ConfirmedVerdict(rep)
              /\ plan' = [plan EXCEPT !.fix = FALSE]
              /\ pc' = "sudo"
           \/ /\ plan.fix /\ Fixable(rep)
              /\ plan' = [plan EXCEPT !.rep = rep]
              /\ pc' = "exception" /\ UNCHANGED verdict
  /\ UNCHANGED <<sshdside, sudoside, groups, opts, exc>>

ConfirmUnread ==
  /\ pc = "confirm" /\ ~plan.fix /\ ~plan.password
  /\ verdict' = "unverified" /\ pc' = "sudo"
  /\ UNCHANGED <<sshdside, sudoside, groups, opts, plan, exc>>

\* A blocker that stays, or a reading that fails or is not enough: rollback.
ConfirmRefused ==
  /\ pc = "confirm"
  /\ \/ plan.fix \/ plan.password
     \/ \E blind \in BOOLEAN : ~Ok(Report(config, Real, TRUE, Cred, blind))
  /\ Refuse

-----------------------------------------------------------------------------
(* The exception; its own steps, failures and durability are in               *)
(* SSHDExceptions.                                                            *)

\* The drop-in took effect in a fresh reading, and sshd was asked to reload.
GrantException ==
  /\ pc = "exception"
  /\ LET new == DropIn(plan.rep, groups[1])
         cfg == Probe(InForce(config, at, new), Real, TRUE)
     IN  exc' = new /\ Blockers(cfg, Real, "publickey") = {}
  /\ \E reloaded \in BOOLEAN :
       verdict' = IF reloaded /\ ~plan.rep.unsure THEN "verified" ELSE "unverified"
  /\ pc' = "sudo"
  /\ UNCHANGED <<sshdside, sudoside, groups, opts, plan>>

ExceptionFails == pc = "exception" /\ Refuse

-----------------------------------------------------------------------------
(* sudoers.Grant.                                                             *)

NoSudo ==
  /\ pc = "sudo" /\ ~opts.sudo /\ pc' = "done"
  /\ UNCHANGED <<sshdside, sudoside, groups, opts, plan, exc, verdict>>

GrantSudo ==
  /\ pc = "sudo" /\ opts.sudo
  /\ FilesReachable(tokens) /\ ProvesNopasswd(listing)
  /\ rule' = TRUE /\ sudo' = "granted" /\ pc' = "done"
  /\ UNCHANGED <<sshdside, tokens, listing, groups, opts, plan, exc, verdict>>

\* A refused check, or a verification that fails after the rule was written; the
\* removal may fail too.
SudoFails ==
  /\ pc = "sudo" /\ opts.sudo
  /\ rule' \in BOOLEAN /\ sudo' = "failed" /\ pc' = "refused"
  /\ UNCHANGED <<sshdside, tokens, listing, groups, opts, plan, exc, verdict>>

-----------------------------------------------------------------------------
\* Another administrator adds a line, before all others or after them.
Edit ==
  /\ pc \in {"confirm", "exception", "sudo"} /\ edits < MaxEdits /\ ~opts.sudo
  /\ \E line \in Edits :
       \/ config' = Append(config, line) /\ UNCHANGED at
       \/ config' = <<line>> \o config /\ at' = IF at < 0 THEN at ELSE at + 1
  /\ edits' = edits + 1 /\ late' = (late \/ pc # "confirm")
  /\ UNCHANGED <<sudoside, groups, opts, pc, plan, exc, verdict>>

LoginInit ==
  /\ \/ /\ config \in Confs /\ at \in -1 .. Len(config) /\ groups \in GroupLists
        /\ opts \in [password : BOOLEAN, fix : {"yes", "no", "ask"}, sudo : {FALSE}]
        /\ tokens = <<>> /\ listing = <<>>
     \/ /\ config = <<>> /\ at = 0 /\ groups = <<Acct>>
        /\ opts = [password |-> FALSE, fix |-> "no", sudo |-> TRUE]
        /\ \E h \in SudoHosts : tokens = h[1] /\ listing = h[2]
  /\ pc = "plan" /\ plan = NoPlan /\ exc = <<>> /\ verdict = "none"
  /\ edits = 0 /\ late = FALSE /\ rule = FALSE /\ sudo = "none"

LoginNext == \/ PlanLogin \/ PlanUnread \/ PlanRefused
             \/ Confirmed \/ ConfirmUnread \/ ConfirmRefused
             \/ GrantException \/ ExceptionFails
             \/ NoSudo \/ GrantSudo \/ SudoFails \/ Edit

LoginSpec == LoginInit /\ [][LoginNext]_loginVars

-----------------------------------------------------------------------------
(* Properties.                                                                *)

With(addr) == Effective(InForce(config, at, exc), Conn(Acct, Real, addr))
Without(addr) == Effective(config, Conn(Acct, Real, addr))

\* An invite that says "verified" names a login sshd admits from every address,
\* although the probe saw neither addresses nor, at first, the account; the
\* administrator has not edited the configuration after the last full check.
VerifiedLogsIn ==
  pc = "done" /\ verdict = "verified" /\ ~late =>
    \A addr \in Addrs : Admits(With(addr), Acct, Real, addr, Cred)

\* An AllowUsers list names the account, but not for this address.
Restricted(cfg, addr) ==
  /\ \E p \in cfg.allowusers : Acct \in Who[p]
  /\ ~\E p \in cfg.allowusers : Acct \in Who[p] /\ addr \in From[p]

\* The exception changes nothing for anybody else, lifts no explicit deny whenever
\* it was written, and cancels no address restriction that the check could see.
ExceptionConfined ==
  exc # <<>> =>
    /\ \A addr \in Addrs, gs \in SUBSET Groups :
         Effective(InForce(config, at, exc), Conn(Other, gs, addr))
           = Effective(config, Conn(Other, gs, addr))
    /\ \A addr \in Addrs :
         \/ DeniedUser(Without(addr), Acct, addr) \/ DeniedGroup(Without(addr), Real)
         \/ Restricted(Without(addr), addr) /\ ~late /\ ~HasUnverifiableMatch(config, TRUE)
         => ~Admits(With(addr), Acct, Real, addr, "publickey")

\* A sudo grant reported as effective is: sudo comes to the local files whatever
\* the sources before them answer, and the last matching rule lets the account
\* run every command as root without a password, however names resolve.
SudoProofSound ==
  sudo = "granted" =>
    /\ \A answer \in [Sources -> Controls] : FilesAsked(tokens, answer)
    /\ \A cmd \in {"ALL", "some"}, root \in BOOLEAN : SilentFor(listing, cmd, root)
=============================================================================
