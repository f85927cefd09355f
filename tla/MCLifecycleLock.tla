-------------------------- MODULE MCLifecycleLock --------------------------
(* Small instances of LifecycleLock. *)
EXTENDS LifecycleLock, TLC

\* One reused name: two invites, a bound revoke, a name-only job of an older
\* release and a typed revoke --yes.
ReuseProcs == {"inv1", "inv2", "rev", "job", "yes"}
ReuseRole == [inv1 |-> "invite", inv2 |-> "invite", rev |-> "revoke", job |-> "job", yes |-> "yes"]
ReuseUser == [p \in ReuseProcs |-> "ann"]

\* uninstall and install among commands for two names.
GateProcs == {"inv", "job", "sweep", "off", "on"}
GateRole == [inv |-> "invite", job |-> "job", sweep |-> "sweep", off |-> "uninstall", on |-> "install"]
GateUser == [p \in GateProcs |-> IF p = "inv" THEN "bob" ELSE "ann"]

=============================================================================
