---------------------------- MODULE MCUninstall ----------------------------
(* An instance of Uninstall for TLC: a name with any of the leftovers known   *)
(* from the code's comments and tests, and a second one to sweep beside it.   *)
EXTENDS Uninstall, TLC

CONSTANTS n1, n2
MCNames == {n1, n2}

Temporary == [Nothing EXCEPT !.row = "active", !.rid = 1, !.acct = 1, !.mark = TRUE,
                             !.sudo = TRUE, !.sshd = TRUE, !.task = TRUE]
RowOnly(state) == [Nothing EXCEPT !.row = state, !.rid = 1]
Permanent == [RowOnly("active") EXCEPT !.acct = 1, !.mark = TRUE]
Forged == [Nothing EXCEPT !.acct = Other, !.mark = TRUE]

MCLeftovers ==
  n1 :> {Permanent,
         [Temporary EXCEPT !.row = "legacy", !.sshd = FALSE],
         [RowOnly("pending") EXCEPT !.sshd = TRUE],
         [Temporary EXCEPT !.row = "bound", !.sudo = FALSE, !.sshd = FALSE],
         [RowOnly("uidonly") EXCEPT !.v1 = TRUE], [Temporary EXCEPT !.row = "uidonly"],
         [Temporary EXCEPT !.row = "pending", !.mark = FALSE],
         [Temporary EXCEPT !.row = "quar", !.acct = Other, !.mark = FALSE, !.sudo = FALSE],
         [Temporary EXCEPT !.mark = FALSE],
         [Nothing EXCEPT !.sudo = TRUE, !.task = TRUE],
         Forged, [Forged EXCEPT !.v1 = TRUE, !.sudo = TRUE]}
  @@ n2 :> {Temporary}

MCOptions == {NoOpts, [ignore |-> TRUE, force |-> TRUE]}
=============================================================================
