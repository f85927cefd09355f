------------------------- MODULE MCAccountLifecycle -------------------------
(* Small instances of AccountLifecycle.  The options are written in TLC's own  *)
(* order, that of the variables of Account: TLC sorts a set where it stands,   *)
(* and two workers must not sort the same constant.                            *)
EXTENDS AccountLifecycle

\* The invite with everything to undo.
FullInvite == {{"sudo", "sshd", "auto"}}

\* That, and a permanent account without grants.
TwoInvites == {{"sudo", "sshd", "auto"}, {}}

=============================================================================
