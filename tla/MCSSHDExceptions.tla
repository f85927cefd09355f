-------------------------- MODULE MCSSHDExceptions --------------------------
(* Instances of SSHDExceptions for TLC: two commands, two names.             *)
EXTENDS SSHDExceptions, TLC

CONSTANTS p1, p2, u1, u2
MCProcs == {p1, p2}
MCUsers == {u1, u2}
=============================================================================
