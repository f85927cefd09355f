------------------------------ MODULE Tenancy ------------------------------
(***************************************************************************)
(* What the tool promises about one username, seen from outside: who lives *)
(* under it, whether that account can be used, and what the registry says  *)
(* of it.  A life under the name goes one way: a number nobody had before  *)
(* is claimed, an account is made closed, completed, opened; it is closed, *)
(* retired and removed; and the claim is released once the tenant is gone. *)
(* Failures, kills and retries may repeat or omit steps, never reorder     *)
(* them.  AccountLifecycle implements this specification.                  *)
(***************************************************************************)
EXTENDS Integers

CONSTANT MaxGen

VARIABLES
  tenant,  \* -1 nobody, 0 an account of somebody else's, g the tool's
  open,    \* the tool's account can be logged in to
  claim,   \* the number the registry holds for the name, 0 for none
  phase,   \* of the claim
  last     \* the last number handed out

vars == <<tenant, open, claim, phase, last>>

Init ==
  /\ tenant = -1 /\ open = FALSE /\ claim = 0 /\ phase = "none" /\ last = 0

\* A number is burned, whether or not the claim comes about.
Reserve ==
  /\ last < MaxGen /\ last' = last + 1
  /\ \/ phase = "none" /\ claim' = last' /\ phase' = "creating"
     \/ UNCHANGED <<claim, phase>>
  /\ UNCHANGED <<tenant, open>>

Create ==
  /\ phase = "creating" /\ tenant = -1 /\ tenant' = claim
  /\ UNCHANGED <<open, claim, phase, last>>

Complete ==
  /\ phase = "creating" /\ phase' = "active"
  /\ UNCHANGED <<tenant, open, claim, last>>

Open ==
  /\ phase = "active" /\ tenant = claim /\ open' = TRUE
  /\ UNCHANGED <<tenant, claim, phase, last>>

Close ==
  /\ open' = FALSE
  /\ UNCHANGED <<tenant, claim, phase, last>>

\* Only a closed account is retired.
Retire ==
  /\ phase \in {"creating", "active"} /\ ~open /\ phase' = "retired"
  /\ UNCHANGED <<tenant, open, claim, last>>

Remove ==
  /\ phase = "retired" /\ tenant = claim /\ tenant' = -1
  /\ UNCHANGED <<open, claim, phase, last>>

Release ==
  /\ phase # "none" /\ tenant # claim
  /\ phase' = "none" /\ claim' = 0
  /\ UNCHANGED <<tenant, open, last>>

\* Another administrator removes an account, or makes one.
Outside ==
  /\ \/ tenant # -1 /\ tenant' = -1
     \/ tenant = -1 /\ tenant' = 0
  /\ open' = FALSE
  /\ UNCHANGED <<claim, phase, last>>

Next == Reserve \/ Create \/ Complete \/ Open \/ Close \/ Retire \/ Remove \/ Release \/ Outside
Spec == Init /\ [][Next]_vars

-----------------------------------------------------------------------------
\* An account that can be used is the one its completed claim names, and neither a
\* claim nor a tenant has a number that was not handed out.
OpenIsOwned ==
  /\ open => phase = "active" /\ tenant = claim
  /\ claim \in 0 .. last /\ tenant \in -1 .. last
=============================================================================
