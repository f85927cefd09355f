----------------------------- MODULE MCQuiesce -----------------------------
(* An instance of Quiesce for TLC; see section 3 of the README for the        *)
(* bounds.                                                                    *)
EXTENDS Quiesce

CONSTANTS p1, p2, a1
MCPids == {p1, p2}

\* cron and at installed; a daemon without its commands; neither; and the short
\* form for a fresh or quarantined identity.
MCSettings == {<<"drain", TRUE, TRUE>>, <<"drain", FALSE, TRUE>>, <<"drain", FALSE, FALSE>>,
               <<"immediate", TRUE, TRUE>>}
=============================================================================
