--------------------------- MODULE MCInvitePolicy ---------------------------
(* Lines of sshd configuration under every kind of Match, and every nsswitch   *)
(* order and sudo listing up to a length.                                      *)
EXTENDS InvitePolicy

CONSTANTS MaxLines, MaxTokens, MaxRules

SeqsUpTo(S, n) == UNION {[1 .. k -> S] : k \in 0 .. n}

MCWho == [acct |-> {Acct}, other |-> {Other}, any |-> Accounts, lan |-> Accounts, mine |-> {Acct}]
MCFrom == [acct |-> Addrs, other |-> Addrs, any |-> Addrs, lan |-> {"lan"}, mine |-> {"wan"}]

Scopes == {<<"all", {}>>, <<"user", {Acct}>>, <<"user", {Other}>>,
           <<"group", {"staff"}>>, <<"addr", {"wan"}>>}
Settings == {<<"pubkey", {"no"}>>, <<"pubkey", {"yes"}>>, <<"password", {"no"}>>,
             <<"keysfile", {"central"}>>, <<"methods", {"both"}>>, <<"algs", {"rsa"}>>,
             <<"denyusers", {"other"}>>, <<"denyusers", {"mine"}>>,
             <<"allowusers", {"other"}>>, <<"allowusers", {"any"}>>, <<"allowusers", {"lan"}>>,
             <<"denygroups", {"staff"}>>, <<"allowgroups", {"staff"}>>}
Line(scope, setting) ==
  [kind |-> scope[1], of |-> scope[2], key |-> setting[1], val |-> setting[2]]

\* One line of any kind, or several that can disagree.
Lines(settings) == {Line(c, d) : c \in Scopes, d \in settings}
Rivals == {<<"pubkey", {"no"}>>, <<"pubkey", {"yes"}>>, <<"methods", {"both"}>>,
           <<"denyusers", {"mine"}>>, <<"allowusers", {"other"}>>, <<"allowusers", {"lan"}>>,
           <<"allowgroups", {"staff"}>>}
MCConfs == SeqsUpTo(Lines(Settings), 1) \cup SeqsUpTo(Lines(Rivals), MaxLines)
MCEdits == {Line(<<"all", {}>>, <<"allowusers", {"lan"}>>), Line(<<"user", {Acct}>>, <<"pubkey", {"no"}>>),
            Line(<<"all", {}>>, <<"denyusers", {"mine"}>>)}
MCGroupLists == {<<Acct>>, <<"staff">>, <<Acct, "staff">>}

\* Every source order with a listing that is in order, and every listing with no
\* source order.
Rules == [runas : {{}, {"root"}, {"else"}, {"root", "dynamic"}},
          tags : {<<>>, <<"NOPASSWD">>, <<"PASSWD", "NOPASSWD">>, <<"NOPASSWD", "PASSWD">>,
                  <<"neutral", "NOPASSWD">>, <<"unknown", "NOPASSWD">>},
          cmds : {"ALL", "some"}]
Silent == <<[runas |-> {"root"}, tags |-> <<"NOPASSWD">>, cmds |-> "ALL"]>>
MCSudoHosts == (SeqsUpTo(Tokens, MaxTokens) \X {Silent}) \cup ({<<>>} \X SeqsUpTo(Rules, MaxRules))
=============================================================================
