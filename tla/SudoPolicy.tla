----------------------------- MODULE SudoPolicy -----------------------------
(***************************************************************************)
(* How sudoers.Grant decides that its drop-in is in force: the source      *)
(* order of nsswitch.conf and the listing of `sudo -l -U'.  Beside each    *)
(* decision stands what sudo does with the same input.                     *)
(***************************************************************************)
EXTENDS Integers, Sequences, SequencesExt

Sources == {"files", "sss", "ldap"}
Controls == {"success", "notfound"}   \* [SUCCESS=return] and [NOTFOUND=return]
Tokens == Sources \cup Controls \cup {"unknown"}

\* The users a line may run commands as: root itself, somebody else, or a name
\* that only sudo can resolve (an alias, a group, a negation).
RunAs == SUBSET {"root", "else", "dynamic"}
Tags == {"NOPASSWD", "PASSWD", "neutral", "unknown"}
\* A rule of the listing; `cmds' are the commands it is about.
ListedRule == [runas : RunAs, tags : Seq(Tags), cmds : {"ALL", "some"}]

-----------------------------------------------------------------------------
(* What the tool decides.                                                     *)

\* requireReachableFilesSource reads one token.  A control belongs to the source
\* just before it, and to none when that source was a repetition.
ReadToken(st, t) ==
  CASE t \in Sources /\ \A s \in ToSet(st.sources) : s.name # t ->
         [sources |-> Append(st.sources, [name |-> t, stops |-> FALSE]), fresh |-> TRUE]
    [] t \in Controls /\ st.fresh ->
         [sources |-> [st.sources EXCEPT ![Len(st.sources)].stops = TRUE], fresh |-> FALSE]
    [] OTHER -> [st EXCEPT !.fresh = FALSE]

FilesReachable(tokens) ==
  LET found == FoldLeft(ReadToken, [sources |-> <<>>, fresh |-> FALSE], tokens).sources
  IN  found = <<>> \/ \E i \in DOMAIN found : /\ found[i].name = "files"
                                              /\ \A j \in 1 .. i - 1 : ~found[j].stops

\* runasRootScope
RootScope(runas) == IF runas = {} \/ "dynamic" \in runas THEN "ambiguous"
                    ELSE IF "root" \in runas THEN "included" ELSE "excluded"

\* allAuthenticationMode: the last password tag counts, an unknown tag does not parse.
ExactAll(r) == r.cmds = "ALL" /\ "unknown" \notin ToSet(r.tags)
NoPassword(tags) ==
  \E i \in DOMAIN tags : /\ tags[i] = "NOPASSWD"
                         /\ \A j \in i + 1 .. Len(tags) : tags[j] # "PASSWD"

\* Mutant: a restricted rule does not disturb an earlier proof.
VerifyRuleKeepsProof(proof, r) ==
  IF proof = "ambiguous" \/ RootScope(r.runas) = "ambiguous" THEN "ambiguous"
  ELSE IF RootScope(r.runas) = "excluded" \/ ~ExactAll(r) THEN proof
  ELSE IF NoPassword(r.tags) THEN "proved" ELSE "unproved"

\* verifyNopasswdOutput reads one rule; a later rule that may apply to root
\* replaces the verdict of an earlier one.
VerifyRule(proof, r) ==
  IF proof = "ambiguous" \/ RootScope(r.runas) = "ambiguous" THEN "ambiguous"
  ELSE IF RootScope(r.runas) = "excluded" THEN proof
  ELSE IF ExactAll(r) /\ NoPassword(r.tags) THEN "proved" ELSE "unproved"

ProvesNopasswd(listing) == FoldLeft(VerifyRule, "unproved", listing) = "proved"

-----------------------------------------------------------------------------
(* What sudo does: it asks the sources in order until one returns, and the    *)
(* last rule that matches user, target and command decides.                   *)

\* The source at i is asked for the first time, and its answer ends the lookup.
FirstAsked(tokens, i) == tokens[i] \in Sources /\ \A j \in 1 .. i - 1 : tokens[j] # tokens[i]
Returns(tokens, i, answer) ==
  FirstAsked(tokens, i) /\ i < Len(tokens) /\ tokens[i + 1] = answer[tokens[i]]

\* With these answers the local files are asked.
FilesAsked(tokens, answer) ==
  \/ \A i \in DOMAIN tokens : tokens[i] \notin Sources
  \/ \E i \in DOMAIN tokens : /\ FirstAsked(tokens, i) /\ tokens[i] = "files"
                              /\ \A j \in 1 .. i - 1 : ~Returns(tokens, j, answer)

\* Root may be meant by a dynamic name or not, an unreadable tag may mean anything,
\* and a restricted rule may be about the command or not.
AppliesToRoot(r, root) == "root" \in r.runas \/ ("dynamic" \in r.runas /\ root)
SilentFor(listing, cmd, root) ==
  LET hits == {i \in DOMAIN listing : AppliesToRoot(listing[i], root)
                                       /\ (listing[i].cmds = "ALL" \/ cmd = "some")}
  IN  \E i \in hits : /\ \A j \in hits : j <= i
                      /\ NoPassword(listing[i].tags) /\ "unknown" \notin ToSet(listing[i].tags)
=============================================================================
