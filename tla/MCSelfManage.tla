---------------------------- MODULE MCSelfManage ----------------------------
(* Two prereleases whose byte order is not their order, an older release        *)
(* without a witness, a development build, and builds that must be refused: for  *)
(* another machine, unsigned, or printing another version than they name.       *)
EXTENDS SelfManage, TLC

V(core, suffix) == [core |-> core, suffix |-> suffix]
MCParse == [dev |-> V(1, DevSuffix), old |-> V(1, <<>>),
            rc9 |-> V(2, <<-3, 66, 51, 9>>), rc10 |-> V(2, <<-3, 66, 51, 1, 0>>)]
MCRank == [dev |-> 0, old |-> 1, rc9 |-> 2, rc10 |-> 3]
MCVer == [devbin |-> "dev", old |-> "old", rc9 |-> "rc9", rc10 |-> "rc10",
          arm |-> "rc10", unsigned |-> "rc10", misbuilt |-> "rc9"]
MCWitness == [MCVer EXCEPT !.old = NoVersion, !.misbuilt = "rc10"]

J(role, self, force, custom) == [role |-> role, self |-> self, force |-> force, custom |-> custom]
MCJobs == {J("install", "rc9", FALSE, FALSE),
           J("install", "rc9", TRUE, FALSE),
           J("upgrade", "rc9", FALSE, FALSE),
           J("upgrade", "rc9", TRUE, FALSE),
           J("upgrade", "rc9", FALSE, TRUE),
           J("account", "rc10", FALSE, FALSE),
           J("account", "devbin", FALSE, FALSE),
           J("uninstall", "rc9", TRUE, FALSE)}

MCSymmetry == Permutations(Procs)
=============================================================================
