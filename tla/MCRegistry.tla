----------------------------- MODULE MCRegistry -----------------------------
(* Small instance of Registry: two names, two IDs, one generation.           *)
EXTENDS Registry, TLC

CONSTANTS u1, u2, g1

PlainRow(uid, gen, bound, pending, sid) ==
  [uid |-> uid, gen |-> gen, bound |-> bound, pending |-> pending,
   del |-> FALSE, sid |-> sid, quar |-> 0]

\* The rows invite writes: the intent before useradd, the reserved identity,
\* the completed account; and the same with no UID yet, as earlier builds did.
MCRecordInputs ==
  {PlainRow(0, g1, TRUE, TRUE, FALSE)} \cup
  {PlainRow(2, g1, TRUE, FALSE, TRUE)}

\* A v2 registry: a nine-field row without a UID and a later row with one.
MCLegacyRows ==
  {[u \in {v} |-> PlainRow(uid, NoGen, FALSE, FALSE, FALSE)] : v \in Users, uid \in {0, 2}}

Symmetry == Permutations({u1, u2})
=============================================================================
