---------------------------- MODULE MCSyncEngine ----------------------------
(***************************************************************************)
(* Small instances of SyncEngine for TLC.                                  *)
(***************************************************************************)
EXTENDS SyncEngine

CONSTANTS a, b, c, d, f, g, w1, w2, r

\* b and c edit what a creates; the foreign g edits what f creates.
DepPairs == [e \in Env |-> CASE e \in {b, c} -> {a} [] e = g -> {f} [] OTHER -> {}]

\* Each behaviour is about pushing, or about a restore from backup.
OneSubject ==
  \/ d \notin saved /\ Committed \subseteq Own /\ epoch = 0
  \/ saved \subseteq {a, d} /\ faults <= 1
=============================================================================
