------------------------------- MODULE MCRecords -------------------------------
(***************************************************************************)
(* What stamps and rows decide, on small instances: the replicas of two    *)
(* devices, the clock behind their stamps, and what the query compiler     *)
(* returns on a vault of three rows, any of them an inline object, and one *)
(* class, which is gated behind its feature and demotes its members.  They *)
(* share no state: a behaviour follows one subject, chosen at the start.   *)
(***************************************************************************)
EXTENDS MCReplicas, HlcClock, QueryMatches, TLC

CONSTANT UserRow   \* the rows that are not classes, alike but for their edges

VARIABLE subject

Interchangeable == Permutations(UserRow)

NoVault ==
  /\ above = [n \in Row |-> Root] /\ live = {} /\ binned = {} /\ isClass = ClassRow /\ inline = {}
  /\ classes = [n \in Row |-> {}] /\ edge = {} /\ ops = 0

RecordsInit ==
  /\ subject \in {"replicas", "clock", "queries"}
  /\ Init /\ ClockInit
  /\ IF subject = "queries" THEN MatchInit ELSE NoVault

RecordsNext ==
  /\ UNCHANGED subject
  /\ \/ subject = "replicas" /\ Next /\ UNCHANGED <<clockVars, matchVars>>
     \/ subject = "clock" /\ ClockNext /\ UNCHANGED <<vars, matchVars>>
     \/ subject = "queries" /\ MatchNext /\ UNCHANGED <<vars, clockVars>>
=============================================================================
