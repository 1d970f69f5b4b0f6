------------------------------ MODULE MCReplicas ------------------------------
(***************************************************************************)
(* Small instances of Replicas for TLC.                                    *)
(***************************************************************************)
EXTENDS Replicas

CONSTANTS d1, d2, update, icon, assign, unclass, untag

\* Two devices of one user, and of two users.
SameUser == [d \in Devices |-> 1]
TwoUsers == [d \in Devices |-> IF d = d1 THEN 1 ELSE 2]

MadeBy == [o \in Ops |-> IF o \in {update, assign} THEN d1 ELSE d2]

ColumnsOf == [o \in Ops |->
  CASE o = update -> {"content"} [] o = icon -> {"icon"} [] OTHER -> {}]

\* Each behaviour is about the row and the class, or about the class and the tag.
OneSubject == Made \subseteq {update, icon, unclass} \/ Made \subseteq {assign, unclass, untag}
=============================================================================
