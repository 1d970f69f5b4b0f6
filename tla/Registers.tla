------------------------------- MODULE Registers -------------------------------
(***************************************************************************)
(* Two registers of one mirror that envelopes reach in any order           *)
(* (data/store.py): the members of collections (collection_member, an      *)
(* OR-set whose adds win ties) and the external-id mappings (external_ref  *)
(* and external_ref_tombstone, two tables that hold one record per ref).   *)
(*                                                                         *)
(* `heard` sets are what was applied to a key since its row was last       *)
(* purged: a permanent delete drops rows with their causality, and an      *)
(* envelope older than what stood there may then land.  An envelope's      *)
(* (hlc, actor) pair is one number, larger for a later pair; two envelopes *)
(* of a device whose clock restarted may share it (see HlcClock).          *)
(***************************************************************************)
EXTENDS Naturals

CONSTANTS
  Ref,         \* external ids
  Object,      \* node ids
  Member,      \* <<collection, object>> pairs
  Stamp,       \* (hlc, actor) pairs
  Unmapped     \* the node of a delete

ASSUME RegistersAssumption ==
  /\ Member \subseteq Object \X Object
  /\ Stamp \subseteq Nat
  /\ Unmapped \notin Object

VARIABLES
  members,       \* collection_member: the row of a pair, or none
  mapping,       \* external_ref
  tombstone,     \* external_ref_tombstone
  memberHeard,   \* applied to a pair
  refHeard       \* applied to a ref

registerVars == <<members, mapping, tombstone, memberHeard, refHeard>>

MemberRow == [present : BOOLEAN, at : Stamp]
RefRow == [node : Object \cup {Unmapped}, at : Stamp]
Absent == {}

\* A table's row is the set of it: at most one.
Table(S) == {Absent} \cup {{r} : r \in S}

RegistersTypeOK ==
  /\ members \in [Member -> Table(MemberRow)]
  /\ mapping \in [Ref -> Table([node : Object, at : Stamp])]
  /\ tombstone \in [Ref -> Table([at : Stamp])]
  /\ memberHeard \in [Member -> SUBSET MemberRow]
  /\ refHeard \in [Ref -> SUBSET RefRow]

RegistersInit ==
  /\ members = [m \in Member |-> Absent] /\ memberHeard = [m \in Member |-> {}]
  /\ mapping = [r \in Ref |-> Absent] /\ tombstone = [r \in Ref |-> Absent]
  /\ refHeard = [r \in Ref |-> {}]

-----------------------------------------------------------------------------
\* collection.add and collection.remove: the add wins a tie, the remove does not.
WriteMember(m, present, t) ==
  /\ members' = [members EXCEPT ![m] =
       IF \A row \in @ : t > row.at \/ (present /\ t = row.at) THEN {[present |-> present, at |-> t]} ELSE @]
  /\ memberHeard' = [memberHeard EXCEPT ![m] = @ \cup {[present |-> present, at |-> t]}]
  /\ UNCHANGED <<mapping, tombstone, refHeard>>

\* Wrong on purpose: a tombstone does not stand in a set's way.
WinsLive(r, t) == \A row \in mapping[r] : t > row.at

\* The one record per ref, live row or tombstone, that a write has to beat.
Wins(r, t) == \A row \in mapping[r] \cup tombstone[r] : t > row.at

SetRef(r, n, t) ==
  /\ IF Wins(r, t)
       THEN /\ mapping' = [mapping EXCEPT ![r] = {[node |-> n, at |-> t]}]
            /\ tombstone' = [tombstone EXCEPT ![r] = Absent]
       ELSE UNCHANGED <<mapping, tombstone>>
  /\ refHeard' = [refHeard EXCEPT ![r] = @ \cup {[node |-> n, at |-> t]}]
  /\ UNCHANGED <<members, memberHeard>>

\* A delete of an unmapped ref leaves its tombstone too.
DeleteRef(r, t) ==
  /\ IF Wins(r, t)
       THEN /\ mapping' = [mapping EXCEPT ![r] = Absent]
            /\ tombstone' = [tombstone EXCEPT ![r] = {[at |-> t]}]
       ELSE UNCHANGED <<mapping, tombstone>>
  /\ refHeard' = [refHeard EXCEPT ![r] = @ \cup {[node |-> Unmapped, at |-> t]}]
  /\ UNCHANGED <<members, memberHeard>>

\* _permanently_delete_subtree: the live mappings and memberships of a node go, the
\* tombstones stay.
PurgeObject(n) ==
  LET mapped(r) == \E row \in mapping[r] : row.node = n
      about(m) == n \in {m[1], m[2]}
  IN  /\ mapping' = [r \in Ref |-> IF mapped(r) THEN Absent ELSE mapping[r]]
      /\ refHeard' = [r \in Ref |-> IF mapped(r) THEN {} ELSE refHeard[r]]
      /\ members' = [m \in Member |-> IF about(m) THEN Absent ELSE members[m]]
      /\ memberHeard' = [m \in Member |-> IF about(m) THEN {} ELSE memberHeard[m]]
      /\ UNCHANGED tombstone

RegistersNext ==
  \/ \E t \in Stamp :
       \/ \E m \in Member, present \in BOOLEAN : WriteMember(m, present, t)
       \/ \E r \in Ref : DeleteRef(r, t) \/ \E n \in Object : SetRef(r, n, t)
  \/ \E n \in Object : PurgeObject(n)

RegistersSpec == RegistersInit /\ [][RegistersNext]_registerVars

-----------------------------------------------------------------------------
(* However adds and removes arrive, a pair is a member exactly when an add of it was
   heard that no remove is newer than. *)
AddsWin ==
  \A m \in Member :
    (\E row \in members[m] : row.present)
      <=> (\E add \in memberHeard[m] : add.present /\ \A e \in memberHeard[m] : e.present \/ e.at <= add.at)

(* However sets and deletes arrive, a ref has one record in the two tables, and it is the
   newest heard: it maps the node of a newest set, or nothing by a newest delete. *)
OneRecord(r) == mapping[r] = Absent \/ tombstone[r] = Absent
Newest(r) == {e \in refHeard[r] : \A f \in refHeard[r] : f.at <= e.at}
RefIsNewest ==
  \A r \in Ref :
    /\ OneRecord(r)
    /\ mapping[r] \subseteq Newest(r)
    /\ \A row \in tombstone[r] : [node |-> Unmapped, at |-> row.at] \in Newest(r)
    /\ refHeard[r] # {} => mapping[r] \cup tombstone[r] # {}

(* The records that stand depend on what was heard and not on its order. *)
NewestStands == AddsWin /\ RefIsNewest
=============================================================================
