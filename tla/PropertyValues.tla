---------------------------- MODULE PropertyValues ----------------------------
(***************************************************************************)
(* The authored property values of one node in one mirror: property_value, *)
(* its two tombstone tables and the visible set every read derives from    *)
(* them (data/store.py).  Envelopes of several devices arrive in any       *)
(* order, one per step.                                                    *)
(*                                                                         *)
(* A row is addressed by its position <<schema, idx>> or by an element id  *)
(* minted by its writer; the panel may also remove a positional row by its *)
(* row id.  A value is "scalar", "bad" (what validation refuses for a      *)
(* known schema) or "carrier", a reference to the text block below the     *)
(* node.  The edges and the search text derived after each write are pure  *)
(* functions of the visible set (EdgeIndex).                               *)
(***************************************************************************)
EXTENDS Naturals, FiniteSets

CONSTANTS
  Schema,   \* property schema ids
  Known,    \* those with a property_schema row
  Scoped,   \* known schemas whose scope excludes a node without the class
  Single,   \* known schemas that are not multi
  Text,     \* known schemas of type text
  Element,  \* minted element ids
  Home,     \* Home[x]: the schema element x belongs to
  Idx,      \* positions
  Stamps,   \* (hlc, actor) pairs of the envelopes
  MaxSeen   \* bound on the envelopes delivered

ASSUME ValuesAssumption ==
  /\ Known \subseteq Schema /\ Scoped \cup Single \cup Text \subseteq Known
  /\ Home \in [Element -> Schema]
  /\ Idx \subseteq Nat /\ 0 \in Idx
  /\ Element \cap (Schema \X Idx) = {}
  /\ Stamps \subseteq Nat \X Nat /\ <<0, 0>> \notin Stamps
  /\ MaxSeen \in Nat

VARIABLES
  valueRows,   \* property_value by row id: the winning write, or NoRow
  slotTomb,    \* property_value_tombstone by position: its stamp
  elementTomb, \* property_value_element_tombstone by row id: its stamp
  carries,     \* the node's classes meet the scope
  carrier,     \* the carrier block is active
  arrived,     \* envelopes delivered
  refused      \* those the applier rejected

valueVars == <<valueRows, slotTomb, elementTomb, carries, carrier, arrived, refused>>

Position == Schema \X Idx
RowId == Position \cup Element
Value == {"scalar", "carrier", "bad"}
NoStamp == <<0, 0>>   \* no tombstone: stamps start above it
NoRow == [stamp |-> NoStamp, idx |-> 0, value |-> "bad"]

ValueEnvelope ==
  [op : {"property.set"}, row : Position, stamp : Stamps, value : Value]
    \cup [op : {"property.set"}, row : Element, idx : Idx, stamp : Stamps, value : Value]
    \cup [op : {"property.unset"}, row : Position, stamp : Stamps]
    \cup [op : {"element.remove"}, row : RowId, stamp : Stamps]

SchemaOf(id) == IF id \in Element THEN Home[id] ELSE id[1]
IdxOf(e) == IF e.row \in Element THEN e.idx ELSE e.row[2]

\* (hlc, actor) order, and the hlc alone.
Beats(s, t) == s[1] > t[1] \/ (s[1] = t[1] /\ s[2] > t[2])
Newer(s, t) == s[1] > t[1]

ValuesInit ==
  /\ valueRows = [id \in RowId |-> NoRow]
  /\ slotTomb = [p \in Position |-> NoStamp]
  /\ elementTomb = [id \in RowId |-> NoStamp]
  /\ carries = TRUE /\ carrier = TRUE
  /\ arrived = {} /\ refused = {}

-----------------------------------------------------------------------------
(* Eligibility, value validation and cardinality, before any write: an
   unknown schema stores unchecked. *)
Accepts(e) ==
  LET schema == SchemaOf(e.row)
  IN  schema \in Known =>
        /\ schema \in Scoped => carries
        /\ e.value # "bad"
        /\ schema \in Single => IdxOf(e) = 0

\* A strictly newer remove of the element wins over the add.
AddBlocked(e) == Newer(elementTomb[e.row], e.stamp)

\* A tombstone of the position wins over a write that is not ahead of it.
SetBlocked(e) == slotTomb[e.row] # NoStamp /\ ~Beats(e.stamp, slotTomb[e.row])

\* Insert, or overwrite the row the envelope's stamp beats.
WriteValue(e) ==
  IF valueRows[e.row] = NoRow \/ Beats(e.stamp, valueRows[e.row].stamp)
    THEN [valueRows EXCEPT ![e.row] = [stamp |-> e.stamp, idx |-> IdxOf(e), value |-> e.value]]
    ELSE valueRows

\* Wrong on purpose: the rows that are hidden or elsewhere are not asked.
TrashCarrierAnyway(removed, left) ==
  carrier' = (carrier /\ ~(valueRows[removed].value = "carrier" /\ SchemaOf(removed) \in Text))

(* The carrier of a text value goes to the trash with its last row: any row
   counts, also one that a tombstone hides. *)
TrashCarrierIfOrphaned(removed, left) ==
  carrier' = (carrier /\ ~(/\ valueRows[removed].value = "carrier"
                           /\ SchemaOf(removed) \in Text
                           /\ \A id \in RowId : left[id].value # "carrier"))

DeleteRow(id) ==
  /\ valueRows' = [valueRows EXCEPT ![id] = NoRow]
  /\ TrashCarrierIfOrphaned(id, [valueRows EXCEPT ![id] = NoRow])

KeepRows == UNCHANGED <<valueRows, carrier>>

PropertySet(e) ==
  /\ e.op = "property.set"
  /\ IF Accepts(e)
       THEN /\ valueRows' = IF (IF e.row \in Element THEN AddBlocked(e) ELSE SetBlocked(e))
                         THEN valueRows ELSE WriteValue(e)
            /\ UNCHANGED refused
       ELSE /\ refused' = refused \cup {e}
            /\ UNCHANGED valueRows
  /\ UNCHANGED <<slotTomb, elementTomb, carrier>>

PositionalUnset(e) ==
  /\ e.op = "property.unset"
  /\ slotTomb' = [slotTomb EXCEPT ![e.row] = IF Beats(e.stamp, @) THEN e.stamp ELSE @]
  /\ IF valueRows[e.row] # NoRow /\ Beats(e.stamp, valueRows[e.row].stamp)
       THEN DeleteRow(e.row) ELSE KeepRows
  /\ UNCHANGED <<elementTomb, refused>>

ElementRemove(e) ==
  /\ e.op = "element.remove"
  /\ elementTomb' = [elementTomb EXCEPT ![e.row] = IF Beats(e.stamp, @) THEN e.stamp ELSE @]
  /\ IF valueRows[e.row] # NoRow /\ Newer(e.stamp, valueRows[e.row].stamp)
       THEN DeleteRow(e.row) ELSE KeepRows
  /\ UNCHANGED <<slotTomb, refused>>

DeliverValue(e) ==
  /\ Cardinality(arrived) < MaxSeen
  /\ \A d \in arrived : d.stamp # e.stamp   \* a device stamps no two envelopes alike
  /\ arrived' = arrived \cup {e}
  /\ UNCHANGED carries
  /\ PropertySet(e) \/ PositionalUnset(e) \/ ElementRemove(e)

\* A class.unassign, or the add carrier of a class, applied in between (Replicas).
Reclass ==
  /\ carries' = ~carries
  /\ UNCHANGED <<valueRows, slotTomb, elementTomb, carrier, arrived, refused>>

ValuesNext == (\E e \in ValueEnvelope \ arrived : DeliverValue(e)) \/ Reclass

ValuesSpec == ValuesInit /\ [][ValuesNext]_valueVars

-----------------------------------------------------------------------------
\* Wrong on purpose: the positional tombstones are not asked again at read.
VisibleByElement(id) == valueRows[id] # NoRow /\ ~Newer(elementTomb[id], valueRows[id].stamp)

\* The visible set: rows no tombstone of their element or of their position hides.
Visible(id) ==
  /\ valueRows[id] # NoRow
  /\ ~Newer(elementTomb[id], valueRows[id].stamp)
  /\ LET tomb == slotTomb[<<SchemaOf(id), valueRows[id].idx>>]
     IN  tomb = NoStamp \/ Beats(valueRows[id].stamp, tomb)

\* What the accepted envelopes say of a row, in whatever order they came.
Writes(id) == {e \in arrived \ refused : e.op = "property.set" /\ e.row = id}
Latest(id) == {e \in Writes(id) : \A d \in Writes(id) : ~Beats(d.stamp, e.stamp)}
Undone(e) ==
  \/ \E d \in arrived : d.op = "element.remove" /\ d.row = e.row /\ Newer(d.stamp, e.stamp)
  \/ \E d \in arrived : /\ d.op = "property.unset" /\ ~Beats(e.stamp, d.stamp)
                     /\ d.row = <<SchemaOf(e.row), IdxOf(e)>>

(* What is shown for a row depends on which envelopes the mirror accepted and not on
   their order: the newest write, unless a newer remove of the element or an unset of
   its position, at least as new, is among them.  Two tombstone tables, two ways to
   address a row and rows deleted by either make this hold or not. *)
VisibleIsNewest ==
  \A id \in RowId :
    LET live == {e \in Latest(id) : ~Undone(e)}
    IN  /\ Visible(id) <=> live # {}
        /\ Visible(id) => \E e \in live : valueRows[id].stamp = e.stamp /\ valueRows[id].value = e.value

(* A remove sends the carrier block to the trash only when no value left on screen
   refers to it. *)
CarrierOutlivesItsValues ==
  [][carrier /\ ~carrier' => ~\E id \in RowId : Visible(id)' /\ valueRows'[id].value = "carrier"]_valueVars
=============================================================================
