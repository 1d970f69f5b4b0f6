------------------------------- MODULE Replicas -------------------------------
(***************************************************************************)
(* Several devices editing one node, one class pair and one tag pair of    *)
(* it: the last-writer-wins appliers of data/store.py (object.update, the  *)
(* class and tag carriers of object.create over an existing node,          *)
(* class.unassign, tag.unassign).  A device shows its own edits before the *)
(* relay has them and receives the others' in log order by pull, or early  *)
(* as live frames, so replicas apply the same envelopes in different       *)
(* orders.                                                                 *)
(*                                                                         *)
(* Stamps are arbitrary: HlcClock shows why not even one device's are      *)
(* sure to increase, and wall clocks differ.  The node exists from the     *)
(* start; delivery (retries, lost answers, quarantine, restores from       *)
(* backup) is SyncEngine's subject.                                        *)
(***************************************************************************)
EXTENDS Naturals, Sequences, FiniteSets

CONSTANTS
  Devices,
  Actor,         \* the user a device is signed in as; user ids are ordered
  Ops,           \* the envelopes devices may produce
  By,            \* the device that produces an envelope
  Updates,       \* object.update envelopes
  Writes,        \* the columns an update sets
  Links,         \* updates whose content carries a class_link to the class
  ClassAdds,     \* object.create over the node, with the class in classIds
  ClassRemoves,  \* class.unassign
  TagAdds,       \* object.create over the node, with the tag in tagIds
  TagRemoves,    \* tag.unassign
  MaxTime,       \* bound: the physical part of a stamp
  MaxLogical,    \* bound: the logical part of a stamp
  None

Columns == {"content", "icon"}

ASSUME ReplicaAssumption ==
  /\ Actor \in [Devices -> Nat \ {0}]
  /\ None \notin Ops
  /\ By \in [Ops -> Devices]
  /\ Writes \in [Ops -> SUBSET Columns]
  /\ Updates \subseteq Ops
  /\ Links \subseteq {o \in Updates : "content" \in Writes[o]}
  /\ ClassAdds \subseteq Ops \ Updates
  /\ ClassRemoves \subseteq Ops \ (Updates \cup ClassAdds)
  /\ TagAdds \subseteq Ops \ Updates
  /\ TagRemoves \subseteq Ops \ (Updates \cup TagAdds)
  /\ MaxTime \in Nat /\ MaxLogical \in Nat

-----------------------------------------------------------------------------
(* A stamp is the (hlc, actor) of an envelope; that of an absent row is    *)
(* below every envelope's.                                                 *)

Stamp == [physical : Nat, logical : Nat, actor : Nat]
NoStamp == [physical |-> 0, logical |-> 0, actor |-> 0]

Less(s, t) ==
  \/ s.physical < t.physical
  \/ s.physical = t.physical /\ s.logical < t.logical
  \/ s.physical = t.physical /\ s.logical = t.logical /\ s.actor < t.actor

Member == [present : BOOLEAN, stamp : Stamp]
Absent == [present |-> FALSE, stamp |-> NoStamp]

\* Wrong on purpose: the class add, too, loses a tie.
ClassMemberUpsertStrict(m, s) ==
  IF Less(m.stamp, s) THEN [present |-> TRUE, stamp |-> s] ELSE m

\* The class add wins a tie.
ClassMemberUpsert(m, s) ==
  IF ~Less(s, m.stamp) THEN [present |-> TRUE, stamp |-> s] ELSE m

\* Of a tag's add and remove the first to arrive wins a tie.
TagMemberUpsert(m, s) ==
  IF Less(m.stamp, s) THEN [present |-> TRUE, stamp |-> s] ELSE m

\* Wrong on purpose: a remove takes effect whatever its stamp.
MemberRemoveAlways(m, s) == [present |-> FALSE, stamp |-> s]

MemberRemove(m, s) ==
  IF Less(m.stamp, s) THEN [present |-> FALSE, stamp |-> s] ELSE m

RowState == [by : Ops \cup {None}, stamp : Stamp,
        shows : [Columns -> Ops \cup {None}]]
FirstRow == [by |-> None, stamp |-> NoStamp, shows |-> [c \in Columns |-> None]]

\* Wrong on purpose: the logical counter is left out of the comparison.
IncomingWinsPhysical(r, s) == r.stamp.physical < s.physical

IncomingWins(r, s) == Less(r.stamp, s)

\* An update that does not win is dropped whole; one that does sets the
\* columns it carries and leaves the others.
Updated(r, o, s) ==
  IF IncomingWins(r, s)
    THEN [by |-> o, stamp |-> s,
          shows |-> [c \in Columns |-> IF c \in Writes[o] THEN o ELSE r.shows[c]]]
    ELSE r

-----------------------------------------------------------------------------
VARIABLES
  stamp,    \* the (hlc, actor) of each envelope, NoStamp before it is made
  editing,  \* main thread of a device: the envelope it is saving, or None
  outbox,   \* envelopes waiting to be pushed, oldest first
  log,      \* the relay's log
  cursor,   \* how much of the log a device has pulled
  applied,  \* relay_operations
  row, class, tag,  \* the mirror: node row, class_member_set, tag_member_set
  asserted  \* history: envelopes whose class add or remove reached the set

mirrorVars == <<applied, row, class, tag, asserted>>
vars == <<stamp, editing, outbox, log, cursor, mirrorVars>>

TypeOK ==
  /\ stamp \in [Ops -> Stamp]
  /\ editing \in [Devices -> Ops \cup {None}]
  /\ outbox \in [Devices -> Seq(Ops)]
  /\ log \in Seq(Ops)
  /\ cursor \in [Devices -> Nat]
  /\ applied \in [Devices -> SUBSET Ops]
  /\ row \in [Devices -> RowState]
  /\ class \in [Devices -> Member]
  /\ tag \in [Devices -> Member]
  /\ asserted \in [Devices -> SUBSET Ops]

Init ==
  /\ stamp = [o \in Ops |-> NoStamp]
  /\ editing = [d \in Devices |-> None]
  /\ outbox = [d \in Devices |-> << >>]
  /\ log = << >>
  /\ cursor = [d \in Devices |-> 0]
  /\ applied = [d \in Devices |-> {}]
  /\ row = [d \in Devices |-> FirstRow]
  /\ class = [d \in Devices |-> Absent]
  /\ tag = [d \in Devices |-> Absent]
  /\ asserted = [d \in Devices |-> {}]

Made == {o \in Ops : stamp[o] # NoStamp}
Committed == {log[i] : i \in 1 .. Len(log)}

\* class.unassign raises MoveGuardError while the content links the class.
Refused(d, o) == o \in ClassRemoves /\ row[d].shows["content"] \in Links

\* Does the class add or remove of o take place: an update's link only if the
\* update wins.
Asserts(d, o) ==
  \/ o \in ClassAdds \cup ClassRemoves
  \/ o \in Links /\ IncomingWins(row[d], stamp[o])

ClassAfter(d, o) ==
  IF ~Asserts(d, o) THEN class[d]
  ELSE IF o \in ClassRemoves THEN MemberRemove(class[d], stamp[o])
  ELSE ClassMemberUpsert(class[d], stamp[o])

TagAfter(d, o) ==
  IF o \in TagAdds THEN TagMemberUpsert(tag[d], stamp[o])
  ELSE IF o \in TagRemoves THEN MemberRemove(tag[d], stamp[o])
  ELSE tag[d]

(***************************************************************************)
(* apply_remote: nothing for an envelope applied before, nothing (not even *)
(* the dedupe row) for one a guard refuses.                                *)
(***************************************************************************)
Apply(d, o) ==
  IF o \in applied[d] \/ Refused(d, o)
    THEN UNCHANGED mirrorVars
    ELSE /\ applied' = [applied EXCEPT ![d] = @ \cup {o}]
         /\ row' = [row EXCEPT ![d] =
                      IF o \in Updates THEN Updated(@, o, stamp[o]) ELSE @]
         /\ class' = [class EXCEPT ![d] = ClassAfter(d, o)]
         /\ tag' = [tag EXCEPT ![d] = TagAfter(d, o)]
         /\ asserted' = [asserted EXCEPT ![d] =
                           IF Asserts(d, o) THEN @ \cup {o} ELSE @]

-----------------------------------------------------------------------------
(* The main thread: make the envelope, enqueue it, show it. *)

Save(d, o) ==
  /\ By[o] = d
  /\ o \notin Made
  /\ editing[d] = None
  /\ \E p \in 1 .. MaxTime, l \in 0 .. MaxLogical :
       stamp' = [stamp EXCEPT ![o] =
                   [physical |-> p, logical |-> l, actor |-> Actor[d]]]
  /\ outbox' = [outbox EXCEPT ![d] = Append(@, o)]
  /\ editing' = [editing EXCEPT ![d] = o]
  /\ UNCHANGED <<log, cursor, mirrorVars>>

Show(d) ==
  /\ editing[d] # None
  /\ Apply(d, editing[d])
  /\ editing' = [editing EXCEPT ![d] = None]
  /\ UNCHANGED <<stamp, outbox, log, cursor>>

\* The process ends between the two: the outbox row remains.
Restart(d) ==
  /\ editing[d] # None
  /\ editing' = [editing EXCEPT ![d] = None]
  /\ UNCHANGED <<stamp, outbox, log, cursor, mirrorVars>>

\* The relay takes the oldest envelope of the outbox.
Push(d) ==
  /\ outbox[d] # << >>
  /\ log' = Append(log, Head(outbox[d]))
  /\ outbox' = [outbox EXCEPT ![d] = Tail(@)]
  /\ UNCHANGED <<stamp, editing, cursor, mirrorVars>>

\* A live frame, push's own apply of what the relay accepted, or a page that
\* a crash kept from moving the cursor.
Deliver(d, o) ==
  /\ o \in Committed \ applied[d]
  /\ Apply(d, o)
  /\ UNCHANGED <<stamp, editing, outbox, log, cursor>>

\* Wrong on purpose: an empty page's missing next position becomes the cursor.
PullStoresNone(d) ==
  IF cursor[d] < Len(log)
    THEN /\ Apply(d, log[cursor[d] + 1])
         /\ cursor' = [cursor EXCEPT ![d] = @ + 1]
         /\ UNCHANGED <<stamp, editing, outbox, log>>
    ELSE /\ cursor' = [cursor EXCEPT ![d] = None]
         /\ UNCHANGED <<stamp, editing, outbox, log, mirrorVars>>

\* Catch-up; the cursor passes a refused envelope too.
Pull(d) ==
  /\ cursor[d] < Len(log)
  /\ Apply(d, log[cursor[d] + 1])
  /\ cursor' = [cursor EXCEPT ![d] = @ + 1]
  /\ UNCHANGED <<stamp, editing, outbox, log>>

DeviceStep(d) ==
  \/ \E o \in Ops : Save(d, o) \/ Deliver(d, o)
  \/ Show(d) \/ Restart(d) \/ Push(d) \/ Pull(d)

Next == \E d \in Devices : DeviceStep(d)

Spec == Init /\ [][Next]_vars

-----------------------------------------------------------------------------
(* Properties *)

TagOps(d) == applied[d] \cap (TagAdds \cup TagRemoves)
RowOps(d) == applied[d] \cap Updates

DistinctStamps(S) == \A o, p \in S : stamp[o] = stamp[p] => o = p

(***************************************************************************)
(* Class membership converges: two replicas whose set received the same    *)
(* adds and removes agree on it, in whatever orders they came and even     *)
(* when two devices of one user stamp the same instant (the add's >= next  *)
(* to the remove's >).                                                     *)
(***************************************************************************)
ClassConverges ==
  \A d, e \in Devices : asserted[d] = asserted[e] => class[d] = class[e]

(***************************************************************************)
(* Tag membership converges as long as no two of its adds and removes bear *)
(* the same stamp: with > on both sides the first to arrive wins a tie.    *)
(***************************************************************************)
TagConverges ==
  \A d, e \in Devices :
    TagOps(d) = TagOps(e) /\ DistinctStamps(TagOps(d)) => tag[d] = tag[e]

(***************************************************************************)
(* Replicas that took the same updates of a row, none of equal stamps,     *)
(* agree on the newest one and show what it wrote.  (They need not agree   *)
(* on the columns it left alone.)                                          *)
(***************************************************************************)
RowConverges ==
  \A d, e \in Devices :
    RowOps(d) = RowOps(e) /\ DistinctStamps(RowOps(d)) /\ RowOps(d) # {} =>
      /\ row[d].by = row[e].by
      /\ row[d].by \in RowOps(d)
      /\ \A c \in Writes[row[d].by] :
           row[d].shows[c] = row[d].by /\ row[e].shows[c] = row[d].by

(***************************************************************************)
(* "every replica converges byte-identical under any delivery order"       *)
(* (development-workflow.md:88): devices that hold the whole log and have  *)
(* nothing of their own under way show the same node.                      *)
(***************************************************************************)
CaughtUp(d) == cursor[d] = Len(log) /\ outbox[d] = << >> /\ editing[d] = None

ReplicasConverge ==
  \A d, e \in Devices :
    CaughtUp(d) /\ CaughtUp(e) =>
      /\ row[d].shows = row[e].shows
      /\ class[d].present = class[e].present
      /\ tag[d].present = tag[e].present
=============================================================================
