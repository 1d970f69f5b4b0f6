---------------------------- MODULE ReplicasProofs ----------------------------
(***************************************************************************)
(* Proofs about Replicas, for any number of devices, users and envelopes.  *)
(* Each set and the row is the winner of what reached it, whatever the     *)
(* order: the largest stamp, and at that stamp an add over a remove (class *)
(* set) or the one that came first (tag set, row).                         *)
(***************************************************************************)
EXTENDS Replicas, TLAPS

\* What a device handles has been stamped, and a stamp never changes.
StampedOnly ==
  /\ \A d \in Devices : editing[d] # None => editing[d] \in Made
  /\ \A d \in Devices : \A i \in 1 .. Len(outbox[d]) : outbox[d][i] \in Made
  /\ \A i \in 1 .. Len(log) : log[i] \in Made
  /\ \A d \in Devices : applied[d] \subseteq Made

\* The history of the class set is part of what was applied.
AssertedOK ==
  \A d \in Devices :
    /\ asserted[d] \subseteq applied[d]
    /\ asserted[d] \subseteq ClassAdds \cup ClassRemoves \cup Links

Newest(s, A) == \A o \in A : ~Less(s, stamp[o])

ClassWinner(d) ==
  /\ asserted[d] = {} => class[d] = Absent
  /\ asserted[d] # {} => \E o \in asserted[d] : class[d].stamp = stamp[o]
  /\ Newest(class[d].stamp, asserted[d])
  /\ class[d].present <=>
       \E o \in asserted[d] \ ClassRemoves : stamp[o] = class[d].stamp

TagWinner(d) ==
  /\ TagOps(d) = {} => tag[d] = Absent
  /\ TagOps(d) # {} => \E o \in TagOps(d) : /\ tag[d].stamp = stamp[o]
                                            /\ tag[d].present <=> o \in TagAdds
  /\ Newest(tag[d].stamp, TagOps(d))

RowWinner(d) ==
  /\ RowOps(d) = {} => row[d] = FirstRow
  /\ RowOps(d) # {} => /\ row[d].by \in RowOps(d)
                       /\ row[d].stamp = stamp[row[d].by]
                       /\ \A c \in Writes[row[d].by] : row[d].shows[c] = row[d].by
  /\ Newest(row[d].stamp, RowOps(d))

WinnerInv ==
  /\ TypeOK
  /\ StampedOnly
  /\ AssertedOK
  /\ \A d \in Devices : ClassWinner(d) /\ TagWinner(d) /\ RowWinner(d)

-----------------------------------------------------------------------------
(* Stamps. *)

\* Stamps are compared lexicographically: the order is total and transitive,
\* and every envelope's stamp is above that of an absent row.
LEMMA StampOrder ==
  \A s, t, u \in Stamp :
    /\ ~Less(s, t) /\ ~Less(t, s) => s = t
    /\ Less(s, t) => ~Less(t, s)
    /\ Less(s, t) /\ ~Less(s, u) => ~Less(t, u)
    /\ ~Less(s, t) /\ Less(s, u) => Less(t, u)
    /\ ~Less(s, t) /\ ~Less(t, u) => ~Less(s, u)
    /\ ~Less(s, s)
    /\ s # NoStamp => Less(NoStamp, s)
    /\ ~Less(s, NoStamp)
  BY DEF Stamp, NoStamp, Less

LEMMA StampOfNone == NoStamp \in Stamp /\ Absent \in Member /\ FirstRow \in RowState
  BY DEF Stamp, NoStamp, Absent, Member, FirstRow, RowState, Columns

LEMMA MadeFacts ==
  ASSUME TypeOK, NEW o \in Made
  PROVE  o \in Ops /\ stamp[o] \in Stamp /\ stamp[o] # NoStamp
  BY DEF TypeOK, Made

-----------------------------------------------------------------------------
(* One envelope applied to one replica. *)

LEMMA ClassAfterWins ==
  ASSUME WinnerInv, NEW d \in Devices, NEW o \in Made, o \notin asserted[d],
         Asserts(d, o),
         NEW A, A = asserted[d] \cup {o},
         NEW m, m = ClassAfter(d, o)
  PROVE  /\ m \in Member
         /\ \E p \in A : m.stamp = stamp[p]
         /\ Newest(m.stamp, A)
         /\ m.present <=> \E p \in A \ ClassRemoves : stamp[p] = m.stamp
<1> DEFINE s == stamp[o]
<1>1. /\ class[d] \in Member /\ class[d].stamp \in Stamp
      /\ class[d].present \in BOOLEAN /\ asserted[d] \subseteq Ops
  BY DEF WinnerInv, TypeOK, Member
<1>2. s \in Stamp /\ s # NoStamp
  BY MadeFacts DEF WinnerInv
<1>3. \A p \in asserted[d] : stamp[p] \in Stamp
  BY <1>1 DEF WinnerInv, TypeOK
<1>4. ClassWinner(d)
  BY DEF WinnerInv
<1>5. CASE o \in ClassRemoves /\ Less(class[d].stamp, s)
  <2>1. m = [present |-> FALSE, stamp |-> s]
    BY <1>5 DEF ClassAfter, MemberRemove
  <2>2. \A p \in asserted[d] : Less(stamp[p], s)
    BY <1>1, <1>2, <1>3, <1>4, <1>5, StampOrder DEF ClassWinner, Newest
  <2>3. \A p \in asserted[d] : ~Less(s, stamp[p]) /\ stamp[p] # s
    BY <2>2, <1>2, <1>3, StampOrder
  <2>4. Newest(s, A)
    BY <2>3, <1>2, StampOrder DEF Newest
  <2> QED
    BY <2>1, <2>3, <2>4, <1>2, <1>5 DEF Member
<1>6. CASE o \in ClassRemoves /\ ~Less(class[d].stamp, s)
  <2>1. m = class[d]
    BY <1>6 DEF ClassAfter, MemberRemove
  <2>2. asserted[d] # {}
    BY <1>6, <1>2, <1>4, StampOrder DEF ClassWinner, Absent
  <2>3. Newest(m.stamp, A)
    BY <2>1, <1>4, <1>6 DEF ClassWinner, Newest
  <2> QED
    BY <2>1, <2>2, <2>3, <1>1, <1>4, <1>6 DEF ClassWinner
<1>7. CASE o \notin ClassRemoves /\ ~Less(s, class[d].stamp)
  <2>1. m = [present |-> TRUE, stamp |-> s]
    BY <1>7 DEF ClassAfter, ClassMemberUpsert
  <2>2. \A p \in asserted[d] : ~Less(s, stamp[p])
    BY <1>1, <1>2, <1>3, <1>4, <1>7, StampOrder DEF ClassWinner, Newest
  <2>3. Newest(s, A)
    BY <2>2, <1>2, StampOrder DEF Newest
  <2> QED
    BY <2>1, <2>3, <1>2, <1>7 DEF Member
<1>8. CASE o \notin ClassRemoves /\ Less(s, class[d].stamp)
  <2>1. m = class[d]
    BY <1>8 DEF ClassAfter, ClassMemberUpsert
  <2>2. asserted[d] # {}
    BY <1>8, <1>2, <1>4, StampOrder DEF ClassWinner, Absent
  <2>3. ~Less(class[d].stamp, s) /\ s # class[d].stamp
    BY <1>8, <1>1, <1>2, StampOrder
  <2>4. Newest(m.stamp, A)
    BY <2>1, <2>3, <1>4 DEF ClassWinner, Newest
  <2> QED
    BY <2>1, <2>2, <2>3, <2>4, <1>1, <1>4 DEF ClassWinner
<1> QED
  BY <1>5, <1>6, <1>7, <1>8

LEMMA TagAfterWins ==
  ASSUME WinnerInv, NEW d \in Devices, NEW o \in Made, o \notin applied[d],
         o \in TagAdds \cup TagRemoves,
         NEW A, A = TagOps(d) \cup {o},
         NEW m, m = TagAfter(d, o)
  PROVE  /\ m \in Member
         /\ \E p \in A : m.stamp = stamp[p] /\ (m.present <=> p \in TagAdds)
         /\ Newest(m.stamp, A)
<1> DEFINE s == stamp[o]
<1>1. /\ tag[d] \in Member /\ tag[d].stamp \in Stamp
      /\ tag[d].present \in BOOLEAN /\ TagOps(d) \subseteq Ops
  BY DEF WinnerInv, TypeOK, Member, TagOps
<1>2. s \in Stamp /\ s # NoStamp
  BY MadeFacts DEF WinnerInv
<1>3. \A p \in TagOps(d) : stamp[p] \in Stamp
  BY <1>1 DEF WinnerInv, TypeOK
<1>4. TagWinner(d)
  BY DEF WinnerInv
<1>5. o \in TagRemoves => o \notin TagAdds
  BY ReplicaAssumption
<1>6. CASE Less(tag[d].stamp, s)
  <2>1. m \in Member /\ m.stamp = s /\ (m.present <=> o \in TagAdds)
    <3>1. CASE o \in TagAdds
      <4>1. m = [present |-> TRUE, stamp |-> s]
        BY <1>6, <3>1 DEF TagAfter, TagMemberUpsert
      <4> QED
        BY <4>1, <3>1, <1>2 DEF Member
    <3>2. CASE o \in TagRemoves
      <4>1. m = [present |-> FALSE, stamp |-> s]
        BY <1>5, <1>6, <3>2 DEF TagAfter, MemberRemove
      <4> QED
        BY <4>1, <3>2, <1>2, <1>5 DEF Member
    <3> QED
      BY <3>1, <3>2
  <2>2. \A p \in TagOps(d) : ~Less(s, stamp[p])
    BY <1>1, <1>2, <1>3, <1>4, <1>6, StampOrder DEF TagWinner, Newest
  <2>3. Newest(s, A)
    BY <2>2, <1>2, StampOrder DEF Newest
  <2> QED
    BY <2>1, <2>3
<1>7. CASE ~Less(tag[d].stamp, s)
  <2>1. m = tag[d]
    BY <1>7 DEF TagAfter, TagMemberUpsert, MemberRemove
  <2>2. TagOps(d) # {}
    BY <1>7, <1>2, <1>4, StampOrder DEF TagWinner, Absent
  <2>3. Newest(m.stamp, A)
    BY <2>1, <1>4, <1>7 DEF TagWinner, Newest
  <2> QED
    BY <2>1, <2>2, <2>3, <1>1, <1>4 DEF TagWinner
<1> QED
  BY <1>6, <1>7

LEMMA UpdatedWins ==
  ASSUME WinnerInv, NEW d \in Devices, NEW o \in Made, o \notin applied[d],
         o \in Updates,
         NEW A, A = RowOps(d) \cup {o},
         NEW r, r = Updated(row[d], o, stamp[o])
  PROVE  /\ r \in RowState
         /\ r.by \in A /\ r.stamp = stamp[r.by]
         /\ \A c \in Writes[r.by] : r.shows[c] = r.by
         /\ Newest(r.stamp, A)
<1> DEFINE s == stamp[o]
<1>1. /\ row[d] \in RowState /\ row[d].stamp \in Stamp /\ RowOps(d) \subseteq Ops
      /\ row[d].shows \in [Columns -> Ops \cup {None}]
  BY DEF WinnerInv, TypeOK, RowState, RowOps
<1>2. s \in Stamp /\ s # NoStamp /\ o \in Ops
  BY MadeFacts DEF WinnerInv
<1>3. \A p \in RowOps(d) : stamp[p] \in Stamp
  BY <1>1 DEF WinnerInv, TypeOK
<1>4. RowWinner(d)
  BY DEF WinnerInv
<1>5. CASE Less(row[d].stamp, s)
  <2>1. r = [by |-> o, stamp |-> s, shows |->
               [c \in Columns |-> IF c \in Writes[o] THEN o ELSE row[d].shows[c]]]
    BY <1>5 DEF Updated, IncomingWins
  <2>2. \A p \in RowOps(d) : ~Less(s, stamp[p])
    BY <1>1, <1>2, <1>3, <1>4, <1>5, StampOrder DEF RowWinner, Newest
  <2>3. Newest(s, A)
    BY <2>2, <1>2, StampOrder DEF Newest
  <2>4. r.by \in A /\ r.stamp = stamp[r.by]
    BY <2>1
  <2>5. Writes[o] \subseteq Columns
    BY <1>2, ReplicaAssumption
  <2>6. \A c \in Writes[r.by] : r.shows[c] = r.by
    BY <2>1, <2>5
  <2>7. r \in RowState
    BY <2>1, <1>1, <1>2 DEF RowState
  <2> QED
    BY <2>1, <2>3, <2>4, <2>6, <2>7
<1>6. CASE ~Less(row[d].stamp, s)
  <2>1. r = row[d]
    BY <1>6 DEF Updated, IncomingWins
  <2>2. RowOps(d) # {}
    BY <1>6, <1>2, <1>4, StampOrder DEF RowWinner, FirstRow
  <2>3. Newest(r.stamp, A)
    BY <2>1, <1>4, <1>6 DEF RowWinner, Newest
  <2> QED
    BY <2>1, <2>2, <2>3, <1>1, <1>4 DEF RowWinner
<1> QED
  BY <1>5, <1>6

-----------------------------------------------------------------------------
(* Steps. *)

\* The parts of WinnerInv that speak of the mirrors.
MirrorsOK ==
  /\ applied \in [Devices -> SUBSET Ops]
  /\ row \in [Devices -> RowState]
  /\ class \in [Devices -> Member]
  /\ tag \in [Devices -> Member]
  /\ asserted \in [Devices -> SUBSET Ops]
  /\ \A d \in Devices : applied[d] \subseteq Made
  /\ AssertedOK
  /\ \A d \in Devices : ClassWinner(d) /\ TagWinner(d) /\ RowWinner(d)

LEMMA WinnerMirrors == WinnerInv => MirrorsOK
  BY DEF WinnerInv, TypeOK, StampedOnly, MirrorsOK

LEMMA MirrorsUnchanged ==
  ASSUME MirrorsOK, UNCHANGED <<stamp, mirrorVars>>
  PROVE  MirrorsOK'
  BY DEF MirrorsOK, mirrorVars, Made, AssertedOK, ClassWinner, TagWinner,
         RowWinner, Newest, TagOps, RowOps

\* Whatever is applied, each set and the row still show the winner.
LEMMA ApplyKeepsMirrors ==
  ASSUME WinnerInv, NEW d \in Devices, NEW o \in Made, Apply(d, o),
         UNCHANGED stamp
  PROVE  MirrorsOK'
<1>0. MirrorsOK
  BY WinnerMirrors
<1>1. CASE o \in applied[d] \/ Refused(d, o)
  BY <1>0, <1>1, MirrorsUnchanged DEF Apply
<1>2. CASE o \notin applied[d] /\ ~Refused(d, o)
  <2>1. /\ applied' = [applied EXCEPT ![d] = @ \cup {o}]
        /\ row' = [row EXCEPT ![d] =
                     IF o \in Updates THEN Updated(row[d], o, stamp[o]) ELSE row[d]]
        /\ class' = [class EXCEPT ![d] = ClassAfter(d, o)]
        /\ tag' = [tag EXCEPT ![d] = TagAfter(d, o)]
        /\ asserted' = [asserted EXCEPT ![d] =
               IF Asserts(d, o) THEN asserted[d] \cup {o} ELSE asserted[d]]
    BY <1>2 DEF Apply
  <2>2. /\ o \in Ops /\ stamp[o] \in Stamp /\ Made' = Made
        /\ o \notin asserted[d]
        /\ applied'[d] = applied[d] \cup {o}
    BY <1>0, <1>2, <2>1, MadeFacts DEF WinnerInv, Made, MirrorsOK, AssertedOK
  <2>3. ASSUME NEW e \in Devices, e # d
        PROVE  /\ ClassWinner(e)' /\ TagWinner(e)' /\ RowWinner(e)'
               /\ applied'[e] = applied[e] /\ asserted'[e] = asserted[e]
    BY <1>0, <2>1, <2>3 DEF MirrorsOK, ClassWinner, TagWinner, RowWinner, Newest,
         TagOps, RowOps
  <2>4. class'[d] \in Member /\ ClassWinner(d)'
    <3>1. CASE Asserts(d, o)
      <4>1. class'[d] = ClassAfter(d, o) /\ asserted'[d] = asserted[d] \cup {o}
        BY <1>0, <2>1, <3>1 DEF MirrorsOK
      <4> QED
        BY <2>2, <3>1, <4>1, ClassAfterWins DEF ClassWinner, Newest
    <3>2. CASE ~Asserts(d, o)
      <4>1. class'[d] = class[d] /\ asserted'[d] = asserted[d]
        BY <1>0, <2>1, <3>2 DEF MirrorsOK, ClassAfter
      <4> QED
        BY <1>0, <4>1 DEF MirrorsOK, ClassWinner, Newest
    <3> QED
      BY <3>1, <3>2
  <2>5. tag'[d] \in Member /\ TagWinner(d)'
    <3>1. CASE o \in TagAdds \cup TagRemoves
      <4>1. tag'[d] = TagAfter(d, o) /\ TagOps(d)' = TagOps(d) \cup {o}
        BY <1>0, <2>1, <2>2, <3>1 DEF MirrorsOK, TagOps
      <4> QED
        BY <1>2, <2>2, <3>1, <4>1, TagAfterWins DEF TagWinner, Newest
    <3>2. CASE o \notin TagAdds \cup TagRemoves
      <4>1. tag'[d] = tag[d] /\ TagOps(d)' = TagOps(d)
        BY <1>0, <2>1, <2>2, <3>2 DEF MirrorsOK, TagAfter, TagOps
      <4> QED
        BY <1>0, <4>1 DEF MirrorsOK, TagWinner, Newest
    <3> QED
      BY <3>1, <3>2
  <2>6. row'[d] \in RowState /\ RowWinner(d)'
    <3>1. CASE o \in Updates
      <4>1. row'[d] = Updated(row[d], o, stamp[o]) /\ RowOps(d)' = RowOps(d) \cup {o}
        BY <1>0, <2>1, <2>2, <3>1 DEF MirrorsOK, RowOps
      <4> QED
        BY <1>2, <2>2, <3>1, <4>1, UpdatedWins DEF RowWinner, Newest
    <3>2. CASE o \notin Updates
      <4>1. row'[d] = row[d] /\ RowOps(d)' = RowOps(d)
        BY <1>0, <2>1, <2>2, <3>2 DEF MirrorsOK, RowOps
      <4> QED
        BY <1>0, <4>1 DEF MirrorsOK, RowWinner, Newest
    <3> QED
      BY <3>1, <3>2
  <2>7. /\ asserted'[d] \subseteq applied'[d]
        /\ asserted'[d] \subseteq ClassAdds \cup ClassRemoves \cup Links
    BY <1>0, <2>1, <2>2 DEF MirrorsOK, AssertedOK, Asserts
  <2>8. AssertedOK'
    BY <1>0, <2>3, <2>7 DEF MirrorsOK, AssertedOK
  <2>9. /\ (applied \in [Devices -> SUBSET Ops])'
        /\ (row \in [Devices -> RowState])'
        /\ (class \in [Devices -> Member])'
        /\ (tag \in [Devices -> Member])'
        /\ (asserted \in [Devices -> SUBSET Ops])'
        /\ \A e \in Devices : applied'[e] \subseteq Made'
    BY <1>0, <2>1, <2>2, <2>4, <2>5, <2>6 DEF MirrorsOK
  <2> QED
    BY <2>3, <2>4, <2>5, <2>6, <2>8, <2>9 DEF MirrorsOK
<1> QED
  BY <1>1, <1>2

LEMMA SaveKeepsMirrors ==
  ASSUME WinnerInv, NEW d \in Devices, NEW o \in Ops, Save(d, o)
  PROVE  /\ MirrorsOK'
         /\ stamp' \in [Ops -> Stamp]
         /\ Made \cup {o} \subseteq Made'
<1>1. PICK p \in 1 .. MaxTime, l \in 0 .. MaxLogical :
        stamp' = [stamp EXCEPT ![o] =
                    [physical |-> p, logical |-> l, actor |-> Actor[d]]]
  BY DEF Save
<1>2. [physical |-> p, logical |-> l, actor |-> Actor[d]] \in Stamp \ {NoStamp}
  BY ReplicaAssumption DEF Stamp, NoStamp
<1>3. stamp' \in [Ops -> Stamp] /\ stamp'[o] # NoStamp
  BY <1>1, <1>2 DEF WinnerInv, TypeOK
<1>4. \A q \in Ops : q # o => stamp'[q] = stamp[q]
  BY <1>1 DEF WinnerInv, TypeOK
<1>5. o \notin Made /\ UNCHANGED mirrorVars
  BY DEF Save
<1>6. Made \cup {o} \subseteq Made'
  BY <1>3, <1>4 DEF Made
<1>7. MirrorsOK
  BY WinnerMirrors
<1>8. \A e \in Devices : \A q \in applied[e] : stamp'[q] = stamp[q]
  BY <1>4, <1>5, <1>7 DEF MirrorsOK
<1>9. AssertedOK' /\ \A e \in Devices : applied'[e] \subseteq Made'
  BY <1>5, <1>6, <1>7 DEF MirrorsOK, AssertedOK, mirrorVars
<1>10. ASSUME NEW e \in Devices
       PROVE  ClassWinner(e)' /\ TagWinner(e)' /\ RowWinner(e)'
  <2>1. asserted[e] \subseteq applied[e]
    BY <1>7 DEF MirrorsOK, AssertedOK
  <2>2. ClassWinner(e)'
    BY <1>5, <1>7, <1>8, <2>1 DEF MirrorsOK, ClassWinner, Newest, mirrorVars
  <2>3. TagWinner(e)'
    BY <1>5, <1>7, <1>8 DEF MirrorsOK, TagWinner, Newest, TagOps, mirrorVars
  <2>4. RowWinner(e)'
    BY <1>5, <1>7, <1>8 DEF MirrorsOK, RowWinner, Newest, RowOps, mirrorVars
  <2> QED
    BY <2>2, <2>3, <2>4
<1> QED
  BY <1>3, <1>5, <1>6, <1>7, <1>9, <1>10 DEF MirrorsOK, mirrorVars

\* The parts of WinnerInv that speak of everything else.
QueuesOK ==
  /\ stamp \in [Ops -> Stamp]
  /\ editing \in [Devices -> Ops \cup {None}]
  /\ outbox \in [Devices -> Seq(Ops)]
  /\ log \in Seq(Ops)
  /\ cursor \in [Devices -> Nat]
  /\ \A d \in Devices : editing[d] # None => editing[d] \in Made
  /\ \A d \in Devices : \A i \in 1 .. Len(outbox[d]) : outbox[d][i] \in Made
  /\ \A i \in 1 .. Len(log) : log[i] \in Made

LEMMA WinnerParts ==
  /\ WinnerInv <=> MirrorsOK /\ QueuesOK
  /\ WinnerInv' <=> MirrorsOK' /\ QueuesOK'
  BY DEF WinnerInv, TypeOK, StampedOnly, MirrorsOK, QueuesOK

LEMMA WinnerInit == Init => WinnerInv
<1> SUFFICES ASSUME Init PROVE WinnerInv
  OBVIOUS
<1>1. TypeOK
  BY StampOfNone DEF Init, TypeOK
<1>2. StampedOnly /\ AssertedOK
  BY DEF Init, StampedOnly, AssertedOK
<1>3. ASSUME NEW d \in Devices
      PROVE  ClassWinner(d) /\ TagWinner(d) /\ RowWinner(d)
  BY DEF Init, ClassWinner, TagWinner, RowWinner, TagOps, RowOps, Newest, Absent
<1> QED
  BY <1>1, <1>2, <1>3 DEF WinnerInv

LEMMA WinnerStep == WinnerInv /\ [Next]_vars => WinnerInv'
<1> SUFFICES ASSUME WinnerInv, [Next]_vars PROVE WinnerInv'
  OBVIOUS
<1> USE WinnerParts
<1>0. QueuesOK /\ MirrorsOK
  OBVIOUS
<1>1. ASSUME NEW d \in Devices, NEW o \in Ops, Save(d, o) PROVE WinnerInv'
  <2>1. /\ MirrorsOK' /\ stamp' \in [Ops -> Stamp]
        /\ Made \cup {o} \subseteq Made'
    BY <1>1, SaveKeepsMirrors
  <2>2. /\ outbox' = [outbox EXCEPT ![d] = Append(outbox[d], o)]
        /\ editing' = [editing EXCEPT ![d] = o]
        /\ UNCHANGED <<log, cursor>>
    BY <1>1 DEF Save
  <2>3. \A e \in Devices : editing'[e] # None => editing'[e] \in Made'
    BY <1>0, <2>1, <2>2 DEF QueuesOK
  <2>4. outbox' \in [Devices -> Seq(Ops)]
    BY <1>0, <2>2 DEF QueuesOK
  <2>5. \A e \in Devices : \A i \in 1 .. Len(outbox'[e]) : outbox'[e][i] \in Made'
    BY <1>0, <2>1, <2>2 DEF QueuesOK
  <2> QED
    BY <1>0, <2>1, <2>2, <2>3, <2>4, <2>5 DEF QueuesOK
<1>2. ASSUME NEW d \in Devices, Show(d) PROVE WinnerInv'
  <2>1. editing[d] \in Made
    BY <1>0, <1>2 DEF QueuesOK, Show
  <2>2. MirrorsOK'
    BY <1>2, <2>1, ApplyKeepsMirrors DEF Show
  <2> QED
    BY <1>0, <1>2, <2>2 DEF Show, QueuesOK, Made
<1>3. ASSUME NEW d \in Devices, Restart(d) PROVE WinnerInv'
  <2>1. MirrorsOK'
    BY <1>0, <1>3, MirrorsUnchanged DEF Restart
  <2> QED
    BY <1>0, <1>3, <2>1 DEF Restart, QueuesOK, Made
<1>4. ASSUME NEW d \in Devices, Push(d) PROVE WinnerInv'
  <2>1. MirrorsOK'
    BY <1>0, <1>4, MirrorsUnchanged DEF Push
  <2>2. /\ outbox[d] \in Seq(Ops) /\ outbox[d] # << >>
        /\ log' = Append(log, Head(outbox[d]))
        /\ outbox' = [outbox EXCEPT ![d] = Tail(outbox[d])]
        /\ UNCHANGED <<stamp, editing, cursor>> /\ Made' = Made
    BY <1>0, <1>4 DEF Push, QueuesOK, Made
  <2>3. Head(outbox[d]) \in Made /\ Head(outbox[d]) \in Ops
    BY <1>0, <2>2 DEF QueuesOK
  <2>4. log' \in Seq(Ops) /\ \A i \in 1 .. Len(log') : log'[i] \in Made
    BY <1>0, <2>2, <2>3 DEF QueuesOK
  <2>5. Tail(outbox[d]) \in Seq(Ops)
        /\ \A i \in 1 .. Len(Tail(outbox[d])) : Tail(outbox[d])[i] \in Made
    BY <1>0, <2>2 DEF QueuesOK
  <2>6. outbox' \in [Devices -> Seq(Ops)]
        /\ \A e \in Devices : \A i \in 1 .. Len(outbox'[e]) : outbox'[e][i] \in Made
    BY <1>0, <2>2, <2>5 DEF QueuesOK
  <2> QED
    BY <1>0, <2>1, <2>2, <2>4, <2>6 DEF QueuesOK
<1>5. ASSUME NEW d \in Devices, NEW o \in Ops, Deliver(d, o) PROVE WinnerInv'
  <2>1. o \in Made
    BY <1>0, <1>5 DEF Deliver, Committed, QueuesOK
  <2>2. MirrorsOK'
    BY <1>5, <2>1, ApplyKeepsMirrors DEF Deliver
  <2> QED
    BY <1>0, <1>5, <2>2 DEF Deliver, QueuesOK, Made
<1>6. ASSUME NEW d \in Devices, Pull(d) PROVE WinnerInv'
  <2>1. log[cursor[d] + 1] \in Made
    BY <1>0, <1>6 DEF Pull, QueuesOK
  <2>2. MirrorsOK'
    BY <1>6, <2>1, ApplyKeepsMirrors DEF Pull
  <2> QED
    BY <1>0, <1>6, <2>2 DEF Pull, QueuesOK, Made
<1>7. CASE UNCHANGED vars
  <2>1. MirrorsOK'
    BY <1>0, <1>7, MirrorsUnchanged DEF vars
  <2> QED
    BY <1>0, <1>7, <2>1 DEF vars, QueuesOK, Made
<1> QED
  BY <1>1, <1>2, <1>3, <1>4, <1>5, <1>6, <1>7 DEF Next, DeviceStep

LEMMA WinnerAlways == Spec => []WinnerInv
  BY WinnerInit, WinnerStep, PTL DEF Spec

-----------------------------------------------------------------------------
(* Theorems *)

\* Of two sets of stamps with the same members the newest stamp is the same.
LEMMA SameNewest ==
  ASSUME TypeOK, NEW A \in SUBSET Ops, NEW o \in A, NEW p \in A,
         Newest(stamp[o], A), Newest(stamp[p], A)
  PROVE  stamp[o] = stamp[p]
  BY StampOrder DEF TypeOK, Newest

(***************************************************************************)
(* Class membership converges (_class_member_upsert, _class_member_remove) *)
(* for any number of devices, users and envelopes and any stamps, equal    *)
(* ones included.                                                          *)
(***************************************************************************)
THEOREM ClassSetConverges == Spec => []ClassConverges
<1>1. WinnerInv => ClassConverges
  <2> SUFFICES ASSUME WinnerInv, NEW d \in Devices, NEW e \in Devices,
                      asserted[d] = asserted[e]
               PROVE  class[d] = class[e]
    BY DEF ClassConverges
  <2>1. /\ ClassWinner(d) /\ ClassWinner(e) /\ TypeOK
        /\ asserted[d] \subseteq Ops
        /\ class[d] \in Member /\ class[e] \in Member
    BY DEF WinnerInv, TypeOK
  <2>2. CASE asserted[d] = {}
    BY <2>1, <2>2 DEF ClassWinner
  <2>3. CASE asserted[d] # {}
    <3>1. PICK o \in asserted[d] : class[d].stamp = stamp[o]
      BY <2>1, <2>3 DEF ClassWinner
    <3>2. PICK p \in asserted[d] : class[e].stamp = stamp[p]
      BY <2>1, <2>3 DEF ClassWinner
    <3>3. class[d].stamp = class[e].stamp
      BY <2>1, <3>1, <3>2, SameNewest DEF ClassWinner
    <3>4. class[d].present <=> class[e].present
      BY <2>1, <3>3 DEF ClassWinner
    <3> QED
      BY <2>1, <3>3, <3>4 DEF Member
  <2> QED
    BY <2>2, <2>3
<1> QED
  BY <1>1, WinnerAlways, PTL

(***************************************************************************)
(* Tag membership converges where stamps differ (_tag_member_upsert,       *)
(* _tag_member_remove).                                                    *)
(***************************************************************************)
THEOREM TagSetConverges == Spec => []TagConverges
<1>1. WinnerInv => TagConverges
  <2> SUFFICES ASSUME WinnerInv, NEW d \in Devices, NEW e \in Devices,
                      TagOps(d) = TagOps(e), DistinctStamps(TagOps(d))
               PROVE  tag[d] = tag[e]
    BY DEF TagConverges
  <2>1. /\ TagWinner(d) /\ TagWinner(e) /\ TypeOK
        /\ TagOps(d) \subseteq Ops
        /\ tag[d] \in Member /\ tag[e] \in Member
    BY DEF WinnerInv, TypeOK, TagOps
  <2>2. CASE TagOps(d) = {}
    BY <2>1, <2>2 DEF TagWinner
  <2>3. CASE TagOps(d) # {}
    <3>1. PICK o \in TagOps(d) : /\ tag[d].stamp = stamp[o]
                                 /\ tag[d].present <=> o \in TagAdds
      BY <2>1, <2>3 DEF TagWinner
    <3>2. PICK p \in TagOps(d) : /\ tag[e].stamp = stamp[p]
                                 /\ tag[e].present <=> p \in TagAdds
      BY <2>1, <2>3 DEF TagWinner
    <3>3. stamp[o] = stamp[p]
      BY <2>1, <3>1, <3>2, SameNewest DEF TagWinner
    <3>4. o = p
      BY <3>3 DEF DistinctStamps
    <3> QED
      BY <2>1, <3>1, <3>2, <3>4 DEF Member
  <2> QED
    BY <2>2, <2>3
<1> QED
  BY <1>1, WinnerAlways, PTL

(***************************************************************************)
(* Every variable keeps its type, for any devices and envelopes: a mirror  *)
(* row never takes a stamp or an author that is not an envelope's.         *)
(***************************************************************************)
THEOREM ReplicasTypeCorrect == Spec => []TypeOK
<1>1. WinnerInv => TypeOK
  BY DEF WinnerInv
<1> QED
  BY <1>1, WinnerAlways, PTL

(***************************************************************************)
(* Replicas agree on the newest update of a row and show what it wrote     *)
(* (_incoming_wins in _apply_object_update).                               *)
(***************************************************************************)
THEOREM NewestUpdateShows == Spec => []RowConverges
<1>1. WinnerInv => RowConverges
  <2> SUFFICES ASSUME WinnerInv, NEW d \in Devices, NEW e \in Devices,
                      RowOps(d) = RowOps(e), DistinctStamps(RowOps(d)),
                      RowOps(d) # {}
               PROVE  /\ row[d].by = row[e].by
                      /\ row[d].by \in RowOps(d)
                      /\ \A c \in Writes[row[d].by] :
                           row[d].shows[c] = row[d].by /\ row[e].shows[c] = row[d].by
    BY DEF RowConverges
  <2>1. RowWinner(d) /\ RowWinner(e) /\ TypeOK /\ RowOps(d) \subseteq Ops
    BY DEF WinnerInv, TypeOK, RowOps
  <2>2. stamp[row[d].by] = stamp[row[e].by]
    BY <2>1, SameNewest DEF RowWinner
  <2>3. row[d].by = row[e].by
    BY <2>1, <2>2 DEF RowWinner, DistinctStamps
  <2> QED
    BY <2>1, <2>3 DEF RowWinner
<1> QED
  BY <1>1, WinnerAlways, PTL
=============================================================================
