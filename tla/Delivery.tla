------------------------------- MODULE Delivery -------------------------------
(***************************************************************************)
(* What the outbox and the mirror promise the user of one device, without  *)
(* threads, retries, pages or crashes: an edit is owed to the relay until  *)
(* the relay has it or rejects it, and the mirror shows only envelopes     *)
(* that are on the relay or were saved here, and never takes one back.     *)
(* SyncEngine implements it as long as the server is never restored from   *)
(* backup.                                                                 *)
(***************************************************************************)
CONSTANTS Own, Foreign

VARIABLES
  committed,  \* envelopes on the relay
  owed,       \* own edits waiting in the outbox
  parked,     \* own edits set aside after a rejection
  visible     \* envelopes the mirror has applied

vars == <<committed, owed, parked, visible>>

Init == committed = {} /\ owed = {} /\ parked = {} /\ visible = {}

Save(e) ==
  /\ e \in Own \ (committed \cup owed \cup parked)
  /\ owed' = owed \cup {e}
  /\ UNCHANGED <<committed, parked, visible>>

\* The relay takes a batch of owed (or meanwhile parked) edits, or another
\* device's envelope.
Commit(S) ==
  /\ S \subseteq owed \cup parked \cup Foreign
  /\ committed' = committed \cup S
  /\ UNCHANGED <<owed, parked, visible>>

Settle(S) ==
  /\ S \subseteq committed
  /\ owed' = owed \ S
  /\ UNCHANGED <<committed, parked, visible>>

Park(S) ==
  /\ S \subseteq owed
  /\ owed' = owed \ S
  /\ parked' = parked \cup S
  /\ UNCHANGED <<committed, visible>>

Show(e) ==
  /\ e \in committed \cup owed \cup parked
  /\ visible' = visible \cup {e}
  /\ UNCHANGED <<committed, owed, parked>>

Next ==
  \/ \E e \in Own : Save(e)
  \/ \E S \in SUBSET (Own \cup Foreign) : Commit(S) \/ Settle(S) \/ Park(S)
  \/ \E e \in Own \cup Foreign : Show(e)

Spec == Init /\ [][Next]_vars
=============================================================================
