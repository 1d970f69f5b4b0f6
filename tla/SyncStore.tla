------------------------------ MODULE SyncStore ------------------------------
(***************************************************************************)
(* The tables of data/store.py that synchronisation depends on: the outbox *)
(* (relay_outbox), the op-id dedupe table (relay_operations) and the       *)
(* watermark row (sync_watermark).  Every operator with primed variables   *)
(* is one public LocalStore method; the class serialises those through one *)
(* re-entrant lock (_synchronized), so each is one atomic step.            *)
(*                                                                         *)
(* The mirror is represented by the set of envelopes it has applied: an    *)
(* apply and its relay_operations row commit or roll back together.        *)
(***************************************************************************)
EXTENDS Relay

VARIABLES
  row,          \* row[e]: id of e's relay_outbox row, 0 without one
  parked,       \* envelopes whose outbox row has state 'quarantined'
  ops,          \* op ids in relay_operations
  cursor,       \* sync_watermark.cursor_seq, 0 without a row
  storedEpoch,  \* sync_watermark.restore_epoch, 0 without a row
  saved         \* envelopes ever enqueued; its size is the AUTOINCREMENT mark

storeVars == <<row, parked, ops, cursor, storedEpoch, saved>>

StoreTypeOK ==
  /\ row \in Ranks
  /\ parked \in SUBSET Env
  /\ ops \in SUBSET Env
  /\ cursor \in Nat
  /\ storedEpoch \in Nat
  /\ saved \in SUBSET Own

StoreInit ==
  /\ row = NoRanks
  /\ parked = {}
  /\ ops = {}
  /\ cursor = 0
  /\ storedEpoch = 0
  /\ saved = {}

Pending == Ranked(row) \ parked

\* Wrong on purpose: the newest rows first.
PendingOutboxNewestFirst(limit) ==
  [e \in Env |->
     IF e \in Pending /\ Cardinality({d \in Pending : row[d] > row[e]}) < limit
       THEN Cardinality(saved) + 1 - row[e] ELSE 0]

\* pending_outbox: the limit oldest pending rows, ranked by row id.
PendingOutbox(limit) ==
  [e \in Env |->
     IF e \in Pending /\ Cardinality({d \in Pending : row[d] < row[e]}) < limit
       THEN row[e] ELSE 0]

\* Envelope ids are fresh uuid7s: an envelope is enqueued once.
Enqueue(e) ==
  /\ e \in Own \ saved
  /\ row' = [row EXCEPT ![e] = Cardinality(saved) + 1]
  /\ saved' = saved \cup {e}
  /\ UNCHANGED <<parked, ops, cursor, storedEpoch>>

\* The applier's guard: without the rows it names it raises NotFoundError.
Applicable(e) == Dep[e] \subseteq ops

\* apply_remote: a dedupe hit and a guard violation both leave no trace.
ApplyRemote(e) ==
  /\ ops' = IF Applicable(e) THEN ops \cup {e} ELSE ops
  /\ UNCHANGED <<row, parked, cursor, storedEpoch, saved>>

\* Both resolve ids through _matching_outbox_rows: pending rows only.
MarkOutboxSent(ids) ==
  /\ row' = [e \in Env |-> IF e \in ids \cap Pending THEN 0 ELSE row[e]]
  /\ UNCHANGED <<parked, ops, cursor, storedEpoch, saved>>

\* Wrong on purpose: drops the rows instead of keeping them aside.
QuarantineOutboxDeletes(ids) ==
  /\ row' = [e \in Env |-> IF e \in ids \cap Pending THEN 0 ELSE row[e]]
  /\ UNCHANGED <<parked, ops, cursor, storedEpoch, saved>>

QuarantineOutbox(ids) ==
  /\ parked' = parked \cup (ids \cap Pending)
  /\ UNCHANGED <<row, ops, cursor, storedEpoch, saved>>

SetCursor(n) ==
  /\ cursor' = n
  /\ UNCHANGED <<row, parked, ops, storedEpoch, saved>>

SetRestoreEpoch(n) ==
  /\ storedEpoch' = n
  /\ UNCHANGED <<row, parked, ops, cursor, saved>>

\* wipe: mirror, outbox (pending rows too), dedupe table and watermark row.
Wipe ==
  /\ row' = NoRanks
  /\ parked' = {}
  /\ ops' = {}
  /\ cursor' = 0
  /\ storedEpoch' = 0
  /\ UNCHANGED saved
=============================================================================
