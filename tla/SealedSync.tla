------------------------------ MODULE SealedSync ------------------------------
(***************************************************************************)
(* Opening a workspace whose relay log may be encrypted.  Selecting it     *)
(* (ui/window.py) makes a new SyncEngine, starts its realtime reader and   *)
(* only then, on a worker thread, fetches or stores the workspace key,     *)
(* restores a snapshot and syncs.  Saves and the interval timer start      *)
(* workers on the same engine, which seals what it pushes when it has a    *)
(* provider, skips what it cannot open and uploads snapshots of its own.   *)
(*                                                                         *)
(* A worker moves from one call on the relay or the store to the next.     *)
(* SyncEngine models what those calls go through: failed calls, refused    *)
(* batches, crashes, pages, a restored relay; none of that is repeated     *)
(* here, and an upload succeeds.  The opener probes once per engine and    *)
(* the newest snapshot never covers less, so the declined and uploaded     *)
(* markers of an engine decide nothing.  One opener and one saver are in   *)
(* flight at a time; a reader is joined before the next engine starts.     *)
(***************************************************************************)
EXTENDS Naturals, Sequences, SequencesExt, FiniteSets

CONSTANTS
  Place,       \* nodes
  MaxEdits,    \* bound on the envelopes stamped
  MaxBusy,     \* bound on the workers under way at a time
  MaxEngines   \* bound on the times the workspace is selected

ASSUME SealedAssumption == MaxEdits \in Nat /\ MaxBusy \in Nat /\ MaxEngines \in Nat \ {0}

Worker == {"opener", "saver", "reader"}
Engines == 1..MaxEngines

VARIABLES
  relayLog,   \* the relay's log: [edit, sealed]
  keyRow,    \* its wrapped key: "none", "good", or "stale", wrapped under a former password
  image,     \* its newest snapshot: [upTo, sealed, nodeRows]
  nodeRows,     \* the mirror: the stamp of each node's row, 0 without one
  recorded,  \* the edits relay_operations knows
  unsent,    \* the outbox, in the order of its stamps
  cursor,    \* cursor_seq
  stamped,   \* envelopes stamped by anyone
  master,    \* a master key is in memory
  banner,    \* _workspace_locked
  current,   \* the engine of the window
  provider,  \* provider[e]: e has _crypto
  barred,    \* barred[e]: encrypted_locked
  holder,    \* holder[e]: the worker inside e's _rt_lock
  work,      \* work[w]: what w does next
  lost       \* history: edits a keyless engine passed or a restore took back

relayRows == <<relayLog, keyRow, image>>
mirrorRows == <<nodeRows, recorded, lost>>
engineVars == <<current, provider, barred>>
windowVars == <<master, banner>>
sealedVars == <<relayRows, mirrorRows, unsent, cursor, stamped, windowVars, engineVars, holder, work>>

Idle == [step |-> "idle", engine |-> 1]
At(w, step) == work[w].step = step
Carry(w, rec) == work' = [work EXCEPT ![w] = rec]
Go(w, step) == Carry(w, [step |-> step, engine |-> work[w].engine])
\* The worker's last call returned: the window hears of the opener's.
Fail(w) == Carry(w, Idle)
Finish(w) == IF w = "opener" THEN Go(w, "opened") ELSE Fail(w)
Free(w) == At(w, "idle") /\ Cardinality({v \in Worker : ~At(v, "idle")}) < MaxBusy
Keyed(w) == provider[work[w].engine]

\* An edit is [node, stamp].
Logged == {relayLog[i].edit : i \in DOMAIN relayLog}
ShownIn(rows, e) == rows[e.node] >= e.stamp
\* apply_remote of a set of edits: recorded once, the newest stamp of a node wins.
Apply(edits) ==
  LET fresh == edits \ recorded
      stamps(n) == {e.stamp : e \in {f \in fresh : f.node = n}}
      newest(n) == CHOOSE s \in stamps(n) \cup {nodeRows[n]} : \A r \in stamps(n) \cup {nodeRows[n]} : s >= r
  IN /\ recorded' = recorded \cup edits
     /\ nodeRows' = [n \in Place |-> newest(n)]

Edit == [node : Place, stamp : 1..MaxEdits]
Chunk == {c \in SUBSET Edit : IsFiniteSet(c)}
Steps == {"idle", "key", "put", "probe", "push", "take", "pull", "lock", "upload", "opened", "refused"}
Doing ==
  [step : Steps, engine : Engines]
    \cup [step : {"download"}, engine : Engines, upTo : Nat, sealed : BOOLEAN]
    \cup [step : {"cursor"}, engine : Engines, upTo : Nat]
    \cup [step : {"submit"}, engine : Engines, chunk : Chunk, sealed : BOOLEAN]
    \cup [step : {"page"}, engine : Engines, after : Nat, upTo : Nat]

SealedTypeOK ==
  /\ relayLog \in Seq([edit : Edit, sealed : BOOLEAN])
  /\ keyRow \in {"none", "good", "stale"}
  /\ image \in [upTo : Nat, sealed : BOOLEAN, nodeRows : [Place -> 0..MaxEdits]]
  /\ nodeRows \in [Place -> 0..MaxEdits]
  /\ recorded \subseteq Edit /\ lost \subseteq Edit /\ unsent \in Chunk
  /\ cursor \in Nat /\ stamped \in 0..MaxEdits /\ current \in 0..MaxEngines
  /\ master \in BOOLEAN /\ banner \in BOOLEAN
  /\ provider \in [Engines -> BOOLEAN] /\ barred \in [Engines -> BOOLEAN]
  /\ holder \in [Engines -> Worker \cup {"free"}]
  /\ work \in [Worker -> Doing]

SealedInit ==
  /\ relayLog = <<>> /\ keyRow \in {"none", "good", "stale"}
  /\ image = [upTo |-> 0, sealed |-> FALSE, nodeRows |-> [n \in Place |-> 0]]
  /\ nodeRows = [n \in Place |-> 0] /\ recorded = {} /\ unsent = {} /\ cursor = 0
  /\ stamped = 0 /\ lost = {}
  /\ master \in BOOLEAN /\ banner = FALSE /\ current = 0
  /\ provider = [e \in Engines |-> FALSE] /\ barred = [e \in Engines |-> FALSE]
  /\ holder = [e \in Engines |-> "free"]
  /\ work = [w \in Worker |-> Idle]

-----------------------------------------------------------------------------
(* The window *)

Select(unlocking) ==
  /\ current < MaxEngines
  /\ Free("opener") /\ At("reader", "idle")
  /\ unlocking => banner
  /\ master' = (master \/ unlocking)
  /\ current' = current + 1
  /\ Carry("opener", [step |-> "key", engine |-> current + 1])
  /\ UNCHANGED <<relayRows, mirrorRows, unsent, cursor, stamped, banner, provider, barred, holder>>

SelectWorkspace == \E unlocking \in BOOLEAN : Select(unlocking)

\* on_done of the opener.
WorkspaceOpened ==
  /\ \/ At("opener", "opened") /\ banner' = FALSE
     \/ At("opener", "refused") /\ banner' = TRUE
  /\ Fail("opener")
  /\ UNCHANGED <<relayRows, mirrorRows, unsent, cursor, stamped, master, engineVars, holder>>

StartSaver == Carry("saver", [step |-> "push", engine |-> current])

\* The editor's save: stamped, enqueued, applied, then engine.sync on a worker.
SaveEdit(n) ==
  LET e == [node |-> n, stamp |-> stamped + 1] IN
  /\ stamped < MaxEdits /\ current # 0 /\ Free("saver")
  /\ stamped' = stamped + 1
  /\ unsent' = unsent \cup {e}
  /\ Apply({e})
  /\ StartSaver
  /\ UNCHANGED <<relayRows, lost, cursor, windowVars, engineVars, holder>>

IntervalSync ==
  /\ current # 0 /\ ~banner /\ Free("saver")
  /\ StartSaver
  /\ UNCHANGED <<relayRows, mirrorRows, unsent, cursor, stamped, windowVars, engineVars, holder>>

-----------------------------------------------------------------------------
(* _install_workspace_crypto *)

SetCrypto(e) ==
  /\ provider' = [provider EXCEPT ![e] = TRUE]
  /\ barred' = [barred EXCEPT ![e] = FALSE]
  /\ UNCHANGED current
Bar(e) ==
  /\ barred' = [barred EXCEPT ![e] = TRUE]
  /\ UNCHANGED <<current, provider>>

\* What the answer of the key route leads to, once a record is there.
Unwrap(w, record) ==
  IF master /\ record = "good"
  THEN SetCrypto(work[w].engine) /\ Go(w, "probe")
  ELSE Bar(work[w].engine) /\ Go(w, "refused")

FetchKey ==
  /\ At("opener", "key")
  /\ \/ keyRow # "none" /\ Unwrap("opener", keyRow)
     \/ keyRow = "none" /\ UNCHANGED engineVars
        /\ Go("opener", IF master THEN "put" ELSE "probe")
  /\ UNCHANGED <<relayRows, mirrorRows, unsent, cursor, stamped, windowVars, holder>>

\* First write wins; the loser adopts the winner's record.
StoreKey ==
  /\ At("opener", "put")
  /\ keyRow' = IF keyRow = "none" THEN "good" ELSE keyRow
  /\ Unwrap("opener", keyRow')
  /\ UNCHANGED <<relayLog, image, mirrorRows, unsent, cursor, stamped, windowVars, holder>>

\* ApiError on either route: the workspace opens keyless.
KeyRouteFails ==
  /\ At("opener", "key") \/ At("opener", "put")
  /\ Go("opener", "probe")
  /\ UNCHANGED <<relayRows, mirrorRows, unsent, cursor, stamped, windowVars, engineVars, holder>>

-----------------------------------------------------------------------------
(* maybe_restore_snapshot, cut at the calls it makes *)

Probe ==
  LET e == work["opener"].engine IN
  /\ At("opener", "probe")
  /\ IF ~barred[e] /\ image.upTo > cursor
     THEN Carry("opener", [step |-> "download", engine |-> e, upTo |-> image.upTo, sealed |-> image.sealed])
     ELSE Go("opener", "push")
  /\ UNCHANGED <<relayRows, mirrorRows, unsent, cursor, stamped, windowVars, engineVars, holder>>

Declines(w) == IF Keyed(w) THEN ~work[w].sealed ELSE image.sealed

DeclineSnapshot ==
  /\ At("opener", "download") /\ Declines("opener")
  /\ Go("opener", "push")
  /\ UNCHANGED <<relayRows, mirrorRows, unsent, cursor, stamped, windowVars, engineVars, holder>>

\* The blob is plaintext by now: decrypt_bytes raises and the opener ends.
OpenSnapshotFails ==
  /\ At("opener", "download") /\ ~Declines("opener")
  /\ Keyed("opener") /\ ~image.sealed
  /\ Fail("opener")
  /\ UNCHANGED <<relayRows, mirrorRows, unsent, cursor, stamped, windowVars, engineVars, holder>>

\* INSERT OR REPLACE of the image's rows, whatever the mirror's are.
RestoreImage ==
  /\ nodeRows' = [n \in Place |-> IF image.nodeRows[n] # 0 THEN image.nodeRows[n] ELSE nodeRows[n]]
  /\ lost' = {e \in lost \cup recorded \cup
                    {l.edit : l \in {k \in Range(relayLog) : k.sealed /\ ~Keyed("opener")}} :
                ~ShownIn(nodeRows', e)}
  /\ Carry("opener", [step |-> "cursor", engine |-> work["opener"].engine, upTo |-> work["opener"].upTo])
  /\ UNCHANGED <<relayRows, recorded, unsent, cursor, stamped, windowVars, engineVars, holder>>

\* Wrong on purpose: a keyed engine restores a plaintext image too (see RestoreSnapshot).
RestoreSnapshotUndeclined ==
  /\ At("opener", "download")
  /\ image.sealed => Keyed("opener")
  /\ RestoreImage

RestoreSnapshot ==
  /\ At("opener", "download") /\ ~Declines("opener")
  /\ Keyed("opener") => image.sealed
  /\ RestoreImage

RestoreCursor ==
  /\ At("opener", "cursor")
  /\ cursor' = work["opener"].upTo
  /\ Go("opener", "push")
  /\ UNCHANGED <<relayRows, mirrorRows, unsent, stamped, windowVars, engineVars, holder>>

-----------------------------------------------------------------------------
(* sync: push, then pull *)

\* encrypted_locked is tested once, before the loop.
PushBegin(w) ==
  /\ At(w, "push")
  /\ Go(w, IF barred[work[w].engine] THEN "pull" ELSE "take")
  /\ UNCHANGED <<relayRows, mirrorRows, unsent, cursor, stamped, windowVars, engineVars, holder>>

\* The chunk, sealed by the provider installed at this moment.
TakeUnsent(w) ==
  /\ At(w, "take")
  /\ IF unsent = {} THEN Go(w, "pull")
     ELSE Carry(w, [step |-> "submit", engine |-> work[w].engine, chunk |-> unsent, sealed |-> Keyed(w)])
  /\ UNCHANGED <<relayRows, mirrorRows, unsent, cursor, stamped, windowVars, engineVars, holder>>

\* The edits of a chunk as it lists them.
InOrder(S) == {f \in [1..Cardinality(S) -> S] : \A i, j \in DOMAIN f : i < j => f[i].stamp < f[j].stamp}

\* Accepted, the relay dropping what it knows; or given up for this round.
Submit(w) ==
  /\ At(w, "submit")
  /\ \/ /\ \E fresh \in InOrder(work[w].chunk \ Logged) :
             relayLog' = relayLog \o [i \in DOMAIN fresh |-> [edit |-> fresh[i], sealed |-> work[w].sealed]]
        /\ unsent' = unsent \ work[w].chunk
        /\ Go(w, "take")
     \/ Go(w, "pull") /\ UNCHANGED <<relayLog, unsent>>
  /\ UNCHANGED <<keyRow, image, mirrorRows, cursor, stamped, windowVars, engineVars, holder>>

\* Wrong on purpose: no test of encrypted_locked (see PullBegin).
PullBeginUnlocked(w) ==
  /\ At(w, "pull") /\ Go(w, "lock")
  /\ UNCHANGED <<relayRows, mirrorRows, unsent, cursor, stamped, windowVars, engineVars, holder>>

\* encrypted_locked is tested before the worker waits for _rt_lock.
PullBegin(w) ==
  /\ At(w, "pull")
  /\ IF barred[work[w].engine] THEN Finish(w) ELSE Go(w, "lock")
  /\ UNCHANGED <<relayRows, mirrorRows, unsent, cursor, stamped, windowVars, engineVars, holder>>

\* Under the lock, the log from the cursor.
FetchPage(w) ==
  LET e == work[w].engine IN
  /\ At(w, "lock") /\ holder[e] = "free"
  /\ holder' = [holder EXCEPT ![e] = w]
  /\ Carry(w, [step |-> "page", engine |-> e, after |-> cursor, upTo |-> Len(relayLog)])
  /\ UNCHANGED <<relayRows, mirrorRows, unsent, cursor, stamped, windowVars, engineVars>>

\* What a provider, or its absence, makes of an envelope of the log.
Opens(w, l) == Keyed(w) \/ ~l.sealed

\* _apply_guarded on each, then the cursor.  Without a provider a sealed one is skipped.
ApplyPage(w) ==
  LET span == {relayLog[i] : i \in work[w].after + 1 .. work[w].upTo} IN
  /\ At(w, "page")
  /\ Apply({l.edit : l \in {k \in span : Opens(w, k)}})
  /\ lost' = lost \cup {l.edit : l \in {k \in span : ~Opens(w, k)}}
  /\ cursor' = IF work[w].upTo > work[w].after THEN work[w].upTo ELSE cursor
  /\ Go(w, "upload")
  /\ UNCHANGED <<relayRows, unsent, stamped, windowVars, engineVars, holder>>

\* The mirror's node rows, filed by the relay under the uploader's cursor.
ImageOf(sealed) == [upTo |-> cursor, sealed |-> sealed, nodeRows |-> nodeRows]

\* Wrong on purpose: the image goes out as it is read (see UploadSnapshot).
UploadSnapshotRaw(w) ==
  LET e == work[w].engine IN
  /\ At(w, "upload")
  /\ cursor > image.upTo
  /\ image' = ImageOf(FALSE)
  /\ holder' = [holder EXCEPT ![e] = "free"]
  /\ Finish(w)
  /\ UNCHANGED <<relayLog, keyRow, mirrorRows, unsent, cursor, stamped, windowVars, engineVars>>

\* _maybe_upload_snapshot, still under the lock; a failure is only logged.
UploadSnapshot(w) ==
  LET e == work[w].engine IN
  /\ At(w, "upload")
  /\ \/ cursor > image.upTo /\ image' = ImageOf(Keyed(w))
     \/ UNCHANGED image
  /\ holder' = [holder EXCEPT ![e] = "free"]
  /\ Finish(w)
  /\ UNCHANGED <<relayLog, keyRow, mirrorRows, unsent, cursor, stamped, windowVars, engineVars>>

-----------------------------------------------------------------------------
(* The reader of the current engine *)

Hello ==
  /\ current # 0 /\ Free("reader") /\ Len(relayLog) > cursor
  /\ Carry("reader", [step |-> "pull", engine |-> current])
  /\ UNCHANGED <<relayRows, mirrorRows, unsent, cursor, stamped, windowVars, engineVars, holder>>

\* A frame of one envelope, applied without moving the cursor.
LiveFrame ==
  /\ current # 0 /\ At("reader", "idle") /\ holder[current] = "free"
  /\ \E i \in cursor + 1 .. Len(relayLog) :
       /\ relayLog[i].edit \notin recorded
       /\ relayLog[i].sealed => provider[current]
       /\ Apply({relayLog[i].edit})
  /\ UNCHANGED <<relayRows, lost, unsent, cursor, stamped, windowVars, engineVars, holder, work>>

-----------------------------------------------------------------------------
(* The relay and the account's other devices *)

OtherCommits(n, sealed) ==
  /\ stamped < MaxEdits
  /\ sealed => keyRow # "none"
  /\ stamped' = stamped + 1
  /\ relayLog' = Append(relayLog, [edit |-> [node |-> n, stamp |-> stamped + 1], sealed |-> sealed])
  /\ UNCHANGED <<keyRow, image, mirrorRows, unsent, cursor, windowVars, engineVars, holder, work>>

OtherStoresKey ==
  /\ keyRow = "none" /\ keyRow' \in {"good", "stale"}
  /\ UNCHANGED <<relayLog, image, mirrorRows, unsent, cursor, stamped, windowVars, engineVars, holder, work>>

\* A keyed device's image holds every row; a keyless one's, or the relay's own, no sealed edit's.
OtherUploads(sealed) ==
  LET stamps(n) == {0} \cup {l.edit.stamp : l \in {k \in Range(relayLog) : k.edit.node = n /\ (sealed \/ ~k.sealed)}}
  IN
  /\ image.upTo < Len(relayLog)
  /\ sealed => keyRow # "none"
  /\ image' = [upTo |-> Len(relayLog), sealed |-> sealed,
               nodeRows |-> [n \in Place |-> CHOOSE s \in stamps(n) : \A r \in stamps(n) : s >= r]]
  /\ UNCHANGED <<relayLog, keyRow, mirrorRows, unsent, cursor, stamped, windowVars, engineVars, holder, work>>

Opening ==
  \/ FetchKey \/ StoreKey \/ KeyRouteFails
  \/ Probe \/ DeclineSnapshot \/ OpenSnapshotFails \/ RestoreSnapshot \/ RestoreCursor
Syncing(w) == PushBegin(w) \/ TakeUnsent(w) \/ Submit(w) \/ PullBegin(w) \/ FetchPage(w) \/ ApplyPage(w) \/ UploadSnapshot(w)
Elsewhere ==
  \/ OtherStoresKey
  \/ \E sealed \in BOOLEAN : OtherUploads(sealed) \/ \E n \in Place : OtherCommits(n, sealed)

SealedNext ==
  \/ SelectWorkspace \/ WorkspaceOpened \/ IntervalSync \/ \E n \in Place : SaveEdit(n)
  \/ Opening \/ \E w \in Worker : Syncing(w)
  \/ Hello \/ LiveFrame \/ Elsewhere

SealedSpec == SealedInit /\ [][SealedNext]_sealedVars

-----------------------------------------------------------------------------
(* "The cursor stays put": what the cursor has passed is shown, unless a keyless engine
   could not open it or a restore put an older row over one that was shown. *)
CursorCovered ==
  \A i \in 1..cursor : ShownIn(nodeRows, relayLog[i].edit) \/ relayLog[i].edit \in lost

(* "Nothing may inject plaintext ops into an encrypted log": once the engine of the
   window has its provider and no other worker of a keyless time is under way, what
   this client sends from then on, envelopes and images, is sealed. *)
OnlySealing ==
  /\ current # 0 /\ provider[current]
  /\ \A w \in Worker : ~At(w, "idle") =>
       work[w].engine = current /\ (At(w, "submit") => work[w].sealed)
SealedOnceKeyed ==
  [][OnlySealing /\ current' = current =>
       /\ OnlySealing'
       /\ \A i \in Len(relayLog) + 1 .. Len(relayLog') : relayLog'[i].edit \in recorded => relayLog'[i].sealed
       /\ image' # image /\ work' # work => image'.sealed]_sealedVars

(* "Nothing is synced until it unlocks": while the engine is barred and every worker is
   still before its test, no catch-up, push or upload gets through, until the workspace is
   selected again. *)
Outside ==
  /\ current # 0 /\ barred[current]
  /\ \A w \in Worker : work[w].step \in {"idle", "refused", "push", "pull"} /\ (~At(w, "idle") => work[w].engine = current)
LockedKeepsOut ==
  [][Outside /\ current' = current =>
       /\ Outside' /\ cursor' = cursor /\ (image' # image => work' = work)
       /\ \A i \in Len(relayLog) + 1 .. Len(relayLog') : relayLog'[i].edit \notin recorded]_sealedVars
=============================================================================
