------------------------------ MODULE SyncEngine ------------------------------
(***************************************************************************)
(* core/sync/engine.py with the threads that run it.  ui/window.py starts  *)
(* one worker thread per sync request (after a save, every 30 seconds, on  *)
(* opening a workspace) and nothing keeps two of them apart; the WebSocket *)
(* reader thread runs _on_rt_hello and _on_rt_ops; the GTK main thread     *)
(* saves edits (ui/editor.py).  A thread moves from one call on the store  *)
(* or the relay to the next: each step below is one such call.             *)
(*                                                                         *)
(* push holds no lock.  pull, the live-frame handler and the buffer drain  *)
(* hold _rt_lock; the hello handler's epoch check and wipe do not.         *)
(*                                                                         *)
(* This module is the keyless engine; snapshots are not part of it.        *)
(***************************************************************************)
EXTENDS SyncStore

CONSTANTS
  Workers,    \* threads running SyncEngine.sync
  Readers,    \* the WebSocket reader thread: a singleton, or empty
  None,       \* no thread, no envelope
  Oversize,   \* own envelopes over MAX_ENVELOPE_SIZE_BYTES once sealed: a
              \* keyless engine has none, new_envelope checks the plain size
  ChunkSize,  \* OUTBOX_CHUNK_SIZE
  PageSize,   \* page_size
  Attempts,   \* len(BACKOFF_SECONDS)
  MaxFaults   \* bound: failed calls, dropped connections and crashes

Threads == Workers \cup Readers

ASSUME EngineAssumption ==
  /\ Workers \cap Readers = {}
  /\ None \notin Threads \cup Env
  /\ Oversize \subseteq Own
  /\ ChunkSize \in Nat \ {0} /\ PageSize \in Nat \ {0}
  /\ Attempts \in Nat \ {0}
  /\ MaxFaults \in Nat

VARIABLES
  rtLock,     \* the thread holding _rt_lock, or None
  rtBuffer,   \* _rt_buffer: live envelopes set aside, ranked by seq
  pc,         \* what each thread does next
  batch,      \* the envelopes it still has to go through, ranked
  ids,        \* push: ids of the chunk in hand
  tries,      \* push: failed attempts for this chunk
  after,      \* pull: seq cursor of the catch-up
  mark,       \* next_after_seq of the page, latest_seq of the hello
  more,       \* has_more of the page
  seen,       \* restore_epoch of the page or hello
  editing,    \* main thread: envelope enqueued and not yet applied
  passedOver, \* history: envelopes a catch-up page skipped on a StoreError
  faults      \* faults so far

threadVars == <<pc, batch, ids, tries, after, mark, more, seen>>
lockVars == <<rtLock, rtBuffer>>
userVars == <<editing, passedOver>>
vars == <<relayVars, storeVars, lockVars, threadVars, userVars, faults>>

PullSteps == {"fetch", "check", "wipe", "setEpoch", "page", "advance"}
LockSteps == PullSteps \cup {"drain", "live"}
Steps == LockSteps \cup {"idle", "take", "submit", "park", "ack", "lock",
                         "hello", "helloWipe", "helloSetEpoch", "helloPull",
                         "drainLock", "liveLock"}

TypeOK ==
  /\ RelayTypeOK
  /\ StoreTypeOK
  /\ rtLock \in Threads \cup {None}
  /\ rtBuffer \in Ranks
  /\ pc \in [Threads -> Steps]
  /\ batch \in [Threads -> Ranks]
  /\ ids \in [Threads -> SUBSET Env]
  /\ tries \in [Threads -> Nat]
  /\ after \in [Threads -> Nat]
  /\ mark \in [Threads -> Nat]
  /\ more \in [Threads -> BOOLEAN]
  /\ seen \in [Threads -> Nat]
  /\ editing \in Own \cup {None}
  /\ passedOver \in SUBSET Env
  /\ faults \in Nat

ThreadInit ==
  /\ pc = [t \in Threads |-> "idle"]
  /\ batch = [t \in Threads |-> NoRanks]
  /\ ids = [t \in Threads |-> {}]
  /\ tries = [t \in Threads |-> 0]
  /\ after = [t \in Threads |-> 0]
  /\ mark = [t \in Threads |-> 0]
  /\ more = [t \in Threads |-> FALSE]
  /\ seen = [t \in Threads |-> 0]

Init ==
  /\ RelayInit
  /\ StoreInit
  /\ rtLock = None
  /\ rtBuffer = NoRanks
  /\ ThreadInit
  /\ editing = None
  /\ passedOver = {}
  /\ faults = 0

-----------------------------------------------------------------------------
At(t, step) == pc[t] = step
Goto(t, step) == pc' = [pc EXCEPT ![t] = step]
Load(t, ranks) == batch' = [batch EXCEPT ![t] = ranks]
Fault == faults < MaxFaults /\ faults' = faults + 1

\* push is over and sync goes on: push's locals are gone.
EndPush(t) ==
  /\ Goto(t, "lock")
  /\ Load(t, NoRanks)
  /\ ids' = [ids EXCEPT ![t] = {}]
  /\ tries' = [tries EXCEPT ![t] = 0]

\* The thread's work is over, normally or by an exception: so are its locals.
Return(t) ==
  /\ Goto(t, "idle")
  /\ Load(t, NoRanks)
  /\ ids' = [ids EXCEPT ![t] = {}]
  /\ tries' = [tries EXCEPT ![t] = 0]
  /\ after' = [after EXCEPT ![t] = 0]
  /\ mark' = [mark EXCEPT ![t] = 0]
  /\ more' = [more EXCEPT ![t] = FALSE]
  /\ seen' = [seen EXCEPT ![t] = 0]

\* _pull_in_flight is set exactly while some thread is in pull's loop.
PullInFlight == \E t \in Threads : pc[t] \in PullSteps

(***************************************************************************)
(* One turn of an envelope loop: push's self-apply of an accepted chunk,   *)
(* pull's page, a live frame, or the drained buffer.  A StoreError is      *)
(* logged and the loop goes on.                                            *)
(***************************************************************************)
ApplyNext(t) ==
  /\ pc[t] \in {"ack", "page", "live", "drain"}
  /\ \E e \in Env :
       /\ IsFirst(batch[t], e)
       /\ ApplyRemote(e)
       /\ batch' = [batch EXCEPT ![t][e] = 0]
       /\ passedOver' = IF At(t, "page") /\ ~Applicable(e)
                          THEN passedOver \cup {e} ELSE passedOver
  /\ UNCHANGED <<relayVars, lockVars, pc, ids, tries, after, mark, more, seen,
                 editing, faults>>

LoopDone(t) == Ranked(batch[t]) = {}
Sendable(t) == Ranked(batch[t]) \cap Oversize = {}

-----------------------------------------------------------------------------
(* sync: push, then pull. *)

StartSync(t) ==
  /\ t \in Workers
  /\ At(t, "idle")
  /\ Goto(t, "take")
  /\ UNCHANGED <<relayVars, storeVars, lockVars, batch, ids, tries, after,
                 mark, more, seen, userVars, faults>>

TakeChunk(t) ==
  /\ At(t, "take")
  /\ LET chunk == PendingOutbox(ChunkSize)
     IN IF Ranked(chunk) = {}
          THEN EndPush(t)
          ELSE /\ Goto(t, "submit")
               /\ Load(t, chunk)
               /\ ids' = [ids EXCEPT ![t] = Ranked(chunk)]
               /\ tries' = [tries EXCEPT ![t] = 0]
  /\ UNCHANGED <<relayVars, storeVars, lockVars, after, mark, more, seen,
                 userVars, faults>>

\* submit_batch's own check raises ValueError before any request: neither push
\* nor sync catches it.
SubmitTooLarge(t) ==
  /\ At(t, "submit")
  /\ ~Sendable(t)
  /\ Return(t)
  /\ UNCHANGED <<relayVars, storeVars, lockVars, userVars, faults>>

SubmitAccepted(t) ==
  /\ At(t, "submit")
  /\ Sendable(t)
  /\ Accepts(batch[t])
  /\ CommitBatch(batch[t])
  /\ Goto(t, "ack")
  /\ UNCHANGED <<storeVars, lockVars, batch, ids, tries, after, mark, more,
                 seen, userVars, faults>>

\* Wrong on purpose: a rejected chunk is submitted again.
SubmitRejectedRetries(t) ==
  /\ At(t, "submit")
  /\ Sendable(t)
  /\ ~Accepts(batch[t])
  /\ UNCHANGED vars

SubmitRejected(t) ==
  /\ At(t, "submit")
  /\ Sendable(t)
  /\ ~Accepts(batch[t])
  /\ Goto(t, "park")
  /\ UNCHANGED <<relayVars, storeVars, lockVars, batch, ids, tries, after,
                 mark, more, seen, userVars, faults>>

\* Wrong on purpose: a chunk given up on is treated as delivered.
SubmitFailsDelivers(t) ==
  /\ At(t, "submit")
  /\ Sendable(t)
  /\ Fault
  /\ IF tries[t] + 1 < Attempts
       THEN tries' = [tries EXCEPT ![t] = @ + 1] /\ UNCHANGED pc
       ELSE Goto(t, "ack") /\ UNCHANGED tries
  /\ UNCHANGED <<relayVars, storeVars, lockVars, batch, ids, after, mark, more,
                 seen, userVars>>

\* Wrong on purpose: the attempts are counted down from zero.
SubmitFailsCountsDown(t) ==
  /\ At(t, "submit")
  /\ Fault
  /\ tries' = [tries EXCEPT ![t] = @ - 1]
  /\ UNCHANGED <<relayVars, storeVars, lockVars, pc, batch, ids, after, mark,
                 more, seen, userVars>>

(***************************************************************************)
(* A transient failure: the request never arrived, or its answer was lost  *)
(* after the relay committed the batch.  The attempt is repeated until the *)
(* schedule is used up; then push gives up and sync goes on to pull.       *)
(***************************************************************************)
SubmitFails(t) ==
  /\ At(t, "submit")
  /\ Sendable(t)
  /\ Fault
  /\ \/ UNCHANGED relayVars
     \/ Accepts(batch[t]) /\ CommitBatch(batch[t])
  /\ IF tries[t] + 1 < Attempts
       THEN tries' = [tries EXCEPT ![t] = @ + 1] /\ UNCHANGED <<pc, batch, ids>>
       ELSE EndPush(t)
  /\ UNCHANGED <<storeVars, lockVars, after, mark, more, seen, userVars>>

\* 401/403 propagate out of push and sync: no pull follows.
SubmitUnauthorized(t) ==
  /\ At(t, "submit")
  /\ Sendable(t)
  /\ Fault
  /\ Return(t)
  /\ UNCHANGED <<relayVars, storeVars, lockVars, userVars>>

Quarantine(t) ==
  /\ At(t, "park")
  /\ QuarantineOutbox(ids[t])
  /\ Goto(t, "take")
  /\ UNCHANGED <<relayVars, lockVars, batch, ids, tries, after, mark, more,
                 seen, userVars, faults>>

MarkSent(t) ==
  /\ At(t, "ack")
  /\ LoopDone(t)
  /\ MarkOutboxSent(ids[t])
  /\ Goto(t, "take")
  /\ UNCHANGED <<relayVars, lockVars, batch, ids, tries, after, mark, more,
                 seen, userVars, faults>>

-----------------------------------------------------------------------------
(* pull *)

PullBegin(t) ==
  /\ At(t, "lock")
  /\ rtLock = None
  /\ rtLock' = t
  /\ after' = [after EXCEPT ![t] = cursor]
  /\ Goto(t, "fetch")
  /\ UNCHANGED <<relayVars, storeVars, rtBuffer, batch, ids, tries, mark,
                 more, seen, userVars, faults>>

\* Wrong on purpose: the page is taken to reach the end of the log.
FetchPageMarksLatest(t) ==
  /\ At(t, "fetch")
  /\ Load(t, Page(after[t], PageSize))
  /\ mark' = [mark EXCEPT ![t] = latest]
  /\ more' = [more EXCEPT ![t] = HasMore(after[t], PageSize)]
  /\ seen' = [seen EXCEPT ![t] = epoch]
  /\ Goto(t, "check")
  /\ UNCHANGED <<relayVars, storeVars, lockVars, ids, tries, after, userVars,
                 faults>>

FetchPage(t) ==
  /\ At(t, "fetch")
  /\ Load(t, Page(after[t], PageSize))
  /\ mark' = [mark EXCEPT ![t] = NextAfterSeq(after[t], PageSize)]
  /\ more' = [more EXCEPT ![t] = HasMore(after[t], PageSize)]
  /\ seen' = [seen EXCEPT ![t] = epoch]
  /\ Goto(t, "check")
  /\ UNCHANGED <<relayVars, storeVars, lockVars, ids, tries, after, userVars,
                 faults>>

\* catch_up raises: the finally clause and the lock's exit run, no drain.
FetchFails(t) ==
  /\ At(t, "fetch")
  /\ Fault
  /\ rtLock' = None
  /\ Return(t)
  /\ UNCHANGED <<relayVars, storeVars, rtBuffer, userVars>>

CheckEpoch(t) ==
  /\ At(t, "check")
  /\ Goto(t, IF seen[t] = storedEpoch THEN "page" ELSE "wipe")
  /\ UNCHANGED <<relayVars, storeVars, lockVars, batch, ids, tries, after,
                 mark, more, seen, userVars, faults>>

WipeForEpoch(t) ==
  /\ At(t, "wipe")
  /\ Wipe
  /\ passedOver' = {}
  /\ Goto(t, "setEpoch")
  /\ UNCHANGED <<relayVars, lockVars, batch, ids, tries, after, mark, more,
                 seen, editing, faults>>

\* Wrong on purpose: the new epoch is not persisted.
AdoptEpochInMemory(t) ==
  /\ At(t, "setEpoch")
  /\ after' = [after EXCEPT ![t] = 0]
  /\ Goto(t, "fetch")
  /\ UNCHANGED <<relayVars, storeVars, lockVars, batch, ids, tries, mark, more,
                 seen, userVars, faults>>

\* Wrong on purpose: the catch-up goes on from the old epoch's seq.
AdoptEpochKeepsSeq(t) ==
  /\ At(t, "setEpoch")
  /\ SetRestoreEpoch(seen[t])
  /\ Goto(t, "fetch")
  /\ UNCHANGED <<relayVars, lockVars, batch, ids, tries, after, mark, more, seen,
                 userVars, faults>>

\* The page in hand is of an obsolete epoch: fetch again from seq 0.
AdoptEpoch(t) ==
  /\ At(t, "setEpoch")
  /\ SetRestoreEpoch(seen[t])
  /\ after' = [after EXCEPT ![t] = 0]
  /\ Goto(t, "fetch")
  /\ UNCHANGED <<relayVars, lockVars, batch, ids, tries, mark, more, seen,
                 userVars, faults>>

PageApplied(t) ==
  /\ At(t, "page")
  /\ LoopDone(t)
  /\ Goto(t, "advance")
  /\ UNCHANGED <<relayVars, storeVars, lockVars, batch, ids, tries, after,
                 mark, more, seen, userVars, faults>>

\* Adopt next_after_seq as the cursor; leave the loop on the last page, on an
\* empty one and on one without progress, taking the buffer over for the drain.
Advance(t) ==
  /\ At(t, "advance")
  /\ LET progress == mark[t] > after[t]
     IN /\ IF progress
             THEN SetCursor(mark[t]) /\ after' = [after EXCEPT ![t] = mark[t]]
             ELSE UNCHANGED <<storeVars, after>>
        /\ IF progress /\ more[t]
             THEN Goto(t, "fetch") /\ UNCHANGED <<batch, rtBuffer>>
             ELSE Goto(t, "drain") /\ Load(t, rtBuffer) /\ rtBuffer' = NoRanks
  /\ UNCHANGED <<relayVars, rtLock, ids, tries, mark, more, seen, userVars,
                 faults>>

\* The end of a drain or of a live frame: _rt_lock is released.
Release(t) ==
  /\ pc[t] \in {"drain", "live"}
  /\ LoopDone(t)
  /\ rtLock' = None
  /\ Return(t)
  /\ UNCHANGED <<relayVars, storeVars, rtBuffer, userVars, faults>>

-----------------------------------------------------------------------------
(* The reader thread: one frame at a time. *)

Receive(t) ==
  /\ t \in Readers
  /\ At(t, "idle")
  /\ frames # << >>
  /\ frames' = Tail(frames)
  /\ LET frame == Head(frames)
     IN IF frame.type = "hello"
          THEN /\ mark' = [mark EXCEPT ![t] = frame.latest]
               /\ seen' = [seen EXCEPT ![t] = frame.epoch]
               /\ Goto(t, "hello")
               /\ UNCHANGED batch
          ELSE /\ Load(t, frame.ranks)
               /\ Goto(t, "liveLock")
               /\ UNCHANGED <<mark, seen>>
  /\ UNCHANGED <<seq, latest, epoch, wsUp, storeVars, lockVars, ids, tries,
                 after, more, userVars, faults>>

HelloCheckEpoch(t) ==
  /\ At(t, "hello")
  /\ Goto(t, IF seen[t] = storedEpoch THEN "helloPull" ELSE "helloWipe")
  /\ UNCHANGED <<relayVars, storeVars, lockVars, batch, ids, tries, after,
                 mark, more, seen, userVars, faults>>

HelloWipe(t) ==
  /\ At(t, "helloWipe")
  /\ Wipe
  /\ passedOver' = {}
  /\ Goto(t, "helloSetEpoch")
  /\ UNCHANGED <<relayVars, lockVars, batch, ids, tries, after, mark, more,
                 seen, editing, faults>>

HelloAdoptEpoch(t) ==
  /\ At(t, "helloSetEpoch")
  /\ SetRestoreEpoch(seen[t])
  /\ Goto(t, "helloPull")
  /\ UNCHANGED <<relayVars, lockVars, batch, ids, tries, after, mark, more,
                 seen, userVars, faults>>

HelloPull(t) ==
  /\ At(t, "helloPull")
  /\ Goto(t, IF mark[t] > cursor THEN "lock" ELSE "drainLock")
  /\ UNCHANGED <<relayVars, storeVars, lockVars, batch, ids, tries, after,
                 mark, more, seen, userVars, faults>>

HelloDrain(t) ==
  /\ At(t, "drainLock")
  /\ rtLock = None
  /\ rtLock' = t
  /\ Load(t, rtBuffer)
  /\ rtBuffer' = NoRanks
  /\ Goto(t, "drain")
  /\ UNCHANGED <<relayVars, storeVars, ids, tries, after, mark, more, seen,
                 userVars, faults>>

\* A live frame waits for _rt_lock; only then does it ask whether a pull is
\* in flight, in which case it is buffered.
LiveFrame(t) ==
  /\ At(t, "liveLock")
  /\ rtLock = None
  /\ IF PullInFlight
       THEN /\ rtBuffer' = [e \in Env |-> IF batch[t][e] > 0 THEN batch[t][e]
                                                             ELSE rtBuffer[e]]
            /\ Return(t)
            /\ UNCHANGED rtLock
       ELSE /\ rtLock' = t
            /\ Goto(t, "live")
            /\ UNCHANGED <<rtBuffer, batch, ids, tries, after, mark, more, seen>>
  /\ UNCHANGED <<relayVars, storeVars, userVars, faults>>

-----------------------------------------------------------------------------
(* The main thread saves an edit of what the mirror shows: enqueue, then an *)
(* optimistic apply, then a sync request (StartSync).                       *)

SaveEnqueue(e) ==
  /\ editing = None
  /\ Applicable(e)
  /\ Enqueue(e)
  /\ editing' = e
  /\ UNCHANGED <<relayVars, lockVars, threadVars, passedOver, faults>>

SaveApply ==
  /\ editing # None
  /\ ApplyRemote(editing)
  /\ editing' = None
  /\ UNCHANGED <<relayVars, lockVars, threadVars, passedOver, faults>>

\* The process dies: memory is lost, the database is not.
Crash ==
  /\ Fault
  /\ DropSocket
  /\ rtLock' = None
  /\ rtBuffer' = NoRanks
  /\ editing' = None
  /\ pc' = [t \in Threads |-> "idle"]
  /\ batch' = [t \in Threads |-> NoRanks]
  /\ ids' = [t \in Threads |-> {}]
  /\ tries' = [t \in Threads |-> 0]
  /\ after' = [t \in Threads |-> 0]
  /\ mark' = [t \in Threads |-> 0]
  /\ more' = [t \in Threads |-> FALSE]
  /\ seen' = [t \in Threads |-> 0]
  /\ UNCHANGED <<storeVars, passedOver>>

\* The reader reconnects once it is done with the frame in hand.
Connect ==
  /\ OpenSocket
  /\ \E t \in Readers : At(t, "idle")
  /\ UNCHANGED <<storeVars, lockVars, threadVars, userVars, faults>>

Disconnect ==
  /\ wsUp
  /\ Fault
  /\ DropSocket
  /\ UNCHANGED <<storeVars, lockVars, threadVars, userVars>>

Remote ==
  /\ \/ \E e \in Foreign : ForeignCommit(e)
     \/ \E n \in 0 .. latest : RestoreBackup(n)
  /\ UNCHANGED <<storeVars, lockVars, threadVars, userVars, faults>>

-----------------------------------------------------------------------------
Push(t) ==
  \/ TakeChunk(t) \/ SubmitTooLarge(t) \/ SubmitAccepted(t)
  \/ SubmitRejected(t) \/ Quarantine(t) \/ MarkSent(t)

Pull(t) ==
  \/ PullBegin(t) \/ FetchPage(t) \/ CheckEpoch(t) \/ WipeForEpoch(t)
  \/ AdoptEpoch(t) \/ PageApplied(t) \/ Advance(t) \/ Release(t)

Realtime(t) ==
  \/ Receive(t) \/ HelloCheckEpoch(t) \/ HelloWipe(t) \/ HelloAdoptEpoch(t)
  \/ HelloPull(t) \/ HelloDrain(t) \/ LiveFrame(t)

\* What a thread does of its own accord, faults apart.
ThreadStep(t) == StartSync(t) \/ Push(t) \/ Pull(t) \/ Realtime(t) \/ ApplyNext(t)

ThreadFault(t) == SubmitFails(t) \/ SubmitUnauthorized(t) \/ FetchFails(t)

Next ==
  \/ \E t \in Threads : ThreadStep(t) \/ ThreadFault(t)
  \/ \E e \in Own : SaveEnqueue(e)
  \/ SaveApply
  \/ Connect \/ Disconnect \/ Crash
  \/ Remote

Spec == Init /\ [][Next]_vars

(***************************************************************************)
(* The scheduler runs every thread that can run, the 30-second timer keeps *)
(* requesting syncs, and the main thread finishes the handler it is in.    *)
(* Nothing is assumed of the user, of other devices, of the socket or of   *)
(* faults (MaxFaults bounds those).                                        *)
(***************************************************************************)
FairSpec ==
  /\ Spec
  /\ \A t \in Threads : WF_vars(ThreadStep(t))
  /\ WF_vars(SaveApply)

-----------------------------------------------------------------------------
(* Properties *)

(***************************************************************************)
(* No edit is lost and the mirror shows nothing unaccounted for: whatever  *)
(* was saved or applied is in the relay's log or still has an outbox row,  *)
(* across crashes, lost answers, repeated submits and concurrent pushes    *)
(* (push, mark_outbox_sent, the editor's enqueue-then-apply order).        *)
(***************************************************************************)
Accounted == saved \cup ops \subseteq Committed \cup Ranked(row)

(***************************************************************************)
(* The cursor is the authoritative recovery mechanism: every envelope the  *)
(* relay holds at or below it was applied, or was skipped by the catch-up  *)
(* on a store guard.  An envelope it passes over otherwise is never        *)
(* fetched again.  Claimed while the stored epoch is the relay's.          *)
(***************************************************************************)
CursorCoverage ==
  storedEpoch = epoch =>
    \A e \in Env : 0 < seq[e] /\ seq[e] <= cursor => e \in ops \cup passedOver

(***************************************************************************)
(* _rt_buffer is never used: a live frame reaches the in-flight test only  *)
(* once it holds _rt_lock, which the thread of the pull in flight holds.   *)
(* The docstrings say otherwise: FramesDrained.                            *)
(***************************************************************************)
RtBufferUnused == rtBuffer = NoRanks

(***************************************************************************)
(* "ops arriving while a catch-up pull is in flight are buffered and       *)
(* drained when the pull finishes" (engine.py:14-15): when a pull's loop   *)
(* ends, what the frame in the reader's hands carries is in the mirror     *)
(* already or among what the pull is about to drain.  The code makes the   *)
(* frame wait for the lock instead, and applies it after the drain.        *)
(***************************************************************************)
FramesDrained ==
  [][\A t, u \in Threads :
       At(t, "advance") /\ pc'[t] = "drain" /\ At(u, "liveLock") =>
         Ranked(batch[u]) \subseteq ops \cup Ranked(batch'[t])]_vars

(***************************************************************************)
(* The log never lists an envelope before one its applier needs: push      *)
(* sends the outbox oldest first, and a row leaves it only once settled.   *)
(* Two pushes break this with a chunk taken before a restore from backup,  *)
(* or before another push quarantined what it holds, and accepted after:   *)
(* claimed until the first restore, of what is not quarantined.            *)
(***************************************************************************)
CausalLog ==
  epoch = 0 =>
    \A e \in Committed : \A d \in (Dep[e] \cap Committed) \ parked : seq[d] < seq[e]

(***************************************************************************)
(* Once edits, other devices and faults cease, every saved envelope is on  *)
(* the relay or quarantined, and every envelope of the log is in the       *)
(* mirror or was refused by it, for good.                                  *)
(***************************************************************************)
Converges ==
  <>[](/\ saved \subseteq Committed \cup parked
       /\ Committed \subseteq ops \cup passedOver)

(***************************************************************************)
(* However hello, pull and crash interleave after a restore from backup,   *)
(* the client ends up with the relay's restore epoch and stays with it.    *)
(***************************************************************************)
EpochSettles == <>[](storedEpoch = epoch)

(***************************************************************************)
(* Outbox and mirror as one step: a row is owed until the relay has it or  *)
(* it is parked, the mirror never takes back what it showed.  Holds while  *)
(* the server is not restored from backup (a wipe drops both).             *)
(***************************************************************************)
D == INSTANCE Delivery WITH committed <- Committed, owed <- Pending,
                            parked <- parked, visible <- ops
ImplementsDelivery == D!Spec
=============================================================================
