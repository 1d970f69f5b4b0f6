--------------------------- MODULE SyncEngineProofs ---------------------------
(***************************************************************************)
(* Theorems about SyncEngine for every set of envelopes, every number of   *)
(* worker threads and every bound.                                         *)
(***************************************************************************)
EXTENDS SyncEngine, FiniteSetTheorems, TLAPS

LEMMA EnvFinite == IsFiniteSet(Env)
  BY EnvAssumption, FS_Union DEF Env

LEMMA CountType ==
  ASSUME NEW S \in SUBSET Env
  PROVE  IsFiniteSet(S) /\ Cardinality(S) \in Nat
  BY EnvFinite, FS_Subset, FS_CardinalityType

LEMMA RanksType ==
  /\ NoRanks \in Ranks
  /\ \A h \in Ranks, e \in Env, n \in Nat : [h EXCEPT ![e] = n] \in Ranks
  /\ \A h \in Ranks : Ranked(h) \in SUBSET Env
  BY DEF NoRanks, Ranks, Ranked

\* The contents of a socket: none, and one frame more.
LEMMA FramesType ==
  /\ << >> \in Seq(Frame)
  /\ \A fs \in Seq(Frame), x \in Frame : Append(fs, x) \in Seq(Frame)
  /\ \A x \in Frame : <<x>> \in Seq(Frame)
  OBVIOUS

(***************************************************************************)
(* What committing a batch does: the log keeps what it has, takes the rest *)
(* of the batch at positions past its end, and moves its end there.        *)
(***************************************************************************)
LEMMA CommitBatchEffect ==
  ASSUME RelayTypeOK, NEW bt \in Ranks, CommitBatch(bt)
  PROVE  /\ RelayTypeOK'
         /\ Committed' = Committed \cup Ranked(bt)
         /\ \A e \in Committed : seq'[e] = seq[e]
         /\ \A e \in Ranked(bt) \ Committed : seq'[e] > latest
         /\ latest' >= latest
         /\ (\A e \in Env : seq[e] <= latest) => \A e \in Env : seq'[e] <= latest'
         /\ \/ frames' = frames
            \/ \E r \in Ranks : /\ frames' = Append(frames, [type |-> "ops", ranks |-> r])
                                /\ Ranked(r) \subseteq Ranked(bt)
<1> DEFINE new == Ranked(bt) \ Committed
           upTo(e) == {d \in new : bt[d] <= bt[e]}
           rk == [e \in Env |-> IF e \in new THEN seq'[e] ELSE 0]
<1>1. seq' = [e \in Env |-> IF e \in new THEN latest + Cardinality(upTo(e)) ELSE seq[e]]
  BY DEF CommitBatch
<1>2. latest' = latest + Cardinality(new)
  BY DEF CommitBatch
<1>3. frames' = IF wsUp /\ new # {}
                  THEN Append(frames, [type |-> "ops", ranks |-> rk]) ELSE frames
  BY DEF CommitBatch
<1>4. new \in SUBSET Env /\ \A e \in Env : upTo(e) \in SUBSET Env
  BY DEF Ranked
<1>5. Cardinality(new) \in Nat
  BY <1>4, CountType
<1>6. ASSUME NEW e \in new
      PROVE  Cardinality(upTo(e)) \in Nat \ {0}
  <2>1. e \in upTo(e) /\ e \in Env
    BY DEF Ranked, Ranks
  <2>2. IsFiniteSet(upTo(e)) /\ Cardinality(upTo(e)) \in Nat
    BY <1>4, <2>1, CountType
  <2>3. Cardinality(upTo(e)) # 0
    BY <2>1, <2>2, FS_EmptySet
  <2> QED BY <2>2, <2>3
<1>7. seq' \in Ranks /\ latest' \in Nat
  <2> HIDE DEF upTo, new
  <2>1. \A e \in Env : (IF e \in new THEN latest + Cardinality(upTo(e)) ELSE seq[e]) \in Nat
    BY <1>6 DEF RelayTypeOK, Ranks
  <2> QED BY <1>1, <1>2, <1>5, <2>1 DEF RelayTypeOK, Ranks
<1>8. rk \in Ranks /\ Ranked(rk) \subseteq Ranked(bt)
  BY <1>7 DEF Ranks, Ranked
<1>9. RelayTypeOK'
  <2>1. frames' \in Seq(Frame)
    <3>1. [type |-> "ops", ranks |-> rk] \in Frame
      BY <1>8 DEF Frame
    <3> QED BY <3>1, <1>3 DEF RelayTypeOK
  <2>2. epoch' = epoch /\ wsUp' = wsUp
    BY DEF CommitBatch
  <2> QED BY <1>7, <2>1, <2>2 DEF RelayTypeOK
<1>10. /\ \A e \in Committed : seq'[e] = seq[e]
       /\ \A e \in new : seq'[e] > latest
  BY <1>1, <1>6 DEF RelayTypeOK, Ranks, Committed, Ranked
<1>11. Committed' = Committed \cup Ranked(bt)
  BY <1>1, <1>6 DEF RelayTypeOK, Ranks, Committed, Ranked
<1>12. latest' >= latest
  BY <1>2, <1>5 DEF RelayTypeOK
<1>13. \/ frames' = frames
       \/ \E r \in Ranks : /\ frames' = Append(frames, [type |-> "ops", ranks |-> r])
                          /\ Ranked(r) \subseteq Ranked(bt)
  BY <1>3, <1>8, Zenon
<1>14. ASSUME \A e \in Env : seq[e] <= latest, NEW e \in Env
       PROVE  seq'[e] <= latest'
  <2>1. CASE e \in new
    <3>1. Cardinality(upTo(e)) <= Cardinality(new)
      BY <1>4, CountType, FS_Subset
    <3>2. seq'[e] = latest + Cardinality(upTo(e))
      BY <1>1, <2>1
    <3> HIDE DEF upTo, new
    <3> QED BY <1>2, <1>5, <1>6, <2>1, <3>1, <3>2 DEF RelayTypeOK
  <2>2. CASE e \notin new
    <3>1. seq'[e] = seq[e]
      BY <1>1, <2>2
    <3> HIDE DEF upTo, new
    <3> QED BY <1>2, <1>5, <1>14, <3>1 DEF RelayTypeOK, Ranks
  <2> QED BY <2>1, <2>2
<1> QED BY <1>9, <1>10, <1>11, <1>12, <1>13, <1>14
-----------------------------------------------------------------------------
(* Types *)

LEMMA PageType ==
  ASSUME RelayTypeOK, NEW n \in Nat
  PROVE  /\ Page(n, PageSize) \in Ranks
         /\ NextAfterSeq(n, PageSize) \in Nat
         /\ HasMore(n, PageSize) \in BOOLEAN
  BY EngineAssumption DEF RelayTypeOK, Ranks, Page, NextAfterSeq, HasMore

LEMMA PendingOutboxType ==
  ASSUME StoreTypeOK
  PROVE  PendingOutbox(ChunkSize) \in Ranks
  BY DEF StoreTypeOK, Ranks, PendingOutbox

LEMMA InitType == Init => TypeOK
<1> SUFFICES ASSUME Init PROVE TypeOK
  OBVIOUS
<1>1. RelayTypeOK
  BY RanksType, FramesType DEF Init, RelayInit, RelayTypeOK
<1>2. StoreTypeOK
  BY RanksType DEF Init, StoreInit, StoreTypeOK
<1>3. /\ pc \in [Threads -> Steps] /\ batch \in [Threads -> Ranks]
      /\ ids \in [Threads -> SUBSET Env] /\ tries \in [Threads -> Nat]
      /\ after \in [Threads -> Nat] /\ mark \in [Threads -> Nat]
      /\ more \in [Threads -> BOOLEAN] /\ seen \in [Threads -> Nat]
  BY RanksType DEF Init, ThreadInit, Steps
<1> QED BY <1>1, <1>2, <1>3, RanksType DEF Init, TypeOK

LEMMA PushType ==
  ASSUME TypeOK, NEW t \in Threads, Push(t)
  PROVE  TypeOK'
<1> USE RanksType DEF TypeOK, Steps, LockSteps, PullSteps, At, Goto, Load
<1>1. CASE TakeChunk(t)
  <2>1. PendingOutbox(ChunkSize) \in Ranks
    BY PendingOutboxType
  <2>2. RelayTypeOK' /\ StoreTypeOK'
    BY <1>1 DEF TakeChunk, relayVars, storeVars, RelayTypeOK, StoreTypeOK
  <2>3. /\ pc' \in [Threads -> Steps] /\ batch' \in [Threads -> Ranks]
        /\ ids' \in [Threads -> SUBSET Env] /\ tries' \in [Threads -> Nat]
    <3>1. CASE Ranked(PendingOutbox(ChunkSize)) = {}
      BY <1>1, <3>1 DEF TakeChunk, EndPush
    <3>2. CASE Ranked(PendingOutbox(ChunkSize)) # {}
      <4>1. /\ pc' = [pc EXCEPT ![t] = "submit"]
            /\ batch' = [batch EXCEPT ![t] = PendingOutbox(ChunkSize)]
            /\ ids' = [ids EXCEPT ![t] = Ranked(PendingOutbox(ChunkSize))]
            /\ tries' = [tries EXCEPT ![t] = 0]
        BY <1>1, <3>2 DEF TakeChunk
      <4> QED BY <4>1, <2>1
    <3> QED BY <3>1, <3>2
  <2> QED BY <1>1, <2>2, <2>3 DEF TakeChunk, lockVars, userVars
<1>2. CASE SubmitTooLarge(t)
  BY <1>2 DEF SubmitTooLarge, Return, relayVars, storeVars, lockVars, userVars,
     RelayTypeOK, StoreTypeOK
<1>3. CASE SubmitAccepted(t)
  <2>1. RelayTypeOK'
    BY <1>3, CommitBatchEffect DEF SubmitAccepted
  <2> QED BY <1>3, <2>1 DEF SubmitAccepted, storeVars, lockVars, userVars, StoreTypeOK
<1>4. CASE SubmitRejected(t)
  BY <1>4 DEF SubmitRejected, relayVars, storeVars, lockVars, userVars,
     RelayTypeOK, StoreTypeOK
<1>5. CASE Quarantine(t)
  BY <1>5 DEF Quarantine, QuarantineOutbox, relayVars, lockVars, userVars,
     RelayTypeOK, StoreTypeOK
<1>6. CASE MarkSent(t)
  BY <1>6 DEF MarkSent, MarkOutboxSent, Ranks, relayVars, lockVars, userVars,
     RelayTypeOK, StoreTypeOK
<1> QED BY <1>1, <1>2, <1>3, <1>4, <1>5, <1>6 DEF Push

LEMMA FaultType ==
  ASSUME TypeOK, NEW t \in Threads, ThreadFault(t)
  PROVE  TypeOK'
<1> USE RanksType DEF TypeOK, Steps, LockSteps, PullSteps, At, Goto, Load, Fault
<1>1. CASE SubmitFails(t)
  <2>1. RelayTypeOK'
    BY <1>1, CommitBatchEffect DEF SubmitFails, relayVars, RelayTypeOK
  <2> QED BY <1>1, <2>1 DEF SubmitFails, EndPush, storeVars, lockVars, userVars,
             StoreTypeOK
<1>2. CASE SubmitUnauthorized(t)
  BY <1>2 DEF SubmitUnauthorized, Return, relayVars, storeVars, lockVars, userVars,
     RelayTypeOK, StoreTypeOK
<1>3. CASE FetchFails(t)
  BY <1>3, SMTT(30) DEF FetchFails, Return, relayVars, storeVars, userVars,
     RelayTypeOK, StoreTypeOK
<1> QED BY <1>1, <1>2, <1>3 DEF ThreadFault

LEMMA PullType ==
  ASSUME TypeOK, NEW t \in Threads, Pull(t)
  PROVE  TypeOK'
<1> USE RanksType DEF TypeOK, Steps, LockSteps, PullSteps, At, Goto, Load,
        RelayTypeOK, StoreTypeOK
<1>1. CASE PullBegin(t)
  BY <1>1 DEF PullBegin, relayVars, storeVars, userVars
<1>2. CASE FetchPage(t)
  <2>1. /\ Page(after[t], PageSize) \in Ranks
        /\ NextAfterSeq(after[t], PageSize) \in Nat
        /\ HasMore(after[t], PageSize) \in BOOLEAN
    BY PageType
  <2> QED BY <1>2, <2>1 DEF FetchPage, relayVars, storeVars, lockVars, userVars
<1>3. CASE CheckEpoch(t)
  BY <1>3 DEF CheckEpoch, relayVars, storeVars, lockVars, userVars
<1>4. CASE WipeForEpoch(t)
  BY <1>4 DEF WipeForEpoch, Wipe, relayVars, lockVars
<1>5. CASE AdoptEpoch(t)
  BY <1>5 DEF AdoptEpoch, SetRestoreEpoch, relayVars, lockVars, userVars
<1>6. CASE PageApplied(t)
  BY <1>6 DEF PageApplied, relayVars, storeVars, lockVars, userVars
<1>7. CASE Advance(t)
  <2>1. StoreTypeOK' /\ after' \in [Threads -> Nat]
    <3>1. CASE mark[t] > after[t]
      <4>1. SetCursor(mark[t]) /\ after' = [after EXCEPT ![t] = mark[t]]
        BY <1>7, <3>1 DEF Advance
      <4> QED BY <4>1 DEF SetCursor
    <3>2. CASE ~(mark[t] > after[t])
      BY <1>7, <3>2 DEF Advance, storeVars
    <3> QED BY <3>1, <3>2
  <2>2. pc' \in [Threads -> Steps] /\ batch' \in [Threads -> Ranks] /\ rtBuffer' \in Ranks
    <3>1. CASE mark[t] > after[t] /\ more[t]
      BY <1>7, <3>1 DEF Advance
    <3>2. CASE ~(mark[t] > after[t] /\ more[t])
      BY <1>7, <3>2, ZenonT(30) DEF Advance
    <3> QED BY <3>1, <3>2
  <2> QED BY <1>7, <2>1, <2>2 DEF Advance, relayVars, userVars
<1>8. CASE Release(t)
  BY <1>8 DEF Release, Return, relayVars, storeVars, userVars
<1> QED BY <1>1, <1>2, <1>3, <1>4, <1>5, <1>6, <1>7, <1>8 DEF Pull

LEMMA RealtimeType ==
  ASSUME TypeOK, NEW t \in Threads, Realtime(t)
  PROVE  TypeOK'
<1> USE RanksType DEF TypeOK, Steps, LockSteps, PullSteps, At, Goto, Load,
        RelayTypeOK, StoreTypeOK
<1>1. CASE Receive(t)
  <2>1. Head(frames) \in Frame /\ Tail(frames) \in Seq(Frame)
    BY <1>1 DEF Receive
  <2>2. Head(frames).type = "hello" => Head(frames).latest \in Nat /\ Head(frames).epoch \in Nat
    BY <2>1 DEF Frame
  <2>3. Head(frames).type # "hello" => Head(frames).ranks \in Ranks
    BY <2>1 DEF Frame
  <2> QED BY <1>1, <2>1, <2>2, <2>3 DEF Receive, storeVars, lockVars, userVars
<1>2. CASE HelloCheckEpoch(t)
  BY <1>2 DEF HelloCheckEpoch, relayVars, storeVars, lockVars, userVars
<1>3. CASE HelloWipe(t)
  BY <1>3 DEF HelloWipe, Wipe, relayVars, lockVars
<1>4. CASE HelloAdoptEpoch(t)
  BY <1>4 DEF HelloAdoptEpoch, SetRestoreEpoch, relayVars, lockVars, userVars
<1>5. CASE HelloPull(t)
  BY <1>5 DEF HelloPull, relayVars, storeVars, lockVars, userVars
<1>6. CASE HelloDrain(t)
  BY <1>6 DEF HelloDrain, relayVars, storeVars, userVars
<1>7. CASE LiveFrame(t)
  <2>1. CASE PullInFlight
    <3>1. rtBuffer' \in Ranks
      BY <1>7, <2>1 DEF LiveFrame, Ranks
    <3>2. Return(t) /\ UNCHANGED <<relayVars, storeVars, rtLock, userVars, faults>>
      BY <1>7, <2>1 DEF LiveFrame
    <3> QED BY <3>1, <3>2 DEF Return, relayVars, storeVars, userVars
  <2>2. CASE ~PullInFlight
    BY <1>7, <2>2 DEF LiveFrame, relayVars, storeVars, userVars
  <2> QED BY <2>1, <2>2
<1> QED BY <1>1, <1>2, <1>3, <1>4, <1>5, <1>6, <1>7 DEF Realtime

LEMMA ThreadType ==
  ASSUME TypeOK, NEW t \in Threads, ThreadStep(t)
  PROVE  TypeOK'
<1>1. CASE StartSync(t)
  <2>1. RelayTypeOK' /\ StoreTypeOK'
    BY <1>1 DEF StartSync, TypeOK, relayVars, storeVars, RelayTypeOK, StoreTypeOK
  <2> QED BY <1>1, <2>1 DEF StartSync, TypeOK, Steps, Goto, lockVars, userVars
<1>2. CASE ApplyNext(t)
  <2>1. RelayTypeOK'
    BY <1>2 DEF ApplyNext, relayVars, TypeOK, RelayTypeOK
  <2> PICK e \in Env : /\ ApplyRemote(e)
                       /\ batch' = [batch EXCEPT ![t][e] = 0]
                       /\ passedOver' = IF At(t, "page") /\ ~Applicable(e)
                                          THEN passedOver \cup {e} ELSE passedOver
    BY <1>2 DEF ApplyNext
  <2>2. StoreTypeOK' /\ passedOver' \in SUBSET Env
    BY DEF ApplyRemote, TypeOK, StoreTypeOK
  <2>3. batch' \in [Threads -> Ranks]
    BY RanksType DEF TypeOK
  <2> QED BY <1>2, <2>1, <2>2, <2>3 DEF ApplyNext, lockVars, TypeOK
<1> QED BY <1>1, <1>2, PushType, PullType, RealtimeType DEF ThreadStep

LEMMA EnvironmentType ==
  ASSUME TypeOK,
         \/ \E e \in Own : SaveEnqueue(e)
         \/ SaveApply \/ Connect \/ Disconnect \/ Crash \/ Remote
  PROVE  TypeOK'
<1> USE DEF TypeOK, RelayTypeOK, StoreTypeOK
<1>1. ASSUME NEW e \in Own, SaveEnqueue(e)
      PROVE  TypeOK'
  <2>1. Own \subseteq Env /\ saved \in SUBSET Env
    BY DEF Env
  <2>2. Cardinality(saved) + 1 \in Nat
    BY <2>1, CountType, SMTT(30)
  <2> QED BY <1>1, <2>1, <2>2, RanksType DEF SaveEnqueue, Enqueue, relayVars,
             lockVars, threadVars
<1>2. CASE SaveApply
  <2>1. Own \subseteq Env
    BY DEF Env
  <2> QED BY <1>2, <2>1 DEF SaveApply, ApplyRemote, relayVars, lockVars, threadVars
<1>3. CASE Connect
  <2>1. [type |-> "hello", latest |-> latest, epoch |-> epoch] \in Frame
    BY DEF Frame
  <2>2. RelayTypeOK'
    BY <1>3, <2>1 DEF Connect, OpenSocket
  <2> QED BY <1>3, <2>2 DEF Connect, storeVars, lockVars, threadVars, userVars
<1>4. CASE Disconnect
  <2>1. RelayTypeOK'
    BY <1>4, FramesType DEF Disconnect, DropSocket
  <2> QED BY <1>4, <2>1 DEF Disconnect, Fault, storeVars, lockVars, threadVars, userVars
<1>5. CASE Crash
  <2>1. RelayTypeOK' /\ StoreTypeOK'
    BY <1>5, FramesType DEF Crash, DropSocket, storeVars
  <2>2. /\ pc' \in [Threads -> Steps] /\ batch' \in [Threads -> Ranks]
        /\ ids' \in [Threads -> SUBSET Env] /\ tries' \in [Threads -> Nat]
        /\ after' \in [Threads -> Nat] /\ mark' \in [Threads -> Nat]
        /\ more' \in [Threads -> BOOLEAN] /\ seen' \in [Threads -> Nat]
    BY <1>5, RanksType DEF Crash, Steps
  <2> QED BY <1>5, <2>1, <2>2, RanksType DEF Crash, Fault
<1>6. CASE Remote
  <2>1. ASSUME NEW e \in Foreign, ForeignCommit(e)
        PROVE  RelayTypeOK'
    <3>1. e \in Env
      BY DEF Env
    <3>2. [NoRanks EXCEPT ![e] = latest + 1] \in Ranks
      BY <3>1, RanksType
    <3>3. [type |-> "ops", ranks |-> [NoRanks EXCEPT ![e] = latest + 1]] \in Frame
      BY <3>2 DEF Frame
    <3>4. frames' \in Seq(Frame)
      BY <2>1, <3>3, FramesType DEF ForeignCommit
    <3>5. seq' \in Ranks /\ latest' \in Nat
      <4>1. seq' = [seq EXCEPT ![e] = latest + 1] /\ latest' = latest + 1
        BY <2>1 DEF ForeignCommit
      <4>2. latest + 1 \in Nat
        OBVIOUS
      <4> QED BY <3>1, <4>1, <4>2, RanksType
    <3> QED BY <2>1, <3>4, <3>5 DEF ForeignCommit
  <2>2. ASSUME NEW n \in 0 .. latest, RestoreBackup(n)
        PROVE  RelayTypeOK'
    <3>1. seq' \in Ranks /\ latest' \in Nat /\ epoch' \in Nat
      BY <2>2 DEF RestoreBackup, Ranks
    <3>2. frames' = << >> /\ wsUp' = FALSE
      BY <2>2 DEF RestoreBackup
    <3> QED BY <3>1, <3>2, FramesType
  <2> QED BY <1>6, <2>1, <2>2 DEF Remote, storeVars, lockVars, threadVars, userVars
<1> QED BY <1>1, <1>2, <1>3, <1>4, <1>5, <1>6

(***************************************************************************)
(* Every variable keeps its type, whatever the numbers of envelopes,       *)
(* threads, restores and faults.                                           *)
(***************************************************************************)
THEOREM TypeCorrect == Spec => []TypeOK
<1>1. TypeOK /\ [Next]_vars => TypeOK'
  <2> SUFFICES ASSUME TypeOK, [Next]_vars
               PROVE  TypeOK'
    OBVIOUS
  <2>1. CASE UNCHANGED vars
    BY <2>1 DEF vars, relayVars, storeVars, lockVars, threadVars, userVars,
       TypeOK, RelayTypeOK, StoreTypeOK
  <2>2. CASE Next
    BY <2>2, ThreadType, FaultType, EnvironmentType DEF Next
  <2> QED BY <2>1, <2>2
<1> QED BY InitType, <1>1, PTL DEF Spec
-----------------------------------------------------------------------------
(* _rt_lock *)

\* The threads in a step that holds the lock, and the lock's holder, are one.
LockInv == \A t \in Threads : pc[t] \in LockSteps <=> rtLock = t

BufferInv == LockInv /\ RtBufferUnused

LEMMA NoneIsNoThread == None \notin Threads
  BY EngineAssumption

\* A thread moves with the lock as it was, or takes it, or gives it back.
LEMMA LockMoves ==
  ASSUME TypeOK, LockInv, NEW t \in Threads, NEW s \in Steps, Goto(t, s),
         \/ rtLock' = rtLock /\ (pc[t] \in LockSteps <=> s \in LockSteps)
         \/ rtLock = None /\ rtLock' = t /\ s \in LockSteps
         \/ rtLock' = None /\ pc[t] \in LockSteps /\ s \notin LockSteps
  PROVE  LockInv'
<1>1. pc' = [pc EXCEPT ![t] = s] /\ pc \in [Threads -> Steps]
  BY DEF Goto, TypeOK
<1> QED BY <1>1, NoneIsNoThread DEF LockInv

LEMMA LockThread ==
  ASSUME TypeOK, BufferInv, NEW t \in Threads, ThreadStep(t) \/ ThreadFault(t)
  PROVE  BufferInv'
<1> USE LockMoves DEF BufferInv, RtBufferUnused, At
<1>1. \A s \in Steps : s \in LockSteps <=>
         s \notin {"idle", "take", "submit", "park", "ack", "lock", "hello", "helloWipe",
                   "helloSetEpoch", "helloPull", "drainLock", "liveLock"}
  BY DEF Steps, LockSteps, PullSteps
<1>2. /\ {"idle", "take", "submit", "park", "ack", "lock", "hello", "helloWipe",
           "helloSetEpoch", "helloPull", "drainLock", "liveLock"} \subseteq Steps
      /\ {"fetch", "check", "wipe", "setEpoch", "page", "advance", "drain", "live"} \subseteq Steps
  BY DEF Steps, LockSteps, PullSteps
<1>3. CASE StartSync(t) \/ Push(t)
  <2>1. CASE StartSync(t)
    BY <1>1, <1>2, <2>1 DEF StartSync, lockVars
  <2>2. CASE TakeChunk(t)
    <3>1. Goto(t, "lock") \/ Goto(t, "submit")
      BY <2>2 DEF TakeChunk, EndPush
    <3> QED BY <1>1, <1>2, <2>2, <3>1 DEF TakeChunk, lockVars
  <2>3. CASE SubmitTooLarge(t)
    BY <1>1, <1>2, <2>3 DEF SubmitTooLarge, Return, lockVars
  <2>4. CASE SubmitAccepted(t)
    BY <1>1, <1>2, <2>4 DEF SubmitAccepted, lockVars
  <2>5. CASE SubmitRejected(t)
    BY <1>1, <1>2, <2>5 DEF SubmitRejected, lockVars
  <2>6. CASE Quarantine(t)
    BY <1>1, <1>2, <2>6 DEF Quarantine, lockVars
  <2>7. CASE MarkSent(t)
    BY <1>1, <1>2, <2>7 DEF MarkSent, lockVars
  <2> QED BY <1>3, <2>1, <2>2, <2>3, <2>4, <2>5, <2>6, <2>7 DEF Push
<1>4. CASE Pull(t)
  <2>1. CASE PullBegin(t)
    BY <1>1, <1>2, <2>1 DEF PullBegin
  <2>2. CASE FetchPage(t)
    BY <1>1, <1>2, <2>2 DEF FetchPage, lockVars
  <2>3. CASE CheckEpoch(t)
    <3>1. Goto(t, "page") \/ Goto(t, "wipe")
      BY <2>3 DEF CheckEpoch
    <3> QED BY <1>1, <1>2, <2>3, <3>1 DEF CheckEpoch, lockVars
  <2>4. CASE WipeForEpoch(t)
    BY <1>1, <1>2, <2>4 DEF WipeForEpoch, lockVars
  <2>5. CASE AdoptEpoch(t)
    BY <1>1, <1>2, <2>5 DEF AdoptEpoch, lockVars
  <2>6. CASE PageApplied(t)
    BY <1>1, <1>2, <2>6 DEF PageApplied, lockVars
  <2>7. CASE Advance(t)
    <3>1. /\ At(t, "advance") /\ rtLock' = rtLock
          /\ \/ Goto(t, "fetch") /\ rtBuffer' = rtBuffer
             \/ Goto(t, "drain") /\ rtBuffer' = NoRanks
      BY <2>7 DEF Advance
    <3> QED BY <1>1, <1>2, <3>1
  <2>8. CASE Release(t)
    BY <1>1, <1>2, <2>8 DEF Release, Return
  <2> QED BY <1>4, <2>1, <2>2, <2>3, <2>4, <2>5, <2>6, <2>7, <2>8 DEF Pull
<1>5. CASE Realtime(t)
  <2>1. CASE Receive(t)
    <3>1. /\ At(t, "idle") /\ UNCHANGED lockVars
          /\ Goto(t, "hello") \/ Goto(t, "liveLock")
      BY <2>1 DEF Receive
    <3> QED BY <1>1, <1>2, <3>1 DEF lockVars
  <2>2. CASE HelloCheckEpoch(t)
    <3>1. Goto(t, "helloPull") \/ Goto(t, "helloWipe")
      BY <2>2 DEF HelloCheckEpoch
    <3> QED BY <1>1, <1>2, <2>2, <3>1 DEF HelloCheckEpoch, lockVars
  <2>3. CASE HelloWipe(t)
    BY <1>1, <1>2, <2>3 DEF HelloWipe, lockVars
  <2>4. CASE HelloAdoptEpoch(t)
    BY <1>1, <1>2, <2>4 DEF HelloAdoptEpoch, lockVars
  <2>5. CASE HelloPull(t)
    <3>1. Goto(t, "lock") \/ Goto(t, "drainLock")
      BY <2>5 DEF HelloPull
    <3> QED BY <1>1, <1>2, <2>5, <3>1 DEF HelloPull, lockVars
  <2>6. CASE HelloDrain(t)
    BY <1>1, <1>2, <2>6 DEF HelloDrain
  <2>7. CASE LiveFrame(t)
    <3>1. rtLock = None /\ At(t, "liveLock")
      BY <2>7 DEF LiveFrame
    <3>2. ~PullInFlight
      BY <3>1, NoneIsNoThread DEF PullInFlight, LockInv, LockSteps
    <3>3. rtLock' = t /\ Goto(t, "live") /\ rtBuffer' = rtBuffer
      BY <2>7, <3>2 DEF LiveFrame
    <3> QED BY <1>1, <1>2, <3>1, <3>3
  <2> QED BY <1>5, <2>1, <2>2, <2>3, <2>4, <2>5, <2>6, <2>7 DEF Realtime
<1>6. CASE ApplyNext(t)
  BY <1>6 DEF ApplyNext, lockVars, LockInv
<1>7. CASE ThreadFault(t)
  <2>1. CASE SubmitFails(t)
    <3>1. /\ At(t, "submit") /\ UNCHANGED lockVars
          /\ UNCHANGED pc \/ Goto(t, "lock")
      BY <2>1 DEF SubmitFails, EndPush
    <3>2. CASE UNCHANGED pc
      BY <3>1, <3>2 DEF lockVars, LockInv
    <3>3. CASE Goto(t, "lock")
      BY <1>1, <1>2, <3>1, <3>3 DEF lockVars
    <3> QED BY <3>1, <3>2, <3>3
  <2>2. CASE SubmitUnauthorized(t)
    BY <1>1, <1>2, <2>2 DEF SubmitUnauthorized, Return, lockVars
  <2>3. CASE FetchFails(t)
    BY <1>1, <1>2, <2>3 DEF FetchFails, Return
  <2> QED BY <1>7, <2>1, <2>2, <2>3 DEF ThreadFault
<1> QED BY <1>3, <1>4, <1>5, <1>6, <1>7 DEF ThreadStep

LEMMA LockEnvironment ==
  ASSUME BufferInv,
         \/ \E e \in Own : SaveEnqueue(e)
         \/ SaveApply \/ Connect \/ Disconnect \/ Crash \/ Remote
  PROVE  BufferInv'
<1>1. CASE Crash
  <2>1. /\ pc' = [t \in Threads |-> "idle"] /\ rtLock' = None /\ rtBuffer' = NoRanks
    BY <1>1 DEF Crash
  <2>2. "idle" \notin LockSteps
    BY DEF LockSteps, PullSteps
  <2> QED BY <2>1, <2>2, NoneIsNoThread DEF BufferInv, LockInv, RtBufferUnused
<1>2. CASE ~Crash
  <2>1. UNCHANGED <<lockVars, threadVars>>
    BY <1>2 DEF SaveEnqueue, SaveApply, Connect, Disconnect, Remote
  <2> QED BY <2>1 DEF lockVars, threadVars, BufferInv, LockInv, RtBufferUnused
<1> QED BY <1>1, <1>2

LEMMA BufferAlways == Spec => []BufferInv
<1>1. Init => BufferInv
  <2>1. "idle" \notin LockSteps
    BY DEF LockSteps, PullSteps
  <2> QED BY <2>1, NoneIsNoThread DEF Init, ThreadInit, BufferInv, LockInv, RtBufferUnused
<1>2. TypeOK /\ BufferInv /\ [Next]_vars => BufferInv'
  <2> SUFFICES ASSUME TypeOK, BufferInv, [Next]_vars
               PROVE  BufferInv'
    OBVIOUS
  <2>1. CASE UNCHANGED vars
    BY <2>1 DEF vars, lockVars, threadVars, BufferInv, LockInv, RtBufferUnused
  <2>2. CASE Next
    BY <2>2, LockThread, LockEnvironment DEF Next
  <2> QED BY <2>1, <2>2
<1> QED BY <1>1, <1>2, TypeCorrect, PTL DEF Spec

(***************************************************************************)
(* The realtime buffer is never used: whatever the threads do, a live      *)
(* frame that has _rt_lock finds no pull in flight, so _on_rt_ops never    *)
(* sets it aside.                                                          *)
(***************************************************************************)
THEOREM BufferNeverUsed == Spec => []RtBufferUnused
<1>1. BufferInv => RtBufferUnused
  BY DEF BufferInv
<1> QED BY <1>1, BufferAlways, PTL

-----------------------------------------------------------------------------
(* While the server is never restored from backup (MaxRestores = 0), for every set of
   envelopes, every number of workers and faults: nothing saved is lost, the cursor covers
   the log, and the engine implements Delivery. *)

Covered(n) == \A e \in Env : 0 < seq[e] /\ seq[e] <= n => e \in ops \cup passedOver

\* What the thread's locals say of the log, the mirror and the outbox.
ThreadOK(t) ==
  /\ seen[t] = 0
  /\ pc[t] \notin {"wipe", "setEpoch", "helloWipe", "helloSetEpoch"}
  /\ pc[t] \in {"ack", "check", "page", "live", "drain", "liveLock"} =>
       Ranked(batch[t]) \subseteq Committed
  /\ pc[t] = "ack" => ids[t] \subseteq Committed
  /\ pc[t] = "submit" => ids[t] = Ranked(batch[t]) /\ ids[t] \subseteq saved
  /\ pc[t] \in {"fetch", "check", "page", "advance"} =>
       after[t] <= latest /\ Covered(after[t])
  /\ pc[t] \in {"check", "page", "advance"} =>
       /\ mark[t] <= latest
       /\ \A e \in Env : after[t] < seq[e] /\ seq[e] <= mark[t] =>
            e \in Ranked(batch[t]) \cup ops \cup passedOver
  /\ pc[t] = "advance" => Ranked(batch[t]) = {}

FrameOK(x) ==
  /\ x.type = "hello" => x.epoch = 0
  /\ x.type = "ops" => Ranked(x.ranks) \subseteq Committed

FramesOK == \A i \in 1 .. Len(frames) : FrameOK(frames[i])

OutboxOK ==
  /\ Accounted
  /\ editing # None => editing \in saved
  /\ parked \subseteq Ranked(row)
  /\ Ranked(row) \subseteq saved
  /\ Committed \cap Own \subseteq saved

CursorOK ==
  /\ epoch = 0 /\ storedEpoch = 0
  /\ \A e \in Env : seq[e] <= latest
  /\ cursor <= latest
  /\ Covered(cursor)

NoRestoreInv ==
  /\ \A t \in Threads : ThreadOK(t)
  /\ FramesOK
  /\ OutboxOK
  /\ CursorOK

-----------------------------------------------------------------------------
(* Without restores the log, the mirror and the saved set only grow. *)

Grow ==
  /\ Committed \subseteq Committed'
  /\ \A e \in Committed : seq'[e] = seq[e]
  /\ \A e \in Committed' \ Committed : seq'[e] > latest
  /\ latest' >= latest
  /\ ops \subseteq ops'
  /\ passedOver \subseteq passedOver'
  /\ saved \subseteq saved'

\* A step of t leaves the other threads' locals alone.
SameLocals(u) ==
  /\ pc'[u] = pc[u] /\ batch'[u] = batch[u] /\ ids'[u] = ids[u]
  /\ after'[u] = after[u] /\ mark'[u] = mark[u] /\ seen'[u] = seen[u]

Elsewhere(t) == \A u \in Threads \ {t} : SameLocals(u)

LEMMA CoveredStays ==
  ASSUME TypeOK, TypeOK', Grow, NEW n \in Nat, n <= latest, Covered(n)
  PROVE  \A e \in Env : 0 < seq'[e] /\ seq'[e] <= n => e \in ops' \cup passedOver'
<1> SUFFICES ASSUME NEW e \in Env, 0 < seq'[e], seq'[e] <= n
             PROVE  e \in ops' \cup passedOver'
  OBVIOUS
<1>1. /\ seq \in [Env -> Nat] /\ seq' \in [Env -> Nat] /\ latest \in Nat
  BY DEF TypeOK, RelayTypeOK, Ranks
<1>2. e \in Committed
  BY <1>1 DEF Grow, Committed, Ranked
<1>3. seq'[e] = seq[e]
  BY <1>2 DEF Grow
<1> QED BY <1>1, <1>3 DEF Covered, Grow

LEMMA OtherThreads ==
  ASSUME TypeOK, TypeOK', Grow, NEW u \in Threads, SameLocals(u), ThreadOK(u)
  PROVE  ThreadOK(u)'
<1>1. /\ pc'[u] = pc[u] /\ batch'[u] = batch[u] /\ ids'[u] = ids[u]
      /\ after'[u] = after[u] /\ mark'[u] = mark[u] /\ seen'[u] = seen[u]
  BY DEF SameLocals
<1>2. /\ seq \in [Env -> Nat] /\ seq' \in [Env -> Nat] /\ latest \in Nat /\ latest' \in Nat
      /\ after[u] \in Nat /\ mark[u] \in Nat
  BY DEF TypeOK, RelayTypeOK, Ranks
<1>3. pc[u] \in {"fetch", "check", "page", "advance"} =>
        after'[u] <= latest' /\ Covered(after[u])'
  <2> SUFFICES ASSUME pc[u] \in {"fetch", "check", "page", "advance"}
               PROVE  after'[u] <= latest' /\ Covered(after[u])'
    OBVIOUS
  <2>1. after[u] <= latest /\ Covered(after[u])
    BY DEF ThreadOK
  <2>2. \A e \in Env : 0 < seq'[e] /\ seq'[e] <= after[u] => e \in ops' \cup passedOver'
    BY <1>2, <2>1, CoveredStays
  <2>3. after'[u] <= latest'
    BY <1>1, <1>2, <2>1 DEF Grow
  <2> QED BY <1>1, <2>2, <2>3 DEF Covered
<1>4. pc[u] \in {"check", "page", "advance"} =>
        /\ mark'[u] <= latest'
        /\ \A e \in Env : after'[u] < seq'[e] /\ seq'[e] <= mark'[u] =>
             e \in Ranked(batch'[u]) \cup ops' \cup passedOver'
  <2> SUFFICES ASSUME pc[u] \in {"check", "page", "advance"}
               PROVE  /\ mark'[u] <= latest'
                      /\ \A e \in Env : after'[u] < seq'[e] /\ seq'[e] <= mark'[u] =>
                           e \in Ranked(batch'[u]) \cup ops' \cup passedOver'
    OBVIOUS
  <2>1. mark[u] <= latest
    BY DEF ThreadOK
  <2>2. ASSUME NEW e \in Env, after'[u] < seq'[e], seq'[e] <= mark'[u]
        PROVE  e \in Ranked(batch'[u]) \cup ops' \cup passedOver'
    <3>1. e \in Committed
      BY <1>1, <1>2, <2>1, <2>2 DEF Grow, Committed, Ranked
    <3>2. seq'[e] = seq[e]
      BY <3>1 DEF Grow
    <3> QED BY <1>1, <2>2, <3>2 DEF ThreadOK, Grow
  <2> QED BY <1>1, <1>2, <2>1, <2>2 DEF Grow
<1>5. /\ seen'[u] = 0
      /\ pc'[u] \notin {"wipe", "setEpoch", "helloWipe", "helloSetEpoch"}
      /\ pc'[u] \in {"ack", "check", "page", "live", "drain", "liveLock"} =>
           Ranked(batch'[u]) \subseteq Committed'
      /\ pc'[u] = "ack" => ids'[u] \subseteq Committed'
      /\ pc'[u] = "submit" => ids'[u] = Ranked(batch'[u]) /\ ids'[u] \subseteq saved'
      /\ pc'[u] = "advance" => Ranked(batch'[u]) = {}
  BY <1>1 DEF ThreadOK, Grow
<1> QED BY <1>1, <1>3, <1>4, <1>5 DEF ThreadOK, Ranked

LEMMA Combine ==
  ASSUME TypeOK, TypeOK', NoRestoreInv, Grow, NEW t \in Threads, Elsewhere(t),
         ThreadOK(t)', FramesOK', OutboxOK', CursorOK'
  PROVE  NoRestoreInv'
<1>1. ASSUME NEW u \in Threads PROVE ThreadOK(u)'
  <2>1. CASE u = t
    BY <2>1
  <2>2. CASE u # t
    BY <2>2, OtherThreads DEF NoRestoreInv, Elsewhere
  <2> QED BY <2>1, <2>2
<1> QED BY <1>1 DEF NoRestoreInv

\* Frames in flight stay good; a frame is received, sent or dropped.
LEMMA FramesStay ==
  ASSUME TypeOK, Grow, FramesOK, NEW x \in Frame,
         \/ frames' = frames
         \/ frames # << >> /\ frames' = Tail(frames)
         \/ frames' = << >>
         \/ frames' = <<x>> /\ FrameOK(x)'
         \/ frames' = Append(frames, x) /\ FrameOK(x)'
  PROVE  FramesOK'
<1>1. frames \in Seq(Frame)
  BY DEF TypeOK, RelayTypeOK
<1>2. ASSUME NEW y, FrameOK(y)
      PROVE  /\ y.type = "hello" => y.epoch = 0
             /\ y.type = "ops" => Ranked(y.ranks) \subseteq Committed'
  BY <1>2 DEF FrameOK, Grow
<1>3. ASSUME NEW i \in 1 .. Len(frames')
      PROVE  FrameOK(frames[i])'
  <2>1. \/ \E j \in 1 .. Len(frames) : frames'[i] = frames[j]
        \/ frames'[i] = x /\ FrameOK(x)'
    <3>1. CASE frames' = frames
      BY <3>1
    <3>2. CASE frames # << >> /\ frames' = Tail(frames)
      <4>1. i + 1 \in 1 .. Len(frames) /\ frames'[i] = frames[i + 1]
        BY <1>1, <3>2
      <4> QED BY <4>1
    <3>3. CASE frames' = << >>
      BY <3>3
    <3>4. CASE frames' = <<x>> /\ FrameOK(x)'
      BY <3>4
    <3>5. CASE frames' = Append(frames, x) /\ FrameOK(x)'
      BY <1>1, <3>5
    <3> QED BY <3>1, <3>2, <3>3, <3>4, <3>5
  <2>2. CASE frames'[i] = x /\ FrameOK(x)'
    BY <2>2 DEF FrameOK
  <2>3. ASSUME NEW j \in 1 .. Len(frames), frames'[i] = frames[j]
        PROVE  FrameOK(frames[i])'
    BY <1>2, <2>3 DEF FramesOK, FrameOK, Ranked
  <2> QED BY <2>1, <2>2, <2>3
<1> QED BY <1>3 DEF FramesOK

LEMMA QuietGrows ==
  ASSUME TypeOK, seq' = seq, latest' = latest,
         ops \subseteq ops', passedOver \subseteq passedOver', saved \subseteq saved'
  PROVE  Grow /\ Committed' = Committed
<1>1. Committed' = Committed
  BY DEF Committed, Ranked
<1>2. latest \in Nat
  BY DEF TypeOK, RelayTypeOK
<1> QED BY <1>1, <1>2 DEF Grow

\* A step that changes only its thread's locals.
LEMMA CalmStep ==
  ASSUME TypeOK, TypeOK', NoRestoreInv, NEW t \in Threads, Elsewhere(t),
         UNCHANGED <<relayVars, storeVars, userVars>>, ThreadOK(t)'
  PROVE  NoRestoreInv'
<1> USE DEF relayVars, storeVars, userVars
<1>1. Grow
  BY QuietGrows
<1>2. FramesOK' /\ OutboxOK' /\ CursorOK'
  BY DEF NoRestoreInv, FramesOK, FrameOK, OutboxOK, Accounted, CursorOK, Covered,
         Committed, Ranked
<1> QED BY <1>1, <1>2, Combine
-----------------------------------------------------------------------------
(* push *)

\* The relay commits t's batch, whatever t does next.
LEMMA CommitKeeps ==
  ASSUME TypeOK, TypeOK', NoRestoreInv, NEW t \in Threads, At(t, "submit"),
         CommitBatch(batch[t]), UNCHANGED <<storeVars, userVars>>
  PROVE  /\ Grow /\ FramesOK' /\ OutboxOK' /\ CursorOK'
         /\ Committed' = Committed \cup Ranked(batch[t])
<1>1. RelayTypeOK /\ batch[t] \in Ranks /\ latest \in Nat /\ cursor \in Nat
  BY DEF TypeOK, RelayTypeOK, StoreTypeOK
<1>2. /\ Committed' = Committed \cup Ranked(batch[t])
      /\ \A e \in Committed : seq'[e] = seq[e]
      /\ \A e \in Ranked(batch[t]) \ Committed : seq'[e] > latest
      /\ latest' >= latest
      /\ (\A e \in Env : seq[e] <= latest) => \A e \in Env : seq'[e] <= latest'
      /\ \/ frames' = frames
         \/ \E r \in Ranks : /\ frames' = Append(frames, [type |-> "ops", ranks |-> r])
                             /\ Ranked(r) \subseteq Ranked(batch[t])
  BY <1>1, CommitBatchEffect
<1>3. Ranked(batch[t]) \subseteq saved
  BY DEF NoRestoreInv, ThreadOK, At
<1>4. Grow
  BY <1>2 DEF Grow, storeVars, userVars
<1>5. FramesOK'
  <2>1. CASE frames' = frames
    <3>1. [type |-> "hello", latest |-> 0, epoch |-> 0] \in Frame
      BY DEF Frame
    <3> QED BY <2>1, <3>1, <1>4, FramesStay DEF NoRestoreInv
  <2>2. CASE \E r \in Ranks : /\ frames' = Append(frames, [type |-> "ops", ranks |-> r])
                              /\ Ranked(r) \subseteq Ranked(batch[t])
    <3>1. PICK r \in Ranks : /\ frames' = Append(frames, [type |-> "ops", ranks |-> r])
                             /\ Ranked(r) \subseteq Ranked(batch[t])
      BY <2>2
    <3> DEFINE x == [type |-> "ops", ranks |-> r]
    <3>2. x \in Frame
      BY DEF Frame
    <3>3. FrameOK(x)'
      BY <1>2, <3>1 DEF FrameOK
    <3> QED BY <1>4, <3>1, <3>2, <3>3, FramesStay DEF NoRestoreInv
  <2> QED BY <1>2, <2>1, <2>2
<1>6. OutboxOK'
  BY <1>2, <1>3 DEF NoRestoreInv, OutboxOK, Accounted, storeVars, userVars, Ranked
<1>7. CursorOK'
  <2>1. epoch' = epoch
    BY DEF CommitBatch
  <2>2. \A e \in Env : 0 < seq'[e] /\ seq'[e] <= cursor => e \in ops' \cup passedOver'
    BY <1>1, <1>4, CoveredStays DEF NoRestoreInv, CursorOK
  <2>3. cursor' <= latest'
    BY <1>1, <1>2 DEF NoRestoreInv, CursorOK, storeVars, TypeOK, RelayTypeOK
  <2> QED BY <1>2, <2>1, <2>2, <2>3 DEF NoRestoreInv, CursorOK, Covered, storeVars
<1> QED BY <1>2, <1>4, <1>5, <1>6, <1>7

LEMMA PushKeeps ==
  ASSUME TypeOK, TypeOK', NoRestoreInv, NEW t \in Threads, StartSync(t) \/ Push(t)
  PROVE  NoRestoreInv'
<1> USE DEF At, Goto, Load
<1>0. ThreadOK(t)
  BY DEF NoRestoreInv
<1>1. CASE StartSync(t)
  <2>1. Elsewhere(t) /\ ThreadOK(t)'
    BY <1>0, <1>1 DEF StartSync, Elsewhere, SameLocals, ThreadOK, TypeOK
  <2> QED BY <1>1, <2>1, CalmStep DEF StartSync
<1>2. CASE TakeChunk(t)
  <2>1. CASE Ranked(PendingOutbox(ChunkSize)) = {}
    <3>1. Elsewhere(t) /\ ThreadOK(t)'
      BY <1>0, <1>2, <2>1 DEF TakeChunk, EndPush, Elsewhere, SameLocals, ThreadOK, TypeOK
    <3> QED BY <1>2, <3>1, CalmStep DEF TakeChunk
  <2>2. CASE Ranked(PendingOutbox(ChunkSize)) # {}
    <3>1. /\ pc' = [pc EXCEPT ![t] = "submit"]
          /\ batch' = [batch EXCEPT ![t] = PendingOutbox(ChunkSize)]
          /\ ids' = [ids EXCEPT ![t] = Ranked(PendingOutbox(ChunkSize))]
          /\ UNCHANGED <<relayVars, storeVars, after, mark, more, seen, userVars>>
      BY <1>2, <2>2 DEF TakeChunk
    <3>2. Ranked(PendingOutbox(ChunkSize)) \subseteq saved
      BY DEF Ranked, PendingOutbox, Pending, NoRestoreInv, OutboxOK
    <3>3. Elsewhere(t) /\ ThreadOK(t)'
      BY <1>0, <3>1, <3>2 DEF Elsewhere, SameLocals, ThreadOK, TypeOK, storeVars
    <3> QED BY <3>1, <3>3, CalmStep
  <2> QED BY <2>1, <2>2
<1>3. CASE SubmitTooLarge(t)
  <2>1. Elsewhere(t) /\ ThreadOK(t)'
    BY <1>0, <1>3 DEF SubmitTooLarge, Return, Elsewhere, SameLocals, ThreadOK, TypeOK
  <2> QED BY <1>3, <2>1, CalmStep DEF SubmitTooLarge
<1>4. CASE SubmitAccepted(t)
  <2>1. /\ Grow /\ FramesOK' /\ OutboxOK' /\ CursorOK'
        /\ Committed' = Committed \cup Ranked(batch[t])
    BY <1>4, CommitKeeps DEF SubmitAccepted
  <2>2. Elsewhere(t) /\ ThreadOK(t)'
    BY <1>0, <1>4, <2>1 DEF SubmitAccepted, Elsewhere, SameLocals, ThreadOK, TypeOK
  <2> QED BY <2>1, <2>2, Combine
<1>5. CASE SubmitRejected(t)
  <2>1. Elsewhere(t) /\ ThreadOK(t)'
    BY <1>0, <1>5 DEF SubmitRejected, Elsewhere, SameLocals, ThreadOK, TypeOK
  <2> QED BY <1>5, <2>1, CalmStep DEF SubmitRejected
<1>6. CASE Quarantine(t)
  <2>1. UNCHANGED <<relayVars, userVars, row, ops, cursor, storedEpoch, saved>>
    BY <1>6 DEF Quarantine, QuarantineOutbox
  <2>2. Grow
    BY <2>1, QuietGrows DEF relayVars, userVars
  <2>3. Elsewhere(t) /\ ThreadOK(t)'
    BY <1>0, <1>6 DEF Quarantine, Elsewhere, SameLocals, ThreadOK, TypeOK
  <2>4. FramesOK' /\ CursorOK'
    BY <2>1 DEF NoRestoreInv, FramesOK, FrameOK, CursorOK, Covered, relayVars, userVars,
       Committed, Ranked
  <2>5. OutboxOK'
    <3>1. parked' \subseteq Ranked(row)
      BY <1>6 DEF Quarantine, QuarantineOutbox, Pending, NoRestoreInv, OutboxOK
    <3> QED BY <2>1, <3>1 DEF NoRestoreInv, OutboxOK, Accounted, relayVars, userVars,
            Committed, Ranked
  <2> QED BY <2>2, <2>3, <2>4, <2>5, Combine
<1>7. CASE MarkSent(t)
  <2>1. UNCHANGED <<relayVars, userVars, parked, ops, cursor, storedEpoch, saved>>
    BY <1>7 DEF MarkSent, MarkOutboxSent
  <2>2. Grow
    BY <2>1, QuietGrows DEF relayVars, userVars
  <2>3. Elsewhere(t) /\ ThreadOK(t)'
    BY <1>0, <1>7 DEF MarkSent, Elsewhere, SameLocals, ThreadOK, TypeOK
  <2>4. FramesOK' /\ CursorOK'
    BY <2>1 DEF NoRestoreInv, FramesOK, FrameOK, CursorOK, Covered, relayVars, userVars,
       Committed, Ranked
  <2>5. OutboxOK'
    <3>1. ids[t] \subseteq Committed /\ Committed' = Committed
      BY <1>0, <1>7, <2>1 DEF MarkSent, ThreadOK, relayVars, Committed, Ranked
    <3>2. Ranked(row') = Ranked(row) \ (ids[t] \cap Pending)
      BY <1>7 DEF MarkSent, MarkOutboxSent, Ranked
    <3>3. parked \subseteq Ranked(row')
      BY <3>2 DEF Pending, NoRestoreInv, OutboxOK
    <3> QED BY <2>1, <3>1, <3>2, <3>3 DEF NoRestoreInv, OutboxOK, Accounted, userVars, Ranked
  <2> QED BY <2>2, <2>3, <2>4, <2>5, Combine
<1> QED BY <1>1, <1>2, <1>3, <1>4, <1>5, <1>6, <1>7 DEF Push

LEMMA FaultKeeps ==
  ASSUME TypeOK, TypeOK', NoRestoreInv, NEW t \in Threads, ThreadFault(t)
  PROVE  NoRestoreInv'
<1> USE DEF At, Goto, Load
<1>0. ThreadOK(t)
  BY DEF NoRestoreInv
<1>1. CASE SubmitFails(t)
  <2>1. /\ Grow /\ FramesOK' /\ OutboxOK' /\ CursorOK'
        /\ saved' = saved
    <3>1. CASE UNCHANGED relayVars
      <4>1. Grow
        BY <1>1, <3>1, QuietGrows DEF SubmitFails, relayVars, storeVars, userVars
      <4> QED BY <1>1, <3>1, <4>1 DEF SubmitFails, storeVars, userVars, relayVars, NoRestoreInv,
              FramesOK, FrameOK, OutboxOK, Accounted, CursorOK, Covered, Committed, Ranked
    <3>2. CASE CommitBatch(batch[t])
      BY <1>1, <3>2, CommitKeeps DEF SubmitFails, storeVars
    <3> QED BY <1>1, <3>1, <3>2 DEF SubmitFails
  <2>2. Elsewhere(t) /\ ThreadOK(t)'
    <3>1. CASE UNCHANGED <<pc, batch, ids>>
      BY <1>0, <1>1, <2>1, <3>1 DEF SubmitFails, Elsewhere, SameLocals, ThreadOK, TypeOK
    <3>2. CASE EndPush(t)
      BY <1>0, <1>1, <3>2 DEF SubmitFails, EndPush, Elsewhere, SameLocals, ThreadOK, TypeOK
    <3> QED BY <1>1, <3>1, <3>2 DEF SubmitFails
  <2> QED BY <2>1, <2>2, Combine
<1>2. CASE SubmitUnauthorized(t)
  <2>1. Elsewhere(t) /\ ThreadOK(t)'
    BY <1>0, <1>2 DEF SubmitUnauthorized, Return, Elsewhere, SameLocals, ThreadOK, TypeOK
  <2> QED BY <1>2, <2>1, CalmStep DEF SubmitUnauthorized
<1>3. CASE FetchFails(t)
  <2>1. Elsewhere(t) /\ ThreadOK(t)'
    BY <1>0, <1>3 DEF FetchFails, Return, Elsewhere, SameLocals, ThreadOK, TypeOK
  <2> QED BY <1>3, <2>1, CalmStep DEF FetchFails
<1> QED BY <1>1, <1>2, <1>3 DEF ThreadFault

-----------------------------------------------------------------------------
(* pull and the live paths *)

\* What a page brings: envelopes of the log, all those up to its mark.
LEMMA PageCovers ==
  ASSUME TypeOK, NEW n \in Nat, \A e \in Env : seq[e] <= latest
  PROVE  /\ Ranked(Page(n, PageSize)) \subseteq Committed
         /\ NextAfterSeq(n, PageSize) <= latest
         /\ \A e \in Env : n < seq[e] /\ seq[e] <= NextAfterSeq(n, PageSize) =>
              e \in Ranked(Page(n, PageSize))
<1>1. /\ seq \in [Env -> Nat] /\ latest \in Nat /\ PageSize \in Nat
  BY EngineAssumption DEF TypeOK, RelayTypeOK, Ranks
<1> QED BY <1>1 DEF Page, NextAfterSeq, Ranked, Committed

LEMMA PullKeeps ==
  ASSUME TypeOK, TypeOK', BufferInv, NoRestoreInv, NEW t \in Threads, Pull(t)
  PROVE  NoRestoreInv'
<1> USE DEF At, Goto, Load
<1>0. ThreadOK(t) /\ CursorOK
  BY DEF NoRestoreInv
<1>1. CASE PullBegin(t)
  <2>1. Elsewhere(t) /\ ThreadOK(t)'
    BY <1>0, <1>1 DEF PullBegin, Elsewhere, SameLocals, ThreadOK, TypeOK, CursorOK, Covered,
       relayVars, storeVars, userVars
  <2> QED BY <1>1, <2>1, CalmStep DEF PullBegin
<1>2. CASE FetchPage(t)
  <2>1. /\ Ranked(Page(after[t], PageSize)) \subseteq Committed
        /\ NextAfterSeq(after[t], PageSize) <= latest
        /\ \A e \in Env : after[t] < seq[e] /\ seq[e] <= NextAfterSeq(after[t], PageSize) =>
             e \in Ranked(Page(after[t], PageSize))
    BY <1>0, PageCovers DEF TypeOK, CursorOK
  <2>2. /\ pc[t] = "fetch" /\ pc' = [pc EXCEPT ![t] = "check"]
        /\ batch' = [batch EXCEPT ![t] = Page(after[t], PageSize)]
        /\ mark' = [mark EXCEPT ![t] = NextAfterSeq(after[t], PageSize)]
        /\ seen' = [seen EXCEPT ![t] = epoch]
        /\ UNCHANGED <<relayVars, storeVars, ids, after, userVars>>
    BY <1>2 DEF FetchPage
  <2>3. Elsewhere(t) /\ ThreadOK(t)'
    BY <1>0, <2>1, <2>2 DEF Elsewhere, SameLocals, ThreadOK, TypeOK, CursorOK, Covered,
       Committed, Ranked, relayVars, storeVars, userVars
  <2> QED BY <2>2, <2>3, CalmStep
<1>3. CASE CheckEpoch(t)
  <2>1. Goto(t, "page")
    BY <1>0, <1>3 DEF CheckEpoch, ThreadOK, CursorOK
  <2>2. Elsewhere(t) /\ ThreadOK(t)'
    BY <1>0, <1>3, <2>1 DEF CheckEpoch, Elsewhere, SameLocals, ThreadOK, TypeOK, Covered,
       Committed, Ranked, relayVars, storeVars, userVars
  <2> QED BY <1>3, <2>2, CalmStep DEF CheckEpoch
<1>4. CASE WipeForEpoch(t)
  BY <1>0, <1>4 DEF WipeForEpoch, ThreadOK
<1>5. CASE AdoptEpoch(t)
  BY <1>0, <1>5 DEF AdoptEpoch, ThreadOK
<1>6. CASE PageApplied(t)
  <2>1. Elsewhere(t) /\ ThreadOK(t)'
    BY <1>0, <1>6 DEF PageApplied, LoopDone, Elsewhere, SameLocals, ThreadOK, TypeOK, Covered,
       Committed, Ranked, relayVars, storeVars, userVars
  <2> QED BY <1>6, <2>1, CalmStep DEF PageApplied
<1>7. CASE Advance(t)
  <2>1. /\ pc[t] = "advance" /\ UNCHANGED <<relayVars, row, parked, ops, storedEpoch, saved,
                                            ids, mark, seen, userVars>>
        /\ \/ /\ mark[t] > after[t] /\ cursor' = mark[t]
              /\ after' = [after EXCEPT ![t] = mark[t]]
           \/ cursor' = cursor /\ after' = after
        /\ \/ /\ mark[t] > after[t] /\ after' = [after EXCEPT ![t] = mark[t]]
              /\ Goto(t, "fetch") /\ UNCHANGED batch
           \/ Goto(t, "drain") /\ Load(t, NoRanks)
    BY <1>7 DEF Advance, SetCursor, storeVars, BufferInv, RtBufferUnused
  <2>2. /\ mark[t] <= latest /\ Covered(mark[t])
    <3>1. /\ seq \in [Env -> Nat] /\ mark[t] \in Nat /\ after[t] \in Nat
      BY DEF TypeOK, RelayTypeOK, Ranks
    <3> QED BY <1>0, <2>1, <3>1 DEF ThreadOK, Covered
  <2>3. Elsewhere(t) /\ ThreadOK(t)'
    <3>1. Elsewhere(t)
      BY <2>1 DEF Elsewhere, SameLocals, TypeOK
    <3>2. CASE pc' = [pc EXCEPT ![t] = "drain"] /\ batch' = [batch EXCEPT ![t] = NoRanks]
      <4>1. pc'[t] = "drain" /\ batch'[t] = NoRanks /\ seen'[t] = seen[t]
        BY <2>1, <3>2 DEF TypeOK
      <4>2. seen'[t] = 0
        BY <1>0, <4>1 DEF ThreadOK
      <4>3. Ranked(NoRanks) = {}
        BY DEF Ranked, NoRanks
      <4> QED BY <3>1, <4>1, <4>2, <4>3 DEF ThreadOK
    <3>3. CASE /\ after' = [after EXCEPT ![t] = mark[t]]
               /\ pc' = [pc EXCEPT ![t] = "fetch"] /\ UNCHANGED batch
      <4>1. pc'[t] = "fetch" /\ after'[t] = mark[t] /\ seen'[t] = seen[t]
        BY <2>1, <3>3 DEF TypeOK
      <4>2. after'[t] <= latest' /\ Covered(after[t])'
        BY <2>1, <2>2, <4>1 DEF Covered, relayVars, userVars
      <4>3. seen'[t] = 0
        BY <1>0, <4>1 DEF ThreadOK
      <4> QED BY <3>1, <4>1, <4>2, <4>3 DEF ThreadOK
    <3> QED BY <2>1, <3>1, <3>2, <3>3
  <2>4. Grow
    BY <2>1, QuietGrows DEF relayVars, userVars
  <2>5. FramesOK' /\ OutboxOK' /\ CursorOK'
    BY <1>0, <2>1, <2>2 DEF NoRestoreInv, FramesOK, FrameOK, OutboxOK, Accounted, CursorOK,
       Covered, Committed, Ranked, relayVars, userVars
  <2> QED BY <2>3, <2>4, <2>5, Combine
<1>8. CASE Release(t)
  <2>1. Elsewhere(t) /\ ThreadOK(t)'
    BY <1>0, <1>8 DEF Release, Return, Elsewhere, SameLocals, ThreadOK, TypeOK
  <2> QED BY <1>8, <2>1, CalmStep DEF Release
<1> QED BY <1>1, <1>2, <1>3, <1>4, <1>5, <1>6, <1>7, <1>8 DEF Pull

LEMMA RealtimeKeeps ==
  ASSUME TypeOK, TypeOK', BufferInv, NoRestoreInv, NEW t \in Threads, Realtime(t)
  PROVE  NoRestoreInv'
<1> USE DEF At, Goto, Load
<1>0. ThreadOK(t) /\ CursorOK
  BY DEF NoRestoreInv
<1>1. CASE Receive(t)
  <2>1. /\ frames # << >> /\ frames' = Tail(frames) /\ frames \in Seq(Frame)
        /\ UNCHANGED <<seq, latest, epoch, storeVars, ids, after, userVars>>
    BY <1>1 DEF Receive, TypeOK, RelayTypeOK
  <2>2. FrameOK(Head(frames)) /\ Head(frames) \in Frame
    <3>1. Head(frames) = frames[1] /\ 1 \in 1 .. Len(frames)
      BY <2>1
    <3> QED BY <2>1, <3>1 DEF NoRestoreInv, FramesOK
  <2>3. Grow
    BY <2>1, QuietGrows DEF storeVars, userVars
  <2>4. FramesOK'
    <3>1. [type |-> "hello", latest |-> 0, epoch |-> 0] \in Frame
      BY DEF Frame
    <3> QED BY <2>1, <2>3, <3>1, FramesStay DEF NoRestoreInv
  <2>5. OutboxOK' /\ CursorOK'
    BY <2>1 DEF NoRestoreInv, OutboxOK, Accounted, CursorOK, Covered, storeVars, userVars,
       Committed, Ranked
  <2>6. Elsewhere(t) /\ ThreadOK(t)'
    <3>1. CASE Head(frames).type = "hello"
      <4>1. /\ mark' = [mark EXCEPT ![t] = Head(frames).latest]
            /\ seen' = [seen EXCEPT ![t] = 0]
            /\ pc' = [pc EXCEPT ![t] = "hello"] /\ batch' = batch
        BY <1>1, <2>2, <3>1 DEF Receive, FrameOK
      <4> QED BY <2>1, <4>1 DEF Elsewhere, SameLocals, ThreadOK, TypeOK
    <3>2. CASE Head(frames).type # "hello"
      <4>1. /\ batch' = [batch EXCEPT ![t] = Head(frames).ranks]
            /\ pc' = [pc EXCEPT ![t] = "liveLock"] /\ UNCHANGED <<mark, seen>>
        BY <1>1, <3>2 DEF Receive
      <4>2. Head(frames).type = "ops"
        BY <2>2, <3>2 DEF Frame
      <4>3. Ranked(Head(frames).ranks) \subseteq Committed /\ Committed' = Committed
        BY <2>1, <2>2, <4>2 DEF FrameOK, Committed, Ranked
      <4> QED BY <1>0, <2>1, <4>1, <4>3 DEF Elsewhere, SameLocals, ThreadOK, TypeOK
    <3> QED BY <3>1, <3>2
  <2> QED BY <2>3, <2>4, <2>5, <2>6, Combine
<1>2. CASE HelloCheckEpoch(t)
  <2>1. Goto(t, "helloPull")
    BY <1>0, <1>2 DEF HelloCheckEpoch, ThreadOK, CursorOK
  <2>2. Elsewhere(t) /\ ThreadOK(t)'
    BY <1>0, <1>2, <2>1 DEF HelloCheckEpoch, Elsewhere, SameLocals, ThreadOK, TypeOK
  <2> QED BY <1>2, <2>2, CalmStep DEF HelloCheckEpoch
<1>3. CASE HelloWipe(t)
  BY <1>0, <1>3 DEF HelloWipe, ThreadOK
<1>4. CASE HelloAdoptEpoch(t)
  BY <1>0, <1>4 DEF HelloAdoptEpoch, ThreadOK
<1>5. CASE HelloPull(t)
  <2>1. Goto(t, "lock") \/ Goto(t, "drainLock")
    BY <1>5 DEF HelloPull
  <2>2. Elsewhere(t) /\ ThreadOK(t)'
    BY <1>0, <1>5, <2>1 DEF HelloPull, Elsewhere, SameLocals, ThreadOK, TypeOK
  <2> QED BY <1>5, <2>2, CalmStep DEF HelloPull
<1>6. CASE HelloDrain(t)
  <2>1. pc' = [pc EXCEPT ![t] = "drain"] /\ batch' = [batch EXCEPT ![t] = NoRanks]
    BY <1>6 DEF HelloDrain, BufferInv, RtBufferUnused
  <2>2. Ranked(NoRanks) = {}
    BY DEF Ranked, NoRanks
  <2>3. Elsewhere(t) /\ ThreadOK(t)'
    BY <1>0, <1>6, <2>1, <2>2 DEF HelloDrain, Elsewhere, SameLocals, ThreadOK, TypeOK
  <2> QED BY <1>6, <2>3, CalmStep DEF HelloDrain
<1>7. CASE LiveFrame(t)
  <2>1. ~PullInFlight
    BY <1>7, NoneIsNoThread DEF LiveFrame, PullInFlight, BufferInv, LockInv, LockSteps
  <2>2. /\ pc[t] = "liveLock" /\ pc' = [pc EXCEPT ![t] = "live"]
        /\ UNCHANGED <<relayVars, storeVars, userVars, batch, ids, after, mark, seen>>
    BY <1>7, <2>1 DEF LiveFrame
  <2>3. Elsewhere(t) /\ ThreadOK(t)'
    BY <1>0, <2>2 DEF Elsewhere, SameLocals, ThreadOK, TypeOK, relayVars, Committed, Ranked
  <2> QED BY <2>2, <2>3, CalmStep
<1> QED BY <1>1, <1>2, <1>3, <1>4, <1>5, <1>6, <1>7 DEF Realtime

LEMMA ApplyKeeps ==
  ASSUME TypeOK, TypeOK', NoRestoreInv, NEW t \in Threads, ApplyNext(t)
  PROVE  NoRestoreInv'
<1>0. ThreadOK(t)
  BY DEF NoRestoreInv
<1> PICK e \in Env :
      /\ IsFirst(batch[t], e) /\ ApplyRemote(e)
      /\ batch' = [batch EXCEPT ![t][e] = 0]
      /\ passedOver' = IF At(t, "page") /\ ~Applicable(e) THEN passedOver \cup {e} ELSE passedOver
  BY DEF ApplyNext
<1>1. /\ UNCHANGED <<relayVars, row, parked, cursor, storedEpoch, saved, editing>>
      /\ UNCHANGED <<pc, ids, after, mark, seen>>
      /\ pc[t] \in {"ack", "page", "live", "drain"}
  BY DEF ApplyNext, ApplyRemote
<1>2. e \in Ranked(batch[t]) /\ e \in Committed
  BY <1>0, <1>1 DEF IsFirst, ThreadOK
<1>3. ops \subseteq ops' /\ ops' \subseteq ops \cup {e} /\ passedOver \subseteq passedOver'
  BY DEF ApplyRemote
<1>4. At(t, "page") => e \in ops' \cup passedOver'
  BY DEF ApplyRemote
<1>5. Grow /\ Committed' = Committed
  BY <1>1, <1>3, QuietGrows DEF relayVars
<1>6. Ranked(batch'[t]) = Ranked(batch[t]) \ {e}
  BY DEF TypeOK, Ranks, Ranked
<1>7. Elsewhere(t)
  BY <1>1 DEF Elsewhere, SameLocals, TypeOK
<1>8. ThreadOK(t)'
  <2>1. /\ pc'[t] = pc[t] /\ seen'[t] = seen[t] /\ ids'[t] = ids[t] /\ after'[t] = after[t]
        /\ mark'[t] = mark[t] /\ seq' = seq /\ latest' = latest
    BY <1>1 DEF relayVars
  <2>2. CASE pc[t] = "page"
    <3>1. \A d \in Env : after[t] < seq[d] /\ seq[d] <= mark[t] =>
            d \in Ranked(batch'[t]) \cup ops' \cup passedOver'
      BY <1>0, <1>3, <1>4, <1>6, <2>2 DEF ThreadOK, At
    <3>2. Covered(after[t])'
      BY <1>0, <1>3, <2>1, <2>2 DEF ThreadOK, Covered
    <3> QED BY <1>0, <1>5, <1>6, <2>1, <2>2, <3>1, <3>2 DEF ThreadOK
  <2>3. CASE pc[t] # "page"
    BY <1>0, <1>1, <1>5, <1>6, <2>1, <2>3 DEF ThreadOK
  <2> QED BY <2>2, <2>3
<1>9. FramesOK' /\ OutboxOK'
  BY <1>1, <1>2, <1>3, <1>5 DEF NoRestoreInv, FramesOK, FrameOK, OutboxOK, Accounted,
     relayVars, Ranked
<1>10. CursorOK'
  BY <1>1, <1>3 DEF NoRestoreInv, CursorOK, Covered, relayVars
<1> QED BY <1>5, <1>7, <1>8, <1>9, <1>10, Combine

\* A step of the environment: every thread's locals stay.
LEMMA AllThreads ==
  ASSUME TypeOK, TypeOK', NoRestoreInv, Grow, UNCHANGED threadVars,
         FramesOK', OutboxOK', CursorOK'
  PROVE  NoRestoreInv'
<1>1. ASSUME NEW u \in Threads PROVE ThreadOK(u)'
  <2>1. SameLocals(u)
    BY DEF SameLocals, threadVars
  <2> QED BY <2>1, OtherThreads DEF NoRestoreInv
<1> QED BY <1>1 DEF NoRestoreInv

LEMMA UserKeeps ==
  ASSUME TypeOK, TypeOK', NoRestoreInv, (\E e \in Own : SaveEnqueue(e)) \/ SaveApply
  PROVE  NoRestoreInv'
<1>1. ASSUME NEW e \in Own, SaveEnqueue(e) PROVE NoRestoreInv'
  <2>1. /\ UNCHANGED <<relayVars, threadVars, passedOver, parked, ops, cursor, storedEpoch>>
        /\ saved' = saved \cup {e} /\ row' = [row EXCEPT ![e] = Cardinality(saved) + 1]
        /\ editing' = e
    BY <1>1 DEF SaveEnqueue, Enqueue
  <2>2. Ranked(row') = Ranked(row) \cup {e}
    <3>1. Own \subseteq Env /\ saved \in SUBSET Env
      BY DEF Env, TypeOK, StoreTypeOK
    <3>2. Cardinality(saved) \in Nat /\ row \in [Env -> Nat]
      BY <3>1, CountType DEF TypeOK, StoreTypeOK, Ranks
    <3>3. Cardinality(saved) + 1 > 0 /\ row'[e] = Cardinality(saved) + 1
      BY <2>1, <3>1, <3>2
    <3>4. \A d \in Env : d # e => row'[d] = row[d]
      BY <2>1, <3>2
    <3> QED BY <3>1, <3>3, <3>4 DEF Ranked
  <2>3. Grow /\ Committed' = Committed
    BY <2>1, QuietGrows DEF relayVars
  <2>4. FramesOK' /\ CursorOK'
    BY <2>1 DEF NoRestoreInv, FramesOK, FrameOK, CursorOK, Covered, Committed, Ranked,
       relayVars
  <2>5. OutboxOK'
    BY <2>1, <2>2, <2>3 DEF NoRestoreInv, OutboxOK, Accounted, Ranked
  <2> QED BY <2>1, <2>3, <2>4, <2>5, AllThreads
<1>2. ASSUME SaveApply PROVE NoRestoreInv'
  <2>1. /\ UNCHANGED <<relayVars, threadVars, passedOver, row, parked, saved, cursor, storedEpoch>>
        /\ ops \subseteq ops' /\ ops' \subseteq ops \cup {editing} /\ editing' = None
        /\ editing # None
    BY <1>2 DEF SaveApply, ApplyRemote
  <2>2. Grow /\ Committed' = Committed
    BY <2>1, QuietGrows DEF relayVars
  <2>3. FramesOK' /\ CursorOK'
    BY <2>1 DEF NoRestoreInv, FramesOK, FrameOK, CursorOK, Covered, Committed, Ranked,
       relayVars
  <2>4. OutboxOK'
    BY <2>1, <2>2 DEF NoRestoreInv, OutboxOK, Accounted, Ranked
  <2> QED BY <2>1, <2>2, <2>3, <2>4, AllThreads
<1> QED BY <1>1, <1>2

LEMMA SocketKeeps ==
  ASSUME TypeOK, TypeOK', NoRestoreInv, Connect \/ Disconnect \/ Crash
  PROVE  NoRestoreInv'
<1>0. [type |-> "hello", latest |-> latest, epoch |-> epoch] \in Frame
  BY DEF Frame, TypeOK, RelayTypeOK
<1> PICK hello \in Frame : hello = [type |-> "hello", latest |-> latest, epoch |-> epoch]
  BY <1>0
<1>1. /\ UNCHANGED <<seq, latest, epoch, storeVars, passedOver>>
      /\ frames' = << >> \/ frames' = <<hello>>
      /\ editing' = editing \/ editing' = None
  BY DEF Connect, OpenSocket, Disconnect, DropSocket, Crash, userVars
<1>2. Grow
  BY <1>1, QuietGrows DEF storeVars
<1>3. FramesOK'
  <2>1. FrameOK(hello)'
    BY <1>1 DEF FrameOK, NoRestoreInv, CursorOK
  <2> QED BY <1>1, <1>2, <2>1, FramesStay DEF NoRestoreInv
<1>4. OutboxOK' /\ CursorOK'
  BY <1>1 DEF NoRestoreInv, OutboxOK, Accounted, CursorOK, Covered, Committed, Ranked,
     storeVars
<1>5. CASE Crash
  <2>1. ASSUME NEW u \in Threads PROVE ThreadOK(u)'
    <3>1. pc'[u] = "idle" /\ seen'[u] = 0
      BY <1>5 DEF Crash
    <3> QED BY <3>1 DEF ThreadOK
  <2> QED BY <1>3, <1>4, <2>1 DEF NoRestoreInv
<1>6. CASE Connect \/ Disconnect
  <2>1. UNCHANGED threadVars
    BY <1>6 DEF Connect, Disconnect
  <2> QED BY <1>2, <1>3, <1>4, <2>1, AllThreads
<1> QED BY <1>5, <1>6

LEMMA RemoteKeeps ==
  ASSUME epoch' = 0, TypeOK, TypeOK', NoRestoreInv, Remote
  PROVE  NoRestoreInv'
<1>1. ASSUME NEW n \in 0 .. latest, RestoreBackup(n) PROVE FALSE
  BY <1>1 DEF RestoreBackup, NoRestoreInv, CursorOK
<1> PICK e \in Foreign : ForeignCommit(e)
  BY <1>1 DEF Remote
<1>2. UNCHANGED <<epoch, storeVars, threadVars, userVars>>
  BY DEF Remote, ForeignCommit
<1>3. /\ seq \in [Env -> Nat] /\ latest \in Nat /\ e \in Env /\ e \notin Own /\ seq[e] = 0
      /\ cursor \in Nat
  <2>1. /\ seq \in [Env -> Nat] /\ latest \in Nat /\ cursor \in Nat
    BY DEF TypeOK, RelayTypeOK, StoreTypeOK, Ranks
  <2>2. e \in Env /\ e \notin Own
    BY EnvAssumption DEF Env
  <2>3. e \notin Committed
    BY DEF ForeignCommit
  <2> QED BY <2>1, <2>2, <2>3 DEF Committed, Ranked
<1>4. seq' = [seq EXCEPT ![e] = latest + 1] /\ latest' = latest + 1
  BY DEF ForeignCommit
<1>5. Committed' = Committed \cup {e}
  BY <1>3, <1>4 DEF Committed, Ranked
<1>6. Grow
  BY <1>2, <1>3, <1>4, <1>5 DEF Grow, storeVars, userVars, Committed, Ranked
<1>7. FramesOK'
  <2>1. [NoRanks EXCEPT ![e] = latest + 1] \in Ranks
    BY <1>3, RanksType
  <2>2. [type |-> "ops", ranks |-> [NoRanks EXCEPT ![e] = latest + 1]] \in Frame
    BY <2>1 DEF Frame
  <2> PICK x \in Frame : x = [type |-> "ops", ranks |-> [NoRanks EXCEPT ![e] = latest + 1]]
    BY <2>2
  <2>3. Ranked([NoRanks EXCEPT ![e] = latest + 1]) \subseteq {e}
    BY DEF Ranked, NoRanks
  <2>4. FrameOK(x)'
    BY <1>5, <2>3 DEF FrameOK, Ranked
  <2>5. frames' = frames \/ frames' = Append(frames, x)
    BY DEF ForeignCommit
  <2> QED BY <1>6, <2>4, <2>5, FramesStay DEF NoRestoreInv
<1>8. OutboxOK'
  BY <1>2, <1>3, <1>5 DEF NoRestoreInv, OutboxOK, Accounted, storeVars, userVars, Ranked
<1>9. CursorOK'
  <2>1. \A d \in Env : 0 < seq'[d] /\ seq'[d] <= cursor => d \in ops' \cup passedOver'
    BY <1>3, <1>6, CoveredStays DEF NoRestoreInv, CursorOK
  <2>2. \A d \in Env : seq'[d] <= latest'
    BY <1>3, <1>4 DEF NoRestoreInv, CursorOK
  <2> QED BY <1>2, <1>3, <1>4, <2>1, <2>2 DEF NoRestoreInv, CursorOK, Covered, storeVars
<1> QED BY <1>2, <1>6, <1>7, <1>8, <1>9, AllThreads

LEMMA NoRestoreInit == Init => NoRestoreInv
<1> SUFFICES ASSUME Init PROVE NoRestoreInv
  OBVIOUS
<1> USE DEF Init, RelayInit, StoreInit
<1>1. \A t \in Threads : ThreadOK(t)
  BY DEF ThreadInit, ThreadOK
<1>2. FramesOK
  BY DEF FramesOK
<1>3. Committed = {} /\ Ranked(row) = {} /\ \A e \in Env : seq[e] = 0
  BY DEF Committed, Ranked, NoRanks
<1>4. OutboxOK /\ CursorOK
  BY <1>3 DEF OutboxOK, Accounted, CursorOK, Covered
<1> QED BY <1>1, <1>2, <1>4 DEF NoRestoreInv

LEMMA NoRestoreStep ==
  ASSUME epoch' = 0, TypeOK, TypeOK', BufferInv, NoRestoreInv, [Next]_vars
  PROVE  NoRestoreInv'
<1>1. CASE UNCHANGED vars
  BY <1>1 DEF vars, relayVars, storeVars, lockVars, threadVars, userVars, NoRestoreInv,
     ThreadOK, FramesOK, FrameOK, OutboxOK, Accounted, CursorOK, Covered, Committed, Ranked
<1>2. CASE Next
  BY <1>2, PushKeeps, PullKeeps, RealtimeKeeps, ApplyKeeps, FaultKeeps, UserKeeps,
     SocketKeeps, RemoteKeeps DEF Next, ThreadStep
<1> QED BY <1>1, <1>2

\* Only a restore changes the epoch, and it never goes back.
LEMMA EpochMoves ==
  ASSUME TypeOK, [Next]_vars
  PROVE  epoch' = epoch \/ (epoch' = epoch + 1 /\ epoch < MaxRestores)
<1> USE DEF relayVars
<1>1. CASE UNCHANGED vars
  BY <1>1 DEF vars
<1>2. CASE Remote
  BY <1>2 DEF Remote, ForeignCommit, RestoreBackup
<1>3. CASE SaveApply \/ Connect \/ Disconnect \/ Crash \/ \E e \in Own : SaveEnqueue(e)
  BY <1>3 DEF SaveApply, SaveEnqueue, Connect, OpenSocket, Disconnect, DropSocket, Crash
<1>4. ASSUME NEW t \in Threads, Push(t) \/ SubmitFails(t) \/ SubmitUnauthorized(t) \/ FetchFails(t)
      PROVE  epoch' = epoch
  BY <1>4 DEF Push, TakeChunk, SubmitTooLarge, SubmitAccepted, CommitBatch, SubmitRejected,
     Quarantine, MarkSent, SubmitFails, SubmitUnauthorized, FetchFails
<1>5. ASSUME NEW t \in Threads, StartSync(t) \/ Pull(t) \/ Realtime(t) \/ ApplyNext(t)
      PROVE  epoch' = epoch
  BY <1>5 DEF StartSync, ApplyNext, Pull, PullBegin, FetchPage, CheckEpoch, WipeForEpoch, AdoptEpoch,
     PageApplied, Advance, Release, Realtime, Receive, HelloCheckEpoch, HelloWipe, HelloAdoptEpoch,
     HelloPull, HelloDrain, LiveFrame
<1> QED BY <1>1, <1>2, <1>3, <1>4, <1>5 DEF Next, ThreadStep, ThreadFault

Unrestored == epoch = 0

LEMMA UntilRestore == Spec => [](Unrestored => NoRestoreInv)
<1>1. TypeOK /\ [Next]_vars => (Unrestored' => Unrestored)
  BY EpochMoves DEF TypeOK, RelayTypeOK, Unrestored
<1>2. TypeOK /\ TypeOK' /\ BufferInv /\ (Unrestored => NoRestoreInv) /\ [Next]_vars
        => (Unrestored' => NoRestoreInv')
  BY <1>1, NoRestoreStep DEF Unrestored
<1>3. Init => (Unrestored => NoRestoreInv)
  BY NoRestoreInit
<1> QED BY <1>2, <1>3, TypeCorrect, BufferAlways, PTL DEF Spec

LEMMA NoRestoreAlways ==
  ASSUME MaxRestores = 0
  PROVE  Spec => []NoRestoreInv
<1>1. Init => Unrestored
  BY DEF Init, RelayInit, Unrestored
<1>2. TypeOK /\ Unrestored /\ [Next]_vars => Unrestored'
  BY EpochMoves DEF Unrestored
<1> QED BY <1>1, <1>2, TypeCorrect, UntilRestore, PTL DEF Spec

(***************************************************************************)
(* While the server is never restored, no edit is lost: whatever was saved *)
(* or shown is in the relay's log or has an outbox row, through crashes,   *)
(* lost answers, repeated submits and any number of concurrent pushes.     *)
(***************************************************************************)
THEOREM NothingLost ==
  ASSUME MaxRestores = 0
  PROVE  Spec => []Accounted
<1>1. NoRestoreInv => Accounted
  BY DEF NoRestoreInv, OutboxOK
<1> QED BY <1>1, NoRestoreAlways, PTL

(***************************************************************************)
(* While the server is never restored, the cursor passes over no envelope  *)
(* the mirror has not applied or refused, with any number of pulls, live   *)
(* frames, crashes and failed fetches.                                     *)
(***************************************************************************)
THEOREM CursorCovers ==
  ASSUME MaxRestores = 0
  PROVE  Spec => []CursorCoverage
<1>1. NoRestoreInv => CursorCoverage
  BY DEF NoRestoreInv, CursorOK, Covered, CursorCoverage
<1> QED BY <1>1, NoRestoreAlways, PTL

(***************************************************************************)
(* The same of every server, up to its first restore.                      *)
(***************************************************************************)
THEOREM NothingLostUntilRestored == Spec => [](epoch = 0 => Accounted /\ CursorCoverage)
<1>1. (Unrestored => NoRestoreInv) => (epoch = 0 => Accounted /\ CursorCoverage)
  BY DEF Unrestored, NoRestoreInv, OutboxOK, CursorOK, Covered, CursorCoverage
<1> QED BY <1>1, UntilRestore, PTL

-----------------------------------------------------------------------------
(* The order of the log.  A saved edit's row is above the rows of what it needs, and so
   is its place in a chunk under way; what it needs and has no row is on the relay or
   quarantined. *)

RowsRise ==
  /\ \A e \in Env : row[e] <= Cardinality(saved)
  /\ \A e \in saved \ Committed : \A d \in Dep[e] :
       d \in Committed \cup parked \/ (0 < row[d] /\ row[d] < row[e])

LogCausal ==
  \A e \in Committed : \A d \in Dep[e] : d \in parked \/ (d \in Committed /\ seq[d] < seq[e])

ChunkCausal(t) ==
  At(t, "submit") =>
    \A e \in Ranked(batch[t]) \ Committed :
      batch[t][e] = row[e] /\ Dep[e] \subseteq Committed \cup parked \cup Ranked(batch[t])

CausalInv == RowsRise /\ LogCausal /\ \A t \in Threads : ChunkCausal(t)

LEMMA DepFacts ==
  /\ \A e \in Env : Dep[e] \in SUBSET Env
  /\ Own \subseteq Env /\ Foreign \subseteq Env
  BY EnvAssumption DEF Env

\* What a batch adds to the log it adds in its own order.
LEMMA CommitBatchOrders ==
  ASSUME RelayTypeOK, NEW bt \in Ranks, CommitBatch(bt),
         NEW d \in Ranked(bt) \ Committed, NEW e \in Ranked(bt) \ Committed, bt[d] < bt[e]
  PROVE  seq'[d] < seq'[e]
<1> DEFINE new == Ranked(bt) \ Committed
           upTo(x) == {y \in new : bt[y] <= bt[x]}
<1>1. /\ seq'[d] = latest + Cardinality(upTo(d))
      /\ seq'[e] = latest + Cardinality(upTo(e))
  BY DEF CommitBatch, Ranked
<1>2. /\ \A x \in Env : bt[x] \in Nat
      /\ d \in Env /\ e \in Env /\ upTo(d) \in SUBSET Env /\ upTo(e) \in SUBSET Env
  BY DEF Ranks, Ranked
<1>3. upTo(d) \subseteq upTo(e) /\ e \in upTo(e) /\ e \notin upTo(d)
  BY <1>2 DEF Ranked
<1>4. Cardinality(upTo(d)) < Cardinality(upTo(e))
  <2>1. IsFiniteSet(upTo(e)) /\ Cardinality(upTo(e)) \in Nat /\ Cardinality(upTo(d)) \in Nat
    BY <1>2, CountType
  <2>2. upTo(d) # upTo(e)
    BY <1>3
  <2> HIDE DEF upTo
  <2>3. Cardinality(upTo(d)) <= Cardinality(upTo(e))
        /\ (Cardinality(upTo(d)) = Cardinality(upTo(e)) => upTo(d) = upTo(e))
    BY <1>3, <2>1, FS_Subset
  <2> QED BY <2>1, <2>2, <2>3
<1>5. Cardinality(upTo(d)) \in Nat /\ Cardinality(upTo(e)) \in Nat /\ latest \in Nat
  BY <1>2, CountType DEF RelayTypeOK
<1> HIDE DEF upTo
<1> QED BY <1>1, <1>4, <1>5

\* A step that moves no row, and loads no chunk for submission.
LEMMA CausalCalm ==
  ASSUME CausalInv, UNCHANGED <<seq, row, parked, saved>>,
         \A t \in Threads : pc'[t] = "submit" => pc[t] = "submit" /\ batch'[t] = batch[t]
  PROVE  CausalInv'
<1>1. Committed' = Committed
  BY DEF Committed, Ranked
<1> QED BY <1>1 DEF CausalInv, RowsRise, LogCausal, ChunkCausal, At, Ranked

LEMMA CausalGoto ==
  ASSUME TypeOK, CausalInv, UNCHANGED <<seq, row, parked, saved>>,
         NEW t \in Threads, NEW step \in Steps \ {"submit"}, Goto(t, step),
         NEW b, batch' = batch \/ Load(t, b)
  PROVE  CausalInv'
<1>1. \A u \in Threads : pc'[u] = "submit" => pc[u] = "submit" /\ batch'[u] = batch[u]
  BY DEF TypeOK, Goto, Load
<1> QED BY <1>1, CausalCalm

LEMMA CausalCommit ==
  ASSUME TypeOK, NoRestoreInv, CausalInv, NEW t \in Threads, At(t, "submit"), CommitBatch(batch[t]),
         UNCHANGED storeVars,
         \A u \in Threads : pc'[u] = "submit" => pc[u] = "submit" /\ batch'[u] = batch[u]
  PROVE  CausalInv'
<1>1. /\ RelayTypeOK /\ batch[t] \in Ranks /\ latest \in Nat /\ seq \in [Env -> Nat]
      /\ UNCHANGED <<row, parked, saved>>
  BY DEF TypeOK, RelayTypeOK, Ranks, storeVars
<1>2. /\ Committed' = Committed \cup Ranked(batch[t])
      /\ \A e \in Committed : seq'[e] = seq[e]
      /\ \A e \in Ranked(batch[t]) \ Committed : seq'[e] > latest
      /\ seq' \in [Env -> Nat]
  BY <1>1, CommitBatchEffect DEF RelayTypeOK, Ranks
<1>3. RowsRise'
  BY <1>1, <1>2 DEF CausalInv, RowsRise
<1>4. \A u \in Threads : ChunkCausal(u)'
  BY <1>1, <1>2 DEF CausalInv, ChunkCausal, At, Ranked
<1>5. ASSUME NEW e \in Committed', NEW d \in Dep[e], d \notin parked
      PROVE  d \in Committed' /\ seq'[d] < seq'[e]
  <2>1. e \in Env /\ d \in Env
    BY DepFacts DEF Committed, Ranked
  <2>2. CASE e \in Committed
    BY <1>2, <1>5, <2>2 DEF CausalInv, LogCausal
  <2>3. CASE e \in Ranked(batch[t]) \ Committed
    <3>1. /\ batch[t][e] = row[e] /\ d \in Committed \cup Ranked(batch[t])
          /\ (d \notin Committed => d \in Ranked(batch[t]) /\ batch[t][d] = row[d])
      BY <1>5, <2>3 DEF CausalInv, ChunkCausal
    <3>2. CASE d \in Committed
      <4>1. seq[d] <= latest
        BY <2>1 DEF NoRestoreInv, CursorOK
      <4>2. seq'[d] = seq[d] /\ seq'[e] > latest /\ seq[d] \in Nat /\ seq'[e] \in Nat
        BY <1>1, <1>2, <2>1, <2>3, <3>2
      <4> QED BY <1>1, <1>2, <3>2, <4>1, <4>2
    <3>3. CASE d \notin Committed
      <4>1. e \in saved
        BY <2>3 DEF NoRestoreInv, ThreadOK, At
      <4>2. row[d] < row[e]
        BY <1>5, <2>3, <3>3, <4>1 DEF CausalInv, RowsRise
      <4>3. seq'[d] < seq'[e]
        BY <1>1, <2>3, <3>1, <3>3, <4>2, CommitBatchOrders
      <4> QED BY <1>2, <3>1, <3>3, <4>3
    <3> QED BY <3>2, <3>3
  <2> QED BY <1>2, <2>2, <2>3
<1> QED BY <1>1, <1>3, <1>4, <1>5 DEF CausalInv, LogCausal

\* A chunk holds, with an edit, what the edit needs and is still pending.
LEMMA CausalTake ==
  ASSUME TypeOK, NoRestoreInv, CausalInv, NEW t \in Threads, TakeChunk(t)
  PROVE  CausalInv'
<1> DEFINE chunk == PendingOutbox(ChunkSize)
           below(e) == {d \in Pending : row[d] < row[e]}
<1>1. /\ UNCHANGED <<seq, row, parked, saved>> /\ row \in [Env -> Nat]
      /\ pc \in [Threads -> Steps] /\ batch \in [Threads -> Ranks]
  BY DEF TakeChunk, TypeOK, StoreTypeOK, Ranks, relayVars, storeVars
<1>2. CASE EndPush(t)
  <2>1. Goto(t, "lock") /\ Load(t, NoRanks)
    BY <1>2 DEF EndPush
  <2> QED BY <1>1, <2>1, CausalGoto DEF Steps
<1>3. ASSUME NEW e \in Env
      PROVE  /\ e \in Ranked(chunk) => chunk[e] = row[e] /\ e \in Pending /\ Cardinality(below(e)) < ChunkSize
             /\ e \in Pending /\ Cardinality(below(e)) < ChunkSize => e \in Ranked(chunk)
  BY <1>1 DEF PendingOutbox, Ranked, Pending
<1>4. CASE Goto(t, "submit") /\ Load(t, chunk)
  <2>1. \A e \in Ranked(chunk) : e \in Env /\ e \in Pending /\ chunk[e] = row[e]
    BY <1>3 DEF Ranked
  <2>2. ASSUME NEW e \in Ranked(chunk) \ Committed, NEW d \in Dep[e], d \notin Committed \cup parked
        PROVE  d \in Ranked(chunk)
    <3>1. e \in Env /\ d \in Env /\ e \in saved /\ e \in Pending
      BY <2>1, DepFacts DEF NoRestoreInv, OutboxOK, Pending
    <3>2. 0 < row[d] /\ row[d] < row[e] /\ d \in Pending
      BY <2>2, <3>1 DEF CausalInv, RowsRise, Pending, Ranked
    <3>3. below(d) \subseteq below(e)
      BY <1>1, <3>1, <3>2 DEF Pending, Ranked
    <3>4. below(d) \in SUBSET Env /\ below(e) \in SUBSET Env
      BY DEF Pending, Ranked
    <3>5. Cardinality(below(e)) < ChunkSize
      BY <1>3, <2>2, <3>1
    <3> HIDE DEF below, chunk
    <3>6. Cardinality(below(d)) <= Cardinality(below(e))
      BY <3>3, <3>4, CountType, FS_Subset
    <3>7. Cardinality(below(d)) < ChunkSize
      BY <3>4, <3>5, <3>6, CountType, EngineAssumption
    <3> QED BY <1>3, <3>1, <3>2, <3>7
  <2>3. pc'[t] = "submit" /\ batch'[t] = chunk
    BY <1>1, <1>4 DEF Goto, Load
  <2>4. \A u \in Threads \ {t} : pc'[u] = pc[u] /\ batch'[u] = batch[u]
    BY <1>1, <1>4 DEF Goto, Load
  <2>5. Committed' = Committed
    BY <1>1 DEF Committed, Ranked
  <2> HIDE DEF chunk
  <2>6. ChunkCausal(t)'
    <3> SUFFICES ASSUME NEW e \in Ranked(chunk) \ Committed
                 PROVE  chunk[e] = row[e] /\ Dep[e] \subseteq Committed \cup parked \cup Ranked(chunk)
      BY <1>1, <2>3, <2>5 DEF ChunkCausal, Ranked
    <3> QED BY <2>1, <2>2
  <2>7. \A u \in Threads \ {t} : ChunkCausal(u)'
    BY <1>1, <2>4, <2>5 DEF CausalInv, ChunkCausal, At, Ranked
  <2> QED BY <1>1, <2>5, <2>6, <2>7 DEF CausalInv, RowsRise, LogCausal
<1> QED BY <1>2, <1>4 DEF TakeChunk

LEMMA CausalSettle ==
  ASSUME TypeOK, NoRestoreInv, CausalInv, NEW t \in Threads, Quarantine(t) \/ MarkSent(t)
  PROVE  CausalInv'
<1>1. /\ UNCHANGED <<seq, saved, batch>> /\ row \in [Env -> Nat] /\ Goto(t, "take")
      /\ parked \subseteq parked' /\ pc \in [Threads -> Steps]
  BY DEF Quarantine, QuarantineOutbox, MarkSent, MarkOutboxSent, TypeOK, StoreTypeOK, Ranks, relayVars
<1>2. /\ \A e \in Env : row'[e] = row[e] \/ (row'[e] = 0 /\ e \in Committed)
      /\ parked' = parked \/ row' = row
  BY DEF Quarantine, QuarantineOutbox, MarkSent, MarkOutboxSent, NoRestoreInv, ThreadOK, At
<1>3. Committed' = Committed
  BY <1>1 DEF Committed, Ranked
<1>4. \A u \in Threads : pc'[u] = "submit" => pc[u] = "submit"
  BY <1>1 DEF Goto
<1>5. RowsRise'
  <2>1. saved \subseteq Env
    BY DEF TypeOK, StoreTypeOK, Env
  <2>2. Cardinality(saved) \in Nat
    BY <2>1, CountType
  <2>3. \A e \in Env : row'[e] <= Cardinality(saved)
    BY <1>1, <1>2, <2>2 DEF CausalInv, RowsRise
  <2>4. ASSUME NEW e \in saved \ Committed, NEW d \in Dep[e], d \notin Committed \cup parked'
        PROVE  0 < row'[d] /\ row'[d] < row'[e]
    <3>1. e \in Env /\ d \in Env
      BY <2>1, DepFacts
    <3>2. 0 < row[d] /\ row[d] < row[e]
      BY <1>1, <2>4 DEF CausalInv, RowsRise
    <3> QED BY <1>2, <2>4, <3>1, <3>2
  <2> QED BY <1>1, <1>3, <2>3, <2>4 DEF RowsRise
<1>6. LogCausal'
  BY <1>1, <1>3 DEF CausalInv, LogCausal
<1>7. ASSUME NEW u \in Threads PROVE ChunkCausal(u)'
  <2> SUFFICES ASSUME pc[u] = "submit", NEW e \in Ranked(batch[u]) \ Committed
               PROVE  batch[u][e] = row'[e] /\ Dep[e] \subseteq Committed \cup parked' \cup Ranked(batch[u])
    BY <1>1, <1>3, <1>4 DEF ChunkCausal, At, Ranked
  <2> QED BY <1>1, <1>2 DEF CausalInv, ChunkCausal, At, Ranked
<1> QED BY <1>5, <1>6, <1>7 DEF CausalInv

LEMMA CausalSave ==
  ASSUME TypeOK, NoRestoreInv, CausalInv, NEW e \in Own, SaveEnqueue(e)
  PROVE  CausalInv'
<1>1. /\ UNCHANGED <<seq, pc, batch, parked>> /\ e \notin saved /\ Dep[e] \subseteq ops
      /\ saved' = saved \cup {e} /\ row' = [row EXCEPT ![e] = Cardinality(saved) + 1]
  BY DEF SaveEnqueue, Enqueue, Applicable, relayVars, threadVars
<1>2. Committed' = Committed
  BY <1>1 DEF Committed, Ranked
<1>3. saved \in SUBSET Env /\ row \in [Env -> Nat] /\ e \in Env
  BY DepFacts DEF TypeOK, StoreTypeOK, Ranks
<1>4. /\ IsFiniteSet(saved) /\ Cardinality(saved) \in Nat
      /\ Cardinality(saved') = Cardinality(saved) + 1
  BY <1>1, <1>3, CountType, FS_AddElement
<1>5. row'[e] = Cardinality(saved) + 1 /\ \A d \in Env \ {e} : row'[d] = row[d]
  BY <1>1, <1>3
<1>6. row[e] = 0 /\ e \notin Committed /\ e \notin parked
  BY <1>1, <1>3 DEF NoRestoreInv, OutboxOK, Ranked
<1>7. \A d \in Env : row[d] <= Cardinality(saved)
  BY DEF CausalInv, RowsRise
<1>8. RowsRise'
  <2>1. \A d \in Env : row'[d] <= Cardinality(saved')
    BY <1>3, <1>4, <1>5, <1>7
  <2>2. ASSUME NEW x \in saved' \ Committed, NEW d \in Dep[x], d \notin Committed \cup parked
        PROVE  0 < row'[d] /\ row'[d] < row'[x]
    <3>1. x \in Env /\ d \in Env
      BY <1>1, <1>3, DepFacts
    <3>2. CASE x = e
      <4>1. d \in Ranked(row) /\ d # e
        BY <1>1, <1>6, <2>2, <3>2 DEF NoRestoreInv, OutboxOK, Accounted, Ranked
      <4> QED BY <1>3, <1>4, <1>5, <1>7, <3>1, <3>2, <4>1 DEF Ranked
    <3>3. CASE x # e
      <4>1. 0 < row[d] /\ row[d] < row[x]
        BY <1>1, <2>2, <3>3 DEF CausalInv, RowsRise
      <4> QED BY <1>5, <1>6, <3>1, <3>3, <4>1
    <3> QED BY <3>2, <3>3
  <2> QED BY <1>1, <1>2, <2>1, <2>2 DEF RowsRise
<1>9. LogCausal'
  BY <1>1, <1>2 DEF CausalInv, LogCausal
<1>10. ASSUME NEW u \in Threads PROVE ChunkCausal(u)'
  <2> SUFFICES ASSUME pc[u] = "submit", NEW x \in Ranked(batch[u]) \ Committed
               PROVE  batch[u][x] = row'[x] /\ Dep[x] \subseteq Committed \cup parked \cup Ranked(batch[u])
    BY <1>1, <1>2 DEF ChunkCausal, At, Ranked
  <2>1. x \in saved /\ x \in Env
    BY <1>3 DEF NoRestoreInv, ThreadOK
  <2> QED BY <1>1, <1>5, <2>1 DEF CausalInv, ChunkCausal, At
<1> QED BY <1>8, <1>9, <1>10 DEF CausalInv

LEMMA CausalThread ==
  ASSUME TypeOK, NoRestoreInv, CausalInv, NEW t \in Threads, ThreadStep(t) \/ ThreadFault(t)
  PROVE  CausalInv'
<1> USE DEF relayVars, storeVars, Steps, LockSteps, PullSteps
<1>1. CASE TakeChunk(t)
  BY <1>1, CausalTake
<1>2. CASE SubmitAccepted(t)
  <2>1. \A u \in Threads : pc'[u] = "submit" => pc[u] = "submit" /\ batch'[u] = batch[u]
    BY <1>2 DEF SubmitAccepted, Goto, TypeOK
  <2> QED BY <1>2, <2>1, CausalCommit DEF SubmitAccepted
<1>3. CASE SubmitFails(t)
  <2>1. \A u \in Threads : pc'[u] = "submit" => pc[u] = "submit" /\ batch'[u] = batch[u]
    BY <1>3 DEF SubmitFails, EndPush, Goto, Load, TypeOK
  <2> QED BY <1>3, <2>1, CausalCommit, CausalCalm DEF SubmitFails
<1>4. CASE Quarantine(t) \/ MarkSent(t)
  BY <1>4, CausalSettle
<1>5. CASE SubmitTooLarge(t) \/ SubmitRejected(t) \/ SubmitUnauthorized(t)
  <2>1. /\ UNCHANGED <<seq, row, parked, saved>>
        /\ batch' = batch \/ Load(t, NoRanks)
        /\ Goto(t, "idle") \/ Goto(t, "park")
    BY <1>5 DEF SubmitTooLarge, SubmitRejected, SubmitUnauthorized, Return
  <2> QED BY <2>1, CausalGoto
<1>6. CASE ApplyNext(t)
  <2>1. UNCHANGED <<seq, row, parked, saved, pc>> /\ pc[t] # "submit"
        /\ \E e \in Env : batch' = [batch EXCEPT ![t][e] = 0]
    BY <1>6 DEF ApplyNext, ApplyRemote
  <2>2. \A u \in Threads : pc'[u] = "submit" => pc[u] = "submit" /\ batch'[u] = batch[u]
    BY <2>1 DEF TypeOK
  <2> QED BY <2>1, <2>2, CausalCalm
<1>7. CASE StartSync(t) \/ PullBegin(t) \/ CheckEpoch(t) \/ AdoptEpoch(t) \/ PageApplied(t)
  <2>1. /\ UNCHANGED <<seq, row, parked, saved, batch>>
        /\ \E step \in {"take", "fetch", "page", "wipe", "advance"} : Goto(t, step)
    BY <1>7 DEF StartSync, PullBegin, CheckEpoch, AdoptEpoch, SetRestoreEpoch, PageApplied
  <2> QED BY <2>1, CausalGoto
<1>8. CASE FetchPage(t) \/ Advance(t) \/ Release(t) \/ FetchFails(t)
  <2>1. /\ UNCHANGED <<seq, row, parked, saved>>
        /\ \E b : batch' = batch \/ Load(t, b)
        /\ \E step \in {"check", "fetch", "drain", "idle"} : Goto(t, step)
    BY <1>8 DEF FetchPage, Advance, SetCursor, Release, FetchFails, Return
  <2> QED BY <2>1, CausalGoto
<1>9. CASE Receive(t) \/ LiveFrame(t)
  <2>1. /\ UNCHANGED <<seq, row, parked, saved>>
        /\ \E b : batch' = batch \/ Load(t, b)
        /\ \E step \in {"hello", "liveLock", "live", "idle"} : Goto(t, step)
    BY <1>9 DEF Receive, LiveFrame, Return
  <2> QED BY <2>1, CausalGoto
<1>10. CASE HelloCheckEpoch(t) \/ HelloAdoptEpoch(t) \/ HelloPull(t) \/ HelloDrain(t)
  <2>1. /\ UNCHANGED <<seq, row, parked, saved>>
        /\ \E b : batch' = batch \/ Load(t, b)
        /\ \E step \in {"helloPull", "helloWipe", "lock", "drainLock", "drain"} : Goto(t, step)
    BY <1>10 DEF HelloCheckEpoch, HelloAdoptEpoch, SetRestoreEpoch, HelloPull, HelloDrain
  <2> QED BY <2>1, CausalGoto
<1>11. ~WipeForEpoch(t) /\ ~HelloWipe(t)
  BY DEF WipeForEpoch, HelloWipe, At, NoRestoreInv, ThreadOK
<1> QED
  BY <1>1, <1>2, <1>3, <1>4, <1>5, <1>6, <1>7, <1>8, <1>9, <1>10, <1>11
  DEF ThreadStep, ThreadFault, Push, Pull, Realtime

LEMMA CausalElsewhere ==
  ASSUME epoch' = 0, TypeOK, NoRestoreInv, CausalInv, SaveApply \/ Connect \/ Disconnect \/ Crash \/ Remote
  PROVE  CausalInv'
<1> USE DEF relayVars, storeVars, threadVars
<1>1. CASE SaveApply \/ Connect \/ Disconnect
  BY <1>1, CausalCalm DEF SaveApply, ApplyRemote, Connect, OpenSocket, Disconnect, DropSocket
<1>2. CASE Crash
  <2>1. UNCHANGED <<seq, row, parked, saved>> /\ \A u \in Threads : pc'[u] # "submit"
    BY <1>2 DEF Crash, DropSocket
  <2> QED BY <2>1, CausalCalm
<1>3. ASSUME NEW n \in 0 .. latest, RestoreBackup(n) PROVE FALSE
  BY <1>3 DEF RestoreBackup, NoRestoreInv, CursorOK
<1>4. ASSUME NEW e \in Foreign, ForeignCommit(e), UNCHANGED <<storeVars, threadVars>> PROVE CausalInv'
  <2>1. seq \in [Env -> Nat] /\ latest \in Nat /\ e \in Env /\ e \notin Own /\ e \notin Committed
    BY <1>4, EnvAssumption DEF TypeOK, RelayTypeOK, Ranks, Env, ForeignCommit
  <2>2. seq'[e] = latest + 1 /\ \A d \in Env \ {e} : seq'[d] = seq[d]
    BY <1>4, <2>1 DEF ForeignCommit
  <2>3. Committed' = Committed \cup {e}
    BY <2>1, <2>2 DEF Committed, Ranked
  <2>4. \A d \in Env : seq[d] <= latest /\ seq[d] \in Nat
    BY <2>1 DEF NoRestoreInv, CursorOK
  <2>5. ASSUME NEW x \in Committed', NEW d \in Dep[x], d \notin parked
        PROVE  d \in Committed' /\ seq'[d] < seq'[x]
    <3>1. d \in Env /\ x \in Env
      BY DepFacts, <2>1, <2>3 DEF Committed, Ranked
    <3>2. CASE x = e
      <4>1. d \in Committed
        BY <1>4, <2>5, <3>2 DEF ForeignCommit
      <4> QED BY <2>1, <2>2, <2>3, <2>4, <3>1, <3>2, <4>1
    <3>3. CASE x # e
      <4>1. x \in Committed /\ d \in Committed /\ seq[d] < seq[x]
        BY <2>3, <2>5, <3>3 DEF CausalInv, LogCausal
      <4> QED BY <2>1, <2>2, <2>3, <3>1, <3>3, <4>1
    <3> QED BY <3>2, <3>3
  <2>6. saved \subseteq Own
    BY DEF TypeOK, StoreTypeOK
  <2>7. RowsRise'
    BY <1>4, <2>3 DEF CausalInv, RowsRise
  <2>8. \A u \in Threads : ChunkCausal(u)'
    BY <1>4, <2>3 DEF CausalInv, ChunkCausal, At, Ranked
  <2> QED BY <1>4, <2>5, <2>7, <2>8 DEF CausalInv, LogCausal
<1>5. CASE Remote
  BY <1>3, <1>4, <1>5 DEF Remote
<1> QED BY <1>1, <1>2, <1>5

LEMMA CausalStep ==
  ASSUME epoch' = 0, TypeOK, NoRestoreInv, CausalInv, [Next]_vars
  PROVE  CausalInv'
<1>1. CASE UNCHANGED vars
  BY <1>1, CausalCalm DEF vars, relayVars, storeVars, threadVars
<1>2. CASE Next
  BY <1>2, CausalThread, CausalSave, CausalElsewhere DEF Next
<1> QED BY <1>1, <1>2

LEMMA CausalInit == Init => CausalInv
<1> SUFFICES ASSUME Init PROVE CausalInv
  OBVIOUS
<1>1. Committed = {} /\ saved = {} /\ Cardinality(saved) = 0 /\ \A e \in Env : row[e] = 0
  BY FS_EmptySet DEF Init, RelayInit, StoreInit, Committed, Ranked, NoRanks
<1>2. \A t \in Threads : ~At(t, "submit")
  BY DEF Init, ThreadInit, At
<1> QED BY <1>1, <1>2 DEF CausalInv, RowsRise, LogCausal, ChunkCausal

(***************************************************************************)
(* Until the first restore, with any number of concurrent pushes, lost     *)
(* answers, crashes, rejected chunks and other devices, the log lists an   *)
(* envelope after whatever it needs that is not quarantined.               *)
(***************************************************************************)
THEOREM LogIsCausal == Spec => []CausalLog
<1>1. TypeOK /\ [Next]_vars => (Unrestored' => Unrestored)
  BY EpochMoves DEF TypeOK, RelayTypeOK, Unrestored
<1>2. TypeOK /\ (Unrestored => NoRestoreInv) /\ (Unrestored => CausalInv) /\ [Next]_vars
        => (Unrestored' => CausalInv')
  BY <1>1, CausalStep DEF Unrestored
<1>3. (Unrestored => CausalInv) => CausalLog
  BY DEF CausalInv, LogCausal, CausalLog, Unrestored
<1> QED BY <1>2, <1>3, CausalInit, TypeCorrect, UntilRestore, PTL DEF Spec

-----------------------------------------------------------------------------
(* Refinement: every step of the engine is a step of Delivery or changes   *)
(* nothing that Delivery sees.                                             *)

\* The relay takes what t's batch adds to the log: edits still in the outbox.
LEMMA CommitMaps ==
  ASSUME TypeOK, NoRestoreInv, NEW t \in Threads, At(t, "submit"), CommitBatch(batch[t]),
         UNCHANGED storeVars
  PROVE  D!Next
<1> DEFINE S == Ranked(batch[t]) \ Committed
<1>1. Committed' = Committed \cup S
  BY CommitBatchEffect DEF TypeOK
<1>2. S \subseteq saved
  BY DEF NoRestoreInv, ThreadOK, At
<1>3. S \subseteq Pending \cup parked \cup Foreign
  BY <1>2 DEF NoRestoreInv, OutboxOK, Accounted, Pending
<1>4. UNCHANGED <<Pending, parked, ops>>
  BY DEF storeVars, Pending, Ranked
<1>5. S \in SUBSET (Own \cup Foreign)
  BY DEF Ranked, Env
<1> HIDE DEF S
<1>6. D!Commit(S)
  BY <1>1, <1>3, <1>4 DEF D!Commit
<1> QED BY <1>5, <1>6 DEF D!Next

LEMMA ThreadMaps ==
  ASSUME TypeOK, BufferInv, NoRestoreInv, NEW t \in Threads, ThreadStep(t) \/ ThreadFault(t)
  PROVE  D!Next \/ UNCHANGED <<Committed, Pending, parked, ops>>
<1>0. ThreadOK(t)
  BY DEF NoRestoreInv
<1>1. CASE SubmitAccepted(t)
  BY <1>1, CommitMaps DEF SubmitAccepted
<1>2. CASE SubmitFails(t)
  <2>1. CASE UNCHANGED relayVars
    BY <1>2, <2>1 DEF SubmitFails, relayVars, storeVars, Committed, Pending, Ranked
  <2>2. CASE CommitBatch(batch[t])
    BY <1>2, <2>2, CommitMaps DEF SubmitFails
  <2> QED BY <1>2, <2>1, <2>2 DEF SubmitFails
<1>3. CASE Quarantine(t)
  <2> DEFINE S == ids[t] \cap Pending
  <2>1. /\ parked' = parked \cup S /\ UNCHANGED <<relayVars, row, ops>>
    BY <1>3 DEF Quarantine, QuarantineOutbox
  <2>2. Pending' = Pending \ S /\ Committed' = Committed
    BY <2>1 DEF Pending, Committed, Ranked, relayVars
  <2>3. S \in SUBSET (Own \cup Foreign) /\ S \subseteq Pending
    BY DEF Pending, Ranked, Env
  <2> HIDE DEF S
  <2>4. D!Park(S)
    BY <2>1, <2>2, <2>3 DEF D!Park
  <2> QED BY <2>3, <2>4 DEF D!Next
<1>4. CASE MarkSent(t)
  <2> DEFINE S == ids[t] \cap Pending
  <2>1. /\ row' = [e \in Env |-> IF e \in S THEN 0 ELSE row[e]]
        /\ UNCHANGED <<relayVars, parked, ops>>
    BY <1>4 DEF MarkSent, MarkOutboxSent
  <2>2. Pending' = Pending \ S /\ Committed' = Committed
    BY <2>1 DEF Pending, Committed, Ranked, relayVars
  <2>3. S \in SUBSET (Own \cup Foreign) /\ S \subseteq Committed
    BY <1>0, <1>4 DEF Pending, Ranked, Env, ThreadOK, MarkSent, At
  <2> HIDE DEF S
  <2>4. D!Settle(S)
    BY <2>1, <2>2, <2>3 DEF D!Settle
  <2> QED BY <2>3, <2>4 DEF D!Next
<1>5. CASE ApplyNext(t)
  <2> PICK e \in Env : IsFirst(batch[t], e) /\ ApplyRemote(e)
    BY <1>5 DEF ApplyNext
  <2>1. UNCHANGED <<Committed, Pending, parked>>
    BY <1>5 DEF ApplyNext, ApplyRemote, relayVars, Committed, Pending, Ranked
  <2>2. e \in Committed
    BY <1>0, <1>5 DEF ApplyNext, IsFirst, ThreadOK
  <2>3. CASE ops' = ops \cup {e}
    <3>1. D!Show(e)
      BY <2>1, <2>2, <2>3 DEF D!Show
    <3> QED BY <3>1 DEF D!Next, Env
  <2>4. CASE ops' = ops
    BY <2>1, <2>4
  <2> QED BY <2>3, <2>4 DEF ApplyRemote
<1>6. CASE \/ StartSync(t) \/ TakeChunk(t) \/ SubmitTooLarge(t) \/ SubmitRejected(t)
           \/ PullBegin(t) \/ FetchPage(t) \/ CheckEpoch(t) \/ AdoptEpoch(t)
           \/ PageApplied(t) \/ Advance(t) \/ Release(t)
           \/ Receive(t) \/ HelloCheckEpoch(t) \/ HelloAdoptEpoch(t) \/ HelloPull(t)
           \/ HelloDrain(t) \/ LiveFrame(t) \/ SubmitUnauthorized(t) \/ FetchFails(t)
  <2>1. UNCHANGED <<seq, row, parked, ops>>
    BY <1>6 DEF StartSync, TakeChunk, SubmitTooLarge, SubmitRejected, PullBegin, FetchPage,
       CheckEpoch, AdoptEpoch, SetRestoreEpoch, PageApplied, Advance, SetCursor, Release,
       Receive, HelloCheckEpoch, HelloAdoptEpoch, HelloPull, HelloDrain, LiveFrame,
       SubmitUnauthorized, FetchFails, relayVars, storeVars
  <2> QED BY <2>1 DEF Committed, Pending, Ranked
<1>7. CASE WipeForEpoch(t) \/ HelloWipe(t)
  BY <1>0, <1>7 DEF WipeForEpoch, HelloWipe, ThreadOK, At
<1> QED BY <1>1, <1>2, <1>3, <1>4, <1>5, <1>6, <1>7
        DEF ThreadStep, ThreadFault, Push, Pull, Realtime

LEMMA UserMaps ==
  ASSUME TypeOK, NoRestoreInv, (\E e \in Own : SaveEnqueue(e)) \/ SaveApply
  PROVE  D!Next \/ UNCHANGED <<Committed, Pending, parked, ops>>
<1>0. OutboxOK
  BY DEF NoRestoreInv
<1>1. ASSUME NEW e \in Own, SaveEnqueue(e) PROVE D!Next
  <2>1. /\ UNCHANGED <<relayVars, parked, ops>> /\ e \notin saved
        /\ row' = [row EXCEPT ![e] = Cardinality(saved) + 1]
    BY <1>1 DEF SaveEnqueue, Enqueue
  <2>2. e \in Env /\ Cardinality(saved) \in Nat /\ row \in [Env -> Nat]
    <3>1. Own \subseteq Env /\ saved \in SUBSET Env
      BY DEF Env, TypeOK, StoreTypeOK
    <3> QED BY <3>1, CountType DEF TypeOK, StoreTypeOK, Ranks
  <2>3. e \notin Committed \cup Pending \cup parked
    BY <1>0, <2>1 DEF OutboxOK, Pending
  <2>4. Pending' = Pending \cup {e}
    <3>1. row'[e] = Cardinality(saved) + 1 /\ row'[e] > 0
      BY <2>1, <2>2
    <3>2. \A d \in Env : d # e => row'[d] = row[d]
      BY <2>1, <2>2
    <3>3. Ranked(row') = Ranked(row) \cup {e}
      BY <2>2, <3>1, <3>2 DEF Ranked
    <3> QED BY <2>1, <2>3, <3>3 DEF Pending, Ranked
  <2>5. Committed' = Committed
    BY <2>1 DEF Committed, Ranked, relayVars
  <2>6. D!Save(e)
    BY <2>1, <2>3, <2>4, <2>5 DEF D!Save
  <2> QED BY <2>6 DEF D!Next
<1>2. ASSUME SaveApply PROVE D!Next \/ UNCHANGED <<Committed, Pending, parked, ops>>
  <2> PICK e : e = editing
    OBVIOUS
  <2>1. /\ UNCHANGED <<relayVars, row, parked>> /\ e \in saved
        /\ ops' = ops \cup {e} \/ ops' = ops
    BY <1>0, <1>2 DEF SaveApply, ApplyRemote, OutboxOK
  <2>2. UNCHANGED <<Committed, Pending, parked>>
    BY <2>1 DEF Committed, Pending, Ranked, relayVars
  <2>3. e \in Committed \cup Pending \cup parked /\ e \in Own
    BY <1>0, <2>1 DEF OutboxOK, Accounted, Pending, TypeOK, StoreTypeOK
  <2>4. CASE ops' = ops \cup {e}
    <3>1. D!Show(e)
      BY <2>2, <2>3, <2>4 DEF D!Show
    <3> QED BY <2>3, <3>1 DEF D!Next
  <2> QED BY <2>1, <2>2, <2>4
<1> QED BY <1>1, <1>2

LEMMA RemoteMaps ==
  ASSUME MaxRestores = 0, TypeOK, NoRestoreInv, Remote
  PROVE  D!Next
<1>1. ASSUME NEW n \in 0 .. latest, RestoreBackup(n) PROVE FALSE
  BY <1>1 DEF RestoreBackup, NoRestoreInv, CursorOK
<1> PICK e \in Foreign : ForeignCommit(e)
  BY <1>1 DEF Remote
<1>2. UNCHANGED <<Pending, parked, ops>>
  BY DEF Remote, storeVars, Pending, Ranked
<1>3. Committed' = Committed \cup {e}
  <2>1. e \in Env /\ seq \in [Env -> Nat] /\ latest \in Nat
    BY DEF Env, TypeOK, RelayTypeOK, Ranks
  <2>2. seq' = [seq EXCEPT ![e] = latest + 1]
    BY DEF ForeignCommit
  <2> QED BY <2>1, <2>2 DEF Committed, Ranked
<1>4. D!Commit({e})
  BY <1>2, <1>3 DEF D!Commit
<1> QED BY <1>4 DEF D!Next

(***************************************************************************)
(* While the server is never restored, the engine, with all its threads,   *)
(* retries, pages and crashes, implements the outbox and mirror of         *)
(* Delivery.                                                               *)
(***************************************************************************)
THEOREM EngineImplementsDelivery ==
  ASSUME MaxRestores = 0
  PROVE  Spec => ImplementsDelivery
<1>1. Init => D!Init
  BY DEF Init, RelayInit, StoreInit, D!Init, Committed, Pending, Ranked, NoRanks
<1>2. TypeOK /\ BufferInv /\ NoRestoreInv /\ [Next]_vars => [D!Next]_D!vars
  <2> SUFFICES ASSUME TypeOK, BufferInv, NoRestoreInv, [Next]_vars
               PROVE  D!Next \/ UNCHANGED <<Committed, Pending, parked, ops>>
    BY DEF D!vars
  <2>1. CASE UNCHANGED vars \/ Connect \/ Disconnect \/ Crash
    <3>1. UNCHANGED <<seq, row, parked, ops>>
      BY <2>1 DEF vars, relayVars, storeVars, Connect, OpenSocket, Disconnect, Crash, DropSocket
    <3> QED BY <3>1 DEF Committed, Pending, Ranked
  <2>2. CASE Next
    BY <2>1, <2>2, ThreadMaps, UserMaps, RemoteMaps DEF Next
  <2> QED BY <2>1, <2>2
<1> QED BY <1>1, <1>2, TypeCorrect, BufferAlways, NoRestoreAlways, PTL
        DEF Spec, ImplementsDelivery, D!Spec

-----------------------------------------------------------------------------
(* The cursor across restores from backup, however many.  What a page in hand says of the
   log counts only while the relay is still in the epoch it was read in, and a page of an
   older epoch must not be adopted: the epoch check of pull sees to that, as long as no
   hello wipes the store under a pull. *)

\* The hello handler's wipe, the one change of the cursor made without _rt_lock, does not
\* fall into a pull.
NoWipeDuringPull == \A t \in Threads : HelloWipe(t) => ~PullInFlight

Adopting(u) == pc[u] = "helloSetEpoch"

\* The stored epoch is the relay's, or a hello that is about to make it so is in hand.
Current == storedEpoch = epoch \/ \E u \in Threads : Adopting(u) /\ seen[u] = epoch

FrameBehind(x) == x.type = "hello" => x.epoch <= epoch
FramesBehind == \A i \in 1 .. Len(frames) : FrameBehind(frames[i])

EpochsBehind ==
  /\ storedEpoch <= epoch
  /\ \A u \in Threads : seen[u] <= epoch
  /\ FramesBehind

LogEnds == \A e \in Env : seq[e] <= latest

CursorHolds == Current => cursor <= latest /\ Covered(cursor)

PullHolds(t) ==
  /\ pc[t] \in {"fetch", "check", "page", "advance"} => after[t] = cursor
  /\ pc[t] = "setEpoch" => cursor = 0
  /\ pc[t] \in {"check", "page", "advance"} /\ seen[t] = epoch =>
       /\ mark[t] <= latest
       /\ \A e \in Env : after[t] < seq[e] /\ seq[e] <= mark[t] =>
            e \in Ranked(batch[t]) \cup ops \cup passedOver
  /\ pc[t] \in {"page", "advance"} /\ Current => seen[t] = epoch
  /\ pc[t] = "advance" => Ranked(batch[t]) = {}
  /\ pc[t] \in {"check", "page", "advance"} =>
       \A u \in Threads : Adopting(u) => seen[u] <= seen[t]

EpochInv == EpochsBehind /\ LogEnds /\ CursorHolds /\ \A t \in Threads : PullHolds(t)

LEMMA EpochTypes ==
  ASSUME TypeOK
  PROVE  /\ seq \in [Env -> Nat] /\ latest \in Nat /\ epoch \in Nat /\ frames \in Seq(Frame)
         /\ cursor \in Nat /\ storedEpoch \in Nat
         /\ \A u \in Threads : after[u] \in Nat /\ mark[u] \in Nat /\ seen[u] \in Nat
  BY DEF TypeOK, RelayTypeOK, StoreTypeOK, Ranks

LEMMA EpochTypesNext ==
  ASSUME TypeOK'
  PROVE  seq' \in [Env -> Nat] /\ latest' \in Nat /\ epoch' \in Nat /\ storedEpoch' \in Nat
  BY DEF TypeOK, RelayTypeOK, StoreTypeOK, Ranks

\* Where a frame under way after a step comes from.
LEMMA FramesBehindStay ==
  ASSUME TypeOK, FramesBehind, epoch' = epoch, NEW x,
         \/ frames' = frames
         \/ frames # << >> /\ frames' = Tail(frames)
         \/ frames' = << >>
         \/ frames' = <<x>> /\ FrameBehind(x)
         \/ x \in Frame /\ frames' = Append(frames, x) /\ FrameBehind(x)
  PROVE  FramesBehind'
<1>1. frames \in Seq(Frame)
  BY EpochTypes
<1>2. ASSUME NEW i \in 1 .. Len(frames')
      PROVE  FrameBehind(frames'[i])
  <2>1. CASE frames' = frames
    BY <2>1 DEF FramesBehind
  <2>2. CASE frames # << >> /\ frames' = Tail(frames)
    <3>1. i + 1 \in 1 .. Len(frames) /\ frames'[i] = frames[i + 1]
      BY <1>1, <2>2
    <3> QED BY <3>1 DEF FramesBehind
  <2>3. CASE frames' = << >>
    BY <2>3
  <2>4. CASE frames' = <<x>> /\ FrameBehind(x)
    BY <2>4
  <2>5. CASE x \in Frame /\ frames' = Append(frames, x) /\ FrameBehind(x)
    <3>1. (i \in 1 .. Len(frames) /\ frames'[i] = frames[i]) \/ frames'[i] = x
      BY <1>1, <2>5
    <3> QED BY <2>5, <3>1 DEF FramesBehind
  <2> QED BY <2>1, <2>2, <2>3, <2>4, <2>5
<1> QED BY <1>2 DEF FramesBehind, FrameBehind

\* While the log and the mirror grow, what a thread's page says stays true.
LEMMA PullsStay ==
  ASSUME TypeOK, TypeOK', Grow, EpochInv, UNCHANGED <<epoch, cursor>>, Current' => Current,
         \A w \in Threads : Adopting(w)' => Adopting(w) /\ seen'[w] = seen[w],
         NEW u \in Threads, SameLocals(u)
  PROVE  PullHolds(u)'
<1>1. /\ pc'[u] = pc[u] /\ batch'[u] = batch[u] /\ after'[u] = after[u]
      /\ mark'[u] = mark[u] /\ seen'[u] = seen[u]
  BY DEF SameLocals
<1>2. /\ seq \in [Env -> Nat] /\ seq' \in [Env -> Nat] /\ latest \in Nat /\ latest' \in Nat
      /\ after[u] \in Nat /\ mark[u] \in Nat
  BY EpochTypes, EpochTypesNext
<1>3. PullHolds(u)
  BY DEF EpochInv
<1>4. pc[u] \in {"check", "page", "advance"} /\ seen[u] = epoch =>
        /\ mark'[u] <= latest'
        /\ \A e \in Env : after'[u] < seq'[e] /\ seq'[e] <= mark'[u] =>
             e \in Ranked(batch'[u]) \cup ops' \cup passedOver'
  <2> SUFFICES ASSUME pc[u] \in {"check", "page", "advance"}, seen[u] = epoch
               PROVE  /\ mark'[u] <= latest'
                      /\ \A e \in Env : after'[u] < seq'[e] /\ seq'[e] <= mark'[u] =>
                           e \in Ranked(batch'[u]) \cup ops' \cup passedOver'
    OBVIOUS
  <2>1. mark[u] <= latest
    BY <1>3 DEF PullHolds
  <2>2. mark'[u] <= latest'
    BY <1>1, <1>2, <2>1 DEF Grow
  <2>3. ASSUME NEW e \in Env, after'[u] < seq'[e], seq'[e] <= mark'[u]
        PROVE  e \in Ranked(batch'[u]) \cup ops' \cup passedOver'
    <3>1. e \in Committed
      BY <1>1, <1>2, <2>1, <2>3 DEF Grow, Committed, Ranked
    <3>2. seq'[e] = seq[e]
      BY <3>1 DEF Grow
    <3>3. e \in Ranked(batch[u]) \cup ops \cup passedOver
      BY <1>1, <1>3, <2>3, <3>2 DEF PullHolds
    <3> QED BY <1>1, <3>3 DEF Grow, Ranked
  <2> QED BY <2>2, <2>3
<1>5. Ranked(batch'[u]) = Ranked(batch[u])
  BY <1>1 DEF Ranked
<1> QED BY <1>1, <1>3, <1>4, <1>5 DEF PullHolds, Ranked, Adopting

LEMMA CursorStays ==
  ASSUME TypeOK, TypeOK', Grow, EpochInv, UNCHANGED <<epoch, cursor>>, Current' => Current
  PROVE  CursorHolds'
<1> SUFFICES ASSUME Current PROVE cursor' <= latest' /\ Covered(cursor)'
  BY DEF CursorHolds
<1>1. cursor \in Nat /\ latest \in Nat /\ latest' \in Nat /\ cursor <= latest /\ Covered(cursor)
  BY EpochTypes, EpochTypesNext DEF EpochInv, CursorHolds
<1>2. \A e \in Env : 0 < seq'[e] /\ seq'[e] <= cursor => e \in ops' \cup passedOver'
  BY <1>1, CoveredStays
<1> QED BY <1>1, <1>2 DEF Covered, Grow

\* A step of t that leaves the cursor and both epochs alone.
LEMMA EpochCombine ==
  ASSUME TypeOK, TypeOK', EpochInv, Grow, NEW t \in Threads, Elsewhere(t),
         UNCHANGED <<epoch, cursor, storedEpoch>>, pc'[t] # "helloSetEpoch",
         PullHolds(t)', seen'[t] <= epoch, FramesBehind', LogEnds'
  PROVE  EpochInv'
<1>1. \A w \in Threads : Adopting(w)' => Adopting(w) /\ seen'[w] = seen[w]
  BY DEF Adopting, Elsewhere, SameLocals
<1>2. Current' => Current
  BY <1>1 DEF Current
<1>3. CursorHolds'
  BY <1>2, CursorStays
<1>4. ASSUME NEW u \in Threads \ {t} PROVE PullHolds(u)' /\ seen'[u] <= epoch
  BY <1>1, <1>2, <1>4, PullsStay DEF Elsewhere, SameLocals, EpochInv, EpochsBehind
<1>5. EpochsBehind'
  BY <1>4 DEF EpochInv, EpochsBehind
<1> QED BY <1>3, <1>4, <1>5 DEF EpochInv

\* The step takes t nowhere in a pull.
LEMMA OutsideStep ==
  ASSUME TypeOK, TypeOK', EpochInv, Grow, NEW t \in Threads, Elsewhere(t),
         UNCHANGED <<epoch, cursor, storedEpoch>>,
         pc'[t] \notin PullSteps \cup {"helloSetEpoch"},
         seen'[t] <= epoch, FramesBehind', LogEnds'
  PROVE  EpochInv'
<1>1. PullHolds(t)'
  BY DEF PullHolds, PullSteps
<1> QED BY <1>1, EpochCombine

\* ... and changes only t's locals, or also drops or receives frames.
LEMMA QuietStep ==
  ASSUME TypeOK, EpochInv, UNCHANGED <<seq, latest, epoch, frames>>
  PROVE  FramesBehind' /\ LogEnds'
  BY DEF EpochInv, EpochsBehind, FramesBehind, FrameBehind, LogEnds

\* The relay commits t's batch, whatever t does next.
LEMMA EpochCommit ==
  ASSUME TypeOK, TypeOK', EpochInv, NEW t \in Threads,
         CommitBatch(batch[t]), UNCHANGED <<storeVars, userVars>>
  PROVE  Grow /\ FramesBehind' /\ LogEnds' /\ epoch' = epoch
<1>1. RelayTypeOK /\ batch[t] \in Ranks
  BY DEF TypeOK
<1>2. /\ Committed' = Committed \cup Ranked(batch[t])
      /\ \A e \in Committed : seq'[e] = seq[e]
      /\ \A e \in Ranked(batch[t]) \ Committed : seq'[e] > latest
      /\ latest' >= latest
      /\ (\A e \in Env : seq[e] <= latest) => \A e \in Env : seq'[e] <= latest'
      /\ \/ frames' = frames
         \/ \E r \in Ranks : /\ frames' = Append(frames, [type |-> "ops", ranks |-> r])
                             /\ Ranked(r) \subseteq Ranked(batch[t])
  BY <1>1, CommitBatchEffect
<1>3. epoch' = epoch
  BY DEF CommitBatch
<1>4. Grow
  BY <1>2 DEF Grow, storeVars, userVars
<1>5. FramesBehind'
  <2>0. FramesBehind
    BY DEF EpochInv, EpochsBehind
  <2>1. CASE frames' = frames
    BY <1>3, <2>0, <2>1, FramesBehindStay
  <2>2. ASSUME NEW r \in Ranks, frames' = Append(frames, [type |-> "ops", ranks |-> r])
        PROVE  FramesBehind'
    <3> DEFINE x == [type |-> "ops", ranks |-> r]
    <3>1. x \in Frame /\ FrameBehind(x)
      BY DEF Frame, FrameBehind
    <3>2. frames' = Append(frames, x)
      BY <2>2
    <3> HIDE DEF x
    <3> QED BY <1>3, <2>0, <3>1, <3>2, FramesBehindStay
  <2> QED BY <1>2, <2>1, <2>2
<1>6. LogEnds'
  BY <1>2 DEF EpochInv, LogEnds
<1> QED BY <1>3, <1>4, <1>5, <1>6

LEMMA EpochPush ==
  ASSUME TypeOK, TypeOK', EpochInv, NEW t \in Threads,
         \/ StartSync(t) \/ Push(t)
         \/ ThreadFault(t)
  PROVE  EpochInv'
<1> USE DEF At, Goto, Load
<1>0. seen[t] <= epoch /\ 0 <= epoch
  BY EpochTypes DEF EpochInv, EpochsBehind
<1>1. ASSUME \/ StartSync(t) \/ TakeChunk(t) \/ SubmitTooLarge(t) \/ SubmitRejected(t)
             \/ Quarantine(t) \/ MarkSent(t) \/ SubmitUnauthorized(t) \/ FetchFails(t)
      PROVE  EpochInv'
  <2>1. /\ UNCHANGED <<relayVars, ops, cursor, storedEpoch, saved, passedOver>>
    BY <1>1 DEF StartSync, TakeChunk, SubmitTooLarge, SubmitRejected, Quarantine,
       QuarantineOutbox, MarkSent, MarkOutboxSent, SubmitUnauthorized, FetchFails,
       storeVars, userVars
  <2>2. Grow /\ FramesBehind' /\ LogEnds'
    BY <2>1, QuietGrows, QuietStep DEF relayVars
  <2>3. Elsewhere(t) /\ pc'[t] \notin PullSteps \cup {"helloSetEpoch"} /\ seen'[t] <= epoch
    <3> USE <1>0 DEF Elsewhere, SameLocals, TypeOK, PullSteps
    <3>1. CASE StartSync(t) \/ SubmitRejected(t) \/ Quarantine(t) \/ MarkSent(t)
      BY <3>1 DEF StartSync, SubmitRejected, Quarantine, MarkSent
    <3>2. CASE SubmitTooLarge(t) \/ SubmitUnauthorized(t) \/ FetchFails(t)
      BY <3>2 DEF SubmitTooLarge, SubmitUnauthorized, FetchFails, Return
    <3>3. CASE TakeChunk(t)
      BY <3>3 DEF TakeChunk, EndPush
    <3> QED BY <1>1, <3>1, <3>2, <3>3
  <2> QED BY <2>1, <2>2, <2>3, OutsideStep DEF relayVars
<1>2. CASE SubmitAccepted(t)
  <2>1. Grow /\ FramesBehind' /\ LogEnds' /\ epoch' = epoch
    BY <1>2, EpochCommit DEF SubmitAccepted
  <2>2. Elsewhere(t) /\ pc'[t] \notin PullSteps \cup {"helloSetEpoch"} /\ seen'[t] <= epoch
    BY <1>0, <1>2 DEF SubmitAccepted, Elsewhere, SameLocals, TypeOK, PullSteps
  <2>3. UNCHANGED <<cursor, storedEpoch>>
    BY <1>2 DEF SubmitAccepted, storeVars
  <2> QED BY <2>1, <2>2, <2>3, OutsideStep
<1>3. CASE SubmitFails(t)
  <2>0. UNCHANGED <<storeVars, userVars>>
    BY <1>3 DEF SubmitFails
  <2>1. Grow /\ FramesBehind' /\ LogEnds' /\ epoch' = epoch
    <3>1. CASE UNCHANGED relayVars
      BY <2>0, <3>1, QuietGrows, QuietStep DEF relayVars, storeVars, userVars
    <3>2. CASE CommitBatch(batch[t])
      BY <2>0, <3>2, EpochCommit
    <3> QED BY <1>3, <3>1, <3>2 DEF SubmitFails
  <2>2. Elsewhere(t) /\ pc'[t] \notin PullSteps \cup {"helloSetEpoch"} /\ seen'[t] <= epoch
    <3> USE <1>0 DEF Elsewhere, SameLocals, TypeOK, PullSteps
    <3>1. CASE UNCHANGED <<pc, batch, ids>>
      BY <1>3, <3>1 DEF SubmitFails
    <3>2. CASE EndPush(t)
      BY <1>3, <3>2 DEF SubmitFails, EndPush
    <3> QED BY <1>3, <3>1, <3>2 DEF SubmitFails
  <2>3. UNCHANGED <<cursor, storedEpoch>>
    BY <2>0 DEF storeVars
  <2> QED BY <2>1, <2>2, <2>3, OutsideStep
<1> QED BY <1>1, <1>2, <1>3 DEF Push, ThreadFault

\* A step of the thread that holds the lock for its pull: nobody else is in a pull.
LEMMA HolderStep ==
  ASSUME TypeOK, BufferInv, EpochInv, NEW t \in Threads, pc[t] \in PullSteps, Elsewhere(t),
         epoch' = epoch, PullHolds(t)', CursorHolds', storedEpoch' <= epoch,
         seen'[t] <= epoch, FramesBehind', LogEnds'
  PROVE  EpochInv'
<1>1. ASSUME NEW u \in Threads \ {t} PROVE PullHolds(u)' /\ seen'[u] <= epoch
  <2>1. pc[u] \notin PullSteps
    BY <1>1 DEF BufferInv, LockInv, LockSteps
  <2>2. pc'[u] = pc[u] /\ seen'[u] = seen[u]
    BY <1>1 DEF Elsewhere, SameLocals
  <2> QED BY <2>1, <2>2 DEF PullHolds, PullSteps, EpochInv, EpochsBehind
<1>2. EpochsBehind'
  BY <1>1 DEF EpochsBehind
<1> QED BY <1>1, <1>2 DEF EpochInv

\* Whatever the log is, a cursor at its start covers it.
LEMMA NothingToCover ==
  ASSUME TypeOK', cursor' = 0
  PROVE  CursorHolds'
<1>1. seq' \in [Env -> Nat] /\ latest' \in Nat
  BY EpochTypesNext
<1> QED BY <1>1 DEF CursorHolds, Covered

LEMMA EpochPull ==
  ASSUME TypeOK, TypeOK', BufferInv, EpochInv, NEW t \in Threads, Pull(t)
  PROVE  EpochInv'
<1> USE DEF At, Goto, Load
<1>0. /\ PullHolds(t) /\ CursorHolds /\ LogEnds /\ FramesBehind
      /\ seen[t] <= epoch /\ 0 <= epoch /\ storedEpoch <= epoch
  BY EpochTypes DEF EpochInv, EpochsBehind
<1>1. ASSUME UNCHANGED <<relayVars, storeVars, userVars>>, Elsewhere(t), PullHolds(t)',
             pc'[t] # "helloSetEpoch", seen'[t] <= epoch
      PROVE  EpochInv'
  <2>1. Grow /\ FramesBehind' /\ LogEnds'
    BY <1>1, QuietGrows, QuietStep DEF relayVars, storeVars, userVars
  <2> QED BY <1>1, <2>1, EpochCombine DEF relayVars, storeVars
<1>2. CASE PullBegin(t)
  <2>1. pc'[t] = "fetch" /\ after'[t] = cursor' /\ seen'[t] = seen[t] /\ Elsewhere(t)
    BY <1>2 DEF PullBegin, Elsewhere, SameLocals, TypeOK, storeVars
  <2>2. PullHolds(t)'
    BY <2>1 DEF PullHolds
  <2> QED BY <1>0, <1>1, <1>2, <2>1, <2>2 DEF PullBegin
<1>3. CASE FetchPage(t)
  <2>1. /\ NextAfterSeq(after[t], PageSize) <= latest
        /\ \A e \in Env : after[t] < seq[e] /\ seq[e] <= NextAfterSeq(after[t], PageSize) =>
             e \in Ranked(Page(after[t], PageSize))
    BY <1>0, EpochTypes, PageCovers DEF LogEnds
  <2>2. /\ pc[t] = "fetch" /\ pc'[t] = "check" /\ after'[t] = after[t] /\ seen'[t] = epoch
        /\ batch'[t] = Page(after[t], PageSize) /\ mark'[t] = NextAfterSeq(after[t], PageSize)
        /\ Elsewhere(t) /\ UNCHANGED <<relayVars, storeVars, userVars>>
    BY <1>3 DEF FetchPage, Elsewhere, SameLocals, TypeOK
  <2>3. \A u \in Threads : Adopting(u)' => seen'[u] <= seen'[t]
    BY <2>2 DEF Adopting, Elsewhere, SameLocals, EpochInv, EpochsBehind
  <2>4. PullHolds(t)'
    <3>1. after'[t] = cursor'
      BY <1>0, <2>2 DEF PullHolds, storeVars
    <3>2. /\ mark'[t] <= latest'
          /\ \A e \in Env : after'[t] < seq'[e] /\ seq'[e] <= mark'[t] => e \in Ranked(batch'[t])
      BY <2>1, <2>2 DEF relayVars
    <3> QED BY <2>2, <2>3, <3>1, <3>2 DEF PullHolds
  <2>5. seen'[t] <= epoch
    BY <2>2, EpochTypes
  <2> QED BY <1>1, <2>2, <2>4, <2>5
<1>4. CASE CheckEpoch(t)
  <2>1. /\ pc[t] = "check" /\ pc'[t] = (IF seen[t] = storedEpoch THEN "page" ELSE "wipe")
        /\ after'[t] = after[t] /\ seen'[t] = seen[t] /\ mark'[t] = mark[t] /\ batch'[t] = batch[t]
        /\ Elsewhere(t) /\ UNCHANGED <<relayVars, storeVars, userVars>>
    BY <1>4 DEF CheckEpoch, Elsewhere, SameLocals, TypeOK
  <2>2. \A u \in Threads : Adopting(u)' => Adopting(u) /\ seen'[u] = seen[u] /\ seen'[u] <= seen'[t]
    BY <1>0, <2>1 DEF Adopting, Elsewhere, SameLocals, PullHolds
  <2>3. seen[t] = storedEpoch /\ Current' => seen[t] = epoch
    BY <1>0, <2>1, <2>2, EpochTypes DEF Current, relayVars, storeVars, EpochInv, EpochsBehind
  <2>4. PullHolds(t)'
    <3>1. CASE pc'[t] = "wipe"
      BY <3>1 DEF PullHolds
    <3>2. CASE pc'[t] = "page"
      <4>1. after'[t] = cursor' /\ (Current' => seen'[t] = epoch')
        BY <1>0, <2>1, <2>3, <3>2 DEF PullHolds, relayVars, storeVars
      <4>2. seen'[t] = epoch' =>
              /\ mark'[t] <= latest'
              /\ \A e \in Env : after'[t] < seq'[e] /\ seq'[e] <= mark'[t] =>
                   e \in Ranked(batch'[t]) \cup ops' \cup passedOver'
        BY <1>0, <2>1 DEF PullHolds, relayVars, storeVars, userVars, Ranked
      <4> QED BY <2>2, <3>2, <4>1, <4>2 DEF PullHolds
    <3> QED BY <2>1, <3>1, <3>2
  <2> QED BY <1>0, <1>1, <2>1, <2>4
<1>5. CASE WipeForEpoch(t)
  <2>1. /\ pc[t] = "wipe" /\ pc'[t] = "setEpoch" /\ seen'[t] = seen[t] /\ Elsewhere(t)
        /\ cursor' = 0 /\ storedEpoch' = 0 /\ UNCHANGED relayVars
    BY <1>5 DEF WipeForEpoch, Wipe, Elsewhere, SameLocals, TypeOK
  <2>2. FramesBehind' /\ LogEnds' /\ epoch' = epoch
    BY <2>1, QuietStep DEF relayVars
  <2>3. PullHolds(t)' /\ CursorHolds'
    BY <2>1, NothingToCover DEF PullHolds
  <2> QED BY <1>0, <2>1, <2>2, <2>3, HolderStep DEF PullSteps
<1>6. CASE AdoptEpoch(t)
  <2>1. /\ pc[t] = "setEpoch" /\ pc'[t] = "fetch" /\ seen'[t] = seen[t] /\ Elsewhere(t)
        /\ after'[t] = 0 /\ storedEpoch' = seen[t] /\ UNCHANGED <<relayVars, cursor>>
    BY <1>6 DEF AdoptEpoch, SetRestoreEpoch, Elsewhere, SameLocals, TypeOK
  <2>2. FramesBehind' /\ LogEnds' /\ epoch' = epoch
    BY <2>1, QuietStep DEF relayVars
  <2>3. cursor' = 0
    BY <1>0, <2>1 DEF PullHolds
  <2>4. PullHolds(t)' /\ CursorHolds'
    BY <2>1, <2>3, NothingToCover DEF PullHolds
  <2> QED BY <1>0, <2>1, <2>2, <2>4, HolderStep DEF PullSteps
<1>7. CASE PageApplied(t)
  <2>1. /\ pc[t] = "page" /\ pc'[t] = "advance" /\ Ranked(batch[t]) = {}
        /\ after'[t] = after[t] /\ seen'[t] = seen[t] /\ mark'[t] = mark[t] /\ batch'[t] = batch[t]
        /\ Elsewhere(t) /\ UNCHANGED <<relayVars, storeVars, userVars>>
    BY <1>7 DEF PageApplied, LoopDone, Elsewhere, SameLocals, TypeOK
  <2>2. \A u \in Threads : Adopting(u)' => Adopting(u) /\ seen'[u] = seen[u] /\ seen'[u] <= seen'[t]
    BY <1>0, <2>1 DEF Adopting, Elsewhere, SameLocals, PullHolds
  <2>3. Current' => Current
    BY <2>1, <2>2 DEF Current, relayVars, storeVars
  <2>4. after'[t] = cursor' /\ (Current' => seen'[t] = epoch')
    BY <1>0, <2>1, <2>3 DEF PullHolds, relayVars, storeVars
  <2>5. seen'[t] = epoch' =>
          /\ mark'[t] <= latest'
          /\ \A e \in Env : after'[t] < seq'[e] /\ seq'[e] <= mark'[t] =>
               e \in Ranked(batch'[t]) \cup ops' \cup passedOver'
    BY <1>0, <2>1 DEF PullHolds, relayVars, storeVars, userVars, Ranked
  <2>6. PullHolds(t)'
    BY <2>1, <2>2, <2>4, <2>5 DEF PullHolds, Ranked
  <2> QED BY <1>0, <1>1, <2>1, <2>6
<1>8. CASE Advance(t)
  <2>1. /\ pc[t] = "advance" /\ UNCHANGED <<relayVars, ops, storedEpoch, seen, mark, passedOver>>
        /\ \/ mark[t] > after[t] /\ cursor' = mark[t] /\ after' = [after EXCEPT ![t] = mark[t]]
           \/ cursor' = cursor /\ after' = after
        /\ \/ mark[t] > after[t] /\ after' = [after EXCEPT ![t] = mark[t]] /\ cursor' = mark[t]
              /\ Goto(t, "fetch") /\ UNCHANGED batch
           \/ Goto(t, "drain") /\ Load(t, rtBuffer)
    BY <1>8 DEF Advance, SetCursor, storeVars, userVars
  <2>2. Elsewhere(t) /\ pc'[t] \in {"fetch", "drain"}
    BY <1>8 DEF Advance, Elsewhere, SameLocals, TypeOK
  <2>3. FramesBehind' /\ LogEnds' /\ epoch' = epoch
    BY <2>1, QuietStep DEF relayVars
  <2>4. \A u \in Threads : Adopting(u)' => Adopting(u) /\ seen'[u] = seen[u]
    BY <2>1, <2>2 DEF Adopting, Elsewhere, SameLocals
  <2>5. Current' => Current
    BY <2>1, <2>3, <2>4 DEF Current
  <2>6. CursorHolds'
    <3> SUFFICES ASSUME Current PROVE cursor' <= latest' /\ Covered(cursor)'
      BY <2>5 DEF CursorHolds
    <3>1. cursor <= latest /\ Covered(cursor) /\ seen[t] = epoch /\ after[t] = cursor
          /\ Ranked(batch[t]) = {} /\ mark[t] <= latest
          /\ \A e \in Env : after[t] < seq[e] /\ seq[e] <= mark[t] =>
               e \in Ranked(batch[t]) \cup ops \cup passedOver
      BY <1>0, <2>1 DEF PullHolds, CursorHolds
    <3>2. Covered(mark[t])
      BY <3>1, EpochTypes DEF Covered
    <3>3. cursor' \in {cursor, mark[t]}
      BY <2>1
    <3> QED BY <2>1, <3>1, <3>2, <3>3 DEF Covered, relayVars
  <2>7. PullHolds(t)'
    <3>1. CASE pc'[t] = "drain"
      BY <3>1 DEF PullHolds
    <3>2. CASE pc'[t] = "fetch"
      <4>1. after'[t] = mark[t] /\ cursor' = mark[t]
        BY <2>1, <3>2 DEF TypeOK
      <4> QED BY <3>2, <4>1 DEF PullHolds
    <3> QED BY <2>2, <3>1, <3>2
  <2> QED BY <1>0, <2>1, <2>2, <2>3, <2>6, <2>7, HolderStep DEF PullSteps
<1>9. CASE Release(t)
  <2>1. pc'[t] = "idle" /\ seen'[t] = 0 /\ Elsewhere(t)
    BY <1>9 DEF Release, Return, Elsewhere, SameLocals, TypeOK
  <2>2. PullHolds(t)'
    BY <2>1 DEF PullHolds
  <2> QED BY <1>0, <1>1, <1>9, <2>1, <2>2 DEF Release
<1> QED BY <1>2, <1>3, <1>4, <1>5, <1>6, <1>7, <1>8, <1>9 DEF Pull

LEMMA EpochRealtime ==
  ASSUME TypeOK, TypeOK', BufferInv, EpochInv, NEW t \in Threads, Realtime(t),
         NoWipeDuringPull
  PROVE  EpochInv'
<1> USE DEF At, Goto, Load
<1>0. /\ LogEnds /\ FramesBehind /\ CursorHolds
      /\ seen[t] <= epoch /\ 0 <= epoch /\ storedEpoch <= epoch
  BY EpochTypes DEF EpochInv, EpochsBehind
<1>1. CASE Receive(t)
  <2>1. /\ frames # << >> /\ frames' = Tail(frames) /\ frames \in Seq(Frame)
        /\ UNCHANGED <<seq, latest, epoch, storeVars, userVars>>
    BY <1>1, EpochTypes DEF Receive
  <2>2. Grow /\ FramesBehind'
    BY <1>0, <2>1, QuietGrows, FramesBehindStay DEF storeVars, userVars
  <2>3. LogEnds'
    BY <1>0, <2>1 DEF LogEnds
  <2>4. seen'[t] <= epoch
    <3>1. Head(frames) = frames[1] /\ 1 \in 1 .. Len(frames)
      BY <2>1
    <3>2. Head(frames).type = "hello" => Head(frames).epoch <= epoch
      BY <1>0, <3>1 DEF FramesBehind, FrameBehind
    <3> QED BY <1>0, <1>1, <3>2 DEF Receive, TypeOK
  <2>5. Elsewhere(t) /\ pc'[t] \notin PullSteps \cup {"helloSetEpoch"}
    <3>1. /\ pc' = [pc EXCEPT ![t] = "hello"] \/ pc' = [pc EXCEPT ![t] = "liveLock"]
          /\ batch' = batch \/ batch' = [batch EXCEPT ![t] = Head(frames).ranks]
          /\ seen' = seen \/ seen' = [seen EXCEPT ![t] = Head(frames).epoch]
          /\ mark' = mark \/ mark' = [mark EXCEPT ![t] = Head(frames).latest]
          /\ UNCHANGED <<ids, after>>
      BY <1>1 DEF Receive
    <3>2. pc'[t] \notin PullSteps \cup {"helloSetEpoch"}
      BY <3>1 DEF TypeOK, PullSteps
    <3> QED BY <3>1, <3>2 DEF Elsewhere, SameLocals, TypeOK
  <2> QED BY <2>1, <2>2, <2>3, <2>4, <2>5, OutsideStep DEF storeVars
<1>2. CASE HelloCheckEpoch(t) \/ HelloPull(t) \/ HelloDrain(t)
  <2>1. UNCHANGED <<relayVars, storeVars, userVars>>
    BY <1>2 DEF HelloCheckEpoch, HelloPull, HelloDrain
  <2>2. Elsewhere(t) /\ pc'[t] \notin PullSteps \cup {"helloSetEpoch"} /\ seen'[t] <= epoch
    BY <1>0, <1>2 DEF HelloCheckEpoch, HelloPull, HelloDrain, Elsewhere, SameLocals, TypeOK,
       PullSteps
  <2>3. Grow /\ FramesBehind' /\ LogEnds'
    BY <2>1, QuietGrows, QuietStep DEF relayVars, storeVars, userVars
  <2> QED BY <2>1, <2>2, <2>3, OutsideStep DEF relayVars, storeVars
<1>3. CASE LiveFrame(t)
  <2>1. ~PullInFlight
    BY <1>3, NoneIsNoThread DEF LiveFrame, PullInFlight, BufferInv, LockInv, LockSteps
  <2>2. /\ pc' = [pc EXCEPT ![t] = "live"]
        /\ UNCHANGED <<relayVars, storeVars, userVars, batch, ids, after, mark, seen>>
    BY <1>3, <2>1 DEF LiveFrame
  <2>3. Elsewhere(t) /\ pc'[t] \notin PullSteps \cup {"helloSetEpoch"} /\ seen'[t] <= epoch
    BY <1>0, <2>2 DEF Elsewhere, SameLocals, TypeOK, PullSteps
  <2>4. Grow /\ FramesBehind' /\ LogEnds'
    BY <2>2, QuietGrows, QuietStep DEF relayVars, storeVars, userVars
  <2> QED BY <2>2, <2>3, <2>4, OutsideStep DEF relayVars, storeVars
<1>4. CASE HelloAdoptEpoch(t)
  <2>1. /\ pc[t] = "helloSetEpoch" /\ pc'[t] = "helloPull" /\ Elsewhere(t) /\ seen' = seen
        /\ storedEpoch' = seen[t] /\ UNCHANGED <<relayVars, cursor, ops, saved, passedOver>>
    BY <1>4 DEF HelloAdoptEpoch, SetRestoreEpoch, Elsewhere, SameLocals, TypeOK, userVars
  <2>2. Grow /\ FramesBehind' /\ LogEnds' /\ epoch' = epoch
    BY <2>1, QuietGrows, QuietStep DEF relayVars
  <2>3. \A u \in Threads : Adopting(u)' => Adopting(u) /\ seen'[u] = seen[u]
    BY <2>1 DEF Adopting, Elsewhere, SameLocals
  <2>4. Current' => Current
    BY <2>1, <2>2, <2>3 DEF Current, Adopting
  <2>5. CursorHolds'
    BY <2>1, <2>2, <2>4, CursorStays
  <2>6. ASSUME NEW u \in Threads PROVE PullHolds(u)'
    <3>1. CASE u = t
      BY <2>1, <3>1 DEF PullHolds
    <3>2. CASE u # t
      BY <2>1, <2>2, <2>3, <2>4, <3>2, PullsStay DEF Elsewhere
    <3> QED BY <3>1, <3>2
  <2>7. EpochsBehind'
    BY <1>0, <2>1, <2>2 DEF EpochInv, EpochsBehind
  <2> QED BY <2>2, <2>5, <2>6, <2>7 DEF EpochInv
<1>5. CASE HelloWipe(t)
  <2>1. /\ pc'[t] = "helloSetEpoch" /\ Elsewhere(t) /\ seen' = seen
        /\ cursor' = 0 /\ storedEpoch' = 0 /\ UNCHANGED relayVars
    BY <1>5 DEF HelloWipe, Wipe, Elsewhere, SameLocals, TypeOK
  <2>2. FramesBehind' /\ LogEnds' /\ epoch' = epoch
    BY <2>1, QuietStep DEF relayVars
  <2>3. ASSUME NEW u \in Threads PROVE PullHolds(u)'
    <3>1. pc'[u] \notin PullSteps
      BY <1>5, <2>1 DEF NoWipeDuringPull, PullInFlight, Elsewhere, SameLocals, PullSteps
    <3> QED BY <3>1 DEF PullHolds, PullSteps
  <2>4. EpochsBehind'
    BY <1>0, <2>1, <2>2 DEF EpochInv, EpochsBehind
  <2> QED BY <2>1, <2>2, <2>3, <2>4, NothingToCover DEF EpochInv
<1> QED BY <1>1, <1>2, <1>3, <1>4, <1>5 DEF Realtime

LEMMA EpochApply ==
  ASSUME TypeOK, TypeOK', EpochInv, NEW t \in Threads, ApplyNext(t)
  PROVE  EpochInv'
<1>0. PullHolds(t) /\ seen[t] <= epoch
  BY DEF EpochInv, EpochsBehind
<1> PICK e \in Env :
      /\ IsFirst(batch[t], e) /\ ApplyRemote(e)
      /\ batch' = [batch EXCEPT ![t][e] = 0]
      /\ passedOver' = IF At(t, "page") /\ ~Applicable(e) THEN passedOver \cup {e} ELSE passedOver
  BY DEF ApplyNext
<1>1. /\ UNCHANGED <<relayVars, cursor, storedEpoch, saved>>
      /\ UNCHANGED <<pc, ids, after, mark, seen>>
      /\ pc[t] \in {"ack", "page", "live", "drain"}
  BY DEF ApplyNext, ApplyRemote
<1>2. ops \subseteq ops' /\ passedOver \subseteq passedOver'
      /\ (pc[t] = "page" => e \in ops' \cup passedOver')
  BY DEF ApplyRemote, At
<1>3. Grow /\ FramesBehind' /\ LogEnds'
  BY <1>1, <1>2, QuietGrows, QuietStep DEF relayVars
<1>4. Ranked(batch'[t]) = Ranked(batch[t]) \ {e}
  BY DEF TypeOK, Ranks, Ranked
<1>5. Elsewhere(t)
  BY <1>1 DEF Elsewhere, SameLocals, TypeOK
<1>6. \A u \in Threads : Adopting(u)' => Adopting(u) /\ seen'[u] = seen[u]
  BY <1>1 DEF Adopting
<1>7. Current' => Current
  BY <1>1 DEF Current, Adopting, relayVars
<1>8. PullHolds(t)'
  <2>1. CASE pc[t] = "page"
    <3>1. seen[t] = epoch => \A d \in Env : after[t] < seq[d] /\ seq[d] <= mark[t] =>
            d \in Ranked(batch'[t]) \cup ops' \cup passedOver'
      BY <1>0, <1>2, <1>4, <2>1 DEF PullHolds
    <3>2. after'[t] = cursor' /\ (Current' => seen'[t] = epoch')
      BY <1>0, <1>1, <1>7, <2>1 DEF PullHolds, relayVars
    <3>3. seen'[t] = epoch' => mark'[t] <= latest'
      BY <1>0, <1>1, <2>1 DEF PullHolds, relayVars
    <3>4. \A u \in Threads : Adopting(u)' => seen'[u] <= seen'[t]
      BY <1>0, <1>1, <1>6, <2>1 DEF PullHolds
    <3> QED BY <1>1, <2>1, <3>1, <3>2, <3>3, <3>4 DEF PullHolds, relayVars
  <2>2. CASE pc[t] # "page"
    BY <1>1, <2>2 DEF PullHolds
  <2> QED BY <2>1, <2>2
<1>9. pc'[t] # "helloSetEpoch" /\ seen'[t] <= epoch
  BY <1>0, <1>1
<1> QED BY <1>1, <1>3, <1>5, <1>8, <1>9, EpochCombine DEF relayVars

\* A step of the environment within an epoch: every thread's locals stay.
LEMMA EpochElsewhere ==
  ASSUME TypeOK, TypeOK', EpochInv, Grow, UNCHANGED <<epoch, cursor, storedEpoch, threadVars>>,
         FramesBehind', LogEnds'
  PROVE  EpochInv'
<1>1. /\ \A w \in Threads : Adopting(w)' => Adopting(w) /\ seen'[w] = seen[w]
      /\ \A u \in Threads : SameLocals(u)
  BY DEF Adopting, SameLocals, threadVars
<1>2. Current' => Current
  BY <1>1 DEF Current
<1>3. CursorHolds' /\ \A u \in Threads : PullHolds(u)'
  BY <1>1, <1>2, CursorStays, PullsStay
<1>4. EpochsBehind'
  BY <1>1 DEF EpochInv, EpochsBehind, SameLocals
<1> QED BY <1>3, <1>4 DEF EpochInv

LEMMA EpochUser ==
  ASSUME TypeOK, TypeOK', EpochInv,
         (\E e \in Own : SaveEnqueue(e)) \/ SaveApply \/ Connect \/ Disconnect
  PROVE  EpochInv'
<1>0. LogEnds /\ FramesBehind
  BY DEF EpochInv, EpochsBehind
<1>1. UNCHANGED <<seq, latest, epoch, cursor, storedEpoch, threadVars, passedOver>>
      /\ ops \subseteq ops' /\ saved \subseteq saved'
  BY DEF SaveEnqueue, Enqueue, SaveApply, ApplyRemote, Connect, OpenSocket, Disconnect,
     DropSocket, relayVars, storeVars, userVars
<1>2. Grow
  BY <1>1, QuietGrows
<1>3. FramesBehind'
  <2>1. frames' \in {frames, << >>, <<[type |-> "hello", latest |-> latest, epoch |-> epoch]>>}
    BY DEF SaveEnqueue, SaveApply, Connect, OpenSocket, Disconnect, DropSocket, relayVars
  <2> DEFINE x == [type |-> "hello", latest |-> latest, epoch |-> epoch]
  <2>2. FrameBehind(x)
    BY EpochTypes DEF FrameBehind
  <2>3. frames' = frames \/ frames' = << >> \/ frames' = <<x>>
    BY <2>1
  <2> HIDE DEF x
  <2> QED BY <1>0, <1>1, <2>2, <2>3, FramesBehindStay
<1>4. LogEnds'
  BY <1>0, <1>1 DEF LogEnds
<1> QED BY <1>1, <1>2, <1>3, <1>4, EpochElsewhere

\* The process dies: no thread is anywhere, the cursor and its epoch are on disk.
LEMMA EpochCrash ==
  ASSUME TypeOK, TypeOK', EpochInv, Crash
  PROVE  EpochInv'
<1>1. /\ \A u \in Threads : pc'[u] = "idle" /\ seen'[u] = 0
      /\ UNCHANGED <<seq, latest, epoch, storeVars, passedOver>> /\ frames' = << >>
  BY DEF Crash, DropSocket
<1>2. Current' => Current
  BY <1>1 DEF Current, Adopting, storeVars
<1>3. CursorHolds'
  BY <1>1, <1>2 DEF EpochInv, CursorHolds, Covered, storeVars
<1>4. \A u \in Threads : PullHolds(u)'
  BY <1>1 DEF PullHolds
<1>5. EpochsBehind' /\ LogEnds'
  BY <1>1, EpochTypes DEF EpochInv, EpochsBehind, FramesBehind, LogEnds, storeVars
<1> QED BY <1>3, <1>4, <1>5 DEF EpochInv

\* A restore from backup leaves everyone behind: nothing is claimed until the new epoch
\* is adopted.
LEMMA EpochRemote ==
  ASSUME TypeOK, TypeOK', EpochInv, Remote
  PROVE  EpochInv'
<1>0. /\ LogEnds /\ FramesBehind /\ storedEpoch <= epoch /\ \A u \in Threads : seen[u] <= epoch
      /\ \A u \in Threads : PullHolds(u)
  BY DEF EpochInv, EpochsBehind
<1>1. ASSUME NEW n \in 0 .. latest, RestoreBackup(n) PROVE EpochInv'
  <2>1. /\ epoch' = epoch + 1 /\ frames' = << >> /\ latest' = n
        /\ seq' = [e \in Env |-> IF seq[e] <= n THEN seq[e] ELSE 0]
        /\ UNCHANGED <<storeVars, threadVars, userVars>>
    BY <1>1 DEF RestoreBackup, Remote
  <2>2. LogEnds'
    BY <2>1 DEF LogEnds
  <2>3. /\ storedEpoch' <= epoch' /\ storedEpoch' # epoch'
        /\ \A u \in Threads : seen'[u] <= epoch' /\ seen'[u] # epoch'
    BY <1>0, <2>1, EpochTypes DEF storeVars, threadVars
  <2>4. ~Current'
    BY <2>3 DEF Current
  <2>5. ASSUME NEW u \in Threads PROVE PullHolds(u)'
    BY <1>0, <2>1, <2>3, <2>4 DEF PullHolds, Adopting, storeVars, threadVars, Ranked
  <2>6. EpochsBehind' /\ CursorHolds'
    BY <2>1, <2>3, <2>4 DEF EpochsBehind, FramesBehind, CursorHolds
  <2> QED BY <2>2, <2>5, <2>6 DEF EpochInv
<1>2. ASSUME NEW e \in Foreign, ForeignCommit(e) PROVE EpochInv'
  <2>1. /\ seq' = [seq EXCEPT ![e] = latest + 1] /\ latest' = latest + 1 /\ epoch' = epoch
        /\ e \notin Committed /\ UNCHANGED <<storeVars, threadVars, userVars>>
    BY <1>2 DEF ForeignCommit, Remote
  <2>2. e \in Env /\ seq \in [Env -> Nat] /\ latest \in Nat
    BY EpochTypes DEF Env
  <2>3. Grow
    <3>1. Committed' = Committed \cup {e}
      BY <2>1, <2>2 DEF Committed, Ranked
    <3> QED BY <2>1, <2>2, <3>1 DEF Grow, storeVars, userVars, Committed, Ranked
  <2>4. LogEnds'
    BY <1>0, <2>1, <2>2 DEF LogEnds
  <2>5. FramesBehind'
    <3> DEFINE x == [type |-> "ops", ranks |-> [NoRanks EXCEPT ![e] = latest + 1]]
    <3>1. [NoRanks EXCEPT ![e] = latest + 1] \in Ranks
      BY <2>2, RanksType
    <3>2. x \in Frame /\ FrameBehind(x)
      BY <3>1 DEF Frame, FrameBehind
    <3>3. frames' = frames \/ frames' = Append(frames, x)
      BY <1>2 DEF ForeignCommit
    <3> HIDE DEF x
    <3> QED BY <1>0, <2>1, <3>2, <3>3, FramesBehindStay
  <2> QED BY <2>1, <2>3, <2>4, <2>5, EpochElsewhere DEF storeVars
<1> QED BY <1>1, <1>2 DEF Remote

LEMMA EpochInit == Init => EpochInv
<1> SUFFICES ASSUME Init PROVE EpochInv
  OBVIOUS
<1> USE DEF Init, RelayInit, StoreInit, ThreadInit
<1>1. \A u \in Threads : pc[u] = "idle" /\ seen[u] = 0
  OBVIOUS
<1>2. \A e \in Env : seq[e] = 0
  BY DEF NoRanks
<1>3. EpochsBehind /\ LogEnds /\ CursorHolds
  BY <1>1, <1>2 DEF EpochsBehind, FramesBehind, LogEnds, CursorHolds, Covered
<1>4. \A u \in Threads : PullHolds(u)
  BY <1>1 DEF PullHolds
<1> QED BY <1>3, <1>4 DEF EpochInv

LEMMA EpochStep ==
  ASSUME TypeOK, TypeOK', BufferInv, EpochInv, [Next]_vars, [NoWipeDuringPull]_vars
  PROVE  EpochInv'
<1>1. CASE UNCHANGED vars
  <2>1. /\ UNCHANGED <<seq, latest, epoch, frames, ops, cursor, storedEpoch, saved, threadVars,
                       passedOver>>
    BY <1>1 DEF vars, relayVars, storeVars, lockVars, userVars
  <2> QED BY <2>1, QuietGrows, QuietStep, EpochElsewhere
<1>2. CASE Next /\ NoWipeDuringPull
  BY <1>2, EpochPush, EpochPull, EpochRealtime, EpochApply, EpochUser, EpochCrash, EpochRemote
     DEF Next, ThreadStep
<1> QED BY <1>1, <1>2

(***************************************************************************)
(* Through any number of restores from backup, with any threads, pages,    *)
(* faults and crashes, the cursor passes over no envelope the mirror has   *)
(* not applied or refused, as long as no hello wipes the store while a     *)
(* pull is under way (pull's loop with its epoch check, wipe,              *)
(* set_restore_epoch; _on_rt_hello).  Without that the claim is false.     *)
(***************************************************************************)
THEOREM CursorCoversAcrossRestores ==
  Spec /\ [][NoWipeDuringPull]_vars => []CursorCoverage
<1>1. EpochInv => CursorCoverage
  BY DEF EpochInv, CursorHolds, Current, Covered, CursorCoverage
<1> QED BY <1>1, EpochInit, EpochStep, TypeCorrect, BufferAlways, PTL DEF Spec

\* Only a reader thread handles frames.
HelloByReader ==
  \A t \in Threads \ Readers :
    pc[t] \notin {"hello", "helloWipe", "helloSetEpoch", "helloPull", "drainLock", "liveLock"}

LEMMA HelloByReaderStep ==
  ASSUME TypeOK, HelloByReader, [Next]_vars
  PROVE  HelloByReader'
<1> DEFINE Handling == {"hello", "helloWipe", "helloSetEpoch", "helloPull", "drainLock", "liveLock"}
<1>1. CASE UNCHANGED pc
  BY <1>1 DEF HelloByReader
<1>2. ASSUME NEW t \in Threads, NEW s \in Steps \ Handling, Goto(t, s) PROVE HelloByReader'
  BY <1>2 DEF HelloByReader, Goto, TypeOK
<1>3. ASSUME NEW t \in Readers, NEW s, Goto(t, s) PROVE HelloByReader'
  BY <1>3 DEF HelloByReader, Goto, TypeOK
<1>4. CASE Crash
  BY <1>4 DEF Crash, HelloByReader
<1>5. ASSUME NEW t \in Threads, ThreadStep(t) \/ ThreadFault(t) PROVE HelloByReader'
  <2>1. {"idle", "take", "submit", "park", "ack", "lock", "fetch", "check", "wipe", "setEpoch",
         "page", "advance", "drain", "live"} \subseteq Steps \ Handling
    BY DEF Steps, LockSteps, PullSteps
  <2>2. \/ UNCHANGED pc
        \/ \E s \in {"idle", "take", "submit", "park", "ack", "lock", "fetch", "check", "wipe",
                     "setEpoch", "page", "advance", "drain", "live"} : Goto(t, s)
        \/ t \in Readers /\ \E s \in Steps : Goto(t, s)
        \/ pc[t] \in Handling /\ \E s \in Steps : Goto(t, s)
    <3>1. CASE StartSync(t) \/ Push(t)
      BY <3>1 DEF StartSync, Push, TakeChunk, EndPush, SubmitTooLarge, Return, SubmitAccepted,
         SubmitRejected, Quarantine, MarkSent
    <3>2. CASE Pull(t)
      BY <3>2 DEF Pull, PullBegin, FetchPage, CheckEpoch, WipeForEpoch, AdoptEpoch, PageApplied,
         Advance, Release, Return
    <3>3. CASE Receive(t)
      BY <3>3 DEF Receive, Steps
    <3>4. CASE \/ HelloCheckEpoch(t) \/ HelloWipe(t) \/ HelloAdoptEpoch(t) \/ HelloPull(t)
               \/ HelloDrain(t) \/ LiveFrame(t)
      BY <3>4 DEF HelloCheckEpoch, HelloWipe, HelloAdoptEpoch, HelloPull, HelloDrain, LiveFrame,
         Return, At, Steps, LockSteps
    <3>5. CASE ApplyNext(t)
      BY <3>5 DEF ApplyNext
    <3>6. CASE ThreadFault(t)
      BY <3>6 DEF ThreadFault, SubmitFails, EndPush, SubmitUnauthorized, FetchFails, Return
    <3> QED BY <1>5, <3>1, <3>2, <3>3, <3>4, <3>5, <3>6 DEF ThreadStep, Realtime
  <2>3. pc[t] \in Handling => t \in Readers
    BY DEF HelloByReader
  <2> QED BY <1>1, <1>2, <1>3, <2>1, <2>2, <2>3
<1>6. CASE (\E e \in Own : SaveEnqueue(e)) \/ SaveApply \/ Connect \/ Disconnect \/ Remote
  BY <1>1, <1>6 DEF SaveEnqueue, SaveApply, Connect, Disconnect, Remote, threadVars
<1>7. CASE UNCHANGED vars
  BY <1>1, <1>7 DEF vars, threadVars
<1> QED BY <1>4, <1>5, <1>6, <1>7 DEF Next

(***************************************************************************)
(* Where nothing listens on the WebSocket, no assumption is left: however  *)
(* often the server is restored and however many syncs run at once, the    *)
(* cursor covers the log of the epoch the store is in (SyncEngine.sync).   *)
(***************************************************************************)
THEOREM CursorCoversWithoutReader ==
  ASSUME Readers = {}
  PROVE  Spec => []CursorCoverage
<1>1. Init => HelloByReader
  BY DEF Init, ThreadInit, HelloByReader
<1>2. HelloByReader => NoWipeDuringPull
  BY DEF HelloByReader, NoWipeDuringPull, HelloWipe, At
<1>3. [](HelloByReader) => [][NoWipeDuringPull]_vars
  BY <1>2, PTL
<1>4. Spec => []HelloByReader
  BY <1>1, HelloByReaderStep, TypeCorrect, PTL DEF Spec
<1> QED BY <1>3, <1>4, CursorCoversAcrossRestores, PTL
=============================================================================
