---------------------------- MODULE HlcClockProofs ----------------------------
(***************************************************************************)
(* What the clock keeps, for any wall clock, any received HLCs and any     *)
(* interleaving of its calls: which steps take it back, and which leave it *)
(* behind what was pulled.                                                 *)
(***************************************************************************)
EXTENDS HlcClock, TLAPS

Hlc == [physical : Nat, logical : Nat]

LEMMA HlcOfType == ASSUME NEW p \in Nat, NEW l \in Nat PROVE HlcOf(p, l) \in Hlc
  BY DEF HlcOf, Hlc

LEMMA ZeroType == Zero \in Hlc /\ Zero.physical = 0 /\ Zero.logical = 0
  BY DEF Zero, HlcOf, Hlc

(***************************************************************************)
(* advance moves forward whatever the wall clock says (clock.py:89-96).    *)
(***************************************************************************)
LEMMA AdvanceIsLater ==
  ASSUME NEW prior \in Hlc, NEW wall \in Nat
  PROVE  /\ Advanced(prior, wall) \in Hlc
         /\ Before(prior, Advanced(prior, wall))
  BY DEF Hlc, Advanced, Before, HlcOf

(***************************************************************************)
(* update's two branches make a value above both HLCs (clock.py:112-123).  *)
(***************************************************************************)
LEMMA WallIsLater ==
  ASSUME NEW prior \in Hlc, NEW received \in Hlc, NEW wall \in Nat,
         WallAhead(prior, received, wall)
  PROVE  /\ HlcOf(wall, 0) \in Hlc
         /\ Before(prior, HlcOf(wall, 0))
         /\ Before(received, HlcOf(wall, 0))
  BY DEF Hlc, WallAhead, Before, HlcOf

LEMMA MergeIsLater ==
  ASSUME NEW prior \in Hlc, NEW received \in Hlc
  PROVE  LET top == Greater(prior.physical, received.physical)
             new == HlcOf(top, MergedLogical(top, prior, received))
         IN new \in Hlc /\ Before(prior, new) /\ Before(received, new)
<1> DEFINE top == Greater(prior.physical, received.physical)
           new == HlcOf(top, MergedLogical(top, prior, received))
<1>1. /\ prior.physical \in Nat /\ prior.logical \in Nat
      /\ received.physical \in Nat /\ received.logical \in Nat
  BY DEF Hlc
<1>2. top \in Nat /\ top >= prior.physical /\ top >= received.physical
  BY <1>1 DEF Greater
<1>3. CASE top = prior.physical /\ top = received.physical
  <2>1. new = HlcOf(top, Greater(prior.logical, received.logical) + 1)
    BY <1>3 DEF MergedLogical
  <2> QED
    BY <1>1, <1>2, <1>3, <2>1 DEF HlcOf, Hlc, Before, Greater
<1>4. CASE top = prior.physical /\ top # received.physical
  <2>1. new = HlcOf(top, prior.logical + 1)
    BY <1>4 DEF MergedLogical
  <2> QED
    BY <1>1, <1>2, <1>4, <2>1 DEF HlcOf, Hlc, Before
<1>5. CASE top # prior.physical
  <2>1. new = HlcOf(top, received.logical + 1) /\ top = received.physical
    BY <1>5 DEF MergedLogical, Greater
  <2> QED
    BY <1>1, <1>2, <1>5, <2>1 DEF HlcOf, Hlc, Before
<1> QED
  BY <1>3, <1>4, <1>5

-----------------------------------------------------------------------------
\* A merge cut at its second reading: its physical part is not below what it
\* merges, and the logical part made of any later reading puts it above.
LEMMA TornMergeIsLater ==
  ASSUME NEW prior \in Hlc, NEW received \in Hlc, NEW top \in Nat,
         top >= received.physical
  PROVE  LET new == HlcOf(top, MergedLogical(top, prior, received))
         IN new \in Hlc /\ Before(received, new)
<1> DEFINE new == HlcOf(top, MergedLogical(top, prior, received))
<1>1. /\ prior.physical \in Nat /\ prior.logical \in Nat
      /\ received.physical \in Nat /\ received.logical \in Nat
  BY DEF Hlc
<1>2. CASE top = prior.physical /\ top = received.physical
  <2>1. new = HlcOf(top, Greater(prior.logical, received.logical) + 1)
    BY <1>2 DEF MergedLogical
  <2> QED
    BY <1>1, <1>2, <2>1 DEF HlcOf, Hlc, Before, Greater
<1>3. CASE top = prior.physical /\ top # received.physical
  <2>1. new = HlcOf(top, prior.logical + 1)
    BY <1>3 DEF MergedLogical
  <2> QED
    BY <1>1, <1>3, <2>1 DEF HlcOf, Hlc, Before
<1>4. CASE top # prior.physical
  <2>1. new = HlcOf(top, received.logical + 1)
    BY <1>4 DEF MergedLogical
  <2> QED
    BY <1>1, <1>4, <2>1 DEF HlcOf, Hlc, Before
<1> QED
  BY <1>2, <1>3, <1>4

LEMMA BeforeIsOrder ==
  ASSUME NEW a \in Hlc, NEW b \in Hlc, NEW c \in Hlc
  PROVE  /\ Before(a, b) => ~Before(b, a)
         /\ ~Before(b, a) /\ Before(b, c) => Before(a, c)
         /\ ~Before(a, a)
         /\ ~Before(a, Zero)
  BY ZeroType DEF Before, Hlc

Typed ==
  /\ now \in Nat /\ last \in Hlc /\ drawn \in Hlc /\ pulled \in Hlc
  /\ merge \in [at : {"none", "logical", "store"}, received : Hlc, value : Hlc]
  /\ overtaken \subseteq {"advance", "update"}

\* Whatever a call is about to store is above _last unless the other call has
\* stored since it read; what a merge stores is above what it merges anyway.
Ahead ==
  /\ drawn = Zero => "advance" \notin overtaken
  /\ drawn # Zero /\ "advance" \notin overtaken => Before(last, drawn)
  /\ merge.at = "none" => "update" \notin overtaken
  /\ merge.at = "logical" =>
       /\ merge.value.physical >= merge.received.physical
       /\ "update" \notin overtaken =>
            merge.value.physical = Greater(last.physical, merge.received.physical)
  /\ merge.at = "store" =>
       /\ Before(merge.received, merge.value)
       /\ "update" \notin overtaken => Before(last, merge.value)

\* What one step may do to _last and to a stamp.
StepIsOrdered ==
  /\ Before(last', last) => RestartProcess \/ OvertakenStore
  /\ ~Behind /\ Behind' => RestartProcess \/ OvertakenStore
  /\ UpdateStore => Before(merge.received, last')
  /\ drawn = Zero /\ drawn' # Zero /\ ~Before(pulled, drawn') =>
       Behind /\ now <= pulled.physical

LEMMA AheadInit == ClockInit => Typed /\ Ahead
  BY ZeroType DEF ClockInit, Typed, Ahead, NoMerge

\* Steps that leave _last, the stamp and the pulled HLC alone.
LEMMA QuietStep ==
  ASSUME Typed, last' = last, pulled' = pulled, drawn' = drawn, ~UpdateStore
  PROVE  StepIsOrdered
  BY BeforeIsOrder DEF Typed, StepIsOrdered, Behind

LEMMA AheadStep ==
  ASSUME Typed, Ahead, [ClockNext]_clockVars
  PROVE  Typed' /\ Ahead' /\ StepIsOrdered
<1>1. CASE AdvanceRead
  <2>1. drawn' \in Hlc /\ Before(last, drawn')
    BY <1>1, AdvanceIsLater DEF AdvanceRead, Typed
  <2>2. ~Before(pulled, drawn') => Behind /\ now <= pulled.physical
    <3>1. ~Behind => Before(pulled, drawn')
      BY <2>1, BeforeIsOrder DEF Behind, Typed
    <3>2. now > pulled.physical => Before(pulled, drawn')
      BY <1>1 DEF AdvanceRead, Advanced, Before, HlcOf, Typed, Hlc
    <3> QED
      BY <3>1, <3>2 DEF Typed, Hlc
  <2>3. last' = last /\ pulled' = pulled /\ ~UpdateStore
    BY <1>1 DEF AdvanceRead, UpdateStore, NoMerge
  <2>4. StepIsOrdered
    BY <2>2, <2>3, BeforeIsOrder DEF StepIsOrdered, Behind, Typed
  <2> QED
    BY <1>1, <2>1, <2>4 DEF AdvanceRead, Typed, Ahead
<1>2. CASE AdvanceStore
  <2>1. ~UpdateStore
    BY <1>2, ZeroType DEF AdvanceStore, UpdateStore
  <2>2. ASSUME "advance" \in overtaken PROVE StepIsOrdered
    BY <1>2, <2>1, <2>2 DEF StepIsOrdered, OvertakenStore, AdvanceStore
  <2>3. ASSUME "advance" \notin overtaken PROVE StepIsOrdered
    <3>1. Before(last, drawn) /\ last' = drawn /\ pulled' = pulled /\ drawn' = Zero
      BY <1>2, <2>3 DEF AdvanceStore, Ahead
    <3> QED
      BY <2>1, <3>1, BeforeIsOrder DEF StepIsOrdered, Behind, Typed
  <2>4. Typed' /\ Ahead'
    BY <1>2, ZeroType DEF AdvanceStore, Typed, Ahead
  <2> QED
    BY <2>2, <2>3, <2>4
<1>3. ASSUME NEW p \in 0 .. MaxWall, NEW l \in 0 .. MaxCounter,
             UpdateRead(HlcOf(p, l))
      PROVE  Typed' /\ Ahead' /\ StepIsOrdered
  <2> DEFINE received == HlcOf(p, l)
  <2>1. received \in Hlc /\ merge.at = "none" /\ "update" \notin overtaken
    BY <1>3, HlcOfType DEF UpdateRead, Ahead
  <2>2. /\ last' = last /\ pulled' = pulled /\ drawn' = drawn /\ now' = now
        /\ overtaken' = overtaken /\ ~UpdateStore
    BY <1>3, <2>1 DEF UpdateRead, UpdateStore
  <2>3. StepIsOrdered
    BY <2>2, QuietStep
  <2>4. CASE WallAhead(last, received, now)
    <3>1. merge' = [at |-> "store", received |-> received, value |-> HlcOf(now, 0)]
      BY <1>3, <2>4 DEF UpdateRead
    <3>2. /\ HlcOf(now, 0) \in Hlc
          /\ Before(last, HlcOf(now, 0)) /\ Before(received, HlcOf(now, 0))
      BY <2>1, <2>4, WallIsLater DEF Typed
    <3> HIDE DEF received
    <3> QED
      BY <2>1, <2>2, <2>3, <3>1, <3>2 DEF Typed, Ahead
  <2>5. CASE ~WallAhead(last, received, now)
    <3> DEFINE top == Greater(last.physical, received.physical)
    <3>1. merge' = [at |-> "logical", received |-> received, value |-> HlcOf(top, 0)]
      BY <1>3, <2>5 DEF UpdateRead
    <3>2. top \in Nat /\ top >= received.physical
      BY <2>1 DEF Greater, Typed, Hlc
    <3>3. HlcOf(top, 0) \in Hlc /\ HlcOf(top, 0).physical = top
      BY <3>2 DEF HlcOf, Hlc
    <3> HIDE DEF received
    <3> QED
      BY <2>1, <2>2, <2>3, <3>1, <3>2, <3>3 DEF Typed, Ahead
  <2> QED
    BY <2>4, <2>5
<1>4. CASE UpdateLogical
  <2> DEFINE top == merge.value.physical
             new == HlcOf(top, MergedLogical(top, last, merge.received))
  <2>1. merge' = [merge EXCEPT !.at = "store", !.value = new]
    BY <1>4 DEF UpdateLogical
  <2>2. new \in Hlc /\ Before(merge.received, new)
    BY <1>4, TornMergeIsLater DEF UpdateLogical, Typed, Ahead, Hlc
  <2>3. "update" \notin overtaken => Before(last, new)
    BY <1>4, MergeIsLater DEF UpdateLogical, Typed, Ahead
  <2>4. /\ last' = last /\ pulled' = pulled /\ drawn' = drawn /\ now' = now
        /\ overtaken' = overtaken /\ merge.at = "logical"
    BY <1>4 DEF UpdateLogical
  <2>5. StepIsOrdered
    BY <2>4, QuietStep DEF UpdateStore
  <2> HIDE DEF new
  <2>6. /\ merge' \in [at : {"none", "logical", "store"}, received : Hlc, value : Hlc]
        /\ merge'.at = "store" /\ merge'.value = new /\ merge'.received = merge.received
    BY <2>1, <2>2 DEF Typed
  <2> QED
    BY <2>2, <2>3, <2>4, <2>5, <2>6 DEF Typed, Ahead
<1>5. CASE UpdateStore
  <2>1. /\ last' = merge.value /\ merge' = NoMerge /\ drawn' = drawn /\ now' = now
        /\ Before(merge.received, last')
        /\ overtaken' = IF drawn # Zero THEN {"advance"} ELSE {}
    BY <1>5 DEF UpdateStore, Ahead
  <2>2. pulled' \in {pulled, merge.received} /\ pulled' \in Hlc
    BY <1>5 DEF UpdateStore, Typed
  <2>3. NoMerge \in [at : {"none", "logical", "store"}, received : Hlc, value : Hlc]
        /\ NoMerge.at = "none"
    BY ZeroType DEF NoMerge
  <2>4. Typed' /\ Ahead'
    BY <2>1, <2>2, <2>3 DEF Typed, Ahead
  <2>5. ASSUME "update" \in overtaken PROVE StepIsOrdered
    BY <1>5, <2>1, <2>5 DEF StepIsOrdered, OvertakenStore
  <2>6. ASSUME "update" \notin overtaken PROVE StepIsOrdered
    <3>1. Before(last, last')
      BY <1>5, <2>1, <2>6 DEF UpdateStore, Ahead
    <3>2. merge.received \in Hlc /\ last' \in Hlc
      BY <2>1 DEF Typed
    <3>3. ~Behind => ~Behind'
      BY <2>1, <2>2, <3>1, <3>2, BeforeIsOrder DEF Behind, Typed
    <3> QED
      BY <2>1, <3>1, <3>2, <3>3, BeforeIsOrder DEF StepIsOrdered, Typed
  <2> QED
    BY <2>4, <2>5, <2>6
<1>6. CASE TimePasses
  <2>1. /\ last' = last /\ pulled' = pulled /\ drawn' = drawn /\ merge' = merge
        /\ overtaken' = overtaken /\ now' = now + 1
    BY <1>6 DEF TimePasses
  <2>2. ~UpdateStore
    BY <2>1 DEF UpdateStore, Typed
  <2> QED
    BY <2>1, <2>2, QuietStep DEF Typed, Ahead
<1>7. CASE RestartProcess
  <2>1. NoMerge \in [at : {"none", "logical", "store"}, received : Hlc, value : Hlc]
        /\ NoMerge.at = "none"
    BY ZeroType DEF NoMerge
  <2>2. Typed' /\ Ahead'
    BY <1>7, <2>1, ZeroType DEF RestartProcess, Typed, Ahead
  <2> QED
    BY <1>7, <2>2 DEF RestartProcess, StepIsOrdered, UpdateStore
<1>8. CASE UNCHANGED clockVars
  <2>1. /\ last' = last /\ pulled' = pulled /\ drawn' = drawn /\ merge' = merge
        /\ overtaken' = overtaken /\ now' = now
    BY <1>8 DEF clockVars
  <2> QED
    BY <2>1, BeforeIsOrder DEF Typed, Ahead, StepIsOrdered, Behind, UpdateStore, NoMerge
<1> QED
  BY <1>1, <1>2, <1>3, <1>4, <1>5, <1>6, <1>7, <1>8 DEF ClockNext

(***************************************************************************)
(* For any wall clock, any HLCs received, any interleaving of the two      *)
(* threads' calls and any number of restarts: the clock decreases, and     *)
(* falls below what was pulled, only where the process restarts or a call  *)
(* stores what it made of a reading the other call had replaced; no merge  *)
(* ends below what it merged; and a stamp at or below something pulled     *)
(* needs a clock that has fallen behind and a wall clock that has not yet  *)
(* passed it (clock.py:63, engine.py:364-366).                             *)
(***************************************************************************)
THEOREM ClockSetBackByOverlaps == ClockSpec => OnlyOverlapsSetBack
<1>1. Typed /\ Ahead /\ [ClockNext]_clockVars => (Typed /\ Ahead)'
  BY AheadStep
<1>2. Typed /\ Ahead /\ [ClockNext]_clockVars => [StepIsOrdered]_clockVars
  BY AheadStep
<1> QED
  BY <1>1, <1>2, AheadInit, PTL DEF ClockSpec, OnlyOverlapsSetBack, StepIsOrdered
=============================================================================
