------------------------------- MODULE HlcClock -------------------------------
(***************************************************************************)
(* core/protocol/clock.py and the two threads of one device that share its *)
(* Clock.  ui/window.py makes the clock; the GTK main thread stamps new    *)
(* envelopes with advance (new_envelope), the sync engine's pull merges    *)
(* the newest HLC of a page with update.  Neither takes a lock: a call is  *)
(* cut where CPython may switch threads, which is inside the calls to      *)
(* Hlc() and max(), not between the store into _last and the return that   *)
(* reads it.                                                               *)
(***************************************************************************)
EXTENDS Naturals

CONSTANTS
  MaxWall,     \* bound: milliseconds that pass, here and on other devices
  MaxCounter,  \* bound: logical counters, here and on other devices
  MaxRestarts  \* bound: how often the process restarts

HlcOf(p, l) == [physical |-> p, logical |-> l]
Zero == HlcOf(0, 0)

\* compare_hlc(a, b) < 0
Before(a, b) ==
  \/ a.physical < b.physical
  \/ a.physical = b.physical /\ a.logical < b.logical

Greater(m, n) == IF m >= n THEN m ELSE n

\* advance: the value it makes of a reading of _last.
Advanced(prior, wall) ==
  IF wall > prior.physical THEN HlcOf(wall, 0)
                           ELSE HlcOf(prior.physical, prior.logical + 1)

\* Wrong on purpose: a received counter that is ahead is not merged.
MergedLogicalOwn(top, prior, received) ==
  IF top = prior.physical THEN prior.logical + 1 ELSE 0

\* update: its first branch, and the logical part of the second, which it
\* makes of a later reading of _last than the physical part.
WallAhead(prior, received, wall) ==
  wall > prior.physical /\ wall > received.physical

MergedLogical(top, prior, received) ==
  CASE top = prior.physical /\ top = received.physical ->
         Greater(prior.logical, received.logical) + 1
    [] top = prior.physical /\ top # received.physical -> prior.logical + 1
    [] OTHER -> received.logical + 1

VARIABLES
  now,      \* wall-clock milliseconds
  last,     \* Clock._last
  drawn,    \* main thread: the value advance is about to store, or Zero
  merge,    \* pull: where update stands, what it merges, what it will store
  pulled,   \* history: the newest HLC a pull has merged
  overtaken, \* history: the calls under way since whose reading the other stored
  restarts

clockVars == <<now, last, drawn, merge, pulled, overtaken, restarts>>

NoMerge == [at |-> "none", received |-> Zero, value |-> Zero]

ClockInit ==
  /\ now = 0
  /\ last = Zero
  /\ drawn = Zero
  /\ merge = NoMerge
  /\ pulled = Zero
  /\ overtaken = {}
  /\ restarts = 0

\* new_envelope calls advance.
AdvanceRead ==
  /\ drawn = Zero
  /\ last.logical < MaxCounter
  /\ drawn' = Advanced(last, now)
  /\ UNCHANGED <<now, last, merge, pulled, overtaken, restarts>>

\* The envelope's stamp is what advance stores.
AdvanceStore ==
  /\ drawn # Zero
  /\ last' = drawn
  /\ drawn' = Zero
  /\ overtaken' = IF merge.at # "none" THEN {"update"} ELSE {}
  /\ UNCHANGED <<now, merge, pulled, restarts>>

\* A page is applied and its newest HLC handed to update.
UpdateRead(received) ==
  /\ merge.at = "none"
  /\ last.logical < MaxCounter
  /\ merge' = IF WallAhead(last, received, now)
                THEN [at |-> "store", received |-> received,
                      value |-> HlcOf(now, 0)]
                ELSE [at |-> "logical", received |-> received,
                      value |-> HlcOf(Greater(last.physical, received.physical), 0)]
  /\ UNCHANGED <<now, last, drawn, pulled, overtaken, restarts>>

UpdateLogical ==
  /\ merge.at = "logical"
  /\ LET top == merge.value.physical
     IN merge' = [merge EXCEPT !.at = "store", !.value =
                    HlcOf(top, MergedLogical(top, last, merge.received))]
  /\ UNCHANGED <<now, last, drawn, pulled, overtaken, restarts>>

UpdateStore ==
  /\ merge.at = "store"
  /\ last' = merge.value
  /\ merge' = NoMerge
  /\ pulled' = IF Before(pulled, merge.received) THEN merge.received ELSE pulled
  /\ overtaken' = IF drawn # Zero THEN {"advance"} ELSE {}
  /\ UNCHANGED <<now, drawn, restarts>>

TimePasses ==
  /\ now < MaxWall
  /\ now' = now + 1
  /\ UNCHANGED <<last, drawn, merge, pulled, overtaken, restarts>>

\* The process ends and starts again: the clock is not persisted, the cursor
\* is, so what was pulled is not pulled again.
RestartProcess ==
  /\ restarts < MaxRestarts
  /\ restarts' = restarts + 1
  /\ last' = Zero
  /\ drawn' = Zero
  /\ merge' = NoMerge
  /\ overtaken' = {}
  /\ UNCHANGED <<now, pulled>>

ClockNext ==
  \/ AdvanceRead \/ AdvanceStore
  \/ \E p \in 0 .. MaxWall, l \in 0 .. MaxCounter : UpdateRead(HlcOf(p, l))
  \/ UpdateLogical \/ UpdateStore
  \/ TimePasses \/ RestartProcess

ClockSpec == ClockInit /\ [][ClockNext]_clockVars

(***************************************************************************)
(* "subsequently stamped envelopes stay causally ahead of pulled state"    *)
(* (engine.py:365): what advance makes after a merge is above every HLC    *)
(* merged.  A restart forgets them: an edit of a row that a device with a  *)
(* faster clock wrote is then stamped below it, and the row-level          *)
(* comparison drops the edit.                                              *)
(***************************************************************************)
StampedAhead == [][drawn = Zero /\ drawn' # Zero => Before(pulled, drawn')]_clockVars

(***************************************************************************)
(* Where the docstring's guarantee ends.  A call that stores what it made  *)
(* of a reading the other call has since replaced:                         *)
(***************************************************************************)
OvertakenStore ==
  \/ "advance" \in overtaken /\ AdvanceStore
  \/ "update" \in overtaken /\ UpdateStore

\* The clock stands below something a pull handed to it.
Behind == Before(last, pulled)

(***************************************************************************)
(* "guaranteeing that the local last HLC never decreases" (clock.py:63),   *)
(* "causally ahead of pulled state" (engine.py:365): _last decreases, and  *)
(* falls below what was pulled, at a restart and at the store of an        *)
(* overtaken call, and at no other step, whatever the wall clock and the   *)
(* received HLCs are and however the calls overlap otherwise.  No merge,   *)
(* torn by an advance or not, ends at or below what it merged; and while   *)
(* the clock is behind, the wall clock passing what was pulled brings the  *)
(* stamps back above it: none falls at or below it otherwise.              *)
(***************************************************************************)
OnlyOverlapsSetBack ==
  [][/\ Before(last', last) => RestartProcess \/ OvertakenStore
     /\ ~Behind /\ Behind' => RestartProcess \/ OvertakenStore
     /\ UpdateStore => Before(merge.received, last')
     /\ drawn = Zero /\ drawn' # Zero /\ ~Before(pulled, drawn') =>
          Behind /\ now <= pulled.physical]_clockVars
=============================================================================
