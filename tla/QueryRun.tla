------------------------------- MODULE QueryRun -------------------------------
(***************************************************************************)
(* The live query section of a page: store threads that commit a change    *)
(* and fan the notification out (data/store.py), the section's listener    *)
(* that arms at most one main-loop refresh (ui/query_section.py) and the   *)
(* run it triggers (ui/query_run.py).                                      *)
(*                                                                         *)
(* The mirror is a change counter.  The listener's test of _notify_armed,  *)
(* its assignment and the idle_add are steps of their own; apply_remote    *)
(* and wipe take all of them under the store's lock, restore_snapshot      *)
(* does not hold it, and the main loop's clearing of the flag never does.  *)
(* Notifications arrive through the main loop only, so a run is never      *)
(* notified in flight and the dirty flag of _sync_run stays down.          *)
(***************************************************************************)
EXTENDS Naturals

CONSTANTS
  Locked,      \* threads that change the mirror under the lock
  Unlocked,    \* those that do not: a snapshot restore
  Gui,         \* the main thread, one of Locked: an edit of the user's
  MaxChanges   \* bound on the mirror's changes

ASSUME RunAssumption == Gui \in Locked /\ MaxChanges \in Nat

VARIABLES
  db,      \* changes committed
  lock,    \* the thread inside the store, or "free"
  at,      \* at[t]: where t is between its commit and its return
  armed,   \* _notify_armed
  idles,   \* _on_notify_idle callbacks queued
  loop,    \* the main loop: "idle", or "run" when a refresh is about to run
  life,    \* the section: "new", "live", "stopped"
  shown    \* the change the rendered result was read at

runVars == <<db, lock, at, armed, idles, loop, life, shown>>
Thread == Locked \cup Unlocked

RunTypeOK ==
  /\ db \in 0..MaxChanges /\ shown \in 0..db
  /\ lock \in Locked \cup {"free"}
  /\ at \in [Thread -> {"out", "committed", "test", "arm", "queue"}]
  /\ armed \in BOOLEAN /\ idles \in Nat
  /\ loop \in {"idle", "run"} /\ life \in {"new", "live", "stopped"}

RunInit ==
  /\ db = 0 /\ lock = "free"
  /\ at = [t \in Thread |-> "out"]
  /\ armed = FALSE /\ idles = 0
  /\ loop = "idle" /\ life = "new" /\ shown = 0

GoTo(t, place) == at' = [at EXCEPT ![t] = place]
Return(t) == GoTo(t, "out") /\ lock' = IF lock = t THEN "free" ELSE lock

\* apply_remote, wipe or restore_snapshot has committed.
Commit(t) ==
  /\ db < MaxChanges /\ at[t] = "out"
  /\ t = Gui => loop = "idle"
  /\ t \in Locked => lock = "free"
  /\ lock' = IF t \in Locked THEN t ELSE lock
  /\ db' = db + 1
  /\ GoTo(t, "committed")
  /\ UNCHANGED <<armed, idles, loop, life, shown>>

\* _notify_changed copies the list of listeners.
NotifyChanged(t) ==
  /\ at[t] = "committed"
  /\ lock \in {t, "free"}
  /\ IF life = "live" THEN GoTo(t, "test") /\ UNCHANGED lock ELSE Return(t)
  /\ UNCHANGED <<db, armed, idles, loop, life, shown>>

\* store_listener, in three steps.
TestArmed(t) ==
  /\ at[t] = "test"
  /\ IF armed THEN Return(t) ELSE GoTo(t, "arm") /\ UNCHANGED lock
  /\ UNCHANGED <<db, armed, idles, loop, life, shown>>
Arm(t) ==
  /\ at[t] = "arm"
  /\ armed' = TRUE
  /\ GoTo(t, "queue")
  /\ UNCHANGED <<db, lock, idles, loop, life, shown>>
Queue(t) ==
  /\ at[t] = "queue"
  /\ idles' = idles + 1
  /\ Return(t)
  /\ UNCHANGED <<db, armed, loop, life, shown>>

LoopFree == loop = "idle" /\ at[Gui] = "out"

\* Wrong on purpose: the flag comes down after the refresh (see RunQuery).
OnNotifyIdleKeepsFlag ==
  /\ LoopFree /\ idles > 0
  /\ idles' = idles - 1
  /\ loop' = "run"
  /\ UNCHANGED <<db, lock, at, armed, life, shown>>

OnNotifyIdle ==
  /\ LoopFree /\ idles > 0
  /\ idles' = idles - 1
  /\ armed' = FALSE
  /\ loop' = "run"
  /\ UNCHANGED <<db, lock, at, life, shown>>

\* The notification bumps the version, so the query runs; then the widget renders.
RunQuery ==
  /\ loop = "run" /\ lock = "free"
  /\ shown' = db
  /\ loop' = "idle"
  /\ UNCHANGED <<db, lock, at, armed, idles, life>>

\* Wrong on purpose: subscribed, and left to the first notification (see Start).
StartUnread ==
  /\ LoopFree /\ life = "new" /\ lock = "free"
  /\ life' = "live"
  /\ UNCHANGED <<db, lock, at, armed, idles, loop, shown>>

\* Subscribe, then the first run.
Start ==
  /\ LoopFree /\ life = "new" /\ lock = "free"
  /\ life' = "live"
  /\ loop' = "run"
  /\ UNCHANGED <<db, lock, at, armed, idles, shown>>

\* The page re-rendered, or the widget went away: unsubscribe.
Stop ==
  /\ LoopFree /\ life = "live" /\ lock = "free"
  /\ life' = "stopped"
  /\ UNCHANGED <<db, lock, at, armed, idles, loop, shown>>

ThreadStep(t) == NotifyChanged(t) \/ TestArmed(t) \/ Arm(t) \/ Queue(t)
LoopStep == OnNotifyIdle \/ RunQuery

RunNext == (\E t \in Thread : Commit(t) \/ ThreadStep(t)) \/ LoopStep \/ Start \/ Stop

\* Threads that entered a notification leave it, and the main loop runs its idles.
RunFairness == WF_runVars(LoopStep) /\ \A t \in Thread : WF_runVars(ThreadStep(t))
RunSpec == RunInit /\ [][RunNext]_runVars /\ RunFairness

-----------------------------------------------------------------------------
(* "A benign race costs one extra run, never a lost one": while the section shows an
   older mirror, a refresh is queued or running, or a thread is on its way to see to
   one; with the flag tested, raised and cleared in any order by the threads. *)
NoChangeLost ==
  life = "live" /\ shown < db =>
    \/ idles > 0 \/ loop = "run"
    \/ \E t \in Thread : at[t] \in {"committed", "arm", "queue"} \/ (at[t] = "test" /\ ~armed)

\* A live section ends up showing the mirror as it is.
CatchesUp == []<>(life # "live" \/ shown = db)
=============================================================================
