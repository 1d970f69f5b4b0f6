------------------------------- MODULE DeskProofs -------------------------------
(***************************************************************************)
(* Theorems about what a desk shows, writes and sends.                     *)
(*                                                                         *)
(* QueryRun, for every set of threads: NoChangeLost is inductive together  *)
(* with ArmedIsQueued: the flag is up only while an idle is queued, or a   *)
(* thread is about to queue one, so a listener that finds it up may leave. *)
(*                                                                         *)
(* CardReview, for every number of cards, days and grades: the schedule is *)
(* the newest of the values it was told, those of a grade half pulled or   *)
(* half saved included (ScheduleIsNewest), because the mail comes in pairs *)
(* (Paired); what a revealed card shows is what its last grade left        *)
(* (ShownIsNewest), and the grade in hand was given to that (GradeInHand). *)
(*                                                                         *)
(* SealedSync, for every set of nodes and every number of edits, workers   *)
(* and engines: CursorCovered is not inductive: a restore puts old rows    *)
(* back and moves the cursor, so the invariant must also say what          *)
(* restoring the relay's image again would leave (ImageCovers,             *)
(* BeyondImageHeld) and that a cursor about to be written, or a page       *)
(* fetched from a cursor that a restore has moved since, is covered too    *)
(* (PassedCovered).                                                        *)
(*                                                                         *)
(* QueryBuilder, for every set of families, nodes, property types and      *)
(* texts and drafts of any depth: what is applied runs, or slips in one of *)
(* four shapes (AppliedRuns).  AppliedQueryRuns speaks of a closed dialog  *)
(* only; the invariant says what each row of an open one holds (Sound), so *)
(* that whatever the prune does not look at is never half typed, and that  *)
(* the rows are a tree (Nests).                                            *)
(***************************************************************************)
EXTENDS QueryRun, CardReview, SealedSync, QueryBuilder,
        FiniteSetTheorems, WellFoundedInduction, SequenceTheorems, TLAPS

ArmedIsQueued == armed => idles > 0 \/ \E t \in Thread : at[t] = "queue"

RunInv == RunTypeOK /\ ArmedIsQueued /\ NoChangeLost

LEMMA RunInitInv == RunInit => RunInv
<1> SUFFICES ASSUME RunInit PROVE RunInv
  OBVIOUS
<1>1. RunTypeOK
  <2>1. armed \in BOOLEAN
    BY Zenon DEF RunInit
  <2>2. at \in [Thread -> {"out", "committed", "test", "arm", "queue"}]
    BY DEF RunInit
  <2>3. db \in 0..MaxChanges /\ shown \in 0..db /\ idles \in Nat
    BY RunAssumption DEF RunInit
  <2> QED BY <2>1, <2>2, <2>3 DEF RunInit, RunTypeOK
<1>2. ArmedIsQueued /\ NoChangeLost
  BY DEF RunInit, ArmedIsQueued, NoChangeLost
<1> QED BY <1>1, <1>2 DEF RunInv

\* A step of one thread moves no other, and leaves at a function.
LEMMA MoveFacts ==
  ASSUME RunTypeOK, NEW t \in Thread,
         NEW place \in {"out", "committed", "test", "arm", "queue"}, GoTo(t, place)
  PROVE  /\ at' \in [Thread -> {"out", "committed", "test", "arm", "queue"}]
         /\ at'[t] = place
         /\ \A u \in Thread : u # t => at'[u] = at[u]
  BY DEF RunTypeOK, GoTo

LEMMA ReturnFacts ==
  ASSUME RunTypeOK, NEW t \in Thread, Return(t)
  PROVE  GoTo(t, "out") /\ lock' \in Locked \cup {"free"}
  BY DEF RunTypeOK, Return

LEMMA CommitInv == ASSUME RunInv, NEW t \in Thread, Commit(t) PROVE RunInv'
<1> USE DEF RunInv
<1>1. GoTo(t, "committed")
  BY DEF Commit
<1>2. /\ at' \in [Thread -> {"out", "committed", "test", "arm", "queue"}]
      /\ at'[t] = "committed" /\ \A u \in Thread : u # t => at'[u] = at[u]
  BY <1>1, MoveFacts
<1>3. RunTypeOK'
  BY <1>2, RunAssumption DEF Commit, RunTypeOK
<1>4. ArmedIsQueued'
  BY <1>2 DEF Commit, ArmedIsQueued
<1>5. NoChangeLost'
  BY <1>2 DEF NoChangeLost
<1> QED BY <1>3, <1>4, <1>5

LEMMA NotifyInv == ASSUME RunInv, NEW t \in Thread, NotifyChanged(t) PROVE RunInv'
<1> USE DEF RunInv
<1>1. CASE life = "live"
  <2>1. GoTo(t, "test")
    BY <1>1 DEF NotifyChanged
  <2>2. /\ at' \in [Thread -> {"out", "committed", "test", "arm", "queue"}]
        /\ at'[t] = "test" /\ \A u \in Thread : u # t => at'[u] = at[u]
    BY <2>1, MoveFacts
  <2>3. RunTypeOK' /\ ArmedIsQueued'
    BY <1>1, <2>2 DEF NotifyChanged, RunTypeOK, ArmedIsQueued
  <2>4. NoChangeLost'
    BY <1>1, <2>2, <2>3 DEF NotifyChanged, NoChangeLost, ArmedIsQueued
  <2> QED BY <2>3, <2>4
<1>2. CASE life # "live"
  <2>1. Return(t)
    BY <1>2 DEF NotifyChanged
  <2>2. /\ at' \in [Thread -> {"out", "committed", "test", "arm", "queue"}]
        /\ lock' \in Locked \cup {"free"} /\ \A u \in Thread : u # t => at'[u] = at[u]
    BY <2>1, ReturnFacts, MoveFacts
  <2> QED
    BY <1>2, <2>2 DEF NotifyChanged, RunTypeOK, ArmedIsQueued, NoChangeLost
<1> QED BY <1>1, <1>2

LEMMA TestInv == ASSUME RunInv, NEW t \in Thread, TestArmed(t) PROVE RunInv'
<1> USE DEF RunInv
<1>1. CASE armed
  <2>1. /\ at' \in [Thread -> {"out", "committed", "test", "arm", "queue"}]
        /\ lock' \in Locked \cup {"free"} /\ \A u \in Thread : u # t => at'[u] = at[u]
    BY <1>1, ReturnFacts, MoveFacts DEF TestArmed
  <2>2. RunTypeOK' /\ ArmedIsQueued'
    BY <2>1 DEF TestArmed, RunTypeOK, ArmedIsQueued
  <2> QED BY <1>1, <2>1, <2>2 DEF TestArmed, NoChangeLost, ArmedIsQueued
<1>2. CASE ~armed
  <2>1. /\ at' \in [Thread -> {"out", "committed", "test", "arm", "queue"}]
        /\ at'[t] = "arm" /\ lock' = lock /\ \A u \in Thread : u # t => at'[u] = at[u]
    BY <1>2, MoveFacts DEF TestArmed
  <2> QED BY <1>2, <2>1 DEF TestArmed, RunTypeOK, ArmedIsQueued, NoChangeLost
<1> QED BY <1>1, <1>2

LEMMA ArmInv == ASSUME RunInv, NEW t \in Thread, Arm(t) PROVE RunInv'
<1>1. /\ at' \in [Thread -> {"out", "committed", "test", "arm", "queue"}] /\ at'[t] = "queue"
  BY MoveFacts DEF Arm, RunInv
<1> QED BY <1>1 DEF Arm, RunInv, RunTypeOK, ArmedIsQueued, NoChangeLost

LEMMA QueueInv == ASSUME RunInv, NEW t \in Thread, Queue(t) PROVE RunInv'
<1>1. /\ at' \in [Thread -> {"out", "committed", "test", "arm", "queue"}]
      /\ lock' \in Locked \cup {"free"}
  BY ReturnFacts, MoveFacts DEF Queue, RunInv
<1>2. idles' \in Nat /\ idles' > 0
  BY DEF Queue, RunInv, RunTypeOK
<1> QED BY <1>1, <1>2 DEF Queue, RunInv, RunTypeOK, ArmedIsQueued, NoChangeLost

\* The main loop and the section's life; what is notified stays where it is.
LEMMA LoopInv == ASSUME RunInv, LoopStep \/ Start \/ Stop PROVE RunInv'
<1> USE DEF RunInv
<1>1. CASE OnNotifyIdle
  <2>1. idles' \in Nat
    BY <1>1 DEF OnNotifyIdle, RunTypeOK
  <2>2. ~armed'
    BY <1>1 DEF OnNotifyIdle
  <2>3. armed' \in BOOLEAN
    BY <1>1, Zenon DEF OnNotifyIdle
  <2>4. RunTypeOK'
    BY <1>1, <2>1, <2>3 DEF OnNotifyIdle, RunTypeOK
  <2> QED BY <1>1, <2>2, <2>4 DEF OnNotifyIdle, ArmedIsQueued, NoChangeLost
<1>2. CASE RunQuery
  <2>1. RunTypeOK'
    BY <1>2 DEF RunQuery, RunTypeOK
  <2> QED BY <1>2, <2>1 DEF RunQuery, RunTypeOK, ArmedIsQueued, NoChangeLost
<1>3. CASE Start
  BY <1>3 DEF Start, RunTypeOK, ArmedIsQueued, NoChangeLost
<1>4. CASE Stop
  BY <1>4 DEF Stop, RunTypeOK, ArmedIsQueued, NoChangeLost
<1> QED BY <1>1, <1>2, <1>3, <1>4 DEF LoopStep

LEMMA RunStepInv == RunInv /\ [RunNext]_runVars => RunInv'
<1> SUFFICES ASSUME RunInv, [RunNext]_runVars PROVE RunInv'
  OBVIOUS
<1>1. CASE UNCHANGED runVars
  BY <1>1 DEF runVars, RunInv, RunTypeOK, ArmedIsQueued, NoChangeLost
<1>2. CASE \E t \in Thread : Commit(t) \/ ThreadStep(t)
  BY <1>2, CommitInv, NotifyInv, TestInv, ArmInv, QueueInv DEF ThreadStep
<1>3. CASE LoopStep \/ Start \/ Stop
  BY <1>3, LoopInv
<1> QED BY <1>1, <1>2, <1>3 DEF RunNext

(* The counters and places keep their types, and the result shown is never of a change
   the mirror has not seen. *)
THEOREM RunTypes == RunSpec => []RunTypeOK
<1>1. RunInit => RunInv BY RunInitInv
<1>2. RunInv /\ [RunNext]_runVars => RunInv' BY RunStepInv
<1>3. RunInv => RunTypeOK BY DEF RunInv
<1> QED BY <1>1, <1>2, <1>3, PTL DEF RunSpec

(* However the store's threads and the main loop interleave on the armed flag, a live
   section that shows an old mirror has a refresh coming. *)
THEOREM NoChangeIsLost == RunSpec => []NoChangeLost
<1>1. RunInit => RunInv BY RunInitInv
<1>2. RunInv /\ [RunNext]_runVars => RunInv' BY RunStepInv
<1>3. RunInv => NoChangeLost BY DEF RunInv
<1> QED BY <1>1, <1>2, <1>3, PTL DEF RunSpec

-----------------------------------------------------------------------------
(* CardReview. *)

IsDue(e) == "due" \in DOMAIN e

\* What a grade writes fits together: the review's day is that of the schedule value.
WellTold(r) == r.due.time \in Nat \ {0} /\ r.due.by \in Nat /\ r.after.due = r.due.day

\* The two envelopes of a foreign grade stand together, the value first; a review
\* without its value stands at the head only.
IsPair(a, b) == ~IsDue(b) /\ b.card = a.card /\ b.review.due = a.due
FromAbroad(e) == e.review.session = 0 /\ e.review.time \in Nat /\ WellTold(e.review)

Paired ==
  /\ \A i \in 1 .. Len(inbound) :
       IsDue(inbound[i]) => i < Len(inbound) /\ IsPair(inbound[i], inbound[i + 1])
  /\ \A i \in 2 .. Len(inbound) : ~IsDue(inbound[i]) => IsDue(inbound[i - 1])
  /\ \A i \in 1 .. Len(inbound) : ~IsDue(inbound[i]) => FromAbroad(inbound[i])

\* The review of c whose value was pulled and whose row was not.
Half(c) ==
  IF inbound # <<>> /\ ~IsDue(inbound[1]) /\ inbound[1].card = c THEN {inbound[1].review} ELSE {}

\* The review of c whose value was saved here and whose row was not.
InHand(c) == IF grading.at = "review" /\ Current = c THEN {grading.review} ELSE {}

Told(c) == history[c] \cup Half(c) \cup InHand(c)

RowsKnown ==
  /\ clock \in Nat
  /\ \A c \in Card : /\ schedule[c].time \in Nat /\ schedule[c].by \in Nat
                     /\ \A r \in history[c] : r.time \in 0 .. clock
                     /\ \A r \in Told(c) : WellTold(r)

\* The schedule's value is the newest of those it was told.
ScheduleIsNewest ==
  \A c \in Card \ Heir : status[c] = "card" =>
    /\ \A w \in Told(c) : ~Newer(w.due, schedule[c])
    /\ schedule[c] = NeverDue \/ schedule[c] \in cut \/ \E w \in Told(c) : w.due = schedule[c]

OwnGradesOnly(c) == \A q \in history[c] : q.session # 0

\* What a revealed card shows is what its last grade left.
ShownIsNewest ==
  session.revealed /\ Current \in Card /\ OwnGradesOnly(Current) =>
    session.shown \in CardSrsStates(history[Current])

\* The grade being written goes on from what is shown, past all the card's own reviews.
GradeInHand ==
  /\ grading.at \in {"idle", "stamp", "due", "review"}
  /\ grading.at # "idle" => session.revealed
  /\ grading.at = "stamp" => WellTold(grading)
  /\ grading.at \in {"due", "review"} =>
       /\ WellTold(grading.review) /\ grading.review.due = grading.due
       /\ grading.review.before = session.shown /\ grading.review.time \in 0 .. clock
       /\ Current \in Card /\ OwnGradesOnly(Current) =>
            \A q \in history[Current] : q.time < grading.review.time

CardsShape ==
  /\ DOMAIN history = Card /\ DOMAIN schedule = Card
  /\ status \in [Card -> {"card", "plain", "gone"}]
  /\ DOMAIN session = DOMAIN NoSession
  /\ inbound \in Seq(ToSet(inbound))

CardsInv ==
  /\ CardsShape /\ Paired /\ RowsKnown /\ ScheduleIsNewest
  /\ GradeInHand /\ ShownIsNewest /\ HistoryChains

-----------------------------------------------------------------------------
LEMMA MailIsSeq ==
  ASSUME NEW S, NEW q \in Seq(S)
  PROVE  q \in Seq(ToSet(q))
BY DEF ToSet

LEMMA FieldsOfSession == DOMAIN NoSession = {"queue", "index", "revealed", "shown", "algorithm", "id"}
BY DEF NoSession

\* What is shown was read from the rows it is rendered from, or nothing is revealed.
RenderedWell(s, past) ==
  DOMAIN s = DOMAIN NoSession /\ (s.revealed => s.shown \in CardSrsStates(past[s.queue[s.index]]))

LEMMA RenderedIs ==
  ASSUME NEW d, DOMAIN d = DOMAIN NoSession, NEW past, NEW s \in Rendered(d, past)
  PROVE  RenderedWell(s, past)
<1> DEFINE there == {i \in d.index .. Len(d.queue) : status[d.queue[i]] # "gone"}
           next == CHOOSE i \in there : \A j \in there : i <= j
<1>1. CASE s = [d EXCEPT !.index = Len(d.queue) + 1, !.revealed = FALSE, !.shown = Unseen]
  <2>1. DOMAIN s = DOMAIN d /\ s.revealed = FALSE
    BY <1>1, FieldsOfSession
  <2> QED BY <2>1 DEF RenderedWell
<1>2. ASSUME NEW state \in CardSrsStates(past[d.queue[next]]),
             s = [d EXCEPT !.index = next, !.revealed = @ /\ next = d.index, !.shown = state]
      PROVE  RenderedWell(s, past)
  <2> HIDE DEF next
  <2>1. DOMAIN s = DOMAIN d /\ s.index = next /\ s.queue = d.queue /\ s.shown = state
    BY <1>2, FieldsOfSession
  <2> QED BY <2>1 DEF RenderedWell
<1> HIDE DEF next, there
<1>3. \/ s = [d EXCEPT !.index = Len(d.queue) + 1, !.revealed = FALSE, !.shown = Unseen]
      \/ \E state \in CardSrsStates(past[d.queue[next]]) :
           s = [d EXCEPT !.index = next, !.revealed = @ /\ next = d.index, !.shown = state]
  BY DEF Rendered, next, there
<1>4. CASE \E state \in CardSrsStates(past[d.queue[next]]) :
             s = [d EXCEPT !.index = next, !.revealed = @ /\ next = d.index, !.shown = state]
  BY <1>2, <1>4, Zenon
<1> QED BY <1>1, <1>3, <1>4, Zenon

LEMMA ShownAfter ==
  ASSUME RenderedWell(session', history')
  PROVE  DOMAIN session' = DOMAIN NoSession /\ ShownIsNewest'
BY DEF RenderedWell, ShownIsNewest, Current

\* What the appliers leave of the two records.
LEMMA DueAppliedIs ==
  ASSUME CardsShape, NEW c, NEW due, schedule' = DueApplied(c, due)
  PROVE  /\ DOMAIN schedule' = Card
         /\ \A d \in Card : d # c \/ status[d] # "card" => schedule'[d] = schedule[d]
         /\ \A d \in Card : d = c /\ status[d] = "card" =>
              schedule'[d] = IF Newer(due, schedule[d]) THEN due ELSE schedule[d]
BY DEF DueApplied, CardsShape

LEMMA ReviewAppliedIs ==
  ASSUME CardsShape, NEW c, NEW r, history' = ReviewApplied(c, r)
  PROVE  /\ DOMAIN history' = Card
         /\ \A d \in Card : d # c => history'[d] = history[d]
         /\ \A d \in Card : history'[d] \in {history[d], history[d] \cup {r}}
         /\ \A d \in Card \ Heir : d = c /\ status[d] = "card" => history'[d] = history[d] \cup {r}
BY DEF ReviewApplied, CardsShape

\* The newer of two values is as new as whatever the older was.
LEMMA NewestStays ==
  ASSUME NEW u, NEW v, NEW w,
         u.time \in Nat, u.by \in Nat, v.time \in Nat, v.by \in Nat, w.time \in Nat, w.by \in Nat,
         ~Newer(w, v)
  PROVE  ~Newer(w, IF Newer(u, v) THEN u ELSE v) /\ ~Newer(u, IF Newer(u, v) THEN u ELSE v)
BY DEF Newer

\* A value is told: the schedule is the newest again.
LEMMA ToldOneMore ==
  ASSUME CardsInv, NEW c, NEW r, WellTold(r), schedule' = DueApplied(c, r.due),
         UNCHANGED <<status, cut>>,
         \A d \in Card : d # c => Told(d)' = Told(d),
         \A d \in Card : d = c /\ status[d] = "card" => Told(d)' = Told(d) \cup {r}
  PROVE  /\ ScheduleIsNewest'
         /\ \A d \in Card : schedule'[d].time \in Nat /\ schedule'[d].by \in Nat
<1>1. /\ \A d \in Card : d # c \/ status[d] # "card" => schedule'[d] = schedule[d]
      /\ \A d \in Card : d = c /\ status[d] = "card" =>
           schedule'[d] = IF Newer(r.due, schedule[d]) THEN r.due ELSE schedule[d]
  BY DueAppliedIs DEF CardsInv
<1>2. \A d \in Card : /\ schedule[d].time \in Nat /\ schedule[d].by \in Nat
                      /\ \A w \in Told(d) : w.due.time \in Nat /\ w.due.by \in Nat
  BY DEF CardsInv, RowsKnown, WellTold
<1>3. r.due.time \in Nat /\ r.due.by \in Nat
  BY DEF WellTold
<1>4. ASSUME NEW d \in Card PROVE schedule'[d].time \in Nat /\ schedule'[d].by \in Nat
  BY <1>1, <1>2, <1>3
<1>5. ASSUME NEW d \in Card \ Heir, status[d] = "card"
      PROVE  /\ \A w \in Told(d)' : ~Newer(w.due, schedule'[d])
             /\ schedule'[d] = NeverDue \/ schedule'[d] \in cut \/ \E w \in Told(d)' : w.due = schedule'[d]
  <2>1. /\ \A w \in Told(d) : ~Newer(w.due, schedule[d])
        /\ schedule[d] = NeverDue \/ schedule[d] \in cut \/ \E w \in Told(d) : w.due = schedule[d]
    BY <1>5 DEF CardsInv, ScheduleIsNewest
  <2>2. CASE d # c
    BY <1>1, <2>1, <2>2
  <2>3. CASE d = c
    <3>1. /\ Told(d)' = Told(d) \cup {r}
          /\ schedule'[d] = IF Newer(r.due, schedule[d]) THEN r.due ELSE schedule[d]
      BY <1>1, <1>5, <2>3
    <3>2. ASSUME NEW w \in Told(d) PROVE ~Newer(w.due, schedule'[d])
      <4>1. ~Newer(w.due, schedule[d]) /\ w.due.time \in Nat /\ w.due.by \in Nat
        BY <1>2, <2>1
      <4> QED BY <1>2, <1>3, <3>1, <4>1, NewestStays
    <3>3. ~Newer(r.due, schedule'[d])
      BY <1>2, <1>3, <3>1 DEF Newer
    <3> QED BY <2>1, <3>1, <3>2, <3>3
  <2> QED BY <2>2, <2>3
<1> QED BY <1>4, <1>5 DEF ScheduleIsNewest

-----------------------------------------------------------------------------
(* Steps that leave both records as they are; a grade in hand may be lost to a crash. *)
LEMMA RecordsKept ==
  ASSUME CardsInv, UNCHANGED <<status, schedule, history, inbound>>,
         clock' \in Nat, clock <= clock', cut \subseteq cut',
         \A c \in Card : /\ InHand(c)' \subseteq InHand(c)
                         /\ \A w \in InHand(c) \ InHand(c)' : w.due \in cut'
  PROVE  /\ Paired' /\ RowsKnown' /\ ScheduleIsNewest' /\ HistoryChains'
         /\ DOMAIN history' = Card /\ DOMAIN schedule' = Card
         /\ status' \in [Card -> {"card", "plain", "gone"}] /\ inbound' \in Seq(ToSet(inbound'))
<1>1. \A c \in Card : Half(c)' = Half(c)
  BY DEF Half, IsDue
<1>2. \A c \in Card : Told(c)' \subseteq Told(c) /\ \A w \in Told(c) \ Told(c)' : w.due \in cut'
  BY <1>1 DEF Told
<1>3. Paired'
  BY DEF CardsInv, Paired, IsDue, IsPair, FromAbroad
<1>4. RowsKnown'
  <2>1. \A n \in 0 .. clock : n \in 0 .. clock'
    BY DEF CardsInv, RowsKnown
  <2> QED BY <1>2, <2>1 DEF CardsInv, RowsKnown
<1>5. ScheduleIsNewest'
  <2> SUFFICES ASSUME NEW c \in Card \ Heir, status[c] = "card"
               PROVE  /\ \A w \in Told(c)' : ~Newer(w.due, schedule[c])
                      /\ schedule[c] = NeverDue \/ schedule[c] \in cut' \/ \E w \in Told(c)' : w.due = schedule[c]
    BY DEF ScheduleIsNewest
  <2>1. /\ \A w \in Told(c) : ~Newer(w.due, schedule[c])
        /\ schedule[c] = NeverDue \/ schedule[c] \in cut \/ \E w \in Told(c) : w.due = schedule[c]
    BY DEF CardsInv, ScheduleIsNewest
  <2> QED BY <1>2, <2>1
<1>6. HistoryChains'
  BY DEF CardsInv, HistoryChains
<1> QED BY <1>3, <1>4, <1>5, <1>6 DEF CardsInv, CardsShape, ToSet

\* No grade is being written while the dialog renders, or none is after it ends.
LEMMA QuietKeeps ==
  ASSUME CardsInv, UNCHANGED <<status, schedule, history, inbound, clock, cut>>,
         grading.at = "idle", grading' = grading,
         DOMAIN session' = DOMAIN NoSession, ShownIsNewest'
  PROVE  CardsInv'
<1>1. \A c \in Card : InHand(c) = {} /\ InHand(c)' = {}
  BY DEF InHand
<1>2. clock' \in Nat /\ clock <= clock'
  BY DEF CardsInv, RowsKnown
<1>3. GradeInHand'
  BY DEF GradeInHand
<1> QED BY <1>1, <1>2, <1>3, RecordsKept DEF CardsInv, CardsShape

LEMMA RenderKeeps ==
  ASSUME CardsInv, UNCHANGED <<status, schedule, history, inbound, clock, cut>>,
         grading.at = "idle", grading' = grading,
         NEW d, DOMAIN d = DOMAIN NoSession, session' \in Rendered(d, history)
  PROVE  CardsInv'
<1>1. RenderedWell(session', history')
  BY RenderedIs
<1> QED BY <1>1, ShownAfter, QuietKeeps

LEMMA StillKeeps ==
  ASSUME CardsInv, UNCHANGED <<status, schedule, history, clock, inbound, cut, session, grading>>
  PROVE  CardsInv'
<1>1. \A c \in Card : InHand(c)' = InHand(c)
  BY DEF InHand, Current
<1>2. clock' \in Nat /\ clock <= clock'
  BY DEF CardsInv, RowsKnown
<1>3. GradeInHand'
  BY DEF CardsInv, GradeInHand, Current, OwnGradesOnly, WellTold
<1>4. ShownIsNewest' /\ DOMAIN session' = DOMAIN NoSession
  BY DEF CardsInv, CardsShape, ShownIsNewest, Current, OwnGradesOnly
<1> QED BY <1>1, <1>2, <1>3, <1>4, RecordsKept DEF CardsInv, CardsShape

LEMMA CloseKeeps ==
  ASSUME CardsInv, CloseSession
  PROVE  CardsInv'
<1>1. DOMAIN session' = DOMAIN NoSession /\ ShownIsNewest'
  BY DEF CloseSession, ShownIsNewest, NoSession
<1>2. /\ UNCHANGED <<status, schedule, history, inbound, clock, cut>>
      /\ grading.at = "idle" /\ grading' = grading
  BY DEF CloseSession, recordVars, NotGrading
<1> QED BY <1>1, <1>2, QuietKeeps

LEMMA CrashKeeps ==
  ASSUME CardsInv, Crash
  PROVE  CardsInv'
<1>1. /\ session' = NoSession /\ grading' = NotGrading
      /\ cut' = IF grading.at = "review" THEN cut \cup {grading.due} ELSE cut
      /\ UNCHANGED <<status, schedule, history, inbound, clock>>
  BY DEF Crash
<1>2. grading'.at = "idle"
  BY <1>1 DEF NotGrading
<1>3. \A c \in Card : InHand(c)' = {} /\ \A w \in InHand(c) : w.due \in cut'
  BY <1>1, <1>2 DEF InHand, CardsInv, GradeInHand
<1>4. clock' \in Nat /\ clock <= clock'
  BY <1>1 DEF CardsInv, RowsKnown
<1>5. GradeInHand'
  BY <1>2 DEF GradeInHand
<1>6. ShownIsNewest' /\ DOMAIN session' = DOMAIN NoSession
  BY <1>1 DEF ShownIsNewest, NoSession
<1> QED BY <1>1, <1>3, <1>4, <1>5, <1>6, RecordsKept DEF CardsInv, CardsShape

-----------------------------------------------------------------------------
(* The steps of a grade. *)
LEMMA GradeKeeps ==
  ASSUME CardsInv, NEW grade, GradeCard(grade)
  PROVE  CardsInv'
<1>1. /\ grading.at = "idle" /\ session.revealed /\ clock' = clock + 1
      /\ UNCHANGED <<status, schedule, history, inbound, cut, session>>
  BY DEF GradeCard, recordVars, NotGrading
<1>2. PICK after : grading' = [at |-> "stamp", after |-> after,
                               due |-> [time |-> clock', by |-> 1, day |-> after.due]]
  BY DEF GradeCard
<1>3. clock \in Nat /\ clock' \in Nat /\ clock <= clock'
  BY <1>1 DEF CardsInv, RowsKnown
<1>4. grading'.at = "stamp" /\ WellTold(grading')
  BY <1>1, <1>2, <1>3 DEF WellTold
<1>5. \A c \in Card : InHand(c) = {} /\ InHand(c)' = {}
  BY <1>1, <1>4 DEF InHand
<1>6. GradeInHand'
  BY <1>1, <1>4 DEF GradeInHand, WellTold
<1>7. ShownIsNewest' /\ DOMAIN session' = DOMAIN NoSession
  BY <1>1 DEF CardsInv, CardsShape, ShownIsNewest, Current, OwnGradesOnly
<1> QED BY <1>1, <1>3, <1>5, <1>6, <1>7, RecordsKept DEF CardsInv, CardsShape

LEMMA StampKeeps ==
  ASSUME CardsInv, StampReview
  PROVE  CardsInv'
<1>1. /\ grading.at = "stamp" /\ session.revealed /\ WellTold(grading) /\ clock' = clock + 3
      /\ UNCHANGED <<status, schedule, history, inbound, cut, session>>
  BY DEF StampReview, recordVars, CardsInv, GradeInHand
<1> DEFINE r == [time |-> clock', due |-> grading.due, day |-> today,
                 session |-> session.id, algorithm |-> session.algorithm,
                 before |-> session.shown, after |-> grading.after]
<1>2. grading' = [at |-> "due", due |-> grading.due, review |-> r]
  BY DEF StampReview
<1>3. r.time = clock' /\ r.due = grading.due /\ r.before = session.shown /\ r.after = grading.after
  OBVIOUS
<1> HIDE DEF r
<1>4. clock \in Nat /\ clock' \in Nat /\ clock <= clock'
  BY <1>1 DEF CardsInv, RowsKnown
<1>5. grading'.at = "due" /\ grading'.due = grading.due /\ grading'.review = r
  BY <1>2
<1>6. WellTold(r)
  BY <1>1, <1>3 DEF WellTold
<1>7. \A c \in Card : InHand(c) = {} /\ InHand(c)' = {}
  BY <1>1, <1>5 DEF InHand
<1>8. Current \in Card => \A q \in history[Current] : q.time < r.time
  BY <1>1, <1>3, <1>4 DEF CardsInv, RowsKnown
<1>9. GradeInHand'
  <2>1. /\ grading'.at \in {"idle", "stamp", "due", "review"} /\ grading'.at # "stamp"
        /\ session'.revealed
    BY <1>1, <1>5
  <2>2. /\ WellTold(grading'.review) /\ grading'.review.due = grading'.due
        /\ grading'.review.before = session'.shown /\ grading'.review.time \in 0 .. clock'
    BY <1>1, <1>3, <1>4, <1>5, <1>6
  <2>3. Current' = Current /\ history' = history
    BY <1>1 DEF Current
  <2>4. Current' \in Card => \A q \in history'[Current'] : q.time < grading'.review.time
    BY <1>5, <1>8, <2>3
  <2> QED BY <2>1, <2>2, <2>4 DEF GradeInHand, WellTold
<1>10. ShownIsNewest' /\ DOMAIN session' = DOMAIN NoSession
  BY <1>1 DEF CardsInv, CardsShape, ShownIsNewest, Current, OwnGradesOnly
<1> QED BY <1>1, <1>4, <1>7, <1>9, <1>10, RecordsKept DEF CardsInv, CardsShape

LEMMA MovedOn ==
  ASSUME CardsInv, MoveOn(history')
  PROVE  /\ grading'.at = "idle" /\ GradeInHand' /\ ShownIsNewest'
         /\ DOMAIN session' = DOMAIN NoSession
         /\ \A c \in Card : InHand(c)' = {}
<1>1. DOMAIN Graded(session) = DOMAIN NoSession
  BY FieldsOfSession DEF Graded, CardsInv, CardsShape
<1>2. RenderedWell(session', history')
  BY <1>1, RenderedIs DEF MoveOn
<1>3. grading'.at = "idle"
  BY DEF MoveOn, NotGrading
<1> QED BY <1>2, <1>3, ShownAfter DEF GradeInHand, InHand

LEMMA SaveDueKeeps ==
  ASSUME CardsInv, SaveDue
  PROVE  CardsInv'
<1>1. /\ grading.at = "due" /\ schedule' = DueApplied(Current, grading.due)
      /\ UNCHANGED <<status, history, inbound, clock, cut>>
  BY DEF SaveDue
<1>2. /\ WellTold(grading.review) /\ grading.review.due = grading.due
      /\ grading.review.before = session.shown /\ grading.review.time \in 0 .. clock
      /\ Current \in Card /\ OwnGradesOnly(Current) =>
           \A q \in history[Current] : q.time < grading.review.time
      /\ session.revealed
  BY <1>1 DEF CardsInv, GradeInHand
<1>3. \A d \in Card : Half(d)' = Half(d) /\ InHand(d) = {}
  BY <1>1 DEF Half, IsDue, InHand
<1>4. Paired' /\ HistoryChains'
  BY <1>1 DEF CardsInv, Paired, IsDue, IsPair, FromAbroad, HistoryChains
<1>5. /\ DOMAIN history' = Card /\ DOMAIN schedule' = Card
      /\ status' \in [Card -> {"card", "plain", "gone"}] /\ inbound' \in Seq(ToSet(inbound'))
  BY <1>1, DueAppliedIs DEF CardsInv, CardsShape, ToSet
<1> DEFINE c == Current
           r == grading.review
<1>6. schedule' = DueApplied(c, r.due)
  BY <1>1, <1>2
<1>7. \A d \in Card : \A q \in history[d] : q.time \in 0 .. clock
  BY DEF CardsInv, RowsKnown
<1>8. clock \in Nat /\ \A d \in Card : \A w \in Told(d) : WellTold(w)
  BY DEF CardsInv, RowsKnown
<1>9. CASE status[c] = "card"
  <2>1. session' = session /\ grading' = [at |-> "review", due |-> grading.due, review |-> r]
    BY <1>9 DEF SaveDue
  <2>2. grading'.at = "review" /\ grading'.due = grading.due /\ grading'.review = r /\ Current' = c
    BY <2>1 DEF Current
  <2>3. \A d \in Card : InHand(d)' = IF d = c THEN {r} ELSE {}
    BY <2>2 DEF InHand
  <2> HIDE DEF c, r
  <2>4. /\ \A d \in Card : d # c => Told(d)' = Told(d)
        /\ \A d \in Card : d = c => Told(d)' = Told(d) \cup {r}
    BY <1>1, <1>3, <2>3 DEF Told
  <2>5. WellTold(r)
    BY <1>2 DEF r
  <2>6. /\ ScheduleIsNewest'
        /\ \A d \in Card : schedule'[d].time \in Nat /\ schedule'[d].by \in Nat
    BY <1>1, <1>6, <2>4, <2>5, ToldOneMore
  <2>7. RowsKnown'
    BY <1>1, <1>7, <1>8, <2>4, <2>5, <2>6 DEF RowsKnown, WellTold
  <2>8. GradeInHand'
    BY <1>1, <1>2, <2>1, <2>2 DEF GradeInHand, OwnGradesOnly, WellTold, c, r
  <2>9. ShownIsNewest' /\ DOMAIN session' = DOMAIN NoSession
    BY <1>1, <2>1 DEF CardsInv, CardsShape, ShownIsNewest, Current, OwnGradesOnly
  <2> QED BY <1>4, <1>5, <2>6, <2>7, <2>8, <2>9 DEF CardsInv, CardsShape
<1>10. CASE status[c] # "card"
  <2>1. MoveOn(history')
    BY <1>1, <1>10 DEF SaveDue
  <2>2. /\ GradeInHand' /\ ShownIsNewest' /\ DOMAIN session' = DOMAIN NoSession
        /\ \A d \in Card : InHand(d)' = {}
    BY <2>1, MovedOn
  <2> HIDE DEF c, r
  <2>3. \A d \in Card : Told(d)' = Told(d)
    BY <1>1, <1>3, <2>2 DEF Told
  <2>4. WellTold(r)
    BY <1>2 DEF r
  <2>5. /\ ScheduleIsNewest'
        /\ \A d \in Card : schedule'[d].time \in Nat /\ schedule'[d].by \in Nat
    BY <1>1, <1>6, <1>10, <2>3, <2>4, ToldOneMore
  <2>6. RowsKnown'
    BY <1>1, <1>7, <1>8, <2>3, <2>5 DEF RowsKnown, WellTold
  <2> QED BY <1>4, <1>5, <2>2, <2>5, <2>6 DEF CardsInv, CardsShape
<1> QED BY <1>9, <1>10

LEMMA SaveReviewKeeps ==
  ASSUME CardsInv, SaveReview
  PROVE  CardsInv'
<1> DEFINE c == Current
           r == grading.review
<1>1. /\ grading.at = "review" /\ history' = ReviewApplied(c, r)
      /\ UNCHANGED <<status, schedule, inbound, clock, cut>>
      /\ \/ MoveOn(history')
         \/ status[c] = "gone" /\ grading' = NotGrading /\ UNCHANGED session
  BY DEF SaveReview
<1>2. /\ WellTold(r) /\ r.before = session.shown /\ r.time \in 0 .. clock
      /\ c \in Card /\ OwnGradesOnly(c) => \A q \in history[c] : q.time < r.time
      /\ session.revealed
  BY <1>1 DEF CardsInv, GradeInHand
<1>3. c \in Card /\ OwnGradesOnly(c) => r.before \in CardSrsStates(history[c])
  BY <1>2 DEF CardsInv, ShownIsNewest
<1>4. \A d \in Card : Half(d)' = Half(d) /\ InHand(d) = IF d = c THEN {r} ELSE {}
  BY <1>1 DEF Half, IsDue, InHand
<1> HIDE DEF c, r
<1>5. /\ DOMAIN history' = Card
      /\ \A d \in Card : d # c => history'[d] = history[d]
      /\ \A d \in Card : history'[d] \in {history[d], history[d] \cup {r}}
      /\ \A d \in Card \ Heir : d = c /\ status[d] = "card" => history'[d] = history[d] \cup {r}
  BY <1>1, ReviewAppliedIs DEF CardsInv
<1>6. /\ DOMAIN session' = DOMAIN NoSession /\ GradeInHand' /\ ShownIsNewest'
      /\ \A d \in Card : InHand(d)' = {}
  <2>1. CASE MoveOn(history')
    BY <2>1, MovedOn
  <2>2. CASE status[c] = "gone" /\ grading' = NotGrading /\ UNCHANGED session
    <3>1. grading'.at = "idle"
      BY <2>2 DEF NotGrading
    <3>2. history' = history
      BY <1>1, <2>2 DEF ReviewApplied
    <3>3. ShownIsNewest' /\ DOMAIN session' = DOMAIN NoSession
      BY <2>2, <3>2 DEF CardsInv, CardsShape, ShownIsNewest, Current, OwnGradesOnly
    <3> QED BY <3>1, <3>3 DEF GradeInHand, InHand
  <2> QED BY <1>1, <2>1, <2>2
<1>7. /\ \A d \in Card : Told(d)' \subseteq Told(d)
      /\ \A d \in Card \ Heir : status[d] = "card" => Told(d)' = Told(d)
  BY <1>4, <1>5, <1>6 DEF Told
<1>8. Paired' /\ inbound' \in Seq(ToSet(inbound'))
  BY <1>1 DEF CardsInv, CardsShape, ToSet, Paired, IsDue, IsPair, FromAbroad
<1>9. RowsKnown'
  <2>1. clock \in Nat /\ \A d \in Card : /\ schedule[d].time \in Nat /\ schedule[d].by \in Nat
                                         /\ \A q \in history[d] : q.time \in 0 .. clock
                                         /\ \A q \in Told(d) : WellTold(q)
    BY DEF CardsInv, RowsKnown
  <2>2. \A d \in Card : \A q \in history'[d] : q.time \in 0 .. clock
    BY <1>2, <1>5, <2>1
  <2> QED BY <1>1, <1>7, <2>1, <2>2 DEF RowsKnown, WellTold
<1>10. ScheduleIsNewest'
  BY <1>1, <1>7 DEF CardsInv, ScheduleIsNewest
<1>11. HistoryChains'
  <2> SUFFICES ASSUME NEW d \in Card, NEW q \in history'[d], OwnGradesOnly(d)'
               PROVE  LET earlier == {p \in history'[d] : p.time < q.time}
                      IN  IF earlier = {} THEN q.before = Unseen
                          ELSE \E p \in earlier : (\A o \in earlier : o.time <= p.time) /\ q.before = p.after
    BY DEF HistoryChains, OwnGradesOnly
  <2>1. OwnGradesOnly(d)
    BY <1>5 DEF OwnGradesOnly
  <2>2. CASE q \in history[d] /\ history'[d] = history[d]
    BY <2>1, <2>2 DEF CardsInv, HistoryChains, OwnGradesOnly
  <2>3. CASE d = c /\ history'[d] = history[d] \cup {r}
    <3>1. /\ r.time \in Nat
          /\ \A p \in history[d] : p.time \in Nat /\ p.time < r.time
      BY <1>2, <2>1, <2>3 DEF CardsInv, RowsKnown
    <3>2. CASE q \in history[d]
      <4>1. {p \in history'[d] : p.time < q.time} = {p \in history[d] : p.time < q.time}
        BY <2>3, <3>1, <3>2
      <4> QED BY <2>1, <3>2, <4>1 DEF CardsInv, HistoryChains, OwnGradesOnly
    <3>3. CASE q = r
      <4>1. {p \in history'[d] : p.time < q.time} = history[d]
        BY <2>3, <3>1, <3>3
      <4>2. q.before \in CardSrsStates(history[d])
        BY <1>3, <2>1, <2>3, <3>3
      <4> QED BY <4>1, <4>2 DEF CardSrsStates, LatestStates
    <3> QED BY <2>3, <3>2, <3>3
  <2> QED BY <1>5, <2>2, <2>3
<1> QED BY <1>1, <1>5, <1>6, <1>8, <1>9, <1>10, <1>11 DEF CardsInv, CardsShape

-----------------------------------------------------------------------------
(* What comes from elsewhere: it leaves the dialog alone, and a card that still has only
   grades of this device keeps its rows. *)
LEMMA HandKept ==
  ASSUME CardsInv, UNCHANGED <<session, grading>>, clock' \in Nat, clock <= clock',
         \A d \in Card : OwnGradesOnly(d)' => history'[d] = history[d]
  PROVE  /\ GradeInHand' /\ ShownIsNewest' /\ HistoryChains'
         /\ \A d \in Card : InHand(d)' = InHand(d)
<1>1. Current' = Current
  BY DEF Current
<1>2. \A d \in Card : OwnGradesOnly(d)' => OwnGradesOnly(d) /\ history'[d] = history[d]
  BY DEF OwnGradesOnly
<1>3. \A n \in 0 .. clock : n \in 0 .. clock'
  BY DEF CardsInv, RowsKnown
<1>4. GradeInHand'
  BY <1>1, <1>2, <1>3 DEF CardsInv, GradeInHand, WellTold
<1>5. ShownIsNewest'
  BY <1>1, <1>2 DEF CardsInv, ShownIsNewest
<1>6. HistoryChains'
  BY <1>2 DEF CardsInv, HistoryChains, OwnGradesOnly
<1>7. \A d \in Card : InHand(d)' = InHand(d)
  BY <1>1 DEF InHand
<1> QED BY <1>4, <1>5, <1>6, <1>7

\* Two envelopes appended behind the mail.
LEMMA Appended ==
  ASSUME NEW S, NEW q \in Seq(S), NEW a, NEW b
  PROVE  /\ q \o <<a, b>> \in Seq(S \cup {a, b})
         /\ Len(q \o <<a, b>>) = Len(q) + 2
         /\ \A i \in 1 .. Len(q) : (q \o <<a, b>>)[i] = q[i]
         /\ (q \o <<a, b>>)[Len(q) + 1] = a /\ (q \o <<a, b>>)[Len(q) + 2] = b
<1>1. q \in Seq(S \cup {a, b}) /\ <<a, b>> \in Seq(S \cup {a, b})
  OBVIOUS
<1> QED BY <1>1

LEMMA ForeignKeeps ==
  ASSUME CardsInv, NEW c \in Card, NEW grade, ForeignGrade(c, grade)
  PROVE  CardsInv'
<1>1. PICK seen \in {[time |-> 0, after |-> Unseen]} \cup history[c] :
        \E begun \in seen.time + 1 .. clock + 1 :
          \E done \in begun + 1 .. clock + 2,
             after \in NextCardStates(seen.after, grade, algorithm, today) :
            LET due == [time |-> begun, by |-> 0, day |-> after.due]
            IN  inbound' = inbound \o
                  <<[card |-> c, due |-> due],
                    [card |-> c, review |-> [time |-> done, due |-> due, day |-> today, session |-> 0,
                                             algorithm |-> algorithm, before |-> seen.after, after |-> after]]>>
  BY DEF ForeignGrade
<1>2. PICK begun \in seen.time + 1 .. clock + 1 :
        \E done \in begun + 1 .. clock + 2,
           after \in NextCardStates(seen.after, grade, algorithm, today) :
          LET due == [time |-> begun, by |-> 0, day |-> after.due]
          IN  inbound' = inbound \o
                <<[card |-> c, due |-> due],
                  [card |-> c, review |-> [time |-> done, due |-> due, day |-> today, session |-> 0,
                                           algorithm |-> algorithm, before |-> seen.after, after |-> after]]>>
  BY <1>1
<1>3. PICK done \in begun + 1 .. clock + 2,
           after \in NextCardStates(seen.after, grade, algorithm, today) :
        LET due == [time |-> begun, by |-> 0, day |-> after.due]
        IN  inbound' = inbound \o
              <<[card |-> c, due |-> due],
                [card |-> c, review |-> [time |-> done, due |-> due, day |-> today, session |-> 0,
                                         algorithm |-> algorithm, before |-> seen.after, after |-> after]]>>
  BY <1>2
<1> DEFINE due == [time |-> begun, by |-> 0, day |-> after.due]
           a == [card |-> c, due |-> due]
           b == [card |-> c, review |-> [time |-> done, due |-> due, day |-> today, session |-> 0,
                                         algorithm |-> algorithm, before |-> seen.after, after |-> after]]
           k == Len(inbound)
<1>4. begun \in Nat \ {0} /\ done \in Nat
  <2>1. seen.time \in Nat /\ clock \in Nat
    BY DEF CardsInv, RowsKnown
  <2> QED BY <2>1
<1>5. IsDue(a) /\ IsPair(a, b) /\ FromAbroad(b)
  <2>1. /\ IsDue(a) /\ ~IsDue(b) /\ a.card = b.card
        /\ b.review.due = a.due /\ b.review.session = 0 /\ b.review.time = done
    BY DEF IsDue
  <2>2. /\ b.review.due.time = begun /\ b.review.due.by = 0
        /\ b.review.after.due = b.review.due.day
    OBVIOUS
  <2> HIDE DEF a, b
  <2> QED BY <1>4, <2>1, <2>2 DEF IsPair, FromAbroad, WellTold
<1>6. inbound' = inbound \o <<a, b>>
  BY <1>3
<1> HIDE DEF a, b
<1>7. inbound \in Seq(ToSet(inbound)) /\ k \in Nat
  BY DEF CardsInv, CardsShape
<1>8. /\ Len(inbound') = k + 2 /\ inbound'[k + 1] = a /\ inbound'[k + 2] = b
      /\ \A i \in 1 .. k : inbound'[i] = inbound[i]
      /\ inbound' \in Seq(ToSet(inbound) \cup {a, b})
  BY <1>6, <1>7, Appended
<1>9. inbound' \in Seq(ToSet(inbound'))
  BY <1>8, MailIsSeq
<1>10. ~IsDue(b)
  BY <1>5 DEF IsPair
<1>11. Paired'
  <2>1. ASSUME NEW i \in 1 .. k + 2, IsDue(inbound'[i])
        PROVE  i < k + 2 /\ IsPair(inbound'[i], inbound'[i + 1])
    <3>1. CASE i \in 1 .. k
      <4>1. inbound'[i] = inbound[i] /\ i < k /\ IsPair(inbound[i], inbound[i + 1])
        BY <1>7, <1>8, <2>1, <3>1 DEF CardsInv, Paired
      <4>2. i + 1 \in 1 .. k
        BY <1>7, <3>1, <4>1
      <4>3. inbound'[i + 1] = inbound[i + 1]
        BY <1>8, <4>2
      <4> QED BY <1>7, <4>1, <4>3
    <3>2. CASE i = k + 1
      <4>1. inbound'[i] = a /\ inbound'[i + 1] = b
        BY <1>7, <1>8, <3>2
      <4> QED BY <1>5, <1>7, <3>2, <4>1
    <3>3. CASE i = k + 2
      BY <1>8, <1>10, <2>1, <3>3
    <3> QED BY <1>7, <3>1, <3>2, <3>3
  <2>2. ASSUME NEW i \in 2 .. k + 2, ~IsDue(inbound'[i])
        PROVE  IsDue(inbound'[i - 1])
    <3>1. CASE i \in 1 .. k
      <4>1. inbound'[i] = inbound[i] /\ inbound'[i - 1] = inbound[i - 1]
        BY <1>7, <1>8, <3>1
      <4> QED BY <1>7, <2>2, <3>1, <4>1 DEF CardsInv, Paired
    <3>2. CASE i = k + 1
      BY <1>5, <1>8, <2>2, <3>2
    <3>3. CASE i = k + 2
      <4>1. inbound'[i - 1] = a
        BY <1>7, <1>8, <3>3
      <4> QED BY <1>5, <4>1
    <3> QED BY <1>7, <3>1, <3>2, <3>3
  <2>3. ASSUME NEW i \in 1 .. k + 2, ~IsDue(inbound'[i])
        PROVE  FromAbroad(inbound'[i])
    <3>1. CASE i \in 1 .. k
      BY <1>8, <2>3, <3>1 DEF CardsInv, Paired
    <3>2. CASE i = k + 1
      BY <1>5, <1>8, <2>3, <3>2
    <3>3. CASE i = k + 2
      BY <1>5, <1>8, <3>3
    <3> QED BY <1>7, <3>1, <3>2, <3>3
  <2> QED BY <1>8, <2>1, <2>2, <2>3 DEF Paired, IsDue, IsPair, FromAbroad, WellTold
<1>12. UNCHANGED <<status, schedule, history, clock, cut, session, grading>>
  BY DEF ForeignGrade, deviceVars, recordVars
<1>13. \A d \in Card : Half(d)' = Half(d)
  <2>1. CASE inbound = <<>>
    <3>1. k = 0
      BY <2>1
    <3>2. inbound'[1] = a
      BY <1>8, <3>1
    <3>3. inbound' # <<>>
      <4>1. Len(inbound') # Len(<<>>)
        BY <1>8, <3>1
      <4> QED BY <4>1
    <3>4. IsDue(inbound'[1])
      BY <1>5, <3>2
    <3> QED BY <2>1, <3>3, <3>4 DEF Half, IsDue
  <2>2. CASE inbound # <<>>
    <3>1. inbound' # <<>> /\ inbound'[1] = inbound[1]
      BY <1>7, <1>8, <2>2
    <3> QED BY <2>2, <3>1 DEF Half, IsDue
  <2> QED BY <2>1, <2>2
<1>14. clock' \in Nat /\ clock <= clock'
  BY <1>12 DEF CardsInv, RowsKnown
<1>15. /\ GradeInHand' /\ ShownIsNewest' /\ HistoryChains'
       /\ \A d \in Card : InHand(d)' = InHand(d)
  BY <1>12, <1>14, HandKept
<1>16. \A d \in Card : Told(d)' = Told(d)
  BY <1>12, <1>13, <1>15 DEF Told
<1>17. RowsKnown' /\ ScheduleIsNewest'
  BY <1>12, <1>16 DEF CardsInv, RowsKnown, ScheduleIsNewest, WellTold
<1> QED BY <1>9, <1>11, <1>12, <1>15, <1>17 DEF CardsInv, CardsShape

LEMMA LeaveKeeps ==
  ASSUME CardsInv, NEW c \in Card, Leave(c)
  PROVE  CardsInv'
<1>1. UNCHANGED <<schedule, history, clock, inbound, cut, session, grading>>
  BY DEF Leave, deviceVars
<1>2. /\ status' \in [Card -> {"card", "plain", "gone"}]
      /\ \A d \in Card : status'[d] = "card" => status[d] = "card"
  BY DEF Leave, CardsInv, CardsShape
<1>3. clock' \in Nat /\ clock <= clock'
  BY <1>1 DEF CardsInv, RowsKnown
<1>4. /\ GradeInHand' /\ ShownIsNewest' /\ HistoryChains'
      /\ \A d \in Card : InHand(d)' = InHand(d)
  BY <1>1, <1>3, HandKept
<1>5. \A d \in Card : Told(d)' = Told(d)
  BY <1>1, <1>4 DEF Told, Half, IsDue
<1>6. Paired'
  BY <1>1 DEF CardsInv, Paired, IsDue, IsPair, FromAbroad
<1>7. RowsKnown'
  BY <1>1, <1>5 DEF CardsInv, RowsKnown, WellTold
<1>8. ScheduleIsNewest'
  BY <1>1, <1>2, <1>5 DEF CardsInv, ScheduleIsNewest
<1> QED BY <1>1, <1>2, <1>4, <1>6, <1>7, <1>8 DEF CardsInv, CardsShape, ToSet

\* The mail without its head.
LEMMA ShiftedPairs ==
  ASSUME Paired, Len(inbound) \in Nat \ {0}, Len(inbound') = Len(inbound) - 1,
         \A i \in 1 .. Len(inbound) - 1 : inbound'[i] = inbound[i + 1]
  PROVE  Paired'
<1>1. ASSUME NEW i \in 1 .. Len(inbound) - 1, IsDue(inbound'[i])
      PROVE  i < Len(inbound) - 1 /\ IsPair(inbound'[i], inbound'[i + 1])
  <2> DEFINE j == i + 1
  <2>1. j \in 1 .. Len(inbound) /\ inbound'[i] = inbound[j]
    OBVIOUS
  <2>2. IsDue(inbound[j])
    BY <1>1, <2>1
  <2> HIDE DEF j
  <2>3. j < Len(inbound) /\ IsPair(inbound[j], inbound[j + 1])
    BY <2>1, <2>2 DEF Paired
  <2>4. i < Len(inbound) - 1 /\ i + 1 \in 1 .. Len(inbound) - 1
    BY <2>3 DEF j
  <2>5. inbound'[i + 1] = inbound[j + 1]
    BY <2>4 DEF j
  <2> QED BY <2>1, <2>3, <2>4, <2>5
<1>2. ASSUME NEW i \in 2 .. Len(inbound) - 1, ~IsDue(inbound'[i])
      PROVE  IsDue(inbound'[i - 1])
  <2>1. /\ i + 1 \in 2 .. Len(inbound) /\ inbound'[i] = inbound[i + 1]
        /\ inbound'[i - 1] = inbound[(i + 1) - 1]
    OBVIOUS
  <2> QED BY <1>2, <2>1 DEF Paired
<1>3. ASSUME NEW i \in 1 .. Len(inbound) - 1, ~IsDue(inbound'[i])
      PROVE  FromAbroad(inbound'[i])
  <2>1. i + 1 \in 1 .. Len(inbound) /\ inbound'[i] = inbound[i + 1]
    OBVIOUS
  <2> QED BY <1>3, <2>1 DEF Paired
<1> QED BY <1>1, <1>2, <1>3 DEF Paired, IsDue, IsPair, FromAbroad, WellTold

LEMMA Popped ==
  ASSUME CardsInv, inbound # <<>>, inbound' = Tail(inbound)
  PROVE  /\ Len(inbound) \in Nat \ {0} /\ Len(inbound') = Len(inbound) - 1
         /\ \A i \in 1 .. Len(inbound) - 1 : inbound'[i] = inbound[i + 1]
         /\ inbound' \in Seq(ToSet(inbound'))
         /\ Paired'
<1>1. inbound \in Seq(ToSet(inbound))
  BY DEF CardsInv, CardsShape
<1>2. Len(inbound) \in Nat \ {0}
  BY <1>1
<1>3. Len(inbound') = Len(inbound) - 1 /\ inbound' \in Seq(ToSet(inbound))
  BY <1>1
<1>4. \A i \in 1 .. Len(inbound) - 1 : inbound'[i] = inbound[i + 1]
  BY <1>1
<1>5. inbound' \in Seq(ToSet(inbound'))
  BY <1>3, MailIsSeq
<1>6. Paired'
  BY <1>2, <1>3, <1>4, ShiftedPairs DEF CardsInv
<1> QED BY <1>2, <1>3, <1>4, <1>5, <1>6

LEMMA PullDueKeeps ==
  ASSUME CardsInv, PullGrade, IsDue(inbound[1])
  PROVE  CardsInv'
<1> DEFINE e == inbound[1]
           b == inbound[1 + 1]
           r == b.review
<1>1. inbound # <<>> /\ inbound' = Tail(inbound) /\ Head(inbound) = e
  BY DEF PullGrade, CardsInv, CardsShape
<1>2. /\ Len(inbound) \in Nat \ {0} /\ Len(inbound') = Len(inbound) - 1
      /\ \A i \in 1 .. Len(inbound) - 1 : inbound'[i] = inbound[i + 1]
      /\ inbound' \in Seq(ToSet(inbound'))
      /\ Paired'
  BY <1>1, Popped
<1>3. 1 < Len(inbound) /\ IsPair(e, b)
  BY <1>2 DEF CardsInv, Paired
<1>4. ~IsDue(b) /\ b.card = e.card /\ r.due = e.due
  BY <1>3 DEF IsPair
<1>5. WellTold(r)
  <2>1. 1 + 1 \in 1 .. Len(inbound)
    BY <1>2, <1>3
  <2> QED BY <1>4, <2>1 DEF CardsInv, Paired, FromAbroad
<1>6. inbound' # <<>> /\ inbound'[1] = b
  <2>1. Len(inbound') # Len(<<>>) /\ 1 \in 1 .. Len(inbound) - 1
    BY <1>2, <1>3
  <2> QED BY <1>2, <2>1
<1>7. \A d \in Card : Half(d) = {} /\ Half(d)' = IF d = e.card THEN {r} ELSE {}
  BY <1>4, <1>6 DEF Half, IsDue
<1>8. schedule' = DueApplied(e.card, e.due) /\ clock' = Larger(clock, e.due.time) /\ history' = history
  BY <1>1 DEF PullGrade, IsDue
<1>9. UNCHANGED <<status, cut, session, grading>>
  BY DEF PullGrade, deviceVars
<1> HIDE DEF r, e, b
<1>10. clock \in Nat /\ e.due.time \in Nat
  BY <1>4, <1>5 DEF CardsInv, RowsKnown, WellTold
<1>11. clock' \in Nat /\ clock <= clock'
  BY <1>8, <1>10 DEF Larger
<1>12. /\ GradeInHand' /\ ShownIsNewest' /\ HistoryChains'
       /\ \A d \in Card : InHand(d)' = InHand(d)
  BY <1>8, <1>9, <1>11, HandKept
<1>13. \A d \in Card : Told(d)' = IF d = e.card THEN Told(d) \cup {r} ELSE Told(d)
  BY <1>7, <1>8, <1>12 DEF Told
<1>14. schedule' = DueApplied(e.card, r.due)
  BY <1>4, <1>8
<1>15. /\ ScheduleIsNewest'
       /\ \A d \in Card : schedule'[d].time \in Nat /\ schedule'[d].by \in Nat
  BY <1>5, <1>9, <1>13, <1>14, ToldOneMore
<1>16. RowsKnown'
  <2>1. \A n \in 0 .. clock : n \in 0 .. clock'
    BY <1>10, <1>11
  <2>2. \A d \in Card : \A q \in history'[d] : q.time \in 0 .. clock'
    BY <1>8, <2>1 DEF CardsInv, RowsKnown
  <2>3. \A d \in Card : \A q \in Told(d)' : WellTold(q)
    BY <1>5, <1>13 DEF CardsInv, RowsKnown
  <2> QED BY <1>11, <1>15, <2>2, <2>3 DEF RowsKnown, WellTold
<1>17. DOMAIN schedule' = Card
  BY <1>14, DueAppliedIs DEF CardsInv
<1> QED BY <1>2, <1>8, <1>9, <1>12, <1>15, <1>16, <1>17 DEF CardsInv, CardsShape

LEMMA PullReviewKeeps ==
  ASSUME CardsInv, PullGrade, ~IsDue(inbound[1])
  PROVE  CardsInv'
<1> DEFINE e == inbound[1]
           r == e.review
<1>1. inbound # <<>> /\ inbound' = Tail(inbound) /\ Head(inbound) = e
  BY DEF PullGrade, CardsInv, CardsShape
<1>2. /\ Len(inbound) \in Nat \ {0} /\ Len(inbound') = Len(inbound) - 1
      /\ \A i \in 1 .. Len(inbound) - 1 : inbound'[i] = inbound[i + 1]
      /\ inbound' \in Seq(ToSet(inbound'))
      /\ Paired'
  BY <1>1, Popped
<1>3. r.session = 0 /\ r.time \in Nat
  BY <1>2 DEF CardsInv, Paired, FromAbroad
<1>4. inbound' # <<>> => IsDue(inbound'[1])
  <2> SUFFICES ASSUME inbound' # <<>> PROVE IsDue(inbound'[1])
    OBVIOUS
  <2>1. Len(inbound') # 0
    BY <1>2
  <2>2. 1 + 1 \in 2 .. Len(inbound) /\ inbound'[1] = inbound[1 + 1]
    BY <1>2, <2>1
  <2>3. IsDue(inbound[1 + 1]) \/ IsDue(inbound[(1 + 1) - 1])
    BY <2>2 DEF CardsInv, Paired
  <2> QED BY <2>2, <2>3
<1>5. \A d \in Card : Half(d) = (IF d = e.card THEN {r} ELSE {}) /\ Half(d)' = {}
  BY <1>1, <1>4 DEF Half, IsDue
<1>6. history' = ReviewApplied(e.card, r) /\ clock' = Larger(clock, r.time) /\ schedule' = schedule
  BY <1>1 DEF PullGrade, IsDue
<1>7. UNCHANGED <<status, cut, session, grading>>
  BY DEF PullGrade, deviceVars
<1> HIDE DEF r, e
<1>8. /\ DOMAIN history' = Card
      /\ \A d \in Card : d # e.card => history'[d] = history[d]
      /\ \A d \in Card : history'[d] \in {history[d], history[d] \cup {r}}
      /\ \A d \in Card \ Heir : d = e.card /\ status[d] = "card" => history'[d] = history[d] \cup {r}
  BY <1>6, ReviewAppliedIs DEF CardsInv
<1>9. clock \in Nat /\ clock' \in Nat /\ clock <= clock' /\ r.time <= clock'
  BY <1>3, <1>6 DEF Larger, CardsInv, RowsKnown
<1>10. \A d \in Card : OwnGradesOnly(d)' => history'[d] = history[d]
  BY <1>3, <1>8 DEF OwnGradesOnly
<1>11. /\ GradeInHand' /\ ShownIsNewest' /\ HistoryChains'
       /\ \A d \in Card : InHand(d)' = InHand(d)
  BY <1>7, <1>9, <1>10, HandKept
<1>12. /\ \A d \in Card : Told(d)' \subseteq Told(d)
       /\ \A d \in Card \ Heir : status[d] = "card" => Told(d)' = Told(d)
  BY <1>5, <1>8, <1>11 DEF Told
<1>13. RowsKnown'
  <2>1. \A n \in 0 .. clock : n \in 0 .. clock'
    BY <1>9
  <2>2. r.time \in 0 .. clock'
    BY <1>3, <1>9
  <2>3. \A d \in Card : \A q \in history'[d] : q.time \in 0 .. clock'
    BY <1>8, <2>1, <2>2 DEF CardsInv, RowsKnown
  <2>4. \A d \in Card : \A q \in Told(d)' : WellTold(q)
    BY <1>12 DEF CardsInv, RowsKnown
  <2> QED BY <1>6, <1>9, <2>3, <2>4 DEF CardsInv, RowsKnown, WellTold
<1>14. ScheduleIsNewest'
  BY <1>6, <1>7, <1>12 DEF CardsInv, ScheduleIsNewest
<1> QED BY <1>2, <1>6, <1>7, <1>8, <1>11, <1>13, <1>14 DEF CardsInv, CardsShape

LEMMA CardsInitInv == CardsInit => CardsInv
<1> SUFFICES ASSUME CardsInit PROVE CardsInv
  OBVIOUS
<1>1. /\ inbound = <<>> /\ session = NoSession /\ clock = 0 /\ grading = NotGrading
      /\ \A c \in Card : history[c] = {} /\ schedule[c] = NeverDue
  BY DEF CardsInit
<1>2. CardsShape
  BY MailIsSeq DEF CardsInit, CardsShape
<1>3. grading.at = "idle"
  BY <1>1 DEF NotGrading
<1>4. \A c \in Card : Told(c) = {}
  BY <1>1, <1>3 DEF Told, Half, InHand
<1>5. Paired
  BY <1>1 DEF Paired
<1>6. \A c \in Card : schedule[c].time \in Nat /\ schedule[c].by \in Nat
  BY <1>1 DEF NeverDue
<1>7. RowsKnown
  BY <1>1, <1>4, <1>6 DEF RowsKnown
<1>8. ScheduleIsNewest
  BY <1>1, <1>4 DEF ScheduleIsNewest
<1>9. HistoryChains
  BY <1>1 DEF HistoryChains
<1>10. ShownIsNewest
  BY <1>1 DEF ShownIsNewest, NoSession
<1>11. GradeInHand
  BY <1>3 DEF GradeInHand
<1> QED BY <1>2, <1>5, <1>7, <1>8, <1>9, <1>10, <1>11 DEF CardsInv

LEMMA CardsStepInv == CardsInv /\ [CardsNext]_cardVars => CardsInv'
<1> SUFFICES ASSUME CardsInv, [CardsNext]_cardVars PROVE CardsInv'
  OBVIOUS
<1>1. CASE SelectAlgorithm \/ NextDay \/ RefreshHub \/ UNCHANGED cardVars
  <2>1. UNCHANGED <<status, schedule, history, clock, inbound, cut, session, grading>>
    BY <1>1 DEF SelectAlgorithm, NextDay, RefreshHub, cardVars, deviceVars, recordVars
  <2> QED BY <2>1, StillKeeps
<1>2. CASE StartReview
  <2>1. DOMAIN [NoSession EXCEPT !.queue = ReviewQueue(hub), !.algorithm = algorithm, !.id = grades.here + 1]
          = DOMAIN NoSession
    OBVIOUS
  <2>2. grading.at = "idle"
    BY <1>2 DEF StartReview, NoSession, CardsInv, GradeInHand
  <2>3. UNCHANGED <<status, schedule, history, clock, inbound, cut, grading>>
    BY <1>2 DEF StartReview, recordVars
  <2> QED BY <1>2, <2>1, <2>2, <2>3, RenderKeeps DEF StartReview
<1>3. CASE Reveal
  <2>1. DOMAIN [session EXCEPT !.revealed = TRUE] = DOMAIN NoSession
    BY DEF CardsInv, CardsShape
  <2>2. /\ grading.at = "idle"
        /\ UNCHANGED <<status, schedule, history, clock, inbound, cut, grading>>
    BY <1>3 DEF Reveal, recordVars, NotGrading
  <2> QED BY <1>3, <2>1, <2>2, RenderKeeps DEF Reveal
<1>4. CASE PullGrade
  BY <1>4, PullDueKeeps, PullReviewKeeps
<1>5. CASE CloseSession \/ Crash \/ StampReview \/ SaveDue \/ SaveReview
  BY <1>5, CloseKeeps, CrashKeeps, StampKeeps, SaveDueKeeps, SaveReviewKeeps
<1> QED BY <1>1, <1>2, <1>3, <1>4, <1>5, GradeKeeps, ForeignKeeps, LeaveKeeps DEF CardsNext

(* No session grades from a stale state: as long as no other device graded a card, each
   review in its history starts from what the one before it left, for every number of
   cards, days and grades, whatever is pulled or taken off, and wherever the process ends,
   in between. *)
THEOREM ReviewsChain == CardsSpec => []HistoryChains
<1>1. CardsSpec => []CardsInv
  BY CardsInitInv, CardsStepInv, PTL DEF CardsSpec
<1> QED BY <1>1, PTL DEF CardsInv

LEMMA InvScheduleIsHistory == CardsInv => ScheduleIsHistory
<1> SUFFICES ASSUME CardsInv, NEW c \in Card \ Heir, status[c] = "card", ~Pending(c), schedule[c] \notin cut
             PROVE  IF history[c] = {} THEN schedule[c].day = PyNone
                    ELSE \E r \in history[c] : /\ r.due = schedule[c] /\ r.after.due = schedule[c].day
                                               /\ \A q \in history[c] : ~Newer(q.due, r.due)
  BY DEF ScheduleIsHistory
<1>1. Told(c) = history[c]
  <2>1. inbound # <<>> => 1 \in 1 .. Len(inbound)
    BY DEF CardsInv, CardsShape
  <2> QED BY <2>1 DEF Told, Half, InHand, Pending
<1>2. /\ \A w \in history[c] : ~Newer(w.due, schedule[c]) /\ WellTold(w)
      /\ schedule[c] = NeverDue \/ \E w \in history[c] : w.due = schedule[c]
  BY <1>1 DEF CardsInv, ScheduleIsNewest, RowsKnown
<1>3. CASE history[c] = {}
  BY <1>2, <1>3 DEF NeverDue
<1>4. CASE history[c] # {}
  <2>1. schedule[c] # NeverDue
    BY <1>2, <1>4 DEF NeverDue, WellTold, Newer
  <2>2. PICK w \in history[c] : w.due = schedule[c]
    BY <1>2, <2>1
  <2>3. w.after.due = schedule[c].day
    BY <1>2, <2>2 DEF WellTold
  <2> QED BY <1>2, <1>4, <2>2, <2>3
<1> QED BY <1>3, <1>4

(* The schedule of a card tells the day that the grade begun last left, whichever device
   gave it, in whatever order the envelopes of the grades were stamped, saved and pulled,
   and wherever the process ended between them, for every number of cards, days and grades;
   the exceptions are a grade of which one envelope is still to come, and one whose review
   a crash took. *)
THEOREM RecordsAgree == CardsSpec => []ScheduleIsHistory
<1>1. CardsSpec => []CardsInv
  BY CardsInitInv, CardsStepInv, PTL DEF CardsSpec
<1> QED BY <1>1, InvScheduleIsHistory, PTL

-----------------------------------------------------------------------------
(* SealedSync. *)

EditAt(i) == relayLog[i].edit

\* What workers remember of the log and the image lies within them.
InLog ==
  /\ cursor <= Len(relayLog) /\ image.upTo <= Len(relayLog)
  /\ \A w \in Worker :
       /\ At(w, "page") => work[w].after <= Len(relayLog) /\ work[w].upTo <= Len(relayLog)
       /\ At(w, "download") \/ At(w, "cursor") => w = "opener" /\ work[w].upTo <= image.upTo

\* Whatever carries an edit's stamp, the stamp was given out.
Stamped ==
  /\ \A e \in recorded \cup unsent : e.stamp <= stamped
  /\ \A i \in 1..Len(relayLog) : EditAt(i).stamp <= stamped
  /\ \A w \in Worker : At(w, "submit") => \A e \in work[w].chunk : e.stamp <= stamped

\* The cursor has passed i, or will when a restore ends; or a page under way was fetched from beyond it.
Passed(i) ==
  \/ i <= cursor
  \/ \E w \in Worker : \/ At(w, "page") /\ i <= work[w].after
                       \/ At(w, "cursor") /\ i <= work[w].upTo

\* Restoring the image again would leave e shown as it is.
Left(e) == ShownIn(nodeRows, e) /\ (image.nodeRows[e.node] = 0 \/ ShownIn(image.nodeRows, e))

\* What was passed is shown or lost, and so is what was recorded.
PassedCovered == \A i \in 1..Len(relayLog) : Passed(i) => ShownIn(nodeRows, EditAt(i)) \/ EditAt(i) \in lost

RecordedCovered == \A e \in recorded : ShownIn(nodeRows, e) \/ e \in lost

\* A position the image claims is in it, was not for its uploader to read, or would stay shown.
ImageCovers ==
  \A i \in 1..image.upTo :
    \/ relayLog[i].sealed /\ ~image.sealed
    \/ EditAt(i) \in lost
    \/ ShownIn(image.nodeRows, EditAt(i))
    \/ Left(EditAt(i))

\* What was passed beyond the image is recorded or lost, or would stay shown.
BeyondImageHeld ==
  \A i \in 1..Len(relayLog) :
    Passed(i) /\ i > image.upTo => EditAt(i) \in recorded \cup lost \/ Left(EditAt(i))

SealedInv ==
  /\ SealedTypeOK /\ InLog
  /\ PassedCovered /\ RecordedCovered /\ ImageCovers /\ BeyondImageHeld

\* A bounded set of naturals has a largest element.
LEMMA MaxExists ==
  ASSUME NEW b \in Nat, NEW S \in SUBSET (0..b), S # {}
  PROVE  \E m \in S : \A r \in S : m >= r
<1> DEFINE T == {n \in Nat : b - n \in S}
<1>1. T \subseteq Nat /\ T # {}
  <2>1. PICK s \in S : TRUE
    OBVIOUS
  <2>2. b - s \in T
    BY <2>1
  <2> QED BY <2>2
<1>2. PICK t \in T : \A u \in T : ~(<<u, t>> \in OpToRel(<, Nat))
  BY <1>1, NatLessThanWellFounded, WFMin, Zenon
<1>3. \A u \in T : ~(u < t)
  BY <1>1, <1>2 DEF OpToRel
<1>4. \A r \in S : b - r \in T
  OBVIOUS
<1> WITNESS b - t \in S
<1> QED BY <1>3, <1>4

\* What a worker is doing, field by field.
LEMMA DoingFacts ==
  /\ \A d \in Doing :
       /\ d.engine \in Engines
       /\ d.step \in Steps \cup {"download", "cursor", "submit", "page"}
       /\ d.step = "download" => d.upTo \in Nat /\ d.sealed \in BOOLEAN
       /\ d.step = "cursor" => d.upTo \in Nat
       /\ d.step = "submit" => d.chunk \in Chunk /\ d.sealed \in BOOLEAN
       /\ d.step = "page" => d.after \in Nat /\ d.upTo \in Nat
  /\ \A s \in Steps, e \in Engines : [step |-> s, engine |-> e] \in Doing
  /\ Idle \in Doing
<1>1. \A d \in Doing : d.engine \in Engines
  BY DEF Doing
<1>2. \A d \in Doing : d.step \in Steps \cup {"download", "cursor", "submit", "page"}
  BY DEF Doing
<1>3. \A d \in Doing :
       /\ d.step = "download" => d.upTo \in Nat /\ d.sealed \in BOOLEAN
       /\ d.step = "cursor" => d.upTo \in Nat
       /\ d.step = "submit" => d.chunk \in Chunk /\ d.sealed \in BOOLEAN
       /\ d.step = "page" => d.after \in Nat /\ d.upTo \in Nat
  BY DEF Doing, Steps
<1>4. \A s \in Steps, e \in Engines : [step |-> s, engine |-> e] \in Doing
  BY DEF Doing
<1>5. Idle \in Doing
  BY SealedAssumption, <1>4 DEF Idle, Steps, Engines
<1> QED BY <1>1, <1>2, <1>3, <1>4, <1>5

\* A worker that goes on leaves the others where they are.
LEMMA CarryFacts ==
  ASSUME work \in [Worker -> Doing], NEW w \in Worker, NEW rec \in Doing, Carry(w, rec)
  PROVE  /\ work' \in [Worker -> Doing] /\ work'[w] = rec
         /\ \A v \in Worker : v # w => work'[v] = work[v]
BY DEF Carry

LEMMA GoFacts ==
  ASSUME work \in [Worker -> Doing], NEW w \in Worker, NEW s \in Steps, Go(w, s)
  PROVE  /\ work' \in [Worker -> Doing] /\ work'[w] = [step |-> s, engine |-> work[w].engine]
         /\ \A v \in Worker : v # w => work'[v] = work[v]
<1>1. work[w].engine \in Engines
  BY DoingFacts
<1>2. [step |-> s, engine |-> work[w].engine] \in Doing
  BY <1>1, DoingFacts
<1>3. Carry(w, [step |-> s, engine |-> work[w].engine])
  BY DEF Go
<1> QED BY <1>2, <1>3, CarryFacts

LEMMA FinishFacts ==
  ASSUME work \in [Worker -> Doing], NEW w \in Worker, Finish(w) \/ Fail(w)
  PROVE  /\ work' \in [Worker -> Doing] /\ work'[w].step \in {"idle", "opened"}
         /\ work'[w].step = "opened" => w = "opener" /\ work'[w].engine = work[w].engine
         /\ \A v \in Worker : v # w => work'[v] = work[v]
<1>1. CASE Fail(w)
  <2>1. Carry(w, Idle)
    BY <1>1 DEF Fail
  <2>2. /\ work' \in [Worker -> Doing] /\ work'[w] = Idle
        /\ \A v \in Worker : v # w => work'[v] = work[v]
    BY <2>1, CarryFacts, DoingFacts
  <2> QED BY <2>2 DEF Idle
<1>2. CASE w = "opener" /\ Go(w, "opened")
  <2>1. /\ work' \in [Worker -> Doing] /\ work'[w] = [step |-> "opened", engine |-> work[w].engine]
        /\ \A v \in Worker : v # w => work'[v] = work[v]
    BY <1>2, GoFacts DEF Steps
  <2> QED BY <1>2, <2>1
<1> QED BY <1>1, <1>2 DEF Finish

LEMMA LogFacts ==
  ASSUME SealedTypeOK
  PROVE  /\ Len(relayLog) \in Nat /\ DOMAIN relayLog = 1..Len(relayLog)
         /\ \A i \in 1..Len(relayLog) :
              /\ relayLog[i].edit \in Edit /\ relayLog[i].sealed \in BOOLEAN
              /\ relayLog[i].edit.node \in Place /\ relayLog[i].edit.stamp \in 1..MaxEdits
              /\ relayLog[i] \in Range(relayLog)
         /\ \A k \in Range(relayLog) : k.edit \in Edit /\ \E i \in 1..Len(relayLog) : k = relayLog[i]
<1>1. relayLog \in Seq([edit : Edit, sealed : BOOLEAN])
  BY DEF SealedTypeOK
<1>2. Len(relayLog) \in Nat /\ DOMAIN relayLog = 1..Len(relayLog)
  BY <1>1, LenProperties
<1>3. \A i \in 1..Len(relayLog) : relayLog[i] \in [edit : Edit, sealed : BOOLEAN]
  BY <1>1, ElementOfSeq
<1>4. \A x \in [edit : Edit, sealed : BOOLEAN] :
        /\ x.edit \in Edit /\ x.sealed \in BOOLEAN
        /\ x.edit.node \in Place /\ x.edit.stamp \in 1..MaxEdits
  BY DEF Edit
<1>5. \A i \in 1..Len(relayLog) : relayLog[i] \in Range(relayLog)
  BY <1>2 DEF Range
<1>6. \A k \in Range(relayLog) : \E i \in 1..Len(relayLog) : k = relayLog[i]
  BY <1>2 DEF Range
<1>7. \A k \in Range(relayLog) : k.edit \in Edit
  BY <1>3, <1>4, <1>6
<1> QED BY <1>2, <1>3, <1>4, <1>5, <1>6, <1>7

\* Applying edits only adds, and shows the fresh ones.
LEMMA ApplyFacts ==
  ASSUME SealedTypeOK, NEW edits \in SUBSET Edit, Apply(edits)
  PROVE  /\ nodeRows' \in [Place -> 0..MaxEdits] /\ recorded' = recorded \cup edits
         /\ \A n \in Place : nodeRows'[n] >= nodeRows[n]
         /\ \A e \in edits \ recorded : ShownIn(nodeRows', e)
<1> DEFINE fresh == edits \ recorded
           stamps(n) == {e.stamp : e \in {f \in fresh : f.node = n}}
           all(n) == stamps(n) \cup {nodeRows[n]}
           newest(n) == CHOOSE s \in all(n) : \A r \in all(n) : s >= r
<1>1. recorded' = recorded \cup edits /\ nodeRows' = [n \in Place |-> newest(n)]
  BY DEF Apply
<1>2. nodeRows \in [Place -> 0..MaxEdits] /\ MaxEdits \in Nat
  BY SealedAssumption DEF SealedTypeOK
<1>3. \A n \in Place : newest(n) \in all(n) /\ \A r \in all(n) : newest(n) >= r
  <2> SUFFICES ASSUME NEW n \in Place
               PROVE  newest(n) \in all(n) /\ \A r \in all(n) : newest(n) >= r
    OBVIOUS
  <2>1. all(n) \subseteq 0..MaxEdits
    BY <1>2 DEF Edit
  <2>2. \E s \in all(n) : \A r \in all(n) : s >= r
    <3> HIDE DEF all
    <3>1. all(n) # {}
      BY DEF all
    <3> QED BY <1>2, <2>1, <3>1, MaxExists
  <2> HIDE DEF all
  <2> QED BY <2>2
<1>4. \A n \in Place : all(n) \subseteq 0..MaxEdits
  BY <1>2 DEF Edit
<1>5. nodeRows' \in [Place -> 0..MaxEdits]
  <2> HIDE DEF newest, all
  <2> QED BY <1>1, <1>3, <1>4
<1>6. \A n \in Place : nodeRows'[n] >= nodeRows[n]
  <2> HIDE DEF newest, stamps
  <2> QED BY <1>1, <1>3
<1>7. ASSUME NEW e \in edits \ recorded PROVE ShownIn(nodeRows', e)
  <2>1. e.node \in Place /\ e.stamp \in all(e.node)
    BY DEF Edit
  <2> HIDE DEF newest, all
  <2> QED BY <1>1, <1>3, <2>1 DEF ShownIn
<1> QED BY <1>1, <1>5, <1>6, <1>7
LEMMA SealedTypeInit == SealedInit => SealedTypeOK
<1> SUFFICES ASSUME SealedInit PROVE SealedTypeOK
  OBVIOUS
<1>1. MaxEdits \in Nat /\ MaxEngines \in Nat \ {0}
  BY SealedAssumption
<1>2. relayLog \in Seq([edit : Edit, sealed : BOOLEAN])
  BY DEF SealedInit
<1>3. image \in [upTo : Nat, sealed : BOOLEAN, nodeRows : [Place -> 0..MaxEdits]]
  BY <1>1 DEF SealedInit
<1>4. nodeRows \in [Place -> 0..MaxEdits]
  BY <1>1 DEF SealedInit
<1>5. work \in [Worker -> Doing]
  BY DoingFacts DEF SealedInit
<1>6. /\ recorded \subseteq Edit /\ unsent \in Chunk /\ lost \subseteq Edit
      /\ cursor \in Nat /\ stamped \in 0..MaxEdits /\ current \in 0..MaxEngines
  BY <1>1, FS_EmptySet DEF SealedInit, Chunk
<1>7. provider \in [Engines -> BOOLEAN] /\ barred \in [Engines -> BOOLEAN]
  BY DEF SealedInit
<1>8. holder \in [Engines -> Worker \cup {"free"}]
  BY DEF SealedInit
<1>9. master \in BOOLEAN /\ banner \in BOOLEAN /\ keyRow \in {"none", "good", "stale"}
  BY Zenon DEF SealedInit
<1> QED BY <1>2, <1>3, <1>4, <1>5, <1>6, <1>7, <1>8, <1>9 DEF SealedTypeOK

\* The parts of the type that a step of a worker leaves alone.
Rest == <<relayRows, mirrorRows, unsent, cursor, stamped, windowVars, engineVars, holder>>

LEMMA WorkOnlyType ==
  ASSUME SealedTypeOK, UNCHANGED Rest, work' \in [Worker -> Doing]
  PROVE  SealedTypeOK'
BY DEF SealedTypeOK, Rest, relayRows, mirrorRows, windowVars, engineVars

LEMMA WindowType ==
  ASSUME SealedTypeOK,
         SelectWorkspace \/ WorkspaceOpened \/ IntervalSync \/ Hello
  PROVE  SealedTypeOK'
<1> USE DEF relayRows, mirrorRows, windowVars, engineVars
<1>1. work \in [Worker -> Doing] /\ current \in 0..MaxEngines /\ MaxEngines \in Nat
  BY SealedAssumption DEF SealedTypeOK
<1>2. ASSUME NEW unlocking \in BOOLEAN, Select(unlocking) PROVE SealedTypeOK'
  <2>1. current + 1 \in Engines /\ current' \in 0..MaxEngines
    BY <1>1, <1>2 DEF Select, Engines
  <2>2. [step |-> "key", engine |-> current + 1] \in Doing
    BY <2>1, DoingFacts DEF Steps
  <2>3. Carry("opener", [step |-> "key", engine |-> current + 1])
    BY <1>2 DEF Select
  <2>4. work' \in [Worker -> Doing]
    BY <1>1, <2>2, <2>3, CarryFacts DEF Worker
  <2>5. master' \in BOOLEAN
    BY <1>2, Zenon DEF Select, SealedTypeOK
  <2> QED BY <1>2, <2>1, <2>4, <2>5 DEF Select, SealedTypeOK
<1>3. CASE WorkspaceOpened
  <2>1. work' \in [Worker -> Doing]
    BY <1>1, <1>3, FinishFacts DEF WorkspaceOpened, Worker
  <2>2. banner' \in BOOLEAN
    BY <1>3, Zenon DEF WorkspaceOpened
  <2> QED BY <1>3, <2>1, <2>2 DEF WorkspaceOpened, SealedTypeOK
<1>4. ASSUME current # 0, NEW w \in Worker, NEW s \in Steps,
             Carry(w, [step |-> s, engine |-> current]), UNCHANGED Rest
      PROVE  SealedTypeOK'
  <2>1. current \in Engines
    BY <1>1, <1>4 DEF Engines
  <2>2. work' \in [Worker -> Doing]
    BY <1>1, <1>4, <2>1, CarryFacts, DoingFacts
  <2> QED BY <1>4, <2>2, WorkOnlyType
<1>5. CASE IntervalSync
  BY <1>4, <1>5 DEF IntervalSync, StartSaver, Worker, Steps, Rest
<1>6. CASE Hello
  BY <1>4, <1>6 DEF Hello, Worker, Steps, Rest
<1> QED BY <1>2, <1>3, <1>5, <1>6 DEF SelectWorkspace

LEMMA SaveEditType == ASSUME SealedTypeOK, NEW n \in Place, SaveEdit(n) PROVE SealedTypeOK'
<1> DEFINE e == [node |-> n, stamp |-> stamped + 1]
<1>1. /\ work \in [Worker -> Doing] /\ current \in 0..MaxEngines /\ MaxEngines \in Nat
      /\ stamped \in 0..MaxEdits /\ MaxEdits \in Nat
  BY SealedAssumption DEF SealedTypeOK
<1>2. e \in Edit /\ stamped' \in 0..MaxEdits
  BY <1>1 DEF SaveEdit, Edit
<1>3. nodeRows' \in [Place -> 0..MaxEdits] /\ recorded' = recorded \cup {e}
  <2>1. Apply({e}) /\ {e} \in SUBSET Edit
    BY <1>2 DEF SaveEdit
  <2> QED BY <2>1, ApplyFacts
<1>4. current \in Engines /\ unsent' \in Chunk
  <2>1. unsent \in SUBSET Edit /\ IsFiniteSet(unsent)
    BY DEF SealedTypeOK, Chunk
  <2>2. IsFiniteSet(unsent \cup {e})
    BY <2>1, FS_AddElement
  <2> QED BY <1>1, <1>2, <2>1, <2>2 DEF SaveEdit, Engines, Chunk
<1>5. work' \in [Worker -> Doing]
  <2>1. Carry("saver", [step |-> "push", engine |-> current])
    BY DEF SaveEdit, StartSaver
  <2>2. [step |-> "push", engine |-> current] \in Doing
    BY <1>4, DoingFacts DEF Steps
  <2> QED BY <1>1, <2>1, <2>2, CarryFacts DEF Worker
<1> QED
  BY <1>2, <1>3, <1>4, <1>5 DEF SaveEdit, SealedTypeOK, relayRows, windowVars, engineVars

LEMMA UnwrapType ==
  ASSUME SealedTypeOK, NEW w \in Worker, NEW record, Unwrap(w, record)
  PROVE  /\ provider' \in [Engines -> BOOLEAN] /\ barred' \in [Engines -> BOOLEAN]
         /\ work' \in [Worker -> Doing] /\ current' = current
<1>1. work \in [Worker -> Doing] /\ provider \in [Engines -> BOOLEAN] /\ barred \in [Engines -> BOOLEAN]
  BY DEF SealedTypeOK
<1>2. CASE SetCrypto(work[w].engine) /\ Go(w, "probe")
  BY <1>1, <1>2, GoFacts DEF SetCrypto, Steps
<1>3. CASE Bar(work[w].engine) /\ Go(w, "refused")
  BY <1>1, <1>3, GoFacts DEF Bar, Steps
<1> QED BY <1>2, <1>3 DEF Unwrap

LEMMA KeyType == ASSUME SealedTypeOK, FetchKey \/ StoreKey \/ KeyRouteFails PROVE SealedTypeOK'
<1> USE DEF relayRows, mirrorRows, windowVars, engineVars
<1>1. work \in [Worker -> Doing] /\ "opener" \in Worker
  BY DEF SealedTypeOK, Worker
<1>2. CASE FetchKey /\ keyRow # "none"
  <2>1. Unwrap("opener", keyRow)
    BY <1>2 DEF FetchKey
  <2> QED BY <1>1, <1>2, <2>1, UnwrapType DEF FetchKey, SealedTypeOK
<1>3. CASE FetchKey /\ keyRow = "none"
  <2>1. Go("opener", IF master THEN "put" ELSE "probe") /\ UNCHANGED Rest
    BY <1>3 DEF FetchKey, Rest
  <2>2. work' \in [Worker -> Doing]
    BY <1>1, <2>1, GoFacts DEF Steps
  <2> QED BY <2>1, <2>2, WorkOnlyType
<1>4. CASE StoreKey
  <2>1. Unwrap("opener", keyRow')
    BY <1>4 DEF StoreKey
  <2>2. keyRow' \in {"none", "good", "stale"}
    BY <1>4 DEF StoreKey, SealedTypeOK
  <2> QED BY <1>1, <1>4, <2>1, <2>2, UnwrapType DEF StoreKey, SealedTypeOK
<1>5. CASE KeyRouteFails
  <2>1. work' \in [Worker -> Doing] /\ UNCHANGED Rest
    BY <1>1, <1>5, GoFacts DEF KeyRouteFails, Steps, Rest
  <2> QED BY <2>1, WorkOnlyType
<1> QED BY <1>2, <1>3, <1>4, <1>5

LEMMA OpenerType ==
  ASSUME SealedTypeOK,
         Probe \/ DeclineSnapshot \/ OpenSnapshotFails \/ RestoreSnapshot \/ RestoreCursor
  PROVE  SealedTypeOK'
<1> USE DEF relayRows, mirrorRows, windowVars, engineVars
<1>1. /\ work \in [Worker -> Doing] /\ "opener" \in Worker
      /\ image \in [upTo : Nat, sealed : BOOLEAN, nodeRows : [Place -> 0..MaxEdits]]
      /\ nodeRows \in [Place -> 0..MaxEdits] /\ MaxEdits \in Nat
      /\ relayLog \in Seq([edit : Edit, sealed : BOOLEAN])
      /\ recorded \subseteq Edit /\ lost \subseteq Edit
  BY SealedAssumption DEF SealedTypeOK, Worker
<1>2. work["opener"].engine \in Engines
  BY <1>1, DoingFacts
<1>3. CASE Probe
  <2>1. \/ Go("opener", "push")
        \/ Carry("opener", [step |-> "download", engine |-> work["opener"].engine,
                            upTo |-> image.upTo, sealed |-> image.sealed])
    BY <1>3 DEF Probe
  <2>2. [step |-> "download", engine |-> work["opener"].engine,
         upTo |-> image.upTo, sealed |-> image.sealed] \in Doing
    BY <1>1, <1>2 DEF Doing
  <2>3. work' \in [Worker -> Doing]
    BY <1>1, <2>1, <2>2, CarryFacts, GoFacts DEF Steps
  <2> QED BY <1>3, <2>3, WorkOnlyType DEF Probe, Rest
<1>4. CASE DeclineSnapshot
  <2>1. work' \in [Worker -> Doing] /\ UNCHANGED Rest
    BY <1>1, <1>4, GoFacts DEF DeclineSnapshot, Steps, Rest
  <2> QED BY <2>1, WorkOnlyType
<1>5. CASE OpenSnapshotFails
  <2>1. work' \in [Worker -> Doing] /\ UNCHANGED Rest
    BY <1>1, <1>5, FinishFacts DEF OpenSnapshotFails, Rest
  <2> QED BY <2>1, WorkOnlyType
<1>6. CASE RestoreSnapshot
  <2>1. RestoreImage /\ At("opener", "download")
    BY <1>6 DEF RestoreSnapshot
  <2>2. work["opener"].upTo \in Nat
    BY <1>1, <2>1, DoingFacts DEF At
  <2>3. [step |-> "cursor", engine |-> work["opener"].engine, upTo |-> work["opener"].upTo] \in Doing
    BY <1>2, <2>2 DEF Doing
  <2>4. work' \in [Worker -> Doing]
    BY <1>1, <2>1, <2>3, CarryFacts DEF RestoreImage
  <2>5. nodeRows' \in [Place -> 0..MaxEdits]
    BY <1>1, <2>1 DEF RestoreImage
  <2>6. \A k \in Range(relayLog) : k.edit \in Edit
    BY LogFacts
  <2>7. lost' \subseteq Edit
    BY <1>1, <2>1, <2>6 DEF RestoreImage
  <2> QED BY <2>1, <2>4, <2>5, <2>7 DEF RestoreImage, SealedTypeOK
<1>7. CASE RestoreCursor
  <2>1. work["opener"].upTo \in Nat
    BY <1>1, <1>7, DoingFacts DEF At, RestoreCursor
  <2>2. work' \in [Worker -> Doing]
    BY <1>1, <1>7, GoFacts DEF RestoreCursor, Steps
  <2> QED BY <1>7, <2>1, <2>2 DEF RestoreCursor, SealedTypeOK
<1> QED BY <1>3, <1>4, <1>5, <1>6, <1>7

\* What another device uploads: for each node the newest stamp it can read in the log.
LEMMA OtherImageFacts ==
  ASSUME SealedTypeOK, NEW sealed \in BOOLEAN, OtherUploads(sealed)
  PROVE  /\ image' \in [upTo : Nat, sealed : BOOLEAN, nodeRows : [Place -> 0..MaxEdits]]
         /\ image'.upTo = Len(relayLog) /\ image'.sealed = sealed
         /\ \A i \in 1..Len(relayLog) :
              sealed \/ ~relayLog[i].sealed => ShownIn(image'.nodeRows, relayLog[i].edit)
<1> DEFINE stamps(n) == {0} \cup {l.edit.stamp : l \in {k \in Range(relayLog) : k.edit.node = n /\ (sealed \/ ~k.sealed)}}
           newest(n) == CHOOSE s \in stamps(n) : \A r \in stamps(n) : s >= r
<1>1. image' = [upTo |-> Len(relayLog), sealed |-> sealed, nodeRows |-> [n \in Place |-> newest(n)]]
  BY DEF OtherUploads
<1>2. \A n \in Place : stamps(n) \subseteq 0..MaxEdits
  BY LogFacts, SealedAssumption
<1>3. \A n \in Place : newest(n) \in stamps(n) /\ \A r \in stamps(n) : newest(n) >= r
  <2> SUFFICES ASSUME NEW n \in Place
               PROVE  newest(n) \in stamps(n) /\ \A r \in stamps(n) : newest(n) >= r
    OBVIOUS
  <2>1. stamps(n) # {}
    OBVIOUS
  <2> HIDE DEF stamps
  <2>2. \E s \in stamps(n) : \A r \in stamps(n) : s >= r
    BY <1>2, <2>1, SealedAssumption, MaxExists
  <2> QED BY <2>2
<1>4. \A n \in Place : newest(n) \in 0..MaxEdits
  <2> HIDE DEF newest, stamps
  <2> QED BY <1>2, <1>3
<1>5. ASSUME NEW i \in 1..Len(relayLog), sealed \/ ~relayLog[i].sealed
      PROVE  ShownIn(image'.nodeRows, relayLog[i].edit)
  <2>1. relayLog[i].edit.node \in Place /\ relayLog[i].edit.stamp \in stamps(relayLog[i].edit.node)
    BY <1>5, LogFacts
  <2> HIDE DEF newest, stamps
  <2> QED BY <1>1, <1>3, <2>1 DEF ShownIn
<1> HIDE DEF newest
<1> QED BY <1>1, <1>4, <1>5, LogFacts

\* What a submit adds to the log: edits of its chunk, sealed as it was taken.
LEMMA SubmitFacts ==
  ASSUME SealedTypeOK, NEW w \in Worker, At(w, "submit"), NEW fresh \in InOrder(work[w].chunk \ Logged),
         relayLog' = relayLog \o [i \in DOMAIN fresh |-> [edit |-> fresh[i], sealed |-> work[w].sealed]]
  PROVE  /\ relayLog' \in Seq([edit : Edit, sealed : BOOLEAN])
         /\ Len(relayLog') \in Nat /\ Len(relayLog') >= Len(relayLog)
         /\ \A i \in 1..Len(relayLog) : relayLog'[i] = relayLog[i]
         /\ \A i \in Len(relayLog) + 1 .. Len(relayLog') :
              relayLog'[i].edit \in work[w].chunk /\ relayLog'[i].sealed = work[w].sealed
<1> DEFINE S == work[w].chunk \ Logged
           N == Cardinality(S)
           new == [i \in DOMAIN fresh |-> [edit |-> fresh[i], sealed |-> work[w].sealed]]
<1>1. work[w].chunk \subseteq Edit /\ IsFiniteSet(work[w].chunk) /\ work[w].sealed \in BOOLEAN
  BY DoingFacts DEF SealedTypeOK, At, Chunk
<1>2. N \in Nat
  BY <1>1, FS_Difference, FS_CardinalityType
<1>3. fresh \in [1..N -> S]
  BY DEF InOrder
<1>4. new \in [1..N -> [edit : Edit, sealed : BOOLEAN]]
  BY <1>1, <1>3
<1>5. relayLog \in Seq([edit : Edit, sealed : BOOLEAN]) /\ new \in Seq([edit : Edit, sealed : BOOLEAN])
  <2> HIDE DEF new, N
  <2>1. new \in Seq([edit : Edit, sealed : BOOLEAN])
    BY <1>2, <1>4, SeqDef, Zenon
  <2> QED BY <2>1 DEF SealedTypeOK
<1>6. Len(new) = N
  BY <1>2, <1>4, <1>5, LenProperties
<1>7. /\ relayLog' \in Seq([edit : Edit, sealed : BOOLEAN])
      /\ Len(relayLog') = Len(relayLog) + N
      /\ \A i \in 1..Len(relayLog) + N :
           relayLog'[i] = IF i <= Len(relayLog) THEN relayLog[i] ELSE new[i - Len(relayLog)]
  <2> HIDE DEF new, N
  <2> QED BY <1>5, <1>6, ConcatProperties DEF new
<1>8. Len(relayLog) \in Nat
  BY LogFacts
<1>9. \A j \in 1..N : new[j].edit \in work[w].chunk /\ new[j].sealed = work[w].sealed
  BY <1>3
<1> HIDE DEF new, N
<1>10. ASSUME NEW i \in Len(relayLog) + 1 .. Len(relayLog')
       PROVE  relayLog'[i].edit \in work[w].chunk /\ relayLog'[i].sealed = work[w].sealed
  <2>1. i - Len(relayLog) \in 1..N /\ i \in 1..Len(relayLog) + N /\ ~(i <= Len(relayLog))
    BY <1>2, <1>7, <1>8
  <2> QED BY <1>7, <1>9, <2>1
<1> QED BY <1>2, <1>7, <1>8, <1>10
LEMMA SubmitType == ASSUME SealedTypeOK, NEW w \in Worker, Submit(w) PROVE SealedTypeOK'
<1> USE DEF relayRows, mirrorRows, windowVars, engineVars
<1>1. work \in [Worker -> Doing] /\ unsent \in Chunk
  BY DEF SealedTypeOK
<1>2. CASE Go(w, "pull") /\ UNCHANGED <<relayLog, unsent>>
  <2>1. work' \in [Worker -> Doing] /\ UNCHANGED Rest
    BY <1>1, <1>2, GoFacts DEF Submit, Steps, Rest
  <2> QED BY <2>1, WorkOnlyType
<1>3. CASE ~(Go(w, "pull") /\ UNCHANGED <<relayLog, unsent>>)
  <2>1. PICK fresh \in InOrder(work[w].chunk \ Logged) :
          relayLog' = relayLog \o [i \in DOMAIN fresh |-> [edit |-> fresh[i], sealed |-> work[w].sealed]]
    BY <1>3 DEF Submit
  <2>2. relayLog' \in Seq([edit : Edit, sealed : BOOLEAN])
    BY <2>1, SubmitFacts DEF Submit
  <2>3. work' \in [Worker -> Doing]
    BY <1>1, <1>3, GoFacts DEF Submit, Steps
  <2>4. unsent' \in Chunk
    <3>1. unsent' = unsent \ work[w].chunk
      BY <1>3 DEF Submit
    <3> QED BY <1>1, <3>1, FS_Difference DEF Chunk
  <2> QED BY <2>2, <2>3, <2>4 DEF Submit, SealedTypeOK
<1> QED BY <1>2, <1>3

LEMMA SyncingType == ASSUME SealedTypeOK, InLog, NEW w \in Worker, Syncing(w) PROVE SealedTypeOK'
<1> USE DEF relayRows, mirrorRows, windowVars, engineVars
<1>1. /\ work \in [Worker -> Doing] /\ unsent \in Chunk
      /\ provider \in [Engines -> BOOLEAN] /\ barred \in [Engines -> BOOLEAN]
      /\ holder \in [Engines -> Worker \cup {"free"}]
      /\ nodeRows \in [Place -> 0..MaxEdits] /\ cursor \in Nat /\ lost \subseteq Edit
      /\ Len(relayLog) \in Nat /\ recorded \subseteq Edit
  BY LogFacts DEF SealedTypeOK
<1>2. work[w].engine \in Engines /\ Keyed(w) \in BOOLEAN
  BY <1>1, DoingFacts DEF Keyed
<1>3. CASE PushBegin(w)
  <2>1. work' \in [Worker -> Doing] /\ UNCHANGED Rest
    BY <1>1, <1>3, GoFacts DEF PushBegin, Steps, Rest
  <2> QED BY <2>1, WorkOnlyType
<1>4. CASE TakeUnsent(w)
  <2>1. [step |-> "submit", engine |-> work[w].engine, chunk |-> unsent, sealed |-> Keyed(w)] \in Doing
    BY <1>1, <1>2 DEF Doing
  <2>2. work' \in [Worker -> Doing] /\ UNCHANGED Rest
    BY <1>1, <1>4, <2>1, GoFacts, CarryFacts DEF TakeUnsent, Steps, Rest
  <2> QED BY <2>2, WorkOnlyType
<1>5. CASE PullBegin(w)
  <2>1. work' \in [Worker -> Doing] /\ UNCHANGED Rest
    BY <1>1, <1>5, GoFacts, FinishFacts DEF PullBegin, Steps, Rest
  <2> QED BY <2>1, WorkOnlyType
<1>6. CASE FetchPage(w)
  <2>1. [step |-> "page", engine |-> work[w].engine, after |-> cursor, upTo |-> Len(relayLog)] \in Doing
    BY <1>1, <1>2 DEF Doing
  <2>2. work' \in [Worker -> Doing]
    BY <1>1, <1>6, <2>1, CarryFacts DEF FetchPage
  <2>3. holder' \in [Engines -> Worker \cup {"free"}]
    BY <1>1, <1>6 DEF FetchPage
  <2> QED BY <1>6, <2>2, <2>3 DEF FetchPage, SealedTypeOK
<1>7. CASE ApplyPage(w)
  <2> DEFINE span == {relayLog[i] : i \in work[w].after + 1 .. work[w].upTo}
             opened == {l.edit : l \in {k \in span : Opens(w, k)}}
             skipped == {l.edit : l \in {k \in span : ~Opens(w, k)}}
  <2>1. work[w].after \in Nat /\ work[w].upTo \in Nat
    BY <1>1, <1>7, DoingFacts DEF ApplyPage, At
  <2>2. \A k \in span : k.edit \in Edit
    <3>1. work[w].upTo <= Len(relayLog)
      BY <1>7 DEF InLog, ApplyPage
    <3> QED BY <1>1, <2>1, <3>1, LogFacts
  <2>3. opened \subseteq Edit /\ skipped \subseteq Edit
    BY <2>2
  <2>4. nodeRows' \in [Place -> 0..MaxEdits] /\ recorded' = recorded \cup opened
    BY <1>7, <2>3, ApplyFacts DEF ApplyPage
  <2>5. work' \in [Worker -> Doing]
    BY <1>1, <1>7, GoFacts DEF ApplyPage, Steps
  <2>6. cursor' \in Nat /\ lost' \subseteq Edit
    BY <1>1, <1>7, <2>1, <2>3 DEF ApplyPage
  <2> QED BY <1>1, <1>7, <2>3, <2>4, <2>5, <2>6 DEF ApplyPage, SealedTypeOK
<1>8. CASE UploadSnapshot(w)
  <2>1. work' \in [Worker -> Doing]
    BY <1>1, <1>8, FinishFacts DEF UploadSnapshot
  <2>2. holder' \in [Engines -> Worker \cup {"free"}]
    BY <1>1, <1>8 DEF UploadSnapshot
  <2>3. image' \in [upTo : Nat, sealed : BOOLEAN, nodeRows : [Place -> 0..MaxEdits]]
    BY <1>1, <1>2, <1>8 DEF UploadSnapshot, ImageOf, SealedTypeOK
  <2> QED BY <1>8, <2>1, <2>2, <2>3 DEF UploadSnapshot, SealedTypeOK
<1> QED BY <1>3, <1>4, <1>5, <1>6, <1>7, <1>8, SubmitType DEF Syncing
LEMMA ElsewhereType == ASSUME SealedTypeOK, LiveFrame \/ Elsewhere PROVE SealedTypeOK'
<1> USE DEF relayRows, mirrorRows, windowVars, engineVars
<1>1. /\ relayLog \in Seq([edit : Edit, sealed : BOOLEAN]) /\ stamped \in 0..MaxEdits /\ MaxEdits \in Nat
      /\ Len(relayLog) \in Nat /\ DOMAIN relayLog = 1..Len(relayLog) /\ cursor \in Nat
  BY LogFacts, SealedAssumption DEF SealedTypeOK
<1>2. CASE LiveFrame
  <2>1. PICK i \in cursor + 1 .. Len(relayLog) : Apply({relayLog[i].edit})
    BY <1>2 DEF LiveFrame
  <2>2. {relayLog[i].edit} \in SUBSET Edit
    BY <1>1, <2>1, LogFacts
  <2>3. nodeRows' \in [Place -> 0..MaxEdits] /\ recorded' = recorded \cup {relayLog[i].edit}
    BY <2>1, <2>2, ApplyFacts
  <2> QED BY <1>2, <2>2, <2>3 DEF LiveFrame, SealedTypeOK
<1>3. CASE OtherStoresKey
  BY <1>3 DEF OtherStoresKey, SealedTypeOK
<1>4. ASSUME NEW n \in Place, NEW sealed \in BOOLEAN, OtherCommits(n, sealed)
      PROVE  SealedTypeOK'
  <2>1. [edit |-> [node |-> n, stamp |-> stamped + 1], sealed |-> sealed] \in [edit : Edit, sealed : BOOLEAN]
    BY <1>1, <1>4 DEF OtherCommits, Edit
  <2>2. relayLog' \in Seq([edit : Edit, sealed : BOOLEAN])
    BY <1>1, <1>4, <2>1 DEF OtherCommits
  <2>3. stamped' \in 0..MaxEdits
    BY <1>1, <1>4 DEF OtherCommits
  <2> QED BY <1>4, <2>2, <2>3 DEF OtherCommits, SealedTypeOK
<1>5. ASSUME NEW sealed \in BOOLEAN, OtherUploads(sealed) PROVE SealedTypeOK'
  <2>1. image' \in [upTo : Nat, sealed : BOOLEAN, nodeRows : [Place -> 0..MaxEdits]]
    BY <1>1, <1>5, OtherImageFacts
  <2> QED BY <1>5, <2>1 DEF OtherUploads, SealedTypeOK
<1> QED BY <1>2, <1>3, <1>4, <1>5 DEF Elsewhere

LEMMA SealedTypeStep == SealedTypeOK /\ InLog /\ [SealedNext]_sealedVars => SealedTypeOK'
<1> SUFFICES ASSUME SealedTypeOK, InLog, [SealedNext]_sealedVars PROVE SealedTypeOK'
  OBVIOUS
<1>1. CASE UNCHANGED sealedVars
  BY <1>1 DEF sealedVars, relayRows, mirrorRows, windowVars, engineVars, SealedTypeOK
<1> QED
  BY <1>1, WindowType, SaveEditType, KeyType, OpenerType, SyncingType, ElsewhereType
  DEF SealedNext, Opening
-----------------------------------------------------------------------------
LEMMA SealedInitInv == SealedInit => SealedInv
<1> SUFFICES ASSUME SealedInit PROVE SealedInv
  OBVIOUS
<1>1. Len(relayLog) = 0 /\ cursor = 0 /\ recorded = {} /\ image.upTo = 0 /\ \A w \in Worker : At(w, "idle")
  BY DEF SealedInit, Idle, At
<1>2. InLog /\ PassedCovered /\ RecordedCovered /\ ImageCovers /\ BeyondImageHeld
  BY <1>1 DEF InLog, PassedCovered, RecordedCovered, ImageCovers, BeyondImageHeld, At
<1> QED BY <1>2, SealedTypeInit DEF SealedInv

\* No worker takes up a page, a download or a cursor it did not have.
NoNewSpan == \A v \in Worker : work'[v] = work[v] \/ work'[v].step \notin {"page", "download", "cursor"}

LEMMA PlainStep ==
  /\ \A w \in Worker, s \in Steps : SealedTypeOK /\ Go(w, s) => NoNewSpan
  /\ \A w \in Worker, s \in Steps, e \in Engines :
       SealedTypeOK /\ Carry(w, [step |-> s, engine |-> e]) => NoNewSpan
  /\ \A w \in Worker : SealedTypeOK /\ (Finish(w) \/ Fail(w)) => NoNewSpan
<1>1. ASSUME NEW w \in Worker, NEW s \in Steps, SealedTypeOK, Go(w, s) PROVE NoNewSpan
  <2>1. s \notin {"page", "download", "cursor"}
    BY DEF Steps
  <2>2. /\ work'[w] = [step |-> s, engine |-> work[w].engine]
        /\ \A v \in Worker : v # w => work'[v] = work[v]
    BY <1>1, GoFacts DEF SealedTypeOK
  <2> QED BY <2>1, <2>2 DEF NoNewSpan
<1>2. ASSUME NEW w \in Worker, NEW s \in Steps, NEW e \in Engines, SealedTypeOK,
             Carry(w, [step |-> s, engine |-> e])
      PROVE  NoNewSpan
  <2>1. [step |-> s, engine |-> e] \in Doing /\ s \notin {"page", "download", "cursor"}
    BY DoingFacts DEF Steps
  <2>2. /\ work'[w] = [step |-> s, engine |-> e]
        /\ \A v \in Worker : v # w => work'[v] = work[v]
    BY <1>2, <2>1, CarryFacts DEF SealedTypeOK
  <2> QED BY <2>1, <2>2 DEF NoNewSpan
<1>3. ASSUME NEW w \in Worker, SealedTypeOK, Finish(w) \/ Fail(w) PROVE NoNewSpan
  BY <1>3, FinishFacts DEF NoNewSpan, SealedTypeOK
<1> QED BY <1>1, <1>2, <1>3

\* A step after which the workers remember no more than before.
LEMMA PassedKept ==
  ASSUME NoNewSpan, cursor' = cursor
  PROVE  \A i : Passed(i)' => Passed(i)
BY DEF NoNewSpan, Passed, At

LEMMA InLogKept ==
  ASSUME SealedTypeOK, SealedTypeOK', InLog, NoNewSpan, cursor' = cursor, image' = image,
         Len(relayLog') >= Len(relayLog)
  PROVE  InLog'
<1>1. /\ Len(relayLog) \in Nat /\ Len(relayLog') \in Nat /\ cursor \in Nat /\ image.upTo \in Nat
  BY DEF SealedTypeOK
<1>2. \A w \in Worker : At(w, "page") => work[w].after \in Nat /\ work[w].upTo \in Nat
  BY DoingFacts DEF SealedTypeOK, At
<1> QED BY <1>1, <1>2 DEF InLog, NoNewSpan, At

\* A step of the window or of a worker that changes neither the log, the image nor the mirror.
LEMMA QuietInv ==
  ASSUME SealedInv, SealedTypeOK', NoNewSpan,
         UNCHANGED <<relayLog, image, nodeRows, recorded, lost, cursor>>
  PROVE  SealedInv'
<1>1. InLog'
  BY InLogKept, LogFacts DEF SealedInv
<1>2. RecordedCovered'
  BY DEF SealedInv, RecordedCovered, ShownIn
<1>3. \A i : Passed(i)' => Passed(i)
  BY PassedKept
<1>4. PassedCovered'
  BY <1>3 DEF SealedInv, PassedCovered, EditAt, ShownIn
<1>5. ImageCovers'
  BY DEF SealedInv, ImageCovers, EditAt, ShownIn, Left
<1>6. BeyondImageHeld'
  BY <1>3 DEF SealedInv, BeyondImageHeld, EditAt, ShownIn, Left
<1> QED BY <1>1, <1>2, <1>4, <1>5, <1>6 DEF SealedInv
LEMMA ShownKept ==
  ASSUME SealedTypeOK, nodeRows' \in [Place -> 0..MaxEdits], \A n \in Place : nodeRows'[n] >= nodeRows[n]
  PROVE  \A e \in Edit : ShownIn(nodeRows, e) => ShownIn(nodeRows', e)
<1> SUFFICES ASSUME NEW e \in Edit, ShownIn(nodeRows, e) PROVE ShownIn(nodeRows', e)
  OBVIOUS
<1>1. e.node \in Place /\ e.stamp \in 1..MaxEdits /\ MaxEdits \in Nat
  BY SealedAssumption DEF Edit
<1>2. nodeRows[e.node] \in Nat /\ nodeRows'[e.node] \in Nat
  BY <1>1 DEF SealedTypeOK
<1> QED BY <1>1, <1>2 DEF ShownIn

\* Edits applied on top of what is there: the editor's own and those of live frames.
LEMMA ApplyInv ==
  ASSUME SealedInv, SealedTypeOK', NoNewSpan, NEW edits \in SUBSET Edit, Apply(edits),
         UNCHANGED <<relayLog, image, lost, cursor>>
  PROVE  SealedInv'
<1>1. /\ nodeRows' \in [Place -> 0..MaxEdits] /\ recorded' = recorded \cup edits
      /\ \A n \in Place : nodeRows'[n] >= nodeRows[n]
      /\ \A e \in edits \ recorded : ShownIn(nodeRows', e)
  BY ApplyFacts DEF SealedInv
<1>2. \A e \in Edit : ShownIn(nodeRows, e) => ShownIn(nodeRows', e)
  BY <1>1, ShownKept DEF SealedInv
<1>3. InLog'
  BY InLogKept, LogFacts DEF SealedInv
<1>5. \A i \in 1..Len(relayLog) : EditAt(i) \in Edit /\ EditAt(i)' = EditAt(i)
  BY LogFacts DEF SealedInv, EditAt
<1>6. \A i : Passed(i)' => Passed(i)
  BY PassedKept
<1>7. PassedCovered'
  BY <1>2, <1>5, <1>6 DEF SealedInv, PassedCovered
<1>8. RecordedCovered'
  BY <1>1, <1>2 DEF SealedInv, SealedTypeOK, RecordedCovered
<1>9. \A e \in Edit : Left(e) => Left(e)'
  BY <1>2 DEF Left, ShownIn
<1>10. ImageCovers'
  <2>1. image.upTo <= Len(relayLog) /\ image.upTo \in Nat /\ Len(relayLog) \in Nat
    BY LogFacts DEF SealedInv, SealedTypeOK, InLog
  <2> SUFFICES ASSUME NEW i \in 1..image.upTo
               PROVE  \/ relayLog[i].sealed /\ ~image.sealed
                      \/ EditAt(i) \in lost
                      \/ ShownIn(image.nodeRows, EditAt(i))
                      \/ Left(EditAt(i))'
    BY <1>5, <2>1 DEF ImageCovers, ShownIn, EditAt, Left
  <2>2. EditAt(i) \in Edit
    BY <1>5, <2>1
  <2>3. Left(EditAt(i)) => Left(EditAt(i))'
    <3>1. PICK e \in Edit : e = EditAt(i) /\ e = EditAt(i)'
      BY <2>1, <2>2, <1>5
    <3> QED BY <1>9, <3>1 DEF Left
  <2> QED BY <2>3 DEF SealedInv, ImageCovers
<1>11. BeyondImageHeld'
  BY <1>1, <1>5, <1>6, <1>9 DEF SealedInv, BeyondImageHeld
<1> QED BY <1>3, <1>7, <1>8, <1>10, <1>11 DEF SealedInv

\* The log grows at its end.
LEMMA GrowInv ==
  ASSUME SealedInv, SealedTypeOK', NoNewSpan, Len(relayLog') >= Len(relayLog),
         \A i \in 1..Len(relayLog) : relayLog'[i] = relayLog[i],
         UNCHANGED <<image, nodeRows, recorded, lost, cursor>>
  PROVE  SealedInv'
<1>1. /\ Len(relayLog) \in Nat /\ Len(relayLog') \in Nat
      /\ cursor \in Nat /\ image.upTo \in Nat
  BY DEF SealedInv, SealedTypeOK
<1>2. \A i \in 1..Len(relayLog) : EditAt(i)' = EditAt(i)
  BY DEF EditAt
<1>3. InLog'
  BY InLogKept DEF SealedInv
<1>5. \A i \in 1..Len(relayLog') : Passed(i)' => i \in 1..Len(relayLog) /\ Passed(i)
  <2> SUFFICES ASSUME NEW i \in 1..Len(relayLog'), Passed(i)'
               PROVE  i \in 1..Len(relayLog) /\ Passed(i)
    OBVIOUS
  <2>1. Passed(i)
    BY PassedKept
  <2>2. \A w \in Worker :
          /\ At(w, "page") => work[w].after \in Nat /\ work[w].after <= Len(relayLog)
          /\ At(w, "cursor") => work[w].upTo \in Nat /\ work[w].upTo <= image.upTo
    BY DoingFacts DEF SealedInv, SealedTypeOK, InLog, At
  <2>3. cursor <= Len(relayLog) /\ image.upTo <= Len(relayLog)
    BY DEF SealedInv, InLog
  <2>4. i <= Len(relayLog)
    BY <1>1, <2>1, <2>2, <2>3 DEF Passed
  <2> QED BY <1>1, <2>1, <2>4
<1>6. PassedCovered'
  BY <1>2, <1>5 DEF SealedInv, PassedCovered, ShownIn
<1>7. RecordedCovered'
  BY DEF SealedInv, RecordedCovered, ShownIn
<1>8. ImageCovers'
  <2>1. image.upTo <= Len(relayLog)
    BY DEF SealedInv, InLog
  <2> QED BY <1>1, <1>2, <2>1 DEF SealedInv, ImageCovers, ShownIn, Left
<1>9. BeyondImageHeld'
  BY <1>2, <1>5 DEF SealedInv, BeyondImageHeld, ShownIn, Left
<1> QED BY <1>3, <1>6, <1>7, <1>8, <1>9 DEF SealedInv
LEMMA ProbeInv == ASSUME SealedInv, SealedTypeOK', Probe PROVE SealedInv'
<1>1. SealedTypeOK /\ "opener" \in Worker
  BY DEF SealedInv, Worker
<1>2. UNCHANGED <<relayLog, image, nodeRows, recorded, lost, cursor>>
  BY DEF Probe, relayRows, mirrorRows
<1>3. CASE Go("opener", "push")
  <2>1. NoNewSpan
    BY <1>1, <1>3, PlainStep DEF Steps
  <2> QED BY <1>2, <2>1, QuietInv
<1>4. CASE ~Go("opener", "push")
  <2> DEFINE rec == [step |-> "download", engine |-> work["opener"].engine,
                     upTo |-> image.upTo, sealed |-> image.sealed]
  <2>1. Carry("opener", rec)
    BY <1>4 DEF Probe
  <2>2. work \in [Worker -> Doing] /\ image.upTo \in Nat /\ image.sealed \in BOOLEAN
    BY <1>1 DEF SealedTypeOK
  <2>3. rec \in Doing
    BY <1>1, <2>2, DoingFacts DEF Doing
  <2>4. work'["opener"] = rec /\ \A v \in Worker : v # "opener" => work'[v] = work[v]
    BY <1>1, <2>1, <2>2, <2>3, CarryFacts
  <2>5. InLog'
    BY <1>2, <2>2, <2>4 DEF SealedInv, InLog, At
  <2>6. \A i : Passed(i)' => Passed(i)
    BY <1>2, <2>4 DEF Passed, At
  <2>7. PassedCovered' /\ BeyondImageHeld'
    BY <1>2, <2>6 DEF SealedInv, PassedCovered, BeyondImageHeld, EditAt, ShownIn, Left
  <2>8. RecordedCovered' /\ ImageCovers'
    BY <1>2 DEF SealedInv, RecordedCovered, ImageCovers, EditAt, ShownIn, Left
  <2> QED BY <2>5, <2>7, <2>8 DEF SealedInv
<1> QED BY <1>3, <1>4

(* A restore may take rows back.  What it takes back is in the image, recorded, or
   beyond what an unsealed image can hold. *)
LEMMA RestoreInv == ASSUME SealedInv, SealedTypeOK', RestoreSnapshot PROVE SealedInv'
<1> DEFINE candidates == lost \cup recorded \cup
                           {l.edit : l \in {k \in Range(relayLog) : k.sealed /\ ~Keyed("opener")}}
<1>1. /\ SealedTypeOK /\ At("opener", "download") /\ "opener" \in Worker
      /\ RestoreImage /\ (Keyed("opener") => image.sealed)
  BY DEF SealedInv, RestoreSnapshot, Worker
<1>2. /\ nodeRows' = [n \in Place |-> IF image.nodeRows[n] # 0 THEN image.nodeRows[n] ELSE nodeRows[n]]
      /\ lost' = {e \in candidates : ~ShownIn(nodeRows', e)}
      /\ UNCHANGED <<relayLog, image, recorded, cursor>>
  BY <1>1 DEF RestoreImage, relayRows
<1>3. /\ work \in [Worker -> Doing]
      /\ image.nodeRows \in [Place -> 0..MaxEdits] /\ nodeRows \in [Place -> 0..MaxEdits] /\ MaxEdits \in Nat
      /\ Len(relayLog) \in Nat /\ image.upTo \in Nat /\ image.upTo <= Len(relayLog)
      /\ recorded \subseteq Edit /\ lost \subseteq Edit
  BY LogFacts, SealedAssumption DEF SealedInv, SealedTypeOK, InLog
<1>4. \A i \in 1..Len(relayLog) : EditAt(i) \in Edit /\ EditAt(i)' = EditAt(i)
  BY <1>2, LogFacts DEF SealedInv, EditAt
<1>5. ASSUME NEW e \in Edit
      PROVE  /\ Left(e) => Left(e)'
             /\ ShownIn(image.nodeRows, e) => Left(e)'
             /\ ShownIn(nodeRows', e) => Left(e)'
             /\ e \in candidates => e \in lost' \/ Left(e)'
             /\ Left(e)' => ShownIn(nodeRows', e)
  <2>1. e.node \in Place /\ e.stamp \in Nat /\ e.stamp > 0
    BY <1>3 DEF Edit
  <2>2. image.nodeRows[e.node] \in Nat /\ nodeRows[e.node] \in Nat
    BY <1>3, <2>1
  <2>3. nodeRows'[e.node] = IF image.nodeRows[e.node] # 0 THEN image.nodeRows[e.node] ELSE nodeRows[e.node]
    BY <1>2, <2>1
  <2>4. (Left(e) => Left(e)') /\ (ShownIn(image.nodeRows, e) => Left(e)') /\ (ShownIn(nodeRows', e) => Left(e)')
    BY <1>2, <2>1, <2>2, <2>3 DEF Left, ShownIn
  <2>5. Left(e)' => ShownIn(nodeRows', e)
    BY DEF Left
  <2>6. e \in candidates => e \in lost' \/ Left(e)'
    BY <1>2, <2>4
  <2> QED BY <2>4, <2>5, <2>6
<1> HIDE DEF candidates
<1>6. \A e \in Edit : e \in lost \cup recorded => e \in lost' \/ Left(e)'
  BY <1>5 DEF candidates
<1>7. ASSUME NEW i \in 1..image.upTo PROVE EditAt(i)' \in lost' \/ Left(EditAt(i))'
  <2>1. i \in 1..Len(relayLog)
    BY <1>3
  <2>2. PICK e \in Edit : e = EditAt(i) /\ e = EditAt(i)'
    BY <1>4, <2>1
  <2>3. \/ relayLog[i].sealed /\ ~image.sealed
        \/ e \in lost \/ ShownIn(image.nodeRows, e) \/ Left(e)
    BY <2>2 DEF SealedInv, ImageCovers
  <2>4. CASE relayLog[i].sealed /\ ~image.sealed
    <3>1. ~Keyed("opener")
      BY <1>1, <2>4
    <3>2. e \in candidates
      BY <2>1, <2>2, <2>4, <3>1, <1>1, LogFacts DEF candidates, EditAt
    <3> QED BY <1>5, <2>2, <3>2 DEF Left
  <2> QED BY <1>5, <1>6, <2>2, <2>3, <2>4 DEF Left
<1>8. ASSUME NEW i \in 1..Len(relayLog), Passed(i) PROVE EditAt(i)' \in lost' \/ Left(EditAt(i))'
  <2>1. PICK e \in Edit : e = EditAt(i) /\ e = EditAt(i)'
    BY <1>4
  <2>2. CASE i <= image.upTo
    BY <1>3, <1>7, <2>2
  <2>3. CASE i > image.upTo
    <3>1. e \in recorded \cup lost \/ Left(e)
      BY <1>8, <2>1, <2>3 DEF SealedInv, BeyondImageHeld
    <3> QED BY <1>5, <1>6, <2>1, <3>1 DEF Left
  <2> QED BY <1>3, <2>2, <2>3
<1> DEFINE rec == [step |-> "cursor", engine |-> work["opener"].engine, upTo |-> work["opener"].upTo]
<1>9. /\ work'["opener"] = rec /\ work["opener"].upTo <= image.upTo
      /\ \A v \in Worker : v # "opener" => work'[v] = work[v]
  <2>1. rec \in Doing /\ work["opener"].upTo <= image.upTo
    BY <1>1, <1>3, DoingFacts DEF Doing, At, SealedInv, InLog
  <2>2. Carry("opener", rec)
    BY <1>1 DEF RestoreImage
  <2> HIDE DEF rec
  <2> QED BY <1>1, <1>3, <2>1, <2>2, CarryFacts
<1>10. InLog'
  BY <1>2, <1>3, <1>9 DEF SealedInv, InLog, At
<1>11. ASSUME NEW i \in 1..Len(relayLog), Passed(i)' PROVE Passed(i) \/ i \in 1..image.upTo
  <2>1. CASE At("opener", "cursor")' /\ i <= work'["opener"].upTo
    <3>1. work["opener"].upTo \in Nat
      BY <1>1, <1>3, DoingFacts DEF At
    <3> QED BY <1>3, <1>9, <2>1, <3>1
  <2>2. CASE ~(At("opener", "cursor")' /\ i <= work'["opener"].upTo)
    BY <1>2, <1>9, <1>11, <2>2 DEF Passed, At
  <2> QED BY <2>1, <2>2
<1>13. PassedCovered'
  <2> SUFFICES ASSUME NEW i \in 1..Len(relayLog), Passed(i)'
               PROVE  ShownIn(nodeRows', EditAt(i)') \/ EditAt(i)' \in lost'
    BY <1>2 DEF PassedCovered
  <2> QED BY <1>7, <1>8, <1>11 DEF Left
<1>14. RecordedCovered'
  BY <1>2, <1>3, <1>5, <1>6 DEF RecordedCovered
<1>15. ImageCovers'
  <2> SUFFICES ASSUME NEW i \in 1..image.upTo PROVE EditAt(i)' \in lost' \/ Left(EditAt(i))'
    BY <1>2 DEF ImageCovers
  <2> QED BY <1>7
<1>16. BeyondImageHeld'
  <2> SUFFICES ASSUME NEW i \in 1..Len(relayLog), Passed(i)' PROVE EditAt(i)' \in lost' \/ Left(EditAt(i))'
    BY <1>2 DEF BeyondImageHeld
  <2> QED BY <1>7, <1>8, <1>11
<1> QED BY <1>10, <1>13, <1>14, <1>15, <1>16 DEF SealedInv
LEMMA RestoreCursorInv == ASSUME SealedInv, SealedTypeOK', RestoreCursor PROVE SealedInv'
<1>1. /\ SealedTypeOK /\ At("opener", "cursor") /\ "opener" \in Worker
      /\ cursor' = work["opener"].upTo /\ Go("opener", "push")
      /\ UNCHANGED <<relayLog, image, nodeRows, recorded, lost>>
  BY DEF SealedInv, RestoreCursor, Worker, relayRows, mirrorRows
<1>2. /\ work["opener"].upTo \in Nat /\ work["opener"].upTo <= image.upTo
      /\ image.upTo <= Len(relayLog) /\ image.upTo \in Nat /\ Len(relayLog) \in Nat
  BY <1>1, LogFacts, DoingFacts DEF SealedInv, SealedTypeOK, InLog, At
<1>3. NoNewSpan
  BY <1>1, PlainStep DEF Steps
<1>4. InLog'
  BY <1>1, <1>2, <1>3 DEF SealedInv, InLog, NoNewSpan, At
<1>5. \A i : Passed(i)' => Passed(i)
  BY <1>1, <1>3 DEF NoNewSpan, Passed, At
<1>6. RecordedCovered' /\ ImageCovers'
  BY <1>1 DEF SealedInv, RecordedCovered, ImageCovers, EditAt, ShownIn, Left
<1>7. PassedCovered' /\ BeyondImageHeld'
  BY <1>1, <1>5 DEF SealedInv, PassedCovered, BeyondImageHeld, EditAt, ShownIn, Left
<1> QED BY <1>4, <1>6, <1>7 DEF SealedInv

LEMMA FetchPageInv ==
  ASSUME SealedInv, SealedTypeOK', NEW w \in Worker, FetchPage(w) PROVE SealedInv'
<1> DEFINE rec == [step |-> "page", engine |-> work[w].engine, after |-> cursor, upTo |-> Len(relayLog)]
<1>1. /\ UNCHANGED <<relayLog, image, nodeRows, recorded, lost, cursor>> /\ Carry(w, rec)
  BY DEF FetchPage, relayRows, mirrorRows
<1>2. /\ work \in [Worker -> Doing] /\ cursor \in Nat /\ cursor <= Len(relayLog) /\ Len(relayLog) \in Nat
  BY LogFacts DEF SealedInv, SealedTypeOK, InLog
<1>3. rec \in Doing
  BY <1>2, DoingFacts DEF Doing
<1>4. work'[w] = rec /\ \A v \in Worker : v # w => work'[v] = work[v]
  <2> HIDE DEF rec
  <2> QED BY <1>1, <1>2, <1>3, CarryFacts
<1>5. InLog'
  BY <1>1, <1>2, <1>4 DEF SealedInv, InLog, At
<1>6. \A i : Passed(i)' => Passed(i)
  BY <1>1, <1>4 DEF Passed, At
<1>7. RecordedCovered' /\ ImageCovers'
  BY <1>1 DEF SealedInv, RecordedCovered, ImageCovers, EditAt, ShownIn, Left
<1>8. PassedCovered' /\ BeyondImageHeld'
  BY <1>1, <1>6 DEF SealedInv, PassedCovered, BeyondImageHeld, EditAt, ShownIn, Left
<1> QED BY <1>5, <1>7, <1>8 DEF SealedInv

LEMMA ApplyPageInv ==
  ASSUME SealedInv, SealedTypeOK', NEW w \in Worker, ApplyPage(w) PROVE SealedInv'
<1> DEFINE span == {relayLog[i] : i \in work[w].after + 1 .. work[w].upTo}
           opened == {l.edit : l \in {k \in span : Opens(w, k)}}
           skipped == {l.edit : l \in {k \in span : ~Opens(w, k)}}
<1>1. /\ At(w, "page") /\ Apply(opened) /\ lost' = lost \cup skipped /\ Go(w, "upload")
      /\ cursor' = IF work[w].upTo > work[w].after THEN work[w].upTo ELSE cursor
      /\ UNCHANGED <<relayLog, image>>
  BY DEF ApplyPage, relayRows
<1>2. /\ SealedTypeOK
      /\ work[w].after \in Nat /\ work[w].upTo \in Nat
      /\ work[w].after <= Len(relayLog) /\ work[w].upTo <= Len(relayLog) /\ cursor \in Nat
      /\ image.upTo \in Nat /\ image.upTo <= Len(relayLog) /\ Len(relayLog) \in Nat
  BY <1>1, LogFacts, DoingFacts DEF SealedInv, SealedTypeOK, InLog, At
<1>3. \A i \in 1..Len(relayLog) : EditAt(i) \in Edit /\ EditAt(i)' = EditAt(i)
  BY <1>1, LogFacts DEF SealedInv, EditAt
<1>4. \A i \in work[w].after + 1 .. work[w].upTo : EditAt(i) \in opened \cup skipped
  BY DEF EditAt
<1>5. opened \in SUBSET Edit
  BY <1>2, <1>3 DEF EditAt
<1> HIDE DEF opened, skipped
<1>6. /\ nodeRows' \in [Place -> 0..MaxEdits] /\ recorded' = recorded \cup opened
      /\ \A n \in Place : nodeRows'[n] >= nodeRows[n]
      /\ \A e \in opened \ recorded : ShownIn(nodeRows', e)
  BY <1>1, <1>2, <1>5, ApplyFacts
<1>7. \A e \in Edit : (ShownIn(nodeRows, e) => ShownIn(nodeRows', e)) /\ (Left(e) => Left(e)')
  BY <1>1, <1>2, <1>6, ShownKept DEF Left, ShownIn
<1>8. NoNewSpan
  BY <1>1, <1>2, PlainStep DEF Steps
<1>9. InLog'
  BY <1>1, <1>2, <1>8 DEF SealedInv, InLog, NoNewSpan, At
<1>11. RecordedCovered'
  BY <1>1, <1>2, <1>6, <1>7 DEF SealedInv, SealedTypeOK, RecordedCovered
<1>12. ASSUME NEW i \in 1..Len(relayLog), Passed(i)'
       PROVE  Passed(i) \/ EditAt(i) \in recorded' \cup lost'
  <2>1. Passed(i) \/ i \in work[w].after + 1 .. work[w].upTo
    <3>1. CASE i <= cursor' /\ work[w].upTo > work[w].after
      <4>1. CASE i <= work[w].after
        BY <1>1, <4>1 DEF Passed
      <4>2. CASE i > work[w].after
        BY <1>1, <1>2, <3>1, <4>2
      <4> QED BY <1>2, <4>1, <4>2
    <3>2. CASE ~(i <= cursor' /\ work[w].upTo > work[w].after)
      BY <1>1, <1>8, <1>12, <3>2 DEF Passed, NoNewSpan, At
    <3> QED BY <3>1, <3>2
  <2>2. CASE i \in work[w].after + 1 .. work[w].upTo
    BY <1>1, <1>4, <1>6, <2>2
  <2> QED BY <2>1, <2>2
<1>13. PassedCovered'
  <2> SUFFICES ASSUME NEW i \in 1..Len(relayLog), Passed(i)'
               PROVE  ShownIn(nodeRows', EditAt(i)) \/ EditAt(i) \in lost'
    BY <1>1, <1>3 DEF PassedCovered
  <2>1. CASE Passed(i)
    BY <1>1, <1>3, <1>7, <2>1 DEF SealedInv, PassedCovered
  <2>2. CASE EditAt(i) \in recorded' \cup lost'
    BY <1>11, <2>2 DEF RecordedCovered
  <2> QED BY <1>12, <2>1, <2>2
<1>14. ImageCovers'
  <2> SUFFICES ASSUME NEW i \in 1..image.upTo
               PROVE  \/ relayLog[i].sealed /\ ~image.sealed
                      \/ EditAt(i)' \in lost'
                      \/ ShownIn(image.nodeRows, EditAt(i)')
                      \/ Left(EditAt(i))'
    BY <1>1 DEF ImageCovers, ShownIn
  <2>1. PICK e \in Edit : e = EditAt(i) /\ e = EditAt(i)'
    BY <1>2, <1>3
  <2>2. \/ relayLog[i].sealed /\ ~image.sealed
        \/ e \in lost \/ ShownIn(image.nodeRows, e) \/ Left(e)
    BY <2>1 DEF SealedInv, ImageCovers
  <2> QED BY <1>1, <1>7, <2>1, <2>2 DEF Left
<1>15. BeyondImageHeld'
  <2> SUFFICES ASSUME NEW i \in 1..Len(relayLog), Passed(i)', i > image.upTo
               PROVE  EditAt(i)' \in recorded' \cup lost' \/ Left(EditAt(i))'
    BY <1>1 DEF BeyondImageHeld
  <2>1. PICK e \in Edit : e = EditAt(i) /\ e = EditAt(i)'
    BY <1>3
  <2>2. e \in recorded' \cup lost' \/ Left(e)
    BY <1>1, <1>6, <1>12, <2>1 DEF SealedInv, BeyondImageHeld
  <2> QED BY <1>7, <2>1, <2>2 DEF Left
<1> QED BY <1>9, <1>11, <1>13, <1>14, <1>15 DEF SealedInv
\* A new image that covers more: what lies beyond it was beyond the old one too.
LEMMA NewImageInv ==
  ASSUME SealedInv, SealedTypeOK', NoNewSpan,
         image'.upTo >= image.upTo, image'.upTo <= Len(relayLog),
         ImageCovers',
         \A i \in 1..Len(relayLog) : i > image'.upTo /\ Left(EditAt(i)) => Left(EditAt(i))',
         UNCHANGED <<relayLog, nodeRows, recorded, lost, cursor>>
  PROVE  SealedInv'
<1>1. /\ image.upTo \in Nat /\ image'.upTo \in Nat /\ Len(relayLog) \in Nat
      /\ work \in [Worker -> Doing]
  BY LogFacts DEF SealedInv, SealedTypeOK
<1>2. \A w \in Worker : At(w, "download") \/ At(w, "cursor") => work[w].upTo \in Nat
  BY <1>1, DoingFacts DEF At
<1>3. InLog'
  BY <1>1, <1>2 DEF SealedInv, InLog, NoNewSpan, At
<1>4. \A i : Passed(i)' => Passed(i)
  BY PassedKept
<1>5. RecordedCovered' /\ PassedCovered'
  BY <1>4 DEF SealedInv, RecordedCovered, PassedCovered, EditAt, ShownIn
<1>6. BeyondImageHeld'
  <2> SUFFICES ASSUME NEW i \in 1..Len(relayLog), Passed(i), i > image'.upTo
               PROVE  EditAt(i) \in recorded \cup lost \/ Left(EditAt(i))'
    BY <1>4 DEF BeyondImageHeld, EditAt
  <2>1. i > image.upTo
    BY <1>1
  <2> QED BY <2>1 DEF SealedInv, BeyondImageHeld
<1> QED BY <1>3, <1>5, <1>6 DEF SealedInv

LEMMA UploadInv ==
  ASSUME SealedInv, SealedTypeOK', NEW w \in Worker, UploadSnapshot(w) PROVE SealedInv'
<1>1. /\ NoNewSpan /\ SealedTypeOK
      /\ UNCHANGED <<relayLog, nodeRows, recorded, lost, cursor>>
  BY PlainStep DEF UploadSnapshot, mirrorRows, SealedInv
<1>2. CASE image' = image
  BY <1>1, <1>2, QuietInv
<1>3. CASE cursor > image.upTo /\ image' = ImageOf(Keyed(w))
  <2>1. image'.upTo = cursor /\ image'.nodeRows = nodeRows
    BY <1>3 DEF ImageOf
  <2>2. cursor \in Nat /\ image.upTo \in Nat /\ cursor <= Len(relayLog) /\ Len(relayLog) \in Nat
    BY LogFacts DEF SealedInv, SealedTypeOK, InLog
  <2>3. ImageCovers'
    <3> SUFFICES ASSUME NEW i \in 1..cursor
                 PROVE  EditAt(i) \in lost \/ ShownIn(nodeRows, EditAt(i))
      BY <1>1, <2>1 DEF ImageCovers, EditAt, ShownIn
    <3>1. i \in 1..Len(relayLog) /\ Passed(i)
      BY <2>2 DEF Passed
    <3> QED BY <3>1 DEF SealedInv, PassedCovered
  <2>4. \A i \in 1..Len(relayLog) : Left(EditAt(i)) => Left(EditAt(i))'
    BY <1>1, <2>1 DEF Left, ShownIn, EditAt
  <2> QED BY <1>1, <1>3, <2>1, <2>2, <2>3, <2>4, NewImageInv
<1> QED BY <1>2, <1>3 DEF UploadSnapshot

LEMMA OtherUploadsInv ==
  ASSUME SealedInv, SealedTypeOK', NEW sealed \in BOOLEAN, OtherUploads(sealed) PROVE SealedInv'
<1>1. /\ NoNewSpan /\ SealedTypeOK
      /\ UNCHANGED <<relayLog, nodeRows, recorded, lost, cursor>>
  BY DEF OtherUploads, mirrorRows, SealedInv, NoNewSpan
<1>2. /\ image'.upTo = Len(relayLog) /\ image'.sealed = sealed
      /\ \A i \in 1..Len(relayLog) : sealed \/ ~relayLog[i].sealed => ShownIn(image'.nodeRows, relayLog[i].edit)
  BY <1>1, OtherImageFacts
<1>3. image.upTo <= Len(relayLog) /\ Len(relayLog) \in Nat /\ image.upTo \in Nat
  BY LogFacts DEF SealedInv, SealedTypeOK, InLog
<1>4. ImageCovers'
  BY <1>1, <1>2 DEF ImageCovers, EditAt
<1> QED BY <1>1, <1>2, <1>3, <1>4, NewImageInv

LEMMA SubmitInv == ASSUME SealedInv, SealedTypeOK', NEW w \in Worker, Submit(w) PROVE SealedInv'
<1>1. /\ SealedTypeOK /\ NoNewSpan
      /\ UNCHANGED <<image, nodeRows, recorded, lost, cursor>>
  BY PlainStep DEF Submit, SealedInv, mirrorRows, Steps
<1>2. CASE relayLog' = relayLog
  BY <1>1, <1>2, QuietInv
<1>3. CASE relayLog' # relayLog
  <2>1. PICK fresh \in InOrder(work[w].chunk \ Logged) :
          relayLog' = relayLog \o [i \in DOMAIN fresh |-> [edit |-> fresh[i], sealed |-> work[w].sealed]]
    BY <1>3 DEF Submit
  <2>2. At(w, "submit")
    BY DEF Submit
  <2>3. /\ Len(relayLog') >= Len(relayLog)
        /\ \A i \in 1..Len(relayLog) : relayLog'[i] = relayLog[i]
        /\ \A i \in Len(relayLog) + 1 .. Len(relayLog') : relayLog'[i].edit \in work[w].chunk
    BY <1>1, <2>1, <2>2, SubmitFacts
  <2> QED BY <1>1, <2>2, <2>3, GrowInv
<1> QED BY <1>2, <1>3
LEMMA WindowInv ==
  ASSUME SealedInv, SealedTypeOK', SelectWorkspace \/ WorkspaceOpened \/ IntervalSync \/ Hello \/ OtherStoresKey
  PROVE  SealedInv'
<1>1. SealedTypeOK /\ MaxEngines \in Nat /\ current \in 0..MaxEngines
  BY SealedAssumption DEF SealedInv, SealedTypeOK
<1>2. UNCHANGED <<relayLog, image, nodeRows, recorded, lost, cursor>>
  BY DEF SelectWorkspace, Select, WorkspaceOpened, IntervalSync, Hello, OtherStoresKey, relayRows, mirrorRows
<1>3. ASSUME NEW unlocking \in BOOLEAN, Select(unlocking) PROVE NoNewSpan
  <2>1. current + 1 \in Engines
    BY <1>1, <1>3 DEF Select, Engines
  <2> QED BY <1>1, <1>3, <2>1, PlainStep DEF Select, Steps, Worker
<1>4. ASSUME WorkspaceOpened PROVE NoNewSpan
  BY <1>1, <1>4, PlainStep DEF WorkspaceOpened, Worker
<1>5. ASSUME IntervalSync \/ Hello PROVE NoNewSpan
  <2>1. current \in Engines
    BY <1>1, <1>5 DEF IntervalSync, Hello, Engines
  <2> QED BY <1>1, <1>5, <2>1, PlainStep DEF IntervalSync, Hello, StartSaver, Steps, Worker
<1>6. ASSUME OtherStoresKey PROVE NoNewSpan
  BY <1>6 DEF OtherStoresKey, NoNewSpan
<1>7. NoNewSpan
  BY <1>3, <1>4, <1>5, <1>6 DEF SelectWorkspace
<1> QED BY <1>2, <1>7, QuietInv

LEMMA OpeningInv == ASSUME SealedInv, SealedTypeOK', Opening PROVE SealedInv'
<1>1. SealedTypeOK /\ "opener" \in Worker
  BY DEF SealedInv, Worker
<1>2. CASE FetchKey \/ StoreKey \/ KeyRouteFails \/ DeclineSnapshot \/ OpenSnapshotFails
  <2>1. UNCHANGED <<relayLog, image, nodeRows, recorded, lost, cursor>>
    BY <1>2 DEF FetchKey, StoreKey, KeyRouteFails, DeclineSnapshot, OpenSnapshotFails, relayRows, mirrorRows
  <2>2. Fail("opener") \/ \E s \in Steps : Go("opener", s)
    BY <1>2 DEF FetchKey, StoreKey, KeyRouteFails, DeclineSnapshot, OpenSnapshotFails, Unwrap, Steps
  <2>3. NoNewSpan
    BY <1>1, <2>2, PlainStep
  <2> QED BY <2>1, <2>3, QuietInv
<1> QED BY <1>2, ProbeInv, RestoreInv, RestoreCursorInv DEF Opening

LEMMA SyncingInv == ASSUME SealedInv, SealedTypeOK', NEW w \in Worker, Syncing(w) PROVE SealedInv'
<1>1. SealedTypeOK
  BY DEF SealedInv
<1>2. CASE PushBegin(w) \/ TakeUnsent(w) \/ PullBegin(w)
  <2>1. UNCHANGED <<relayLog, image, nodeRows, recorded, lost, cursor>>
    BY <1>2 DEF PushBegin, TakeUnsent, PullBegin, relayRows, mirrorRows
  <2>2. CASE PushBegin(w) \/ PullBegin(w)
    <3>1. Finish(w) \/ \E s \in Steps : Go(w, s)
      BY <2>2 DEF PushBegin, PullBegin, Steps
    <3>2. NoNewSpan
      BY <1>1, <3>1, PlainStep
    <3> QED BY <2>1, <3>2, QuietInv
  <2>3. CASE TakeUnsent(w)
    <3> DEFINE rec == [step |-> "submit", engine |-> work[w].engine, chunk |-> unsent, sealed |-> Keyed(w)]
    <3>1. CASE Go(w, "pull")
      <4>1. NoNewSpan
        BY <1>1, <3>1, PlainStep DEF Steps
      <4> QED BY <2>1, <4>1, QuietInv
    <3>2. CASE ~Go(w, "pull")
      <4>1. Carry(w, rec) /\ work \in [Worker -> Doing] /\ unsent \in Chunk /\ provider \in [Engines -> BOOLEAN]
        BY <1>1, <2>3, <3>2 DEF TakeUnsent, SealedTypeOK
      <4>2. rec \in Doing
        BY <4>1, DoingFacts DEF Doing, Keyed
      <4>3. work'[w] = rec /\ \A v \in Worker : v # w => work'[v] = work[v]
        <5> HIDE DEF rec
        <5> QED BY <4>1, <4>2, CarryFacts
      <4>4. NoNewSpan
        BY <4>3 DEF NoNewSpan
      <4> QED BY <2>1, <4>4, QuietInv
    <3> QED BY <3>1, <3>2
  <2> QED BY <1>2, <2>2, <2>3
<1> QED BY <1>2, SubmitInv, FetchPageInv, ApplyPageInv, UploadInv DEF Syncing

LEMMA EditInv ==
  ASSUME SealedInv, SealedTypeOK', LiveFrame \/ \E n \in Place : SaveEdit(n)
  PROVE  SealedInv'
<1>1. SealedTypeOK /\ cursor \in Nat /\ MaxEngines \in Nat /\ current \in 0..MaxEngines
  BY SealedAssumption DEF SealedInv, SealedTypeOK
<1>2. CASE LiveFrame
  <2>1. PICK i \in cursor + 1 .. Len(relayLog) : Apply({relayLog[i].edit})
    BY <1>2 DEF LiveFrame
  <2>2. {relayLog[i].edit} \in SUBSET Edit
    BY <1>1, LogFacts
  <2>3. UNCHANGED <<relayLog, image, lost, cursor>> /\ NoNewSpan
    BY <1>2 DEF LiveFrame, relayRows, NoNewSpan
  <2> QED BY <2>1, <2>2, <2>3, ApplyInv
<1>3. ASSUME NEW n \in Place, SaveEdit(n) PROVE SealedInv'
  <2> DEFINE e == [node |-> n, stamp |-> stamped + 1]
  <2>1. stamped \in 0..MaxEdits /\ MaxEdits \in Nat
    BY <1>1, SealedAssumption DEF SealedTypeOK
  <2>2. {e} \in SUBSET Edit /\ Apply({e})
    BY <1>3, <2>1 DEF SaveEdit, Edit
  <2>3. current \in Engines
    BY <1>1, <1>3 DEF SaveEdit, Engines
  <2>4. NoNewSpan
    BY <1>1, <1>3, <2>3, PlainStep DEF SaveEdit, StartSaver, Steps, Worker
  <2>5. UNCHANGED <<relayLog, image, lost, cursor>>
    BY <1>3 DEF SaveEdit, relayRows
  <2> HIDE DEF e
  <2> QED BY <2>2, <2>4, <2>5, ApplyInv
<1> QED BY <1>2, <1>3

LEMMA OtherCommitsInv ==
  ASSUME SealedInv, SealedTypeOK', NEW n \in Place, NEW sealed \in BOOLEAN, OtherCommits(n, sealed)
  PROVE  SealedInv'
<1> DEFINE x == [edit |-> [node |-> n, stamp |-> stamped + 1], sealed |-> sealed]
<1>1. /\ relayLog \in Seq([edit : Edit, sealed : BOOLEAN]) /\ stamped \in 0..MaxEdits /\ MaxEdits \in Nat
  BY SealedAssumption DEF SealedInv, SealedTypeOK
<1>2. relayLog' = Append(relayLog, x) /\ stamped < MaxEdits
  BY DEF OtherCommits
<1>3. x \in [edit : Edit, sealed : BOOLEAN]
  BY <1>1, <1>2 DEF Edit
<1>4. Len(relayLog') >= Len(relayLog) /\ \A i \in 1..Len(relayLog) : relayLog'[i] = relayLog[i]
  <2> HIDE DEF x
  <2> QED BY <1>1, <1>2, <1>3
<1>5. NoNewSpan /\ UNCHANGED <<image, nodeRows, recorded, lost, cursor>>
  BY DEF OtherCommits, NoNewSpan, mirrorRows
<1> QED BY <1>4, <1>5, GrowInv

LEMMA SealedStepInv == SealedInv /\ [SealedNext]_sealedVars => SealedInv'
<1> SUFFICES ASSUME SealedInv, [SealedNext]_sealedVars PROVE SealedInv'
  OBVIOUS
<1>1. SealedTypeOK'
  BY SealedTypeStep DEF SealedInv
<1>2. CASE UNCHANGED sealedVars
  <2>1. UNCHANGED <<relayLog, image, nodeRows, recorded, lost, cursor>> /\ NoNewSpan
    BY <1>2 DEF sealedVars, relayRows, mirrorRows, NoNewSpan
  <2> QED BY <1>1, <2>1, QuietInv
<1> QED
  BY <1>1, <1>2, WindowInv, OpeningInv, SyncingInv, EditInv, OtherCommitsInv, OtherUploadsInv
  DEF SealedNext, Elsewhere

(* Every variable of the opening keeps its type, and what a worker remembers of the log
   and of the image lies within them: the rows are read by these positions. *)
THEOREM SealedTyped == SealedSpec => [](SealedTypeOK /\ InLog)
<1>1. SealedSpec => []SealedInv
  BY SealedInitInv, SealedStepInv, PTL DEF SealedSpec
<1>2. SealedInv => SealedTypeOK /\ InLog
  BY DEF SealedInv
<1> QED BY <1>1, <1>2, PTL

(* What the cursor has passed is shown, was passed by a keyless engine or was taken back
   by a restore, for every number of engines, workers and edits. *)
THEOREM CoveredByCursor == SealedSpec => []CursorCovered
<1>1. SealedSpec => []SealedInv
  BY SealedInitInv, SealedStepInv, PTL DEF SealedSpec
<1>2. SealedInv => CursorCovered
  <2> SUFFICES ASSUME SealedInv, NEW i \in 1..cursor
               PROVE  ShownIn(nodeRows, relayLog[i].edit) \/ relayLog[i].edit \in lost
    BY DEF CursorCovered
  <2>1. i \in 1..Len(relayLog) /\ Passed(i)
    BY LogFacts DEF SealedInv, SealedTypeOK, InLog, Passed
  <2> QED BY <2>1 DEF SealedInv, PassedCovered, EditAt
<1> QED BY <1>1, <1>2, PTL

-----------------------------------------------------------------------------
\* A worker that is at a submit now was there before.
NoNewChunk == \A v \in Worker : work'[v] = work[v] \/ work'[v].step # "submit"

LEMMA MoveStep ==
  /\ \A w \in Worker, s \in Steps : SealedTypeOK /\ Go(w, s) => NoNewChunk
  /\ \A w \in Worker, rec \in Doing : SealedTypeOK /\ Carry(w, rec) /\ rec.step # "submit" => NoNewChunk
  /\ \A w \in Worker : SealedTypeOK /\ (Finish(w) \/ Fail(w)) => NoNewChunk
<1>1. ASSUME NEW w \in Worker, NEW s \in Steps, SealedTypeOK, Go(w, s) PROVE NoNewChunk
  <2>1. s # "submit"
    BY DEF Steps
  <2>2. /\ work'[w] = [step |-> s, engine |-> work[w].engine]
        /\ \A v \in Worker : v # w => work'[v] = work[v]
    BY <1>1, GoFacts DEF SealedTypeOK
  <2> QED BY <2>1, <2>2 DEF NoNewChunk
<1>2. ASSUME NEW w \in Worker, NEW rec \in Doing, SealedTypeOK, Carry(w, rec), rec.step # "submit"
      PROVE  NoNewChunk
  BY <1>2, CarryFacts DEF NoNewChunk, SealedTypeOK
<1>3. ASSUME NEW w \in Worker, SealedTypeOK, Finish(w) \/ Fail(w) PROVE NoNewChunk
  BY <1>3, FinishFacts DEF NoNewChunk, SealedTypeOK
<1> QED BY <1>1, <1>2, <1>3

\* What carries stamps grows by stamps that are out already.
LEMMA StampedKept ==
  ASSUME SealedTypeOK, SealedTypeOK', Stamped, stamped' >= stamped,
         \A e \in recorded' \cup unsent' : e \in recorded \cup unsent \/ e.stamp <= stamped',
         \A i \in 1..Len(relayLog') :
           (i <= Len(relayLog) /\ relayLog'[i] = relayLog[i]) \/ relayLog'[i].edit.stamp <= stamped',
         \A w \in Worker : work'[w].step = "submit" =>
           work'[w] = work[w] \/ \A e \in work'[w].chunk : e \in unsent
  PROVE  Stamped'
<1>1. stamped \in Nat /\ stamped' \in Nat /\ Len(relayLog) \in Nat /\ Len(relayLog') \in Nat
  BY DEF SealedTypeOK
<1>2. \A e \in Edit : e.stamp \in Nat
  BY SealedAssumption DEF Edit
<1>3. \A e \in Edit : e.stamp <= stamped => e.stamp <= stamped'
  BY <1>1, <1>2
<1>4. recorded \subseteq Edit /\ unsent \subseteq Edit
  BY DEF SealedTypeOK, Chunk
<1>5. ASSUME NEW e \in recorded' \cup unsent' PROVE e.stamp <= stamped'
  BY <1>3, <1>4 DEF Stamped
<1>6. ASSUME NEW i \in 1..Len(relayLog') PROVE EditAt(i)'.stamp <= stamped'
  <2>1. CASE i <= Len(relayLog) /\ relayLog'[i] = relayLog[i]
    <3>1. i \in 1..Len(relayLog)
      BY <1>1, <2>1
    <3>2. EditAt(i) \in Edit /\ EditAt(i).stamp <= stamped /\ EditAt(i)' = EditAt(i)
      BY <2>1, <3>1, LogFacts DEF Stamped, EditAt
    <3> QED BY <1>3, <3>2
  <2> QED BY <2>1 DEF EditAt
<1>7. ASSUME NEW w \in Worker, At(w, "submit")', NEW e \in work'[w].chunk PROVE e.stamp <= stamped'
  <2>1. CASE work'[w] = work[w]
    <3>1. At(w, "submit") /\ e \in work[w].chunk
      BY <1>7, <2>1 DEF At
    <3>2. work[w].chunk \subseteq Edit
      BY <3>1, DoingFacts DEF SealedTypeOK, At, Chunk
    <3> QED BY <1>3, <3>1, <3>2 DEF Stamped
  <2>2. CASE e \in unsent
    BY <1>3, <1>4, <2>2 DEF Stamped
  <2> QED BY <1>7, <2>1, <2>2 DEF At
<1> QED BY <1>5, <1>6, <1>7 DEF Stamped

LEMMA StampedStep == SealedTypeOK /\ InLog /\ Stamped /\ [SealedNext]_sealedVars => Stamped'
<1> SUFFICES ASSUME SealedTypeOK, InLog, Stamped, [SealedNext]_sealedVars PROVE Stamped'
  OBVIOUS
<1> USE DEF relayRows, mirrorRows
<1>1. SealedTypeOK' /\ "opener" \in Worker /\ "saver" \in Worker /\ "reader" \in Worker
  BY SealedTypeStep DEF Worker
<1>2. /\ stamped \in Nat /\ Len(relayLog) \in Nat /\ cursor \in Nat /\ work \in [Worker -> Doing]
      /\ current \in 0..MaxEngines /\ MaxEngines \in Nat /\ MaxEdits \in Nat /\ stamped \in 0..MaxEdits
  BY LogFacts, SealedAssumption DEF SealedTypeOK
<1>3. ASSUME UNCHANGED <<relayLog, recorded, unsent, stamped>>, NoNewChunk PROVE Stamped'
  BY <1>1, <1>2, <1>3, StampedKept DEF NoNewChunk
<1>4. CASE UNCHANGED sealedVars
  BY <1>3, <1>4 DEF sealedVars, NoNewChunk
<1>5. CASE SelectWorkspace
  <2>1. PICK unlocking \in BOOLEAN : Select(unlocking)
    BY <1>5 DEF SelectWorkspace
  <2>2. [step |-> "key", engine |-> current + 1] \in Doing
    BY <1>2, <2>1, DoingFacts DEF Select, Steps, Engines
  <2>3. NoNewChunk
    BY <1>1, <2>1, <2>2, MoveStep DEF Select
  <2> QED BY <1>3, <2>1, <2>3 DEF Select
<1>6. CASE WorkspaceOpened
  BY <1>1, <1>3, <1>6, MoveStep DEF WorkspaceOpened
<1>7. CASE IntervalSync \/ Hello
  <2>1. \E w \in Worker, s \in {"push", "pull"} : Carry(w, [step |-> s, engine |-> current])
    BY <1>1, <1>7 DEF IntervalSync, Hello, StartSaver
  <2>2. \A s \in {"push", "pull"} : [step |-> s, engine |-> current] \in Doing
    BY <1>2, <1>7, DoingFacts DEF IntervalSync, Hello, Steps, Engines
  <2>3. NoNewChunk
    BY <2>1, <2>2, MoveStep
  <2> QED BY <1>3, <1>7, <2>3 DEF IntervalSync, Hello
<1>8. ASSUME NEW n \in Place, SaveEdit(n) PROVE Stamped'
  <2> DEFINE e == [node |-> n, stamp |-> stamped + 1]
  <2>1. /\ stamped' = stamped + 1 /\ unsent' = unsent \cup {e} /\ relayLog' = relayLog
        /\ Apply({e}) /\ Carry("saver", [step |-> "push", engine |-> current])
    BY <1>8 DEF SaveEdit, StartSaver
  <2>2. recorded' = recorded \cup {e}
    BY <2>1 DEF Apply
  <2>3. [step |-> "push", engine |-> current] \in Doing
    BY <1>2, <1>8, DoingFacts DEF SaveEdit, Steps, Engines
  <2>4. NoNewChunk
    BY <1>1, <2>1, <2>3, MoveStep
  <2>5. e.stamp <= stamped' /\ stamped' >= stamped
    BY <1>2, <2>1
  <2> HIDE DEF e
  <2>6. \A d \in recorded' \cup unsent' : d \in recorded \cup unsent \/ d.stamp <= stamped'
    BY <2>1, <2>2, <2>5
  <2> QED BY <1>1, <1>2, <2>1, <2>4, <2>5, <2>6, StampedKept DEF NoNewChunk
<1>9. CASE FetchKey \/ StoreKey \/ KeyRouteFails \/ DeclineSnapshot \/ OpenSnapshotFails \/ RestoreCursor
  <2>1. Fail("opener") \/ \E s \in Steps : Go("opener", s)
    BY <1>9 DEF FetchKey, StoreKey, KeyRouteFails, DeclineSnapshot, OpenSnapshotFails, RestoreCursor, Unwrap, Steps
  <2>2. NoNewChunk
    BY <1>1, <2>1, MoveStep
  <2> QED
    BY <1>3, <1>9, <2>2
    DEF FetchKey, StoreKey, KeyRouteFails, DeclineSnapshot, OpenSnapshotFails, RestoreCursor
<1>10. CASE Probe
  <2> DEFINE rec == [step |-> "download", engine |-> work["opener"].engine,
                     upTo |-> image.upTo, sealed |-> image.sealed]
  <2>1. Go("opener", "push") \/ Carry("opener", rec)
    BY <1>10 DEF Probe
  <2>2. rec \in Doing /\ rec.step # "submit"
    BY <1>1, <1>2, DoingFacts DEF Doing, SealedTypeOK
  <2> HIDE DEF rec
  <2>3. NoNewChunk
    BY <1>1, <2>1, <2>2, MoveStep DEF Steps
  <2> QED BY <1>3, <1>10, <2>3 DEF Probe
<1>11. CASE RestoreSnapshot
  <2> DEFINE rec == [step |-> "cursor", engine |-> work["opener"].engine, upTo |-> work["opener"].upTo]
  <2>1. Carry("opener", rec) /\ UNCHANGED <<relayLog, recorded, unsent, stamped>>
    BY <1>11 DEF RestoreSnapshot, RestoreImage
  <2>2. rec \in Doing /\ rec.step # "submit"
    BY <1>1, <1>2, <1>11, DoingFacts DEF Doing, RestoreSnapshot, At
  <2> HIDE DEF rec
  <2>3. NoNewChunk
    BY <1>1, <2>1, <2>2, MoveStep
  <2> QED BY <1>3, <2>1, <2>3
<1>12. ASSUME NEW w \in Worker, PushBegin(w) \/ PullBegin(w) \/ UploadSnapshot(w) PROVE Stamped'
  <2>1. Finish(w) \/ \E s \in Steps : Go(w, s)
    BY <1>12 DEF PushBegin, PullBegin, UploadSnapshot, Steps
  <2>2. NoNewChunk
    BY <2>1, MoveStep
  <2> QED BY <1>3, <1>12, <2>2 DEF PushBegin, PullBegin, UploadSnapshot
<1>13. ASSUME NEW w \in Worker, TakeUnsent(w) PROVE Stamped'
  <2> DEFINE rec == [step |-> "submit", engine |-> work[w].engine, chunk |-> unsent, sealed |-> Keyed(w)]
  <2>1. UNCHANGED <<relayLog, recorded, unsent, stamped>> /\ (Go(w, "pull") \/ Carry(w, rec))
    BY <1>13 DEF TakeUnsent
  <2>2. CASE Go(w, "pull")
    BY <1>3, <2>1, <2>2, MoveStep DEF Steps
  <2>3. CASE Carry(w, rec)
    <3>1. unsent \in Chunk /\ provider \in [Engines -> BOOLEAN]
      BY DEF SealedTypeOK
    <3>2. rec \in Doing
      BY <1>2, <3>1, DoingFacts DEF Doing, Keyed
    <3>3. work'[w] = rec /\ \A v \in Worker : v # w => work'[v] = work[v]
      <4> HIDE DEF rec
      <4> QED BY <1>2, <2>3, <3>2, CarryFacts
    <3>4. \A v \in Worker : work'[v].step = "submit" =>
            work'[v] = work[v] \/ \A e \in work'[v].chunk : e \in unsent
      BY <3>3
    <3> QED BY <1>1, <1>2, <2>1, <3>4, StampedKept
  <2> QED BY <2>1, <2>2, <2>3
<1>14. ASSUME NEW w \in Worker, Submit(w) PROVE Stamped'
  <2>1. NoNewChunk /\ UNCHANGED <<recorded, stamped>> /\ unsent' \subseteq unsent /\ At(w, "submit")
    BY <1>14, MoveStep DEF Submit, Steps
  <2>2. CASE relayLog' = relayLog
    BY <1>1, <1>2, <2>1, <2>2, StampedKept DEF NoNewChunk
  <2>3. CASE relayLog' # relayLog
    <3>1. PICK fresh \in InOrder(work[w].chunk \ Logged) :
            relayLog' = relayLog \o [i \in DOMAIN fresh |-> [edit |-> fresh[i], sealed |-> work[w].sealed]]
      BY <1>14, <2>3 DEF Submit
    <3>2. /\ Len(relayLog') \in Nat
          /\ \A i \in 1..Len(relayLog) : relayLog'[i] = relayLog[i]
          /\ \A i \in Len(relayLog) + 1 .. Len(relayLog') : relayLog'[i].edit \in work[w].chunk
      BY <2>1, <3>1, SubmitFacts
    <3>3. \A e \in work[w].chunk : e.stamp <= stamped
      BY <2>1 DEF Stamped
    <3>4. \A i \in 1..Len(relayLog') :
            (i <= Len(relayLog) /\ relayLog'[i] = relayLog[i]) \/ relayLog'[i].edit.stamp <= stamped'
      BY <1>2, <2>1, <3>2, <3>3
    <3> QED BY <1>1, <1>2, <2>1, <3>4, StampedKept DEF NoNewChunk
  <2> QED BY <2>2, <2>3
<1>15. ASSUME NEW w \in Worker, FetchPage(w) PROVE Stamped'
  <2> DEFINE rec == [step |-> "page", engine |-> work[w].engine, after |-> cursor, upTo |-> Len(relayLog)]
  <2>1. UNCHANGED <<relayLog, recorded, unsent, stamped>> /\ Carry(w, rec)
    BY <1>15 DEF FetchPage
  <2>2. rec \in Doing /\ rec.step # "submit"
    BY <1>2, DoingFacts DEF Doing
  <2> HIDE DEF rec
  <2> QED BY <1>3, <2>1, <2>2, MoveStep
<1>16. ASSUME NEW w \in Worker, ApplyPage(w) PROVE Stamped'
  <2>1. NoNewChunk /\ UNCHANGED <<relayLog, unsent, stamped>>
    BY <1>16, MoveStep DEF ApplyPage, Steps
  <2>2. work[w].upTo <= Len(relayLog) /\ work[w].upTo \in Nat /\ work[w].after \in Nat
    BY <1>2, <1>16, DoingFacts DEF ApplyPage, At, InLog
  <2>3. \A e \in recorded' : e \in recorded \/ \E i \in work[w].after + 1 .. work[w].upTo : e = EditAt(i)
    BY <1>16 DEF ApplyPage, Apply, EditAt
  <2>4. \A e \in recorded' \cup unsent' : e \in recorded \cup unsent \/ e.stamp <= stamped'
    BY <1>2, <2>1, <2>2, <2>3 DEF Stamped
  <2> QED BY <1>1, <1>2, <2>1, <2>4, StampedKept DEF NoNewChunk
<1>17. CASE LiveFrame
  <2>1. PICK i \in cursor + 1 .. Len(relayLog) : Apply({relayLog[i].edit})
    BY <1>17 DEF LiveFrame
  <2>2. recorded' = recorded \cup {EditAt(i)} /\ EditAt(i).stamp <= stamped
    BY <1>2, <2>1 DEF Apply, EditAt, Stamped
  <2>3. UNCHANGED <<relayLog, unsent, stamped, work>>
    BY <1>17 DEF LiveFrame
  <2> QED BY <1>1, <1>2, <2>2, <2>3, StampedKept
<1>18. ASSUME NEW n \in Place, NEW sealed \in BOOLEAN, OtherCommits(n, sealed) PROVE Stamped'
  <2> DEFINE x == [edit |-> [node |-> n, stamp |-> stamped + 1], sealed |-> sealed]
  <2>1. /\ relayLog' = Append(relayLog, x) /\ stamped' = stamped + 1 /\ stamped < MaxEdits
        /\ UNCHANGED <<recorded, unsent, work>>
    BY <1>18 DEF OtherCommits
  <2>2. x \in [edit : Edit, sealed : BOOLEAN] /\ x.edit.stamp <= stamped'
    BY <1>2, <2>1 DEF Edit
  <2> HIDE DEF x
  <2>3. relayLog \in Seq([edit : Edit, sealed : BOOLEAN])
    BY DEF SealedTypeOK
  <2>4. \A i \in 1..Len(relayLog') :
          (i <= Len(relayLog) /\ relayLog'[i] = relayLog[i]) \/ relayLog'[i] = x
    BY <2>1, <2>2, <2>3
  <2> QED BY <1>1, <1>2, <2>1, <2>2, <2>4, StampedKept
<1>19. CASE OtherStoresKey \/ \E sealed \in BOOLEAN : OtherUploads(sealed)
  BY <1>3, <1>19 DEF OtherStoresKey, OtherUploads, NoNewChunk
<1> QED
  BY <1>4, <1>5, <1>6, <1>7, <1>8, <1>9, <1>10, <1>11, <1>12, <1>13, <1>14, <1>15, <1>16, <1>17, <1>18, <1>19
  DEF SealedNext, Opening, Syncing, Elsewhere

LEMMA SealedReached == SealedSpec => [](SealedTypeOK /\ InLog /\ Stamped)
<1>1. SealedSpec => [](SealedTypeOK /\ InLog)
  BY SealedTyped
<1>2. SealedInit => Stamped
  BY DEF SealedInit, Stamped, Idle, At
<1>3. SealedTypeOK /\ InLog /\ Stamped /\ [SealedNext]_sealedVars => Stamped'
  BY StampedStep
<1> QED BY <1>1, <1>2, <1>3, PTL DEF SealedSpec

-----------------------------------------------------------------------------
\* Whose step it is: a worker that is under way stays with its engine, and takes its
\* chunk under the provider of that engine; one that starts does so for the current engine.
LEMMA SubmitsUnderProvider ==
  ASSUME SealedTypeOK, SealedNext, OnlySealing, current' = current
  PROVE  OnlySealing'
<1> DEFINE Kept == /\ provider'[current]
                   /\ \A v \in Worker : work'[v].step # "idle" =>
                        work'[v].engine = current /\ (work'[v].step = "submit" => work'[v].sealed)
<1>1. /\ work \in [Worker -> Doing] /\ provider \in [Engines -> BOOLEAN] /\ current # 0 /\ provider[current]
      /\ current \in Engines
      /\ "opener" \in Worker /\ "saver" \in Worker /\ "reader" \in Worker
  BY SealedAssumption DEF SealedTypeOK, OnlySealing, Worker, Engines
<1>2. \A w \in Worker : ~At(w, "idle") => work[w].engine = current /\ (At(w, "submit") => work[w].sealed)
  BY DEF OnlySealing
<1>3. SUFFICES Kept
  BY <1>1 DEF OnlySealing, At
<1>4. ASSUME NEW w \in Worker, provider'[current],
             \/ work'[w].step = "idle"
             \/ /\ work'[w].engine = current
                /\ work'[w].step = "submit" => work'[w].sealed,
             \A v \in Worker : v # w => work'[v] = work[v]
      PROVE  Kept
  BY <1>2, <1>4 DEF At
<1>5. ASSUME NEW w \in Worker, NEW s \in Steps, Go(w, s), provider'[current], ~At(w, "idle")
      PROVE  Kept
  <2>1. /\ work'[w] = [step |-> s, engine |-> work[w].engine] /\ s # "submit"
        /\ \A v \in Worker : v # w => work'[v] = work[v]
    BY <1>1, <1>5, GoFacts DEF Steps
  <2>2. work[w].engine = current
    BY <1>2, <1>5
  <2> QED BY <1>4, <1>5, <2>1, <2>2
<1>6. ASSUME NEW w \in Worker, Finish(w) \/ Fail(w), provider'[current], ~At(w, "idle")
      PROVE  Kept
  <2>1. /\ work'[w].step = "idle" \/ (work'[w].step = "opened" /\ work'[w].engine = work[w].engine)
        /\ \A v \in Worker : v # w => work'[v] = work[v]
    BY <1>1, <1>6, FinishFacts
  <2> QED BY <1>2, <1>4, <1>6, <2>1
<1>7. ASSUME NEW w \in Worker, NEW rec \in Doing, Carry(w, rec), provider'[current],
             rec.engine = current, rec.step = "submit" => rec.sealed
      PROVE  Kept
  <2>1. work'[w] = rec /\ \A v \in Worker : v # w => work'[v] = work[v]
    BY <1>1, <1>7, CarryFacts
  <2> QED BY <1>4, <1>7, <2>1
<1>8. CASE SelectWorkspace
  BY <1>1, <1>8 DEF SelectWorkspace, Select, SealedTypeOK
<1>9. CASE WorkspaceOpened
  BY <1>1, <1>6, <1>9 DEF WorkspaceOpened, engineVars, At
<1>10. \A s \in {"push", "pull"} : [step |-> s, engine |-> current] \in Doing
  BY <1>1, DoingFacts DEF Steps
<1>11. CASE IntervalSync \/ Hello \/ \E n \in Place : SaveEdit(n)
  <2>1. /\ UNCHANGED provider
        /\ \E w \in Worker, s \in {"push", "pull"} : Carry(w, [step |-> s, engine |-> current])
    BY <1>1, <1>11 DEF IntervalSync, Hello, SaveEdit, StartSaver, engineVars
  <2> QED BY <1>1, <1>7, <1>10, <2>1
<1>12. CASE FetchKey \/ StoreKey \/ KeyRouteFails \/ DeclineSnapshot \/ RestoreCursor
  <2>1. ~At("opener", "idle") /\ \E s \in Steps : Go("opener", s)
    BY <1>12
    DEF FetchKey, StoreKey, KeyRouteFails, DeclineSnapshot, RestoreCursor, Unwrap, Steps, At
  <2>2. provider' = provider \/ SetCrypto(work["opener"].engine)
    BY <1>12
    DEF FetchKey, StoreKey, KeyRouteFails, DeclineSnapshot, RestoreCursor, Unwrap, Bar, engineVars
  <2>3. provider'[current]
    BY <1>1, <2>2 DEF SetCrypto
  <2> QED BY <1>1, <1>5, <2>1, <2>3
<1>13. CASE OpenSnapshotFails
  BY <1>1, <1>6, <1>13 DEF OpenSnapshotFails, engineVars, At
<1>14. CASE Probe
  <2> DEFINE rec == [step |-> "download", engine |-> work["opener"].engine,
                     upTo |-> image.upTo, sealed |-> image.sealed]
  <2>1. UNCHANGED provider /\ ~At("opener", "idle") /\ (Go("opener", "push") \/ Carry("opener", rec))
    BY <1>14 DEF Probe, engineVars, At
  <2>2. rec \in Doing /\ rec.step # "submit" /\ rec.engine = current
    BY <1>1, <1>2, <2>1 DEF Doing, SealedTypeOK
  <2> HIDE DEF rec
  <2> QED BY <1>1, <1>5, <1>7, <2>1, <2>2 DEF Steps
<1>15. CASE RestoreSnapshot
  <2> DEFINE rec == [step |-> "cursor", engine |-> work["opener"].engine, upTo |-> work["opener"].upTo]
  <2>1. UNCHANGED provider /\ At("opener", "download") /\ Carry("opener", rec)
    BY <1>15 DEF RestoreSnapshot, RestoreImage, engineVars
  <2>2. rec \in Doing /\ rec.step # "submit" /\ rec.engine = current
    BY <1>1, <1>2, <2>1, DoingFacts DEF Doing, At
  <2> HIDE DEF rec
  <2> QED BY <1>1, <1>7, <2>1, <2>2
<1>16. ASSUME NEW w \in Worker, PushBegin(w) \/ PullBegin(w) \/ Submit(w) \/ ApplyPage(w) \/ UploadSnapshot(w)
       PROVE  Kept
  <2>1. UNCHANGED provider /\ ~At(w, "idle") /\ (Finish(w) \/ \E s \in Steps : Go(w, s))
    BY <1>16 DEF PushBegin, PullBegin, Submit, ApplyPage, UploadSnapshot, Steps, engineVars, At
  <2> QED BY <1>1, <1>5, <1>6, <2>1
<1>17. ASSUME NEW w \in Worker, TakeUnsent(w)
       PROVE  Kept
  <2> DEFINE rec == [step |-> "submit", engine |-> work[w].engine, chunk |-> unsent, sealed |-> Keyed(w)]
  <2>1. UNCHANGED provider /\ ~At(w, "idle") /\ (Go(w, "pull") \/ Carry(w, rec))
    BY <1>17 DEF TakeUnsent, engineVars, At
  <2>2. rec \in Doing /\ rec.engine = current /\ rec.sealed
    BY <1>1, <1>2, <2>1, DoingFacts DEF Doing, SealedTypeOK, Keyed
  <2> HIDE DEF rec
  <2> QED BY <1>1, <1>5, <1>7, <2>1, <2>2 DEF Steps
<1>18. ASSUME NEW w \in Worker, FetchPage(w)
       PROVE  Kept
  <2> DEFINE rec == [step |-> "page", engine |-> work[w].engine, after |-> cursor, upTo |-> Len(relayLog)]
  <2>1. UNCHANGED provider /\ ~At(w, "idle") /\ Carry(w, rec)
    BY <1>18 DEF FetchPage, engineVars, At
  <2>2. rec \in Doing /\ rec.step # "submit" /\ rec.engine = current
    BY <1>1, <1>2, <2>1, LogFacts DEF Doing, SealedTypeOK
  <2> HIDE DEF rec
  <2> QED BY <1>1, <1>7, <2>1, <2>2
<1>19. CASE LiveFrame \/ Elsewhere
  BY <1>1, <1>2, <1>19 DEF LiveFrame, Elsewhere, OtherStoresKey, OtherUploads, OtherCommits, engineVars, At
<1> QED
  BY <1>8, <1>9, <1>11, <1>12, <1>13, <1>14, <1>15, <1>16, <1>17, <1>18, <1>19
  DEF SealedNext, Opening, Syncing

(* Once the engine of the window has its provider, and no other worker of a keyless time is
   under way, every envelope and every image this client sends is sealed. *)
THEOREM OnlySealedLeaves == SealedSpec => SealedOnceKeyed
<1> DEFINE Sealing == /\ OnlySealing'
                      /\ \A i \in Len(relayLog) + 1 .. Len(relayLog') :
                           relayLog'[i].edit \in recorded => relayLog'[i].sealed
                      /\ image' # image /\ work' # work => image'.sealed
<1>1. SealedTypeOK /\ InLog /\ Stamped /\ [SealedNext]_sealedVars
        => [OnlySealing /\ current' = current => Sealing]_sealedVars
  <2> SUFFICES ASSUME SealedTypeOK, Stamped, SealedNext, OnlySealing, current' = current
               PROVE  Sealing
    BY DEF sealedVars
  <2>1. OnlySealing'
    BY SubmitsUnderProvider
  <2>2. ASSUME NEW i \in Len(relayLog) + 1 .. Len(relayLog'), relayLog'[i].edit \in recorded
        PROVE  relayLog'[i].sealed
    <3>1. Len(relayLog) \in Nat /\ relayLog' # relayLog
      BY <2>2, LogFacts
    <3>2. CASE \E w \in Worker : Submit(w)
      <4>1. PICK w \in Worker : Submit(w)
        BY <3>2
      <4>2. At(w, "submit") /\ work[w].sealed
        BY <4>1 DEF Submit, OnlySealing, At
      <4>3. PICK fresh \in InOrder(work[w].chunk \ Logged) :
              relayLog' = relayLog \o [j \in DOMAIN fresh |-> [edit |-> fresh[j], sealed |-> work[w].sealed]]
        BY <3>1, <4>1 DEF Submit
      <4> QED BY <2>2, <4>2, <4>3, SubmitFacts
    <3>3. ASSUME NEW n \in Place, NEW sealed \in BOOLEAN, OtherCommits(n, sealed) PROVE FALSE
      <4> DEFINE x == [edit |-> [node |-> n, stamp |-> stamped + 1], sealed |-> sealed]
      <4>1. relayLog' = Append(relayLog, x) /\ x.edit.stamp = stamped + 1
        BY <3>3 DEF OtherCommits
      <4>2. relayLog'[i] = x
        <5> HIDE DEF x
        <5> QED BY <2>2, <3>1, <4>1 DEF SealedTypeOK
      <4>3. x.edit.stamp <= stamped /\ stamped \in Nat
        BY <2>2, <4>2 DEF Stamped, SealedTypeOK
      <4> QED BY <4>1, <4>3
    <3>4. relayLog' = relayLog \/ (\E w \in Worker : Submit(w))
            \/ \E n \in Place, sealed \in BOOLEAN : OtherCommits(n, sealed)
      BY DEF SealedNext, SelectWorkspace, Select, WorkspaceOpened, IntervalSync, SaveEdit, Opening,
             FetchKey, StoreKey, KeyRouteFails, Probe, DeclineSnapshot, OpenSnapshotFails,
             RestoreSnapshot, RestoreImage, RestoreCursor, Syncing, PushBegin, TakeUnsent, PullBegin,
             FetchPage, ApplyPage, UploadSnapshot, Hello, LiveFrame, Elsewhere, OtherStoresKey,
             OtherUploads, relayRows
    <3> QED BY <3>1, <3>2, <3>3, <3>4
  <2>3. ASSUME image' # image, work' # work PROVE image'.sealed
    <3>1. PICK w \in Worker : UploadSnapshot(w)
      BY <2>3 DEF SealedNext, SelectWorkspace, Select, WorkspaceOpened, IntervalSync, SaveEdit, Opening,
             FetchKey, StoreKey, KeyRouteFails, Probe, DeclineSnapshot, OpenSnapshotFails,
             RestoreSnapshot, RestoreImage, RestoreCursor, Syncing, PushBegin, TakeUnsent, PullBegin,
             FetchPage, ApplyPage, Submit, Hello, LiveFrame, Elsewhere, OtherStoresKey,
             OtherUploads, OtherCommits, relayRows
    <3>2. image' = ImageOf(Keyed(w)) /\ At(w, "upload")
      BY <2>3, <3>1 DEF UploadSnapshot
    <3>3. Keyed(w)
      BY <3>2 DEF OnlySealing, Keyed, At
    <3> QED BY <3>2, <3>3 DEF ImageOf
  <2> QED BY <2>1, <2>2, <2>3
<1>2. SealedSpec => [](SealedTypeOK /\ InLog /\ Stamped)
  BY SealedReached
<1> HIDE DEF Sealing
<1>3. SealedSpec => [][OnlySealing /\ current' = current => Sealing]_sealedVars
  BY <1>1, <1>2, PTL DEF SealedSpec
<1> QED BY <1>3 DEF SealedOnceKeyed, Sealing

-----------------------------------------------------------------------------
\* The opener serves the current engine and stops where it bars it.
BarredIsRefused ==
  /\ \A e \in Engines : barred[e] => e <= current
  /\ ~At("opener", "idle") => work["opener"].engine = current /\ current # 0
  /\ ~At("opener", "idle") /\ ~At("opener", "refused") => ~barred[current]

LEMMA BarredInit == SealedInit => BarredIsRefused
BY DEF SealedInit, BarredIsRefused, Idle, At, Worker

LEMMA BarredKept ==
  ASSUME BarredIsRefused, UNCHANGED <<barred, current>>,
         \/ work'["opener"] = work["opener"]
         \/ work'["opener"].step = "idle"
         \/ /\ ~At("opener", "idle") /\ ~At("opener", "refused")
            /\ work'["opener"].engine = work["opener"].engine
  PROVE  BarredIsRefused'
BY DEF BarredIsRefused, At

LEMMA BarredStep == SealedTypeOK /\ BarredIsRefused /\ [SealedNext]_sealedVars => BarredIsRefused'
<1> SUFFICES ASSUME SealedTypeOK, BarredIsRefused, [SealedNext]_sealedVars PROVE BarredIsRefused'
  OBVIOUS
<1> USE DEF engineVars
<1>1. /\ work \in [Worker -> Doing] /\ barred \in [Engines -> BOOLEAN]
      /\ current \in 0..MaxEngines /\ MaxEngines \in Nat
      /\ "opener" \in Worker /\ "saver" \in Worker /\ "reader" \in Worker
  BY SealedAssumption DEF SealedTypeOK, Worker
<1>2. CASE UNCHANGED sealedVars
  BY <1>2, BarredKept DEF sealedVars
<1>3. ASSUME NEW w \in Worker, ~At(w, "idle"), ~At(w, "refused"), UNCHANGED <<barred, current>>,
             Finish(w) \/ Fail(w) \/ \E s \in Steps : Go(w, s)
      PROVE  BarredIsRefused'
  <2>1. CASE Finish(w) \/ Fail(w)
    BY <1>1, <1>3, <2>1, FinishFacts, BarredKept DEF At
  <2>2. CASE \E s \in Steps : Go(w, s)
    <3> PICK s \in Steps : Go(w, s)
      BY <2>2
    <3>1. work'[w] = [step |-> s, engine |-> work[w].engine] /\ \A v \in Worker : v # w => work'[v] = work[v]
      BY <1>1, GoFacts
    <3>2. work'[w].engine = work[w].engine
      BY <3>1
    <3> QED BY <1>1, <1>3, <3>1, <3>2, BarredKept
  <2> QED BY <1>3, <2>1, <2>2
<1>4. ASSUME NEW w \in Worker, w # "opener", NEW rec, Carry(w, rec), UNCHANGED <<barred, current>>
      PROVE  BarredIsRefused'
  <2>1. work'["opener"] = work["opener"]
    BY <1>1, <1>4 DEF Carry
  <2> QED BY <1>4, <2>1, BarredKept
<1>5. ASSUME NEW w \in Worker, ~At(w, "idle"), ~At(w, "refused"), NEW rec, Carry(w, rec),
             rec.engine = work[w].engine, UNCHANGED <<barred, current>>
      PROVE  BarredIsRefused'
  <2>1. work'[w] = rec /\ \A v \in Worker : v # w => work'[v] = work[v]
    BY <1>1, <1>5 DEF Carry
  <2> QED BY <1>1, <1>5, <2>1, BarredKept
<1>6. ASSUME NEW unlocking \in BOOLEAN, Select(unlocking) PROVE BarredIsRefused'
  <2> DEFINE rec == [step |-> "key", engine |-> current + 1]
  <2>1. Carry("opener", rec) /\ current' = current + 1 /\ barred' = barred /\ current + 1 \in Engines
    BY <1>1, <1>6 DEF Select, Engines
  <2>2. work'["opener"] = rec
    BY <1>1, <2>1 DEF Carry
  <2>3. \A e \in Engines : barred[e] => e <= current + 1 /\ e # current + 1
    BY <1>1 DEF BarredIsRefused, Engines
  <2> QED BY <1>1, <2>1, <2>2, <2>3 DEF BarredIsRefused, At
<1>7. CASE WorkspaceOpened
  <2>1. UNCHANGED <<barred, current>> /\ Carry("opener", Idle)
    BY <1>7 DEF WorkspaceOpened, Fail
  <2>2. work'["opener"].step = "idle"
    BY <1>1, <2>1 DEF Carry, Idle
  <2> QED BY <2>1, <2>2, BarredKept
<1>8. CASE IntervalSync \/ Hello \/ \E n \in Place : SaveEdit(n)
  BY <1>1, <1>4, <1>8 DEF IntervalSync, Hello, SaveEdit, StartSaver
<1>9. ASSUME NEW record, Unwrap("opener", record), At("opener", "key") \/ At("opener", "put")
      PROVE  BarredIsRefused'
  <2>1. work["opener"].engine = current /\ current \in Engines /\ ~barred[current] /\ current # 0
    BY <1>1, <1>9 DEF BarredIsRefused, At, Engines
  <2>2. CASE SetCrypto(work["opener"].engine) /\ Go("opener", "probe")
    <3>1. work'["opener"] = [step |-> "probe", engine |-> work["opener"].engine]
      BY <1>1, <2>2, GoFacts DEF Steps
    <3>2. work'["opener"].engine = current /\ current' = current /\ barred' = [barred EXCEPT ![current] = FALSE]
      BY <2>1, <2>2, <3>1 DEF SetCrypto
    <3> QED BY <1>1, <2>1, <3>2 DEF BarredIsRefused
  <2>3. CASE Bar(work["opener"].engine) /\ Go("opener", "refused")
    <3>1. /\ work'["opener"] = [step |-> "refused", engine |-> current] /\ current' = current
          /\ barred' = [barred EXCEPT ![current] = TRUE]
      BY <1>1, <2>1, <2>3, GoFacts DEF Bar, Steps
    <3> QED BY <1>1, <2>1, <3>1 DEF BarredIsRefused, At
  <2> QED BY <1>9, <2>2, <2>3 DEF Unwrap
<1>10. CASE FetchKey \/ StoreKey
  <2>1. \/ \E record : Unwrap("opener", record) /\ (At("opener", "key") \/ At("opener", "put"))
        \/ /\ UNCHANGED <<barred, current>> /\ At("opener", "key")
           /\ \E s \in Steps : Go("opener", s)
    BY <1>10 DEF FetchKey, StoreKey, Steps
  <2> QED BY <1>1, <1>3, <1>9, <2>1 DEF At
<1>11. CASE KeyRouteFails \/ DeclineSnapshot \/ OpenSnapshotFails \/ RestoreCursor
  <2>1. /\ UNCHANGED <<barred, current>> /\ ~At("opener", "idle") /\ ~At("opener", "refused")
        /\ Fail("opener") \/ \E s \in Steps : Go("opener", s)
    BY <1>11 DEF KeyRouteFails, DeclineSnapshot, OpenSnapshotFails, RestoreCursor, Steps, At
  <2> QED BY <1>1, <1>3, <2>1
<1>12. CASE Probe
  <2>1. /\ UNCHANGED <<barred, current>> /\ ~At("opener", "idle") /\ ~At("opener", "refused")
        /\ \/ Go("opener", "push")
           \/ \E rec : Carry("opener", rec) /\ rec.engine = work["opener"].engine
    BY <1>12 DEF Probe, At
  <2> QED BY <1>1, <1>3, <1>5, <2>1 DEF Steps
<1>13. CASE RestoreSnapshot
  <2>1. /\ UNCHANGED <<barred, current>> /\ ~At("opener", "idle") /\ ~At("opener", "refused")
        /\ \E rec : Carry("opener", rec) /\ rec.engine = work["opener"].engine
    BY <1>13 DEF RestoreSnapshot, RestoreImage, At
  <2> QED BY <1>1, <1>5, <2>1
<1>14. ASSUME NEW w \in Worker, Syncing(w) PROVE BarredIsRefused'
  <2>1. /\ UNCHANGED <<barred, current>> /\ ~At(w, "idle") /\ ~At(w, "refused")
        /\ \/ Finish(w) \/ \E s \in Steps : Go(w, s)
           \/ \E rec : Carry(w, rec) /\ rec.engine = work[w].engine
    BY <1>14 DEF Syncing, PushBegin, TakeUnsent, Submit, PullBegin, FetchPage, ApplyPage, UploadSnapshot, Steps, At
  <2> QED BY <1>3, <1>5, <2>1
<1>15. CASE LiveFrame \/ Elsewhere
  BY <1>15, BarredKept DEF LiveFrame, Elsewhere, OtherStoresKey, OtherUploads, OtherCommits
<1> QED
  BY <1>2, <1>6, <1>7, <1>8, <1>10, <1>11, <1>12, <1>13, <1>14, <1>15
  DEF SealedNext, Opening, SelectWorkspace

\* While every worker is outside, only these steps are left.
LEMMA OutsideSteps ==
  ASSUME SealedTypeOK, BarredIsRefused, Outside, SealedNext, current' = current
  PROVE  \/ WorkspaceOpened \/ IntervalSync \/ Hello \/ LiveFrame \/ Elsewhere
         \/ \E n \in Place : SaveEdit(n)
         \/ \E w \in Worker \ {"opener"} : PushBegin(w) \/ PullBegin(w)
<1>1. /\ \A w \in Worker : work[w].step \in {"idle", "refused", "push", "pull"}
      /\ current \in 0..MaxEngines /\ MaxEngines \in Nat /\ "opener" \in Worker
  BY SealedAssumption DEF Outside, SealedTypeOK, Worker
<1>2. ~Opening
  BY <1>1 DEF Opening, FetchKey, StoreKey, KeyRouteFails, Probe, DeclineSnapshot, OpenSnapshotFails,
              RestoreSnapshot, RestoreCursor, At
<1>3. ~SelectWorkspace
  BY <1>1 DEF SelectWorkspace, Select
<1>4. work["opener"].step \in {"idle", "refused"}
  BY <1>1 DEF BarredIsRefused, Outside, At
<1>5. \A w \in Worker : Syncing(w) => w # "opener" /\ (PushBegin(w) \/ PullBegin(w))
  BY <1>1, <1>4 DEF Syncing, PushBegin, TakeUnsent, Submit, PullBegin, FetchPage, ApplyPage, UploadSnapshot, At
<1> QED BY <1>2, <1>3, <1>5 DEF SealedNext

(* While the engine is barred and every worker is still before its test, no cursor moves,
   no image and no edit of this client goes out, and every worker stays outside. *)
THEOREM LockedStaysOut == SealedSpec => LockedKeepsOut
<1> DEFINE Kept == /\ Outside' /\ cursor' = cursor /\ (image' # image => work' = work)
                   /\ \A i \in Len(relayLog) + 1 .. Len(relayLog') : relayLog'[i].edit \notin recorded
<1>1. SealedTypeOK /\ Stamped /\ BarredIsRefused /\ [SealedNext]_sealedVars
        => [Outside /\ current' = current => Kept]_sealedVars
  <2> SUFFICES ASSUME SealedTypeOK, Stamped, BarredIsRefused, SealedNext, Outside, current' = current
               PROVE  Kept
    BY DEF sealedVars
  <2>1. /\ work \in [Worker -> Doing] /\ Len(relayLog) \in Nat
        /\ "opener" \in Worker /\ "saver" \in Worker /\ "reader" \in Worker
    BY LogFacts DEF SealedTypeOK, Worker
  <2>2. \A i : i \in Len(relayLog) + 1 .. Len(relayLog) => FALSE
    BY <2>1
  <2>3. ASSUME UNCHANGED <<relayLog, image, cursor, barred>>, NEW w \in Worker, NEW rec, Carry(w, rec),
               rec.step \in {"idle", "push", "pull"}, rec.step # "idle" => rec.engine = current
        PROVE  Kept
    <3>1. work'[w] = rec /\ \A v \in Worker : v # w => work'[v] = work[v]
      BY <2>1, <2>3 DEF Carry
    <3>2. Outside'
      BY <2>3, <3>1 DEF Outside, At
    <3> QED BY <2>2, <2>3, <3>2
  <2>4. CASE WorkspaceOpened
    BY <2>1, <2>3, <2>4 DEF WorkspaceOpened, Fail, Idle, relayRows, engineVars
  <2>5. CASE IntervalSync \/ Hello \/ \E n \in Place : SaveEdit(n)
    <3>1. /\ UNCHANGED <<relayLog, image, cursor, barred>>
          /\ \E w \in Worker, s \in {"push", "pull"} : Carry(w, [step |-> s, engine |-> current])
      BY <2>1, <2>5 DEF IntervalSync, Hello, SaveEdit, StartSaver, relayRows, engineVars
    <3> QED BY <2>3, <3>1
  <2>6. ASSUME NEW w \in Worker \ {"opener"}, PushBegin(w) \/ PullBegin(w) PROVE Kept
    <3>1. work[w].engine = current /\ barred[current]
      BY <2>6 DEF Outside, PushBegin, PullBegin, At
    <3>2. UNCHANGED <<relayLog, image, cursor, barred>>
      BY <2>6 DEF PushBegin, PullBegin, relayRows, engineVars
    <3>3. Carry(w, [step |-> "pull", engine |-> current]) \/ Carry(w, Idle)
      BY <2>6, <3>1 DEF PushBegin, PullBegin, Go, Finish, Fail
    <3> QED BY <2>3, <3>2, <3>3 DEF Idle
  <2>7. CASE LiveFrame \/ OtherStoresKey \/ \E sealed \in BOOLEAN : OtherUploads(sealed)
    <3>1. UNCHANGED <<relayLog, cursor, barred, work>>
      BY <2>7 DEF LiveFrame, OtherStoresKey, OtherUploads, relayRows, engineVars
    <3>2. Outside'
      BY <3>1 DEF Outside, At
    <3> QED BY <2>2, <3>1, <3>2
  <2>8. ASSUME NEW n \in Place, NEW sealed \in BOOLEAN, OtherCommits(n, sealed) PROVE Kept
    <3> DEFINE x == [edit |-> [node |-> n, stamp |-> stamped + 1], sealed |-> sealed]
    <3>1. relayLog' = Append(relayLog, x) /\ x.edit.stamp = stamped + 1 /\ UNCHANGED <<image, cursor, barred, work>>
      BY <2>8 DEF OtherCommits, engineVars
    <3>2. Outside'
      BY <3>1 DEF Outside, At
    <3>3. ASSUME NEW i \in Len(relayLog) + 1 .. Len(relayLog') PROVE relayLog'[i].edit \notin recorded
      <4>1. relayLog'[i] = x
        <5> HIDE DEF x
        <5> QED BY <2>1, <3>1, <3>3 DEF SealedTypeOK
      <4>2. x.edit \notin recorded
        BY <3>1 DEF Stamped, SealedTypeOK
      <4> QED BY <4>1, <4>2
    <3> QED BY <3>1, <3>2, <3>3
  <2> QED
    BY <2>4, <2>5, <2>6, <2>7, <2>8, OutsideSteps DEF Elsewhere
<1>2. SealedSpec => []BarredIsRefused
  BY SealedReached, BarredInit, BarredStep, PTL DEF SealedSpec
<1> HIDE DEF Kept
<1>3. SealedSpec => [][Outside /\ current' = current => Kept]_sealedVars
  BY <1>1, <1>2, SealedReached, PTL DEF SealedSpec
<1> QED BY <1>3 DEF LockedKeepsOut, Kept

-----------------------------------------------------------------------------
(* The query builder: what a row holds after any number of controls, so that the
   prune need only look at what can still be half typed. *)
Sound(c) ==
  /\ Shaped(c)
  /\ c.type = "member" =>
       /\ c.op \in {"exists", "not-exists"} => c.family \notin {"root", "referencePath"}
       /\ c.op = "exact" => c.target.mode = "ids"
  /\ c.type = "property" /\ c.op = "within" => c.period # Missing
  /\ c.type = "date" =>
       /\ c.op = "within" => c.period # Missing
       /\ c.op # "between" => c.from # "" /\ c.to # ""
       /\ c.op \in {"between", "within"} => c.timestamp # ""
  /\ c.type = "nodeField" => c.value # "" /\ ConditionCompiles(c)

SoundRows(rows) ==
  /\ rows = [x \in DOMAIN rows |-> Row(rows[x].in, rows[x])]
  /\ Nests(rows)
  /\ \A x \in DOMAIN rows : Sound(rows[x].body)

SoundDraft(draft) == draft = DraftOf(draft.logic, draft.rows) /\ SoundRows(draft.rows)

Runs(c) == (ConditionParses(c) /\ ConditionCompiles(c)) \/ Slips(c)

(* A second Apply, with nothing edited, changes nothing. *)
AppliedIsSettled == ~open /\ written => DraftOrFactory(root) = root

(* A token written elsewhere may be unreadable; what is open or was written here is a
   tree of sound rows. *)
BuilderInv ==
  /\ open \in BOOLEAN /\ written \in BOOLEAN
  /\ IF open \/ written THEN SoundDraft(root) ELSE root \in Tokens
  /\ AppliedIsSettled /\ AppliedQueryRuns

IsChild(child) == child = [neg |-> child.neg, body |-> child.body]

LEMMA Children ==
  ASSUME NEW b
  PROVE  /\ IsChild(Plain(b)) /\ Plain(b).body = b
         /\ IsChild(NotOf(b)) /\ NotOf(b).body = b
  BY DEF Plain, NotOf, IsChild

\* What makes a record of each type sound.
LEMMA GroupSound == ASSUME NEW logic PROVE Sound(GroupOf(logic))
<1> DEFINE c == GroupOf(logic)
<1>1. c.type = "group" /\ c = GroupOf(c.logic)
  BY DEF GroupOf
<1> HIDE DEF c
<1> QED BY <1>1 DEF Sound, Shaped, c

LEMMA TextSound == ASSUME NEW type \in {"content", "name"}, NEW o, NEW v PROVE Sound(Text(type, o, v))
<1> DEFINE c == Text(type, o, v)
<1>1. c.type = type /\ c = Text(c.type, c.op, c.value)
  BY DEF Text
<1> HIDE DEF c
<1> QED BY <1>1 DEF Sound, Shaped, c

LEMMA PropertySound ==
  ASSUME NEW schema, NEW o, NEW v, NEW f, NEW t, NEW p, o = "within" => p # Missing
  PROVE  Sound(Property(schema, o, v, f, t, p))
<1> DEFINE c == Property(schema, o, v, f, t, p)
<1>1. c.type = "property" /\ c = Property(c.schema, c.op, c.value, c.from, c.to, c.period) /\ c.op = o /\ c.period = p
  BY DEF Property
<1> HIDE DEF c
<1> QED BY <1>1 DEF Sound, Shaped, c

LEMMA DateSound ==
  ASSUME NEW field, NEW o, NEW v, NEW f, NEW t, NEW p,
         o = "within" => p # Missing,
         o # "between" => f # "" /\ t # "",
         o \in {"between", "within"} => v # ""
  PROVE  Sound(Date(field, o, v, f, t, p))
<1> DEFINE c == Date(field, o, v, f, t, p)
<1>1. /\ c.type = "date" /\ c = Date(c.field, c.op, c.timestamp, c.from, c.to, c.period)
      /\ c.op = o /\ c.timestamp = v /\ c.from = f /\ c.to = t /\ c.period = p
  BY DEF Date
<1> HIDE DEF c
<1> QED BY <1>1 DEF Sound, Shaped, c

LEMMA NodeFieldSound ==
  ASSUME NEW field, NEW o, NEW v, v # "",
         field = "isClass" => o = "eq" /\ v \in {"true", "false"},
         field # "isClass" => (o # "exists" => v # Missing)
  PROVE  Sound(NodeField(field, o, v))
<1> DEFINE c == NodeField(field, o, v)
<1>1. /\ c.type = "nodeField" /\ c = NodeField(c.field, c.op, c.value)
      /\ c.field = field /\ c.op = o /\ c.value = v
  BY DEF NodeField
<1> HIDE DEF c
<1>2. ConditionCompiles(c)
  BY <1>1, Zenon DEF ConditionCompiles
<1> QED BY <1>1, <1>2 DEF Sound, Shaped, c

LEMMA MemberSound ==
  ASSUME NEW family, NEW o \in {"in", "not-in", "exact", "exists", "not-exists"}, NEW target,
         \/ o \in {"exists", "not-exists"} /\ target = NoTarget /\ family \notin {"root", "referencePath"}
         \/ target.mode = "ids" /\ target = Ids(target.ids)
              /\ (o \in {"exists", "not-exists"} => family \notin {"root", "referencePath"})
         \/ o \in {"in", "not-in"} /\ target = Self
         \/ o \in {"in", "not-in"} /\ target.mode = "query" /\ target = Nested(target.logic)
  PROVE  Sound(Member(family, o, target))
<1> DEFINE c == Member(family, o, target)
<1>1. /\ c.type = "member" /\ c = Member(c.family, c.op, c.target)
      /\ c.family = family /\ c.op = o /\ c.target = target
  BY DEF Member
<1> HIDE DEF c
<1>2. Shaped(c)
  BY <1>1 DEF Shaped, HasTarget
<1>3. o \in {"exists", "not-exists"} => family \notin {"root", "referencePath"}
  OBVIOUS
<1> QED BY <1>1, <1>2, <1>3 DEF Sound, c

\* Each row the add menu makes.
LEMMA FreshSound ==
  ASSUME NEW child \in FreshChildren
  PROVE  IsChild(child) /\ Sound(child.body)
<1>1. CASE child \in {Plain(Member(f, "in", Ids({}))) : f \in Family}
  <2>1. PICK f \in Family : child = Plain(Member(f, "in", Ids({})))
    BY <1>1
  <2>2. Ids({}).mode = "ids" /\ Ids({}) = Ids(Ids({}).ids)
    BY DEF Ids
  <2>3. Sound(Member(f, "in", Ids({})))
    BY <2>2, MemberSound
  <2> QED BY <2>1, <2>3, Children
<1>2. CASE child \in {Plain(NodeField("isClass", "eq", "true")), Plain(NodeField("coverAsset", "exists", Missing))}
  <2>1. Sound(NodeField("isClass", "eq", "true"))
    BY NodeFieldSound
  <2>2. Sound(NodeField("coverAsset", "exists", Missing))
    BY NodeFieldSound DEF Missing
  <2> QED BY <1>2, <2>1, <2>2, Children
<1>3. CASE child = Plain(Text("content", "contains", ""))
  <2>1. Sound(Text("content", "contains", ""))
    BY TextSound
  <2> QED BY <1>3, <2>1, Children
<1>4. CASE child = Plain(Property("", "eq", "", Missing, Missing, Missing))
  <2>1. Sound(Property("", "eq", "", Missing, Missing, Missing))
    BY PropertySound
  <2> QED BY <1>4, <2>1, Children
<1>5. CASE child = Plain(Date("created", "after", "", Missing, Missing, Missing))
  <2>1. Sound(Date("created", "after", "", Missing, Missing, Missing))
    BY DateSound DEF Missing
  <2> QED BY <1>5, <2>1, Children
<1>6. CASE child \in {Plain(GroupOf("and")), Plain(GroupOf("or")), NotOf(GroupOf("and"))}
  BY <1>6, Children, GroupSound
<1> QED BY <1>1, <1>2, <1>3, <1>4, <1>5, <1>6 DEF FreshChildren

\* The operator column, family by family.
LEMMA MemberPicks ==
  ASSUME NEW c, Sound(c), c.type = "member", NEW op \in OperatorOptions(c),
         NEW child, child = MemberOperator(c, op)
  PROVE  IsChild(child) /\ Sound(child.body)
<1> DEFINE target == IF HasTarget(c) THEN c.target ELSE Ids({})
           inOp == IF c.op = "not-exists" THEN "not-in" ELSE "in"
<1>1. \/ target.mode = "ids" /\ target = Ids(target.ids)
      \/ target = Self
      \/ target.mode = "query" /\ target = Nested(target.logic)
  BY DEF Sound, Shaped, HasTarget, Ids, NoTarget, GroupOf, Member, Text, Property, Date, NodeField
<1>2. ASSUME NEW o \in {"in", "not-in"} PROVE Sound(Member(c.family, o, target))
  <2> HIDE DEF target
  <2> QED BY <1>1, <1>2, MemberSound
<1>3. CASE op = "set"
  <2>1. c.family \notin {"root", "referencePath"}
    BY <1>3 DEF OperatorOptions, Positives, Negatives
  <2>2. child = Plain(Member(c.family, "exists", NoTarget))
    BY <1>3 DEF MemberOperator, Positives, Negatives
  <2>3. Sound(Member(c.family, "exists", NoTarget))
    BY <2>1, MemberSound
  <2> QED BY <2>2, <2>3, Children
<1>4. CASE op = "not-set"
  <2>1. c.family \notin {"root", "referencePath"}
    BY <1>4 DEF OperatorOptions, Positives, Negatives
  <2>2. child = Plain(Member(c.family, "not-exists", NoTarget))
    BY <1>4 DEF MemberOperator, Positives, Negatives
  <2>3. Sound(Member(c.family, "not-exists", NoTarget))
    BY <2>1, MemberSound
  <2> QED BY <2>2, <2>3, Children
<1>5. CASE op \in Positives(c.family)
  <2>1. child = Plain(Member(c.family, inOp, target))
    BY <1>5 DEF MemberOperator, Positives, Negatives
  <2> QED BY <1>2, <2>1, Children
<1>6. CASE op \in Negatives(c.family)
  <2>1. child = Plain(Member(c.family, "not-in", target))
    BY <1>6 DEF MemberOperator, Positives, Negatives
  <2> QED BY <1>2, <2>1, Children
<1> QED BY <1>3, <1>4, <1>5, <1>6 DEF OperatorOptions, SetBits

LEMMA TextPicks ==
  ASSUME NEW c, c.type \in {"content", "name"}, NEW op \in OperatorOptions(c),
         NEW child, child = TextOperator(c, op)
  PROVE  IsChild(child) /\ Sound(child.body)
<1>1. op \in {"is", "is-not", "contains", "not-contains", "starts", "ends", "fts", "set", "not-set"}
  BY DEF OperatorOptions, SetBits
<1>2. \E o, v : child \in {Plain(Text(c.type, o, v)), NotOf(Text(c.type, o, v))}
  BY <1>1 DEF TextOperator
<1>3. PICK o, v : child \in {Plain(Text(c.type, o, v)), NotOf(Text(c.type, o, v))}
  BY <1>2
<1> QED BY <1>3, Children, TextSound

LEMMA DatePicks ==
  ASSUME NEW c, c.type = "date", NEW op \in OperatorOptions(c), NEW child, child = DateOperator(c, op)
  PROVE  IsChild(child) /\ Sound(child.body)
<1>1. op \in {"is", "is-not", "gt", "gte", "lt", "lte", "between", "within"}
  BY DEF OperatorOptions
<1>2. CASE op \notin {"between", "within"}
  <2>1. \E o \in {"eq", "gt", "gte", "lt", "lte"} : \E v :
          child \in {Plain(Date(c.field, o, v, Missing, Missing, Missing)), NotOf(Date(c.field, o, v, Missing, Missing, Missing))}
    BY <1>1, <1>2 DEF DateOperator
  <2>2. PICK o \in {"eq", "gt", "gte", "lt", "lte"} : \E v :
          child \in {Plain(Date(c.field, o, v, Missing, Missing, Missing)), NotOf(Date(c.field, o, v, Missing, Missing, Missing))}
    BY <2>1
  <2>3. PICK v : child \in {Plain(Date(c.field, o, v, Missing, Missing, Missing)),
                            NotOf(Date(c.field, o, v, Missing, Missing, Missing))}
    BY <2>2
  <2>4. Missing # ""
    BY DEF Missing
  <2>5. Sound(Date(c.field, o, v, Missing, Missing, Missing))
    BY <2>4, DateSound
  <2> QED BY <2>3, <2>5, Children
<1>3. CASE op = "between"
  <2>1. \E v, w : child = Plain(Date(c.field, "between", Missing, v, w, Missing))
    BY <1>3 DEF DateOperator
  <2>2. PICK v, w : child = Plain(Date(c.field, "between", Missing, v, w, Missing))
    BY <2>1
  <2>3. Missing # ""
    BY DEF Missing
  <2>4. Sound(Date(c.field, "between", Missing, v, w, Missing))
    BY <2>3, DateSound
  <2> QED BY <2>2, <2>4, Children
<1>4. CASE op = "within"
  <2>1. \E p : p # Missing /\ child = Plain(Date(c.field, "within", Missing, Missing, Missing, p))
    BY <1>4 DEF DateOperator, Or, Missing
  <2>2. PICK p : p # Missing /\ child = Plain(Date(c.field, "within", Missing, Missing, Missing, p))
    BY <2>1
  <2>3. Missing # ""
    BY DEF Missing
  <2>4. Sound(Date(c.field, "within", Missing, Missing, Missing, p))
    BY <2>2, <2>3, DateSound
  <2> QED BY <2>2, <2>4, Children
<1> QED BY <1>1, <1>2, <1>3, <1>4

LEMMA PropertyPicks ==
  ASSUME NEW c, c.type = "property", NEW op \in OperatorOptions(c), NEW child, child = PropertyOperator(c, op)
  PROVE  IsChild(child) /\ Sound(child.body)
<1>1. op \in {"eq", "neq", "contains", "not-contains", "gt", "gte", "lt", "lte", "between", "within", "set", "not-set"}
  BY DEF OperatorOptions, PropertyOptions, Comparisons, SetBits
<1>2. \E o, v, f, t, p :
        /\ o = "within" => p # Missing
        /\ child \in {Plain(Property(c.schema, o, v, f, t, p)), NotOf(Property(c.schema, o, v, f, t, p))}
  <2>1. CASE op = "within"
    BY <2>1 DEF PropertyOperator, Or, Missing
  <2>2. CASE op = "between"
    BY <2>2 DEF PropertyOperator
  <2>3. CASE op \in {"set", "not-set", "not-contains"}
    BY <2>3 DEF PropertyOperator
  <2>4. CASE op \in {"eq", "neq", "contains", "gt", "gte", "lt", "lte"}
    BY <2>4 DEF PropertyOperator
  <2> QED BY <1>1, <2>1, <2>2, <2>3, <2>4
<1>3. PICK o, v, f, t, p :
        /\ o = "within" => p # Missing
        /\ child \in {Plain(Property(c.schema, o, v, f, t, p)), NotOf(Property(c.schema, o, v, f, t, p))}
  BY <1>2
<1> QED BY <1>3, Children, PropertySound

\* What a control may change of each record.
LEMMA Updates ==
  ASSUME NEW c, Shaped(c), NEW v
  PROVE  /\ c.type = "member" => [c EXCEPT !.target = v] = Member(c.family, c.op, v)
         /\ c.type \in {"content", "name"} => [c EXCEPT !.value = v] = Text(c.type, c.op, v)
         /\ c.type = "property" =>
              /\ [c EXCEPT !.value = v] = Property(c.schema, c.op, v, c.from, c.to, c.period)
              /\ [c EXCEPT !.from = v] = Property(c.schema, c.op, c.value, v, c.to, c.period)
              /\ [c EXCEPT !.to = v] = Property(c.schema, c.op, c.value, c.from, v, c.period)
              /\ [c EXCEPT !.period = v] = Property(c.schema, c.op, c.value, c.from, c.to, v)
         /\ c.type = "date" =>
              /\ [c EXCEPT !.timestamp = v] = Date(c.field, c.op, v, c.from, c.to, c.period)
              /\ [c EXCEPT !.from = v] = Date(c.field, c.op, c.timestamp, v, c.to, c.period)
              /\ [c EXCEPT !.to = v] = Date(c.field, c.op, c.timestamp, c.from, v, c.period)
              /\ [c EXCEPT !.period = v] = Date(c.field, c.op, c.timestamp, c.from, c.to, v)
         /\ c.type = "nodeField" => [c EXCEPT !.value = v] = NodeField(c.field, c.op, v)
         /\ c.type = "group" => [c EXCEPT !.logic = v] = GroupOf(v)
<1>1. /\ c.type = "member" => c = Member(c.family, c.op, c.target)
      /\ c.type \in {"content", "name"} => c = Text(c.type, c.op, c.value)
      /\ c.type = "property" => c = Property(c.schema, c.op, c.value, c.from, c.to, c.period)
      /\ c.type = "date" => c = Date(c.field, c.op, c.timestamp, c.from, c.to, c.period)
      /\ c.type = "nodeField" => c = NodeField(c.field, c.op, c.value)
      /\ c.type = "group" => c = GroupOf(c.logic)
  BY DEF Shaped
<1>2. CASE c.type = "member"
  BY <1>1, <1>2 DEF Member
<1>3. CASE c.type \in {"content", "name"}
  BY <1>1, <1>3 DEF Text
<1>4. CASE c.type = "property"
  BY <1>1, <1>4 DEF Property
<1>5. CASE c.type = "date"
  BY <1>1, <1>5 DEF Date
<1>6. CASE c.type = "nodeField"
  BY <1>1, <1>6 DEF NodeField
<1>7. CASE c.type = "group"
  BY <1>1, <1>7 DEF GroupOf
<1> QED BY <1>2, <1>3, <1>4, <1>5, <1>6, <1>7

LEMMA TypesOf ==
  ASSUME NEW c, Shaped(c)
  PROVE  c.type \in {"group", "member", "content", "name", "property", "date", "nodeField"}
  BY DEF Shaped

LEMMA PickSound ==
  ASSUME NEW row, Sound(row.body), ~IsGroup(row.body), NEW child \in PickOperator(row)
  PROVE  IsChild(child) /\ Sound(child.body)
<1> DEFINE c == row.body
<1>1. PICK op \in OperatorOptions(c) : child = ApplyOperator(c, op)
  BY DEF PickOperator
<1>2. c.type \in {"member", "content", "name", "property", "date", "nodeField"}
  BY TypesOf DEF Sound, IsGroup
<1> HIDE DEF c
<1>3. CASE c.type = "member"
  <2>1. child = MemberOperator(c, op)
    BY <1>1, <1>3, Zenon DEF ApplyOperator
  <2> QED BY <1>3, <2>1, MemberPicks DEF c
<1>4. CASE c.type \in {"content", "name"}
  <2>1. child = TextOperator(c, op)
    BY <1>1, <1>4, Zenon DEF ApplyOperator
  <2> QED BY <1>4, <2>1, TextPicks
<1>5. CASE c.type = "date"
  <2>1. child = DateOperator(c, op)
    BY <1>1, <1>5, Zenon DEF ApplyOperator
  <2> QED BY <1>5, <2>1, DatePicks
<1>6. CASE c.type = "property"
  <2>1. child = PropertyOperator(c, op)
    BY <1>1, <1>6, Zenon DEF ApplyOperator
  <2> QED BY <1>6, <2>1, PropertyPicks
<1>7. CASE c.type = "nodeField"
  <2>1. child = [neg |-> op = "not-exists", body |-> c]
    BY <1>1, <1>7, Zenon DEF ApplyOperator
  <2> QED BY <2>1 DEF c, IsChild
<1> QED BY <1>2, <1>3, <1>4, <1>5, <1>6, <1>7

LEMMA MemberEdits ==
  ASSUME NEW c, Sound(c), c.type = "member", NEW e \in Chips(c) \cup ModeSwitches(c)
  PROVE  Sound(e)
<1>1. c.op \in {"in", "not-in", "exact", "exists", "not-exists"}
  BY DEF Sound, Shaped
<1>2. ASSUME NEW s PROVE Sound(Member(c.family, c.op, Ids(s)))
  <2>1. Ids(s).mode = "ids" /\ Ids(s) = Ids(Ids(s).ids)
    BY DEF Ids
  <2>2. c.op \in {"exists", "not-exists"} => c.family \notin {"root", "referencePath"}
    BY DEF Sound
  <2> QED BY <1>1, <2>1, <2>2, MemberSound
<1>3. CASE e \in Chips(c)
  <2>1. \E s : e = [c EXCEPT !.target = Ids(s)]
    BY <1>3 DEF Chips
  <2>2. PICK s : e = [c EXCEPT !.target = Ids(s)]
    BY <2>1
  <2>3. [c EXCEPT !.target = Ids(s)] = Member(c.family, c.op, Ids(s))
    BY Updates DEF Sound
  <2> QED BY <1>2, <2>2, <2>3
<1>4. ASSUME NEW mode \in {"manual", "query", "self"} PROVE Sound(TargetMode(c, mode))
  <2>1. PICK o \in {"in", "not-in"} : TargetMode(c, mode) =
          Member(c.family, o, CASE mode = "query" -> Nested("and") [] mode = "self" -> Self [] mode = "manual" -> Ids({}))
    BY Zenon DEF TargetMode
  <2>2. CASE mode = "query"
    <3>1. TargetMode(c, mode) = Member(c.family, o, Nested("and"))
      BY <2>1, <2>2, Zenon
    <3>2. Nested("and").mode = "query" /\ Nested("and") = Nested(Nested("and").logic)
      BY DEF Nested
    <3> QED BY <3>1, <3>2, MemberSound
  <2>3. CASE mode = "self"
    <3>1. TargetMode(c, mode) = Member(c.family, o, Self)
      BY <2>1, <2>3, Zenon
    <3> QED BY <3>1, MemberSound
  <2>4. CASE mode = "manual"
    <3>1. TargetMode(c, mode) = Member(c.family, o, Ids({}))
      BY <2>1, <2>4, Zenon
    <3>2. Ids({}).mode = "ids" /\ Ids({}) = Ids(Ids({}).ids)
      BY DEF Ids
    <3> QED BY <3>1, <3>2, MemberSound
  <2> QED BY <2>2, <2>3, <2>4
<1>5. CASE e \in ModeSwitches(c)
  <2>1. e = c \/ \E mode \in {"manual", "query", "self"} : e = TargetMode(c, mode)
    BY <1>5, Zenon DEF ModeSwitches
  <2> QED BY <1>4, <2>1
<1> QED BY <1>3, <1>5

LEMMA PropertyEdits ==
  ASSUME NEW c, Sound(c), c.type = "property", NEW e \in SchemaPicks(c) \cup PropertyValues(c)
  PROVE  Sound(e)
<1>1. Shaped(c) /\ (c.op = "within" => c.period # Missing)
  BY DEF Sound
<1>2. CASE e \in SchemaPicks(c)
  <2>1. \E schema, v : e = Property(schema, "eq", v, Missing, Missing, Missing)
    BY <1>2 DEF SchemaPicks
  <2> QED BY <2>1, PropertySound
<1>3. CASE e \in PropertyValues(c) /\ c.op = "within"
  <2>1. e = [c EXCEPT !.period = "this_week"]
    BY <1>3 DEF PropertyValues
  <2>2. e = Property(c.schema, c.op, c.value, c.from, c.to, "this_week")
    BY <1>1, <1>3, <2>1, Updates
  <2>3. "this_week" # Missing
    BY DEF Missing
  <2> QED BY <2>2, <2>3, PropertySound
<1>4. CASE e \in PropertyValues(c) /\ c.op # "within"
  <2>1. \E v : e \in {[c EXCEPT !.value = v], [c EXCEPT !.from = v], [c EXCEPT !.to = v],
                      Property(c.schema, "eq", v, Missing, Missing, Missing)}
    <3>1. \/ e \in {[c EXCEPT !.from = v] : v \in Typed} \cup {[c EXCEPT !.to = v] : v \in Typed}
          \/ e \in {Property(c.schema, "eq", v, Missing, Missing, Missing) :
                     v \in {"True", "False"} \ {IF c.value = "True" THEN "True" ELSE "False"}}
          \/ e \in {[c EXCEPT !.value = v] : v \in Typed}
      BY <1>4 DEF PropertyValues
    <3> QED BY <3>1
  <2>2. PICK v : e \in {[c EXCEPT !.value = v], [c EXCEPT !.from = v], [c EXCEPT !.to = v],
                        Property(c.schema, "eq", v, Missing, Missing, Missing)}
    BY <2>1
  <2>3. /\ [c EXCEPT !.value = v] = Property(c.schema, c.op, v, c.from, c.to, c.period)
        /\ [c EXCEPT !.from = v] = Property(c.schema, c.op, c.value, v, c.to, c.period)
        /\ [c EXCEPT !.to = v] = Property(c.schema, c.op, c.value, c.from, v, c.period)
    BY <1>1, Updates
  <2>4. \E o, w, f, t, p : o # "within" /\ e = Property(c.schema, o, w, f, t, p)
    BY <1>4, <2>2, <2>3
  <2> QED BY <2>4, PropertySound
<1> QED BY <1>2, <1>3, <1>4

LEMMA DateEdits ==
  ASSUME NEW c, Sound(c), c.type = "date", NEW e \in DateValues(c)
  PROVE  Sound(e)
<1>1. /\ Shaped(c)
      /\ c.op = "within" => c.period # Missing
      /\ c.op # "between" => c.from # "" /\ c.to # ""
      /\ c.op \in {"between", "within"} => c.timestamp # ""
  BY DEF Sound
<1>2. CASE c.op = "within"
  <2>1. e = [c EXCEPT !.period = "this_week"]
    BY <1>2, Zenon DEF DateValues
  <2>2. e = Date(c.field, c.op, c.timestamp, c.from, c.to, "this_week")
    BY <1>1, <2>1, Updates, ZenonT(30)
  <2>3. "this_week" # Missing
    BY DEF Missing
  <2> QED BY <1>1, <1>2, <2>2, <2>3, DateSound
<1>3. CASE c.op = "between"
  <2>1. e \in {[c EXCEPT !.from = v] : v \in Typed} \cup {[c EXCEPT !.to = v] : v \in Typed}
    BY <1>3, Zenon DEF DateValues
  <2>2. PICK v \in Typed : e = [c EXCEPT !.from = v] \/ e = [c EXCEPT !.to = v]
    BY <2>1
  <2>3. \E f, t : e = Date(c.field, c.op, c.timestamp, f, t, c.period)
    <3>1. /\ [c EXCEPT !.from = v] = Date(c.field, c.op, c.timestamp, v, c.to, c.period)
          /\ [c EXCEPT !.to = v] = Date(c.field, c.op, c.timestamp, c.from, v, c.period)
      BY <1>1, Updates
    <3> QED BY <2>2, <3>1
  <2> QED BY <1>1, <1>3, <2>3, DateSound
<1>4. CASE c.op \notin {"within", "between"}
  <2>1. e \in {[c EXCEPT !.timestamp = v] : v \in Typed}
    BY <1>4, Zenon DEF DateValues
  <2>2. ASSUME NEW v PROVE [c EXCEPT !.timestamp = v] = Date(c.field, c.op, v, c.from, c.to, c.period)
    BY <1>1, Updates
  <2>3. \E v : e = Date(c.field, c.op, v, c.from, c.to, c.period)
    BY <2>1, <2>2
  <2> QED BY <1>1, <1>4, <2>3, DateSound
<1> QED BY <1>2, <1>3, <1>4

LEMMA ValueSound ==
  ASSUME NEW c, Sound(c), ~IsGroup(c), NEW e \in ValueEdits(c)
  PROVE  Sound(e)
<1>1. c.type \in {"member", "content", "name", "property", "date", "nodeField"}
  BY TypesOf DEF Sound, IsGroup
<1>2. CASE c.type = "member"
  <2>1. e \in Chips(c) \cup ModeSwitches(c)
    BY <1>2, Zenon DEF ValueEdits
  <2> QED BY <1>2, <2>1, MemberEdits
<1>3. CASE c.type \in {"content", "name"}
  <2>1. e \in {[c EXCEPT !.value = v] : v \in Typed}
    BY <1>3, Zenon DEF ValueEdits
  <2>2. PICK v \in Typed : e = [c EXCEPT !.value = v]
    BY <2>1
  <2>3. e = Text(c.type, c.op, v)
    BY <1>3, <2>2, Updates DEF Sound
  <2> QED BY <1>3, <2>3, TextSound
<1>4. CASE c.type = "property"
  <2>1. e \in SchemaPicks(c) \cup PropertyValues(c)
    BY <1>4, Zenon DEF ValueEdits
  <2> QED BY <1>4, <2>1, PropertyEdits
<1>5. CASE c.type = "date"
  <2>1. e \in DateValues(c)
    BY <1>5, Zenon DEF ValueEdits
  <2> QED BY <1>5, <2>1, DateEdits
<1>6. CASE c.type = "nodeField"
  <2>1. e \in IF c.field = "isClass" THEN {[c EXCEPT !.value = IF c.value = "true" THEN "false" ELSE "true"]} ELSE {}
    BY <1>6, Zenon DEF ValueEdits
  <2>2. PICK v \in {"true", "false"} : c.field = "isClass" /\ e = [c EXCEPT !.value = v]
    BY <2>1
  <2>3. e = NodeField(c.field, c.op, v)
    BY <1>6, <2>2, Updates, ZenonT(30) DEF Sound
  <2>4. c.op = "eq"
    <3>1. ConditionCompiles(c)
      BY <1>6 DEF Sound
    <3> QED BY <1>6, <2>2, <3>1, Zenon DEF ConditionCompiles
  <2>5. e = NodeField("isClass", "eq", v)
    BY <2>2, <2>3, <2>4
  <2>6. Sound(NodeField("isClass", "eq", v))
    BY NodeFieldSound
  <2> QED BY <2>5, <2>6
<1> QED BY <1>1, <1>2, <1>3, <1>4, <1>5, <1>6

LEMMA LogicSound ==
  ASSUME NEW c, Sound(c), Holds(c)
  PROVE  Sound(LogicEdit(c)) /\ Holds(LogicEdit(c))
<1>1. CASE IsGroup(c)
  <2>1. LogicEdit(c) = GroupOf(Flip(c.logic))
    <3>1. c = GroupOf(c.logic)
      BY <1>1 DEF Sound, Shaped, IsGroup
    <3> QED BY <1>1, <3>1 DEF LogicEdit, GroupOf
  <2>2. IsGroup(LogicEdit(c))
    BY <2>1 DEF GroupOf, IsGroup
  <2> QED BY <2>1, <2>2, GroupSound DEF Holds
<1>2. CASE ~IsGroup(c)
  <2>1. c.type = "member" /\ c.target.mode = "query"
    BY <1>2 DEF Holds, IsQuery
  <2>2. c = Member(c.family, c.op, c.target) /\ c.op \in {"in", "not-in"}
    <3>1. NoTarget.mode # "query" /\ Self.mode # "query"
      BY DEF NoTarget, Self, Missing
    <3>2. c = Member(c.family, c.op, c.target) /\ HasTarget(c)
      BY <2>1, <3>1 DEF Sound, Shaped
    <3> QED BY <2>1, <3>2 DEF Sound, HasTarget
  <2> DEFINE target == Nested(Flip(c.target.logic))
  <2>3. target.mode = "query" /\ target = Nested(target.logic)
    BY DEF Nested
  <2>4. LogicEdit(c) = Member(c.family, c.op, target)
    BY <1>2, <2>2 DEF LogicEdit, Member
  <2> HIDE DEF target
  <2>5. Sound(LogicEdit(c))
    BY <2>2, <2>3, <2>4, MemberSound
  <2>6. IsQuery(LogicEdit(c))
    BY <2>3, <2>4 DEF Member, IsQuery
  <2> QED BY <2>5, <2>6 DEF Holds
<1> QED BY <1>1, <1>2

\* Any control of a sound row leaves a sound row.
LEMMA ControlSound ==
  ASSUME NEW row, Sound(row.body), NEW child \in ChildEdits(row)
  PROVE  IsChild(child) /\ Sound(child.body)
<1>1. CASE child \in Exclude(row)
  BY <1>1 DEF Exclude, IsChild
<1>2. CASE Holds(row.body) /\ child = [neg |-> row.neg, body |-> LogicEdit(row.body)]
  BY <1>2, LogicSound DEF IsChild
<1>3. CASE ~IsGroup(row.body) /\ child \in PickOperator(row)
  BY <1>3, PickSound
<1>4. CASE ~IsGroup(row.body) /\ child \in {[neg |-> row.neg, body |-> c] : c \in ValueEdits(row.body)}
  BY <1>4, ValueSound DEF IsChild
<1> QED BY <1>1, <1>2, <1>3, <1>4 DEF ChildEdits

-----------------------------------------------------------------------------
(* The rows stay a tree of sound rows whatever is added, removed or replaced. *)
LEMMA RowFields ==
  ASSUME NEW in, NEW child
  PROVE  /\ Row(in, child).in = in /\ Row(in, child).neg = child.neg /\ Row(in, child).body = child.body
         /\ Row(in, Row(in, child)) = Row(in, child)
  BY DEF Row

LEMMA AddSound ==
  ASSUME NEW rows, SoundRows(rows), NEW new \in FirstUnused(rows), NEW in \in Places(rows), NEW child \in FreshChildren
  PROVE  SoundRows(AddChild(rows, new, in, child))
<1> DEFINE after == AddChild(rows, new, in, child)
<1>1. new \notin DOMAIN rows
  BY DEF FirstUnused
<1>2. DOMAIN after = DOMAIN rows \cup {new} /\ \A x \in DOMAIN rows : after[x] = rows[x]
  BY <1>1 DEF AddChild
<1>3. after[new] = Row(in, child)
  BY DEF AddChild
<1>4. \A x \in DOMAIN after : after[x] = Row(after[x].in, after[x])
  BY <1>2, <1>3, RowFields DEF SoundRows
<1>5. after = [x \in DOMAIN after |-> Row(after[x].in, after[x])]
  <2>1. after = [x \in DOMAIN after |-> after[x]]
    BY DEF AddChild
  <2> HIDE DEF after
  <2> QED BY <1>4, <2>1
<1>6. \A q \in in : q \in DOMAIN rows /\ Holds(rows[q].body) /\ rows[q].in \subseteq in
  BY DEF Places, SoundRows, Nests
<1>7. Nests(after)
  <2> HIDE DEF after
  <2> QED BY <1>1, <1>2, <1>3, <1>6, RowFields DEF Nests, SoundRows
<1>8. \A x \in DOMAIN after : Sound(after[x].body)
  <2> HIDE DEF after
  <2> QED BY <1>2, <1>3, RowFields, FreshSound DEF SoundRows
<1> QED BY <1>5, <1>7, <1>8 DEF SoundRows

LEMMA RemoveSound ==
  ASSUME NEW rows, SoundRows(rows), NEW x \in DOMAIN rows
  PROVE  SoundRows(RemoveChild(rows, x))
<1> DEFINE after == RemoveChild(rows, x)
<1>1. DOMAIN after = DOMAIN rows \ ({x} \cup Below(rows, x)) /\ \A y \in DOMAIN after : after[y] = rows[y]
  BY DEF RemoveChild, Restrict
<1>2. after = [y \in DOMAIN after |-> after[y]]
  BY DEF RemoveChild, Restrict
<1> HIDE DEF after
<1>3. \A y \in DOMAIN after : after[y] = Row(after[y].in, after[y]) /\ Sound(after[y].body)
  BY <1>1 DEF SoundRows
<1>4. Nests(after)
  BY <1>1 DEF Nests, SoundRows, Below
<1>5. after = [y \in DOMAIN after |-> Row(after[y].in, after[y])]
  BY <1>2, <1>3
<1> QED BY <1>3, <1>4, <1>5 DEF SoundRows, after

LEMMA ReplaceSound ==
  ASSUME NEW rows, SoundRows(rows), NEW x \in DOMAIN rows, NEW child \in ChildEdits(rows[x])
  PROVE  SoundRows(ReplaceChild(rows, x, child))
<1> DEFINE after == ReplaceChild(rows, x, child)
<1>1. IsChild(child) /\ Sound(child.body)
  BY ControlSound DEF SoundRows
<1>2. DOMAIN after = (IF Holds(child.body) THEN DOMAIN rows ELSE DOMAIN rows \ Below(rows, x))
  BY DEF ReplaceChild
<1>3. x \notin Below(rows, x)
  BY DEF Below, SoundRows, Nests
<1>4. x \in DOMAIN after /\ after[x] = Row(rows[x].in, child)
  BY <1>2, <1>3 DEF ReplaceChild
<1>5. \A y \in DOMAIN after \ {x} : after[y] = rows[y]
  BY DEF ReplaceChild
<1>6. after = [y \in DOMAIN after |-> after[y]]
  BY DEF ReplaceChild
<1> HIDE DEF after
<1>7. DOMAIN after \subseteq DOMAIN rows
  BY <1>2
<1>8. ASSUME NEW y \in DOMAIN after PROVE after[y] = Row(after[y].in, after[y]) /\ Sound(after[y].body)
  BY <1>1, <1>4, <1>5, <1>7, RowFields DEF SoundRows
<1>9. \A y \in DOMAIN after : after[y].in = rows[y].in
  BY <1>4, <1>5, RowFields
<1>10. Nests(after)
  <2> SUFFICES ASSUME NEW y \in DOMAIN after, NEW q \in after[y].in
               PROVE  q \in DOMAIN after \ {y} /\ Holds(after[q].body) /\ after[q].in \subseteq after[y].in
    BY DEF Nests
  <2>1. q \in rows[y].in /\ q \in DOMAIN rows \ {y} /\ Holds(rows[q].body) /\ rows[q].in \subseteq rows[y].in
    BY <1>7, <1>9 DEF SoundRows, Nests
  <2>2. q \in DOMAIN after
    BY <1>2, <2>1 DEF Below
  <2>3. CASE q = x
    <3>1. Holds(child.body)
      BY <1>2, <2>1, <2>3 DEF Below
    <3> QED BY <1>4, <1>9, <2>1, <2>2, <2>3, <3>1, RowFields
  <2>4. CASE q # x
    BY <1>5, <1>9, <2>1, <2>2, <2>4
  <2> QED BY <2>3, <2>4
<1>11. after = [y \in DOMAIN after |-> Row(after[y].in, after[y])]
  BY <1>6, <1>8
<1> QED BY <1>8, <1>10, <1>11 DEF SoundRows, after

LEMMA DraftFields ==
  ASSUME NEW logic, NEW rows
  PROVE  DraftOf(logic, rows).logic = logic /\ DraftOf(logic, rows).rows = rows
  BY DEF DraftOf

LEMMA SoundDraftOf ==
  ASSUME NEW logic, NEW rows, SoundRows(rows)
  PROVE  SoundDraft(DraftOf(logic, rows))
  BY DraftFields DEF SoundDraft

LEMMA EmptySound ==
  /\ SoundDraft(EmptyDraft) /\ DOMAIN EmptyDraft.rows = {}
<1>1. EmptyDraft.rows = << >>
  BY DraftFields DEF EmptyDraft
<1>2. SoundRows(<< >>)
  <2>1. DOMAIN << >> = {} /\ << >> = [x \in {} |-> Row(<< >>[x].in, << >>[x])]
    OBVIOUS
  <2> QED BY <2>1 DEF SoundRows, Nests
<1> QED BY <1>1, <1>2, SoundDraftOf DEF EmptyDraft

LEMMA EditSound ==
  ASSUME SoundDraft(root), EditDraft
  PROVE  SoundDraft(root') /\ UNCHANGED <<open, written>>
<1>1. SoundRows(root.rows) /\ root = DraftOf(root.logic, root.rows)
  BY DEF SoundDraft
<1>2. ASSUME NEW rows, root' = [root EXCEPT !.rows = rows], SoundRows(rows) PROVE SoundDraft(root')
  <2>1. root' = DraftOf(root.logic, rows)
    BY <1>1, <1>2 DEF DraftOf
  <2> QED BY <1>2, <2>1, SoundDraftOf
<1>3. CASE root' = [root EXCEPT !.logic = Flip(@)]
  <2>1. root' = DraftOf(Flip(root.logic), root.rows)
    BY <1>1, <1>3 DEF DraftOf
  <2> QED BY <1>1, <2>1, SoundDraftOf DEF EditDraft
<1>4. CASE \E new \in FirstUnused(root.rows), in \in Places(root.rows), child \in FreshChildren :
             root' = [root EXCEPT !.rows = AddChild(@, new, in, child)]
  <2>1. PICK new \in FirstUnused(root.rows), in \in Places(root.rows), child \in FreshChildren :
             root' = [root EXCEPT !.rows = AddChild(root.rows, new, in, child)]
    BY <1>4
  <2> QED BY <1>1, <1>2, <2>1, AddSound DEF EditDraft
<1>5. CASE \E x \in DOMAIN root.rows : root' = [root EXCEPT !.rows = RemoveChild(@, x)]
  <2>1. PICK x \in DOMAIN root.rows : root' = [root EXCEPT !.rows = RemoveChild(root.rows, x)]
    BY <1>5
  <2> QED BY <1>1, <1>2, <2>1, RemoveSound DEF EditDraft
<1>6. CASE \E x \in DOMAIN root.rows : \E child \in ChildEdits(root.rows[x]) :
             root' = [root EXCEPT !.rows = ReplaceChild(@, x, child)]
  <2>1. PICK x \in DOMAIN root.rows : \E child \in ChildEdits(root.rows[x]) :
             root' = [root EXCEPT !.rows = ReplaceChild(root.rows, x, child)]
    BY <1>6
  <2>2. PICK child \in ChildEdits(root.rows[x]) : root' = [root EXCEPT !.rows = ReplaceChild(root.rows, x, child)]
    BY <2>1
  <2> QED BY <1>1, <1>2, <2>2, ReplaceSound DEF EditDraft
<1> QED BY <1>3, <1>4, <1>5, <1>6 DEF EditDraft

\* A condition that was read and compiles is sound, whoever wrote it.
LEMMA ReadIsSound ==
  ASSUME NEW c, Shaped(c), ~IsGroup(c), ConditionParses(c), ConditionCompiles(c)
  PROVE  Sound(c)
<1>1. CASE c.type = "member"
  <2>1. c.op \in {"exists", "not-exists"} => c.family \notin {"root", "referencePath"}
    BY <1>1, Zenon DEF ConditionCompiles
  <2>2. c.op = "exact" => c.target.mode = "ids"
    BY <1>1, Zenon DEF ConditionParses
  <2> QED BY <1>1, <2>1, <2>2 DEF Sound
<1>2. CASE c.type \in {"content", "name"}
  BY <1>2 DEF Sound
<1>3. CASE c.type = "property"
  <2>1. c.op = "within" => c.period # Missing
    BY <1>3, Zenon DEF ConditionCompiles
  <2> QED BY <1>3, <2>1 DEF Sound
<1>4. CASE c.type = "date"
  <2>1. "" \notin {c.timestamp, c.from, c.to}
    BY <1>4, Zenon DEF ConditionParses
  <2>2. c.op = "within" => c.period # Missing
    BY <1>4, Zenon DEF ConditionCompiles
  <2> QED BY <1>4, <2>1, <2>2 DEF Sound
<1>5. CASE c.type = "nodeField"
  <2>1. c.value # ""
    BY <1>5, Zenon DEF ConditionParses
  <2> QED BY <1>5, <2>1 DEF Sound
<1> QED BY <1>1, <1>2, <1>3, <1>4, <1>5, TypesOf DEF IsGroup

LEMMA TokenSound ==
  ASSUME NEW token \in Tokens, Parses(token)
  PROVE  SoundDraft(token)
<1> DEFINE rows == [x \in DOMAIN token.rows |-> Row(token.rows[x].in, token.rows[x])]
<1>1. IsDraft(token) /\ Compiles(token)
  BY BuilderAssumption
<1>2. token = DraftOf(token.logic, rows)
  BY <1>1 DEF IsDraft
<1>3. token.rows = rows
  <2> HIDE DEF rows
  <2> QED BY <1>2, DraftFields
<1>4. ASSUME NEW x \in DOMAIN token.rows PROVE Sound(token.rows[x].body)
  <2>1. CASE IsGroup(token.rows[x].body)
    BY <1>1, <2>1 DEF IsDraft, Sound, IsGroup
  <2>2. CASE ~IsGroup(token.rows[x].body)
    <3>1. token.rows[x].body \in Conditions(token)
      BY <2>2 DEF Conditions
    <3> QED BY <1>1, <2>2, <3>1, ReadIsSound DEF IsDraft, Parses, Compiles
  <2> QED BY <2>1, <2>2
<1>5. SoundRows(token.rows)
  BY <1>1, <1>3, <1>4 DEF SoundRows, IsDraft
<1>6. token = DraftOf(token.logic, token.rows)
  <2> HIDE DEF rows
  <2> QED BY <1>2, <1>3
<1> QED BY <1>5, <1>6 DEF SoundDraft

-----------------------------------------------------------------------------
(* Apply. *)
LEMMA DumpedSound ==
  ASSUME NEW c, Sound(c)
  PROVE  /\ Sound(Dumped(c)) /\ (Holds(c) => Dumped(c) = c)
         /\ Filled(c) => Filled(Dumped(c))
         /\ IsGroup(Dumped(c)) <=> IsGroup(c)
         /\ Dumped(Dumped(c)) = Dumped(c)
<1>1. CASE ~(c.type = "member" /\ ~HasTarget(c))
  BY <1>1 DEF Dumped
<1>2. CASE c.type = "member" /\ ~HasTarget(c)
  <2>1. Dumped(c) = Member(c.family, c.op, NoTarget)
    <3>1. [c EXCEPT !.target = NoTarget] = Member(c.family, c.op, NoTarget)
      BY <1>2, Updates DEF Sound
    <3> QED BY <1>2, <3>1 DEF Dumped
  <2>2. c.op \in {"exists", "not-exists"}
    BY <1>2 DEF Sound, Shaped, HasTarget
  <2>3. Sound(Member(c.family, c.op, NoTarget))
    <3>1. c.family \notin {"root", "referencePath"}
      BY <1>2, <2>2 DEF Sound
    <3> QED BY <2>2, <3>1, MemberSound
  <2>4. ~Holds(c)
    <3>1. c.target = NoTarget \/ c.target.mode = "ids"
      BY <1>2 DEF Sound, Shaped
    <3>2. NoTarget.mode # "query"
      BY DEF NoTarget, Missing
    <3> QED BY <1>2, <3>1, <3>2 DEF Holds, IsGroup, IsQuery
  <2>5. Dumped(c).type = "member" /\ ~HasTarget(Dumped(c)) /\ Dumped(c).target.mode = Missing
    BY <2>1, <2>2 DEF Member, HasTarget, NoTarget
  <2>6. Filled(Dumped(c))
    <3>1. ConditionFilled(Dumped(c))
      BY <2>5, Zenon DEF ConditionFilled
    <3>2. ~Holds(Dumped(c))
      BY <2>5 DEF Holds, IsGroup, IsQuery, Missing
    <3> QED BY <3>1, <3>2 DEF Filled
  <2>7. ~IsGroup(Dumped(c)) /\ ~IsGroup(c)
    BY <1>2, <2>5 DEF IsGroup
  <2>8. Dumped(Dumped(c)) = Dumped(c)
    <3> DEFINE m == Member(c.family, c.op, NoTarget)
    <3>1. m.type = "member" /\ ~HasTarget(m) /\ [m EXCEPT !.target = NoTarget] = m
      BY <2>2 DEF Member, HasTarget
    <3> HIDE DEF m
    <3>2. Dumped(m) = m
      BY <3>1 DEF Dumped
    <3> QED BY <2>1, <3>2 DEF m
  <2> QED BY <2>1, <2>3, <2>4, <2>6, <2>7, <2>8
<1> QED BY <1>1, <1>2

\* A sound condition that the prune keeps can be read and run, or slips.
LEMMA FilledRuns ==
  ASSUME NEW c, Sound(c), ~IsGroup(c), Filled(c) \/ IsQuery(c)
  PROVE  Runs(c)
<1>1. CASE c.type = "member"
  <2>1. c.op \in {"in", "not-in", "exact", "exists", "not-exists"}
    BY <1>1 DEF Sound, Shaped
  <2>2. ConditionCompiles(c)
    <3>1. c.op \in {"exists", "not-exists"} => c.family \notin {"root", "referencePath"}
      BY <1>1 DEF Sound
    <3> QED BY <1>1, <3>1, Zenon DEF ConditionCompiles
  <2>3. CASE c.op \in {"exists", "not-exists"}
    <3>1. ConditionParses(c)
      BY <1>1, <2>3, Zenon DEF ConditionParses
    <3> QED BY <2>2, <3>1 DEF Runs
  <2>4. CASE c.op \in {"in", "not-in"}
    <3>1. c.target.mode = "ids" => c.target.ids # {}
      <4>1. CASE Filled(c)
        <5>1. c.target.mode = "self" \/ c.target.ids # {}
          BY <1>1, <2>4, <4>1, Zenon DEF Filled, ConditionFilled, HasTarget
        <5> QED BY <5>1
      <4>2. CASE IsQuery(c)
        BY <4>2 DEF IsQuery
      <4> QED BY <4>1, <4>2
    <3>2. ConditionParses(c)
      BY <1>1, <2>4, <3>1, Zenon DEF ConditionParses
    <3> QED BY <2>2, <3>2 DEF Runs
  <2>5. CASE c.op = "exact"
    <3>1. c.target.mode = "ids" /\ c.target = Ids(c.target.ids)
      <4>1. c.target.mode = "ids"
        BY <1>1, <2>5 DEF Sound
      <4>2. NoTarget.mode # "ids" /\ Self.mode # "ids"
        BY DEF NoTarget, Self, Missing
      <4> QED BY <1>1, <2>5, <4>1, <4>2 DEF Sound, Shaped
    <3>2. CASE \E x \in Pick : c.target.ids = {x}
      <4>1. ConditionParses(c)
        BY <1>1, <2>5, <3>1, <3>2, Zenon DEF ConditionParses
      <4> QED BY <2>2, <4>1 DEF Runs
    <3>3. CASE ~\E x \in Pick : c.target.ids = {x}
      <4>1. ~\E x \in Pick : c.target = Ids({x})
        <5>1. \A x \in Pick : Ids({x}).ids = {x}
          BY DEF Ids
        <5> QED BY <3>3, <5>1
      <4> QED BY <1>1, <2>5, <4>1 DEF Runs, Slips
    <3> QED BY <3>2, <3>3
  <2> QED BY <2>1, <2>3, <2>4, <2>5
<1>2. CASE c.type \in {"content", "name"}
  <2>1. c.op = "exists" \/ Or(c.value, "") \notin Blank
    <3>1. ConditionFilled(c)
      BY <1>2 DEF Filled, IsQuery
    <3> QED BY <1>2, <3>1, Zenon DEF ConditionFilled
  <2>2. c.op # "exists" => c.value # "" /\ c.value # Missing
    BY <2>1 DEF Or, Blank, Missing
  <2>3. CASE c.op = "exists" /\ c.value = ""
    BY <1>2, <2>3 DEF Runs, Slips
  <2>4. CASE c.type = "content" /\ c.op = "fts" /\ c.value = Marks
    BY <2>4 DEF Runs, Slips
  <2>5. CASE c.value # "" /\ ~(c.type = "content" /\ c.op = "fts" /\ c.value = Marks)
    <3>1. ConditionParses(c)
      BY <1>2, <2>5, Zenon DEF ConditionParses
    <3>2. CASE c.type = "content"
      <4>1. ConditionCompiles(c)
        BY <2>2, <2>5, <3>2, Zenon DEF ConditionCompiles
      <4> QED BY <3>1, <4>1 DEF Runs
    <3>3. CASE c.type = "name"
      <4>1. ConditionCompiles(c)
        BY <2>2, <2>5, <3>3, Zenon DEF ConditionCompiles
      <4> QED BY <3>1, <4>1 DEF Runs
    <3> QED BY <1>2, <3>2, <3>3
  <2> QED BY <2>2, <2>3, <2>4, <2>5
<1>3. CASE c.type = "property"
  <2>1. c.schema # "" /\ (c.op = "between" => c.from # Missing /\ c.to # Missing)
    <3>1. ConditionFilled(c)
      BY <1>3 DEF Filled, IsQuery
    <3> QED BY <1>3, <3>1, Zenon DEF ConditionFilled
  <2>2. ConditionParses(c)
    BY <1>3, <2>1, Zenon DEF ConditionParses
  <2>3. CASE c.op = "between"
    <3>1. ConditionCompiles(c)
      BY <1>3, <2>1, <2>3, Zenon DEF ConditionCompiles
    <3> QED BY <2>2, <3>1 DEF Runs
  <2>4. CASE c.op = "within"
    <3>1. c.period # Missing
      BY <1>3, <2>4 DEF Sound
    <3>2. ConditionCompiles(c)
      BY <1>3, <2>4, <3>1, Zenon DEF ConditionCompiles
    <3> QED BY <2>2, <3>2 DEF Runs
  <2>5. CASE c.op \notin {"between", "within"} /\ (c.op = "exists" \/ c.value # Missing)
    <3>1. c.op # "between" /\ c.op # "within"
      BY <2>5
    <3>2. ConditionCompiles(c)
      BY <1>3, <2>5, <3>1, Zenon DEF ConditionCompiles
    <3> QED BY <2>2, <3>2 DEF Runs
  <2>6. CASE c.op \notin {"exists", "between", "within"} /\ c.value = Missing
    BY <1>3, <2>6 DEF Runs, Slips
  <2> QED BY <2>3, <2>4, <2>5, <2>6
<1>4. CASE c.type = "date"
  <2>1. ConditionFilled(c)
    BY <1>4 DEF Filled, IsQuery
  <2>2. /\ c.op = "within" => c.period # Missing
        /\ c.op # "between" => c.from # "" /\ c.to # ""
        /\ c.op \in {"between", "within"} => c.timestamp # ""
    BY <1>4 DEF Sound
  <2>3. CASE c.op = "between"
    <3>1. Or(c.from, "") \notin Blank /\ Or(c.to, "") \notin Blank
      BY <1>4, <2>1, <2>3, Zenon DEF ConditionFilled
    <3>2. c.from # "" /\ c.to # "" /\ c.from # Missing /\ c.to # Missing /\ c.timestamp # ""
      BY <2>2, <2>3, <3>1 DEF Or, Blank, Missing
    <3>3. ConditionParses(c)
      BY <1>4, <3>2, Zenon DEF ConditionParses
    <3>4. ConditionCompiles(c)
      BY <1>4, <2>3, <3>2, Zenon DEF ConditionCompiles
    <3> QED BY <3>3, <3>4 DEF Runs
  <2>4. CASE c.op = "within"
    <3>1. ConditionParses(c)
      <4>1. c.from # "" /\ c.to # "" /\ c.timestamp # ""
        BY <2>2, <2>4
      <4> QED BY <1>4, <4>1, Zenon DEF ConditionParses
    <3>2. ConditionCompiles(c)
      BY <1>4, <2>2, <2>4, Zenon DEF ConditionCompiles
    <3> QED BY <3>1, <3>2 DEF Runs
  <2>5. CASE c.op # "between" /\ c.op # "within"
    <3>1. Or(c.timestamp, "") \notin Blank
      BY <1>4, <2>1, <2>5, Zenon DEF ConditionFilled
    <3>2. c.timestamp # "" /\ c.timestamp # Missing
      BY <3>1 DEF Or, Blank, Missing
    <3>3. ConditionParses(c)
      <4>1. c.from # "" /\ c.to # ""
        BY <2>2, <2>5
      <4> QED BY <1>4, <3>2, <4>1, Zenon DEF ConditionParses
    <3>4. ConditionCompiles(c)
      BY <1>4, <2>5, <3>2, Zenon DEF ConditionCompiles
    <3> QED BY <3>3, <3>4 DEF Runs
  <2> QED BY <2>3, <2>4, <2>5
<1>5. CASE c.type = "nodeField"
  <2>1. c.value # "" /\ ConditionCompiles(c)
    BY <1>5 DEF Sound
  <2>2. ConditionParses(c)
    BY <1>5, <2>1, Zenon DEF ConditionParses
  <2> QED BY <2>1, <2>2 DEF Runs
<1> QED BY <1>1, <1>2, <1>3, <1>4, <1>5, TypesOf DEF Sound, IsGroup

\* What Apply writes is a sound tree that a second Apply leaves as it is.
LEMMA ApplySound ==
  ASSUME NEW draft, SoundDraft(draft), NEW after, after = DraftOrFactory(draft)
  PROVE  /\ SoundDraft(after) /\ DraftOrFactory(after) = after
         /\ \A c \in Conditions(after) : Runs(c)
<1> DEFINE kept == Survivors(draft.rows)
           rows == [x \in kept |-> [draft.rows[x] EXCEPT !.body = Dumped(@)]]
<1>1. CASE kept = {}
  <2>1. after = EmptyDraft
    BY <1>1 DEF DraftOrFactory
  <2>2. DOMAIN after.rows = {}
    BY <2>1, EmptySound
  <2>3. Survivors(after.rows) = {} /\ Conditions(after) = {}
    BY <2>2 DEF Survivors, Conditions
  <2> QED BY <2>1, <2>3, EmptySound DEF DraftOrFactory
<1>2. CASE kept # {}
  <2>1. after = DraftOf(draft.logic, rows)
    BY <1>2 DEF DraftOrFactory
  <2>2. after.rows = rows
    BY <2>1, DraftFields
  <2>3. SoundRows(draft.rows) /\ kept \subseteq DOMAIN draft.rows
    BY DEF SoundDraft, Survivors
  <2>4. ASSUME NEW x \in kept
        PROVE  rows[x] = Row(draft.rows[x].in, rows[x]) /\ rows[x].in = draft.rows[x].in
               /\ rows[x].body = Dumped(draft.rows[x].body)
    <3>1. draft.rows[x] = Row(draft.rows[x].in, draft.rows[x])
      BY <2>3 DEF SoundRows
    <3> QED BY <3>1 DEF Row
  <2>5. DOMAIN rows = kept /\ rows = [x \in DOMAIN rows |-> rows[x]]
    OBVIOUS
  <2> HIDE DEF rows
  <2>6. rows = [x \in DOMAIN rows |-> Row(rows[x].in, rows[x])]
    BY <2>4, <2>5
  <2>7. \A x \in kept : Sound(draft.rows[x].body) /\ Sound(rows[x].body)
    BY <2>3, <2>4, DumpedSound DEF SoundRows
  <2>8. ASSUME NEW x \in kept
        PROVE  \E y \in kept : x \in {y} \cup draft.rows[y].in /\ Filled(draft.rows[y].body)
    BY DEF Survivors
  <2>9. Nests(rows)
    <3> SUFFICES ASSUME NEW x \in kept, NEW q \in rows[x].in
                 PROVE  q \in kept \ {x} /\ Holds(rows[q].body) /\ rows[q].in \subseteq rows[x].in
      BY <2>5 DEF Nests
    <3>1. /\ q \in DOMAIN draft.rows \ {x} /\ Holds(draft.rows[q].body)
          /\ draft.rows[q].in \subseteq draft.rows[x].in /\ q \in draft.rows[x].in
      BY <2>3, <2>4 DEF SoundRows, Nests
    <3>2. PICK y \in kept : x \in {y} \cup draft.rows[y].in /\ Filled(draft.rows[y].body)
      BY <2>8
    <3>3. q \in draft.rows[y].in
      BY <2>3, <3>1, <3>2 DEF SoundRows, Nests
    <3>4. q \in kept
      BY <2>3, <3>1, <3>2, <3>3 DEF Survivors
    <3>5. Holds(rows[q].body)
      BY <2>4, <2>7, <3>1, <3>4, DumpedSound
    <3> QED BY <2>4, <3>1, <3>4, <3>5
  <2>10. SoundDraft(after)
    BY <2>1, <2>5, <2>6, <2>7, <2>9, SoundDraftOf DEF SoundRows
  <2>11. Survivors(rows) = kept
    <3>1. ASSUME NEW x \in kept PROVE \E y \in kept : x \in {y} \cup rows[y].in /\ Filled(rows[y].body)
      <4>1. PICK y \in kept : x \in {y} \cup draft.rows[y].in /\ Filled(draft.rows[y].body)
        BY <2>8
      <4>2. Filled(rows[y].body)
        BY <2>4, <2>7, <4>1, DumpedSound
      <4> QED BY <2>4, <4>1, <4>2
    <3> HIDE DEF kept
    <3> QED BY <2>5, <3>1 DEF Survivors
  <2>12. ASSUME NEW x \in kept, ~IsGroup(rows[x].body) PROVE Runs(rows[x].body)
    <3>1. PICK y \in kept : x \in {y} \cup draft.rows[y].in /\ Filled(draft.rows[y].body)
      BY <2>8
    <3>2. CASE Filled(draft.rows[x].body)
      <4>1. Filled(rows[x].body)
        BY <2>4, <2>7, <3>2, DumpedSound
      <4> QED BY <2>7, <2>12, <4>1, FilledRuns
    <3>3. CASE ~Filled(draft.rows[x].body)
      <4>1. Holds(draft.rows[x].body)
        BY <2>3, <3>1, <3>3 DEF SoundRows, Nests
      <4>2. rows[x].body = draft.rows[x].body
        BY <2>4, <2>7, <4>1, DumpedSound
      <4>3. IsQuery(rows[x].body)
        BY <2>12, <4>1, <4>2 DEF Holds
      <4> QED BY <2>7, <2>12, <4>3, FilledRuns
    <3> QED BY <3>2, <3>3
  <2>13. \A c \in Conditions(after) : Runs(c)
    BY <2>2, <2>5, <2>12 DEF Conditions
  <2>14. DraftOrFactory(after) = after
    <3>1. ASSUME NEW x \in kept PROVE [rows[x] EXCEPT !.body = Dumped(@)] = rows[x]
      <4>1. Dumped(rows[x].body) = rows[x].body
        BY <2>3, <2>4, DumpedSound DEF SoundRows
      <4> QED BY <2>4, <4>1 DEF Row
    <3>2. [x \in kept |-> [rows[x] EXCEPT !.body = Dumped(@)]] = rows
      <4> HIDE DEF kept
      <4> QED BY <2>5, <3>1
    <3>3. after.rows = rows /\ after.logic = draft.logic
      BY <2>1, DraftFields
    <3> HIDE DEF kept
    <3> QED BY <1>2, <2>1, <2>11, <3>2, <3>3 DEF DraftOrFactory
  <2> QED BY <2>10, <2>13, <2>14
<1> QED BY <1>1, <1>2

LEMMA BuilderInitInv == BuilderInit => BuilderInv
  BY DEF BuilderInit, BuilderInv, AppliedQueryRuns, AppliedIsSettled

LEMMA BuilderStep == BuilderInv /\ [BuilderNext]_builderVars => BuilderInv'
<1> SUFFICES ASSUME BuilderInv, [BuilderNext]_builderVars PROVE BuilderInv'
  OBVIOUS
<1>1. CASE OpenBuilder
  <2>1. SoundDraft(root')
    <3>1. CASE ~Parses(root)
      BY <1>1, <3>1, EmptySound DEF OpenBuilder
    <3>2. CASE Parses(root) /\ written
      BY <1>1, <3>2 DEF OpenBuilder, BuilderInv
    <3>3. CASE Parses(root) /\ ~written
      BY <1>1, <3>3, TokenSound DEF OpenBuilder, BuilderInv
    <3> QED BY <3>1, <3>2, <3>3
  <2> QED BY <1>1, <2>1 DEF OpenBuilder, BuilderInv, AppliedIsSettled, AppliedQueryRuns
<1>2. CASE EditDraft
  <2>1. open /\ SoundDraft(root)
    BY <1>2 DEF EditDraft, BuilderInv
  <2>2. SoundDraft(root') /\ UNCHANGED <<open, written>>
    BY <1>2, <2>1, EditSound
  <2> QED BY <2>1, <2>2 DEF BuilderInv, AppliedIsSettled, AppliedQueryRuns
<1>3. CASE ApplyDraft
  <2>1. SoundDraft(root)
    BY <1>3 DEF ApplyDraft, BuilderInv
  <2>2. /\ SoundDraft(root') /\ DraftOrFactory(root') = root'
        /\ \A c \in Conditions(root') : Runs(c)
    BY <1>3, <2>1, ApplySound DEF ApplyDraft
  <2>3. AppliedQueryRuns'
    BY <2>2 DEF AppliedQueryRuns, Runs
  <2> QED BY <1>3, <2>2, <2>3 DEF ApplyDraft, BuilderInv, AppliedIsSettled
<1>4. CASE UNCHANGED builderVars
  BY <1>4 DEF builderVars, BuilderInv, AppliedQueryRuns, AppliedIsSettled
<1> QED BY <1>1, <1>2, <1>3, <1>4 DEF BuilderNext

LEMMA BuilderReached == BuilderSpec => []BuilderInv
  BY BuilderInitInv, BuilderStep, PTL DEF BuilderSpec

(* AppliedQueryRuns, for every set of families, nodes, property types and typed texts,
   any tokens that run if they can be read, and drafts of any size and depth: every
   condition that _on_apply_clicked dumps can be read back and compiled, or is one of
   the four shapes the prune lets through. *)
THEOREM AppliedRuns == BuilderSpec => []AppliedQueryRuns
<1>1. BuilderInv => AppliedQueryRuns
  BY DEF BuilderInv, AppliedQueryRuns
<1> QED BY <1>1, BuilderReached, PTL

(* Applying what the builder wrote, unchanged, writes it again: prune_child and the dump
   are idempotent, and the conditions they drop leave no group or nested query that the
   next prune would drop. *)
THEOREM AppliedSettles == BuilderSpec => []AppliedIsSettled
<1>1. BuilderInv => AppliedIsSettled
  BY DEF BuilderInv
<1> QED BY <1>1, BuilderReached, PTL

(* The rows of an open draft are always a tree: no row stands below one that is gone, or
   below one that no longer holds rows, whatever was removed or re-targeted. *)
THEOREM DraftIsTree == BuilderSpec => [](open => Nests(root.rows))
<1>1. BuilderInv => (open => Nests(root.rows))
  BY DEF BuilderInv, SoundDraft, SoundRows
<1> QED BY <1>1, BuilderReached, PTL
=================================================================================
