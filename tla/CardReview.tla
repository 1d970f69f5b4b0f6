------------------------------ MODULE CardReview ------------------------------
(***************************************************************************)
(* Memorization cards on one device: the hub's buckets, the review session *)
(* and the writes of a grade (ui/window.py, ui/review_session.py,          *)
(* ui/card_ops.py, core/cards.py), while a worker pulls what another       *)
(* device graded.                                                          *)
(*                                                                         *)
(* A card has two records: its schedule, the authored cardDue value (last  *)
(* writer wins), and its history, the card.review rows in clock order.     *)
(* The queue is built from the first, the scheduler reads the second.  A   *)
(* grade stamps its envelopes one by one, cardDue before card.review, and  *)
(* then saves them one by one; the worker's pulls fall in between.  The    *)
(* other fields of the property batch repeat the review's state and are    *)
(* left out, as are the date-chain envelopes in front of it (NodeTree).    *)
(* A restarted device goes on from a clock past what it knew (HlcClock     *)
(* has the case where it does not).                                        *)
(***************************************************************************)
EXTENDS Scheduler, FiniteSets, Sequences, SequencesExt

CONSTANTS
  Card,       \* card ids, numbers in id order
  Heir,       \* those that carry a subclass of card, not card itself
  Pressed,    \* the grades anyone gives
  LastDay,    \* bound on the days
  MaxGrades,  \* bound on this device's grades
  MaxForeign  \* bound on the other device's grades

ASSUME CardsAssumption ==
  /\ Card \subseteq Nat /\ Heir \subseteq Card /\ Pressed \subseteq Grade
  /\ {LastDay, MaxGrades, MaxForeign} \subseteq Nat

VARIABLES
  today,     \* the local date
  algorithm, \* the scheduler the selector or the prefs fetch last set
  status,    \* per card: "card", "plain" (class taken off) or "gone" (no row)
  schedule,  \* per card: the stamp, actor and day of the cardDue value
  history,   \* per card: its card_review rows, each with the cardDue value of its grade
  clock,     \* the newest stamp this device knows
  inbound,   \* the other device's envelopes, not yet pulled, in log order
  hub,       \* the ids behind the hub's Review button
  session,   \* the open dialog, or NoSession
  grading,   \* the grade being written, or NotGrading
  cut,       \* history: the schedule values whose review a crash took
  grades     \* grades written here, and there

deviceVars == <<session, grading, hub>>
recordVars == <<status, schedule, history, cut>>
cardVars == <<today, algorithm, clock, inbound, grades, deviceVars, recordVars>>

NoSession == [queue |-> <<>>, index |-> 1, revealed |-> FALSE, shown |-> Unseen,
              algorithm |-> "fsrs", id |-> 0]

NotGrading == [at |-> "idle"]
NeverDue == [time |-> 0, by |-> 0, day |-> PyNone]

CardsInit ==
  /\ today = 0 /\ algorithm = "fsrs"
  /\ status = [c \in Card |-> "card"]
  /\ schedule = [c \in Card |-> NeverDue]
  /\ history = [c \in Card |-> {}]
  /\ clock = 0 /\ inbound = <<>> /\ hub = <<>> /\ session = NoSession
  /\ grading = NotGrading /\ cut = {}
  /\ grades = [here |-> 0, there |-> 0]

-----------------------------------------------------------------------------
(* The reads. *)

\* The newest row of the history; rows of one clock stamp come in no set order.
LatestStates(rows) ==
  {r.after : r \in {q \in rows : \A p \in rows : p.time <= q.time}}

CardSrsStates(rows) == IF rows = {} THEN {Unseen} ELSE LatestStates(rows)

\* Members of card or of a class that extends it, in id order.
Members == SetToSortSeq({c \in Card : status[c] = "card"}, <)

DueBefore(c, d) ==
  schedule[c].day < schedule[d].day \/ (schedule[c].day = schedule[d].day /\ c < d)

(* Due or overdue by day and id, then those never scheduled in the order given;
   what is due later is not reviewed. *)
ReviewQueue(ids) ==
  SetToSortSeq({c \in ToSet(ids) : schedule[c].day # PyNone /\ schedule[c].day <= today}, DueBefore)
    \o SelectSeq(ids, LAMBDA c : schedule[c].day = PyNone)

\* Wrong on purpose: the state shown for one card stays while the next is up.
RenderedOnce(dialogue, past) ==
  LET there == {i \in dialogue.index .. Len(dialogue.queue) : status[dialogue.queue[i]] # "gone"}
      next == CHOOSE i \in there : \A j \in there : i <= j
  IN  IF there = {} THEN {[dialogue EXCEPT !.index = Len(dialogue.queue) + 1, !.revealed = FALSE]}
      ELSE {[dialogue EXCEPT !.index = next, !.revealed = @ /\ next = dialogue.index]}

(* Show the card at the index, skipping those whose row has vanished, and read
   its state anew from the rows of past; at the end of the queue, the summary. *)
Rendered(dialogue, past) ==
  LET there == {i \in dialogue.index .. Len(dialogue.queue) : status[dialogue.queue[i]] # "gone"}
      next == CHOOSE i \in there : \A j \in there : i <= j
  IN  IF there = {} THEN {[dialogue EXCEPT !.index = Len(dialogue.queue) + 1, !.revealed = FALSE,
                                           !.shown = Unseen]}
      ELSE {[dialogue EXCEPT !.index = next, !.revealed = @ /\ next = dialogue.index,
                             !.shown = state]
              : state \in CardSrsStates(past[dialogue.queue[next]])}

Finished == session.index > Len(session.queue)
Current == session.queue[session.index]

-----------------------------------------------------------------------------
(* The appliers of the two envelopes of a grade. *)

Newer(due, stored) ==
  due.time > stored.time \/ (due.time = stored.time /\ due.by > stored.by)

\* Wrong on purpose: the value that comes last stands.
DueAppliedLast(c, due) ==
  IF status[c] = "card" THEN [schedule EXCEPT ![c] = due] ELSE schedule

\* property.set of cardDue, whose schema is scoped to card and what extends it.
DueApplied(c, due) ==
  IF status[c] = "card" /\ Newer(due, schedule[c])
    THEN [schedule EXCEPT ![c] = due] ELSE schedule

\* card.review wants the card class itself, and only ever adds a row.
ReviewApplied(c, review) ==
  IF status[c] = "card" /\ c \notin Heir
    THEN [history EXCEPT ![c] = @ \cup {review}] ELSE history

-----------------------------------------------------------------------------
\* The selector lies behind the modal dialog, which reads it once when it opens.
SelectAlgorithm ==
  /\ session = NoSession
  /\ algorithm' \in Algorithm \ {algorithm}
  /\ UNCHANGED <<today, clock, inbound, grades, deviceVars, recordVars>>

NextDay ==
  /\ today < LastDay
  /\ today' = today + 1
  /\ UNCHANGED <<algorithm, clock, inbound, grades, deviceVars, recordVars>>

\* After a sync, and when the session closes.
RefreshHub ==
  /\ session = NoSession
  /\ hub' = ReviewQueue(Members)
  /\ UNCHANGED <<today, algorithm, clock, inbound, grades, session, grading, recordVars>>

\* The button hands over the ids of the last refresh; days are read again.
StartReview ==
  /\ session = NoSession /\ hub # <<>> /\ ReviewQueue(hub) # <<>>
  /\ session' \in Rendered([NoSession EXCEPT !.queue = ReviewQueue(hub), !.algorithm = algorithm,
                                             !.id = grades.here + 1], history)
  /\ UNCHANGED <<today, algorithm, clock, inbound, grades, grading, hub, recordVars>>

Reveal ==
  /\ grading = NotGrading /\ ~Finished /\ ~session.revealed
  /\ session' \in Rendered([session EXCEPT !.revealed = TRUE], history)
  /\ UNCHANGED <<today, algorithm, clock, inbound, grades, grading, hub, recordVars>>

-----------------------------------------------------------------------------
(* One click on a grade: one callback of the main loop, in whose course a worker's pulls
   apply and move the clock. *)

\* The state is computed and the first envelope, cardDue, stamped.
GradeCard(grade) ==
  /\ grades.here < MaxGrades /\ grading = NotGrading /\ ~Finished /\ session.revealed
  /\ clock' = clock + 1
  /\ \E after \in NextCardStates(session.shown, grade, session.algorithm, today) :
       grading' = [at |-> "stamp", after |-> after,
                   due |-> [time |-> clock', by |-> 1, day |-> after.due]]
  /\ grades' = [grades EXCEPT !.here = @ + 1]
  /\ UNCHANGED <<today, algorithm, inbound, session, hub, recordVars>>

\* Then the rest of the batch and, last, card.review.
StampReview ==
  /\ grading.at = "stamp"
  /\ clock' = clock + 3   \* room for the two stamps of a foreign grade
  /\ grading' = [at |-> "due", due |-> grading.due,
                 review |-> [time |-> clock', due |-> grading.due, day |-> today,
                             session |-> session.id, algorithm |-> session.algorithm,
                             before |-> session.shown, after |-> grading.after]]
  /\ UNCHANGED <<today, algorithm, inbound, grades, session, hub, recordVars>>

\* A grade counts and the session moves on, whether or not its writes were accepted.
Graded(dialogue) == [dialogue EXCEPT !.index = @ + 1, !.revealed = FALSE]

MoveOn(past) == grading' = NotGrading /\ session' \in Rendered(Graded(session), past)

(* Enqueue and apply; a structural guard that refuses ends the writes with a toast.
   (A crash between enqueue and apply is as one after both: the outbox brings it back.) *)
SaveDue ==
  /\ grading.at = "due"
  /\ schedule' = DueApplied(Current, grading.due)
  /\ \/ /\ status[Current] = "card" /\ UNCHANGED session
        /\ grading' = [at |-> "review", due |-> grading.due, review |-> grading.review]
     \/ status[Current] # "card" /\ MoveOn(history)
  /\ UNCHANGED <<today, algorithm, clock, inbound, grades, hub, status, history, cut>>

(* Once the row is gone the rest of the batch is refused with a toast, but card.review
   fails as not found, which leaves the callback before the session moves on. *)
SaveReview ==
  /\ grading.at = "review"
  /\ history' = ReviewApplied(Current, grading.review)
  /\ \/ MoveOn(history')
     \/ status[Current] = "gone" /\ grading' = NotGrading /\ UNCHANGED session
  /\ UNCHANGED <<today, algorithm, clock, inbound, grades, hub, status, schedule, cut>>

CloseSession ==
  /\ session # NoSession /\ grading = NotGrading
  /\ session' = NoSession
  /\ hub' = ReviewQueue(Members)
  /\ UNCHANGED <<today, algorithm, clock, inbound, grades, grading, recordVars>>

\* The process ends and comes back with what the store holds, the selector as at first.
Crash ==
  /\ session # NoSession
  /\ session' = NoSession /\ grading' = NotGrading /\ hub' = <<>> /\ algorithm' = "fsrs"
  /\ cut' = IF grading.at = "review" THEN cut \cup {grading.due} ELSE cut
  /\ UNCHANGED <<today, clock, inbound, grades, status, schedule, history>>

-----------------------------------------------------------------------------
(* The other device, and the pulls on a worker thread. *)

(* It graded the card as the newest review it had seen left it; its clock is past
   that review, and need not be past this device's. *)
ForeignGrade(c, grade) ==
  /\ grades.there < MaxForeign /\ c \notin Heir
  /\ \E seen \in {[time |-> 0, after |-> Unseen]} \cup history[c] :
       \E begun \in seen.time + 1 .. clock + 1 :
         \E done \in begun + 1 .. clock + 2, after \in NextCardStates(seen.after, grade, algorithm, today) :
           LET due == [time |-> begun, by |-> 0, day |-> after.due]
           IN  inbound' = inbound \o
                 <<[card |-> c, due |-> due],
                   [card |-> c, review |-> [time |-> done, due |-> due, day |-> today, session |-> 0,
                                            algorithm |-> algorithm, before |-> seen.after, after |-> after]]>>
  /\ grades' = [grades EXCEPT !.there = @ + 1]
  /\ UNCHANGED <<today, algorithm, clock, deviceVars, recordVars>>

PullGrade ==
  /\ inbound # <<>>
  /\ LET e == Head(inbound)
     IN  IF "due" \in DOMAIN e
           THEN /\ schedule' = DueApplied(e.card, e.due)
                /\ clock' = Larger(clock, e.due.time)
                /\ UNCHANGED history
           ELSE /\ history' = ReviewApplied(e.card, e.review)
                /\ clock' = Larger(clock, e.review.time)
                /\ UNCHANGED schedule
  /\ inbound' = Tail(inbound)
  /\ UNCHANGED <<today, algorithm, grades, status, cut, deviceVars>>

\* A class.unassign or a permanent delete is pulled; bound: the card does not come back.
Leave(c) ==
  /\ status[c] = "card"
  /\ \E s \in {"plain", "gone"} : status' = [status EXCEPT ![c] = s]
  /\ UNCHANGED <<today, algorithm, clock, inbound, grades, schedule, history, cut, deviceVars>>

CardsNext ==
  \/ SelectAlgorithm \/ NextDay \/ RefreshHub \/ StartReview \/ Reveal \/ CloseSession
  \/ \E grade \in Pressed : GradeCard(grade)
  \/ StampReview \/ SaveDue \/ SaveReview \/ Crash \/ PullGrade
  \/ \E c \in Card, grade \in Pressed : ForeignGrade(c, grade)
  \/ \E c \in Card : Leave(c)

CardsSpec == CardsInit /\ [][CardsNext]_cardVars

-----------------------------------------------------------------------------
\* A grade of c is half pulled, or half saved.
Pending(c) ==
  \/ \E i \in 1 .. Len(inbound) : inbound[i].card = c
  \/ grading.at = "review" /\ Current = c

(* The queue and the scheduler read two records of one card.  Unless a grade is half pulled
   or half saved, or a crash took its review, the schedule tells the day that some review
   of the history left, and of all the reviews the one whose grade was begun last, whichever
   device gave it and in whatever order their envelopes came. *)
ScheduleIsHistory ==
  \A c \in Card \ Heir :
    status[c] = "card" /\ ~Pending(c) /\ schedule[c] \notin cut =>
      IF history[c] = {} THEN schedule[c].day = PyNone
      ELSE \E r \in history[c] : /\ r.due = schedule[c] /\ r.after.due = schedule[c].day
                                 /\ \A q \in history[c] : ~Newer(q.due, r.due)

(* The journal is the twin of the effective properties: the due day of the state that the
   scheduler reads is the schedule's.  It is not when one grade is begun before another
   and done after it: the schedule goes by the first stamp of each, the history by the last. *)
JournalIsTwin ==
  \A c \in Card \ Heir :
    status[c] = "card" /\ ~Pending(c) /\ schedule[c] \notin cut =>
      schedule[c].day \in {state.due : state \in CardSrsStates(history[c])}

(* As long as no other device graded the card, each review starts from the state
   the one before it left: no session grades from a stale or foreign card's state. *)
HistoryChains ==
  \A c \in Card : \A r \in history[c] :
    (\A q \in history[c] : q.session # 0) =>
      LET earlier == {q \in history[c] : q.time < r.time}
      IN  IF earlier = {} THEN r.before = Unseen
          ELSE \E q \in earlier : (\A p \in earlier : p.time <= q.time) /\ r.before = q.after
=============================================================================
