------------------------------- MODULE Scheduler -------------------------------
(***************************************************************************)
(* The two schedulers of core/srs.py over one card state.  Days are        *)
(* numbers, ease is in hundredths.  SM-2 is exact; an FSRS stability is    *)
(* kept as the interval it rounds to, and where the recurrence needs exp   *)
(* and powers the next value is any the formula's sign allows.  FSRS       *)
(* difficulty moves with stability and decides nothing here.               *)
(***************************************************************************)
EXTENDS Integers

CONSTANT MaxStability  \* bound on the rounded FSRS stability

Grade == {"again", "hard", "good", "easy"}
Algorithm == {"sm2", "fsrs"}

\* None of Python; as a due day, "unseen".
PyNone == -1

Unseen == [due |-> PyNone, reps |-> 0, interval |-> 0, ease |-> PyNone, stability |-> PyNone]

InitialEase == 250
EaseFloor == 130

Larger(a, b) == IF a > b THEN a ELSE b

\* 0.1 - (5 - q)(0.08 + (5 - q) 0.02) for the qualities 1, 3, 4, 5, in hundredths.
EaseStep(grade) ==
  CASE grade = "again" -> -54 [] grade = "hard" -> -14
    [] grade = "good" -> 0    [] grade = "easy" -> 10

NextSm2State(state, grade, today) ==
  LET ease == IF state.ease = PyNone THEN InitialEase ELSE state.ease
      interval == CASE grade = "again" \/ state.reps = 0 -> 1
                    [] grade # "again" /\ state.reps = 1 -> 6
                    [] OTHER -> (state.interval * ease + 50) \div 100
  IN  [state EXCEPT !.due = today + interval, !.interval = interval,
                    !.reps = IF grade = "again" THEN 0 ELSE @ + 1,
                    !.ease = Larger(EaseFloor, ease + EaseStep(grade))]

\* The weights 0.40, 1.18, 3.17 and 15.69 of the first review, rounded.
FirstStability(grade) ==
  CASE grade = "again" -> 0 [] grade = "hard" -> 1 [] grade = "good" -> 3
    [] OTHER -> MaxStability

\* Both fields start from the defaults, and the card is seen again the same day.
FirstFsrsState(state, grade, today) ==
  [state EXCEPT !.due = today, !.reps = IF grade = "again" THEN 0 ELSE 1,
                !.interval = 0, !.stability = FirstStability(grade)]

(* On the day of the review the retrievability is 1 and a pass leaves the
   stability as it is; later a pass never lowers it; a lapse may put it anywhere. *)
NextStabilities(state, grade, today) ==
  LET elapsed == state.interval + (IF state.due = PyNone THEN 0 ELSE today - state.due)
  IN  CASE grade = "again" -> 0 .. MaxStability
        [] grade # "again" /\ elapsed <= 0 -> {state.stability}
        [] OTHER -> state.stability .. MaxStability

NextFsrsStates(state, grade, today) ==
  IF state.stability = PyNone
    THEN {FirstFsrsState(state, grade, today)}
    ELSE {[state EXCEPT !.due = today + stability, !.interval = stability,
                        !.reps = IF grade = "again" THEN 0 ELSE @ + 1,
                        !.stability = stability]
            : stability \in NextStabilities(state, grade, today)}

NextCardStates(state, grade, algorithm, today) ==
  IF algorithm = "sm2" THEN {NextSm2State(state, grade, today)}
                       ELSE NextFsrsStates(state, grade, today)
=============================================================================
