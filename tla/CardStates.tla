------------------------------ MODULE CardStates ------------------------------
(***************************************************************************)
(* One card, from new to review and back, across its home decks and two    *)
(* filtered decks, one that reschedules and one that only previews: the    *)
(* state machine of rslib/src/scheduler/states, what an answer writes      *)
(* (scheduler/answering) and the commands that move, park, reposition or   *)
(* reschedule the card while an answer may be on screen.                   *)
(*                                                                         *)
(* A card's due number is a position in the new queue, a day number or a   *)
(* unix timestamp, told apart by its size; in a filtered deck it is the    *)
(* place in that deck, and original_due keeps the number to go back to,    *)
(* with 0 for none. Time is counted in units, DayLen of them to a day;     *)
(* day d lasts from d * DayLen on. Intervals computed from ease or memory  *)
(* state are any number up to MaxInterval, and the few seconds added to a  *)
(* learning step at random are left out.                                   *)
(***************************************************************************)
EXTENDS Integers, Sequences

CONSTANTS
  Homes,          \* the normal decks
  Cram,           \* a filtered deck that reschedules
  Peek,           \* a filtered deck that only previews
  NoDeck,         \* original_deck_id 0
  LearnSteps,     \* home deck -> its learning steps, in units
  RelearnSteps,   \* home deck -> its relearning steps, in units
  DayLen,         \* units in a day
  LastDay,        \* a due number above it is a timestamp: 1 000 000 000
  Launch,         \* the timestamp of moment 0
  FilteredStart,  \* the first place in a filtered deck: -100 000
  MaxInterval,    \* bound: intervals an answer gives
  LeechThreshold, \* leech_threshold of every preset (0: never)
  PreviewDelays,  \* rating -> units until a previewed card comes again
  FsrsModes,      \* the settings of FSRS and its short-term scheduling
  Positions,      \* positions a user may give to a new card
  DueDays,        \* days from today a user may make a card due in
  FirstTime,      \* bound: the moment the history starts at
  LastTime,       \* bound: the last moment of the history
  MaxLapses,      \* bound: lapses of the card
  MaxPosition     \* bound: positions given by shifting

Ratings == {"again", "hard", "good", "easy"}
Inactive == {"Suspended", "Buried"}
Intervals == 1..MaxInterval
NoPosition == -1
NoShow == [wrap |-> "nothing"]

ASSUME ConstantsAssumption ==
  /\ Cram \notin Homes \cup {Peek} /\ Peek \notin Homes
  /\ NoDeck \notin Homes \cup {Cram, Peek}
  /\ LearnSteps \in [Homes -> Seq(Nat)] /\ RelearnSteps \in [Homes -> Seq(Nat)]
  /\ DayLen \in Nat \ {0} /\ MaxInterval \in Nat \ {0} /\ LeechThreshold \in Nat
  /\ LastDay \in Nat /\ Launch \in Nat /\ Launch > LastDay
  /\ FilteredStart \in Int /\ FilteredStart < 0
  /\ PreviewDelays \in [{"again", "hard", "good"} -> Nat]
  /\ FsrsModes \subseteq {"off", "long", "short", "shortAfterSteps"}
  /\ Positions \subseteq Nat /\ DueDays \subseteq Nat
  /\ FirstTime \in Nat
  /\ LastTime \in Nat /\ MaxLapses \in Nat /\ MaxPosition \in Nat

VARIABLES
  card,       \* the row of the card
  now,        \* the time
  shown,      \* what the reviewer shows: a state, and what it was worked out from
  given,      \* history: the position the card was last given as a new card
  misread     \* history: a number of the card was taken for what it is not

vars == <<card, now, shown, given, misread>>

FilteredDecks == {Cram, Peek}

-----------------------------------------------------------------------------
(* Days, timestamps and due numbers.                                       *)

Min2(a, b) == IF a < b THEN a ELSE b
Max2(a, b) == IF a > b THEN a ELSE b

today == now \div DayLen
untilRollover == (today + 1) * DayLen - now
timestamp == Launch + now
IsTimestamp(due) == due > LastDay

HomeOf(c) == IF c.odeck # NoDeck THEN c.odeck ELSE c.deck

\* The number original_due stands in for, where it is set.
HomeDue(c) == IF c.odeck # NoDeck /\ c.odue # 0 THEN c.odue ELSE c.due

\* last_position: where the card is, or was, among the new cards.
LastPosition(c) ==
  IF c.ctype # "New" THEN c.pos
  ELSE IF c.odeck # NoDeck THEN c.odue ELSE c.due

-----------------------------------------------------------------------------
(* Card states and the ones that follow them.                              *)

NewState(p) == [kind |-> "New", position |-> p]
Learning(left, secs) == [kind |-> "Learning", left |-> left, secs |-> secs]
Review(days, elapsed, lapses, leeched) ==
  [kind |-> "Review", days |-> days, elapsed |-> elapsed, lapses |-> lapses,
   leeched |-> leeched]
Relearning(left, secs, days, lapses, leeched) ==
  [kind |-> "Relearning", left |-> left, secs |-> secs, days |-> days,
   lapses |-> lapses, leeched |-> leeched]
Preview(secs, finished) == [kind |-> "Preview", secs |-> secs, finished |-> finished]

\* LearningSteps: the index is kept within the steps, and an answer's delay is
\* a set that is empty where the code's option is None.
StepIndex(steps, left) ==
  Min2(Max2(Len(steps) - left, 0), Max2(Len(steps) - 1, 0))
DelayAt(steps, i) == IF i < Len(steps) THEN {steps[i + 1]} ELSE {}
InWholeDays(secs) ==
  IF secs > DayLen THEN ((2 * secs + DayLen) \div (2 * DayLen)) * DayLen ELSE secs
FirstHardDelay(steps) ==
  IF Len(steps) > 1 THEN InWholeDays((steps[1] + steps[2]) \div 2)
  ELSE InWholeDays(Min2((steps[1] * 3) \div 2, steps[1] + DayLen))

AgainDelay(steps) == DelayAt(steps, 0)
HardDelay(steps, left) ==
  IF steps = <<>> THEN {}
  ELSE IF StepIndex(steps, left) = 0 THEN {FirstHardDelay(steps)}
  ELSE DelayAt(steps, StepIndex(steps, left))
GoodDelay(steps, left) == DelayAt(steps, StepIndex(steps, left) + 1)
CurrentDelay(steps, left) ==
  IF steps = <<>> THEN 0 ELSE steps[StepIndex(steps, left) + 1]
RemainingForGood(steps, left) == Max2(Len(steps) - (StepIndex(steps, left) + 1), 0)

StepDelay(steps, left, rating) ==
  CASE rating = "again" -> AgainDelay(steps)
    [] rating = "hard"  -> HardDelay(steps, left)
    [] rating = "good"  -> GoodDelay(steps, left)
    [] rating = "easy"  -> {}

\* Steps left after a rating that keeps the card in its steps.
StepsLeft(steps, left, rating) ==
  CASE rating = "again" -> Len(steps)
    [] rating = "good"  -> RemainingForGood(steps, left)
    [] OTHER            -> left

\* FSRS keeps a card in (re)learning for an interval below half a day.
shortDelays == 0..((DayLen - 1) \div 2)
ShortTerm(fsrs, steps) == fsrs = "shortAfterSteps" \/ (fsrs = "short" /\ steps = <<>>)

\* LearnState: take the next step, or leave for review.
AfterLearning(fsrs, left, steps, rating) ==
  LET delays == StepDelay(steps, left, rating)
      kept == IF rating = "again" THEN Len(steps) ELSE left
  IN IF delays # {}
     THEN {Learning(StepsLeft(steps, left, rating), d) : d \in delays}
     ELSE {Review(d, 0, 0, FALSE) : d \in Intervals}
          \cup IF ShortTerm(fsrs, steps) /\ rating # "easy"
               THEN {Learning(kept, d) : d \in shortDelays} ELSE {}

\* leech_threshold_met: at the threshold and every half of it after that.
LeechMet(lapses) ==
  /\ LeechThreshold > 0
  /\ lapses >= LeechThreshold
  /\ (lapses - LeechThreshold) % Max2((LeechThreshold + 1) \div 2, 1) = 0

\* ReviewState: a failed review goes to relearning if there are steps.
AfterReview(fsrs, s, steps, rating) ==
  IF rating # "again"
  THEN {Review(d, 0, s.lapses, s.leeched) : d \in Intervals}
  ELSE LET lapses == s.lapses + 1
           leeched == LeechMet(lapses)
       IN IF steps # <<>>
          THEN {Relearning(Len(steps), steps[1], d, lapses, leeched) : d \in Intervals}
          ELSE {Review(d, 0, lapses, leeched) : d \in Intervals}
               \cup IF ShortTerm(fsrs, steps)
                    THEN {Relearning(0, secs, 1, lapses, leeched) : secs \in shortDelays}
                    ELSE {}

\* RelearnState: the review state inside goes along until the steps are done.
AfterRelearning(fsrs, s, steps, rating) ==
  LET delays == StepDelay(steps, s.left, rating)
      left == StepsLeft(steps, s.left, rating)
      lapseDays == IF rating = "again" THEN Intervals ELSE {s.days}
  IN IF delays # {}
     THEN {Relearning(left, d, days, s.lapses, s.leeched) : d \in delays, days \in lapseDays}
     ELSE IF fsrs = "off"
     THEN {Review(IF rating = "easy" THEN s.days + 1 ELSE s.days, 0, s.lapses, s.leeched)}
     ELSE {Review(d, 0, s.lapses, s.leeched) : d \in Intervals}
          \cup IF ShortTerm(fsrs, steps) /\ rating # "easy"
               THEN {Relearning(left, secs, d, s.lapses, s.leeched) :
                       secs \in shortDelays, d \in Intervals}
               ELSE {}

\* NormalState.next_states: a new card is answered like a failed learning card.
AfterNormal(fsrs, s, home, rating) ==
  LET learn == LearnSteps[home]
      relearn == RelearnSteps[home]
  IN CASE s.kind = "New"        -> AfterLearning(fsrs, Len(learn), learn, rating)
       [] s.kind = "Learning"   -> AfterLearning(fsrs, s.left, learn, rating)
       [] s.kind = "Review"     -> AfterReview(fsrs, s, relearn, rating)
       [] s.kind = "Relearning" -> AfterRelearning(fsrs, s, relearn, rating)

AfterPreview(rating) ==
  LET delay == IF rating = "easy" THEN 0 ELSE PreviewDelays[rating]
  IN Preview(delay, delay = 0)

\* CardState.next_states: a rescheduling deck keeps what has not become a review.
NextStates(fsrs, current, home, rating) ==
  CASE current.wrap = "preview" -> {[wrap |-> "preview", of |-> AfterPreview(rating)]}
    [] current.wrap = "none"    ->
         {[wrap |-> "none", of |-> s] : s \in AfterNormal(fsrs, current.of, home, rating)}
    [] current.wrap = "resched" ->
         {[wrap |-> IF s.kind = "Review" THEN "none" ELSE "resched", of |-> s] :
            s \in AfterNormal(fsrs, current.of, home, rating)}

-----------------------------------------------------------------------------
(* The card's own operations.                                              *)

\* A faulty QueueOfType: every learning card waits for a time of day.
MutantQueueOfType(c) ==
  CASE c.ctype = "New"    -> "New"
    [] c.ctype = "Review" -> "Review"
    [] OTHER -> "Learn"

\* restore_queue_from_type
QueueOfType(c) ==
  CASE c.ctype = "New"    -> "New"
    [] c.ctype = "Review" -> "Review"
    [] OTHER -> IF IsTimestamp(c.due) THEN "Learn" ELSE "DayLearn"

\* move_into_filtered_deck, at any place of the deck (one card: its first).
MovedIn(c, deck) ==
  IF c.odue # 0 THEN c
  ELSE [c EXCEPT !.odeck = c.deck, !.deck = deck, !.odue = c.due,
                 !.queue = IF deck = Cram THEN @ ELSE "Review",
                 !.due = IF c.due > 0 THEN FilteredStart ELSE @]

\* A faulty BackToBeScheduled: original_due is left behind.
MutantBackToBeScheduled(c) ==
  IF c.odeck = NoDeck THEN c
  ELSE [c EXCEPT !.deck = c.odeck, !.odeck = NoDeck]

\* remove_from_filtered_deck_before_reschedule
BackToBeScheduled(c) ==
  IF c.odeck = NoDeck THEN c
  ELSE [c EXCEPT !.deck = c.odeck, !.odeck = NoDeck, !.odue = 0]

\* remove_from_filtered_deck_restoring_queue
BackAsItWas(c) ==
  IF c.odeck = NoDeck THEN c
  ELSE LET due == IF c.odue # 0 THEN c.odue ELSE c.due
       IN [c EXCEPT !.deck = c.odeck, !.odeck = NoDeck, !.odue = 0, !.due = due,
                    !.queue = IF c.queue \in Inactive THEN @
                              ELSE QueueOfType([c EXCEPT !.due = due])]

\* current_card_state
CurrentNormal(c, due) ==
  LET home == HomeOf(c) IN
  CASE c.ctype = "New"     -> NewState(Max2(due, 0))
    [] c.ctype = "Learn"   -> Learning(c.steps, CurrentDelay(LearnSteps[home], c.steps))
    [] c.ctype = "Review"  -> Review(c.ivl, Max2(c.ivl - (due - today), 0), c.lapses, FALSE)
    [] c.ctype = "Relearn" -> Relearning(c.steps, CurrentDelay(RelearnSteps[home], c.steps),
                                         c.ivl, c.lapses, FALSE)

CurrentState(c) ==
  IF c.deck \notin FilteredDecks
  THEN [wrap |-> "none",
        of |-> CurrentNormal(c, IF c.ctype = "Review" THEN Min2(c.due, today) ELSE c.due)]
  ELSE IF c.deck = Cram
  THEN [wrap |-> "resched", of |-> CurrentNormal(c, HomeDue(c))]
  ELSE [wrap |-> "preview", of |-> Preview(PreviewDelays["again"], FALSE)]

\* The queue and due number of a (re)learning card that waits for secs.
Waiting(secs) ==
  IF secs >= untilRollover
  THEN [queue |-> "DayLearn", due |-> today + ((secs - untilRollover) \div DayLen) + 1]
  ELSE [queue |-> "Learn", due |-> timestamp + secs]

\* A faulty PositionAfter: new_position forgets the rescheduling state.
MutantPositionAfter(c, current) ==
  IF current.wrap = "none" /\ current.of.kind = "New" THEN current.of.position ELSE c.pos

\* apply_learning_state, apply_relearning_state and apply_review_state.
PositionAfter(c, current) ==
  IF current.wrap # "preview" /\ current.of.kind = "New" THEN current.of.position ELSE c.pos
AppliedLearning(c, current, s) ==
  [c EXCEPT !.ctype = "Learn", !.steps = s.left, !.pos = PositionAfter(c, current),
            !.queue = Waiting(s.secs).queue, !.due = Waiting(s.secs).due]
AppliedRelearning(c, current, s) ==
  [c EXCEPT !.ctype = "Relearn", !.steps = s.left, !.pos = PositionAfter(c, current),
            !.ivl = s.days, !.lapses = s.lapses,
            !.queue = IF s.leeched THEN "Suspended" ELSE Waiting(s.secs).queue,
            !.due = Waiting(s.secs).due]
AppliedReview(c, current, s) ==
  [c EXCEPT !.ctype = "Review", !.steps = 0, !.pos = PositionAfter(c, current),
            !.ivl = s.days, !.lapses = s.lapses,
            !.queue = IF s.leeched THEN "Suspended" ELSE "Review",
            !.due = today + s.days]

AppliedNormal(c, current, s) ==
  CASE s.kind = "Learning"   -> AppliedLearning(c, current, s)
    [] s.kind = "Review"     -> AppliedReview(c, current, s)
    [] s.kind = "Relearning" -> AppliedRelearning(c, current, s)

\* A faulty AppliedPreview: the finished preview leaves by the other way out.
MutantAppliedPreview(c, s) ==
  IF s.finished THEN BackToBeScheduled(c)
  ELSE [c EXCEPT !.queue = "PreviewRepeat", !.due = timestamp + s.secs]

AppliedPreview(c, s) ==
  IF s.finished THEN BackAsItWas(c)
  ELSE [c EXCEPT !.queue = "PreviewRepeat", !.due = timestamp + s.secs]

\* apply_study_state
Applied(c, current, next) ==
  CASE next.wrap = "preview" -> AppliedPreview(c, next.of)
    [] next.wrap = "none"    ->
         AppliedNormal(IF current.wrap = "none" THEN c ELSE BackToBeScheduled(c),
                       current, next.of)
    [] next.wrap = "resched" ->
         LET applied == AppliedNormal(c, current, next.of)
         IN [applied EXCEPT !.odue = applied.due]

-----------------------------------------------------------------------------
(* Studying.                                                               *)

\* The reviewer takes the card from the queues and asks for the four states.
Show ==
  /\ shown = NoShow
  /\ card.queue \notin Inactive
  /\ shown' = [wrap |-> "card", current |-> CurrentState(card), home |-> HomeOf(card)]
  /\ UNCHANGED <<card, now, given, misread>>

\* answer_card: the state shown must still be the card's.
Answer(rating) ==
  /\ shown # NoShow
  /\ shown.current = CurrentState(card)
  /\ \E fsrs \in FsrsModes : \E next \in NextStates(fsrs, shown.current, shown.home, rating) :
       card' = Applied(card, shown.current, next)
  /\ card'.lapses <= MaxLapses
  /\ shown' = NoShow
  /\ UNCHANGED <<now, given, misread>>

AnswerRefused ==
  /\ shown # NoShow
  /\ shown.current # CurrentState(card)
  /\ shown' = NoShow
  /\ UNCHANGED <<card, now, given, misread>>

\* grade_now, from the browser: any card, whatever the reviewer shows.
GradeNow(rating) ==
  /\ \E fsrs \in FsrsModes :
     \E next \in NextStates(fsrs, CurrentState(card), HomeOf(card), rating) :
       card' = Applied(card, CurrentState(card), next)
  /\ card'.lapses <= MaxLapses
  /\ UNCHANGED <<now, shown, given, misread>>

-----------------------------------------------------------------------------
(* The filtered deck.                                                      *)

\* rebuild_filtered_deck_inner: the deck's own cards go home, then those the
\* search finds come in, none of them suspended, buried or in another such deck.
\* A due number of 0 is kept in original_due, where it reads as none.
BuildFiltered(deck) ==
  LET home == IF card.deck = deck THEN BackAsItWas(card) ELSE card IN
  /\ home.deck \notin FilteredDecks /\ home.queue \notin Inactive
  /\ card' = MovedIn(home, deck)
  /\ misread' = (misread \/ home.due = 0)
  /\ UNCHANGED <<now, shown, given>>

\* empty_filtered_deck, and a rebuilding that does not find the card again.
EmptyFiltered ==
  /\ card.deck \in FilteredDecks
  /\ card' = BackAsItWas(card)
  /\ UNCHANGED <<now, shown, given, misread>>

-----------------------------------------------------------------------------
(* Suspending, burying, and the commands of the browser.                   *)

BuryOrSuspend(queue) ==
  /\ card.queue \notin {queue, "Suspended"}
  /\ card' = [card EXCEPT !.queue = queue]
  /\ UNCHANGED <<now, shown, given, misread>>

\* Unsuspended, unburied by hand, or unburied when the day has rolled over.
RestoreQueue ==
  /\ card.queue \in Inactive
  /\ card' = [card EXCEPT !.queue = QueueOfType(card)]
  /\ UNCHANGED <<now, shown, given, misread>>

\* set_due_date and schedule_as_review.
DueInterval(fsrs, days, reset) ==
  IF fsrs # "off"
  THEN IF card.queue = "New" \/ card.ivl = 0 THEN {0} ELSE 0..MaxInterval
  ELSE IF reset \/ card.ctype \notin {"Review", "Relearn"} THEN {Max2(days, 1)}
  ELSE {Max2(card.ivl, 1)}

SetDueDate(days, reset) ==
  /\ \E fsrs \in FsrsModes : \E ivl \in DueInterval(fsrs, days, reset) :
       card' = [BackToBeScheduled(card) EXCEPT
                  !.pos = LastPosition(card), !.ivl = ivl, !.due = today + days,
                  !.ctype = "Review", !.queue = "Review"]
  /\ UNCHANGED <<now, shown, given, misread>>

\* schedule_as_new ("forget"): the old position back if wanted and known,
\* otherwise the collection's next one.
Forget(restore, reset, next) ==
  LET old == LastPosition(card)
      position == IF restore /\ old # NoPosition THEN old ELSE next
  IN /\ card' = [BackToBeScheduled(card) EXCEPT
                   !.due = position, !.ctype = "New", !.queue = "New", !.ivl = 0,
                   !.pos = NoPosition, !.lapses = IF reset THEN 0 ELSE @]
     /\ given' = IF restore THEN given ELSE next
     /\ UNCHANGED <<now, shown, misread>>

\* set_new_position
Repositioned(c, position) ==
  IF c.ctype = "New" /\ c.odeck # NoDeck THEN [c EXCEPT !.odue = position]
  ELSE IF c.ctype = "New" \/ c.queue = "New" THEN [c EXCEPT !.due = position]
  ELSE c

\* In a filtered deck a position of 0 is kept in original_due as well.
Reposition(position) ==
  /\ card.ctype = "New" \/ card.queue = "New"
  /\ card' = Repositioned(card, position)
  /\ given' = position
  /\ misread' = (misread \/ (position = 0 /\ card.ctype = "New" /\ card.odeck # NoDeck))
  /\ UNCHANGED <<now, shown>>

\* shift_existing_cards: other cards are given positions from start on. In a
\* filtered deck the number it shifts is the time of a repeated preview.
ShiftExisting(start, by) ==
  /\ card.ctype = "New" /\ card.due >= start
  /\ card.odeck = NoDeck => card.due + by <= MaxPosition
  /\ card' = Repositioned(card, card.due + by)
  /\ given' = given + by
  /\ misread' = (misread \/ card.odeck # NoDeck)
  /\ UNCHANGED <<now, shown>>

\* new_remaining_steps: the steps after the last one that is no longer than the
\* step the card passed last; at least one.
LastWithin(steps, delay) ==
  {i \in 1..Len(steps) : steps[i] <= delay /\ \A j \in (i + 1)..Len(steps) : steps[j] > delay}

NewRemaining(left, old, new) ==
  LET last == Len(old) - left
      passed == IF last \in 1..Len(old) THEN LastWithin(new, old[last]) ELSE {}
  IN IF old = <<>> THEN {left}
     ELSE IF passed = {} THEN {Max2(Len(new), 1)}
     ELSE {Max2(Len(new) - i, 1) : i \in passed}

AdjustedSteps(c, home) ==
  CASE c.ctype = "Learn"   -> NewRemaining(c.steps, LearnSteps[HomeOf(c)], LearnSteps[home])
    [] c.ctype = "Relearn" -> NewRemaining(c.steps, RelearnSteps[HomeOf(c)], RelearnSteps[home])
    [] OTHER -> {c.steps}

\* Collection::set_deck
ChangeDeck(home) ==
  /\ card.deck # home
  /\ \E left \in AdjustedSteps(card, home) :
       card' = [BackAsItWas([card EXCEPT !.steps = left]) EXCEPT !.deck = home]
  /\ UNCHANGED <<now, shown, given, misread>>

Tick ==
  /\ now < LastTime
  /\ now' = now + 1
  /\ UNCHANGED <<card, shown, given, misread>>

-----------------------------------------------------------------------------
NewCard(home, position) ==
  [ctype |-> "New", queue |-> "New", due |-> position, odue |-> 0, deck |-> home,
   odeck |-> NoDeck, ivl |-> 0, lapses |-> 0, steps |-> 0, pos |-> NoPosition]

Init ==
  /\ \E home \in Homes, position \in Positions :
       card = NewCard(home, position) /\ given = position
  /\ now = FirstTime
  /\ shown = NoShow
  /\ misread = FALSE

Next ==
  \/ Show
  \/ \E rating \in Ratings : Answer(rating)
  \/ AnswerRefused
  \/ \E rating \in Ratings : GradeNow(rating)
  \/ \E deck \in FilteredDecks : BuildFiltered(deck)
  \/ EmptyFiltered
  \/ \E queue \in Inactive : BuryOrSuspend(queue)
  \/ RestoreQueue
  \/ \E days \in DueDays, reset \in BOOLEAN : SetDueDate(days, reset)
  \/ \E restore, reset \in BOOLEAN, next \in Positions : Forget(restore, reset, next)
  \/ \E position \in Positions : Reposition(position)
  \/ \E start \in Positions : ShiftExisting(start, 1)
  \/ \E home \in Homes : ChangeDeck(home)
  \/ Tick

Spec == Init /\ [][Next]_vars

-----------------------------------------------------------------------------
(* What must hold.                                                         *)

Rows ==
  [ctype : {"New", "Learn", "Review", "Relearn"},
   queue : {"New", "Learn", "Review", "DayLearn", "PreviewRepeat"} \cup Inactive,
   due : Nat \cup {FilteredStart}, odue : Nat,
   deck : Homes \cup FilteredDecks, odeck : Homes \cup {NoDeck},
   ivl : Nat, lapses : Nat, steps : Nat, pos : Nat \cup {NoPosition}]

\* Every field of the row has its type: a due number is none of the places in
\* a filtered deck once it is kept as the one to go back to.
TypeOK ==
  /\ now \in Nat /\ given \in Nat /\ misread \in BOOLEAN
  /\ ~misread => card \in Rows /\ (shown # NoShow => shown.home \in Homes)

(* Two things the code does with a number spoil what is said below for good: *)
(* a due number of 0 put into original_due, where 0 stands for none, and the *)
(* time of a repeated preview shifted as if it were a position. All is said  *)
(* of a card to which neither has happened.                                  *)

\* A card is in a filtered deck exactly while it has a home to go back to,
\* and a number to go back with: no way of leaving the deck (an answer, emptying,
\* a new due date, forgetting, a change of deck) leaves either behind, after
\* which move_into_filtered_deck would refuse the card for good (card.rs:28).
HomeKnown ==
  ~misread => /\ card.odeck # NoDeck <=> card.deck \in FilteredDecks
              /\ card.odeck # NoDeck <=> card.odue # 0

\* Whatever the card has been through, the number it has at home is one its type
\* uses (never a place in a filtered deck, never a time for a review), and a
\* card at home waits in the queue its type and number call for.
DueFitsType ==
  ~misread =>
    /\ HomeDue(card) >= 0
    /\ card.ctype = "Review" => ~IsTimestamp(HomeDue(card))
    /\ card.deck \notin FilteredDecks /\ card.queue \notin Inactive
         => card.queue = QueueOfType(card)

\* A card that is no longer new still knows the position it was last given as a
\* new card, also when it was answered in, moved through or rescheduled out of
\* a filtered deck: forgetting it can restore the position, and shifting the
\* new cards at home has moved it by just as much.
PositionKnown == ~misread => LastPosition(card) = given

Schedule(c) == <<c.ctype, HomeDue(c), c.ivl, c.lapses, c.steps, c.pos>>

inPreview == card.deck = Peek

\* Moving a card in and out of filtered decks, burying, suspending and restoring
\* it, and every answer to a preview, however often and in whatever order, leave
\* the card's schedule as it was.
PreviewGivesBack ==
  [][~misread /\ Schedule(card') # Schedule(card) =>
       ~ \/ \E deck \in FilteredDecks : BuildFiltered(deck)
         \/ EmptyFiltered
         \/ \E queue \in Inactive : BuryOrSuspend(queue)
         \/ RestoreQueue
         \/ inPreview /\ \E rating \in Ratings : Answer(rating) \/ GradeNow(rating)]_vars
=============================================================================
