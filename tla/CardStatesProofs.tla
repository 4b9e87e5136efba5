--------------------------- MODULE CardStatesProofs ---------------------------
(***************************************************************************)
(* Theorems about CardStates, for every set of decks, every steps, delays, *)
(* positions and bounds: a card in a filtered deck always knows its way    *)
(* home, its position as a new card is never lost, and previewing it or    *)
(* moving it never changes its schedule.                                   *)
(*                                                                         *)
(* They hold until a number of the card is misread: until a due number of  *)
(* 0 is put into original_due, or the time of a repeated preview is        *)
(* shifted as a position.                                                  *)
(***************************************************************************)
EXTENDS CardStates, TLAPS

(* The way home of a row, and the invariant: the first three parts are     *)
(* needed together, since the number a card takes home is the one it had   *)
(* when it was moved in, which must have been a real number then.          *)
WayHome(c) ==
  /\ c.odeck # NoDeck <=> c.deck \in FilteredDecks
  /\ c.odeck # NoDeck <=> c.odue # 0
Sound(c) ==
  /\ c \in Rows /\ WayHome(c) /\ HomeDue(c) >= 0
  /\ c.queue = "New" => c.ctype = "New"
Known ==
  /\ Sound(card)
  /\ LastPosition(card) = given
  /\ now \in Nat /\ given \in Nat
  /\ shown # NoShow => shown.home \in Homes
IInv ==
  /\ now \in Nat /\ given \in Nat /\ misread \in BOOLEAN
  /\ misread \/ Known

-----------------------------------------------------------------------------
(* Numbers.                                                                *)

LEMMA Quotients ==
  ASSUME NEW x \in Nat, NEW y \in Nat \ {0}
  PROVE  /\ x \div y \in Nat
         /\ x >= y => x \div y >= 1
OBVIOUS

LEMMA TodayStarted ==
  ASSUME now \in Nat
  PROVE  today \in Nat /\ timestamp \in Nat /\ timestamp > 0
<1>1. today \in Nat
  BY Quotients, ConstantsAssumption DEF today
<1> QED BY <1>1, ConstantsAssumption DEF timestamp

LEMMA WholeDaysNat ==
  ASSUME NEW x \in Nat
  PROVE  InWholeDays(x) \in Nat
<1>1. 2 * x + DayLen \in Nat /\ 2 * DayLen \in Nat \ {0}
  BY ConstantsAssumption
<1>2. (2 * x + DayLen) \div (2 * DayLen) \in Nat
  BY <1>1, Quotients
<1>3. ((2 * x + DayLen) \div (2 * DayLen)) * DayLen \in Nat
  BY <1>2, ConstantsAssumption
<1> QED BY <1>3 DEF InWholeDays

LEMMA WaitingTyped ==
  ASSUME now \in Nat, NEW x \in Nat
  PROVE  /\ Waiting(x).queue \in {"Learn", "DayLearn"}
         /\ Waiting(x).due \in Nat /\ Waiting(x).due > 0
<1>1. untilRollover \in Int
  BY Quotients, ConstantsAssumption DEF untilRollover, today
<1>2. ASSUME x >= untilRollover
      PROVE  (x - untilRollover) \div DayLen \in Nat
  <2>1. x - untilRollover \in Nat
    BY <1>1, <1>2
  <2> QED BY <2>1, Quotients, ConstantsAssumption
<1> QED BY <1>1, <1>2, TodayStarted DEF Waiting

-----------------------------------------------------------------------------
(* States.                                                                 *)

AfterStates ==
  [kind : {"Learning"}, left : Nat, secs : Nat]
  \cup [kind : {"Review"}, days : Nat, elapsed : Nat, lapses : Nat, leeched : BOOLEAN]
  \cup [kind : {"Relearning"}, left : Nat, secs : Nat, days : Nat, lapses : Nat,
        leeched : BOOLEAN]

LEMMA DelaysTyped ==
  ASSUME NEW steps \in Seq(Nat), NEW left \in Nat, NEW rating \in Ratings
  PROVE  /\ StepIndex(steps, left) \in Nat
         /\ StepDelay(steps, left, rating) \subseteq Nat
         /\ StepsLeft(steps, left, rating) \in Nat
         /\ CurrentDelay(steps, left) \in Nat
<1>1. Len(steps) \in Nat
  OBVIOUS
<1>2. /\ StepIndex(steps, left) \in Nat
      /\ steps # <<>> => StepIndex(steps, left) < Len(steps)
  BY <1>1 DEF StepIndex, Min2, Max2
<1>3. \A i \in Nat : DelayAt(steps, i) \subseteq Nat
  BY <1>1 DEF DelayAt
<1>4. steps # <<>> => FirstHardDelay(steps) \in Nat
  <2> SUFFICES ASSUME steps # <<>> PROVE FirstHardDelay(steps) \in Nat
    OBVIOUS
  <2>1. steps[1] \in Nat /\ (Len(steps) > 1 => steps[2] \in Nat)
    BY <1>1
  <2>2. CASE Len(steps) > 1
    <3>1. steps[1] + steps[2] \in Nat
      BY <2>1, <2>2
    <3>2. (steps[1] + steps[2]) \div 2 \in Nat
      BY <3>1, Quotients
    <3> QED BY <2>2, <3>2, WholeDaysNat DEF FirstHardDelay
  <2>3. CASE ~(Len(steps) > 1)
    <3>1. (steps[1] * 3) \div 2 \in Nat /\ steps[1] + DayLen \in Nat
      BY <2>1, Quotients, ConstantsAssumption
    <3>2. Min2((steps[1] * 3) \div 2, steps[1] + DayLen) \in Nat
      BY <3>1 DEF Min2
    <3> QED BY <2>3, <3>2, WholeDaysNat DEF FirstHardDelay
  <2> QED BY <2>2, <2>3
<1>5. StepDelay(steps, left, rating) \subseteq Nat
  <2>1. AgainDelay(steps) \subseteq Nat /\ GoodDelay(steps, left) \subseteq Nat
    BY <1>2, <1>3 DEF AgainDelay, GoodDelay
  <2>2. HardDelay(steps, left) \subseteq Nat
    BY <1>2, <1>3, <1>4 DEF HardDelay
  <2> QED BY <2>1, <2>2 DEF StepDelay, Ratings
<1>6. StepsLeft(steps, left, rating) \in Nat
  BY <1>1, <1>2 DEF StepsLeft, RemainingForGood, Max2, Ratings
<1>7. CurrentDelay(steps, left) \in Nat
  BY <1>1, <1>2 DEF CurrentDelay
<1> QED BY <1>2, <1>5, <1>6, <1>7

LEMMA ShortNat ==
  shortDelays \subseteq Nat /\ Intervals \subseteq Nat
BY ConstantsAssumption DEF shortDelays, Intervals

LEMMA LearningTyped ==
  ASSUME NEW fsrs, NEW left \in Nat, NEW steps \in Seq(Nat), NEW rating \in Ratings
  PROVE  AfterLearning(fsrs, left, steps, rating) \subseteq AfterStates
<1>1. ASSUME NEW l \in Nat, NEW d \in Nat
      PROVE  Learning(l, d) \in AfterStates
  BY DEF Learning, AfterStates
<1>2. ASSUME NEW d \in Nat
      PROVE  Review(d, 0, 0, FALSE) \in AfterStates
  BY DEF Review, AfterStates
<1>3. Len(steps) \in Nat
  OBVIOUS
<1> QED BY <1>1, <1>2, <1>3, DelaysTyped, ShortNat DEF AfterLearning

LEMMA ReviewTyped ==
  ASSUME NEW fsrs, NEW s, s.lapses \in Nat, s.leeched \in BOOLEAN,
         NEW steps \in Seq(Nat), NEW rating \in Ratings
  PROVE  AfterReview(fsrs, s, steps, rating) \subseteq AfterStates
<1>1. ASSUME NEW d \in Nat, NEW n \in Nat, NEW b \in BOOLEAN
      PROVE  Review(d, 0, n, b) \in AfterStates
  BY DEF Review, AfterStates
<1>2. ASSUME NEW l \in Nat, NEW x \in Nat, NEW d \in Nat, NEW n \in Nat, NEW b \in BOOLEAN
      PROVE  Relearning(l, x, d, n, b) \in AfterStates
  BY DEF Relearning, AfterStates
<1>3. s.lapses + 1 \in Nat /\ LeechMet(s.lapses + 1) \in BOOLEAN /\ Len(steps) \in Nat
  BY DEF LeechMet
<1>4. steps # <<>> => steps[1] \in Nat
  OBVIOUS
<1>5. CASE rating # "again"
  BY <1>1, <1>5, ShortNat DEF AfterReview
<1>6. CASE rating = "again"
  <2> DEFINE n == s.lapses + 1
             b == LeechMet(s.lapses + 1)
  <2>1. n \in Nat /\ b \in BOOLEAN
    BY <1>3
  <2>2. \A d \in Intervals : Review(d, 0, n, b) \in AfterStates
    BY <1>1, <2>1, ShortNat
  <2>3. \A x \in shortDelays : Relearning(0, x, 1, n, b) \in AfterStates
    BY <1>2, <2>1, ShortNat
  <2>4. steps # <<>> =>
          \A d \in Intervals : Relearning(Len(steps), steps[1], d, n, b) \in AfterStates
    BY <1>2, <1>3, <1>4, <2>1, ShortNat
  <2> HIDE DEF b
  <2>5. CASE steps # <<>>
    <3>1. AfterReview(fsrs, s, steps, rating)
            = {Relearning(Len(steps), steps[1], d, n, b) : d \in Intervals}
      BY <1>6, <2>5 DEF AfterReview, b
    <3> QED BY <2>4, <2>5, <3>1
  <2>6. CASE steps = <<>>
    <3>1. AfterReview(fsrs, s, steps, rating)
            \subseteq {Review(d, 0, n, b) : d \in Intervals}
                      \cup {Relearning(0, x, 1, n, b) : x \in shortDelays}
      BY <1>6, <2>6 DEF AfterReview, b
    <3> QED BY <2>2, <2>3, <3>1
  <2> QED BY <2>5, <2>6
<1> QED BY <1>5, <1>6

LEMMA RelearningTyped ==
  ASSUME NEW fsrs, NEW s, s.left \in Nat, s.days \in Nat, s.lapses \in Nat,
         s.leeched \in BOOLEAN, NEW steps \in Seq(Nat), NEW rating \in Ratings
  PROVE  AfterRelearning(fsrs, s, steps, rating) \subseteq AfterStates
<1>1. ASSUME NEW d \in Nat
      PROVE  Review(d, 0, s.lapses, s.leeched) \in AfterStates
  BY DEF Review, AfterStates
<1>2. ASSUME NEW l \in Nat, NEW x \in Nat, NEW d \in Nat
      PROVE  Relearning(l, x, d, s.lapses, s.leeched) \in AfterStates
  BY DEF Relearning, AfterStates
<1>3. /\ StepDelay(steps, s.left, rating) \subseteq Nat
      /\ StepsLeft(steps, s.left, rating) \in Nat
  BY DelaysTyped
<1>4. (IF rating = "again" THEN Intervals ELSE {s.days}) \subseteq Nat
  BY ShortNat
<1>5. (IF rating = "easy" THEN s.days + 1 ELSE s.days) \in Nat
  OBVIOUS
<1> QED BY <1>1, <1>2, <1>3, <1>4, <1>5, ShortNat DEF AfterRelearning

FromStates == [kind : {"New"}, position : Nat] \cup AfterStates

LEMMA NormalTyped ==
  ASSUME NEW fsrs, NEW s \in FromStates, NEW home \in Homes, NEW rating \in Ratings
  PROVE  AfterNormal(fsrs, s, home, rating) \subseteq AfterStates
<1> DEFINE learn == LearnSteps[home]
           relearn == RelearnSteps[home]
<1>1. learn \in Seq(Nat) /\ relearn \in Seq(Nat) /\ Len(learn) \in Nat
  BY ConstantsAssumption
<1> HIDE DEF learn, relearn
<1>2. CASE s \in [kind : {"New"}, position : Nat]
  <2>1. AfterNormal(fsrs, s, home, rating) = AfterLearning(fsrs, Len(learn), learn, rating)
    BY <1>2 DEF AfterNormal, learn
  <2> QED BY <1>1, <2>1, LearningTyped
<1>3. CASE s \in [kind : {"Learning"}, left : Nat, secs : Nat]
  <2>1. AfterNormal(fsrs, s, home, rating) = AfterLearning(fsrs, s.left, learn, rating)
    BY <1>3 DEF AfterNormal, learn
  <2>2. s.left \in Nat
    BY <1>3
  <2> QED BY <1>1, <2>1, <2>2, LearningTyped
<1>4. CASE s \in [kind : {"Review"}, days : Nat, elapsed : Nat, lapses : Nat, leeched : BOOLEAN]
  <2>1. AfterNormal(fsrs, s, home, rating) = AfterReview(fsrs, s, relearn, rating)
    BY <1>4 DEF AfterNormal, relearn
  <2>2. s.lapses \in Nat /\ s.leeched \in BOOLEAN
    BY <1>4
  <2> QED BY <1>1, <2>1, <2>2, ReviewTyped
<1>5. CASE s \in [kind : {"Relearning"}, left : Nat, secs : Nat, days : Nat, lapses : Nat,
                  leeched : BOOLEAN]
  <2>1. AfterNormal(fsrs, s, home, rating) = AfterRelearning(fsrs, s, relearn, rating)
    BY <1>5 DEF AfterNormal, relearn
  <2>2. s.left \in Nat /\ s.days \in Nat /\ s.lapses \in Nat /\ s.leeched \in BOOLEAN
    BY <1>5
  <2> QED BY <1>1, <2>1, <2>2, RelearningTyped
<1> QED BY <1>2, <1>3, <1>4, <1>5 DEF FromStates, AfterStates

(* The fields of a sound row, one by one.                                  *)
LEMMA Fields ==
  ASSUME NEW c, Sound(c)
  PROVE  /\ c.ctype \in {"New", "Learn", "Review", "Relearn"}
         /\ c.queue \in {"New", "Learn", "Review", "DayLearn", "PreviewRepeat"} \cup Inactive
         /\ c.due \in Int /\ (c.due \in Nat \/ c.due = FilteredStart) /\ c.odue \in Nat
         /\ c.deck \in Homes \cup FilteredDecks /\ c.odeck \in Homes \cup {NoDeck}
         /\ c.ivl \in Nat /\ c.lapses \in Nat /\ c.steps \in Nat
         /\ c.pos \in Nat \cup {NoPosition}
         /\ HomeOf(c) \in Homes /\ HomeDue(c) \in Nat
         /\ c.odeck = NoDeck => c.odue = 0 /\ c.due = HomeDue(c) /\ c.deck \in Homes
         /\ c.odeck # NoDeck => c.odue = HomeDue(c) /\ c.odue # 0 /\ c.odeck \in Homes
                                 /\ c.deck \in FilteredDecks
         /\ c.ctype = "New" => LastPosition(c) = HomeDue(c)
         /\ c.ctype # "New" => LastPosition(c) = c.pos
<1>1. c \in Rows /\ WayHome(c) /\ HomeDue(c) >= 0
  BY DEF Sound
<1>2. /\ c.ctype \in {"New", "Learn", "Review", "Relearn"}
      /\ c.queue \in {"New", "Learn", "Review", "DayLearn", "PreviewRepeat"} \cup Inactive
      /\ c.due \in Int /\ (c.due \in Nat \/ c.due = FilteredStart) /\ c.odue \in Nat
      /\ c.deck \in Homes \cup FilteredDecks /\ c.odeck \in Homes \cup {NoDeck}
      /\ c.ivl \in Nat /\ c.lapses \in Nat /\ c.steps \in Nat
      /\ c.pos \in Nat \cup {NoPosition}
  BY <1>1, ConstantsAssumption DEF Rows
<1>3. /\ c.odeck = NoDeck => c.odue = 0 /\ c.due = HomeDue(c) /\ c.deck \in Homes
      /\ c.odeck # NoDeck => c.odue = HomeDue(c) /\ c.odue # 0 /\ c.odeck \in Homes
                              /\ c.deck \in FilteredDecks
  BY <1>1, <1>2 DEF WayHome, HomeDue
<1>4. HomeOf(c) \in Homes
  BY <1>3 DEF HomeOf
<1>5. HomeDue(c) \in Nat
  BY <1>1, <1>2, <1>3, ConstantsAssumption
<1>6. /\ c.ctype = "New" => LastPosition(c) = HomeDue(c)
      /\ c.ctype # "New" => LastPosition(c) = c.pos
  BY <1>3 DEF LastPosition
<1> QED BY <1>1, <1>2, <1>3, <1>4, <1>5, <1>6

(* What the state of a card says of its row.                               *)
LEMMA CurrentTyped ==
  ASSUME NEW c, Sound(c), now \in Nat
  PROVE  /\ CurrentState(c).wrap = IF c.odeck = NoDeck THEN "none"
                                    ELSE IF c.deck = Cram THEN "resched" ELSE "preview"
         /\ CurrentState(c).wrap # "preview" =>
              /\ CurrentState(c).of \in FromStates
              /\ CurrentState(c).of.kind = "New" <=> c.ctype = "New"
              /\ c.ctype = "New" => CurrentState(c).of.position = LastPosition(c)
<1>1. today \in Nat
  BY TodayStarted
<1>2. ASSUME NEW due \in Int, c.ctype = "New" => due = HomeDue(c)
      PROVE  /\ CurrentNormal(c, due) \in FromStates
             /\ CurrentNormal(c, due).kind = "New" <=> c.ctype = "New"
             /\ c.ctype = "New" => CurrentNormal(c, due).position = LastPosition(c)
  <2>1. LearnSteps[HomeOf(c)] \in Seq(Nat) /\ RelearnSteps[HomeOf(c)] \in Seq(Nat)
    BY Fields, ConstantsAssumption
  <2>2. /\ CurrentDelay(LearnSteps[HomeOf(c)], c.steps) \in Nat
        /\ CurrentDelay(RelearnSteps[HomeOf(c)], c.steps) \in Nat
    <3>1. "good" \in Ratings /\ c.steps \in Nat
      BY Fields DEF Ratings
    <3> QED BY <2>1, <3>1, DelaysTyped
  <2>3. CASE c.ctype = "New"
    <3>1. CurrentNormal(c, due) = NewState(HomeDue(c))
      BY <1>2, <2>3, Fields DEF CurrentNormal, Max2
    <3> QED BY <2>3, <3>1, Fields DEF NewState, FromStates
  <2>4. CASE c.ctype = "Learn"
    <3>1. CurrentNormal(c, due)
            = Learning(c.steps, CurrentDelay(LearnSteps[HomeOf(c)], c.steps))
      BY <2>4 DEF CurrentNormal
    <3>2. c.steps \in Nat
      BY Fields
    <3> QED BY <2>2, <2>4, <3>1, <3>2 DEF Learning, FromStates, AfterStates
  <2>5. CASE c.ctype = "Review"
    <3> DEFINE elapsed == Max2(c.ivl - (due - today), 0)
    <3>1. elapsed \in Nat
      BY <1>1, <1>2, Fields DEF Max2
    <3> HIDE DEF elapsed
    <3>2. CurrentNormal(c, due) = Review(c.ivl, elapsed, c.lapses, FALSE)
      BY <2>5 DEF CurrentNormal, elapsed
    <3>3. c.ivl \in Nat /\ c.lapses \in Nat
      BY Fields
    <3> QED BY <2>5, <3>1, <3>2, <3>3 DEF Review, FromStates, AfterStates
  <2>6. CASE c.ctype = "Relearn"
    <3>1. CurrentNormal(c, due)
            = Relearning(c.steps, CurrentDelay(RelearnSteps[HomeOf(c)], c.steps),
                         c.ivl, c.lapses, FALSE)
      BY <2>6 DEF CurrentNormal
    <3>2. c.steps \in Nat /\ c.ivl \in Nat /\ c.lapses \in Nat
      BY Fields
    <3> QED BY <2>2, <2>6, <3>1, <3>2 DEF Relearning, FromStates, AfterStates
  <2> QED BY <2>3, <2>4, <2>5, <2>6, Fields
<1>3. CASE c.odeck = NoDeck
  <2> DEFINE due == IF c.ctype = "Review" THEN Min2(c.due, today) ELSE c.due
  <2>1. due \in Int /\ (c.ctype = "New" => due = HomeDue(c))
    BY <1>1, <1>3, Fields DEF Min2
  <2> HIDE DEF due
  <2>2. CurrentState(c) = [wrap |-> "none", of |-> CurrentNormal(c, due)]
    BY <1>3, Fields, ConstantsAssumption DEF CurrentState, FilteredDecks, due
  <2> QED BY <1>2, <1>3, <2>1, <2>2
<1>4. CASE c.odeck # NoDeck /\ c.deck = Cram
  <2>1. CurrentState(c) = [wrap |-> "resched", of |-> CurrentNormal(c, HomeDue(c))]
    BY <1>4, Fields DEF CurrentState, FilteredDecks
  <2> QED BY <1>2, <1>4, <2>1, Fields
<1>5. CASE c.odeck # NoDeck /\ c.deck # Cram
  <2>1. CurrentState(c).wrap = "preview"
    BY <1>5, Fields DEF CurrentState, FilteredDecks
  <2> QED BY <1>5, <2>1
<1> QED BY <1>3, <1>4, <1>5

LEMMA NextTyped ==
  ASSUME NEW c, Sound(c), now \in Nat,
         NEW fsrs, NEW home \in Homes, NEW rating \in Ratings,
         NEW next \in NextStates(fsrs, CurrentState(c), home, rating)
  PROVE  /\ CurrentState(c).wrap = "preview" =>
              next.wrap = "preview" /\ next.of.secs \in Nat /\ next.of.finished \in BOOLEAN
         /\ CurrentState(c).wrap = "none" => next.wrap = "none" /\ next.of \in AfterStates
         /\ CurrentState(c).wrap = "resched" =>
              next.wrap \in {"none", "resched"} /\ next.of \in AfterStates
         /\ next.wrap = "resched" => next.of.kind # "Review"
<1> DEFINE current == CurrentState(c)
<1>1. current.wrap \in {"none", "resched", "preview"}
  BY CurrentTyped
<1>2. current.wrap # "preview" => current.of \in FromStates
  BY CurrentTyped
<1> HIDE DEF current
<1>3. CASE current.wrap = "preview"
  <2>1. next = [wrap |-> "preview", of |-> AfterPreview(rating)]
    BY <1>3 DEF NextStates, current
  <2>2. AfterPreview(rating).secs \in Nat /\ AfterPreview(rating).finished \in BOOLEAN
    BY ConstantsAssumption DEF AfterPreview, Preview, Ratings
  <2> QED BY <1>3, <2>1, <2>2 DEF current
<1>4. CASE current.wrap = "none"
  <2>1. PICK s \in AfterNormal(fsrs, current.of, home, rating) :
          next = [wrap |-> "none", of |-> s]
    BY <1>4 DEF NextStates, current
  <2>2. s \in AfterStates
    BY <1>2, <1>4, <2>1, NormalTyped
  <2> QED BY <1>4, <2>1, <2>2 DEF current
<1>5. CASE current.wrap = "resched"
  <2>1. PICK s \in AfterNormal(fsrs, current.of, home, rating) :
          next = [wrap |-> IF s.kind = "Review" THEN "none" ELSE "resched", of |-> s]
    BY <1>5 DEF NextStates, current
  <2>2. s \in AfterStates
    BY <1>2, <1>5, <2>1, NormalTyped
  <2> QED BY <1>5, <2>1, <2>2 DEF current
<1> QED BY <1>1, <1>3, <1>4, <1>5 DEF current

-----------------------------------------------------------------------------
(* Rows.                                                                   *)

LEMMA QueueTyped ==
  ASSUME NEW c, c.ctype \in {"New", "Learn", "Review", "Relearn"}
  PROVE  /\ QueueOfType(c) \in {"New", "Learn", "Review", "DayLearn"}
         /\ QueueOfType(c) = "New" => c.ctype = "New"
BY DEF QueueOfType

\* A row with a known home due number is sound wherever it says it is.
LEMMA AtHomeSound ==
  ASSUME NEW c \in Rows, c.odeck = NoDeck, c.odue = 0, c.deck \in Homes, c.due >= 0,
         c.queue = "New" => c.ctype = "New"
  PROVE  Sound(c) /\ HomeDue(c) = c.due
BY ConstantsAssumption DEF Sound, WayHome, HomeDue, FilteredDecks

LEMMA AwaySound ==
  ASSUME NEW c \in Rows, c.odeck \in Homes, c.odue # 0, c.deck \in FilteredDecks,
         c.queue = "New" => c.ctype = "New"
  PROVE  Sound(c) /\ HomeDue(c) = c.odue
<1>1. c.odue \in Nat /\ c.odeck # NoDeck
  BY ConstantsAssumption DEF Rows
<1> QED BY <1>1 DEF Sound, WayHome, HomeDue

LEMMA BackAsItWasSound ==
  ASSUME NEW c, Sound(c)
  PROVE  /\ Sound(BackAsItWas(c))
         /\ BackAsItWas(c).odeck = NoDeck
         /\ Schedule(BackAsItWas(c)) = Schedule(c)
         /\ LastPosition(BackAsItWas(c)) = LastPosition(c)
<1>1. CASE c.odeck = NoDeck
  BY <1>1 DEF BackAsItWas
<1>2. CASE c.odeck # NoDeck
  <2> DEFINE queue == IF c.queue \in Inactive THEN c.queue
                      ELSE QueueOfType([c EXCEPT !.due = HomeDue(c)])
             b == [c EXCEPT !.deck = c.odeck, !.odeck = NoDeck, !.odue = 0,
                            !.due = HomeDue(c), !.queue = queue]
  <2>1. c \in Rows /\ (c.queue = "New" => c.ctype = "New")
    BY DEF Sound
  <2>2. [c EXCEPT !.due = HomeDue(c)].ctype = c.ctype
    BY <2>1 DEF Rows
  <2>3. /\ queue \in {"New", "Learn", "Review", "DayLearn"} \cup Inactive
        /\ queue = "New" => c.ctype = "New"
    <3> DEFINE d == [c EXCEPT !.due = HomeDue(c)]
    <3>1. d.ctype = c.ctype /\ d.ctype \in {"New", "Learn", "Review", "Relearn"}
      BY <2>2, Fields
    <3> HIDE DEF d
    <3>2. /\ QueueOfType(d) \in {"New", "Learn", "Review", "DayLearn"}
          /\ QueueOfType(d) = "New" => c.ctype = "New"
      BY <3>1, QueueTyped
    <3> USE DEF d
    <3> QED BY <2>1, <3>2 DEF Inactive
  <2>4. BackAsItWas(c) = b
    <3>1. (IF c.odue # 0 THEN c.odue ELSE c.due) = HomeDue(c)
      BY <1>2 DEF HomeDue
    <3> QED BY <1>2, <3>1 DEF BackAsItWas
  <2>5. c.odeck \in Homes /\ HomeDue(c) \in Nat
    BY <1>2, Fields
  <2> HIDE DEF queue
  <2>6. /\ b \in Rows /\ b.odeck = NoDeck /\ b.odue = 0 /\ b.deck = c.odeck
        /\ b.due = HomeDue(c) /\ b.queue = queue /\ b.ctype = c.ctype /\ b.ivl = c.ivl
        /\ b.lapses = c.lapses /\ b.steps = c.steps /\ b.pos = c.pos
    BY <2>1, <2>3, <2>5 DEF Rows
  <2> HIDE DEF b
  <2>7. Sound(b) /\ HomeDue(b) = HomeDue(c)
    BY <2>3, <2>5, <2>6, AtHomeSound
  <2>8. LastPosition(b) = LastPosition(c)
    BY <2>6, <2>7, Fields
  <2> QED BY <2>4, <2>6, <2>7, <2>8 DEF Schedule
<1> QED BY <1>1, <1>2

LEMMA BackToBeScheduledFields ==
  ASSUME NEW c, Sound(c)
  PROVE  LET b == BackToBeScheduled(c) IN
         /\ b \in Rows /\ b.odeck = NoDeck /\ b.odue = 0 /\ b.deck \in Homes
         /\ b.queue = c.queue /\ b.ctype = c.ctype /\ b.pos = c.pos /\ b.lapses = c.lapses
<1>1. c \in Rows
  BY DEF Sound
<1>2. CASE c.odeck = NoDeck
  BY <1>1, <1>2, Fields DEF BackToBeScheduled
<1>3. CASE c.odeck # NoDeck
  BY <1>1, <1>3, Fields DEF BackToBeScheduled, Rows
<1> QED BY <1>2, <1>3

\* Moving in keeps the schedule, and the way home if there is a number to keep.
LEMMA MovedInSound ==
  ASSUME NEW c, Sound(c), c.deck \notin FilteredDecks, NEW deck \in FilteredDecks
  PROVE  /\ Schedule(MovedIn(c, deck)) = Schedule(c)
         /\ c.due # 0 => /\ Sound(MovedIn(c, deck))
                         /\ LastPosition(MovedIn(c, deck)) = LastPosition(c)
<1> DEFINE queue == IF deck = Cram THEN c.queue ELSE "Review"
           due == IF c.due > 0 THEN FilteredStart ELSE c.due
           b == [c EXCEPT !.odeck = c.deck, !.deck = deck, !.odue = c.due,
                          !.queue = queue, !.due = due]
<1>1. c \in Rows /\ (c.queue = "New" => c.ctype = "New")
  BY DEF Sound
<1>2. c.odeck = NoDeck /\ c.odue = 0 /\ c.deck \in Homes /\ c.due = HomeDue(c)
      /\ HomeDue(c) \in Nat
  BY Fields
<1>3. MovedIn(c, deck) = b
  BY <1>2 DEF MovedIn
<1>4. /\ queue \in {"New", "Learn", "Review", "DayLearn", "PreviewRepeat"} \cup Inactive
      /\ queue = "New" => c.ctype = "New"
  BY <1>1, Fields
<1>5. due \in Nat \cup {FilteredStart} /\ (c.due = 0 => due = 0)
  BY <1>2
<1> HIDE DEF queue, due
<1>6. /\ b \in Rows /\ b.odeck = c.deck /\ b.odue = c.due /\ b.deck = deck
      /\ b.due = due /\ b.queue = queue /\ b.ctype = c.ctype /\ b.ivl = c.ivl
      /\ b.lapses = c.lapses /\ b.steps = c.steps /\ b.pos = c.pos
  BY <1>1, <1>2, <1>4, <1>5 DEF Rows
<1> HIDE DEF b
<1>7. HomeDue(b) = HomeDue(c)
  BY <1>2, <1>5, <1>6, ConstantsAssumption DEF HomeDue
<1>8. ASSUME c.due # 0
      PROVE  Sound(b) /\ LastPosition(b) = LastPosition(c)
  <2>1. Sound(b)
    BY <1>2, <1>4, <1>6, <1>8, AwaySound
  <2> QED BY <1>6, <1>7, <2>1, Fields
<1> QED BY <1>3, <1>6, <1>7, <1>8 DEF Schedule

-----------------------------------------------------------------------------
(* Answers.                                                                *)

\* What an answer writes when it is not to a preview: a due number of a day or a
\* time, the position kept, and nothing about the decks.
LEMMA AppliedNormalFields ==
  ASSUME NEW c \in Rows, now \in Nat,
         NEW current, NEW s \in AfterStates, PositionAfter(c, current) \in Nat \cup {NoPosition}
  PROVE  LET b == AppliedNormal(c, current, s) IN
         /\ b \in Rows /\ b.due \in Nat /\ (s.kind # "Review" => b.due > 0)
         /\ b.odeck = c.odeck /\ b.odue = c.odue /\ b.deck = c.deck
         /\ b.pos = PositionAfter(c, current)
         /\ b.ctype # "New" /\ b.queue # "New"
<1> DEFINE p == PositionAfter(c, current)
<1>1. p \in Nat \cup {NoPosition}
  OBVIOUS
<1> HIDE DEF p
<1>2. CASE s \in [kind : {"Learning"}, left : Nat, secs : Nat]
  <2> DEFINE w == Waiting(s.secs)
  <2>1. s.left \in Nat /\ s.secs \in Nat
    BY <1>2
  <2>2. w.queue \in {"Learn", "DayLearn"} /\ w.due \in Nat /\ w.due > 0
    BY <2>1, WaitingTyped
  <2>3. AppliedNormal(c, current, s)
          = [c EXCEPT !.ctype = "Learn", !.steps = s.left, !.pos = p,
                      !.queue = w.queue, !.due = w.due]
    BY <1>2 DEF AppliedNormal, AppliedLearning, p
  <2> HIDE DEF w
  <2> QED BY <1>1, <2>1, <2>2, <2>3 DEF Rows, p
<1>3. CASE s \in [kind : {"Review"}, days : Nat, elapsed : Nat, lapses : Nat, leeched : BOOLEAN]
  <2> DEFINE q == IF s.leeched THEN "Suspended" ELSE "Review"
             d == today + s.days
  <2>1. s.days \in Nat /\ s.lapses \in Nat /\ s.kind = "Review"
    BY <1>3
  <2>2. d \in Nat
    BY <2>1, TodayStarted
  <2>3. AppliedNormal(c, current, s)
          = [c EXCEPT !.ctype = "Review", !.steps = 0, !.pos = p, !.ivl = s.days,
                      !.lapses = s.lapses, !.queue = q, !.due = d]
    BY <1>3 DEF AppliedNormal, AppliedReview, p
  <2>4. q \in {"Review"} \cup Inactive
    BY DEF Inactive
  <2> HIDE DEF q, d
  <2> DEFINE b == [c EXCEPT !.ctype = "Review", !.steps = 0, !.pos = p, !.ivl = s.days,
                            !.lapses = s.lapses, !.queue = q, !.due = d]
  <2>5. b \in Rows
    BY <1>1, <2>1, <2>2, <2>4 DEF Rows
  <2>6. /\ b.due = d /\ b.odeck = c.odeck /\ b.odue = c.odue /\ b.deck = c.deck
        /\ b.pos = p /\ b.ctype = "Review" /\ b.queue = q
    BY DEF Rows
  <2> HIDE DEF b
  <2> QED BY <2>1, <2>2, <2>3, <2>4, <2>5, <2>6 DEF Inactive, p, b
<1>4. CASE s \in [kind : {"Relearning"}, left : Nat, secs : Nat, days : Nat, lapses : Nat,
                  leeched : BOOLEAN]
  <2> DEFINE w == Waiting(s.secs)
             q == IF s.leeched THEN "Suspended" ELSE w.queue
  <2>1. s.left \in Nat /\ s.secs \in Nat /\ s.days \in Nat /\ s.lapses \in Nat
    BY <1>4
  <2>2. w.queue \in {"Learn", "DayLearn"} /\ w.due \in Nat /\ w.due > 0
    BY <2>1, WaitingTyped
  <2>3. AppliedNormal(c, current, s)
          = [c EXCEPT !.ctype = "Relearn", !.steps = s.left, !.pos = p, !.ivl = s.days,
                      !.lapses = s.lapses, !.queue = q, !.due = w.due]
    BY <1>4 DEF AppliedNormal, AppliedRelearning, p
  <2> HIDE DEF w
  <2>4. q \in {"Learn", "DayLearn"} \cup Inactive
    BY <2>2 DEF Inactive
  <2> HIDE DEF q
  <2> QED BY <1>1, <2>1, <2>2, <2>3, <2>4 DEF Rows, Inactive, p
<1> QED BY <1>2, <1>3, <1>4 DEF AfterStates

\* Every answer keeps the row sound and the position known; an answer to a
\* preview keeps the schedule.
LEMMA AppliedSound ==
  ASSUME NEW c, Sound(c), now \in Nat,
         LastPosition(c) \in Nat,
         NEW fsrs, NEW home \in Homes, NEW rating \in Ratings,
         NEW next \in NextStates(fsrs, CurrentState(c), home, rating)
  PROVE  LET b == Applied(c, CurrentState(c), next) IN
         /\ Sound(b) /\ LastPosition(b) = LastPosition(c)
         /\ CurrentState(c).wrap = "preview" => Schedule(b) = Schedule(c)
<1> DEFINE current == CurrentState(c)
           b == Applied(c, current, next)
<1>1. c \in Rows
  BY DEF Sound
<1>2. /\ current.wrap = "none" <=> c.odeck = NoDeck
      /\ current.wrap = "resched" => c.odeck # NoDeck
      /\ current.wrap = "preview" => c.odeck # NoDeck
      /\ current.wrap \in {"none", "resched", "preview"}
  BY CurrentTyped
<1>3. current.wrap # "preview" =>
        /\ current.of.kind = "New" <=> c.ctype = "New"
        /\ c.ctype = "New" => current.of.position = LastPosition(c)
  BY CurrentTyped
<1>4. /\ current.wrap = "preview" =>
           next.wrap = "preview" /\ next.of.secs \in Nat /\ next.of.finished \in BOOLEAN
      /\ current.wrap = "none" => next.wrap = "none" /\ next.of \in AfterStates
      /\ current.wrap = "resched" => next.wrap \in {"none", "resched"} /\ next.of \in AfterStates
      /\ next.wrap = "resched" => next.of.kind # "Review"
  BY NextTyped
<1> HIDE DEF current
<1>5. ASSUME current.wrap # "preview", NEW r, r.pos = c.pos
      PROVE  PositionAfter(r, current) = LastPosition(c)
  BY <1>3, <1>5, Fields DEF PositionAfter
<1>6. CASE current.wrap = "preview"
  <2>1. b = AppliedPreview(c, next.of)
    BY <1>4, <1>6 DEF Applied
  <2>2. CASE next.of.finished
    BY <2>1, <2>2, BackAsItWasSound DEF AppliedPreview, current
  <2>3. CASE ~next.of.finished
    <3> DEFINE d == timestamp + next.of.secs
    <3>1. d \in Nat
      BY <1>4, <1>6, TodayStarted
    <3>2. b = [c EXCEPT !.queue = "PreviewRepeat", !.due = d]
      BY <2>1, <2>3 DEF AppliedPreview
    <3> HIDE DEF d
    <3>3. c.odeck \in Homes /\ c.odue # 0 /\ c.deck \in FilteredDecks /\ c.odue = HomeDue(c)
      BY <1>2, <1>6, Fields
    <3>4. /\ b \in Rows /\ b.odeck = c.odeck /\ b.odue = c.odue /\ b.deck = c.deck
          /\ b.queue = "PreviewRepeat" /\ b.ctype = c.ctype /\ b.ivl = c.ivl
          /\ b.lapses = c.lapses /\ b.steps = c.steps /\ b.pos = c.pos
      BY <1>1, <3>1, <3>2 DEF Rows
    <3> HIDE DEF b
    <3>5. Sound(b) /\ HomeDue(b) = HomeDue(c)
      BY <3>3, <3>4, AwaySound
    <3>6. LastPosition(b) = LastPosition(c)
      BY <3>4, <3>5, Fields
    <3> QED BY <3>4, <3>5, <3>6 DEF Schedule, b, current
  <2> QED BY <1>4, <1>6, <2>2, <2>3
<1>7. CASE next.wrap = "none" /\ current.wrap # "preview"
  <2> DEFINE r == IF current.wrap = "none" THEN c ELSE BackToBeScheduled(c)
  <2>1. /\ r \in Rows /\ r.odeck = NoDeck /\ r.odue = 0 /\ r.deck \in Homes
        /\ r.pos = c.pos
    BY <1>1, <1>2, <1>7, Fields, BackToBeScheduledFields
  <2>2. b = AppliedNormal(r, current, next.of)
    BY <1>7 DEF Applied
  <2> HIDE DEF r
  <2>3. PositionAfter(r, current) = LastPosition(c)
    BY <1>5, <1>7, <2>1
  <2>4. next.of \in AfterStates
    BY <1>2, <1>4, <1>7
  <2>5. /\ b \in Rows /\ b.due \in Nat
        /\ b.odeck = NoDeck /\ b.odue = 0 /\ b.deck \in Homes /\ b.pos = LastPosition(c)
        /\ b.ctype # "New" /\ b.queue # "New"
    BY <2>1, <2>2, <2>3, <2>4, AppliedNormalFields
  <2> HIDE DEF b
  <2>6. Sound(b)
    BY <2>5, AtHomeSound
  <2> QED BY <1>7, <2>5, <2>6, Fields DEF b, current
<1>8. CASE next.wrap = "resched" /\ current.wrap = "resched"
  <2> DEFINE a == AppliedNormal(c, current, next.of)
  <2>1. b = [a EXCEPT !.odue = a.due]
    BY <1>8 DEF Applied
  <2>2. PositionAfter(c, current) = LastPosition(c)
    BY <1>5, <1>8
  <2>3. /\ a \in Rows /\ a.due \in Nat /\ a.due > 0
        /\ a.odeck = c.odeck /\ a.odue = c.odue /\ a.deck = c.deck /\ a.pos = LastPosition(c)
        /\ a.ctype # "New" /\ a.queue # "New"
    BY <1>1, <1>4, <1>8, <2>2, AppliedNormalFields
  <2> HIDE DEF a
  <2>4. c.odeck \in Homes /\ c.deck \in FilteredDecks
    BY <1>2, <1>8, Fields
  <2>5. /\ b \in Rows /\ b.odeck = c.odeck /\ b.odue = a.due /\ b.deck = c.deck
        /\ b.pos = LastPosition(c) /\ b.ctype # "New" /\ b.queue # "New"
    BY <2>1, <2>3 DEF Rows
  <2> HIDE DEF b
  <2>6. b.odue # 0
    BY <2>3, <2>5
  <2>7. Sound(b)
    BY <2>4, <2>5, <2>6, AwaySound
  <2> QED BY <1>8, <2>5, <2>7, Fields DEF b, current
<1> QED BY <1>2, <1>4, <1>6, <1>7, <1>8 DEF b, current

-----------------------------------------------------------------------------
(* Commands.                                                               *)

LEMMA QueueChangedSound ==
  ASSUME NEW c, Sound(c), NEW queue \in {"New", "Learn", "Review", "DayLearn"} \cup Inactive,
         queue = "New" => c.ctype = "New"
  PROVE  LET b == [c EXCEPT !.queue = queue] IN
         /\ Sound(b) /\ Schedule(b) = Schedule(c) /\ LastPosition(b) = LastPosition(c)
<1> DEFINE b == [c EXCEPT !.queue = queue]
<1>1. c \in Rows
  BY DEF Sound
<1>2. /\ b \in Rows /\ b.odeck = c.odeck /\ b.odue = c.odue /\ b.deck = c.deck
      /\ b.due = c.due /\ b.queue = queue /\ b.ctype = c.ctype /\ b.ivl = c.ivl
      /\ b.lapses = c.lapses /\ b.steps = c.steps /\ b.pos = c.pos
  BY <1>1 DEF Rows
<1> HIDE DEF b
<1>3. HomeDue(b) = HomeDue(c) /\ LastPosition(b) = LastPosition(c)
  BY <1>2 DEF HomeDue, LastPosition
<1>4. Sound(b)
  BY <1>2, <1>3, Fields DEF Sound, WayHome
<1> QED BY <1>2, <1>3, <1>4 DEF Schedule, b

LEMMA RepositionedSound ==
  ASSUME NEW c, Sound(c), c.ctype = "New" \/ c.queue = "New", NEW position \in Nat,
         c.odeck # NoDeck => position # 0
  PROVE  Sound(Repositioned(c, position)) /\ LastPosition(Repositioned(c, position)) = position
<1> DEFINE b == Repositioned(c, position)
<1>1. c \in Rows /\ c.ctype = "New" /\ (c.queue = "New" => c.ctype = "New")
  BY DEF Sound
<1>2. CASE c.odeck # NoDeck
  <2>1. b = [c EXCEPT !.odue = position]
    BY <1>1, <1>2 DEF Repositioned
  <2>2. /\ b \in Rows /\ b.odeck = c.odeck /\ b.odue = position /\ b.deck = c.deck
        /\ b.queue = c.queue /\ b.ctype = c.ctype /\ position # 0
    BY <1>1, <1>2, <2>1 DEF Rows
  <2> HIDE DEF b
  <2>3. c.odeck \in Homes /\ c.deck \in FilteredDecks
    BY <1>2, Fields
  <2>4. Sound(b) /\ HomeDue(b) = position
    BY <1>1, <2>2, <2>3, AwaySound
  <2> QED BY <1>1, <2>2, <2>4, Fields DEF b
<1>3. CASE c.odeck = NoDeck
  <2>1. b = [c EXCEPT !.due = position]
    BY <1>1, <1>3 DEF Repositioned
  <2>2. /\ b \in Rows /\ b.odeck = c.odeck /\ b.odue = c.odue /\ b.deck = c.deck
        /\ b.due = position /\ b.queue = c.queue /\ b.ctype = c.ctype
    BY <1>1, <2>1 DEF Rows
  <2> HIDE DEF b
  <2>3. c.odue = 0 /\ c.deck \in Homes
    BY <1>3, Fields
  <2>4. Sound(b) /\ HomeDue(b) = position
    BY <1>1, <1>3, <2>2, <2>3, AtHomeSound
  <2> QED BY <1>1, <2>2, <2>4, Fields DEF b
<1> QED BY <1>2, <1>3

LEMMA RemainingTyped ==
  ASSUME NEW left \in Nat, NEW old \in Seq(Nat), NEW new \in Seq(Nat)
  PROVE  NewRemaining(left, old, new) \subseteq Nat
<1> DEFINE last == Len(old) - left
           passed == IF last \in 1..Len(old) THEN LastWithin(new, old[last]) ELSE {}
<1>1. Len(new) \in Nat /\ Max2(Len(new), 1) \in Nat
  BY DEF Max2
<1>2. passed \subseteq 1..Len(new)
  BY DEF LastWithin
<1> HIDE DEF passed
<1>3. \A i \in passed : Max2(Len(new) - i, 1) \in Nat
  BY <1>1, <1>2 DEF Max2
<1>4. NewRemaining(left, old, new)
        = IF old = <<>> THEN {left}
          ELSE IF passed = {} THEN {Max2(Len(new), 1)}
          ELSE {Max2(Len(new) - i, 1) : i \in passed}
  BY DEF NewRemaining, passed
<1> QED BY <1>1, <1>3, <1>4

LEMMA ChangeDeckSound ==
  ASSUME NEW c, Sound(c), NEW home \in Homes, NEW left \in AdjustedSteps(c, home)
  PROVE  LET b == [BackAsItWas([c EXCEPT !.steps = left]) EXCEPT !.deck = home] IN
         Sound(b) /\ LastPosition(b) = LastPosition(c)
<1> DEFINE a == [c EXCEPT !.steps = left]
           r == BackAsItWas(a)
           b == [r EXCEPT !.deck = home]
<1>1. c \in Rows
  BY DEF Sound
<1>2. left \in Nat
  <2>1. /\ LearnSteps[home] \in Seq(Nat) /\ RelearnSteps[home] \in Seq(Nat)
        /\ LearnSteps[HomeOf(c)] \in Seq(Nat) /\ RelearnSteps[HomeOf(c)] \in Seq(Nat)
    BY Fields, ConstantsAssumption
  <2>2. c.steps \in Nat
    BY Fields
  <2> QED BY <2>1, <2>2, RemainingTyped DEF AdjustedSteps
<1>3. /\ a \in Rows /\ a.odeck = c.odeck /\ a.odue = c.odue /\ a.deck = c.deck
      /\ a.due = c.due /\ a.queue = c.queue /\ a.ctype = c.ctype /\ a.pos = c.pos
  BY <1>1, <1>2 DEF Rows
<1> HIDE DEF a
<1>4. HomeDue(a) = HomeDue(c) /\ LastPosition(a) = LastPosition(c)
  BY <1>3 DEF HomeDue, LastPosition
<1>5. Sound(a)
  BY <1>3, <1>4 DEF Sound, WayHome
<1>6. Sound(r) /\ r.odeck = NoDeck /\ LastPosition(r) = LastPosition(c)
  BY <1>4, <1>5, BackAsItWasSound
<1> HIDE DEF r
<1>7. r \in Rows /\ (r.queue = "New" => r.ctype = "New")
  BY <1>6 DEF Sound
<1>8. /\ b \in Rows /\ b.odeck = NoDeck /\ b.odue = r.odue /\ b.deck = home
      /\ b.due = r.due /\ b.queue = r.queue /\ b.ctype = r.ctype /\ b.pos = r.pos
  BY <1>6, <1>7 DEF Rows
<1> HIDE DEF b
<1>9. r.odue = 0 /\ r.due = HomeDue(r) /\ HomeDue(r) \in Nat
  BY <1>6, Fields
<1>10. Sound(b) /\ HomeDue(b) = HomeDue(r)
  BY <1>7, <1>8, <1>9, AtHomeSound
<1>11. LastPosition(b) = LastPosition(c)
  BY <1>6, <1>8, <1>10, Fields
<1> QED BY <1>10, <1>11 DEF b, r, a

-----------------------------------------------------------------------------
(* The invariant is kept by every step.                                    *)

LEMMA InitHolds ==
  Init => Known /\ IInv
<1> SUFFICES ASSUME Init PROVE Known /\ IInv
  OBVIOUS
<1>1. PICK home \in Homes, position \in Positions :
        card = NewCard(home, position) /\ given = position
  BY DEF Init
<1>2. position \in Nat
  BY ConstantsAssumption
<1>3. /\ card \in Rows /\ card.odeck = NoDeck /\ card.odue = 0 /\ card.deck = home
      /\ card.due = position /\ card.ctype = "New"
  BY <1>1, <1>2 DEF NewCard, Rows
<1>4. Sound(card) /\ HomeDue(card) = position
  BY <1>2, <1>3, AtHomeSound
<1>5. LastPosition(card) = given
  BY <1>1, <1>3, <1>4, Fields
<1> QED BY <1>1, <1>2, <1>4, <1>5, ConstantsAssumption DEF Init, Known, IInv, NoShow

\* An answer, shown or from the browser, to any current state of the card.
LEMMA AnsweredHolds ==
  ASSUME Known, NEW home \in Homes, NEW rating \in Ratings, NEW fsrs,
         NEW next \in NextStates(fsrs, CurrentState(card), home, rating),
         card' = Applied(card, CurrentState(card), next)
  PROVE  /\ Sound(card') /\ LastPosition(card') = given
         /\ inPreview => Schedule(card') = Schedule(card)
<1>1. /\ Sound(card) /\ LastPosition(card) = given
      /\ now \in Nat /\ given \in Nat
  BY DEF Known
<1>2. /\ Sound(card') /\ LastPosition(card') = LastPosition(card)
      /\ CurrentState(card).wrap = "preview" => Schedule(card') = Schedule(card)
  BY <1>1, AppliedSound
<1>3. inPreview => CurrentState(card).wrap = "preview"
  <2>1. CurrentState(card).wrap = IF card.odeck = NoDeck THEN "none"
                                  ELSE IF card.deck = Cram THEN "resched" ELSE "preview"
    BY <1>1, CurrentTyped
  <2>2. card.odeck = NoDeck => card.deck \in Homes
    BY <1>1, Fields
  <2> QED BY <2>1, <2>2, ConstantsAssumption DEF inPreview
<1> QED BY <1>1, <1>2, <1>3

LEMMA AnswerHolds ==
  ASSUME Known, NEW rating \in Ratings, Answer(rating) \/ GradeNow(rating)
  PROVE  Known' /\ (inPreview => Schedule(card') = Schedule(card))
<1>1. HomeOf(card) \in Homes /\ (shown # NoShow => shown.home \in Homes)
  <2>1. Sound(card)
    BY DEF Known
  <2> QED BY <2>1, Fields DEF Known
<1>2. PICK home \in Homes, fsrs \in FsrsModes :
        \E next \in NextStates(fsrs, CurrentState(card), home, rating) :
          card' = Applied(card, CurrentState(card), next)
  <2>1. CASE Answer(rating)
    BY <1>1, <2>1 DEF Answer
  <2>2. CASE GradeNow(rating)
    BY <1>1, <2>2 DEF GradeNow
  <2> QED BY <2>1, <2>2
<1>3. /\ Sound(card') /\ LastPosition(card') = given
      /\ inPreview => Schedule(card') = Schedule(card)
  BY <1>2, AnsweredHolds
<1>4. now' = now /\ given' = given /\ (shown' = shown \/ shown' = NoShow)
  BY DEF Answer, GradeNow
<1>5. /\ now \in Nat /\ given \in Nat
      /\ shown' # NoShow => shown'.home \in Homes
  BY <1>1, <1>4 DEF Known
<1>6. LastPosition(card)' = LastPosition(card')
  BY DEF LastPosition
<1> QED BY <1>3, <1>4, <1>5, <1>6 DEF Known, Sound, WayHome, HomeDue, LastPosition

\* A command that keeps the card's schedule keeps the invariant.
LEMMA KeptHolds ==
  ASSUME Known, Sound(card'), LastPosition(card') = given', given' \in Nat,
         UNCHANGED <<now, shown>>
  PROVE  Known'
<1>1. /\ now' \in Nat
      /\ shown' # NoShow => shown'.home \in Homes
  BY DEF Known
<1> QED BY <1>1 DEF Known, Sound, WayHome, HomeDue, LastPosition

LEMMA MovesHold ==
  ASSUME Known,
         \/ \E deck \in FilteredDecks : BuildFiltered(deck)
         \/ EmptyFiltered
         \/ \E queue \in Inactive : BuryOrSuspend(queue)
         \/ RestoreQueue
  PROVE  /\ Schedule(card') = Schedule(card)
         /\ ~misread' => Known'
<1>1. /\ Sound(card) /\ LastPosition(card) = given /\ given \in Nat
  BY DEF Known
<1>2. UNCHANGED <<now, shown, given>>
  BY DEF BuildFiltered, EmptyFiltered, BuryOrSuspend, RestoreQueue
<1>3. /\ Schedule(card') = Schedule(card)
      /\ ~misread' => Sound(card') /\ LastPosition(card') = LastPosition(card)
  <2>1. CASE \E deck \in FilteredDecks : BuildFiltered(deck)
    <3>1. PICK deck \in FilteredDecks : BuildFiltered(deck)
      BY <2>1
    <3> DEFINE home == IF card.deck = deck THEN BackAsItWas(card) ELSE card
    <3>2. /\ Sound(home) /\ Schedule(home) = Schedule(card)
          /\ LastPosition(home) = LastPosition(card)
      BY <1>1, BackAsItWasSound
    <3>3. /\ home.deck \notin FilteredDecks /\ card' = MovedIn(home, deck)
          /\ ~misread' => home.due # 0
      BY <3>1 DEF BuildFiltered
    <3> HIDE DEF home
    <3> QED BY <3>2, <3>3, MovedInSound
  <2>2. CASE EmptyFiltered
    BY <1>1, <2>2, BackAsItWasSound DEF EmptyFiltered
  <2>3. CASE \E queue \in Inactive : BuryOrSuspend(queue)
    <3>1. PICK queue \in Inactive : card' = [card EXCEPT !.queue = queue]
      BY <2>3 DEF BuryOrSuspend
    <3>2. queue \in {"New", "Learn", "Review", "DayLearn"} \cup Inactive /\ queue # "New"
      BY <3>1 DEF Inactive
    <3> QED BY <1>1, <3>1, <3>2, QueueChangedSound
  <2>4. CASE RestoreQueue
    <3>1. card' = [card EXCEPT !.queue = QueueOfType(card)]
      BY <2>4 DEF RestoreQueue
    <3>2. /\ QueueOfType(card) \in {"New", "Learn", "Review", "DayLearn"} \cup Inactive
          /\ QueueOfType(card) = "New" => card.ctype = "New"
      BY <1>1, Fields, QueueTyped
    <3> QED BY <1>1, <3>1, <3>2, QueueChangedSound
  <2> QED BY <2>1, <2>2, <2>3, <2>4
<1> QED BY <1>1, <1>2, <1>3, KeptHolds

LEMMA SetDueDateHolds ==
  ASSUME Known, NEW days \in DueDays, NEW reset \in BOOLEAN, SetDueDate(days, reset)
  PROVE  Known'
<1>1. /\ Sound(card) /\ LastPosition(card) = given /\ given \in Nat
      /\ today \in Nat
  BY TodayStarted DEF Known
<1>2. PICK fsrs \in FsrsModes : \E ivl \in DueInterval(fsrs, days, reset) :
        card' = [BackToBeScheduled(card) EXCEPT
                   !.pos = LastPosition(card), !.ivl = ivl, !.due = today + days,
                   !.ctype = "Review", !.queue = "Review"]
  BY DEF SetDueDate
<1>3. PICK ivl \in DueInterval(fsrs, days, reset) :
        card' = [BackToBeScheduled(card) EXCEPT
                   !.pos = LastPosition(card), !.ivl = ivl, !.due = today + days,
                   !.ctype = "Review", !.queue = "Review"]
  BY <1>2
<1>4. days \in Nat
  BY ConstantsAssumption
<1>5. ivl \in Nat
  <2>1. card.ivl \in Nat
    BY <1>1, Fields
  <2> QED BY <1>3, <1>4, <2>1, ConstantsAssumption DEF DueInterval, Max2
<1> DEFINE b == BackToBeScheduled(card)
           due == today + days
<1>6. b \in Rows /\ b.odeck = NoDeck /\ b.odue = 0 /\ b.deck \in Homes
  BY <1>1, BackToBeScheduledFields
<1>7. card' = [b EXCEPT !.pos = given, !.ivl = ivl, !.due = due,
                        !.ctype = "Review", !.queue = "Review"]
  BY <1>1, <1>3
<1>8. due \in Nat
  BY <1>1, <1>4
<1> HIDE DEF b, due
<1>9. /\ card' \in Rows /\ card'.odeck = NoDeck /\ card'.odue = 0 /\ card'.deck \in Homes
      /\ card'.due = due /\ card'.ctype = "Review" /\ card'.queue = "Review"
      /\ card'.pos = given
  BY <1>1, <1>5, <1>6, <1>7, <1>8 DEF Rows
<1>10. Sound(card')
  BY <1>8, <1>9, AtHomeSound
<1>11. UNCHANGED <<now, shown, given>>
  BY DEF SetDueDate
<1>12. LastPosition(card') = given'
  BY <1>9, <1>11 DEF LastPosition
<1> QED BY <1>1, <1>10, <1>11, <1>12, KeptHolds

LEMMA ForgetHolds ==
  ASSUME Known, NEW restore \in BOOLEAN, NEW reset \in BOOLEAN, NEW next \in Positions,
         Forget(restore, reset, next)
  PROVE  Known'
<1>1. /\ Sound(card) /\ LastPosition(card) = given /\ given \in Nat
  BY DEF Known
<1> DEFINE b == BackToBeScheduled(card)
           position == IF restore THEN given ELSE next
           lapses == IF reset THEN 0 ELSE b.lapses
<1>2. position \in Nat
  BY <1>1, ConstantsAssumption
<1>3. b \in Rows /\ b.odeck = NoDeck /\ b.odue = 0 /\ b.deck \in Homes /\ b.lapses = card.lapses
  BY <1>1, BackToBeScheduledFields
<1>4. /\ card' = [b EXCEPT !.due = position, !.ctype = "New", !.queue = "New", !.ivl = 0,
                           !.pos = NoPosition, !.lapses = lapses]
      /\ given' = position
      /\ UNCHANGED <<now, shown>>
  <2>1. position = IF restore /\ LastPosition(card) # NoPosition
                   THEN LastPosition(card) ELSE next
    BY <1>1 DEF NoPosition
  <2> HIDE DEF position
  <2>2. card' = [b EXCEPT !.due = position, !.ctype = "New", !.queue = "New", !.ivl = 0,
                          !.pos = NoPosition, !.lapses = lapses]
    BY <2>1 DEF Forget
  <2> QED BY <2>2 DEF Forget, position
<1>5. lapses \in Nat
  BY <1>1, <1>3, Fields
<1> HIDE DEF b, position, lapses
<1>6. /\ card' \in Rows /\ card'.odeck = NoDeck /\ card'.odue = 0 /\ card'.deck \in Homes
      /\ card'.due = position /\ card'.ctype = "New" /\ card'.queue = "New"
  BY <1>2, <1>3, <1>4, <1>5 DEF Rows
<1>7. Sound(card')
  BY <1>2, <1>6, AtHomeSound
<1>8. LastPosition(card') = given'
  BY <1>4, <1>6 DEF LastPosition
<1> QED BY <1>2, <1>4, <1>7, <1>8, KeptHolds

LEMMA RepositionsHold ==
  ASSUME Known, ~misread',
         \/ \E position \in Positions : Reposition(position)
         \/ \E start \in Positions : ShiftExisting(start, 1)
  PROVE  Known'
<1>1. Sound(card) /\ LastPosition(card) = given /\ given \in Nat
  BY DEF Known
<1>2. PICK position \in Nat :
        /\ card.ctype = "New" \/ card.queue = "New"
        /\ card.odeck # NoDeck => position # 0
        /\ card' = Repositioned(card, position) /\ given' = position
        /\ UNCHANGED <<now, shown>>
  <2>1. CASE \E position \in Positions : Reposition(position)
    <3>1. card.queue = "New" => card.ctype = "New"
      BY <1>1 DEF Sound
    <3> QED BY <2>1, <3>1, ConstantsAssumption DEF Reposition
  <2>2. CASE \E start \in Positions : ShiftExisting(start, 1)
    <3>1. PICK start \in Positions : ShiftExisting(start, 1)
      BY <2>2
    <3>2. card.ctype = "New" /\ card.odeck = NoDeck
      BY <3>1 DEF ShiftExisting
    <3>3. card.due = given
      BY <1>1, <3>2, Fields
    <3>4. card.due + 1 \in Nat
      BY <1>1, <3>3
    <3> QED BY <3>1, <3>2, <3>3, <3>4 DEF ShiftExisting
  <2> QED BY <2>1, <2>2
<1>3. Sound(card') /\ LastPosition(card') = given'
  BY <1>1, <1>2, RepositionedSound
<1> QED BY <1>2, <1>3, KeptHolds

LEMMA ChangeDeckHolds ==
  ASSUME Known, NEW home \in Homes, ChangeDeck(home)
  PROVE  Known'
<1>1. Sound(card) /\ LastPosition(card) = given /\ given \in Nat
  BY DEF Known
<1>2. PICK left \in AdjustedSteps(card, home) :
        card' = [BackAsItWas([card EXCEPT !.steps = left]) EXCEPT !.deck = home]
  BY DEF ChangeDeck
<1>3. Sound(card') /\ LastPosition(card') = LastPosition(card)
  BY <1>1, <1>2, ChangeDeckSound
<1>4. UNCHANGED <<now, shown, given>>
  BY DEF ChangeDeck
<1> QED BY <1>1, <1>3, <1>4, KeptHolds

LEMMA TicksHold ==
  ASSUME Known, Show \/ AnswerRefused \/ Tick \/ UNCHANGED vars
  PROVE  Known'
<1>1. card' = card /\ given' = given
  BY DEF Show, AnswerRefused, Tick, vars
<1>2. now \in Nat /\ (now' = now \/ now' = now + 1)
  BY ConstantsAssumption DEF Known, Show, AnswerRefused, Tick, vars
<1>3. HomeOf(card) \in Homes
  <2>1. Sound(card)
    BY DEF Known
  <2> QED BY <2>1, Fields
<1>4. shown' # NoShow => shown'.home \in Homes
  BY <1>3 DEF Known, Show, AnswerRefused, Tick, vars
<1>5. now' \in Nat
  BY <1>2
<1> QED BY <1>1, <1>4, <1>5 DEF Known, Sound, WayHome, HomeDue, LastPosition

\* Whatever a step does, it keeps the numbers of the history.
LEMMA HistoryTyped ==
  ASSUME IInv, [Next]_vars
  PROVE  /\ now' \in Nat /\ given' \in Nat /\ misread' \in BOOLEAN
         /\ misread => misread'
<1>1. now \in Nat /\ given \in Nat /\ misread \in BOOLEAN
  BY DEF IInv
<1>2. CASE \/ \E rating \in Ratings : Answer(rating) \/ GradeNow(rating)
           \/ Show \/ AnswerRefused \/ Tick \/ UNCHANGED vars
           \/ \E days \in DueDays, reset \in BOOLEAN : SetDueDate(days, reset)
           \/ \E home \in Homes : ChangeDeck(home)
  <2>1. UNCHANGED <<given, misread>> /\ (now' = now \/ now' = now + 1)
    BY <1>2 DEF Answer, GradeNow, Show, AnswerRefused, Tick, SetDueDate, ChangeDeck, vars
  <2> QED BY <1>1, <2>1
<1>3. CASE \/ \E deck \in FilteredDecks : BuildFiltered(deck)
           \/ EmptyFiltered
           \/ \E queue \in Inactive : BuryOrSuspend(queue)
           \/ RestoreQueue
  <2>1. UNCHANGED <<now, given>> /\ misread' \in BOOLEAN /\ (misread => misread')
    BY <1>1, <1>3 DEF BuildFiltered, EmptyFiltered, BuryOrSuspend, RestoreQueue
  <2> QED BY <1>1, <2>1
<1>4. CASE \/ \E restore, reset \in BOOLEAN, next \in Positions : Forget(restore, reset, next)
           \/ \E position \in Positions : Reposition(position)
           \/ \E start \in Positions : ShiftExisting(start, 1)
  <2>1. UNCHANGED now /\ misread' \in BOOLEAN /\ (misread => misread')
    BY <1>1, <1>4 DEF Forget, Reposition, ShiftExisting
  <2>2. given' \in Positions \cup {given, given + 1}
    BY <1>4 DEF Forget, Reposition, ShiftExisting
  <2> QED BY <1>1, <2>1, <2>2, ConstantsAssumption
<1> QED BY <1>2, <1>3, <1>4 DEF Next

LEMMA StepHolds ==
  IInv /\ [Next]_vars => IInv'
<1> SUFFICES ASSUME IInv, [Next]_vars, ~misread' PROVE Known'
  BY HistoryTyped DEF IInv
<1>0. Known
  BY HistoryTyped DEF IInv
<1>1. CASE \E rating \in Ratings : Answer(rating) \/ GradeNow(rating)
  BY <1>0, <1>1, AnswerHolds
<1>2. CASE \/ \E deck \in FilteredDecks : BuildFiltered(deck)
           \/ EmptyFiltered
           \/ \E queue \in Inactive : BuryOrSuspend(queue)
           \/ RestoreQueue
  BY <1>0, <1>2, MovesHold
<1>3. CASE \E days \in DueDays, reset \in BOOLEAN : SetDueDate(days, reset)
  BY <1>0, <1>3, SetDueDateHolds
<1>4. CASE \E restore, reset \in BOOLEAN, next \in Positions : Forget(restore, reset, next)
  BY <1>0, <1>4, ForgetHolds
<1>5. CASE \/ \E position \in Positions : Reposition(position)
           \/ \E start \in Positions : ShiftExisting(start, 1)
  BY <1>0, <1>5, RepositionsHold
<1>6. CASE \E home \in Homes : ChangeDeck(home)
  BY <1>0, <1>6, ChangeDeckHolds
<1>7. CASE Show \/ AnswerRefused \/ Tick \/ UNCHANGED vars
  BY <1>0, <1>7, TicksHold
<1> QED BY <1>1, <1>2, <1>3, <1>4, <1>5, <1>6, <1>7 DEF Next

-----------------------------------------------------------------------------
(* Theorems.                                                               *)

THEOREM Invariant ==
  Spec => []IInv
<1>1. Init => IInv
  BY InitHolds
<1>2. IInv /\ [Next]_vars => IInv'
  BY StepHolds
<1> QED BY <1>1, <1>2, PTL DEF Spec

(* Every field of the row keeps its type, for every choice of decks, steps,  *)
(* delays and settings: the number kept by original_due is never one of the  *)
(* negative places in a filtered deck (filtered/card.rs:28-45).              *)
THEOREM TypeCorrect ==
  Spec => []TypeOK
<1>1. IInv => TypeOK
  BY DEF IInv, Known, Sound, TypeOK
<1> QED BY <1>1, Invariant, PTL

(* A card in a filtered deck always has a deck and a number to go back to,   *)
(* and no other card has either left behind.                                 *)
THEOREM WayHomeKnown ==
  Spec => []HomeKnown
<1>1. IInv => HomeKnown
  BY DEF IInv, Known, Sound, WayHome, HomeKnown
<1> QED BY <1>1, Invariant, PTL

(* The position a card was last given as a new card is never lost: answering,*)
(* rescheduling, filtered decks and changes of deck all carry it along.      *)
THEOREM PositionNeverLost ==
  Spec => []PositionKnown
<1>1. IInv => PositionKnown
  BY DEF IInv, Known, PositionKnown
<1> QED BY <1>1, Invariant, PTL

(* Previewing a card, and moving, parking and restoring it, never change what*)
(* the scheduler will do with it at home.                                    *)
THEOREM PreviewsGiveBack ==
  Spec => PreviewGivesBack
<1> DEFINE Kept ==
      ~misread /\ Schedule(card') # Schedule(card) =>
        ~ \/ \E deck \in FilteredDecks : BuildFiltered(deck)
          \/ EmptyFiltered
          \/ \E queue \in Inactive : BuryOrSuspend(queue)
          \/ RestoreQueue
          \/ inPreview /\ \E rating \in Ratings : Answer(rating) \/ GradeNow(rating)
<1>1. IInv /\ [Next]_vars => [Kept]_vars
  <2> SUFFICES ASSUME IInv, ~misread PROVE Kept
    OBVIOUS
  <2>0. Known
    BY DEF IInv
  <2>1. ASSUME \/ \E deck \in FilteredDecks : BuildFiltered(deck)
               \/ EmptyFiltered
               \/ \E queue \in Inactive : BuryOrSuspend(queue)
               \/ RestoreQueue
        PROVE  Schedule(card') = Schedule(card)
    BY <2>0, <2>1, MovesHold
  <2>2. ASSUME inPreview, \E rating \in Ratings : Answer(rating) \/ GradeNow(rating)
        PROVE  Schedule(card') = Schedule(card)
    BY <2>0, <2>2, AnswerHolds
  <2> QED BY <2>1, <2>2
<1>2. Spec => [][Kept]_vars
  BY <1>1, Invariant, PTL DEF Spec
<1> QED BY <1>2 DEF PreviewGivesBack

-----------------------------------------------------------------------------
(* Due numbers of the right kind.  Days must stay below LastDay, above which *)
(* the code takes a number for a time: for the last day of the history, the  *)
(* longest step (rounded up to whole days), the longest interval and every   *)
(* day a user may choose.                                                    *)

StepsWithin(steps, longest) == \A i \in DOMAIN steps : steps[i] <= longest
LastToday == Max2(FirstTime, LastTime) \div DayLen
LongestDelay(longest) == longest + 2 * DayLen
Longest(longest) ==
  /\ \A home \in Homes : /\ StepsWithin(LearnSteps[home], longest)
                         /\ StepsWithin(RelearnSteps[home], longest)
  /\ LastToday + (LongestDelay(longest) \div DayLen) + 1 <= LastDay
  /\ LastToday + MaxInterval + 1 <= LastDay
  /\ \A days \in DueDays : LastToday + days <= LastDay
DaysFit == \E longest \in Nat : Longest(longest)

(* What the invariant adds for it.  An interval inside relearning is one an  *)
(* answer gave; only the last step of relearning adds a day to it.           *)
Fits(c) ==
  /\ c.ctype = "Review" => HomeDue(c) <= LastDay
  /\ c.deck \notin FilteredDecks /\ c.queue \notin Inactive => c.queue = QueueOfType(c)
  /\ c.ctype = "Relearn" => c.ivl <= MaxInterval
FInv == IInv /\ (misread \/ Fits(card)) /\ now <= Max2(FirstTime, LastTime)

LEMMA QuotientsGrow ==
  ASSUME NEW x \in Nat, NEW y \in Nat, x <= y, NEW d \in Nat \ {0}
  PROVE  x \div d <= y \div d
<1> DEFINE p == x \div d
           q == y \div d
<1>1. /\ p \in Int /\ d * p <= x /\ x < d * (p + 1)
      /\ q \in Int /\ d * q <= y /\ y < d * (q + 1)
  OBVIOUS
<1> HIDE DEF p, q
<1>2. ASSUME p > q PROVE FALSE
  <2>1. p >= q + 1
    BY <1>1, <1>2
  <2>2. d * p >= d * (q + 1)
    <3> DEFINE k == p - (q + 1)
    <3>1. k \in Nat /\ p = k + (q + 1)
      BY <1>1, <2>1
    <3> HIDE DEF k
    <3>2. d * k >= 0
      BY <3>1
    <3>3. d * p = d * k + d * (q + 1)
      BY <1>1, <3>1
    <3> QED BY <1>1, <3>1, <3>2, <3>3
  <2> QED BY <1>1, <2>2
<1>3. p <= q
  BY <1>1, <1>2
<1> QED BY <1>3 DEF p, q

LEMMA TodayBound ==
  ASSUME now \in Nat, now <= Max2(FirstTime, LastTime)
  PROVE  today <= LastToday /\ LastToday \in Nat /\ today \in Nat
<1>1. Max2(FirstTime, LastTime) \in Nat
  BY ConstantsAssumption DEF Max2
<1>2. today <= LastToday
  BY <1>1, QuotientsGrow, ConstantsAssumption DEF today, LastToday
<1> QED BY <1>1, <1>2, Quotients, ConstantsAssumption DEF today, LastToday

LEMMA WholeDaysBound ==
  ASSUME NEW x \in Nat
  PROVE  InWholeDays(x) <= x + DayLen
<1> DEFINE a == 2 * x + DayLen
           e == 2 * DayLen
           q == a \div e
<1>1. DayLen \in Nat \ {0}
  BY ConstantsAssumption
<1>2. a \in Nat /\ e \in Nat \ {0} /\ a = 2 * x + DayLen /\ e = 2 * DayLen
  BY <1>1
<1> HIDE DEF a, e
<1>3. q \in Nat /\ e * q <= a
  BY <1>2
<1> HIDE DEF q
<1>4. e * q = 2 * (q * DayLen)
  BY <1>1, <1>2, <1>3
<1>5. q * DayLen \in Nat
  BY <1>1, <1>3
<1> DEFINE m == q * DayLen
<1>6. m \in Nat /\ 2 * m <= 2 * x + DayLen
  BY <1>2, <1>3, <1>4, <1>5
<1>7. InWholeDays(x) = IF x > DayLen THEN m ELSE x
  BY <1>2 DEF InWholeDays, q, a, e
<1> HIDE DEF m
<1> QED BY <1>1, <1>6, <1>7

LEMMA HalfBound ==
  ASSUME NEW x \in Nat, NEW y \in Nat, x <= 2 * y
  PROVE  x \div 2 <= y /\ x \div 2 \in Nat
OBVIOUS

LEMMA DelaysBound ==
  ASSUME NEW longest \in Nat, NEW steps \in Seq(Nat), StepsWithin(steps, longest),
         NEW left \in Nat, NEW rating \in Ratings
  PROVE  \A d \in StepDelay(steps, left, rating) : d <= LongestDelay(longest)
<1>0. StepIndex(steps, left) \in Nat
  BY DelaysTyped
<1>1. Len(steps) \in Nat /\ DayLen \in Nat \ {0} /\ StepIndex(steps, left) \in Nat
  BY <1>0, ConstantsAssumption
<1>2. \A i \in Nat : \A d \in DelayAt(steps, i) : d \in Nat /\ d <= longest
  BY <1>1 DEF DelayAt, StepsWithin
<1>3. steps # <<>> => FirstHardDelay(steps) <= LongestDelay(longest)
  <2> SUFFICES ASSUME steps # <<>> PROVE FirstHardDelay(steps) <= LongestDelay(longest)
    OBVIOUS
  <2>1. /\ steps[1] \in Nat /\ steps[1] <= longest
        /\ Len(steps) > 1 => steps[2] \in Nat /\ steps[2] <= longest
    BY <1>1 DEF StepsWithin
  <2>2. CASE Len(steps) > 1
    <3> DEFINE m == steps[1] + steps[2]
               h == m \div 2
    <3>1. m \in Nat /\ m <= 2 * longest
      BY <2>1, <2>2
    <3> HIDE DEF m
    <3>2. h \in Nat /\ h <= longest
      BY <3>1, HalfBound
    <3>3. FirstHardDelay(steps) = InWholeDays(h)
      BY <2>2 DEF FirstHardDelay, h, m
    <3> HIDE DEF h
    <3>4. InWholeDays(h) <= h + DayLen /\ InWholeDays(h) \in Nat
      BY <3>2, WholeDaysBound, WholeDaysNat
    <3> QED BY <1>1, <3>2, <3>3, <3>4 DEF LongestDelay
  <2>3. CASE ~(Len(steps) > 1)
    <3> DEFINE k == (steps[1] * 3) \div 2
               h == Min2(k, steps[1] + DayLen)
    <3>1. k \in Nat
      BY <2>1, Quotients
    <3> HIDE DEF k
    <3>2. h \in Nat /\ h <= longest + DayLen
      BY <1>1, <2>1, <3>1 DEF Min2
    <3>3. FirstHardDelay(steps) = InWholeDays(h)
      BY <2>3 DEF FirstHardDelay, h, k
    <3> HIDE DEF h
    <3>4. InWholeDays(h) <= h + DayLen /\ InWholeDays(h) \in Nat
      BY <3>2, WholeDaysBound, WholeDaysNat
    <3> QED BY <1>1, <3>2, <3>3, <3>4 DEF LongestDelay
  <2> QED BY <2>2, <2>3
<1>4. longest <= LongestDelay(longest) /\ LongestDelay(longest) \in Nat
  BY <1>1 DEF LongestDelay
<1>5. \A i \in Nat : \A d \in DelayAt(steps, i) : d <= LongestDelay(longest)
  BY <1>2, <1>4
<1>6. /\ \A d \in AgainDelay(steps) : d <= LongestDelay(longest)
      /\ \A d \in GoodDelay(steps, left) : d <= LongestDelay(longest)
  BY <1>1, <1>5 DEF AgainDelay, GoodDelay
<1>7. \A d \in HardDelay(steps, left) : d <= LongestDelay(longest)
  BY <1>1, <1>3, <1>5 DEF HardDelay
<1> QED BY <1>6, <1>7 DEF StepDelay, Ratings
(* What follows a state, for numbers: no delay is longer than the longest,   *)
(* and only a review may get one day more than an answer gives.              *)
Short(s, longest) ==
  /\ s.kind \in {"Learning", "Relearning"} => s.secs <= LongestDelay(longest)
  /\ s.kind = "Review" => s.days <= MaxInterval + 1
  /\ s.kind = "Relearning" => s.days <= MaxInterval

LEMMA ShortBound ==
  ASSUME NEW longest \in Nat
  PROVE  /\ \A x \in shortDelays : x \in Nat /\ x <= LongestDelay(longest)
         /\ \A d \in Intervals : d \in Nat /\ d <= MaxInterval /\ d <= MaxInterval + 1
         /\ 0 <= LongestDelay(longest) /\ 1 <= MaxInterval /\ LongestDelay(longest) \in Nat
<1>1. DayLen \in Nat \ {0} /\ MaxInterval \in Nat \ {0}
  BY ConstantsAssumption
<1>2. (DayLen - 1) \div 2 \in Nat /\ (DayLen - 1) \div 2 <= DayLen
  BY <1>1, HalfBound
<1> DEFINE h == (DayLen - 1) \div 2
<1>3. shortDelays = 0..h
  BY DEF shortDelays
<1>4. h \in Nat /\ h <= DayLen
  BY <1>2
<1> HIDE DEF h
<1>5. \A x \in shortDelays : x \in Nat /\ x <= LongestDelay(longest)
  BY <1>1, <1>3, <1>4 DEF LongestDelay
<1>6. \A d \in Intervals : d \in Nat /\ d <= MaxInterval /\ d <= MaxInterval + 1
  BY <1>1 DEF Intervals
<1> QED BY <1>1, <1>5, <1>6 DEF LongestDelay

LEMMA StatesShort ==
  ASSUME NEW longest \in Nat
  PROVE  /\ \A l, d : d <= LongestDelay(longest) => Short(Learning(l, d), longest)
         /\ \A d, e, n, b : d <= MaxInterval + 1 => Short(Review(d, e, n, b), longest)
         /\ \A l, x, d, n, b : x <= LongestDelay(longest) /\ d <= MaxInterval
                                  => Short(Relearning(l, x, d, n, b), longest)
BY DEF Short, Learning, Review, Relearning

LEMMA LearningShort ==
  ASSUME NEW longest \in Nat, NEW fsrs, NEW left \in Nat,
         NEW steps \in Seq(Nat), StepsWithin(steps, longest), NEW rating \in Ratings
  PROVE  \A r \in AfterLearning(fsrs, left, steps, rating) : Short(r, longest)
<1>1. \A d \in StepDelay(steps, left, rating) : d <= LongestDelay(longest)
  BY DelaysBound
<1> DEFINE delays == StepDelay(steps, left, rating)
           kept == IF rating = "again" THEN Len(steps) ELSE left
           next == StepsLeft(steps, left, rating)
<1>2. /\ \A d \in delays : Short(Learning(next, d), longest)
      /\ \A d \in shortDelays : Short(Learning(kept, d), longest)
      /\ \A d \in Intervals : Short(Review(d, 0, 0, FALSE), longest)
  BY <1>1, StatesShort, ShortBound
<1>3. AfterLearning(fsrs, left, steps, rating)
        \subseteq {Learning(next, d) : d \in delays}
                  \cup ({Review(d, 0, 0, FALSE) : d \in Intervals}
                         \cup {Learning(kept, d) : d \in shortDelays})
  BY DEF AfterLearning
<1> HIDE DEF delays, kept, next
<1> QED BY <1>2, <1>3

LEMMA ReviewShort ==
  ASSUME NEW longest \in Nat, NEW fsrs, NEW s,
         NEW steps \in Seq(Nat), StepsWithin(steps, longest), NEW rating \in Ratings
  PROVE  \A r \in AfterReview(fsrs, s, steps, rating) : Short(r, longest)
<1>1. steps # <<>> => steps[1] <= LongestDelay(longest)
  <2> SUFFICES ASSUME steps # <<>> PROVE steps[1] <= LongestDelay(longest)
    OBVIOUS
  <2>1. 1 \in DOMAIN steps /\ steps[1] \in Nat
    OBVIOUS
  <2>2. steps[1] <= longest
    BY <2>1 DEF StepsWithin
  <2> QED BY <2>1, <2>2, ConstantsAssumption DEF LongestDelay
<1> DEFINE n == s.lapses + 1
           b == LeechMet(n)
<1>2. /\ \A d \in Intervals : Short(Review(d, 0, s.lapses, s.leeched), longest)
      /\ \A d \in Intervals : Short(Review(d, 0, n, b), longest)
      /\ \A x \in shortDelays : Short(Relearning(0, x, 1, n, b), longest)
  BY StatesShort, ShortBound
<1>3. steps # <<>> =>
        \A d \in Intervals : Short(Relearning(Len(steps), steps[1], d, n, b), longest)
  BY <1>1, StatesShort, ShortBound
<1>4. CASE rating # "again"
  BY <1>2, <1>4 DEF AfterReview
<1> HIDE DEF b
<1>5. CASE rating = "again" /\ steps # <<>>
  <2>1. AfterReview(fsrs, s, steps, rating)
          = {Relearning(Len(steps), steps[1], d, n, b) : d \in Intervals}
    BY <1>5 DEF AfterReview, b
  <2> HIDE DEF n
  <2> QED BY <1>3, <1>5, <2>1
<1>6. CASE rating = "again" /\ steps = <<>>
  <2>1. AfterReview(fsrs, s, steps, rating)
          \subseteq {Review(d, 0, n, b) : d \in Intervals}
                    \cup {Relearning(0, x, 1, n, b) : x \in shortDelays}
    BY <1>6 DEF AfterReview, b
  <2> HIDE DEF n
  <2> QED BY <1>2, <2>1
<1> QED BY <1>4, <1>5, <1>6

LEMMA RelearningShort ==
  ASSUME NEW longest \in Nat, NEW fsrs, NEW s, s.left \in Nat, s.days \in Nat,
         s.days <= MaxInterval,
         NEW steps \in Seq(Nat), StepsWithin(steps, longest), NEW rating \in Ratings
  PROVE  \A r \in AfterRelearning(fsrs, s, steps, rating) : Short(r, longest)
<1>1. \A d \in StepDelay(steps, s.left, rating) : d <= LongestDelay(longest)
  BY DelaysBound
<1>2. \A d \in (IF rating = "again" THEN Intervals ELSE {s.days}) : d <= MaxInterval
  BY ShortBound
<1>3. MaxInterval \in Nat /\ (IF rating = "easy" THEN s.days + 1 ELSE s.days) <= MaxInterval + 1
  BY ConstantsAssumption
<1> DEFINE delays == StepDelay(steps, s.left, rating)
           left == StepsLeft(steps, s.left, rating)
           lapseDays == IF rating = "again" THEN Intervals ELSE {s.days}
           more == IF rating = "easy" THEN s.days + 1 ELSE s.days
<1>4. /\ \A d \in delays, days \in lapseDays :
           Short(Relearning(left, d, days, s.lapses, s.leeched), longest)
      /\ Short(Review(more, 0, s.lapses, s.leeched), longest)
      /\ \A d \in Intervals : Short(Review(d, 0, s.lapses, s.leeched), longest)
      /\ \A secs \in shortDelays, d \in Intervals :
           Short(Relearning(left, secs, d, s.lapses, s.leeched), longest)
  BY <1>1, <1>2, <1>3, StatesShort, ShortBound
<1>5. \A r \in AfterRelearning(fsrs, s, steps, rating) :
        \/ \E d \in delays, days \in lapseDays :
             r = Relearning(left, d, days, s.lapses, s.leeched)
        \/ r = Review(more, 0, s.lapses, s.leeched)
        \/ \E d \in Intervals : r = Review(d, 0, s.lapses, s.leeched)
        \/ \E secs \in shortDelays, d \in Intervals :
             r = Relearning(left, secs, d, s.lapses, s.leeched)
  BY DEF AfterRelearning
<1> HIDE DEF delays, left, lapseDays, more
<1> QED BY <1>4, <1>5

LEMMA NormalShort ==
  ASSUME NEW longest \in Nat, NEW fsrs, NEW s \in FromStates, NEW home \in Homes,
         StepsWithin(LearnSteps[home], longest), StepsWithin(RelearnSteps[home], longest),
         s.kind = "Relearning" => s.days <= MaxInterval,
         NEW rating \in Ratings
  PROVE  \A r \in AfterNormal(fsrs, s, home, rating) : Short(r, longest)
<1> DEFINE learn == LearnSteps[home]
           relearn == RelearnSteps[home]
<1>1. learn \in Seq(Nat) /\ relearn \in Seq(Nat) /\ Len(learn) \in Nat
  BY ConstantsAssumption
<1>2. StepsWithin(learn, longest) /\ StepsWithin(relearn, longest)
  OBVIOUS
<1> HIDE DEF learn, relearn
<1>3. CASE s \in [kind : {"New"}, position : Nat]
  <2>1. AfterNormal(fsrs, s, home, rating) = AfterLearning(fsrs, Len(learn), learn, rating)
    BY <1>3 DEF AfterNormal, learn
  <2> QED BY <1>1, <1>2, <2>1, LearningShort
<1>4. CASE s \in [kind : {"Learning"}, left : Nat, secs : Nat]
  <2>1. AfterNormal(fsrs, s, home, rating) = AfterLearning(fsrs, s.left, learn, rating)
    BY <1>4 DEF AfterNormal, learn
  <2>2. s.left \in Nat
    BY <1>4
  <2> QED BY <1>1, <1>2, <2>1, <2>2, LearningShort
<1>5. CASE s \in [kind : {"Review"}, days : Nat, elapsed : Nat, lapses : Nat, leeched : BOOLEAN]
  <2>1. AfterNormal(fsrs, s, home, rating) = AfterReview(fsrs, s, relearn, rating)
    BY <1>5 DEF AfterNormal, relearn
  <2> QED BY <1>1, <1>2, <2>1, ReviewShort
<1>6. CASE s \in [kind : {"Relearning"}, left : Nat, secs : Nat, days : Nat, lapses : Nat,
                  leeched : BOOLEAN]
  <2>1. AfterNormal(fsrs, s, home, rating) = AfterRelearning(fsrs, s, relearn, rating)
    BY <1>6 DEF AfterNormal, relearn
  <2>2. s.left \in Nat /\ s.days \in Nat /\ s.days <= MaxInterval
    BY <1>6
  <2> QED BY <1>1, <1>2, <2>1, <2>2, RelearningShort
<1> QED BY <1>3, <1>4, <1>5, <1>6 DEF FromStates, AfterStates

(* The state of a card in relearning has the interval of its row.            *)
LEMMA CurrentShort ==
  ASSUME NEW c, Sound(c), Fits(c), CurrentState(c).wrap # "preview",
         CurrentState(c).of.kind = "Relearning"
  PROVE  CurrentState(c).of.days <= MaxInterval
<1>1. c.ctype \in {"New", "Learn", "Review", "Relearn"}
  BY Fields
<1>2. \A due : CurrentNormal(c, due).kind = "Relearning" =>
                 CurrentNormal(c, due).days = c.ivl /\ c.ctype = "Relearn"
  BY <1>1 DEF CurrentNormal, NewState, Learning, Review, Relearning
<1>3. \E due : CurrentState(c).of = CurrentNormal(c, due)
  BY DEF CurrentState
<1> QED BY <1>2, <1>3 DEF Fits
(* A wait within the day is a time, a longer one a day: its queue is the one *)
(* its due number calls for.                                                 *)
LEMMA WaitingFits ==
  ASSUME NEW longest \in Nat, Longest(longest),
         now \in Nat, now <= Max2(FirstTime, LastTime),
         NEW x \in Nat, x <= LongestDelay(longest)
  PROVE  Waiting(x).queue = IF IsTimestamp(Waiting(x).due) THEN "Learn" ELSE "DayLearn"
<1>1. LastDay \in Nat /\ Launch \in Nat /\ Launch > LastDay /\ DayLen \in Nat \ {0}
  BY ConstantsAssumption
<1>2. today \in Nat /\ LastToday \in Nat /\ today <= LastToday
  BY TodayBound
<1>3. CASE x >= untilRollover
  <2> DEFINE y == x - untilRollover
             q == y \div DayLen
             m == LongestDelay(longest) \div DayLen
  <2>1. untilRollover \in Int /\ untilRollover >= 0
    <3> DEFINE e == today + 1
    <3>1. e \in Nat /\ now < DayLen * e
      BY <1>1 DEF today
    <3> HIDE DEF e
    <3>2. e * DayLen = DayLen * e /\ e * DayLen \in Nat
      BY <1>1, <3>1
    <3>3. untilRollover = e * DayLen - now
      BY DEF untilRollover, e
    <3> DEFINE f == e * DayLen
    <3>4. f \in Nat /\ now < f /\ untilRollover = f - now
      BY <3>1, <3>2, <3>3
    <3> HIDE DEF f
    <3> QED BY <3>4
  <2>2. y \in Nat /\ y <= LongestDelay(longest) /\ LongestDelay(longest) \in Nat
    BY <1>3, <2>1, ShortBound
  <2>3. q \in Nat /\ m \in Nat /\ q <= m
    BY <1>1, <2>2, Quotients, QuotientsGrow
  <2>4. LastToday + m + 1 <= LastDay
    BY DEF Longest
  <2>5. Waiting(x).queue = "DayLearn" /\ Waiting(x).due = today + q + 1
    BY <1>3 DEF Waiting
  <2> HIDE DEF q, m
  <2>6. ~(Waiting(x).due > LastDay)
    BY <1>1, <1>2, <2>3, <2>4, <2>5
  <2> QED BY <2>5, <2>6 DEF IsTimestamp
<1>4. CASE ~(x >= untilRollover)
  <2>1. Waiting(x).queue = "Learn" /\ Waiting(x).due = timestamp + x
    BY <1>4 DEF Waiting
  <2>2. Waiting(x).due > LastDay
    BY <1>1, <2>1 DEF timestamp
  <2> QED BY <2>1, <2>2 DEF IsTimestamp
<1> QED BY <1>3, <1>4

(* What an answer that is not to a preview writes fits.                      *)
LEMMA AppliedNormalFits ==
  ASSUME NEW c \in Rows, NEW longest \in Nat, Longest(longest),
         now \in Nat, now <= Max2(FirstTime, LastTime),
         NEW current, NEW s \in AfterStates, Short(s, longest),
         PositionAfter(c, current) \in Nat \cup {NoPosition}
  PROVE  LET b == AppliedNormal(c, current, s) IN
         /\ b.ctype = "Review" => b.due <= LastDay
         /\ b.queue \notin Inactive => b.queue = QueueOfType(b)
         /\ b.ctype = "Relearn" => b.ivl <= MaxInterval
<1> DEFINE p == PositionAfter(c, current)
<1>1. p \in Nat \cup {NoPosition}
  OBVIOUS
<1> HIDE DEF p
<1>2. CASE s \in [kind : {"Learning"}, left : Nat, secs : Nat]
  <2> DEFINE w == Waiting(s.secs)
             b == [c EXCEPT !.ctype = "Learn", !.steps = s.left, !.pos = p,
                            !.queue = w.queue, !.due = w.due]
  <2>1. s.secs \in Nat /\ s.secs <= LongestDelay(longest)
    BY <1>2 DEF Short
  <2>2. w.queue = IF IsTimestamp(w.due) THEN "Learn" ELSE "DayLearn"
    BY <2>1, WaitingFits
  <2>3. AppliedNormal(c, current, s) = b
    BY <1>2 DEF AppliedNormal, AppliedLearning, p
  <2> HIDE DEF w
  <2>4. b.ctype = "Learn" /\ b.queue = w.queue /\ b.due = w.due
    BY DEF Rows
  <2> HIDE DEF b
  <2> QED BY <2>2, <2>3, <2>4 DEF QueueOfType
<1>3. CASE s \in [kind : {"Review"}, days : Nat, elapsed : Nat, lapses : Nat, leeched : BOOLEAN]
  <2> DEFINE q == IF s.leeched THEN "Suspended" ELSE "Review"
             d == today + s.days
             b == [c EXCEPT !.ctype = "Review", !.steps = 0, !.pos = p, !.ivl = s.days,
                            !.lapses = s.lapses, !.queue = q, !.due = d]
  <2>1. s.days \in Nat /\ s.days <= MaxInterval + 1
    BY <1>3 DEF Short
  <2>2. d <= LastDay
    BY <2>1, TodayBound, ConstantsAssumption DEF Longest
  <2>3. AppliedNormal(c, current, s) = b
    BY <1>3 DEF AppliedNormal, AppliedReview, p
  <2> HIDE DEF q, d
  <2>4. b.ctype = "Review" /\ b.queue = q /\ b.due = d
    BY DEF Rows
  <2> HIDE DEF b
  <2> QED BY <2>2, <2>3, <2>4 DEF QueueOfType, Inactive, q
<1>4. CASE s \in [kind : {"Relearning"}, left : Nat, secs : Nat, days : Nat, lapses : Nat,
                  leeched : BOOLEAN]
  <2> DEFINE w == Waiting(s.secs)
             q == IF s.leeched THEN "Suspended" ELSE w.queue
             b == [c EXCEPT !.ctype = "Relearn", !.steps = s.left, !.pos = p, !.ivl = s.days,
                            !.lapses = s.lapses, !.queue = q, !.due = w.due]
  <2>1. s.secs \in Nat /\ s.secs <= LongestDelay(longest) /\ s.days <= MaxInterval
    BY <1>4 DEF Short
  <2>2. w.queue = IF IsTimestamp(w.due) THEN "Learn" ELSE "DayLearn"
    BY <2>1, WaitingFits
  <2>3. AppliedNormal(c, current, s) = b
    BY <1>4 DEF AppliedNormal, AppliedRelearning, p
  <2> HIDE DEF w
  <2>4. q \in Inactive \/ q = w.queue
    BY DEF Inactive
  <2> HIDE DEF q
  <2>5. b.ctype = "Relearn" /\ b.queue = q /\ b.due = w.due /\ b.ivl = s.days
    BY DEF Rows
  <2> HIDE DEF b
  <2> QED BY <2>1, <2>2, <2>3, <2>4, <2>5 DEF QueueOfType
<1> QED BY <1>2, <1>3, <1>4 DEF AfterStates

LEMMA BackAsItWasFits ==
  ASSUME NEW c, Sound(c), Fits(c)
  PROVE  Fits(BackAsItWas(c))
<1>1. CASE c.odeck = NoDeck
  BY <1>1 DEF BackAsItWas
<1>2. CASE c.odeck # NoDeck
  <2> DEFINE d == [c EXCEPT !.due = HomeDue(c)]
             queue == IF c.queue \in Inactive THEN c.queue ELSE QueueOfType(d)
             b == [c EXCEPT !.deck = c.odeck, !.odeck = NoDeck, !.odue = 0,
                            !.due = HomeDue(c), !.queue = queue]
  <2>1. c \in Rows
    BY DEF Sound
  <2>2. BackAsItWas(c) = b
    <3>1. (IF c.odue # 0 THEN c.odue ELSE c.due) = HomeDue(c)
      BY <1>2 DEF HomeDue
    <3> QED BY <1>2, <3>1 DEF BackAsItWas
  <2>3. d.ctype = c.ctype /\ d.due = HomeDue(c)
    BY <2>1 DEF Rows
  <2> HIDE DEF d
  <2>4. /\ b.odeck = NoDeck /\ b.due = HomeDue(c) /\ b.queue = queue /\ b.ctype = c.ctype
        /\ b.ivl = c.ivl
    BY <2>1 DEF Rows
  <2> HIDE DEF b
  <2>5. HomeDue(b) = HomeDue(c) /\ QueueOfType(b) = QueueOfType(d)
    BY <2>3, <2>4 DEF HomeDue, QueueOfType
  <2> QED BY <2>2, <2>4, <2>5 DEF Fits
<1> QED BY <1>1, <1>2
LEMMA AppliedFits ==
  ASSUME NEW c, Sound(c), Fits(c), NEW longest \in Nat, Longest(longest),
         now \in Nat, now <= Max2(FirstTime, LastTime),
         LastPosition(c) \in Nat,
         NEW fsrs, NEW home \in Homes, NEW rating \in Ratings,
         NEW next \in NextStates(fsrs, CurrentState(c), home, rating)
  PROVE  Fits(Applied(c, CurrentState(c), next))
<1> DEFINE current == CurrentState(c)
           b == Applied(c, current, next)
<1>1. c \in Rows
  BY DEF Sound
<1>2. /\ current.wrap = "none" <=> c.odeck = NoDeck
      /\ current.wrap = "resched" => c.odeck # NoDeck
      /\ current.wrap = "preview" => c.odeck # NoDeck
      /\ current.wrap \in {"none", "resched", "preview"}
      /\ current.wrap # "preview" => current.of \in FromStates
  BY CurrentTyped
<1>3. current.wrap # "preview" =>
        /\ current.of.kind = "New" <=> c.ctype = "New"
        /\ c.ctype = "New" => current.of.position = LastPosition(c)
  BY CurrentTyped
<1>4. /\ current.wrap = "preview" => next.wrap = "preview"
      /\ current.wrap = "none" => next.wrap = "none" /\ next.of \in AfterStates
      /\ current.wrap = "resched" => next.wrap \in {"none", "resched"} /\ next.of \in AfterStates
      /\ next.wrap = "resched" => next.of.kind # "Review"
  BY NextTyped
<1>5. current.wrap # "preview" => Short(next.of, longest)
  <2> SUFFICES ASSUME current.wrap # "preview" PROVE Short(next.of, longest)
    OBVIOUS
  <2>1. current.of.kind = "Relearning" => current.of.days <= MaxInterval
    BY CurrentShort
  <2>2. StepsWithin(LearnSteps[home], longest) /\ StepsWithin(RelearnSteps[home], longest)
    BY DEF Longest
  <2> HIDE DEF current
  <2>3. \A r \in AfterNormal(fsrs, current.of, home, rating) : Short(r, longest)
    BY <1>2, <2>1, <2>2, NormalShort
  <2>4. next.of \in AfterNormal(fsrs, current.of, home, rating)
    <3>1. next \in NextStates(fsrs, current, home, rating)
      BY DEF current
    <3>2. CASE current.wrap = "none"
      BY <3>1, <3>2 DEF NextStates
    <3>3. CASE current.wrap = "resched"
      BY <3>1, <3>3 DEF NextStates
    <3> QED BY <1>2, <3>2, <3>3
  <2> QED BY <2>3, <2>4
<1> HIDE DEF current
<1>6. ASSUME current.wrap # "preview", NEW r, r.pos = c.pos
      PROVE  PositionAfter(r, current) = LastPosition(c)
  BY <1>3, <1>6, Fields DEF PositionAfter
<1>7. CASE current.wrap = "preview"
  <2>1. b = AppliedPreview(c, next.of)
    BY <1>4, <1>7 DEF Applied
  <2>2. CASE next.of.finished
    BY <2>1, <2>2, BackAsItWasFits DEF AppliedPreview, current
  <2>3. CASE ~next.of.finished
    <3> DEFINE d == timestamp + next.of.secs
    <3>1. b = [c EXCEPT !.queue = "PreviewRepeat", !.due = d]
      BY <2>1, <2>3 DEF AppliedPreview
    <3> HIDE DEF d
    <3>2. c.odeck # NoDeck /\ c.odue # 0 /\ c.deck \in FilteredDecks
      BY <1>2, <1>7, Fields DEF Sound, WayHome
    <3>3. /\ b.odeck = c.odeck /\ b.odue = c.odue /\ b.deck = c.deck
          /\ b.ctype = c.ctype /\ b.ivl = c.ivl
      BY <1>1, <3>1 DEF Rows
    <3> HIDE DEF b
    <3>4. HomeDue(b) = HomeDue(c)
      BY <3>2, <3>3 DEF HomeDue
    <3> QED BY <3>2, <3>3, <3>4 DEF Fits, b, current
  <2> QED BY <2>2, <2>3
<1>8. CASE next.wrap = "none" /\ current.wrap # "preview"
  <2> DEFINE r == IF current.wrap = "none" THEN c ELSE BackToBeScheduled(c)
  <2>1. /\ r \in Rows /\ r.odeck = NoDeck /\ r.odue = 0 /\ r.deck \in Homes
        /\ r.pos = c.pos
    BY <1>1, <1>2, <1>8, Fields, BackToBeScheduledFields
  <2>2. b = AppliedNormal(r, current, next.of)
    BY <1>8 DEF Applied
  <2> HIDE DEF r
  <2>3. PositionAfter(r, current) = LastPosition(c)
    BY <1>6, <1>8, <2>1
  <2>4. next.of \in AfterStates /\ Short(next.of, longest)
    BY <1>2, <1>4, <1>5, <1>8
  <2>5. /\ b.ctype = "Review" => b.due <= LastDay
        /\ b.queue \notin Inactive => b.queue = QueueOfType(b)
        /\ b.ctype = "Relearn" => b.ivl <= MaxInterval
    BY <2>1, <2>2, <2>3, <2>4, AppliedNormalFits
  <2>6. b.odeck = NoDeck
    BY <2>1, <2>2, <2>3, <2>4, AppliedNormalFields
  <2> HIDE DEF b
  <2>7. HomeDue(b) = b.due
    BY <2>6 DEF HomeDue
  <2> QED BY <2>5, <2>7 DEF Fits, b, current
<1>9. CASE next.wrap = "resched" /\ current.wrap = "resched"
  <2> DEFINE a == AppliedNormal(c, current, next.of)
  <2>1. b = [a EXCEPT !.odue = a.due]
    BY <1>9 DEF Applied
  <2>2. PositionAfter(c, current) = LastPosition(c) /\ next.of \in AfterStates
        /\ Short(next.of, longest) /\ next.of.kind # "Review"
    BY <1>4, <1>5, <1>6, <1>9
  <2>3. /\ a \in Rows /\ a.due \in Nat /\ a.due > 0 /\ a.odeck = c.odeck /\ a.deck = c.deck
    BY <1>1, <2>2, AppliedNormalFields
  <2>4. /\ a.ctype = "Review" => a.due <= LastDay
        /\ a.ctype = "Relearn" => a.ivl <= MaxInterval
    BY <1>1, <2>2, AppliedNormalFits
  <2> HIDE DEF a
  <2>5. c.odeck # NoDeck /\ c.deck \in FilteredDecks
    BY <1>2, <1>9, Fields
  <2>6. /\ b.odeck = c.odeck /\ b.odue = a.due /\ b.deck = c.deck /\ b.ctype = a.ctype
        /\ b.ivl = a.ivl
    BY <2>1, <2>3 DEF Rows
  <2> HIDE DEF b
  <2>7. HomeDue(b) = a.due
    BY <2>3, <2>5, <2>6 DEF HomeDue
  <2> QED BY <2>4, <2>5, <2>6, <2>7 DEF Fits, b, current
<1> QED BY <1>2, <1>4, <1>7, <1>8, <1>9 DEF b, current

LEMMA MovedInFits ==
  ASSUME NEW c, Sound(c), Fits(c), c.deck \notin FilteredDecks, NEW deck \in FilteredDecks
  PROVE  Fits(MovedIn(c, deck))
<1>1. Schedule(MovedIn(c, deck)) = Schedule(c)
  BY MovedInSound
<1>2. c \in Rows /\ c.odue = 0
  BY Fields DEF Sound
<1>3. MovedIn(c, deck).deck = deck
  BY <1>2 DEF MovedIn, Rows
<1>4. /\ MovedIn(c, deck).ctype = c.ctype /\ HomeDue(MovedIn(c, deck)) = HomeDue(c)
      /\ MovedIn(c, deck).ivl = c.ivl
  BY <1>1 DEF Schedule
<1> QED BY <1>3, <1>4 DEF Fits

LEMMA QueueChangedFits ==
  ASSUME NEW c \in Rows, Fits(c), NEW queue,
         queue \in Inactive \/ queue = QueueOfType(c)
  PROVE  Fits([c EXCEPT !.queue = queue])
<1> DEFINE b == [c EXCEPT !.queue = queue]
<1>1. /\ b.odeck = c.odeck /\ b.odue = c.odue /\ b.deck = c.deck /\ b.due = c.due
      /\ b.queue = queue /\ b.ctype = c.ctype /\ b.ivl = c.ivl
  BY DEF Rows
<1> HIDE DEF b
<1>2. HomeDue(b) = HomeDue(c) /\ QueueOfType(b) = QueueOfType(c)
  BY <1>1 DEF HomeDue, QueueOfType
<1>3. Fits(b)
  BY <1>1, <1>2 DEF Fits
<1> QED BY <1>3 DEF b
LEMMA RepositionedFits ==
  ASSUME NEW c, Sound(c), Fits(c), c.ctype = "New" \/ c.queue = "New", NEW position \in Nat
  PROVE  Fits(Repositioned(c, position))
<1> DEFINE b == Repositioned(c, position)
<1>1. c \in Rows /\ c.ctype = "New"
  BY DEF Sound
<1>2. b = [c EXCEPT !.odue = position] \/ b = [c EXCEPT !.due = position]
  BY <1>1 DEF Repositioned
<1>3. b.ctype = "New" /\ b.queue = c.queue /\ b.deck = c.deck
  BY <1>1, <1>2 DEF Rows
<1> HIDE DEF b
<1>4. QueueOfType(b) = "New" /\ QueueOfType(c) = "New"
  BY <1>1, <1>3 DEF QueueOfType
<1>5. Fits(b)
  BY <1>3, <1>4 DEF Fits
<1> QED BY <1>5 DEF b

LEMMA ChangeDeckFits ==
  ASSUME NEW c, Sound(c), Fits(c), NEW home \in Homes, NEW left \in AdjustedSteps(c, home)
  PROVE  Fits([BackAsItWas([c EXCEPT !.steps = left]) EXCEPT !.deck = home])
<1> DEFINE a == [c EXCEPT !.steps = left]
           r == BackAsItWas(a)
           b == [r EXCEPT !.deck = home]
<1>1. c \in Rows
  BY DEF Sound
<1>2. left \in Nat
  <2>1. /\ LearnSteps[home] \in Seq(Nat) /\ RelearnSteps[home] \in Seq(Nat)
        /\ LearnSteps[HomeOf(c)] \in Seq(Nat) /\ RelearnSteps[HomeOf(c)] \in Seq(Nat)
    BY Fields, ConstantsAssumption
  <2>2. c.steps \in Nat
    BY Fields
  <2> QED BY <2>1, <2>2, RemainingTyped DEF AdjustedSteps
<1>3. /\ a \in Rows /\ a.odeck = c.odeck /\ a.odue = c.odue /\ a.deck = c.deck
      /\ a.due = c.due /\ a.queue = c.queue /\ a.ctype = c.ctype /\ a.ivl = c.ivl
  BY <1>1, <1>2 DEF Rows
<1> HIDE DEF a
<1>4. HomeDue(a) = HomeDue(c) /\ QueueOfType(a) = QueueOfType(c)
  BY <1>3 DEF HomeDue, QueueOfType
<1>5. Sound(a) /\ Fits(a)
  BY <1>3, <1>4 DEF Sound, WayHome, Fits
<1>6. Sound(r) /\ r.odeck = NoDeck /\ Fits(r)
  BY <1>5, BackAsItWasSound, BackAsItWasFits
<1> HIDE DEF r
<1>7. r \in Rows /\ r.deck \notin FilteredDecks
  BY <1>6, Fields DEF Sound, WayHome
<1>8. /\ b.odeck = NoDeck /\ b.due = r.due /\ b.queue = r.queue /\ b.ctype = r.ctype
      /\ b.ivl = r.ivl
  BY <1>6, <1>7 DEF Rows
<1> HIDE DEF b
<1>9. HomeDue(b) = HomeDue(r) /\ QueueOfType(b) = QueueOfType(r)
  BY <1>6, <1>8 DEF HomeDue, QueueOfType
<1>10. Fits(b)
  BY <1>6, <1>7, <1>8, <1>9 DEF Fits
<1> QED BY <1>10 DEF b, r, a

LEMMA StepFits ==
  ASSUME NEW longest \in Nat, Longest(longest), Next,
         Known, Fits(card), now <= Max2(FirstTime, LastTime)
  PROVE  Fits(card')
<1>1. /\ Sound(card) /\ Fits(card) /\ LastPosition(card) = given
      /\ now \in Nat /\ given \in Nat
      /\ now <= Max2(FirstTime, LastTime)
      /\ shown # NoShow => shown.home \in Homes
  BY DEF Known
<1>2. card \in Rows /\ HomeOf(card) \in Homes
  BY <1>1, Fields DEF Sound
<1>3. CASE \E rating \in Ratings : Answer(rating) \/ GradeNow(rating)
  <2>1. PICK rating \in Ratings : Answer(rating) \/ GradeNow(rating)
    BY <1>3
  <2>2. PICK home \in Homes, fsrs \in FsrsModes :
          \E next \in NextStates(fsrs, CurrentState(card), home, rating) :
            card' = Applied(card, CurrentState(card), next)
    <3>1. CASE Answer(rating)
      BY <1>1, <3>1 DEF Answer
    <3>2. CASE GradeNow(rating)
      BY <1>2, <3>2 DEF GradeNow
    <3> QED BY <2>1, <3>1, <3>2
  <2> QED BY <1>1, <2>2, AppliedFits
<1>4. CASE \E deck \in FilteredDecks : BuildFiltered(deck)
  <2>1. PICK deck \in FilteredDecks : BuildFiltered(deck)
    BY <1>4
  <2> DEFINE home == IF card.deck = deck THEN BackAsItWas(card) ELSE card
  <2>2. Sound(home) /\ Fits(home)
    BY <1>1, BackAsItWasSound, BackAsItWasFits
  <2>3. home.deck \notin FilteredDecks /\ card' = MovedIn(home, deck)
    BY <2>1 DEF BuildFiltered
  <2> HIDE DEF home
  <2> QED BY <2>2, <2>3, MovedInFits
<1>5. CASE EmptyFiltered
  BY <1>1, <1>5, BackAsItWasFits DEF EmptyFiltered
<1>6. CASE (\E queue \in Inactive : BuryOrSuspend(queue)) \/ RestoreQueue
  <2>1. PICK queue : /\ queue \in Inactive \/ queue = QueueOfType(card)
                     /\ card' = [card EXCEPT !.queue = queue]
    BY <1>6 DEF BuryOrSuspend, RestoreQueue
  <2> QED BY <1>1, <1>2, <2>1, QueueChangedFits
<1>7. CASE \E days \in DueDays, reset \in BOOLEAN : SetDueDate(days, reset)
  <2>1. PICK days \in DueDays, reset \in BOOLEAN : SetDueDate(days, reset)
    BY <1>7
  <2> DEFINE b == BackToBeScheduled(card)
             due == today + days
  <2>2. PICK pos, ivl :
          card' = [b EXCEPT !.pos = pos, !.ivl = ivl, !.due = due,
                            !.ctype = "Review", !.queue = "Review"]
    BY <2>1 DEF SetDueDate
  <2>3. due <= LastDay
    <3>1. LastToday + days <= LastDay /\ days \in Nat
      BY ConstantsAssumption DEF Longest
    <3> QED BY <1>1, <3>1, TodayBound, ConstantsAssumption
  <2>4. b \in Rows /\ b.odeck = NoDeck
    BY <1>1, BackToBeScheduledFields
  <2> HIDE DEF b, due
  <2>5. /\ card'.odeck = NoDeck /\ card'.due = due /\ card'.ctype = "Review"
        /\ card'.queue = "Review"
    BY <2>2, <2>4 DEF Rows
  <2> QED BY <2>3, <2>5 DEF Fits, HomeDue, QueueOfType
<1>8. CASE \E restore, reset \in BOOLEAN, next \in Positions : Forget(restore, reset, next)
  <2> DEFINE b == BackToBeScheduled(card)
  <2>1. PICK due, lapses :
          card' = [b EXCEPT !.due = due, !.ctype = "New", !.queue = "New", !.ivl = 0,
                            !.pos = NoPosition, !.lapses = lapses]
    BY <1>8 DEF Forget
  <2>2. b \in Rows
    BY <1>1, BackToBeScheduledFields
  <2> HIDE DEF b
  <2>3. card'.ctype = "New" /\ card'.queue = "New"
    BY <2>1, <2>2 DEF Rows
  <2> QED BY <2>3 DEF Fits, QueueOfType
<1>9. CASE \/ \E position \in Positions : Reposition(position)
           \/ \E start \in Positions : ShiftExisting(start, 1)
  <2>1. PICK position \in Nat :
          card' = Repositioned(card, position) /\ (card.ctype = "New" \/ card.queue = "New")
    <3>1. CASE \E position \in Positions : Reposition(position)
      BY <3>1, ConstantsAssumption DEF Reposition
    <3>2. CASE \E start \in Positions : ShiftExisting(start, 1)
      <4>1. PICK start \in Positions : ShiftExisting(start, 1)
        BY <3>2
      <4>2. start \in Nat /\ card.due \in Int /\ card.due >= start
        BY <1>1, <4>1, Fields, ConstantsAssumption DEF ShiftExisting
      <4>3. card.due + 1 \in Nat
        BY <4>2
      <4> QED BY <4>1, <4>3 DEF ShiftExisting
    <3> QED BY <1>9, <3>1, <3>2
  <2> QED BY <1>1, <2>1, RepositionedFits
<1>10. CASE \E home \in Homes : ChangeDeck(home)
  BY <1>1, <1>10, ChangeDeckFits DEF ChangeDeck
<1>11. CASE Show \/ AnswerRefused \/ Tick
  BY <1>1, <1>11 DEF Show, AnswerRefused, Tick
<1> QED BY <1>3, <1>4, <1>5, <1>6, <1>7, <1>8, <1>9, <1>10, <1>11 DEF Next

(* If day numbers stay below LastDay, a review is never due at a time, a     *)
(* place in a filtered deck is never taken home, and a card at home waits in *)
(* the queue restore_queue_from_type (filtered/card.rs:11) would give it: so *)
(* suspending a card and bringing it back loses nothing.                     *)
THEOREM DueNumbersFit ==
  ASSUME DaysFit
  PROVE  Spec => []DueFitsType
<1>1. PICK longest \in Nat : Longest(longest)
  BY DEF DaysFit
<1>2. Init => FInv
  <2> SUFFICES ASSUME Init PROVE FInv
    OBVIOUS
  <2>1. IInv
    BY InitHolds
  <2>2. card.ctype = "New" /\ card.queue = "New"
    BY DEF Init, NewCard
  <2>3. Fits(card)
    BY <2>2 DEF Fits, QueueOfType
  <2>4. now <= Max2(FirstTime, LastTime)
    BY ConstantsAssumption DEF Init, Max2
  <2> QED BY <2>1, <2>3, <2>4 DEF FInv
<1>3. FInv /\ [Next]_vars => FInv'
  <2> SUFFICES ASSUME FInv, [Next]_vars PROVE FInv'
    OBVIOUS
  <2>1. IInv'
    BY StepHolds DEF FInv
  <2>2. ASSUME ~misread' PROVE Fits(card)'
    <3>0. Known /\ Fits(card) /\ now <= Max2(FirstTime, LastTime)
      BY <2>2, HistoryTyped DEF FInv, IInv
    <3>1. CASE Next
      <4>1. Fits(card')
        BY <1>1, <3>0, <3>1, StepFits
      <4> QED BY <4>1 DEF Fits, HomeDue, QueueOfType, IsTimestamp
    <3>2. CASE UNCHANGED vars
      BY <3>0, <3>2 DEF vars, Fits, HomeDue, QueueOfType, IsTimestamp
    <3> QED BY <3>1, <3>2
  <2>3. (now <= Max2(FirstTime, LastTime))'
    <3>1. now' = now \/ (now < LastTime /\ now' = now + 1)
      BY DEF Next, Show, Answer, AnswerRefused, GradeNow, BuildFiltered, EmptyFiltered,
             BuryOrSuspend, RestoreQueue, SetDueDate, Forget, Reposition, ShiftExisting,
             ChangeDeck, Tick, vars
    <3>2. now \in Nat /\ now <= Max2(FirstTime, LastTime)
      BY DEF FInv, IInv
    <3> QED BY <3>1, <3>2, ConstantsAssumption DEF Max2
  <2> QED BY <2>1, <2>2, <2>3 DEF FInv
<1>4. FInv => DueFitsType
  <2> SUFFICES ASSUME FInv, ~misread PROVE DueFitsType
    BY DEF DueFitsType
  <2>1. HomeDue(card) \in Nat /\ LastDay \in Nat /\ Fits(card)
    BY Fields, ConstantsAssumption DEF FInv, IInv, Known
  <2> QED BY <2>1 DEF Fits, DueFitsType, IsTimestamp
<1> QED BY <1>2, <1>3, <1>4, PTL DEF Spec
=============================================================================
