----------------------------- MODULE StudyQueues -----------------------------
(***************************************************************************)
(* The study queues of the selected deck: built from the cards when first  *)
(* needed, then kept and patched in place as cards are answered and as     *)
(* answers are undone and redone; thrown away by most other operations and *)
(* when the day rolls over.                                                *)
(* Source: src/rslib/src/scheduler/queue, bury_and_suspend.rs, answering,  *)
(* undo and the reviewer that asks for cards (src/qt/aqt/reviewer.py)      *)
(*                                                                         *)
(* One deck with one preset is studied; its cards have been tried before   *)
(* (reps > 0) or are new.  A card's kind is the queue its type and due     *)
(* date put it in, held says whether it is buried or suspended out of it.  *)
(* A set of kinds stands for a BuryMode: the kinds it buries.  Learning    *)
(* steps are not fuzzed, and one tick stands for a second.                 *)
(***************************************************************************)
EXTENDS Integers, Sequences, SequencesExt

CONSTANTS
  Cards, NoCard,
  Notes,        \* the note of each card
  Order,        \* the cards in the order the queries return them
  Steps,        \* learning steps, in ticks
  LearnAhead,   \* learn_ahead_secs, in ticks
  DayLength,    \* ticks from one rollover to the next
  Presets,      \* the settings a deck may have
  Tables,       \* the kinds the cards may have at first
  Limits,       \* cards per day, by kind
  UNDO_LIMIT,
  Touched,      \* cards the user also buries, brings back and flags
  MaxOthers,    \* bound: operations of the user that are not answers
  MaxTime       \* bound on the clock

MainKinds == {"New", "DayLearn", "Review"}
Kinds == MainKinds \cup {"Learn"}

ASSUME CardsAssumption == NoCard \notin Cards /\ DOMAIN Notes = Cards /\ Touched \subseteq Cards
ASSUME OrderAssumption == Order \in Seq(Cards) /\ Range(Order) = Cards /\ IsInjective(Order)
ASSUME TimeAssumption == {LearnAhead, MaxOthers, MaxTime} \subseteq Nat /\ Steps \cup {DayLength} \subseteq Nat \ {0}
Mixes == {"after", "before", "mixed"}
ASSUME PresetsAssumption == Presets \subseteq [bury : SUBSET MainKinds, dayMix : Mixes, newMix : Mixes]
ASSUME TablesAssumption == Tables \subseteq [Cards -> Kinds]
ASSUME LimitsAssumption == Limits \in [{"new", "review"} -> Nat] /\ UNDO_LIMIT \in Nat \ {0}

VARIABLES
  now,      \* the clock
  cards,    \* the cards table
  studied,  \* the deck's counts of what was studied, and on which day
  preset,   \* the deck's settings
  queues,   \* the kept queues, or NoQueues
  undo, redo,  \* the steps, most recent first
  shown,    \* the card the reviewer shows, and the day it was fetched
  broken,   \* whether an operation has panicked
  others    \* how many other operations there have been

vars == <<now, cards, studied, preset, queues, undo, redo, shown, broken, others>>

GatherOrd == [k \in Kinds |-> CASE k = "Learn" -> 0 [] k = "DayLearn" -> 1 [] k = "Review" -> 2 [] k = "New" -> 3]
Siblings(c) == {s \in Cards \ {c} : Notes[s] = Notes[c]}

Day(t) == t \div DayLength
Today == Day(now)
NextDayAt == (Today + 1) * DayLength

NoQueues == [built |-> -1]
Nobody == [card |-> NoCard, day |-> 0]
NoUpdate == [built |-> -2]

(***************************************************************************)
(* Building                                                                *)
(***************************************************************************)
Due(row, kind) ==
  /\ row.kind = kind
  /\ row.held = "no"
  /\ CASE kind = "New" -> TRUE
       [] kind = "Learn" -> row.due <= NextDayAt
       [] OTHER -> row.due <= Today

StudiedToday == IF studied.day = Today THEN studied ELSE [day |-> Today, new |-> 0, review |-> 0]
AtLeast0(n) == IF n < 0 THEN 0 ELSE n
Least(m, n) == IF m < n THEN m ELSE n

RemainingLimits ==
  LET review == Limits["review"] - StudiedToday.review - StudiedToday.new
      new == Limits["new"] - StudiedToday.new
  IN  [review |-> AtLeast0(review), new |-> AtLeast0(Least(new, review))]

LimitKind(kind) == IF kind = "New" THEN "new" ELSE "review"
Decremented(left, kind) ==
  IF kind = "New" THEN [left EXCEPT !.new = @ - 1]
  ELSE [review |-> left.review - 1, new |-> Least(left.new, left.review - 1)]

LearningEntry(c, row) == [id |-> c, mtime |-> row.mod, due |-> row.due]
MainEntry(c, row) == [id |-> c, mtime |-> row.mod, kind |-> row.kind]

(* What the builder holds: what it may still take, the burying each note's *)
(* cards have asked for so far, the entries of the cards it took           *)
StartGathering ==
  [left |-> RemainingLimits, seen |-> [n \in Range(Notes) |-> {}], took |-> [k \in Kinds |-> <<>>]]

(* A card that is left out for a sibling's sake asks for burying itself.    *)
Gather(g, c, row) ==
  LET seen == [g.seen EXCEPT ![Notes[c]] = @ \cup preset.bury]
      with(e) == [g.took EXCEPT ![row.kind] = Append(@, e)]
  IN  IF row.kind = "Learn" THEN [left |-> g.left, seen |-> seen, took |-> with(LearningEntry(c, row))]
      ELSE IF g.left[LimitKind(row.kind)] = 0 THEN g
      ELSE IF row.kind \in g.seen[Notes[c]] THEN [left |-> g.left, seen |-> seen, took |-> g.took]
      ELSE [left |-> Decremented(g.left, row.kind), seen |-> seen, took |-> with(MainEntry(c, row))]

GatherKind(g, kind, table) ==
  LET after[i \in 0..Len(Order)] ==
        IF i = 0 THEN g
        ELSE IF Due(table[Order[i]], kind) THEN Gather(after[i - 1], Order[i], table[Order[i]])
        ELSE after[i - 1]
  IN  after[Len(Order)]

Gathered(table) ==
  LET learning == GatherKind(StartGathering, "Learn", table)
      dayLearning == GatherKind(learning, "DayLearn", table)
      reviews == GatherKind(dayLearning, "Review", table)
  IN  GatherKind(reviews, "New", table).took

TakenNext(one, two, done) ==
  LET i1 == done.one + 1
      i2 == done.two + 1
  IN  IF i1 > Len(one) \/ (i2 <= Len(two) /\ i2 * (Len(one) + 1) < i1 * (Len(two) + 1))
        THEN [one |-> done.one, two |-> i2, seq |-> Append(done.seq, two[i2])]
        ELSE [one |-> i1, two |-> done.two, seq |-> Append(done.seq, one[i1])]
Interspersed(one, two) ==
  LET after[k \in 0..(Len(one) + Len(two))] ==
        IF k = 0 THEN [one |-> 0, two |-> 0, seq |-> <<>>] ELSE TakenNext(one, two, after[k - 1])
  IN  after[Len(one) + Len(two)].seq

Merged(mix, one, two) ==
  CASE mix = "after" -> one \o two
    [] mix = "before" -> two \o one
    [] mix = "mixed" -> Interspersed(one, two)

(* By due time; entries due at the same time stay in order                 *)
ByDue(entries) ==
  LET upTo(i) == {j \in DOMAIN entries : \/ entries[j].due < entries[i].due
                                         \/ entries[j].due = entries[i].due /\ j <= i}
  IN  [k \in DOMAIN entries |-> entries[CHOOSE i \in DOMAIN entries : Cardinality(upTo(i)) = k]]

(* build_time is only compared: any number no step remembers will do      *)
FreshBuild(steps) == CHOOSE b \in 0..(2 * UNDO_LIMIT) : b \notin {step.update.built : step \in Range(steps)}

BuildQueues(table, steps) ==
  LET took == Gathered(table)
      learning == ByDue(took["Learn"])
      soon == {i \in DOMAIN learning : learning[i].due <= now + LearnAhead}
  IN  [main |-> Merged(preset.newMix, Merged(preset.dayMix, took["Review"], took["DayLearn"]), took["New"]),
       learning |-> learning,
       new |-> Len(took["New"]),
       review |-> Len(took["Review"]),
       learn |-> Cardinality(soon) + Len(took["DayLearn"]),
       cutoff |-> now,
       day |-> Today,
       built |-> FreshBuild(steps)]

(***************************************************************************)
(* Patching: every operator takes queues and returns them changed          *)
(***************************************************************************)
AheadCutoff(q) == q.cutoff + LearnAhead
DueBy(q, t) == {i \in DOMAIN q.learning : q.learning[i].due <= t}

(* The cards are shown in this order: learning cards due now, the main      *)
(* queue, learning cards due soon                                          *)
Showable(q) == Range(q.main) \cup {q.learning[i] : i \in DueBy(q, AheadCutoff(q))}
First(q) ==
  LET dueNow == DueBy(q, q.cutoff)
  IN  IF dueNow # {} THEN q.learning[Min(dueNow)]
      ELSE IF q.main # <<>> THEN Head(q.main)
      ELSE q.learning[Min(DueBy(q, AheadCutoff(q)))]

MovedCutoff(q) ==
  [q EXCEPT !.cutoff = now,
            !.learn = @ + Cardinality(DueBy(q, now + LearnAhead) \ DueBy(q, AheadCutoff(q)))]
Counted(q) == IF q.new = 0 /\ q.learn = 0 /\ q.review = 0 THEN MovedCutoff(q) ELSE q

Learning(q, c) == {i \in DOMAIN q.learning : q.learning[i].id = c}
IsLearning(e) == "due" \in DOMAIN e
CountOf(e) == IF IsLearning(e) THEN "learn" ELSE CASE e.kind = "New" -> "new" [] e.kind = "Review" -> "review" [] e.kind = "DayLearn" -> "learn"

CanPop(q, c) == Learning(q, c) # {} \/ (q.main # <<>> /\ Head(q.main).id = c)
EntryOf(q, c) == IF Learning(q, c) # {} THEN q.learning[CHOOSE i \in Learning(q, c) : TRUE] ELSE Head(q.main)
Popped(q, c) ==
  LET e == EntryOf(q, c)
      shorter == IF IsLearning(e) THEN [q EXCEPT !.learning = RemoveAt(@, CHOOSE i \in Learning(q, c) : TRUE)]
                 ELSE [q EXCEPT !.main = Tail(@)]
  IN  [shorter EXCEPT ![CountOf(e)] = AtLeast0(@ - 1)]
Pushed(q, e) ==
  LET longer == IF IsLearning(e) THEN [q EXCEPT !.learning = <<e>> \o @]
                ELSE [q EXCEPT !.main = <<e>> \o @]
  IN  [longer EXCEPT ![CountOf(e)] = @ + 1]

(* The binary search may stop at any of the entries due at the same time   *)
Places(q, e) ==
  {i \in 1..(Len(q.learning) + 1) :
     /\ \A j \in 1..(i - 1) : q.learning[j].due <= e.due
     /\ \A j \in i..Len(q.learning) : q.learning[j].due >= e.due}
Inserted(q, e) ==
  {[q EXCEPT !.learning = InsertAt(@, i, e),
             !.learn = IF e.due <= AheadCutoff(q) THEN @ + 1 ELSE @] : i \in Places(q, e)}
Removed(q, c) ==
  LET i == CHOOSE i \in Learning(q, c) : TRUE
  IN  [q EXCEPT !.learning = RemoveAt(@, i),
                !.learn = IF q.learning[i].due <= AheadCutoff(q) THEN AtLeast0(@ - 1) ELSE @]
MutantRestoredCutoff(q, update) == [q EXCEPT !.learn = update.learn]
RestoredCutoff(q, update) == [q EXCEPT !.cutoff = update.cutoff, !.learn = update.learn]

(* The entry of an answered card that is due again today, put off if the   *)
(* card would come right back: {} when the card is not queued again        *)
Requeue(q, c, row) ==
  IF row.kind # "Learn" \/ row.held # "no" \/ row.due >= NextDayAt THEN {}
  ELSE LET e == LearningEntry(c, row)
           next == Head(q.learning).due
       IN  IF /\ e.due <= AheadCutoff(q) /\ q.main = <<>> /\ q.learning # <<>>
              /\ next >= e.due /\ next + 1 < AheadCutoff(q)
             THEN {[e EXCEPT !.due = next + 1]}
             ELSE {e}
InsertedAll(q, entries) == IF entries = {} THEN {q} ELSE UNION {Inserted(q, e) : e \in entries}

(***************************************************************************)
(* Operations                                                              *)
(***************************************************************************)
Kept == queues # NoQueues
DayChanged == Kept /\ queues.day # Today
Unburied(table) == [c \in Cards |-> IF table[c].held = "buried" THEN [table[c] EXCEPT !.held = "no"] ELSE table[c]]
Written(rows, table) == [c \in Cards |-> IF c \in DOMAIN rows THEN rows[c] ELSE table[c]]
Changed(rows) == Written(rows, cards)
Old(rows) == [c \in DOMAIN rows |-> cards[c]]

Step(op, rows, update) == [op |-> op, rows |-> Old(rows), studied |-> studied, update |-> update]
Saved(steps, step) == <<step>> \o SubSeq(steps, 1, Least(Len(steps), UNDO_LIMIT - 1))

(* A transaction that fails is rolled back; the history and the queues go  *)
RolledBack ==
  /\ undo' = <<>>
  /\ redo' = <<>>
  /\ queues' = NoQueues
  /\ UNCHANGED <<cards, studied>>

ForgetCard == shown' = Nobody

(* Burying leaves out the kinds that were gathered before the card's own   *)
BuriedWith(c) ==
  LET bury == {k \in preset.bury : k = "New" \/ GatherOrd[cards[c].kind] <= GatherOrd[k]}
  IN  {s \in Siblings(c) : cards[s].held = "no" /\ cards[s].kind \in bury}

Outcomes(kind) ==
  {[kind |-> IF now + s < NextDayAt THEN "Learn" ELSE "DayLearn",
    due |-> IF now + s < NextDayAt THEN now + s ELSE Today + 1 + (now + s - NextDayAt) \div DayLength,
    held |-> "no", mod |-> now] : s \in Steps}
  \cup {[kind |-> "Review", due |-> Today + 1, held |-> "no", mod |-> now]}
  \cup {[kind |-> "Review", due |-> Today + 1, held |-> "suspended", mod |-> now] : k \in {kind} \cap {"Review"}}

StudiedWith(kind) ==
  CASE kind = "New" -> [StudiedToday EXCEPT !.new = @ + 1]
    [] kind \in {"Review", "DayLearn"} -> [StudiedToday EXCEPT !.review = @ + 1]
    [] kind = "Learn" -> StudiedToday

(* An answer is checked against the state the reviewer was given: a review *)
(* has waited one more day by then if the day has changed since            *)
StateMatches(c) == cards[c].kind = "Review" => shown.day = Today

Answer(c) == \E row \in Outcomes(cards[c].kind) :
  LET rows == [s \in {c} \cup BuriedWith(c) |-> IF s = c THEN row ELSE [cards[s] EXCEPT !.held = "buried", !.mod = now]]
      requeue == Requeue(Popped(queues, c), c, row)
      update(r) == LET q == CHOOSE q \in InsertedAll(Popped(queues, c), r) : TRUE
                   IN  [entry |-> EntryOf(queues, c), requeue |-> r, built |-> q.built,
                        cutoff |-> q.cutoff, learn |-> q.learn]
  IN  /\ shown.card = c
      /\ StateMatches(c)
      /\ Kept => CanPop(queues, c)
      /\ cards' = Changed(rows)
      /\ studied' = StudiedWith(cards[c].kind)
      /\ IF Kept THEN \E q \in InsertedAll(Popped(queues, c), requeue) : queues' = MovedCutoff(q)
         ELSE queues' = NoQueues
      /\ undo' = Saved(undo, Step("answer", rows, IF Kept THEN update(requeue) ELSE NoUpdate))
      /\ redo' = <<>>
      /\ ForgetCard
      /\ UNCHANGED <<now, preset, broken, others>>

AnswerRefused(c) ==
  /\ shown.card = c
  /\ ~StateMatches(c) \/ (Kept /\ ~CanPop(queues, c))
  /\ RolledBack
  /\ UNCHANGED <<now, preset, shown, broken, others>>

(* get_queued_cards as the reviewer calls it, for the first card           *)
Current(e, table) == table[e.id].mod = e.mtime

GetQueuedCards ==
  LET table == IF DayChanged THEN Unburied(cards) ELSE cards
      fresh == BuildQueues(table, IF DayChanged THEN <<>> ELSE undo \o redo)
      q == Counted(IF Kept /\ ~DayChanged THEN queues ELSE fresh)
  IN  /\ cards' = table
      /\ undo' = IF DayChanged THEN <<>> ELSE undo
      /\ redo' = IF DayChanged THEN <<>> ELSE redo
      /\ queues' = q
      /\ shown' = IF Showable(q) # {} /\ Current(First(q), table) THEN [card |-> First(q).id, day |-> Today] ELSE Nobody
      /\ UNCHANGED <<now, studied, preset, broken, others>>

(* Undoing reverts an operation's changes from the last to the first: the  *)
(* queues' comes first; redoing starts with the cards.  Either way the     *)
(* queues are looked at once more for the day: if it has changed they go,  *)
(* the history too, and with it the step the operation is recording, and   *)
(* the operation panics when it has been committed                         *)
MutantReady(step) == Kept /\ step.update # NoUpdate
Ready(step) == Kept /\ queues.built = step.update.built
UndoneQueues(update) ==
  LET q == RestoredCutoff(queues, update)
      without == IF update.requeue = {} THEN q ELSE Removed(q, update.entry.id)
  IN  Pushed(without, update.entry)
RedoneQueues(update) ==
  {RestoredCutoff(q, update) : q \in InsertedAll(Popped(queues, update.entry.id), update.requeue)}

Reverted(step) ==
  /\ cards' = Changed(step.rows)
  /\ studied' = step.studied
InverseStep(step) == [step EXCEPT !.rows = Old(step.rows), !.studied = studied]
Panics(step) == step.update # NoUpdate /\ DayChanged
Panic(step, table) ==
  /\ cards' = table
  /\ studied' = step.studied
  /\ undo' = <<>>
  /\ redo' = <<>>
  /\ queues' = NoQueues
  /\ broken' = TRUE
  /\ ForgetCard
  /\ UNCHANGED <<now, preset, others>>

(* Which operations leave the queues be: requires_study_queue_rebuild      *)
MutantRebuilds(op) == op \notin {"answer", "flag", "bury"}
Rebuilds(op) == op \notin {"answer", "flag"}
AfterStep(op) == IF op = "flag" THEN UNCHANGED shown ELSE ForgetCard

Undo ==
  /\ undo # <<>>
  /\ LET step == Head(undo) IN
     IF Panics(step) THEN Panic(step, Written(step.rows, Unburied(cards)))
     ELSE /\ Reverted(step)
          /\ undo' = Tail(undo)
          /\ redo' = <<InverseStep(step)>> \o redo
          /\ queues' = IF step.update # NoUpdate
                         THEN IF Ready(step) THEN UndoneQueues(step.update) ELSE NoQueues
                         ELSE IF Rebuilds(step.op) THEN NoQueues ELSE queues
          /\ AfterStep(step.op)
          /\ UNCHANGED <<now, preset, broken, others>>

Redo ==
  /\ redo # <<>>
  /\ LET step == Head(redo) IN
     IF Panics(step) THEN Panic(step, Unburied(Changed(step.rows)))
     ELSE IF Ready(step) /\ ~CanPop(queues, step.update.entry.id)
       THEN RolledBack /\ ForgetCard /\ UNCHANGED <<now, preset, broken, others>>
     ELSE /\ Reverted(step)
          /\ undo' = Saved(undo, InverseStep(step))
          /\ redo' = Tail(redo)
          /\ IF step.update # NoUpdate
               THEN IF Ready(step) THEN \E q \in RedoneQueues(step.update) : queues' = q ELSE queues' = NoQueues
               ELSE queues' = IF Rebuilds(step.op) THEN NoQueues ELSE queues
          /\ AfterStep(step.op)
          /\ UNCHANGED <<now, preset, broken, others>>

(* The other operations of the user: bury (suspending is alike), bring     *)
(* back, flag                                                              *)
UserOp(op, rows) ==
  /\ others < MaxOthers
  /\ others' = others + 1
  /\ cards' = Changed(rows)
  /\ undo' = Saved(undo, Step(op, rows, NoUpdate))
  /\ redo' = <<>>
  /\ queues' = IF Rebuilds(op) THEN NoQueues ELSE queues
  /\ AfterStep(op)
  /\ UNCHANGED <<now, studied, preset, broken>>

Bury(c) ==
  /\ cards[c].held = "no"
  /\ UserOp("bury", [x \in {c} |-> [cards[c] EXCEPT !.held = "buried", !.mod = now]])
BringBack(c) ==
  /\ cards[c].held # "no"
  /\ UserOp("bring_back", [x \in {c} |-> [cards[c] EXCEPT !.held = "no", !.mod = now]])
MutantSetFlag(c) == UserOp("flag", [x \in {c} |-> [cards[c] EXCEPT !.mod = now]])
SetFlag(c) == UserOp("flag", [x \in {c} |-> cards[c]])

Tick == now < MaxTime /\ now' = now + 1 /\ UNCHANGED <<cards, studied, preset, queues, undo, redo, shown, broken, others>>

(* After a panic the collection's lock is of no use until a restart        *)
Restart ==
  /\ broken
  /\ RolledBack
  /\ broken' = FALSE
  /\ ForgetCard
  /\ UNCHANGED <<now, preset, others>>

FirstRow(kind) ==
  [kind |-> kind, held |-> "no", mod |-> 0,
   due |-> CASE kind = "New" -> 0 [] kind = "Learn" -> now [] OTHER -> Today]

Init ==
  /\ now = 1
  /\ preset \in Presets
  /\ \E kinds \in Tables : cards = [c \in Cards |-> FirstRow(kinds[c])]
  /\ studied = [day |-> 0, new |-> 0, review |-> 0]
  /\ queues = NoQueues
  /\ undo = <<>>
  /\ redo = <<>>
  /\ shown = Nobody
  /\ broken = FALSE
  /\ others = 0

Next ==
  \/ Tick
  \/ Restart
  \/ /\ ~broken
     /\ \/ GetQueuedCards
        \/ Undo
        \/ Redo
        \/ \E c \in Cards :
             \/ Answer(c)
             \/ AnswerRefused(c)
        \/ \E c \in Touched :
             \/ Bury(c)
             \/ BringBack(c)
             \/ SetFlag(c)

Spec == Init /\ [][Next]_vars

-----------------------------------------------------------------------------
(* What every variable holds                                               *)
Row == [kind : Kinds, due : Nat, held : {"no", "buried", "suspended"}, mod : Nat]
TypeOK ==
  /\ now \in Nat
  /\ cards \in [Cards -> Row]
  /\ studied \in [day : Nat, new : Nat, review : Nat]
  /\ preset \in Presets
  /\ shown \in [card : Cards \cup {NoCard}, day : Nat]
  /\ broken \in BOOLEAN

(* An entry whose card was buried for a sibling's sake after the queues    *)
(* were built. The builder lets a card in beside a sibling that it took     *)
(* before if the card's own kind is not buried, and an answer of the card   *)
(* buries the sibling's kind all the same once the card is a learning one.  *)
Overlooks(bury, kind) == kind \in bury /\ \E later \in MainKinds \ bury : GatherOrd[kind] < GatherOrd[later]
Overlooked(row, bury) == row.held = "buried" /\ Overlooks(bury, row.kind)

(* An entry of the kept queues is of a card that was modified since        *)
(* (queue/mod.rs:117: "bug: card modified without updating queue") only if  *)
(* the preset overlooks the card's kind and a sibling's answer buried it.   *)
EntriesAreCurrent == Kept => \A e \in Showable(queues) :
  Current(e, cards) \/ Overlooked(cards[e.id], preset.bury)

(* The counts the reviewer displays: queue/mod.rs adds to and subtracts    *)
(* from them, and an undo restores the learning count from a snapshot.     *)
CountsHold(q) ==
  LET main(kind) == Len(SelectSeq(q.main, LAMBDA e : e.kind = kind))
  IN  /\ q.new = main("New")
      /\ q.review = main("Review")
      /\ q.learn = Cardinality(DueBy(q, AheadCutoff(q))) + main("DayLearn")

(* Its binary search needs the learning queue sorted, though undoing pushes *)
(* entries to the front.                                                   *)
LearningSorted(q) ==
  \A i, j \in DOMAIN q.learning : i < j => q.learning[i].due <= q.learning[j].due

HeldIds(q) == [i \in DOMAIN q.main |-> q.main[i].id] \o [i \in DOMAIN q.learning |-> q.learning[i].id]

(* Patching the queues for an answer, its undo and its redo amounts to     *)
(* building them anew: they are counted and sorted right and hold the      *)
(* cards that new queues would hold, each once (unless the preset overlooks *)
(* a kind, when new queues leave out siblings that the kept ones hold).     *)
PatchedIsRebuilt == Kept =>
  /\ CountsHold(queues)
  /\ LearningSorted(queues)
  /\ ~DayChanged /\ (\A kind \in MainKinds : ~Overlooks(preset.bury, kind)) =>
       LET kept == HeldIds(queues)
           fresh == HeldIds(BuildQueues(cards, <<>>))
       IN  Range(kept) = Range(fresh) /\ Len(kept) = Len(fresh)

(* Undoing an answer brings its card back to the top of the kept queues    *)
UndoShowsCard == [][
  (undo # <<>> /\ undo[1].op = "answer" /\ Undo /\ Kept')
    => First(queues').id = undo[1].update.entry.id]_vars

(* The card the reviewer shows can be answered, and the answer last undone  *)
(* can be redone: neither is refused for want of an entry (mod.rs:187)     *)
CardsAreFound ==
  /\ (Kept /\ shown.card # NoCard) => CanPop(queues, shown.card)
  /\ (redo # <<>> /\ Ready(redo[1])) => CanPop(queues, redo[1].update.entry.id)

(* No operation panics                                                     *)
OperationsEnd == ~broken
==============================================================================
