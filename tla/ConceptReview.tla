--------------------------- MODULE ConceptReview ---------------------------
(***************************************************************************)
(* The learner's side of ankigpt: Reviewer (qt/aqt/reviewer.py) with the   *)
(* ConceptReviewController that intercepts it (qt/aqt/ankigpt/review.py).  *)
(*                                                                         *)
(* For a concept card the reviewer does not show a stored question.  It    *)
(* parks itself, asks a language model for one in the background, and      *)
(* draws the question when the answer arrives; a typed answer is graded in *)
(* the background in the same way.  Python's main thread runs one handler  *)
(* at a time, so a handler is one action; what interleaves are the results *)
(* of the background jobs, the timers, the callbacks of the web view and   *)
(* the learner, who may leave a card while anything is pending for it.     *)
(***************************************************************************)
EXTENDS Naturals, FiniteSets

CONSTANTS
    Cards,         \* cards of the deck
    NoCard,        \* None for a card
    Concepts,      \* those of a concept note type; the others are ordinary
    Kinds,         \* grading modes offered: "choice", "typed", "self"
    AutoSubmit,    \* deck setting auto_submit
    AutoAdvance,   \* whether the learner uses the reviewer's auto-advance
    Configured,    \* the values config.configured may have when it is read
    Goal,          \* card_goal of a focus session
    Editable,      \* bound: the cards whose notes are edited
    Upcoming,      \* bound: the concepts a prefetch may find next in the queue
    MaxMod,        \* bound: modification times of a note
    MaxSerial,     \* bound: requests the learner's moves may start
    MaxGrades      \* bound: grading jobs the learner leaves running

NoMod == 0

\* A row of question_cache: its note_mod, and the note_mod its question was
\* really generated from.
Entry(note_mod, from) == [note_mod |-> note_mod, from |-> from]
NoEntry == Entry(NoMod, NoMod)

ASSUME CardsAssumption == Concepts \subseteq Cards /\ NoCard \notin Cards
ASSUME KindsAssumption == Kinds \subseteq {"choice", "typed", "self"}
ASSUME SettingsAssumption ==
    AutoSubmit \in BOOLEAN /\ AutoAdvance \in BOOLEAN /\ Configured \subseteq BOOLEAN
ASSUME GoalAssumption == Goal \in Nat \ {0}
ASSUME BoundsAssumption ==
    /\ Editable \subseteq Concepts /\ Upcoming \subseteq Concepts
    /\ MaxMod \in Nat \ {0} /\ MaxSerial \in Nat /\ MaxGrades \in Nat

Mods == 1..MaxMod

VARIABLES
    mw,           \* AnkiQt.state: "review", or "away" for every other screen
    card,         \* Reviewer.card
    state,        \* Reviewer.state
    answering,    \* the card of the answer_card operation in the background
    refresh,      \* Reviewer._refresh_needed while the window has no focus
    enter,        \* getTypedAnswer() was sent to the web view
    advance,      \* Reviewer.auto_advance_enabled
    seen,         \* note_mod of the note kept in Reviewer.card, or NoMod
    current,      \* ConceptReviewController._current
    inflight,     \* ._inflight: request token of a card, 0 when absent
    serial,       \* ._serial
    prefetching,  \* ._prefetching: the note_mod its job was given, or NoMod
    timer,        \* ._auto_timer: the question it will submit, or 0
    leaving,      \* _fail's single_shot has not fired
    gens,         \* question requests the language model works on
    grades,       \* questions whose typed answers it grades
    cache,        \* question_cache: a card's entry, or NoEntry
    mod,          \* modification time of the cards' notes
    focus,        \* focus session: "none", "running" or "paused"
    answered      \* FocusSession.answered

shown == <<mw, card, state, seen>>
waits == <<answering, refresh, enter>>
requests == <<inflight, serial, prefetching, gens, cache>>
session == <<focus, answered>>
vars == <<mw, card, state, answering, refresh, enter, advance, seen,
          current, inflight, serial, prefetching, timer, leaving, gens, grades,
          cache, mod, focus, answered>>

----------------------------------------------------------------------------
(* Questions.  An ActiveQuestion is compared by identity (`is token`); id   *)
(* stands for the object, and a new one gets an id nothing refers to.      *)

NoQuestion ==
    [id |-> 0, card |-> NoCard, from |-> NoMod, kind |-> "none",
     chosen |-> FALSE, grading |-> FALSE, graded |-> FALSE, scored |-> FALSE]

Ids == 1..(MaxGrades + 2)

\* t is the timer that is left.
FreshId(t) == CHOOSE i \in Ids :
    /\ i \notin grades \cup {t}
    /\ \A j \in 1..(i - 1) : j \in grades \cup {t}

\* ActiveQuestion as _activate builds it.  from is the note_mod the question
\* was generated from.
Activated(c, from, kind, t) ==
    [id |-> FreshId(t), card |-> c, from |-> from, kind |-> kind,
     chosen |-> FALSE, grading |-> FALSE, graded |-> FALSE, scored |-> FALSE]

Graded(q, scored) ==
    [q EXCEPT !.grading = FALSE, !.graded = TRUE, !.scored = scored]

\* cur is not None and cur.card_id == card.id
IsFor(q, c) == q # NoQuestion /\ c = q.card

Paused == focus = "paused"

StillCurrent(job) ==
    mw = "review" /\ card = job.card /\ serial = job.token

----------------------------------------------------------------------------
(* Notes are read through Card.note(), which reads the collection once and  *)
(* keeps the note until Card.load().  A request holds on to the card object *)
(* it was made with (own: still the reviewer's); when the reviewer fetches  *)
(* a card anew, the request is left with what the old object had kept.      *)

\* Card.note() of a card whose object has kept the note of time s.
Note(c, s) == IF c \notin Concepts THEN NoMod ELSE IF s = NoMod THEN mod'[c] ELSE s

Request(c, note_mod, token) ==
    [card |-> c, mod |-> note_mod, token |-> token, own |-> TRUE, note |-> NoMod]

\* The requests once the reviewer's card object, which has kept s, is replaced.
Detached(s) ==
    {IF job.own THEN [job EXCEPT !.own = FALSE, !.note = s] ELSE job : job \in gens}

\* card.note().mod in the request's success
NoteOf(job) == Note(job.card, IF job.own THEN seen ELSE job.note)

----------------------------------------------------------------------------
(* Handlers the actions below are made of.                                 *)

\* Reviewer.cleanup, with _on_reviewer_end: the review screen is left.
Away ==
    /\ mw' = "away"
    /\ card' = NoCard /\ seen' = NoMod
    /\ advance' = FALSE
    /\ current' = NoQuestion
    /\ timer' = 0
    /\ gens' = Detached(seen)
    /\ focus' = "none" /\ answered' = 0
    /\ UNCHANGED <<state, inflight, serial, prefetching, cache>>

\* _prefetch: the scheduler's next cards are some of the other concepts; one
\* that nobody works on and that has no valid cached question is requested.
Prefetch(c, inf, cached) == \E queued \in SUBSET (Upcoming \ {c}) :
    LET wanted == {d \in queued : /\ prefetching[d] = NoMod
                                  /\ inf[d] = 0
                                  /\ cached[d].note_mod # mod'[d]}
    IN  /\ prefetching' = [d \in Concepts |->
                              IF d \in wanted THEN mod'[d] ELSE prefetching[d]]
        /\ cache' = [d \in Concepts |->
                              IF d \in wanted THEN NoEntry ELSE cached[d]]

\* The rest of _showQuestion once intercept_question returned False.
Draw(c, q, inf, cached) ==
    /\ state' = "question"
    /\ current' = q
    /\ IF IsFor(q, c) THEN Prefetch(c, inf, cached)
                      ELSE cache' = cached /\ UNCHANGED prefetching

\* _take_over: the reviewer is parked while a question is generated.
Park(q) == state' = "transition" /\ current' = q

\* _fail: in 10 ms the learner is sent back to the deck list.
Fail ==
    /\ state' = "transition"
    /\ current' = NoQuestion
    /\ leaving' = TRUE

\* _showQuestion for card c, whose object has kept the note of time s, while q
\* is the active question, inf and jobs are the requests that are left, and t
\* the timer.
ShowQuestion(c, q, inf, jobs, t, s) ==
    LET note == Note(c, s)
    IN  /\ mw' = "review" /\ card' = c /\ seen' = note
        /\ \/ /\ c \notin Concepts \/ IsFor(q, c)
              /\ Draw(c, q, inf, cache)
              /\ timer' = t /\ inflight' = inf /\ gens' = jobs
              /\ UNCHANGED <<serial, leaving>>
           \/ /\ c \in Concepts /\ ~IsFor(q, c) /\ inf[c] # 0
              /\ Park(q)
              /\ timer' = 0 /\ inflight' = inf /\ gens' = jobs
              /\ UNCHANGED <<serial, leaving, prefetching, cache>>
           \/ /\ c \in Concepts /\ ~IsFor(q, c) /\ inf[c] = 0
              /\ FALSE \in Configured
              /\ Fail
              /\ timer' = 0 /\ inflight' = inf /\ gens' = jobs
              /\ UNCHANGED <<serial, prefetching, cache>>
           \/ /\ c \in Concepts /\ ~IsFor(q, c) /\ inf[c] = 0
              /\ TRUE \in Configured /\ cache[c].note_mod = note
              /\ \E k \in Kinds : Draw(c, Activated(c, cache[c].from, k, 0), inf,
                                       [cache EXCEPT ![c] = NoEntry])
              /\ timer' = 0 /\ inflight' = inf /\ gens' = jobs
              /\ UNCHANGED <<serial, leaving>>
           \/ /\ c \in Concepts /\ ~IsFor(q, c) /\ inf[c] = 0
              /\ TRUE \in Configured /\ cache[c].note_mod # note
              /\ serial' = serial + 1
              /\ inflight' = [inf EXCEPT ![c] = serial + 1]
              /\ gens' = jobs \cup {Request(c, note, serial + 1)}
              /\ Park(q)
              /\ timer' = 0
              /\ cache' = [cache EXCEPT ![c] = NoEntry]
              /\ UNCHANGED <<leaving, prefetching>>

\* nextCard: the scheduler has a card, the same one perhaps, or none.  It is a
\* new object.  s is what the old one had kept.
NextCard(q, t, s) ==
    \/ Away /\ UNCHANGED leaving
    \/ \E c \in Cards : ShowQuestion(c, q, inflight, Detached(s), t, NoMod)
                        /\ UNCHANGED <<advance, session>>

\* _on_show_answer: the timer that will submit the suggested rating.
Armed(q) == IF AutoSubmit /\ focus = "none" /\ q.graded /\ q.scored
            THEN q.id ELSE timer

\* The rest of _showAnswer once intercept_answer returned False.
Reveal(q, s) ==
    /\ state' = "answer"
    /\ seen' = Note(card, s)
    /\ current' = q
    /\ timer' = IF IsFor(q, card) THEN Armed(q) ELSE timer

\* _showAnswer while q is the active question, jobs are the gradings that are
\* left, at most MaxGrades with a new one, and the card has kept the note of
\* time s.
ShowAnswer(q, jobs, s) ==
    \/ /\ mw # "review" \/ Paused \/ (IsFor(q, card) /\ q.grading)
       /\ current' = q /\ grades' = jobs /\ seen' = s
       /\ UNCHANGED <<state, timer>>
    \/ /\ mw = "review" /\ ~Paused
       /\ ~IsFor(q, card) \/ q.graded \/ q.kind = "self"
       /\ Reveal(q, s)
       /\ grades' = jobs
    \/ /\ mw = "review" /\ ~Paused
       /\ IsFor(q, card) /\ ~q.graded /\ ~q.grading
       /\ q.kind \in {"choice", "typed"}
       /\ Reveal(Graded(q, TRUE), s)
       /\ grades' = jobs
    \/ /\ mw = "review" /\ ~Paused
       /\ IsFor(q, card) /\ ~q.graded /\ ~q.grading
       /\ q.kind = "typed"
       /\ Cardinality(jobs) < MaxGrades
       /\ current' = [q EXCEPT !.grading = TRUE]
       /\ grades' = jobs \cup {q.id} /\ seen' = s
       /\ UNCHANGED <<state, timer>>

\* _redraw_current_card: Card.load() drops the note that was kept.
Redraw ==
    IF state = "answer"
    THEN /\ UNCHANGED <<mw, card, requests, leaving>>
         /\ ShowAnswer(current, grades, NoMod)
    ELSE /\ ShowQuestion(card, current, inflight, gens, timer, NoMod)
         /\ UNCHANGED grades

\* _answerCard: the rating goes to the collection in the background.
AnswerCard ==
    IF mw = "review" /\ state = "answer" /\ ~Paused
    THEN state' = "transition" /\ answering' = card
    ELSE UNCHANGED <<state, answering>>

----------------------------------------------------------------------------
(* The learner.  The window takes input when it has the focus and no       *)
(* collection operation is running.  The bound on requests ends the moves  *)
(* that would start another, never a job's own.                            *)

Input == answering = NoCard /\ ~refresh
Bounded == serial' <= MaxSerial

\* Study a deck, with a focus session or without.
StartReview == \E with \in {"none", "running"} :
    /\ mw = "away" /\ Input
    /\ UNCHANGED <<waits, advance, grades, mod>>
    /\ focus' = with /\ answered' = 0
    /\ \E c \in Cards : ShowQuestion(c, current, inflight, gens, timer, NoMod)
    /\ Bounded

\* Home, Study Hub, closing the deck: any way out of the review screen.
LeaveReview ==
    /\ mw = "review" /\ Input
    /\ Away
    /\ UNCHANGED <<waits, leaving, grades, mod>>

\* Bury, suspend, forget, undo, a sync: the queues changed.
QueuesChanged ==
    /\ mw = "review" /\ Input
    /\ UNCHANGED <<waits, grades, mod>>
    /\ NextCard(current, timer, seen)
    /\ Bounded

\* A note is edited.  The reviewer redraws its card, at once when its window
\* has the focus, else when the focus returns.
EditNote(c) ==
    /\ mod[c] < MaxMod /\ answering = NoCard
    /\ mod' = [mod EXCEPT ![c] = @ + 1]
    /\ \/ /\ mw = "review" /\ Input
          /\ Redraw /\ Bounded
          /\ UNCHANGED refresh
       \/ /\ mw = "review"
          /\ refresh' = TRUE
          /\ UNCHANGED <<shown, current, requests, timer, leaving, grades>>
       \/ /\ mw = "away"
          /\ UNCHANGED <<shown, refresh, current, requests, timer, leaving, grades>>
    /\ UNCHANGED <<answering, enter, advance, session>>

\* toggle_mark_on_current_note: an edit the reviewer does itself and does not
\* redraw for; it loads the card and reads the note.
MarkNote ==
    /\ mw = "review" /\ Input
    /\ card \in Editable /\ mod[card] < MaxMod
    /\ mod' = [mod EXCEPT ![card] = @ + 1]
    /\ seen' = mod'[card]
    /\ UNCHANGED <<mw, card, state, waits, advance, current, requests,
                   timer, leaving, grades, session>>

\* refresh_if_needed when the focus returns.
FocusReturns ==
    /\ refresh
    /\ refresh' = FALSE
    /\ UNCHANGED <<answering, enter, advance, mod, session>>
    /\ IF mw = "review"
       THEN Redraw /\ Bounded
       ELSE UNCHANGED <<shown, current, requests, timer, leaving, grades>>

\* onEnterKey: the typed text is asked of the web view.
EnterKey ==
    /\ mw = "review" /\ Input /\ ~enter
    /\ state = "question"
    /\ enter' = TRUE
    /\ UNCHANGED <<shown, answering, refresh, advance, current, requests,
                   timer, leaving, grades, mod, session>>

\* _onTypedAnswer: the web view's reply, for whatever card is shown by now.
TypedAnswer ==
    /\ enter
    /\ enter' = FALSE
    /\ UNCHANGED <<mw, card, answering, refresh, advance, requests, leaving, mod,
                   session>>
    /\ ShowAnswer(current, grades, seen)

\* _choose, by click or digit.
Choose ==
    /\ mw = "review" /\ Input /\ ~Paused
    /\ state = "question"
    /\ IsFor(current, card) /\ current.kind = "choice" /\ ~current.chosen
    /\ UNCHANGED <<mw, card, waits, advance, requests, leaving, mod, session>>
    /\ ShowAnswer([current EXCEPT !.chosen = TRUE], grades, seen)

\* A rating button or digit.
Rate ==
    /\ state = "answer" /\ Input
    /\ AnswerCard
    /\ UNCHANGED <<mw, card, seen, refresh, enter, advance, current,
                   requests, timer, leaving, grades, mod, session>>

\* toggle_auto_advance
ToggleAdvance ==
    /\ AutoAdvance
    /\ mw = "review" /\ Input
    /\ advance' = ~advance
    /\ UNCHANGED <<shown, waits, current, requests, timer, leaving, grades,
                   mod, session>>

\* The focus bar's pause and resume.
PauseFocus ==
    /\ mw = "review" /\ Input /\ focus = "running"
    /\ focus' = "paused"
    /\ timer' = 0
    /\ UNCHANGED <<shown, waits, advance, current, requests, leaving, grades,
                   mod, answered>>

ResumeFocus ==
    /\ mw = "review" /\ Input /\ Paused
    /\ focus' = "running"
    /\ UNCHANGED <<shown, waits, advance, current, requests, timer, leaving,
                   grades, mod, answered>>

----------------------------------------------------------------------------
(* Background jobs, timers and the collection.                             *)

Without(job) == [inflight EXCEPT ![job.card] = 0]

\* success, when the learner has moved on: the question is kept.
KeepForLater(job) ==
    /\ ~StillCurrent(job)
    /\ inflight' = Without(job) /\ gens' = gens \ {job}
    /\ cache' = [cache EXCEPT ![job.card] = Entry(job.mod, job.mod)]
    /\ UNCHANGED <<shown, current, serial, prefetching, timer, leaving>>

\* Mutant: the outdated question is dropped and the reviewer not called again.
DropOutdated(job) ==
    /\ StillCurrent(job) /\ NoteOf(job) # job.mod
    /\ inflight' = Without(job) /\ gens' = gens \ {job}
    /\ UNCHANGED <<shown, current, serial, prefetching, timer, leaving, cache>>

\* success, when the request's card sees that its note was edited meanwhile.
StartOver(job) ==
    /\ StillCurrent(job) /\ NoteOf(job) # job.mod
    /\ ShowQuestion(card, current, Without(job), gens \ {job}, timer, seen)

\* Mutant: the question is asked without another look at the note.
AskAnyway(job) == \E k \in Kinds :
    /\ StillCurrent(job)
    /\ ShowQuestion(card, Activated(job.card, job.mod, k, timer),
                    Without(job), gens \ {job}, timer, seen)

\* success: the question is asked.
AskNow(job) == \E k \in Kinds :
    /\ StillCurrent(job) /\ NoteOf(job) = job.mod
    /\ ShowQuestion(card, Activated(job.card, job.mod, k, timer),
                    Without(job), gens \ {job}, timer, seen)

Generated(job) ==
    /\ UNCHANGED <<waits, advance, grades, mod, session>>
    /\ KeepForLater(job) \/ StartOver(job) \/ AskNow(job)

\* Mutant: the mark is only taken back for the card the learner waits for.
FailedKeepsMark(job) ==
    /\ gens' = gens \ {job}
    /\ IF StillCurrent(job)
       THEN Fail /\ inflight' = Without(job)
       ELSE UNCHANGED <<state, current, leaving, inflight>>
    /\ UNCHANGED <<mw, card, seen, waits, advance, serial, prefetching,
                   timer, grades, cache, mod, session>>

\* failure: it did not.
GenerationFailed(job) ==
    /\ inflight' = Without(job) /\ gens' = gens \ {job}
    /\ IF StillCurrent(job) THEN Fail ELSE UNCHANGED <<state, current, leaving>>
    /\ UNCHANGED <<mw, card, seen, waits, advance, serial, prefetching,
                   timer, grades, cache, mod, session>>

GenerationEnds(c) == \E job \in gens :
    job.card = c /\ (Generated(job) \/ GenerationFailed(job))

\* Mutant: a grading that ends calls _showAnswer for whatever is asked now.
GradingEndsAnywhere(i) == \E scored \in BOOLEAN :
    /\ i \in grades
    /\ UNCHANGED <<mw, card, waits, advance, requests, leaving, mod, session>>
    /\ ShowAnswer(IF current.id = i THEN Graded(current, scored) ELSE current,
                  grades \ {i}, seen)

\* Mutant: a failed grading does not call _showAnswer.
GradingEndsSilently(i) == \E scored \in BOOLEAN :
    /\ i \in grades
    /\ UNCHANGED <<mw, card, waits, advance, requests, leaving, mod, session>>
    /\ IF current.id = i /\ scored
       THEN ShowAnswer(Graded(current, scored), grades \ {i}, seen)
       ELSE /\ grades' = grades \ {i}
            /\ current' = IF current.id = i THEN Graded(current, scored) ELSE current
            /\ UNCHANGED <<state, seen, timer>>

\* success and failure of a grading job: scored tells which.
GradingEnds(i) == \E scored \in BOOLEAN :
    /\ i \in grades
    /\ UNCHANGED <<mw, card, waits, advance, requests, leaving, mod, session>>
    /\ IF current.id = i
       THEN ShowAnswer(Graded(current, scored), grades \ {i}, seen)
       ELSE /\ grades' = grades \ {i}
            /\ UNCHANGED <<state, seen, current, timer>>

\* _on_prefetched and _on_prefetch_failed
PrefetchEnds(c) == \E ok \in BOOLEAN :
    /\ prefetching[c] # NoMod
    /\ prefetching' = [prefetching EXCEPT ![c] = NoMod]
    /\ cache' = IF ok
                THEN [cache EXCEPT ![c] = Entry(prefetching[c], prefetching[c])]
                ELSE cache
    /\ UNCHANGED <<shown, waits, advance, current, inflight, serial, gens,
                   timer, leaving, grades, mod, session>>

\* A cached question is dropped: too old, or the modes changed.
CacheExpires(c) ==
    /\ cache[c] # NoEntry
    /\ cache' = [cache EXCEPT ![c] = NoEntry]
    /\ UNCHANGED <<shown, waits, advance, current, inflight, serial,
                   prefetching, gens, timer, leaving, grades, mod, session>>

\* go, 10 ms after _fail.
LeaveAfterFailure ==
    /\ leaving
    /\ leaving' = FALSE
    /\ IF mw = "review"
       THEN Away
       ELSE UNCHANGED <<shown, advance, current, requests, timer, session>>
    /\ UNCHANGED <<waits, grades, mod>>

\* Mutant: the timer rates whatever answer is shown.
AutoSubmitAny ==
    /\ timer # 0
    /\ timer' = 0
    /\ AnswerCard
    /\ UNCHANGED <<mw, card, seen, refresh, enter, advance, current,
                   requests, leaving, grades, mod, session>>

\* fire: the suggested rating is submitted.
AutoSubmitFires ==
    /\ timer # 0
    /\ timer' = 0
    /\ IF state = "answer" /\ IsFor(current, card) /\ current.id = timer
       THEN AnswerCard
       ELSE UNCHANGED <<state, answering>>
    /\ UNCHANGED <<mw, card, seen, refresh, enter, advance, current,
                   requests, leaving, grades, mod, session>>

\* _on_show_answer_timeout and _on_show_question_timeout.  A timer that runs
\* out during an operation is tried again after it, and the end of a sound
\* calls again what ran out while it played: either may come in any state.
\* Auto-advance ends when the window has lost the focus.
TimeIsUp ==
    /\ advance /\ card # NoCard /\ answering = NoCard
    /\ UNCHANGED <<refresh, enter, mod>>
    /\ \/ /\ advance' = FALSE
          /\ UNCHANGED <<shown, answering, current, requests, timer, leaving,
                         grades, session>>
       \/ /\ ~refresh
          /\ UNCHANGED <<mw, card, answering, advance, requests, leaving, session>>
          /\ ShowAnswer(current, grades, seen)
       \/ /\ ~refresh
          /\ AnswerCard
          /\ UNCHANGED <<mw, card, seen, advance, current, requests, timer,
                         leaving, grades, session>>
       \/ /\ ~refresh
          /\ NextCard(current, timer, seen)
          /\ Bounded
          /\ UNCHANGED <<answering, grades>>

\* _record_focus_answer: the session ends at its goal, or when its time is up.
CountAnswer ==
    \/ /\ focus # "none" /\ answered + 1 < Goal
       /\ answered' = answered + 1 /\ UNCHANGED focus
    \/ focus' = "none" /\ answered' = 0

\* after_answer: the card is loaded, the question is closed and the next card
\* is shown.
Answered ==
    /\ answering # NoCard
    /\ answering' = NoCard
    /\ UNCHANGED <<refresh, enter, grades, mod>>
    /\ IF card = NoCard
       THEN UNCHANGED <<shown, advance, current, requests, timer, leaving, session>>
       ELSE LET left == IF IsFor(current, card) THEN NoQuestion ELSE current
            IN  \/ Away /\ UNCHANGED leaving
                \/ /\ \E c \in Cards :
                         ShowQuestion(c, left, inflight, Detached(NoMod), 0, NoMod)
                   /\ Bounded
                   /\ CountAnswer
                   /\ UNCHANGED advance

----------------------------------------------------------------------------
Init ==
    /\ mw = "away" /\ card = NoCard /\ state = "transition"
    /\ answering = NoCard /\ refresh = FALSE /\ enter = FALSE
    /\ advance = FALSE /\ seen = NoMod
    /\ current = NoQuestion
    /\ inflight = [c \in Concepts |-> 0] /\ serial = 0
    /\ prefetching = [c \in Concepts |-> NoMod]
    /\ timer = 0 /\ leaving = FALSE
    /\ gens = {} /\ grades = {}
    /\ cache = [c \in Concepts |-> NoEntry]
    /\ mod = [c \in Concepts |-> 1]
    /\ focus = "none" /\ answered = 0

Learner ==
    \/ StartReview \/ LeaveReview \/ QueuesChanged
    \/ \E c \in Editable : EditNote(c)
    \/ MarkNote \/ FocusReturns \/ EnterKey \/ Choose \/ Rate \/ ToggleAdvance
    \/ PauseFocus \/ ResumeFocus

Program ==
    \/ TypedAnswer \/ LeaveAfterFailure \/ AutoSubmitFires \/ TimeIsUp \/ Answered
    \/ \E c \in Concepts : GenerationEnds(c) \/ PrefetchEnds(c) \/ CacheExpires(c)
    \/ \E i \in Ids : GradingEnds(i)

Next == Learner \/ Program

Spec == Init /\ [][Next]_vars

\* A job of the language model ends: its requests have timeouts and its errors
\* are reported.  The learner, the other timers and the prefetches owe nothing.
Fairness ==
    /\ WF_vars(\E c \in Concepts : GenerationEnds(c))
    /\ WF_vars(\E i \in Ids : GradingEnds(i))

FairSpec == Spec /\ Fairness

----------------------------------------------------------------------------
(* Properties.                                                             *)

Questions == [id: Ids, card: Concepts, from: Mods, kind: Kinds, chosen: BOOLEAN,
              grading: BOOLEAN, graded: BOOLEAN, scored: BOOLEAN]

\* The types of the variables.
TypeOK ==
    /\ mw \in {"review", "away"} /\ card \in Cards \cup {NoCard}
    /\ state \in {"question", "answer", "transition"}
    /\ answering \in Cards \cup {NoCard}
    /\ refresh \in BOOLEAN /\ enter \in BOOLEAN /\ leaving \in BOOLEAN
    /\ advance \in BOOLEAN /\ seen \in Mods \cup {NoMod}
    /\ current \in Questions \cup {NoQuestion}
    /\ inflight \in [Concepts -> Nat] /\ serial \in Nat
    /\ prefetching \in [Concepts -> Mods \cup {NoMod}]
    /\ timer \in Ids \cup {0} /\ grades \subseteq Ids
    /\ gens \subseteq [card: Concepts, mod: Mods, token: Nat, own: BOOLEAN,
                       note: Mods \cup {NoMod}]
    /\ cache \in [Concepts -> [note_mod: Mods, from: Mods] \cup {NoEntry}]
    /\ mod \in [Concepts -> Mods]
    /\ focus \in {"none", "running", "paused"} /\ answered \in 0..(Goal - 1)

\* A card that is marked as being asked for (_inflight) has a request that
\* still runs and brings its result to the mark, so that nobody waits for one
\* that has ended; and it has no active question yet, so that no late result
\* replaces a question the learner is working on.
MarksAreTrue == \A c \in Concepts :
    inflight[c] # 0 =>
        /\ \E job \in gens : job.card = c /\ job.token = inflight[c]
        /\ current.card # c

\* A question is activated.
Asked == /\ current' # current /\ current' # NoQuestion
         /\ ~(current'.chosen \/ current'.grading \/ current'.graded)

\* A question that is activated was generated from the note as it is, however
\* long its request ran, whichever cards were shown in between, and whether it
\* came from the model or from the cache; unless the reviewer still owes the
\* redraw for an edit (its window has no focus), or has fetched the card anew
\* since the request was made, so that the request looks at a card object
\* nobody loads any more.
QuestionIsFresh == [][Asked =>
    \/ current'.from = mod'[current'.card]
    \/ refresh'
    \/ \E job \in gens \ gens' : ~job.own]_vars

\* The timer only ever submits the rating of the question it was armed for,
\* while that question's own card shows its answer.
TimerRatesOwn == [][(timer # 0 /\ timer' = 0 /\ answering' # answering
                       /\ answering' # NoCard) =>
                    /\ state = "answer" /\ IsFor(current, card)
                    /\ current.id = timer /\ current.scored]_vars

\* A question turns graded only because the learner answered it (a choice, or
\* the typed text came back), because its own grading ended, or because the
\* time auto-advance gives it was up: a grading the learner walked away from
\* never grades another question as left blank.
GradedOnRequest == [][
    (current'.id = current.id /\ ~current.graded /\ current'.graded) =>
        \/ enter /\ ~enter'
        \/ current'.chosen /\ ~current.chosen
        \/ current.grading /\ grades' = grades \ {current.id}
        \/ advance /\ grades' = grades]_vars

\* The reviewer is parked on a concept card and waits for its question.
Waiting ==
    /\ mw = "review" /\ card \in Concepts /\ state = "transition"
    /\ answering = NoCard /\ ~leaving

\* The wait is over: something is drawn, or the review screen is left.
WaitOver == state # "transition" \/ leaving \/ mw = "away"

\* A reviewer parked under the newest request is served: the question is
\* drawn or the failure is reported, even when the note is edited meanwhile;
\* only going back to a card whose older request still runs ends the promise.
NewestIsServed ==
    (Waiting /\ inflight[card] = serial) ~>
        (WaitOver \/ (card \in Concepts /\ inflight[card] \notin {0, serial}))

\* A typed answer is graded and shown: unless the learner turns to another
\* question or pauses, the answer side comes up.
GradingIsShown ==
    current.grading ~>
        (state = "answer" \/ Paused \/ ~(current.grading \/ current.graded))

=============================================================================
