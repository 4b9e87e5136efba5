------------------------- MODULE ConceptReviewProofs -------------------------
(***************************************************************************)
(* For every deck, every mix of modes and every bound: a question is asked *)
(* with the note as it is, but for the two ways in which the code can miss *)
(* an edit; a card marked as being asked for has a request that runs; and  *)
(* the timer and the grading jobs act on the question they were started    *)
(* for.                                                                    *)
(*                                                                         *)
(* The invariant needs no types.  Its first part says that a question is a *)
(* record with ActiveQuestion's fields, that the cache tells the truth     *)
(* about the note_mod its questions were generated from, and what the      *)
(* reviewer's card object has kept of its note.  The second part, Pointed, *)
(* says which question the ids of the jobs and of the timer stand for.     *)
(***************************************************************************)
EXTENDS ConceptReview, FiniteSetTheorems, WellFoundedInduction, TLAPS

IsQuestion(q) ==
    DOMAIN q = {"id", "card", "from", "kind", "chosen", "grading", "graded", "scored"}

IsCache(rows) ==
    /\ rows = [c \in Concepts |-> rows[c]]
    /\ \A c \in Concepts : rows[c].from = rows[c].note_mod

\* A question under which an answer is shown is graded, if it is the card's.
Own(m, c, s, q) ==
    (m = "review" /\ c \in Concepts /\ s = "answer" /\ IsFor(q, c)) =>
        q.graded \/ q.kind = "self"

\* The note kept in the reviewer's card is the note as it is, or a redraw is
\* owed; and away from the review screen there is no card.
Kept(m, c, s, owed, times) ==
    /\ m # "review" => c = NoCard
    /\ (c \in Concepts /\ ~owed) => s \in {NoMod, times[c]}

\* Only requests for the reviewer's card hold on to its card object.
IsJob(job) ==
    DOMAIN job = {"card", "mod", "token", "own", "note"} /\ job.card \in Concepts
JobsAreOwn(jobs, c) == \A job \in jobs : IsJob(job) /\ (job.own => job.card = c)

\* MarksAreTrue for given marks, requests and active question.
Marks(inf, jobs, q) ==
    /\ inf = [c \in Concepts |-> inf[c]]
    /\ \A c \in Concepts : inf[c] # 0 =>
           /\ \E job \in jobs : job.card = c /\ job.token = inf[c]
           /\ q.card # c

Inv ==
    /\ IsQuestion(current)
    /\ IsCache(cache)
    /\ Own(mw, card, state, current)
    /\ Kept(mw, card, seen, refresh, mod)
    /\ JobsAreOwn(gens, card)
    /\ Marks(inflight, gens, current)
    /\ mod = [c \in Concepts |-> mod[c]]

(* What _activate builds is a question of the card.                        *)
LEMMA ActivatedFacts ==
  ASSUME NEW c \in Concepts, NEW m, NEW k \in Kinds, NEW t
  PROVE  LET q == Activated(c, m, k, t)
         IN  IsQuestion(q) /\ IsFor(q, c) /\ q.from = m /\ q.card = c
<1>1. Activated(c, m, k, t).card = c /\ NoQuestion.card = NoCard /\ c # NoCard
  BY CardsAssumption DEF Activated, NoQuestion
<1> QED
  BY <1>1 DEF Activated, IsQuestion, IsFor

(* Grading and answering leave the question whose it is.                   *)
LEMMA GradedFacts ==
  ASSUME NEW q, IsQuestion(q), NEW b
  PROVE  /\ IsQuestion(Graded(q, b)) /\ Graded(q, b).graded = TRUE
         /\ Graded(q, b).card = q.card /\ Graded(q, b) # NoQuestion
         /\ Graded(q, b).kind = q.kind
BY DEF Graded, IsQuestion, NoQuestion

LEMMA ChosenFacts ==
  ASSUME NEW q, IsQuestion(q)
  PROVE  LET p == [q EXCEPT !.chosen = TRUE]
         IN  /\ IsQuestion(p) /\ p.card = q.card /\ p # NoQuestion
             /\ p.graded = q.graded /\ p.kind = q.kind /\ p.chosen
BY DEF IsQuestion, NoQuestion

LEMMA GradingFacts ==
  ASSUME NEW q, IsQuestion(q)
  PROVE  LET p == [q EXCEPT !.grading = TRUE]
         IN  /\ IsQuestion(p) /\ p.card = q.card /\ p # NoQuestion
             /\ p.graded = q.graded /\ p.kind = q.kind /\ p.grading
BY DEF IsQuestion, NoQuestion

LEMMA NoQuestionFacts ==
  IsQuestion(NoQuestion) /\ \A c \in Concepts : NoQuestion.card # c
BY CardsAssumption DEF IsQuestion, NoQuestion

LEMMA NoEntryFacts == NoEntry.from = NoEntry.note_mod
BY DEF NoEntry, Entry

(* A row that is put or dropped keeps the cache honest.                    *)
LEMMA RowFacts ==
  ASSUME NEW rows, IsCache(rows), NEW c \in Concepts, NEW r, r.from = r.note_mod
  PROVE  IsCache([rows EXCEPT ![c] = r])
<1> DEFINE new == [rows EXCEPT ![c] = r]
<1>1. new = [d \in Concepts |-> IF d = c THEN r ELSE rows[d]]
  BY DEF IsCache
<1>2. \A d \in Concepts : new[d] = IF d = c THEN r ELSE rows[d]
  BY <1>1
<1>3. new = [d \in Concepts |-> new[d]]
  BY <1>1
<1>4. \A d \in Concepts : new[d].from = new[d].note_mod
  BY <1>2 DEF IsCache
<1> HIDE DEF new
<1>5. IsCache(new)
  BY <1>3, <1>4 DEF IsCache
<1> QED
  BY <1>5 DEF new

(* A request that ends takes its card's mark with it, and only a mark of   *)
(* that card could have named it.                                          *)
LEMMA WithoutFacts ==
  ASSUME NEW q, Marks(inflight, gens, q), NEW job \in gens, job.card \in Concepts
  PROVE  /\ Marks(Without(job), gens \ {job}, q)
         /\ Without(job)[job.card] = 0
<1> DEFINE new == Without(job)
<1>1. new = [d \in Concepts |-> IF d = job.card THEN 0 ELSE inflight[d]]
  BY DEF Marks, Without
<1>2. \A d \in Concepts : new[d] = IF d = job.card THEN 0 ELSE inflight[d]
  BY <1>1
<1>3. new = [d \in Concepts |-> new[d]]
  BY <1>1
<1> HIDE DEF new
<1>4. Marks(new, gens \ {job}, q)
  BY <1>2, <1>3 DEF Marks
<1> QED
  BY <1>2, <1>4 DEF new

(* No mark minds a question that is dropped, or one of an unmarked card.   *)
LEMMA MarksOfAnother ==
  ASSUME NEW inf, NEW jobs, NEW q, NEW p, Marks(inf, jobs, q),
         \/ p.card = q.card
         \/ \A c \in Concepts : p.card # c
         \/ p.card \in Concepts /\ inf[p.card] = 0
  PROVE  Marks(inf, jobs, p)
BY DEF Marks

(* A card object that is replaced leaves the requests their cards and      *)
(* their tokens, and none of them holds on to the reviewer's object.       *)
LEMMA DetachedFacts ==
  ASSUME NEW s, JobsAreOwn(gens, card)
  PROVE  /\ \A c : JobsAreOwn(Detached(s), c)
         /\ \A inf, q : Marks(inf, gens, q) => Marks(inf, Detached(s), q)
<1> DEFINE Freed(job) == IF job.own THEN [job EXCEPT !.own = FALSE, !.note = s] ELSE job
<1>1. \A job \in gens : /\ IsJob(Freed(job)) /\ ~Freed(job).own
                        /\ Freed(job).card = job.card /\ Freed(job).token = job.token
  BY DEF JobsAreOwn, IsJob
<1>2. Detached(s) = {Freed(job) : job \in gens}
  BY DEF Detached
<1> HIDE DEF Freed
<1>3. \A c : JobsAreOwn(Detached(s), c)
  BY <1>1, <1>2 DEF JobsAreOwn
<1>4. ASSUME NEW inf, NEW q, Marks(inf, gens, q)
      PROVE  Marks(inf, Detached(s), q)
  <2>1. ASSUME NEW c \in Concepts, inf[c] # 0
        PROVE  \E job \in Detached(s) : job.card = c /\ job.token = inf[c]
    <3>1. PICK job \in gens : job.card = c /\ job.token = inf[c]
      BY <1>4, <2>1 DEF Marks
    <3>2. Freed(job) \in Detached(s)
      BY <1>2
    <3> QED
      BY <1>1, <3>1, <3>2
  <2> QED
    BY <1>4, <2>1 DEF Marks
<1> QED
  BY <1>3, <1>4

(* A new request is marked, and looks at the reviewer's card.              *)
LEMMA RequestFacts ==
  ASSUME NEW c \in Concepts, NEW note, NEW token, NEW inf, NEW jobs, NEW q,
         JobsAreOwn(jobs, c), Marks(inf, jobs, q), q.card # c
  PROVE  LET more == jobs \cup {Request(c, note, token)}
         IN  /\ JobsAreOwn(more, c)
             /\ Marks([inf EXCEPT ![c] = token], more, q)
<1> DEFINE r == Request(c, note, token)
           more == jobs \cup {r}
           new == [inf EXCEPT ![c] = token]
<1>1. IsJob(r) /\ r.card = c /\ r.token = token
  BY DEF Request, IsJob
<1>2. new = [d \in Concepts |-> IF d = c THEN token ELSE inf[d]]
  BY DEF Marks
<1>3. \A d \in Concepts : new[d] = IF d = c THEN token ELSE inf[d]
  BY <1>2
<1>4. new = [d \in Concepts |-> new[d]]
  BY <1>2
<1> HIDE DEF r, new
<1>5. JobsAreOwn(more, c)
  BY <1>1 DEF JobsAreOwn
<1>6. ASSUME NEW d \in Concepts, new[d] # 0
      PROVE  (\E job \in more : job.card = d /\ job.token = new[d]) /\ q.card # d
  <2>1. CASE d = c
    BY <1>1, <1>3, <2>1
  <2>2. CASE d # c
    BY <1>3, <1>6, <2>2 DEF Marks
  <2> QED
    BY <2>1, <2>2
<1>7. Marks(new, more, q)
  BY <1>4, <1>6 DEF Marks
<1> QED
  BY <1>5, <1>7 DEF r, new

-----------------------------------------------------------------------------
(* The reviewer's screen.                                                  *)

(* The prefetch drops rows and puts none.                                  *)
LEMMA PrefetchKeepsCache ==
  ASSUME NEW c, NEW inf, NEW rows, IsCache(rows), Prefetch(c, inf, rows)
  PROVE  IsCache(cache)'
<1>1. PICK wanted : cache' = [d \in Concepts |->
                      IF d \in wanted THEN NoEntry ELSE rows[d]]
  BY DEF Prefetch
<1>2. \A d \in Concepts : cache'[d] = IF d \in wanted THEN NoEntry ELSE rows[d]
  BY <1>1
<1>3. cache' = [d \in Concepts |-> cache'[d]]
  BY <1>1
<1>4. \A d \in Concepts : cache'[d].from = cache'[d].note_mod
  BY <1>2, NoEntryFacts DEF IsCache
<1> QED
  BY <1>3, <1>4 DEF IsCache

\* A question is asked that was not active before, and is not outdated.
AsksFresh(q) == (Asked /\ current' # q) => current'.from = mod'[current'.card]

(* _showQuestion establishes the invariant whatever was on the screen, as  *)
(* long as the card's object keeps the note as it is; and what it takes    *)
(* from the cache is fresh.                                                *)
LEMMA ShowQuestionKeepsInv ==
  ASSUME NEW c, NEW q, NEW inf, NEW jobs, NEW t, NEW s,
         IsQuestion(q), IsCache(cache), JobsAreOwn(jobs, c), Marks(inf, jobs, q),
         (c \in Concepts /\ ~refresh') => s \in {NoMod, mod'[c]},
         mod' = [d \in Concepts |-> mod'[d]],
         ShowQuestion(c, q, inf, jobs, t, s)
  PROVE  /\ Inv'
         /\ ~refresh' => AsksFresh(q)
<1> USE DEF AsksFresh
<1> DEFINE note == Note(c, s)
<1>0. /\ mw' = "review" /\ card' = c /\ seen' = note
      /\ (c \in Concepts /\ ~refresh') => note = mod'[c]
  BY DEF ShowQuestion, Note
<1>1. Kept(mw, card, seen, refresh, mod)'
  BY <1>0 DEF Kept
<1> HIDE DEF note
<1>2. CASE /\ c \notin Concepts \/ IsFor(q, c)
           /\ Draw(c, q, inf, cache)
           /\ inflight' = inf /\ gens' = jobs
  <2>1. current' = q /\ state' = "question"
    BY <1>2 DEF Draw
  <2>2. IsCache(cache)'
    BY <1>2, PrefetchKeepsCache DEF Draw, IsCache
  <2>3. JobsAreOwn(gens, card)' /\ Marks(inflight, gens, current)' /\ IsQuestion(current)'
    BY <1>0, <1>2, <2>1 DEF JobsAreOwn, Marks, IsQuestion
  <2> QED
    BY <1>1, <2>1, <2>2, <2>3 DEF Inv, Own
<1>3. CASE /\ Park(q) /\ inflight' = inf /\ gens' = jobs /\ UNCHANGED cache
  <2>1. current' = q /\ state' = "transition"
    BY <1>3 DEF Park
  <2>2. IsCache(cache)'
    BY <1>3 DEF IsCache
  <2>3. JobsAreOwn(gens, card)' /\ Marks(inflight, gens, current)' /\ IsQuestion(current)'
    BY <1>0, <1>3, <2>1 DEF JobsAreOwn, Marks, IsQuestion
  <2> QED
    BY <1>1, <2>1, <2>2, <2>3 DEF Inv, Own
<1>4. CASE /\ Fail /\ inflight' = inf /\ gens' = jobs /\ UNCHANGED cache
  <2>1. current' = NoQuestion /\ state' = "transition"
    BY <1>4 DEF Fail
  <2>2. IsCache(cache)'
    BY <1>4 DEF IsCache
  <2>3. Marks(inf, jobs, NoQuestion)
    BY NoQuestionFacts, MarksOfAnother
  <2>4. JobsAreOwn(gens, card)' /\ Marks(inflight, gens, current)' /\ IsQuestion(current)'
    BY <1>0, <1>4, <2>1, <2>3, NoQuestionFacts DEF JobsAreOwn, Marks, IsQuestion
  <2> QED
    BY <1>1, <2>1, <2>2, <2>4 DEF Inv, Own, Asked
<1>5. CASE /\ c \in Concepts /\ inf[c] = 0 /\ cache[c].note_mod = note
           /\ \E k \in Kinds : Draw(c, Activated(c, cache[c].from, k, 0), inf,
                                    [cache EXCEPT ![c] = NoEntry])
           /\ inflight' = inf /\ gens' = jobs
  <2>1. PICK k \in Kinds : Draw(c, Activated(c, note, k, 0), inf,
                                [cache EXCEPT ![c] = NoEntry])
    BY <1>5 DEF IsCache
  <2> DEFINE p == Activated(c, note, k, 0)
  <2>2. IsQuestion(p) /\ p.from = note /\ p.card = c
    BY <1>5, ActivatedFacts
  <2>3. current' = p /\ state' = "question"
    BY <2>1 DEF Draw
  <2>4. IsCache([cache EXCEPT ![c] = NoEntry])
    BY <1>5, RowFacts, NoEntryFacts
  <2>5. IsCache(cache)'
    BY <2>1, <2>4, PrefetchKeepsCache DEF Draw, IsCache
  <2> HIDE DEF p
  <2>6. Marks(inf, jobs, p)
    BY <1>5, <2>2, MarksOfAnother
  <2>7. JobsAreOwn(gens, card)' /\ Marks(inflight, gens, current)' /\ IsQuestion(current)'
    BY <1>0, <1>5, <2>2, <2>3, <2>6 DEF JobsAreOwn, Marks, IsQuestion
  <2> QED
    BY <1>0, <1>1, <1>5, <2>2, <2>3, <2>5, <2>7 DEF Inv, Own
<1>6. CASE /\ c \in Concepts /\ ~IsFor(q, c) /\ Park(q)
           /\ inflight' = [inf EXCEPT ![c] = serial + 1]
           /\ gens' = jobs \cup {Request(c, note, serial + 1)}
           /\ cache' = [cache EXCEPT ![c] = NoEntry]
  <2>1. current' = q /\ state' = "transition"
    BY <1>6 DEF Park
  <2>2. IsCache(cache')
    BY <1>6, RowFacts, NoEntryFacts
  <2>3. IsCache(cache)'
    BY <2>2 DEF IsCache
  <2>4. q.card # c
    BY <1>6, NoQuestionFacts DEF IsFor
  <2>5. JobsAreOwn(gens', c) /\ Marks(inflight', gens', q)
    BY <1>6, <2>4, RequestFacts
  <2>6. JobsAreOwn(gens, card)' /\ Marks(inflight, gens, current)' /\ IsQuestion(current)'
    BY <1>0, <2>1, <2>5 DEF JobsAreOwn, Marks, IsQuestion
  <2> QED
    BY <1>1, <2>1, <2>3, <2>6 DEF Inv, Own
<1> QED
  BY <1>2, <1>3, <1>4, <1>5, <1>6 DEF ShowQuestion, note

(* _showAnswer keeps it for an active question with the same standing.     *)
LEMMA ShowAnswerKeepsInv ==
  ASSUME NEW q, NEW jobs, NEW s, Inv, IsQuestion(q), q.card = current.card,
         Own(mw, card, state, q), ShowAnswer(q, jobs, s),
         (card \in Concepts /\ ~refresh') => s \in {NoMod, mod'[card]},
         mod' = [d \in Concepts |-> mod'[d]],
         UNCHANGED <<mw, card, inflight, gens, cache>>
  PROVE  /\ Inv'
         /\ current' = q \/ current'.graded \/ current'.grading
<1>1. IsCache(cache)' /\ JobsAreOwn(gens, card)'
  BY DEF Inv, IsCache, JobsAreOwn
<1>2. ASSUME current'.card = current.card
      PROVE  Marks(inflight, gens, current)'
  BY <1>2 DEF Inv, Marks
<1>3. ASSUME seen' \in {s, Note(card, s)}
      PROVE  Kept(mw, card, seen, refresh, mod)'
  BY <1>3 DEF Inv, Kept, Note
<1>4. CASE current' = q /\ state' = state /\ seen' = s
  BY <1>1, <1>2, <1>3, <1>4 DEF Inv, Own, IsFor, IsQuestion
<1>5. CASE (~IsFor(q, card) \/ q.graded \/ q.kind = "self") /\ Reveal(q, s)
  BY <1>1, <1>2, <1>3, <1>5 DEF Inv, Own, IsFor, IsQuestion, Reveal
<1>6. CASE Reveal(Graded(q, TRUE), s)
  <2> DEFINE p == Graded(q, TRUE)
  <2>1. IsQuestion(p) /\ p.graded = TRUE /\ p.card = q.card
    BY GradedFacts
  <2>2. current' = p /\ seen' = Note(card, s)
    BY <1>6 DEF Reveal
  <2> HIDE DEF p
  <2> QED
    BY <1>1, <1>2, <1>3, <2>1, <2>2 DEF Inv, Own, IsQuestion
<1>7. CASE IsFor(q, card) /\ current' = [q EXCEPT !.grading = TRUE] /\ state' = state /\ seen' = s
  <2> DEFINE p == [q EXCEPT !.grading = TRUE]
  <2>1. /\ IsQuestion(p) /\ p.card = q.card /\ p.graded = q.graded /\ p.kind = q.kind
        /\ p.grading = TRUE
    BY GradingFacts
  <2>2. current' = p
    BY <1>7
  <2> HIDE DEF p
  <2> QED
    BY <1>1, <1>2, <1>3, <1>7, <2>1, <2>2 DEF Inv, Own, IsFor, IsQuestion
<1> QED
  BY <1>4, <1>5, <1>6, <1>7 DEF ShowAnswer

(* Leaving the review screen.                                              *)
LEMMA AwayKeepsInv ==
  ASSUME Inv, Away, UNCHANGED mod
  PROVE  Inv'
<1>1. Marks(inflight, Detached(seen), NoQuestion) /\ JobsAreOwn(Detached(seen), NoCard)
  BY DetachedFacts, NoQuestionFacts, MarksOfAnother DEF Inv
<1>2. NoCard \notin Concepts
  BY CardsAssumption
<1>3. Marks(inflight, gens, current)' /\ JobsAreOwn(gens, card)'
  BY <1>1 DEF Away, Marks, JobsAreOwn
<1>4. IsCache(cache)' /\ IsQuestion(current)'
  BY NoQuestionFacts DEF Inv, Away, IsCache, IsQuestion
<1>5. Own(mw, card, state, current)' /\ Kept(mw, card, seen, refresh, mod)'
  BY <1>2 DEF Away, Own, Kept
<1> QED
  BY <1>3, <1>4, <1>5 DEF Inv

(* Steps that change neither the screen nor the questions.                 *)
LEMMA QuietKeepsInv ==
  ASSUME Inv, UNCHANGED <<mw, card, seen, refresh, current, inflight, gens, cache, mod>>,
         state' \in {state, "transition"}
  PROVE  Inv'
BY DEF Inv, Own, IsQuestion, IsCache, IsFor, NoQuestion, Kept, JobsAreOwn, Marks

LEMMA EditFacts ==
  ASSUME Inv, NEW c, mod' = [mod EXCEPT ![c] = @ + 1]
  PROVE  mod' = [d \in Concepts |-> mod'[d]]
<1>1. mod' = [d \in Concepts |-> IF d = c THEN mod[d] + 1 ELSE mod[d]]
  BY DEF Inv
<1> QED
  BY <1>1

\* A step as QuestionIsFresh wants it.
FreshStep ==
    Asked => \/ current'.from = mod'[current'.card]
             \/ refresh'
             \/ \E job \in gens \ gens' : ~job.own

LEMMA RedrawKeepsInv ==
  ASSUME Inv, Redraw, mod' = [d \in Concepts |-> mod'[d]]
  PROVE  Inv' /\ FreshStep
<1>1. CASE state = "answer"
  BY <1>1, ShowAnswerKeepsInv DEF Redraw, Inv, requests, FreshStep, Asked
<1>2. CASE state # "answer"
  BY <1>2, ShowQuestionKeepsInv DEF Redraw, Inv, FreshStep, AsksFresh, Asked
<1> QED
  BY <1>1, <1>2

LEMMA NextCardKeepsInv ==
  ASSUME Inv, NEW q, NEW t, NEW s, NextCard(q, t, s), UNCHANGED mod,
         IsQuestion(q), Marks(inflight, gens, q)
  PROVE  Inv' /\ (~refresh' => AsksFresh(q))
<1>1. CASE Away
  BY <1>1, AwayKeepsInv DEF Away, AsksFresh, Asked
<1>2. ASSUME NEW c \in Cards, ShowQuestion(c, q, inflight, Detached(s), t, NoMod)
      PROVE  Inv' /\ (~refresh' => AsksFresh(q))
  <2>1. JobsAreOwn(Detached(s), c) /\ Marks(inflight, Detached(s), q)
    BY DetachedFacts DEF Inv
  <2> QED
    BY <1>2, <2>1, ShowQuestionKeepsInv DEF Inv
<1> QED
  BY <1>1, <1>2 DEF NextCard

LEMMA InitInv == Init => Inv
<1> SUFFICES ASSUME Init PROVE Inv
  OBVIOUS
<1>1. IsCache(cache)
  BY NoEntryFacts DEF Init, IsCache
<1>2. Own(mw, card, state, current) /\ Kept(mw, card, seen, refresh, mod)
  BY CardsAssumption DEF Init, Own, Kept
<1>3. Marks(inflight, gens, current) /\ JobsAreOwn(gens, card)
  BY DEF Init, Marks, JobsAreOwn
<1> QED
  BY <1>1, <1>2, <1>3, NoQuestionFacts DEF Init, Inv

-----------------------------------------------------------------------------
(* Every step.                                                             *)

LEMMA LearnerKeepsInv ==
  ASSUME Inv, Learner
  PROVE  Inv' /\ FreshStep
<1> USE DEF Inv
<1>1. CASE StartReview
  <2>1. PICK c \in Cards : ShowQuestion(c, current, inflight, gens, timer, NoMod)
    BY <1>1 DEF StartReview
  <2>2. \A job \in gens : ~job.own
    BY <1>1, CardsAssumption DEF StartReview, Kept, JobsAreOwn, IsJob
  <2>3. JobsAreOwn(gens, c)
    BY <2>2 DEF JobsAreOwn
  <2>4. UNCHANGED mod
    BY <1>1 DEF StartReview
  <2>5. Inv' /\ (~refresh' => AsksFresh(current))
    BY <2>1, <2>3, <2>4, ShowQuestionKeepsInv
  <2> QED
    BY <2>5 DEF FreshStep, AsksFresh, Asked
<1>2. CASE LeaveReview
  BY <1>2, AwayKeepsInv DEF LeaveReview, Away, FreshStep, Asked
<1>3. CASE QueuesChanged
  <2>1. Inv' /\ (~refresh' => AsksFresh(current))
    BY <1>3, NextCardKeepsInv DEF QueuesChanged
  <2> QED
    BY <2>1 DEF FreshStep, AsksFresh, Asked
<1>4. ASSUME NEW c \in Editable, EditNote(c)
      PROVE  Inv' /\ FreshStep
  <2>1. mod' = [d \in Concepts |-> mod'[d]]
    BY <1>4, EditFacts DEF EditNote
  <2>2. CASE Redraw
    BY <2>1, <2>2, RedrawKeepsInv
  <2>3. CASE refresh' = TRUE /\ UNCHANGED <<shown, current, requests>>
    BY <2>1, <2>3 DEF shown, requests, FreshStep, Own, IsQuestion, IsCache, IsFor,
                      NoQuestion, Kept, JobsAreOwn, Marks
  <2>4. CASE mw = "away" /\ UNCHANGED <<shown, refresh, current, requests>>
    BY <2>1, <2>4, CardsAssumption
       DEF shown, requests, FreshStep, Asked, Own, IsQuestion, IsCache, IsFor,
           NoQuestion, Kept, JobsAreOwn, Marks
  <2> QED
    BY <1>4, <2>2, <2>3, <2>4 DEF EditNote
<1>5. CASE MarkNote
  <2>1. mod' = [d \in Concepts |-> mod'[d]]
    BY <1>5, EditFacts DEF MarkNote
  <2> QED
    BY <1>5, <2>1 DEF MarkNote, requests, FreshStep, Asked, Own, IsQuestion, IsCache,
                      IsFor, NoQuestion, Kept, JobsAreOwn, Marks
<1>6. CASE FocusReturns
  <2>1. CASE Redraw
    BY <1>6, <2>1, RedrawKeepsInv DEF FocusReturns
  <2>2. CASE mw # "review" /\ UNCHANGED <<shown, current, requests>>
    BY <1>6, <2>2, CardsAssumption
       DEF FocusReturns, shown, requests, FreshStep, Asked, Own, IsQuestion, IsCache,
           IsFor, NoQuestion, Kept, JobsAreOwn, Marks
  <2> QED
    BY <1>6, <2>1, <2>2 DEF FocusReturns
<1>7. CASE EnterKey \/ ToggleAdvance \/ PauseFocus \/ ResumeFocus
  BY <1>7, QuietKeepsInv DEF EnterKey, ToggleAdvance, PauseFocus, ResumeFocus, shown,
                             waits, requests, FreshStep, Asked
<1>8. CASE Choose
  <2> DEFINE q == [current EXCEPT !.chosen = TRUE]
  <2>1. /\ IsQuestion(q) /\ q.card = current.card /\ q # NoQuestion
        /\ q.graded = current.graded /\ q.kind = current.kind /\ q.chosen = TRUE
    BY DEF IsQuestion, NoQuestion
  <2>2. ShowAnswer(q, grades, seen) /\ UNCHANGED <<mw, card, refresh, requests, mod>>
    BY <1>8 DEF Choose, waits
  <2> HIDE DEF q
  <2>3. Own(mw, card, state, q)
    BY <1>8, <2>1 DEF Choose, Own
  <2>4. Inv' /\ (current' = q \/ current'.graded \/ current'.grading)
    BY <2>1, <2>2, <2>3, ShowAnswerKeepsInv DEF requests, Kept
  <2> QED
    BY <2>1, <2>4 DEF FreshStep, Asked
<1>9. CASE Rate
  BY <1>9, QuietKeepsInv DEF Rate, AnswerCard, requests, FreshStep, Asked
<1> QED
  BY <1>1, <1>2, <1>3, <1>4, <1>5, <1>6, <1>7, <1>8, <1>9 DEF Learner

(* A question request that ends, well or badly.                            *)
LEMMA GenerationKeepsInv ==
  ASSUME Inv, NEW c \in Concepts, GenerationEnds(c)
  PROVE  Inv' /\ FreshStep
<1> USE DEF Inv
<1>1. PICK job \in gens : job.card = c /\ (Generated(job) \/ GenerationFailed(job))
  BY DEF GenerationEnds
<1>2. /\ Marks(Without(job), gens \ {job}, current) /\ Without(job)[c] = 0
      /\ JobsAreOwn(gens \ {job}, card)
  BY <1>1, WithoutFacts DEF JobsAreOwn
<1>3. UNCHANGED <<refresh, mod>>
  BY <1>1 DEF Generated, GenerationFailed, waits
<1>4. CASE KeepForLater(job)
  <2>1. Entry(job.mod, job.mod).from = Entry(job.mod, job.mod).note_mod
    BY DEF Entry
  <2>2. IsCache([cache EXCEPT ![c] = Entry(job.mod, job.mod)])
    BY <2>1, RowFacts
  <2>3. IsCache(cache)'
    BY <1>1, <1>4, <2>2 DEF KeepForLater, IsCache
  <2> QED
    BY <1>2, <1>3, <1>4, <2>3 DEF KeepForLater, shown, Own, IsQuestion, IsFor, Kept,
                                  JobsAreOwn, Marks, FreshStep, Asked
<1>5. CASE StartOver(job)
  <2>1. Inv' /\ (~refresh' => AsksFresh(current))
    BY <1>2, <1>3, <1>5, ShowQuestionKeepsInv DEF StartOver, Kept
  <2> QED
    BY <2>1 DEF FreshStep, AsksFresh, Asked
<1>6. CASE AskNow(job)
  <2>1. PICK k \in Kinds :
           ShowQuestion(card, Activated(c, job.mod, k, timer),
                        Without(job), gens \ {job}, timer, seen)
    BY <1>1, <1>6 DEF AskNow
  <2> DEFINE q == Activated(c, job.mod, k, timer)
  <2>2. IsQuestion(q) /\ IsFor(q, c) /\ q.from = job.mod /\ q.card = c
    BY ActivatedFacts
  <2>3. card = c /\ NoteOf(job) = job.mod
    BY <1>1, <1>6 DEF AskNow, StillCurrent
  <2> HIDE DEF q
  <2>4. Marks(Without(job), gens \ {job}, q)
    BY <1>2, <2>2, MarksOfAnother
  <2>5. ShowQuestion(card, q, Without(job), gens \ {job}, timer, seen)
    BY <2>1 DEF q
  <2>6. Inv' /\ (~refresh' => AsksFresh(q))
    BY <1>2, <1>3, <2>2, <2>4, <2>5, ShowQuestionKeepsInv DEF Kept
  <2>7. current' = q /\ gens' = gens \ {job}
    BY <2>2, <2>3, <2>5 DEF ShowQuestion, Draw
  <2>8. (job.own /\ ~refresh) => job.mod = mod'[c]
    BY <1>1, <1>3, <2>3 DEF NoteOf, Note, Kept
  <2> QED
    BY <1>3, <2>2, <2>6, <2>7, <2>8 DEF FreshStep, Kept
<1>7. CASE GenerationFailed(job)
  <2>1. IsCache(cache)' /\ Kept(mw, card, seen, refresh, mod)'
    BY <1>7 DEF GenerationFailed, IsCache, Kept, waits
  <2>2. CASE StillCurrent(job)
    <3>1. current' = NoQuestion /\ state' = "transition"
      BY <1>7, <2>2 DEF GenerationFailed, Fail
    <3>2. Marks(Without(job), gens \ {job}, NoQuestion)
      BY <1>2, NoQuestionFacts, MarksOfAnother
    <3> QED
      BY <1>2, <1>3, <1>7, <2>1, <3>1, <3>2, NoQuestionFacts
         DEF GenerationFailed, Own, IsQuestion, JobsAreOwn, Marks, FreshStep, Asked
  <2>3. CASE ~StillCurrent(job)
    BY <1>2, <1>3, <1>7, <2>1, <2>3
       DEF GenerationFailed, Own, IsFor, IsQuestion, JobsAreOwn, Marks, FreshStep, Asked
  <2> QED
    BY <2>2, <2>3
<1> QED
  BY <1>1, <1>4, <1>5, <1>6, <1>7 DEF Generated

LEMMA GradingKeepsInv ==
  ASSUME Inv, NEW i \in Ids, GradingEnds(i)
  PROVE  Inv' /\ FreshStep
<1> USE DEF Inv
<1>1. PICK scored \in BOOLEAN :
         IF current.id = i
         THEN ShowAnswer(Graded(current, scored), grades \ {i}, seen)
         ELSE UNCHANGED <<state, seen, current, timer>>
  BY DEF GradingEnds
<1>2. UNCHANGED <<mw, card, refresh, requests, mod>>
  BY DEF GradingEnds, waits
<1>3. CASE current.id = i
  <2> DEFINE q == Graded(current, scored)
  <2>1. /\ IsQuestion(q) /\ q.graded = TRUE
        /\ q.card = current.card /\ q # NoQuestion
    BY GradedFacts
  <2>2. ShowAnswer(q, grades \ {i}, seen)
    BY <1>1, <1>3
  <2> HIDE DEF q
  <2>3. Own(mw, card, state, q)
    BY <2>1 DEF Own
  <2>4. Inv' /\ (current' = q \/ current'.graded \/ current'.grading)
    BY <1>2, <2>1, <2>2, <2>3, ShowAnswerKeepsInv DEF requests, Kept
  <2> QED
    BY <2>1, <2>4 DEF FreshStep, Asked
<1>4. CASE current.id # i
  BY <1>1, <1>2, <1>4, QuietKeepsInv DEF requests, FreshStep, Asked
<1> QED
  BY <1>3, <1>4

LEMMA ProgramKeepsInv ==
  ASSUME Inv, Program
  PROVE  Inv' /\ FreshStep
<1> USE DEF Inv
<1>1. CASE TypedAnswer
  BY <1>1, ShowAnswerKeepsInv DEF TypedAnswer, requests, Kept, FreshStep, Asked
<1>2. CASE LeaveAfterFailure
  <2>1. CASE mw = "review"
    BY <1>2, <2>1, AwayKeepsInv DEF LeaveAfterFailure, Away, FreshStep, Asked
  <2>2. CASE mw # "review"
    BY <1>2, <2>2, QuietKeepsInv DEF LeaveAfterFailure, shown, requests, waits, FreshStep, Asked
  <2> QED
    BY <2>1, <2>2
<1>3. CASE AutoSubmitFires
  BY <1>3, QuietKeepsInv DEF AutoSubmitFires, AnswerCard, requests, FreshStep, Asked
<1>4. CASE TimeIsUp
  <2>1. UNCHANGED <<refresh, mod>>
    BY <1>4 DEF TimeIsUp
  <2>2. CASE UNCHANGED <<shown, current, requests>>
    BY <2>1, <2>2, QuietKeepsInv DEF shown, requests, FreshStep, Asked
  <2>3. CASE ShowAnswer(current, grades, seen) /\ UNCHANGED <<mw, card, requests>>
    BY <2>1, <2>3, ShowAnswerKeepsInv DEF requests, Kept, FreshStep, Asked
  <2>4. CASE AnswerCard /\ UNCHANGED <<mw, card, seen, current, requests>>
    BY <2>1, <2>4, QuietKeepsInv DEF AnswerCard, requests, FreshStep, Asked
  <2>5. CASE NextCard(current, timer, seen)
    <3>1. Inv' /\ (~refresh' => AsksFresh(current))
      BY <2>1, <2>5, NextCardKeepsInv
    <3> QED
      BY <3>1 DEF FreshStep, AsksFresh, Asked
  <2> QED
    BY <1>4, <2>2, <2>3, <2>4, <2>5 DEF TimeIsUp
<1>5. CASE Answered
  <2> DEFINE left == IF IsFor(current, card) THEN NoQuestion ELSE current
  <2>1. IsQuestion(left) /\ Marks(inflight, gens, left)
    BY NoQuestionFacts, MarksOfAnother
  <2>2. UNCHANGED <<refresh, mod>>
    BY <1>5 DEF Answered
  <2>3. CASE card = NoCard
    BY <1>5, <2>3, QuietKeepsInv DEF Answered, shown, requests, FreshStep, Asked
  <2>4. CASE Away
    BY <2>2, <2>4, AwayKeepsInv DEF Away, FreshStep, Asked
  <2>5. ASSUME NEW c \in Cards,
               ShowQuestion(c, left, inflight, Detached(NoMod), 0, NoMod)
        PROVE  Inv' /\ FreshStep
    <3> HIDE DEF left
    <3>1. JobsAreOwn(Detached(NoMod), c) /\ Marks(inflight, Detached(NoMod), left)
      BY <2>1, DetachedFacts
    <3>2. Inv' /\ (~refresh' => AsksFresh(left))
      BY <2>1, <2>2, <2>5, <3>1, ShowQuestionKeepsInv
    <3>3. Asked => current' # left
      BY DEF Asked, left
    <3> QED
      BY <3>2, <3>3 DEF FreshStep, AsksFresh
  <2> QED
    BY <1>5, <2>3, <2>4, <2>5 DEF Answered
<1>6. ASSUME NEW c \in Concepts, PrefetchEnds(c)
      PROVE  Inv' /\ FreshStep
  <2> DEFINE row == Entry(prefetching[c], prefetching[c])
  <2>1. row.from = row.note_mod
    BY DEF Entry
  <2>2. IsCache([cache EXCEPT ![c] = row])
    BY <2>1, RowFacts
  <2>3. IsCache(cache')
    BY <1>6, <2>2 DEF PrefetchEnds
  <2>4. IsCache(cache)'
    BY <2>3 DEF IsCache
  <2> QED
    BY <1>6, <2>4 DEF PrefetchEnds, shown, waits, Own, IsQuestion, IsFor, Kept, JobsAreOwn,
                      Marks, FreshStep, Asked
<1>7. ASSUME NEW c \in Concepts, CacheExpires(c)
      PROVE  Inv' /\ FreshStep
  <2>1. IsCache(cache')
    BY <1>7, RowFacts, NoEntryFacts DEF CacheExpires
  <2>2. IsCache(cache)'
    BY <2>1 DEF IsCache
  <2> QED
    BY <1>7, <2>2 DEF CacheExpires, shown, waits, Own, IsQuestion, IsFor, Kept, JobsAreOwn,
                      Marks, FreshStep, Asked
<1> QED
  BY <1>1, <1>2, <1>3, <1>4, <1>5, <1>6, <1>7, GenerationKeepsInv, GradingKeepsInv DEF Program

(* The invariant holds of every review.                                    *)
LEMMA InvHolds == Spec => []Inv
<1>1. Inv /\ [Next]_vars => Inv'
  <2> SUFFICES ASSUME Inv, [Next]_vars PROVE Inv'
    OBVIOUS
  <2>1. CASE UNCHANGED vars
    BY <2>1, QuietKeepsInv DEF vars
  <2> QED
    BY <2>1, LearnerKeepsInv, ProgramKeepsInv DEF Next
<1> QED
  BY <1>1, InitInv, PTL DEF Spec

(* A question is asked with the note as it is, whatever was generated,     *)
(* cached, edited and left in between, except while a redraw is owed for   *)
(* an edit and when the request looks at a card object that was replaced:  *)
(* these two are the only ways in which intercept_question and its         *)
(* callbacks ask about old text.                                           *)
THEOREM StaleOnlyUnseen == Spec => QuestionIsFresh
<1>1. Inv /\ [Next]_vars => [FreshStep]_vars
  BY LearnerKeepsInv, ProgramKeepsInv DEF Next
<1>2. FreshStep => (Asked =>
    \/ current'.from = mod'[current'.card]
    \/ refresh'
    \/ \E job \in gens \ gens' : ~job.own)
  BY DEF FreshStep
<1> QED
  BY <1>1, <1>2, InvHolds, PTL DEF Spec, QuestionIsFresh

(* A card is marked as being asked for only while a request runs that will *)
(* take the mark back, and never while a question of it is active, on      *)
(* every path through intercept_question, success and failure.             *)
THEOREM MarksStayTrue == Spec => []MarksAreTrue
<1>1. Inv => MarksAreTrue
  BY DEF Inv, Marks, MarksAreTrue
<1> QED
  BY <1>1, InvHolds, PTL
-----------------------------------------------------------------------------
(* Grading jobs and the timer refer to questions by identity.              *)

(* The jobs in the background, as many as the bound allows.                *)
Jobs(jobs) == IsFiniteSet(jobs) /\ Cardinality(jobs) <= MaxGrades /\ 0 \notin jobs

(* A question is a concept card's; while a job grades it, it is waiting;   *)
(* while the timer runs for it, it has its suggested rating.               *)
Refers(jobs, t, q) ==
    /\ q # NoQuestion => q.id # 0 /\ q.card \in Concepts
    /\ q.id \in jobs => q.grading /\ ~q.graded
    /\ t # 0 /\ q.id = t => q.graded /\ q.scored

Pointed == Jobs(grades) /\ Refers(grades, timer, current)

LEMMA LeastNatural ==
  ASSUME NEW S \in SUBSET Nat, S # {}
  PROVE  \E x \in S : \A y \in S : x <= y
<1>1. IsWellFoundedOn(OpToRel(<, Nat), Nat)
  BY NatLessThanWellFounded
<1>2. PICK x \in S : \A y \in S : ~ (<<y, x>> \in OpToRel(<, Nat))
  BY <1>1, WFMin
<1>3. \A y \in S : ~ (y < x)
  BY <1>2 DEF OpToRel
<1> QED
  BY <1>3

(* There is always an id left for a new object.                            *)
LEMMA FreshIdIsFresh ==
  ASSUME Jobs(grades), NEW t
  PROVE  FreshId(t) \in Ids /\ FreshId(t) \notin grades \cup {t}
<1> DEFINE used == grades \cup {t}
           free == Ids \ used
<1>1. IsFiniteSet(used) /\ Cardinality(used) <= MaxGrades + 1
  <2>1. Cardinality(grades) \in Nat /\ Cardinality(grades) <= MaxGrades
    BY FS_CardinalityType DEF Jobs
  <2>2. IsFiniteSet(used) /\ Cardinality(used) \in {Cardinality(grades), Cardinality(grades) + 1}
    <3>1. CASE t \in grades
      <4>1. used = grades
        BY <3>1
      <4> QED
        BY <4>1 DEF Jobs
    <3>2. CASE t \notin grades
      BY <3>2, FS_AddElement DEF Jobs
    <3> QED
      BY <3>1, <3>2
  <2> QED
    BY <2>1, <2>2, BoundsAssumption
<1>2. IsFiniteSet(Ids) /\ Cardinality(Ids) = MaxGrades + 2
  BY FS_Interval, BoundsAssumption DEF Ids
<1>3. free # {}
  <2> SUFFICES ASSUME free = {} PROVE FALSE
    OBVIOUS
  <2>1. Ids \subseteq used
    OBVIOUS
  <2>2. Cardinality(Ids) <= Cardinality(used)
    BY <1>1, <2>1, FS_Subset
  <2>3. Cardinality(used) \in Nat
    BY <1>1, FS_CardinalityType
  <2> QED
    BY <1>1, <1>2, <2>2, <2>3, BoundsAssumption
<1>4. free \in SUBSET Nat
  BY DEF Ids
<1>5. PICK x \in free : \A y \in free : x <= y
  BY <1>3, <1>4, LeastNatural
<1>6. \A j \in 1..(x - 1) : j \in used
  <2> SUFFICES ASSUME NEW j \in 1..(x - 1) PROVE j \in used
    OBVIOUS
  <2>1. j \in Ids /\ j < x
    BY BoundsAssumption DEF Ids
  <2> QED
    BY <1>5, <2>1, <1>4
<1> QED
  BY <1>5, <1>6 DEF FreshId

LEMMA ActivatedRefers ==
  ASSUME Jobs(grades), NEW c \in Concepts, NEW from, NEW k, NEW t
  PROVE  LET q == Activated(c, from, k, t)
         IN  Refers(grades, t, q) /\ ~q.graded /\ q # NoQuestion
<1>1. FreshId(t) \in Ids /\ FreshId(t) \notin grades \cup {t}
  BY FreshIdIsFresh
<1>2. FreshId(t) # 0
  BY <1>1, BoundsAssumption DEF Ids
<1> HIDE DEF FreshId
<1> QED
  BY <1>1, <1>2 DEF Refers, Activated, NoQuestion

LEMMA NoQuestionRefers ==
  ASSUME NEW jobs, Jobs(jobs), NEW t
  PROVE  Refers(jobs, t, NoQuestion) /\ ~NoQuestion.graded
BY DEF Jobs, Refers, NoQuestion

LEMMA TimerOff ==
  ASSUME NEW jobs, NEW t, NEW q, Refers(jobs, t, q)
  PROVE  Refers(jobs, 0, q)
BY DEF Refers

(* _showQuestion: the question it ends with is the one it was given, a new *)
(* one, or none.                                                           *)
LEMMA ShowQuestionPoints ==
  ASSUME NEW c, NEW q, NEW inf, NEW jobs, NEW t, NEW s, Jobs(grades),
         Refers(grades, t, q), ShowQuestion(c, q, inf, jobs, t, s), UNCHANGED grades
  PROVE  Pointed' /\ (current' = q \/ ~current'.graded)
<1>1. CASE current' = q /\ timer' \in {t, 0}
  BY <1>1, TimerOff DEF Pointed
<1>2. CASE current' = NoQuestion
  BY <1>2, NoQuestionRefers DEF Pointed
<1>3. ASSUME NEW k \in Kinds, c \in Concepts, timer' = 0,
             current' = Activated(c, cache[c].from, k, 0)
      PROVE  Pointed' /\ (current' = q \/ ~current'.graded)
  <2> DEFINE p == Activated(c, cache[c].from, k, 0)
  <2>1. Refers(grades, 0, p) /\ ~p.graded
    BY <1>3, ActivatedRefers
  <2> HIDE DEF p
  <2>2. current' = p
    BY <1>3 DEF p
  <2> QED
    BY <1>3, <2>1, <2>2 DEF Pointed
<1> QED
  BY <1>1, <1>2, <1>3 DEF ShowQuestion, Draw, Park, Fail

(* What _showAnswer does to the question it is given.                      *)
LEMMA ShowAnswerPoints ==
  ASSUME NEW q, IsQuestion(q), NEW jobs, NEW s, Jobs(jobs), Refers(jobs, timer, q),
         ShowAnswer(q, jobs, s)
  PROVE  Pointed' /\ (current'.graded = q.graded \/ grades' = jobs)
<1>1. CASE current' = q /\ grades' = jobs /\ timer' = timer
  BY <1>1 DEF Pointed
<1>2. CASE grades' = jobs /\ Reveal(q, s)
  BY <1>2 DEF Pointed, Reveal, Armed, Refers
<1>3. CASE /\ IsFor(q, card) /\ ~q.graded /\ ~q.grading
           /\ Reveal(Graded(q, TRUE), s) /\ grades' = jobs
  <2> DEFINE p == Graded(q, TRUE)
  <2>1. /\ p.graded = TRUE /\ p.scored = TRUE /\ p.id = q.id /\ p.card = q.card
    BY DEF Graded, IsQuestion
  <2>2. Refers(jobs, timer, p) /\ p.id # 0
    BY <1>3, <2>1 DEF Refers, IsFor
  <2>3. Reveal(p, s)
    BY <1>3
  <2> HIDE DEF p
  <2> QED
    BY <1>3, <2>2, <2>3 DEF Pointed, Reveal, Armed, Refers
<1>4. CASE /\ IsFor(q, card) /\ ~q.graded /\ Cardinality(jobs) < MaxGrades
           /\ current' = [q EXCEPT !.grading = TRUE] /\ grades' = jobs \cup {q.id}
           /\ timer' = timer
  <2> DEFINE p == [q EXCEPT !.grading = TRUE]
  <2>1. /\ p.graded = q.graded /\ p.grading = TRUE /\ p.id = q.id /\ p.card = q.card
    BY DEF IsQuestion
  <2>2. Refers(jobs \cup {q.id}, timer, p)
    BY <1>4, <2>1 DEF Refers, IsFor
  <2> HIDE DEF p
  <2>3. current' = p
    BY <1>4 DEF p
  <2>4. Jobs(jobs \cup {q.id})
    <3>1. q.id # 0
      BY <1>4 DEF IsFor, Refers
    <3>2. Cardinality(jobs) \in Nat /\ Cardinality(jobs) < MaxGrades
      BY <1>4, FS_CardinalityType DEF Jobs
    <3>3. IsFiniteSet(jobs \cup {q.id})
          /\ Cardinality(jobs \cup {q.id}) \in {Cardinality(jobs), Cardinality(jobs) + 1}
      <4>1. CASE q.id \in jobs
        <5>1. jobs \cup {q.id} = jobs
          BY <4>1
        <5> QED
          BY <5>1 DEF Jobs
      <4>2. CASE q.id \notin jobs
        BY <4>2, FS_AddElement DEF Jobs
      <4> QED
        BY <4>1, <4>2
    <3> QED
      BY <3>1, <3>2, <3>3, BoundsAssumption DEF Jobs
  <2> QED
    BY <1>4, <2>1, <2>2, <2>3, <2>4 DEF Pointed
<1> QED
  BY <1>1, <1>2, <1>3, <1>4 DEF ShowAnswer

(* Whether the question answered was graded for a reason.                  *)
Requested == current'.id = current.id /\ ~current.graded /\ current'.graded =>
    \/ enter /\ ~enter'
    \/ current'.chosen /\ ~current.chosen
    \/ current.grading /\ grades' = grades \ {current.id}
    \/ advance /\ grades' = grades

(* A step of no consequence to the jobs.                                   *)
LEMMA QuietPoints ==
  ASSUME Pointed, UNCHANGED <<current, grades>>, timer' \in {timer, 0}
  PROVE  Pointed' /\ Requested
BY TimerOff DEF Pointed, Requested

LEMMA AwayPoints ==
  ASSUME Pointed, UNCHANGED grades, current' = NoQuestion
  PROVE  Pointed' /\ Requested
BY NoQuestionRefers DEF Pointed, Requested

LEMMA RedrawPoints ==
  ASSUME Inv, Pointed, Redraw
  PROVE  Pointed' /\ Requested
<1>0. IsQuestion(current) /\ Jobs(grades) /\ Refers(grades, timer, current)
  BY DEF Inv, Pointed
<1>1. CASE state = "answer"
  <2>1. ShowAnswer(current, grades, NoMod)
    BY <1>1 DEF Redraw
  <2>2. Pointed'
    BY <1>0, <2>1, ShowAnswerPoints
  <2>3. ~Reveal(Graded(current, TRUE), NoMod) \/ ~IsFor(current, card) \/ current.graded
          \/ current.kind = "self" \/ mw # "review"
    BY <1>0, <1>1 DEF Inv, Own, Refers, IsFor
  <2>4. current' = current \/ ~current'.graded
    BY <1>0, <2>1, <2>3, GradingFacts DEF ShowAnswer, Reveal
  <2> QED
    BY <2>2, <2>4 DEF Requested
<1>2. CASE state # "answer"
  BY <1>0, <1>2, ShowQuestionPoints DEF Redraw, Requested
<1> QED
  BY <1>1, <1>2

LEMMA NextCardPoints ==
  ASSUME Pointed, NEW s, NextCard(current, timer, s), UNCHANGED grades
  PROVE  Pointed' /\ Requested
<1>1. CASE Away
  BY <1>1, AwayPoints DEF Away
<1>2. CASE \E c \in Cards :
          ShowQuestion(c, current, inflight, Detached(s), timer, NoMod)
  BY <1>2, ShowQuestionPoints DEF Pointed, Requested
<1> QED
  BY <1>1, <1>2 DEF NextCard

LEMMA LearnerPoints ==
  ASSUME Inv, Pointed, Learner
  PROVE  Pointed' /\ Requested
<1>0. IsQuestion(current) /\ Jobs(grades) /\ Refers(grades, timer, current)
  BY DEF Inv, Pointed
<1>1. CASE StartReview
  BY <1>0, <1>1, ShowQuestionPoints DEF StartReview, Requested
<1>2. CASE LeaveReview
  BY <1>2, AwayPoints DEF LeaveReview, Away
<1>3. CASE QueuesChanged
  BY <1>3, NextCardPoints DEF QueuesChanged
<1>4. ASSUME NEW c \in Editable, EditNote(c)
      PROVE  Pointed' /\ Requested
  <2>1. CASE Redraw
    BY <2>1, RedrawPoints
  <2>2. CASE UNCHANGED <<current, timer, grades>>
    BY <2>2, QuietPoints
  <2> QED
    BY <1>4, <2>1, <2>2 DEF EditNote
<1>5. CASE FocusReturns
  <2>1. CASE Redraw
    BY <2>1, RedrawPoints
  <2>2. CASE UNCHANGED <<current, timer, grades>>
    BY <2>2, QuietPoints
  <2> QED
    BY <1>5, <2>1, <2>2 DEF FocusReturns
<1>6. CASE EnterKey
  BY <1>6, QuietPoints DEF EnterKey
<1>7. CASE Choose
  <2> DEFINE q == [current EXCEPT !.chosen = TRUE]
  <2>1. /\ IsQuestion(q) /\ q.id = current.id /\ q.card = current.card /\ q.chosen = TRUE
        /\ q.graded = current.graded /\ q.grading = current.grading
        /\ q.scored = current.scored
    BY <1>0 DEF IsQuestion
  <2>2. ShowAnswer(q, grades, seen) /\ ~current.chosen /\ current # NoQuestion
    BY <1>7 DEF Choose, IsFor
  <2>3. Graded(q, TRUE).chosen = TRUE
    BY <2>1 DEF Graded, IsQuestion
  <2>4. [q EXCEPT !.grading = TRUE].chosen = TRUE
    BY <2>1 DEF IsQuestion
  <2> HIDE DEF q
  <2>5. Refers(grades, timer, q)
    BY <1>0, <2>1, <2>2 DEF Refers
  <2>6. Pointed'
    BY <1>0, <2>1, <2>2, <2>5, ShowAnswerPoints
  <2>7. current'.chosen
    BY <2>1, <2>2, <2>3, <2>4 DEF ShowAnswer, Reveal
  <2> QED
    BY <2>2, <2>6, <2>7 DEF Requested
<1>8. CASE Rate
  BY <1>8, QuietPoints DEF Rate
<1>9. CASE MarkNote \/ ToggleAdvance \/ PauseFocus \/ ResumeFocus
  BY <1>9, QuietPoints DEF MarkNote, ToggleAdvance, PauseFocus, ResumeFocus
<1> QED
  BY <1>1, <1>2, <1>3, <1>4, <1>5, <1>6, <1>7, <1>8, <1>9 DEF Learner

LEMMA GenerationPoints ==
  ASSUME Inv, Pointed, NEW c \in Concepts, GenerationEnds(c)
  PROVE  Pointed' /\ Requested
<1>0. Jobs(grades) /\ Refers(grades, timer, current)
  BY DEF Pointed
<1>1. PICK job \in gens : job.card = c /\ (Generated(job) \/ GenerationFailed(job))
  BY DEF GenerationEnds
<1>2. CASE Generated(job) /\ KeepForLater(job)
  BY <1>2, QuietPoints DEF Generated, KeepForLater
<1>3. CASE Generated(job) /\ StartOver(job)
  BY <1>0, <1>3, ShowQuestionPoints DEF Generated, StartOver, Requested
<1>4. CASE Generated(job) /\ AskNow(job)
  <2>1. PICK k \in Kinds :
           ShowQuestion(card, Activated(c, job.mod, k, timer),
                        Without(job), gens \ {job}, timer, seen)
    BY <1>1, <1>4 DEF AskNow
  <2> DEFINE p == Activated(c, job.mod, k, timer)
  <2>2. Refers(grades, timer, p) /\ ~p.graded
    BY <1>0, ActivatedRefers
  <2>3. ShowQuestion(card, p, Without(job), gens \ {job}, timer, seen)
    BY <2>1
  <2>4. UNCHANGED grades
    BY <1>4 DEF Generated
  <2> HIDE DEF p
  <2> QED
    BY <1>0, <2>2, <2>3, <2>4, ShowQuestionPoints DEF Requested
<1>5. CASE GenerationFailed(job)
  <2>1. CASE StillCurrent(job)
    BY <1>5, <2>1, AwayPoints DEF GenerationFailed, Fail
  <2>2. CASE ~StillCurrent(job)
    BY <1>5, <2>2, QuietPoints DEF GenerationFailed
  <2> QED
    BY <2>1, <2>2
<1> QED
  BY <1>1, <1>2, <1>3, <1>4, <1>5 DEF Generated

LEMMA GradingPoints ==
  ASSUME Inv, Pointed, NEW i \in Ids, GradingEnds(i)
  PROVE  Pointed' /\ Requested
<1>0. IsQuestion(current) /\ Jobs(grades) /\ Refers(grades, timer, current) /\ i \in grades
  BY DEF Inv, Pointed, GradingEnds
<1>1. Jobs(grades \ {i})
  <2>1. /\ IsFiniteSet(grades \ {i}) /\ Cardinality(grades) \in Nat
        /\ Cardinality(grades \ {i}) = Cardinality(grades) - 1
    BY <1>0, FS_RemoveElement, FS_CardinalityType DEF Jobs
  <2> QED
    BY <1>0, <2>1, BoundsAssumption DEF Jobs
<1>2. PICK scored \in BOOLEAN :
         IF current.id = i
         THEN ShowAnswer(Graded(current, scored), grades \ {i}, seen)
         ELSE grades' = grades \ {i} /\ UNCHANGED <<current, timer>>
  BY DEF GradingEnds
<1>3. CASE current.id = i
  <2> DEFINE q == Graded(current, scored)
  <2>1. IsQuestion(q) /\ q.graded = TRUE
    BY <1>0, GradedFacts
  <2>2. q.id = i /\ q.card = current.card
    BY <1>0, <1>3 DEF Graded, IsQuestion
  <2>3. current.grading /\ ~current.graded /\ timer # i
    BY <1>0, <1>3 DEF Refers, Jobs
  <2>4. current # NoQuestion
    BY <2>3 DEF NoQuestion
  <2>5. ShowAnswer(q, grades \ {i}, seen)
    BY <1>2, <1>3
  <2> HIDE DEF q
  <2>6. Refers(grades \ {i}, timer, q)
    BY <1>0, <1>3, <2>2, <2>3, <2>4 DEF Refers
  <2>7. Pointed'
    BY <1>1, <2>1, <2>5, <2>6, ShowAnswerPoints
  <2>8. grades' = grades \ {current.id}
    BY <1>3, <2>1, <2>5 DEF ShowAnswer
  <2> QED
    BY <2>3, <2>7, <2>8 DEF Requested
<1>4. CASE current.id # i
  BY <1>0, <1>1, <1>2, <1>4 DEF Pointed, Refers, Requested
<1> QED
  BY <1>3, <1>4

LEMMA ProgramPoints ==
  ASSUME Inv, Pointed, Program
  PROVE  Pointed' /\ Requested
<1>0. IsQuestion(current) /\ Jobs(grades) /\ Refers(grades, timer, current)
  BY DEF Inv, Pointed
<1>1. CASE TypedAnswer
  BY <1>0, <1>1, ShowAnswerPoints DEF TypedAnswer, Requested
<1>2. CASE LeaveAfterFailure
  BY <1>2, AwayPoints, QuietPoints DEF LeaveAfterFailure, Away
<1>3. CASE AutoSubmitFires
  BY <1>3, QuietPoints DEF AutoSubmitFires
<1>4. CASE Answered
  <2> DEFINE left == IF IsFor(current, card) THEN NoQuestion ELSE current
  <2>1. Refers(grades, 0, left) /\ (left = current \/ ~left.graded)
    BY <1>0, NoQuestionRefers, TimerOff
  <2>2. CASE card = NoCard
    BY <1>4, <2>2, QuietPoints DEF Answered
  <2>3. CASE Away
    BY <1>4, <2>3, AwayPoints DEF Away, Answered
  <2>4. ASSUME NEW c \in Cards,
               ShowQuestion(c, left, inflight, Detached(NoMod), 0, NoMod)
        PROVE  Pointed' /\ Requested
    <3> HIDE DEF left
    <3>1. UNCHANGED grades
      BY <1>4 DEF Answered
    <3> QED
      BY <1>0, <2>1, <2>4, <3>1, ShowQuestionPoints DEF Requested
  <2> QED
    BY <1>4, <2>2, <2>3, <2>4 DEF Answered
<1>5. ASSUME NEW c \in Concepts, PrefetchEnds(c) \/ CacheExpires(c)
      PROVE  Pointed' /\ Requested
  BY <1>5, QuietPoints DEF PrefetchEnds, CacheExpires
<1>6. CASE TimeIsUp
  <2>1. CASE UNCHANGED <<current, timer, grades>>
    BY <2>1, QuietPoints
  <2>2. CASE ShowAnswer(current, grades, seen)
    <3>1. Pointed' /\ (current'.graded = current.graded \/ grades' = grades)
      BY <1>0, <2>2, ShowAnswerPoints
    <3> QED
      BY <1>6, <3>1 DEF TimeIsUp, Requested
  <2>3. CASE NextCard(current, timer, seen) /\ UNCHANGED grades
    BY <2>3, NextCardPoints
  <2> QED
    BY <1>6, <2>1, <2>2, <2>3 DEF TimeIsUp
<1> QED
  BY <1>1, <1>2, <1>3, <1>4, <1>5, <1>6, GenerationPoints, GradingPoints DEF Program

LEMMA InitPoints == Init => Pointed
<1> SUFFICES ASSUME Init PROVE Pointed
  OBVIOUS
<1>1. Jobs(grades)
  BY FS_EmptySet, BoundsAssumption DEF Init, Jobs
<1> QED
  BY <1>1, NoQuestionRefers DEF Init, Pointed

(* A rating that is submitted without the learner is the timer's, and the  *)
(* timer's question is the one whose answer is shown.                      *)
Rated == timer # 0 /\ timer' = 0 /\ answering' # answering /\ answering' # NoCard =>
    /\ state = "answer" /\ IsFor(current, card)
    /\ current.id = timer /\ current.scored

LEMMA StepRates ==
  ASSUME Pointed, Next
  PROVE  Rated
<1>1. CASE Learner
  BY <1>1 DEF Rated, Learner, StartReview, LeaveReview, QueuesChanged, EditNote,
              FocusReturns, EnterKey, Choose, Rate, MarkNote, ToggleAdvance,
              PauseFocus, ResumeFocus, shown, waits
<1>2. CASE Program
  <2>1. CASE AutoSubmitFires
    BY <2>1 DEF AutoSubmitFires, Rated, Pointed, Refers
  <2>2. CASE Answered
    BY <2>2 DEF Answered, Rated
  <2>3. ASSUME NEW c \in Concepts, GenerationEnds(c)
        PROVE  UNCHANGED answering
    BY <2>3 DEF GenerationEnds, Generated, GenerationFailed, waits
  <2>4. ASSUME NEW c \in Concepts, PrefetchEnds(c) \/ CacheExpires(c)
        PROVE  UNCHANGED answering
    BY <2>4 DEF PrefetchEnds, CacheExpires, waits
  <2>5. ASSUME NEW i \in Ids, GradingEnds(i)
        PROVE  UNCHANGED answering
    BY <2>5 DEF GradingEnds, waits
  <2>6. CASE TypedAnswer \/ LeaveAfterFailure
    BY <2>6 DEF TypedAnswer, LeaveAfterFailure, Rated, waits
  <2>7. CASE TimeIsUp
    BY <2>7 DEF TimeIsUp, AnswerCard, Rated
  <2> QED
    BY <1>2, <2>1, <2>2, <2>3, <2>4, <2>5, <2>6, <2>7 DEF Program, Rated
<1> QED
  BY <1>1, <1>2 DEF Next

(* Ids refer to the questions they were given to, in every review.         *)
LEMMA PointedHolds == Spec => []Pointed
<1>1. Inv /\ Pointed /\ [Next]_vars => Pointed'
  <2> SUFFICES ASSUME Inv, Pointed, [Next]_vars PROVE Pointed'
    OBVIOUS
  <2>1. CASE UNCHANGED vars
    BY <2>1, QuietPoints DEF vars
  <2> QED
    BY <2>1, LearnerPoints, ProgramPoints DEF Next
<1> QED
  BY <1>1, InitPoints, InvHolds, PTL DEF Spec

(* The timer of auto-submit submits only the suggested rating of the       *)
(* question it was armed for, and only while the card of that question     *)
(* shows its answer, however many questions came and went meanwhile.       *)
THEOREM TimerRatesItsOwn == Spec => TimerRatesOwn
<1>1. Pointed /\ [Next]_vars => [Rated]_vars
  BY StepRates
<1>2. Rated => ((timer # 0 /\ timer' = 0 /\ answering' # answering
                       /\ answering' # NoCard) =>
                    /\ state = "answer" /\ IsFor(current, card)
                    /\ current.id = timer /\ current.scored)
  BY DEF Rated
<1> QED
  BY <1>1, <1>2, PointedHolds, PTL DEF Spec, TimerRatesOwn

(* A question turns graded only because the learner answered it, because   *)
(* its own grading ended, or because the time auto-advance gives it was    *)
(* up; a grading that was left behind never grades another question: the   *)
(* `is` comparison of the callbacks is enough.                             *)
THEOREM GradedForAReason == Spec => GradedOnRequest
<1>1. Inv /\ Pointed /\ [Next]_vars => [Requested]_vars
  BY LearnerPoints, ProgramPoints DEF Next
<1>2. Requested => ((current'.id = current.id /\ ~current.graded /\ current'.graded) =>
        \/ enter /\ ~enter'
        \/ current'.chosen /\ ~current.chosen
        \/ current.grading /\ grades' = grades \ {current.id}
        \/ advance /\ grades' = grades)
  BY DEF Requested
<1> QED
  BY <1>1, <1>2, PointedHolds, InvHolds, PTL DEF Spec, GradedOnRequest
=============================================================================
