# AnkiGPT: models, checks and proofs

AnkiGPT is a fork of Anki: a spaced-repetition program whose core is a Rust
library (`rslib`), driven by a Python/Qt desktop program (`qt/aqt`, `pylib`)
and a web front end (`ts`), with an added layer that generates courses and
quiz questions with a language model (`qt/aqt/ankigpt`). This directory holds
TLA+ models of its stateful parts, the TLC configurations that check them and
TLAPS proofs about them.

Each component has one specification (`X.tla`), one instance for TLC (`MCX.tla`
with its `.cfg` files) and, where something is proved, one or more proof modules
(`XProofs.tla`). `PROJECT.json` maps every definition to the lines it models and
lists runs, mutants, hazards, findings and theorems.

## 1. Inventory

| Component | State it keeps | Operations | What is hard about it | What makes it correct |
|---|---|---|---|---|
| Collection sync (`rslib/src/sync/collection`, `http_server`) | usn, modification, schema and last-sync stamps; graves; per-object usn and mtime; the server's session and open savepoint | meta, start, apply graves, apply changes, chunks, sanity check, finish, abort, full upload and download | several devices, lost requests and responses, restarts, clocks | devices converge, nothing committed is lost, a failed session leaves no trace |
| Undo history and transactions (`rslib/src/undo`, `collection/transact.rs`) | undo and redo queues, a step counter, the current step | transact, undo, redo, merge steps, custom steps, coalescing of note edits | long sequences of legal calls | undo restores exactly the state before, redo the state after; a step is undone once |
| Review of concept cards (`qt/aqt/ankigpt/review.py`, `qt/aqt/reviewer.py`, `focus.py`, the cache of `store.py`) | the current question, requests in flight, prefetches, a serial, an auto-submit timer, cached questions, the focus session | intercept question and answer, grade, take over, prefetch, pause | results of background jobs that arrive after the card has changed | a question is asked for the card on the screen and from its note as it is, a grade is shown once and for its own question, the reviewer is never stuck |
| Media sync (`rslib/src/sync/media`, `http_server/media_manager`) | the media tables and folders of devices and server, usns, a count of files | scan, fetch, download, upload, compare counts, forced resync | batches, files changed during a sync, files beside a database | no user's file lost, no change passed over but where the code's count explains it |
| Study queues (`rslib/src/scheduler/queue`) | the queues kept for the selected deck, the day's counts | build, answer, undo and redo of answers, bury, flag, day rollover | a cache patched in place across answers and undo | the patched queues are what a new build would give, and name cards as they are |
| Card states (`rslib/src/scheduler/states`, `answering`, `filtered`, `new.rs`) | the card's row | answer, grade, set due date, forget, reposition, suspend, move between decks and filtered decks | one number (`due`) with three meanings, stored in two columns | the card knows its way home, its due number fits its type |
| Backend tasks (`rslib/src/backend`, `progress.rs`, `qt/aqt/mediasync.py`, `taskman.py`, `main.py`) | the open collection, the media sync thread, abort handle and join handle, one progress state with its abort flag | open and close, sync, full sync, media sync, abort | four threads | an abort reaches its own task and no other, a wait for the media sync ends and is kept |
| Note types, notes and card generation (`rslib/src/notetype`, `notes`, `dbcheck.rs`) | fields and card types by position, notes, cards by ordinal | edit a type, change a note's type, restore to stock, empty cards, database check | everything refers to positions that edits move; dialogs that stay open | texts belong to their field, cards to their card type, every card a note calls for exists |
| Course generation (`generate_dialog.py`, `extract.py`, `book_structure.py`) | sources, outline, chunks, candidates | read, extract, merge, create, cancel | a thread pool, partial failure of a long job | no note twice, cancelling stops, what was created has its sources |
| Import and export, decks, tags, options, storage | SQLite tables and caches | add, update, remove, import | ids and conversions | referential integrity |
| Search, card rendering, cloze, text, statistics | none | pure functions | parsing | - |
| Desktop windows, `pylib`, web front end (`ts`), language model client, build, translations | windows, settings | user interface, requests | - | - |

How they interact: the web front end and `qt/aqt` call the backend service by
protobuf messages; the backend takes one collection lock per call, so
operations on a collection are serial and each is one transaction
(`transact`). A collection sync holds the lock for as long as it runs; a media
sync runs beside it on a thread of its own. Background jobs of the desktop
program (`taskman`) run on threads and report to the main thread by callbacks,
in any order. Devices interact only through the sync server.

`PROJECT.json` lists 40 hazards: what is hard to test in this code, at the line
where it bites, with the properties that would notice.

## 2. Collection sync

`CollectionSync.tla` models the devices of one user and the server.

**State.** `srv` and `col[c]` are committed collections; `work` and `wcol[c]`
are the same collections as the open savepoint of the server
(`begin_rust_trx`) and the transaction of the device see them. A collection
records per object the stamp of its last edit (`ver`, which stands for its
content) and its usn, the grave of each object, the review log, the
configuration, and the four stamps `usn`, `mod`, `scm`, `ls`. `sess` is
`ServerSyncState` in `User.sync_state`, `pc[c]` the next request of the device
and `st[c]` what it remembers (`ClientSyncState`, pending graves, ids still to
be sent). `clock` gives fresh millisecond stamps; seconds are
`clock \div TicksPerSecond`.

Chunked objects (cards, notes) are `Cards`, objects of the unchunked exchange
(decks, presets, notetypes) are `Decks`: the code merges the first with a strict
and the second with a weak comparison.

**Actions.** Each request with its handler and the device's use of the
response is one action: `Meta`, `Start`, `SendGraves`, `ApplyRemoteGraves`
(no request: the graves came with `start`), `SendChanges`, `PullChunk`,
`PushChunk`, `SanityCheck`, `SanityFailed`, `Finish`, and `ChooseUpload`,
`Upload`, `Download`, `CancelFull` for a full sync. Between any two of them
other devices act. `Create`, `Edit`, `Answer`, `Delete`, `SetConfig` and
`ChangeSchema` are the user's operations; they cannot happen inside an attempt
of the same device, which holds the collection lock.

One request is atomic because the server holds its state lock for each
(`with_authenticated_user`) and nothing else can see the device's
transaction. A request that is lost, a response that is lost and an error in a
handler are the same to both sides for every request but `finish`, `upload` and
`download`, because what the server did is in a savepoint that the abort or the
next session drops: `Fail`. For `finish` and `download` the lost response is an
action of its own (`FinishLost`, `DownloadLost`); for `upload` the device has
nothing left to do, so it is `Upload` itself. A request that arrives late is
one of a session that is over (each attempt has a new session key) and is
refused with HTTP 409: `Conflict`.

`ServerCrash` drops the session. `FinishCrash` is a crash between the commit of
`server_finish` and the statement after it. After a failure the device sends
`abort`; `GiveUp` lets it arrive or not, and as in the code it ends whichever
session is active.

**Bounds.** `MaxClock` bounds local edits and new attempts (an attempt that
has begun runs to its end). `Ops` and `Events` switch operations and rare events
on, so that a run can ask one question. `ChunkSize` is 250 in the code and 1 here.

**Fairness.** Weak fairness of `Proceed(c)` for each device: the next request of
an attempt is sent and answered. The code's loop does this without waiting for
anything. Nothing is assumed of users or faults.

| Run | Instance | What it shows |
|---|---|---|
| `sync_faults` | 2 devices, 2 cards, 1 deck, chunks of one, 5 ticks, every local operation; sessions fail anywhere, the server restarts, the responses to `finish` and to full syncs are lost (252 009 states) | after a session both sides are equal (`Converged`), no change falls between two usns (`NothingMissed`), the sanity check never stops a sound session (`SanityHolds`), the status computed without the network hides no work (`OfflineStatusSound`), and a commit on the server loses no local work (`CommitKeepsLocalWork`) |
| `sync_races` | the same, with sessions that overtake each other between meta and start, imports that re-add a deleted object under its old id, two ticks a second and the crash in `finish` (318 546 states) | what still holds then: every request acts on its own session's savepoint (`SessionOnLatest`), no step forgets a review (`ReviewsKept`), and every attempt ends (`AttemptsEnd`) |

Why the bounds are enough: every hazard listed needs at most one edit per device
on one object, one session in progress and one that overtakes it; five ticks
leave room for three edits and two finished sessions. The instance of
`sync_faults` has also been run once with six ticks (5.19 million states), with
the same result. Each property is shown to be able to fail by a mutant of the
code it is about.

`SessionOnLatest` and `CommitKeepsLocalWork` compare versions only while the
device and the server share a schema stamp. Without this condition they hold in
small instances only: with seven ticks, an upload by a third party between the
`meta` and the `start` of a device replaces the rows its usns speak of.

### The disagreements

None of these has a run of its own; each was seen in an instance that is not
kept.

* `meta.rs:83`: the usn a device uses for its changes, and stores plus one at
  the end, is that of the `meta` response. A device that is overtaken between
  `meta` and `start` ends with a usn the server has already used for the other
  device's commit, and with the same modification time as the server: the manual
  (`docs-site/manual/syncing.mdx`, "Conflicts") promises that both devices' edits
  are kept. `sync_faults` excludes it by `"overtake" \notin Events`.
* `finish.rs:36`: `server_finish` stamps the modification time after its
  commit; a crash between the two hides the session from other devices until
  the next one (`"finish_crash" \notin Events`).
* Two edits of one card or note within one second: the merge of a chunk wants a
  strictly newer row on both sides, so both keep their own and both are told that
  they are up to date. Decks are merged with `<=` on both sides and swap.
  `sync_faults` has one tick per second.
* An object that is deleted, imported again under its old id and deleted once
  more keeps the usn of its first grave (`graves/add.sql` is `INSERT OR IGNORE`),
  so the second deletion is never announced. `NothingMissed` and `SanityHolds`
  fail with `"reimport"` and six ticks; `Converged` does not, because the sanity
  check stops the session and forces a full sync.

### What is proved

`CollectionSyncProofs.tla`, for any number of devices and objects and, where no
hypothesis is named, all faults and events:

* `TypeCorrect`, `Spec => []TypeOK`. `TypeOK` alone is not inductive: an upload
  copies the device's collection to the server, so the invariant adds
  `UploadsAreClean` (a device about to upload has no pending usn).
* `ReviewsAreKept`, `Spec => ReviewsKept`. A step that shrinks a log would be a
  commit of a savepoint that lacks a committed review (excluded by `Logs`: the
  savepoint contains the committed log), or a full sync between collections with
  the same schema stamp (excluded by `Directions`: a device that is about to
  replace a collection differs from it in the stamp, and the stamp it chose for an
  upload is nobody else's), which rests on `Stamps` (stamps come from the clock).
* `OfflineStatusIsSound`, `SessionsBuildOnLatest` and `CommitsKeepLocalWork`,
  the properties of the same names, from one inductive invariant, `SessionInv`.
  Its parts say where in a session each piece of a device's work is:
  `PendingInside` (pending marks only where edits are newer than the last commit),
  `Sooner` and `SoonerSent` (an edit not yet sent is more recent than every row the
  device has already seen under the same schema), `NothingUndone` (the savepoint
  brings nothing older back), `EditsArrive`, `DeletionsArrive`, `ReviewsArrive` (by
  stage, what has been sent is in the savepoint and the rest still waits in the
  transaction) and `ShowsPending` (a mark is dated after the last sync). It was
  checked with TLC on one-card instances with all events and seven ticks before it
  was proved. The steps of a session are one lemma each; `SyncOps` lemmas describe
  what the merges, marks and chunks do to one object.

* `NothingIsMissed`, `SanityAlwaysHolds` and `DevicesConverge`, the properties
  `NothingMissed`, `SanityHolds` and `Converged`. They have hypotheses, one for each of
  the disagreements above: a tick is a second, and `Events` has neither `overtake` nor
  `reimport` (`Timely`); `DevicesConverge` also excludes `finish_crash`. Lost requests
  and responses, failures at any step, server restarts and full syncs are all allowed,
  as in `sync_faults`. Without `reimport` `Converged` is only known from TLC not to
  fail; the proof needs it because it goes through the row-by-row agreement.
  The argument is in four layers over `SessionInv`, each inductive with those below:
  - `LogInv`: review logs are finite and have one entry to an id, so equal sets of ids
    mean equal counts (`LogSize`).
  - `AgreeInv`: rows and graves exclude each other; what a device holds and will not
    send is no newer than the server's row, and a difference is pending on the device
    or is new to it on the server (`Agrees`). Inside a session each stage fixes what
    has crossed: which graves (`GravesAt`, `Tombs`), that decks are merged after the
    changes (`ChangesAt`, `Merged`), and that a card not yet merged is still in the
    server's chunks or in the device's list (`PullAt`, `PushAt`). At `finish` both
    savepoints hold the same rows, so that the device may take the next usn
    (`AgreesAdvance`, `AgreesItself`).
  - `HearInv`: the same for reviews (`LogAt`).
  - `SyncInv`: the options follow the newer side (`OptionsAgree`), no two changes have
    one stamp, and equal stamps mean equal collections (`ModParts`).
  Chunks being finite (`FiniteAssumption`) is what makes the chunk below the limit the
  last one.

`AttemptsEnd` is liveness and stays with TLC.

### What is left out

The unburying of cards at a day change before a sync changes neither mtime nor
usn. The network, compression, authentication and progress reporting do not
change collections. Tag registration, unique deck names and the notetype check
that raises `ResyncRequired` (a step error, like `Fail`) are not distinguished.
The graves of notes, cards and decks are one set.

## 3. Undo history

`UndoHistory.tla` models `rslib/src/undo`, `collection/transact.rs` and the
parts of notes and config that save undo entries. `UndoSnapshots.tla` says what
they promise, and `UndoHistory` is shown to implement it.

**State.** `UndoManager` holds two lists of steps; a step is an operation kind,
a counter, a time and a list of changes, each with the row it would write back.
The database is a function from cells (notes, other rows, config entries, and
the collection's modification time) to rows. A row is a value and a pending
mark, so that what a sync still has to send is part of the state.

**Actions.** `UpdateNote` (which may coalesce), `OtherOp` (any other undoable
operation, writing arbitrary rows), `SkipUndoOp` (collapsing a deck, some
settings: written without a step), `NoUndoOp`, `FailedOp`, `AddCustomStep`,
`Merge` (`merge_undo_entries`), `Undo`, `Redo`, `Sync` and `Discard` (day
change, full sync, check of the database). A transaction holds the collection's
lock throughout, so each is one action and `current_step` exists only inside.

**The abstract specification** keeps no changes, only whole contents: those now,
those each undo would bring back, those each redo would. `ImplementsSnapshots` is
`UndoSnapshots!Spec` under the refinement mapping that replays the lists of
changes over the cells that no SkipUndo operation writes (`Tracked`). It fails as
soon as changes are restored in the wrong order, a merge drops one, or a step is
pushed out by a redo.

| Run | Instance | What it shows |
|---|---|---|
| `undo_notes` | one note, two values, lists of 2 steps, 4 counters, merged steps of up to 4 changes (210 593 states) | the refinement; `CountersDescend` (a merge target names one step); `QueuesBounded` (a redo pushes nothing out) |
| `undo_skip` | a row with undo steps and a config entry that SkipUndo operations write (372 270 states) | the refinement for the row; `CleanIsSynced` and `DirtyIsStamped` (a row without pending mark is as it was last synced, and pending rows mean a modification time after the last sync's) |

A list of two steps is the smallest in which a limit, a merge of two and a redo
onto a full list meet; `Merge` sets the counter back, so four counters allow
histories that are much longer than four steps.

**The disagreements** (found in instances that are not kept). Undo writes back
the modification time its step saw (`collection/undo.rs:24`); changes made outside
the list since (a SkipUndo operation) then sit in the collection with a pending
mark under the time of the last sync, and the next sync finds nothing to do:
`DirtyIsStamped` is therefore stated for the rows no SkipUndo operation writes. A
redo renews the step's time, and coalescing looks only at that
(`notes/undo.rs:82`), so redoing two edits of one note joins steps that were
minutes apart. A coalesced edit has used a counter without leaving a step
(`notes/undo.rs:83`), so merging into `undo_status().last_step` right after it
fails although `pylib/anki/collection.py` recommends it for any standard action.

**Proved** (`UndoHistoryProofs.tla`), for any cells, values, limits and bounds.

* `TargetsUnambiguous`, `Spec => []CountersDescend`, and
  `RedoNeverEvicts`, `Spec => []QueuesBounded`. The inductive invariant `Inv` is
  the two together, with the lists being sequences and the counter a natural
  number: that a redo does not shorten the undo list needs the bound on both
  lists, and that the new step's counter is above the others needs their descent.
* `UndoRestores`, `Spec => ImplementsSnapshots`, the whole refinement. The invariant `RInv` says that every write a step would make
  finds the cell as the write after it left it (`Links`, `Leads`), so that
  replaying a list of changes and recording what it overwrites gives the list that
  takes it back. The replay is a recursive function over a list; what it computes
  is shown by well-founded induction on the length. Each action then maps to its
  abstract action by unfolding one step of the mapping (`AfterUndos`,
  `AfterRedos`).
* `DirtyStaysStamped` and `CleanStaysSynced` (`[]DirtyIsStamped`,
  `[]CleanIsSynced`) and `TypeCorrect`: the invariant `CInv` states the same
  for every collection that the kept steps can bring back.

**Left out.** Grave rows are values of their objects. The update of the study
queue that undoing an answer replays is in `StudyQueues`. Which rows an
operation writes is arbitrary, which covers every operation.

## 4. Reviewing concept cards

`ConceptReview.tla` models `ConceptReviewController`
(`qt/aqt/ankigpt/review.py`) together with the parts of `Reviewer`
(`qt/aqt/reviewer.py`) that it intercepts, the cache of `store.py` and the pause
and goal of `focus.py`.

**State.** `card` and `state` are the reviewer's, `mw` tells whether the review
screen is shown. `current` is `_current`, the active question (compared by
identity, hence its id; ids that nothing refers to are used again). `inflight`,
`serial`, `prefetching` and `timer` are the controller's fields. `gens`,
`grades` and `prefetching` are also the background jobs that run, `enter` and
`answering` a callback of the web view and an operation on the collection that
are on their way, `refresh` the redraw owed while the window has no focus,
`advance` the reviewer's auto-advance. A cached question carries both the
`note_mod` it is stored under and the one it was really made from.

The code never asks the collection for a note's time directly: it reads
`card.note()`, which keeps the note in the card object until `Card.load()`
(`pylib/anki/cards.py:175`). `seen` is what the reviewer's card object has kept.
A request holds on to the card object it was made with: `own` says that it is
still the reviewer's, `note` what a replaced object had kept, and `NoteOf` is
`card.note().mod` as the request's callback reads it.

**Actions.** Python's main thread runs one handler to its end, so each handler
with all it calls is one action; `ShowQuestion` (`_showQuestion` with
`intercept_question`) and `ShowAnswer` (`_showAnswer` with `intercept_answer`)
are the two that most of them end in. The learner starts and leaves a review,
presses Enter, chooses, rates, pauses, edits notes (`EditNote`; `MarkNote` for the
tag the reviewer itself sets without a redraw), buries or undoes
(`QueuesChanged`), and switches auto-advance. The program delivers generated
questions, failures, grades and prefetches (`GenerationEnds`, `GradingEnds`,
`PrefetchEnds`), the typed answer, the rating's completion and the timers, in
every order. `TimeIsUp` is both timers of auto-advance with everything the deck's
options let them do: show the answer, rate, bury, or switch themselves off
because the window has no focus.

**Abstractions.** The scheduler picks any card. Whether a model is configured may
change at every read. One operation on the collection runs at a time, and the
window takes no input meanwhile. Modal warnings are dismissed at once. Every edit
gives a note a new modification time (in the program, whole seconds). The clock
of a focus session is a free choice at each answer, and so is whether the typed
text is blank. An auto-advance timer may run out in any state in which its handler
does not return at once: parking clears the timers, but one that runs out during
an operation is tried again 100 ms later, and the end of a sound calls the
handler of a timer that is over (`reviewer.py:311`). Of the two kinds of redraw,
`op_executed` keeps only the last one owed, so an edit followed by a flag leaves the
old drawing on the screen; that is left out: no question is asked by it, and it
drops the kept note as the other does.

**Bounds.** `MaxSerial = 2` requests that the learner's own moves start (a job's
own restart is not bounded, so that it cannot be cut off), `MaxMod = 2` versions
of one note, the same note prefetched (`Upcoming`), one grading left running, a
goal of one. Two requests for two cards are what overtaking needs; `AutoSubmit`
and `AutoAdvance` are on, and all three kinds of questions are offered. All jobs
may outlive any number of card changes.

**Fairness.** Weak fairness of question generation and of grading: `llm.py` gives
each request a timeout (lines 50 and 107), and `QueryOp` reports success or failure
once. Nothing is assumed of the learner, prefetches, web view or timers.

| Run | What it shows |
|---|---|
| `review_jobs` | two concept cards and one ordinary card: `MarksAreTrue` (a card marked as being asked for has a request that runs and no active question, so nobody waits for a job that has ended), `QuestionIsFresh` (made from the note as it is when asked, but for the two cases below), `TimerRatesOwn` (the auto-submit timer rates only the question it was started for), `GradedOnRequest`, and under fairness `NewestIsServed` and `GradingIsShown` |

**The disagreements** (found in instances that are not kept; each is a trace TLC
gives when the exception is taken out of the property, or a state of the model).

- A request counts only while its token is the newest of all cards. A learner who
  comes back to a card whose older request still runs (by burying and undoing, say)
  is parked for it, and when it ends nobody calls `_showQuestion` (`review.py:134`,
  against the docstring of `intercept_question`). `NewestIsServed` excepts it.
- `review.py:169` compares the note with itself, as both are the note the card object
  has kept, unless `Card.load()` came between; "note edited while generating: start
  over with fresh fields" (`review.py:170`) is then not done. It happens in two
  cases: the window has no focus, so the redraw of the edit is only owed; and the
  reviewer has fetched the card anew, so that the edit's `load()` went to another
  object than the request's. The old question is asked, and in the second case
  stays. These are the two exceptions of `QuestionIsFresh`, and without either TLC
  finds an old question asked.
- Answers come early. Parking does not reset `_current`: the grading of the question
  left behind still finds itself current when it ends and calls `_showAnswer` on the
  parked reviewer, which then shows the answer of a card whose question was never
  asked (`review.py:235` and `:240`, against the docstring of `_take_over`). A late
  reply of the web view and a late auto-advance timer do the same. No property says
  that an answer is never early, because the code lets it be; `GradingIsShown` is
  content with such an answer side.
- With auto-advance, a typed question whose time is up is graded as left blank though
  the learner may be typing (`reviewer.py:427`, `review.py:209`). This is the last
  disjunct of `GradedOnRequest`, and TLC needs it.

**Proved** (`ConceptReviewProofs.tla`), for any cards, kinds, settings and bounds:
`StaleOnlyUnseen`, `Spec => QuestionIsFresh`, and `MarksStayTrue`,
`Spec => []MarksAreTrue`. The parts of the inductive invariant are operators on the
variables they read, so that a lemma can be stated for each handler: `IsCache` (a
cache row was made from the note it is stored under, or is none), `Own` (an answer
shown under the card's own question is graded), `Kept` (the note kept in the
reviewer's card is the note as it is, or a redraw is owed), `JobsAreOwn` (only
requests for the reviewer's card share its object) and `Marks`. One lemma follows
each of `ShowQuestion` and `ShowAnswer` through its branches, and the actions cite
them.

`TimerRatesItsOwn`, `Spec => TimerRatesOwn`, and `GradedForAReason`,
`Spec => GradedOnRequest`, need a second invariant, `Pointed`: there are at most
`MaxGrades` jobs (`Jobs`), a question that a job works on is being graded and not
graded yet, and the one the timer runs for has its suggested rating (`Refers`). The
code compares objects with `is`; the model gives them numbers, so the proof begins
with `FreshIdIsFresh`: there is always a number that neither a job nor the timer
holds (counting, and the library's well-ordering). `ShowQuestionPoints` and
`ShowAnswerPoints` follow the two handlers. `NewestIsServed` and `GradingIsShown`
are liveness.

## 5. Media sync

`MediaSync.tla` models every device's folder and media table
(`rslib/src/media`, `sync/media`) and the server's (`media_manager`).

**State.** `store`, `blobs` and `meta` are the server's table (checksum and usn
per file), its folder, and `last_usn` with the count of non-empty files.
`folder[d]`, `rows[d]`, `usn[d]` are the device's folder, table (checksum and dirty
mark) and `last_sync_usn`; `unscanned[d]` says that the folder's time is not the
stored one. `sync[d]` is the running sync with its copies. `deleted` and `slipped`
are histories the properties read.

**Actions.** The user changes the folder from outside (`ChangeOutside`) or through
the program (`AddFile`, `RemoveFiles`, `TrashFile`); a sync is `Begin`, `Scan`
(`register_changes`), `FetchChanges` in chunks of the server's answer,
`DownloadFiles`, `RecordBatch`, `UploadChanges`, `RecordUpload`, `Finish` and
`ForceResync`. Between any two of them users and other devices act, and
`Interrupt` may end it; `UploadRolledBack` leaves some files of a failed upload in
the server's folder, and a later `ForgetMissingFile` or `DownloadConflict` meets
them. Each server call holds the user's lock.

**Bounds.** Two devices, two files, two contents, three changes by users, one
interruption or rollback, zips of two and answers of one record; devices, files and
contents are symmetric. **Fairness**: weak fairness of a device's next step; no
property of this run needs it.

| Run | What it shows |
|---|---|
| `media_sync` | `UsnsDistinct` (no two rows of the server share a usn), `CountHolds` (the server's count is the number of files with data), `CleanIsServers` (where a device that is up to date differs from the server, its own marks passed over the change, which the code's count can explain), `OnlyUsersDelete` (a file disappears from a folder or the server only if some user removed it) |

**Proved** (`MediaSyncProofs.tla`), for any devices, files and bounds:
`MediaTypes`, `UsnsStayDistinct`, `CountIsRight` and `OnlyUsersDeleteHolds`. The
inductive invariant is `TypeOK`, `UsnsDistinct`, `CountHolds` and
`DeletionsKnown` (what a device, its marks, its zips or the server hold as
deleted some user deleted). The count needs a lemma per kind of change about the
cardinality of the set of non-empty files.

`CleanStaysServers`, `Spec => []CleanIsServers`, needs its own invariant, `CleanInv`.
For each device: no usn it has seen is above the server's (`UsnsPast`), a fetch
starts with empty hands from the usn recorded (`Fetching`), a server row that counts (at or below
that usn, not passed over by the device's own mark, its file in the server's folder)
agrees with the device's own (`Covered`), what a batch has got, deletes or unmarks is what the server has, and
the rest agrees already (`Downloading`), and files sent off stay marked until the
answer is recorded (`SentOff`). It was checked with TLC on the
instance of the run before it was proved.

**Left out.** Limits on a file's size, names that need normalizing, files renamed
on download, edits in place that do not move the folder's time; times in seconds
instead of milliseconds only cause a file to be hashed again. `changes.sql` has no
`ORDER BY`; SQLite answers it from the index on usn, which the model assumes. One
disagreement without a run: a file left by an upload that was rolled back is taken
for the row's content by a later download (`files.rs:348`).

## 6. Study queues

`StudyQueues.tla` models the queues of `rslib/src/scheduler/queue`: built when
first asked for, patched by each answer, by undo and by redo, and dropped by other
operations.

**State.** `cards` and `studied` are the tables the queues are built from,
`queues` the kept queues or none (main queue, learning queue, counts, the learning
cutoff, the day, the build they are), `undo` and `redo` the steps with the queue
update each carries, `shown` what the reviewer shows.

**Actions.** `GetQueuedCards` (which may build), `Answer` and `AnswerRefused`,
`Undo`, `Redo`, `Bury`, `BringBack`, `SetFlag`, `Tick` and `Restart`. An operation
holds the collection for its whole length.

**Bounds.** Three cards, two of them siblings (a review and a new card) and one a new
card of its own note; a learning step of one tick, which is intraday or not depending
on the time of the answer; two days of three ticks, one other operation, two undo
steps, limits of two new cards and three reviews. There are two presets: one buries
every kind and mixes new cards in, the other buries only reviews and shows new cards
first. Three cards are enough for burying, for the two queues to meet, for each
counter to reach zero and for a learning card to come back before its sibling is
reached; `build_time` is any number that no step remembers.

| Run | What it shows |
|---|---|
| `study_queues` | `EntriesAreCurrent` (a shown entry is out of date, which makes the next request fail, only in the case described under "The settings"), `PatchedIsRebuilt` (the patched queues have the right counts and a sorted learning queue and hold what a new build would, that case again apart), `CardsAreFound` (each answer and redo finds its entry), `UndoShowsCard` (after an undo its card is shown) (1 600 003 states) |
| `study_panic` | violation of `OperationsEnd`: the day rolls over while queues are kept, and undoing an answer discards the running step in the middle of its own transaction (`queue/mod.rs:286`) |

**The settings.** A deck chooses freely which kinds of siblings an answer buries, and
for some choices the queues do go stale. Cards are gathered in the order learning,
learned over days, review, new, and a preset *overlooks* a kind when it buries that
kind but not one gathered later (`Overlooks`). Say that reviews are buried and new
cards are not, and new cards are shown first. A new card leaves its sibling review
alone when it is answered, because reviews are gathered before it
(`bury_and_suspend.rs:149`); answered once more, now as a learning card, it buries
that review, whose entry stays in the kept queues. When it is reached,
`get_queued_cards` stops with "bug: card modified without updating queue"
(`queue/mod.rs:115`), or, if the entry was made in the same second, shows a card that
is buried. The run contains this: with the second preset TLC reaches a state that
shows such an entry in seven steps. `EntriesAreCurrent` therefore names the case as its
exception (`Overlooked`: the card is buried and the preset overlooks its kind) and says
that it is the only one; it does not forbid what the code does. `PatchedIsRebuilt`
compares with a new build only for presets that overlook no kind, since for the others
a new build leaves out the sibling that the kept queues still hold.

Observed without a run: a card answered `Again` may
come right back although a comment in `learning.rs:113` says it does not, because
the cutoff is from before the answer; a review shown before the rollover and
answered after it is refused (`answering/mod.rs:326`); `intraday_due.sql` compares
with `<=` what requeueing compares with `>=`.

**Left out.** Several decks and their limit trees, sort orders, fuzz, the load
balancer, previews and cards of filtered decks.

**Proved** (`StudyQueuesProofs.tla`), for any cards, notes, order, learning steps,
limits, undo limit and bounds and every preset: `EntriesStayCurrent`, `Spec => []EntriesAreCurrent`; `CardsStayFound`,
`Spec => []CardsAreFound`; `UndoBringsBack`, `Spec => UndoShowsCard`; `TypeCorrect`.

None of the properties is inductive: whether an undo finds the entries it removes
depends on every answer and undo before it. The invariant `IInv` therefore reads both
lists as timelines. A moment is a table of cards with the entries queued; `Patched`
says how two moments differ by an answer (its entry was on top of the first, the
second has its requeued entry instead). `Line` says that from the present moment the
steps of a list lead, through moments that are all `Good`, to the moment the list ends
at, as long as they are of the build that is kept; a step of an older build only has
to restore its cards (`CardsLine`), and the steps of the kept build come first
(`Contiguous`). `Good` is what makes the next step possible: entries are of
different cards, as new as their cards or of an overlooked card that was buried, and a
card is queued together with a sibling only if its kind is one that the preset does not
bury, or overlooks. The last of these is what an answer needs so that the cards it
buries are overlooked ones if they are in the queues (`AnsweredIsGood`), and it is what
the order of gathering gives: a card taken after a sibling whose burying it would have
to respect is left out, so that the sibling of a card whose kind is buried was taken
later and is of a kind that is not (`TakenKeeps`). `ShownFits` ties the card on
the screen to the first entry.

Above this there is one lemma for each queue operation (`Answered`, `Undone`,
`Redone`: what popping, requeueing, removing and pushing do to a moment), lemmas that
a list of steps may lose its first or gain one (`LineShorter`, `LineLonger`,
`SavedLine`, which also cuts it at the limit), and one lemma for each action. That
building gives a `Good` moment (`BuiltIs`) takes what gathering gives for any order
of cards, by induction over the places of `Order` (`GatherIs`, `GatheredIs`), and that
mixing and sorting lose and double nothing (`InterspersedIs`, `ByDueIs`).

`PatchedIsRebuilt` stays with TLC: it compares the counts and the cards of patched
queues with a new build under daily limits, so its invariant would have to say of
every patched queue which of the cards the limits leave out, as a function of how many
were studied since.

## 7. Backend tasks

`BackendTasks.tla` models the threads behind the screen: the main thread, the one
worker of `taskman` that serves operations on the collection, the media sync
thread and the monitor that tells the screen when that has ended.

**State.** `col` is the backend's collection (open, taken by a full sync, closed),
`opened` the screen's; `queue` the operations waiting for the worker, `closures`
the calls waiting for the main thread; `pc` where both are; `slot` is
`media_sync_abort`, `task` is `media_sync_task`, `thread` what each media sync
thread is doing; `want` is `want_abort` of the progress state; `syncing` and
`polling` are `MediaSyncer`'s. `asked` and `awaited` are histories.

**Actions.** The mutexes of the handle, the task and the progress state are held
for a few statements and never while waiting, so those are one step; the
collection's mutex is held for whole operations and is explicit (`LockHeld`). The
wait of a full sync or a close for the media sync is a loop of its own
(`AbortAndWait`, `Sleep`, `Wake`, `StopWaiting`).

**Bounds.** Two thread identities (a second is used only if two media syncs ever
overlap) and two waiting operations. **Fairness**: weak fairness of each thread's
next step (a media sync ends by the stall timeout of `io_monitor.rs:149`,
operations end), of the main thread's closures and of closing; nothing of users.

| Run | What it shows |
|---|---|
| `backend_tasks` | `AbortReaches` (a running media sync is the one whose handle is registered), `WaitedForAreOver` (whoever waited goes on only when every media sync that ran then has ended), `WishesAreFresh` (no wish to abort outlives the task it was meant for), `WaitsEnd` (each wait ends) |

**Proved** (`BackendTasksProofs.tla`), for any threads and queue: `Types`,
`AbortsReach`, `WaitsAreKept`, `NoStaleWish`. The inductive invariant adds `Owned`:
at most one thread is between its birth and the emptying of the handle, it is the
one in `task`, and the handle is its own. `WaitsEnd` is liveness and stays with TLC.

Observed without a run: `MediaSyncer` shows a sync as running that was never
started (`mediasync.py:48`); the cached sync status outlives a change of profile
for 300 s; a new media sync may begin between the wait (`sync.rs:409`) and the lock
(`:413`); an error not yet reported is dropped when the next sync starts; the wish
set by aborting a media sync can stop an unrelated operation. **Left out**: the
abort handle of a collection sync (one of the ways `EndWork` ends it), backups, the
cached status, export of whole collections.

## 8. Card states

`CardStates.tla` follows one card through `scheduler/states`, `answering`,
`filtered`, `new.rs`, `reviews.rs` and the change of decks.

**State.** `card` is the row (type, queue, due, original due and deck, position,
interval, steps left, lapses), `shown` what the reviewer shows, worked out from an
earlier row, `given` a history: the position the card was last given as a new card,
`misread` another: a number of the card was taken for what it is not.
A due number is a position, a day or a timestamp, told apart by its size, as in the
code.

**Actions.** `Show`, `Answer`, `AnswerRefused` (the state shown is not the card's
any more), `GradeNow`, `BuildFiltered`, `EmptyFiltered`, `BuryOrSuspend`,
`RestoreQueue`, `SetDueDate`, `Forget`, `Reposition`, `ShiftExisting`,
`ChangeDeck`, `Tick`.

**Bounds.** Two home decks (one with steps on both sides of a day boundary, one
with none), one filtered deck that reschedules and one that previews, days of two
units, one interval, one lapse, FSRS off or with short-term scheduling, free at each
operation. Ease, memory state and fuzz are left out: an interval is any number.

| Run | What it shows |
|---|---|
| `card_states` | `HomeKnown` (a card in a filtered deck has a deck and a due number to go back to, others have neither), `DueFitsType` (its due number is of the kind its type and queue call for), `PositionKnown` (the position survives everything), `PreviewGivesBack` (building and emptying filtered decks, parking and previewing never change the schedule) |

Two things the code does with a number spoil all four, and each property is said of
a card until one of them has happened to it (`misread`, set by the actions where it
happens, never by its effect; the run looks no further, `Trusted`):

- a due number of 0 is put into `original_due`, where 0 stands for none: a card of
  position 0 (or due on the collection's first day) moved into a filtered deck
  (`filtered/card.rs:38`), or a new card there given position 0 (`new.rs:69`). The
  run has the position 0. Without `~misread`, `HomeKnown` fails at the moving in;
  `PreviewGivesBack` and `PositionKnown` fail when the card is then previewed with
  *Again* (`answering/preview.rs:28` writes a time over the only copy of the number) and
  taken home; `DueFitsType` fails when a card of position 1 is moved in and given
  position 0, and so has a place in the filtered deck for its number at home.
- the positions are shifted while a new card waits in a filtered deck for a repeated
  preview: `new.rs:295` reads the time in `due` as its position and writes it to
  `original_due`.

**Proved** (`CardStatesProofs.tla`), for any decks, steps, delays, settings and
bounds: `TypeCorrect`, `WayHomeKnown`, `PositionNeverLost`, `PreviewsGiveBack`,
`DueNumbersFit`, for positions and days that include 0. The
invariant is about the row alone (`Sound`): its fields agree with each other
(`Rows`), the way home is there (`WayHome`), and a queue `New` means a type `New`;
each operation on rows has a lemma that it keeps `Sound` (moving in, if there is a
number to keep), and the actions cite them. The invariant is `misread \/ Known`:
once a number is misread nothing more is claimed of the card.
`DueNumbersFit` also assumes `DaysFit`: day numbers stay below the first timestamp,
which is how the code itself tells the two apart.

Observed without a run: a learning card of a rescheduling filtered deck that is suspended and
brought back becomes `DayLearn` with a timestamp for a day, and `current.rs:85`
overflows; a relearning card answered `Easy` without FSRS may exceed the maximum
interval; forgetting a card without resetting its counts still loses its lapses when
it graduates. **Left out**: the review log, custom scheduling, leeches that are only
tagged; buried by hand and by the scheduler are one state.

## 9. Note types

`Notetypes.tla` models note types, notes and card generation
(`rslib/src/notetype`, `notes/mod.rs`, `dbcheck.rs`, the dialogs of `qt/aqt`).
`NamedNotes.tla` is what they promise, in terms of fields and card types that are
things of their own; the collection has only positions and names.

**State.** `types` (fields and templates in order, with ghost ids that nothing is
decided on), `notes` (texts by position), `cards` (ordinals), `schema`, `form` (the
open dialog that changes notes to another type, with positions as they were when it
was opened) and `report` (the open list of empty cards).

**Actions.** `AddNote`, `UpdateNote`, `RemoveNote`, `EditFields`, `EditTemplates`
and `Restore` (one save of an edited type with all `update_notetype` does to notes,
cards and fronts), `OpenChange`, `ChangeNotetype`, `CloseChange`, `FindEmpty`,
`EmptyCards`, `CloseReport`, `CheckDatabase`. Failing edits change nothing.

**Bounds.** One note, one normal type with two fields and two card types and one
cloze type, of which the first is edited and the second restored; cloze numbers 1
and 3 of at most 3, three cards, one change of schema. While a dialog is open only
what outdates it happens (72 660 states).

| Run | What it shows |
|---|---|
| `note_types` | `FieldsFit` (a note has a text for each field), `CardsFit` (each card belongs to a card type, no two to the same), `StaysComplete` (no step takes away that every card a note calls for exists), `ImplementsNamed` (texts stay with their field and cards with their card type, whatever is reordered, added, removed or changed from an outdated dialog) |
| `type_unmarked` | violation of `StructureIsMarked`: restoring to a stock type with more card types changes the structure without the mark that forces a full sync (`restore.rs:41` against `notetype/mod.rs:160`) |

`StaysComplete` makes one exception, `SameTextOtherMeaning`: the code generates
cards after an edit only if a front's text changed at its position, so an edit that
moves texts around may leave cards out (`schemachange.rs:170`; the database check
repairs it).

**Proved** (`NotetypesProofs.tla`), for any types, notes and bounds:
`FieldsAlwaysFit`, `Spec => []FieldsFit`; the invariant adds the types of `types`,
`notes` and `form` (an outdated dialog is refused, so its positions are those of the
types as they are).

`CardsAlwaysFit`, `Ordinary => (Spec => []CardsFit)`: cards fit whatever edits,
restores, changes of type and cleanings happen. The invariant `CInv` adds to the
above that every type has between one and `MaxTemplates` templates, that cards and
the report of empty cards are well formed, and that an open dialog's templates are
those of the types (`FormFits`). Generation needs `LeastNatural` (well-ordering, from
the library's well-founded minimum), `GenerateFits` and `RemappedFits`, one lemma for
each way the code puts cards in place. `Ordinary` is not empty talk: cloze numbers
above the last ordinal, which the code clamps, give two cards of a note the same
ordinal (`cardgen.rs:169`), and restoring a type of unknown origin to the other kind
leaves cards without templates (`restore.rs`); it excludes both, and types without
templates, which the code refuses.

`NotesStayComplete`, `Spec => StaysComplete` under `Ordinary` and `Identified`: the
ids of the fields and templates a type has at first differ and fit the bounds (ids
are the model's device, see above), a stock has no more fields than the bound, and no
cloze number is in the empty text. `DInv` adds to `CInv` that every type's ids stay
apart (`ToldApart`); `RankFits` says that counting through the free ids, as new
fields and templates do, gives each its own. The argument: a note for which cards are
generated is complete afterwards (`Filled`, of `GenerateFits`); a note that is
skipped because it has as many cards as there are templates has one of each
(`AllThere`); and when nothing is generated, no template moved and each field's text
went with it, so no front that showed nothing begins to show something
(`NothingGenerated`, `NoMoreRequired`), except under `SameTextOtherMeaning`.

`PositionsAndNamesSuffice`, `Spec => ImplementsNamed`: the model implements
`NamedNotes`. The mapping names each part: a text by its field's id (`TextsBar`), a
card by its template's id or its cloze number (`CardsBar`), a front by the ids of the
fields its names stand for (`FrontsBar`), and an open dialog by what was laid out in
it (`WishBar`). Besides `Ordinary` and `Identified` the theorem supposes
`Distinguished`: at first, and in stock types, fields have names of their own; at
first, every front shows some of its type's fields; and a cloze type has one card
type, to which the dialog adds none. `EInv` adds to `DInv` that this
stays so (`Legible`), whatever is renamed, removed and restored, and that an open
dialog that is not outdated still says what was laid out (`WishFits`): without the
first a name could stand for two fields, without the second a position for another
field than the one the user chose. `Seen` gives what the mapping has of a state, by
note, card and type (`Views`), and `SeenAfter` the same of the next; then there is
one lemma for each action: `RestructureSeen` for every save (`Carried`, of
`StaysApart`, says that each id goes where its field or template went;
`SavedTextsSeen` and `CardsSaved` that the texts and cards went along), with
`FrontSaved` for the fronts after a rename or a removal, `ApplyChangeSeen` for a
change of type (`WishParts`, `CardChanged`), and `GainSeen` for every action that
generates cards.

Observed without a run: the sort field moves twice when fields are reordered in one
session (`fields.py`, `onSortField`); restoring to stock renames fields by position;
removing the card type of a note's only card leaves it without cards although
`cardgen.rs:112` says otherwise; cloze numbers of 500 and more share an ordinal
(`cardgen.rs:169`); a stale report of empty cards can delete cards that are no longer
empty (`emptycards.py`). **Left out**: adding and removing types, the sort field,
decks and positions of generated cards, special fields.

## 10. Proofs: what they show and what they do not

Every theorem holds for every value of the constants that satisfies the named
assumptions of the modules (which TLC evaluates on each run). No proof module uses a
RECURSIVE operator; recursion is by recursive functions, and where a proof needs what
such a function computes for every list (the replay of undo steps, the gathering and
mixing of cards), it is by well-founded induction on a number with the set of
counterexamples as the parameter, which needs no operator parameter.

| Module | Theorems |
|---|---|
| `CollectionSyncProofs` | `TypeCorrect`, `ReviewsAreKept`, `SessionsBuildOnLatest`, `OfflineStatusIsSound`, `CommitsKeepLocalWork`, `NothingIsMissed`, `SanityAlwaysHolds`, `DevicesConverge` |
| `UndoHistoryProofs` | `TargetsUnambiguous`, `RedoNeverEvicts`, `UndoRestores`, `DirtyStaysStamped`, `CleanStaysSynced`, `TypeCorrect` |
| `ConceptReviewProofs` | `StaleOnlyUnseen`, `MarksStayTrue`, `TimerRatesItsOwn`, `GradedForAReason` |
| `MediaSyncProofs` | `MediaTypes`, `UsnsStayDistinct`, `CountIsRight`, `OnlyUsersDeleteHolds`, `CleanStaysServers` |
| `StudyQueuesProofs` | `EntriesStayCurrent`, `CardsStayFound`, `UndoBringsBack`, `TypeCorrect` |
| `BackendTasksProofs` | `Types`, `AbortsReach`, `WaitsAreKept`, `NoStaleWish` |
| `CardStatesProofs` | `TypeCorrect`, `WayHomeKnown`, `PositionNeverLost`, `PreviewsGiveBack`, `DueNumbersFit` |
| `NotetypesProofs` | `FieldsAlwaysFit`, `CardsAlwaysFit`, `NotesStayComplete`, `PositionsAndNamesSuffice` |

Only model-checked:

* liveness: `AttemptsEnd`, `WaitsEnd`, `NewestIsServed`, `GradingIsShown` and
  `OperationsEnd`, which the prover cannot do;
* `PatchedIsRebuilt` of the study queues.

## 11. What is not modelled

`PROJECT.json` lists every part of the repository with its status. Not planned:
search, rendering, templates, statistics, import formats, the web front end, the
desktop program's windows, bindings, translations and build. They are conversions
and user interface, with no order of steps to get wrong, or code whose hard part is
data. FSRS optimises real-valued parameters, which TLC cannot do. The language model
is outside the repository.

*Course generation* (`generate_dialog.py`, `extract.py`) has one job at a time in
four pages. What a model of it should state, from reading it: `_cancel_requested` is
reset by each new job, and `_prepare_book` never looks at it; closing the dialog does
not cancel the job and deletes the files it reads; `extract.py:562` calls a number of
sections a hard cap that includes the first skim, but the second skim of
`_gap_sections` is not counted; `on_create` makes several transactions per deck, so an
error in the middle leaves the earlier decks and pressing Create again doubles their
notes; two units with the same deck name share one stored document.

*Package import* (`import_export/package/apkg`): merging note types that both sides
changed rewrites only the notes that are imported anew to the merged field order
(`notes.rs`, `resolve_notetype_conflicts`, against the comment in
`schemachange.rs:62`); `cards.rs:169` looks a note type up by the note's new id after
it was stored by the old; `cards.rs:131` compares ordinals before they are mapped.

## 12. Plan

Done: eight components with their runs, and the theorems above. Next, in this order:

1. `PatchedIsRebuilt`.
2. `Converged` with re-imported ids, through the sanity check.
3. Models of package import and of course generation (section 11).
