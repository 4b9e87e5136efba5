----------------------------- MODULE UndoHistory -----------------------------
(***************************************************************************)
(* The undo history of an open collection: transactions, the lists of undo *)
(* and redo steps, the coalescing of quick note edits, the merging of      *)
(* steps, and what clears the lists.                                       *)
(* Source: src/rslib/src/undo and src/rslib/src/collection/transact.rs     *)
(*                                                                         *)
(* A transaction holds the collection's lock from begin to commit, so each *)
(* is one action: the current step and the undo mode live only inside it.  *)
(* The database is a function from cells to rows; a cell is a note, a      *)
(* record of another table, a config entry, or the collection's            *)
(* modification time.  A missing row is one of the values.                 *)
(***************************************************************************)
EXTENDS Naturals, Sequences, SequencesExt

CONSTANTS
  Notes,         \* note ids
  Others,        \* rows of the other tables: cards, decks, tags, revlog
  Configs,       \* config keys
  SkipCells,     \* cells that SkipUndo operations write
  Modified,      \* the cell of the collection's modification time
  Values,        \* what a row may hold
  Initial,       \* what every row holds at first: values can be renamed
  UNDO_LIMIT,
  CoalesceTicks, \* the 60 seconds of maybe_coalesce_note_undo_entry, in ticks
  MaxWrites,     \* bound: rows one operation writes
  MaxChanges,    \* bound: changes of a merged step
  MaxClock,      \* bound on the clock
  MaxCounter     \* bound on the number of steps begun

Rows == Notes \cup Others \cup Configs
Cells == Rows \cup {Modified}

ASSUME CellsAssumption ==
  /\ Modified \notin Rows
  /\ SkipCells \subseteq Rows
  /\ Notes \cap (Others \cup Configs) = {}
ASSUME InitialAssumption == Initial \in Values
ASSUME LimitAssumption == UNDO_LIMIT \in Nat \ {0}
ASSUME BoundsAssumption == {CoalesceTicks, MaxWrites, MaxChanges, MaxClock, MaxCounter} \subseteq Nat

VARIABLES
  db,         \* the committed rows, each with whether the next sync sends it
  synced,     \* the rows' values as the last sync left them on the server
  ls,         \* when that sync was
  clock,
  undo_steps, \* newest first
  redo_steps, \* next one last
  counter     \* of the last step begun, or the target last merged into

vars == <<db, synced, ls, clock, undo_steps, redo_steps, counter>>

Kinds == {"UpdateNote", "Custom", "Other"}
Row == [val : Values \cup Nat, pending : BOOLEAN]
Write == [cell : Cells, row : Row]
UndoableOp == [kind : Kinds, timestamp : Nat, changes : Seq(Write), counter : Nat]

(* True if changes non-empty, or a custom undo step. *)
HasChanges(step) == step.changes # <<>> \/ step.kind = "Custom"

Edited(c, v) == [cell |-> c, row |-> [val |-> v, pending |-> TRUE]]
Stamp == [cell |-> Modified, row |-> [val |-> clock, pending |-> FALSE]]

Init ==
  /\ synced = [c \in Rows |-> Initial]
  /\ db = [c \in Cells |-> [val |-> IF c = Modified THEN 0 ELSE synced[c], pending |-> FALSE]]
  /\ ls = 0
  /\ clock = 1
  /\ undo_steps = <<>>
  /\ redo_steps = <<>>
  /\ counter = 0

-----------------------------------------------------------------------------
(* Transactions *)

(* One write, and the row it replaces appended to the current step.  A     *)
(* config entry that already has the value is left alone.                  *)
Put(state, w) ==
  IF w.cell \in Configs /\ state.db[w.cell].val = w.row.val
  THEN state
  ELSE [db |-> [state.db EXCEPT ![w.cell] = w.row],
        changes |-> Append(state.changes, [w EXCEPT !.row = state.db[w.cell]])]

Run(from, writes) ==
  LET put(w) == [state \in [db : [Cells -> Row], changes : Seq(Write)] |-> Put(state, w)]
      after[i \in 0 .. Len(writes)] ==
        IF i = 0 THEN [db |-> from, changes |-> <<>>] ELSE put(writes[i])[after[i - 1]]
  IN  after[Len(writes)]

(* An operation's own writes, then the modification time if it made any.   *)
RunStamped(writes) ==
  LET done == Run(db, writes)
  IN  IF done.changes = <<>> THEN done ELSE Put(done, Stamp)

(* Mutant: the changes are restored in the order they were made. *)
RewindForward(from, step) == Run(from, step.changes)

(* A step restores what its changes saved, the last one first. *)
Rewind(from, step) == Run(from, Reverse(step.changes))

NewStep(kind, changes) ==
  [kind |-> kind, timestamp |-> clock, changes |-> changes, counter |-> counter + 1]

IsNoteEdit(step, n) ==
  /\ step.kind = "UpdateNote"
  /\ Len(step.changes) = 2
  /\ step.changes[1].cell = n
  /\ step.changes[2].cell = Modified

(* A note edited again within the minute: the step's changes are dropped,  *)
(* so that it is not kept.                                                 *)
Coalesces(step, steps) ==
  /\ steps # <<>>
  /\ \E n \in Notes : IsNoteEdit(steps[1], n) /\ IsNoteEdit(step, n)
  /\ clock - steps[1].timestamp < CoalesceTicks

IsKept(step, steps) == HasChanges(step) /\ ~ Coalesces(step, steps)

(* Mutant: one step too many is retained. *)
PushUndoLate(steps, step) ==
  <<step>> \o SubSeq(steps, 1, IF Len(steps) < UNDO_LIMIT THEN Len(steps) ELSE UNDO_LIMIT)

PushUndo(steps, step) ==
  <<step>> \o SubSeq(steps, 1, IF Len(steps) < UNDO_LIMIT THEN Len(steps) ELSE UNDO_LIMIT - 1)

EndStep(steps, step) == IF IsKept(step, steps) THEN PushUndo(steps, step) ELSE steps

BeginStep ==
  /\ counter < MaxCounter
  /\ counter' = counter + 1

ClearQueues ==
  /\ undo_steps' = <<>>
  /\ redo_steps' = <<>>

-----------------------------------------------------------------------------
(* Operations *)

(* Collection::transact with an operation that can be undone. *)
Transact(kind, writes) ==
  LET done == RunStamped(writes)
  IN  /\ BeginStep
      /\ db' = done.db
      /\ undo_steps' = EndStep(undo_steps, NewStep(kind, done.changes))
      /\ redo_steps' = <<>>
      /\ UNCHANGED <<synced, ls, clock>>

(* update_note: nothing if the note already reads so; otherwise the note,  *)
(* and at times a card its new text calls for.                             *)
UpdateNote(n, v) ==
  IF db[n].val = v THEN Transact("UpdateNote", <<>>)
  ELSE \/ Transact("UpdateNote", <<Edited(n, v)>>)
       \/ \E c \in Others : Transact("UpdateNote", <<Edited(n, v), Edited(c, v)>>)

OpWrites(cells) == SeqOf({Edited(c, v) : c \in cells, v \in Values}, MaxWrites)

OtherOp(writes) == Transact("Other", writes)

(* Op::SkipUndo: collapsing a deck, saving a preference in passing. *)
SkipUndoOp(writes) ==
  /\ BeginStep
  /\ db' = RunStamped(writes).db
  /\ redo_steps' = <<>>
  /\ UNCHANGED <<synced, ls, clock, undo_steps>>

(* Mutant: without a step, whether there were changes is not known. *)
NoUndoOpUnstamped(writes) ==
  /\ db' = Run(db, writes).db
  /\ ClearQueues
  /\ UNCHANGED <<synced, ls, clock, counter>>

(* transact_no_undo: always stamped, whatever it changed. *)
NoUndoOp(writes) ==
  /\ db' = Put(Run(db, writes), Stamp).db
  /\ ClearQueues
  /\ UNCHANGED <<synced, ls, clock, counter>>

(* An operation, an undo or a redo fails half way: the database rolls back *)
(* and the history goes.                                                   *)
FailedOp ==
  /\ BeginStep
  /\ ClearQueues
  /\ UNCHANGED <<db, synced, ls, clock>>

AddCustomStep ==
  /\ BeginStep
  /\ undo_steps' = EndStep(undo_steps, NewStep("Custom", <<>>))
  /\ redo_steps' = <<>>
  /\ UNCHANGED <<db, synced, ls, clock>>

(* Undoing is a transaction of its own: it records a step to redo, under a *)
(* new counter, and leaves the modification time to the step's changes.    *)
Undo ==
  /\ undo_steps # <<>>
  /\ BeginStep
  /\ LET done == Rewind(db, Head(undo_steps))
         step == NewStep(Head(undo_steps).kind, done.changes)
     IN  /\ db' = done.db
         /\ undo_steps' = Tail(undo_steps)
         /\ redo_steps' = IF IsKept(step, Tail(undo_steps))
                          THEN Append(redo_steps, step) ELSE redo_steps
  /\ UNCHANGED <<synced, ls, clock>>

Redo ==
  /\ redo_steps # <<>>
  /\ BeginStep
  /\ LET done == Rewind(db, Last(redo_steps))
     IN  /\ db' = done.db
         /\ undo_steps' = EndStep(undo_steps, NewStep(Last(redo_steps).kind, done.changes))
         /\ redo_steps' = Front(redo_steps)
  /\ UNCHANGED <<synced, ls, clock>>

(* Mutant: the counter goes back to before the target. *)
MergeBefore(i) ==
  LET target == undo_steps[i]
      merged == FlattenSeq([k \in 1 .. i |-> undo_steps[i + 1 - k].changes])
  IN  /\ Len(merged) <= MaxChanges
      /\ undo_steps' = <<[kind |-> target.kind, timestamp |-> target.timestamp,
                          changes |-> merged, counter |-> target.counter]>>
                         \o SubSeq(undo_steps, i + 1, Len(undo_steps))
      /\ counter' = target.counter - 1
      /\ UNCHANGED <<db, synced, ls, clock, redo_steps>>

(* merge_undoable_ops: the newer steps' changes join the target's, oldest  *)
(* step first, and the next step continues from the target's counter.      *)
Merge(i) ==
  LET target == undo_steps[i]
      merged == FlattenSeq([k \in 1 .. i |-> undo_steps[i + 1 - k].changes])
  IN  /\ Len(merged) <= MaxChanges
      /\ undo_steps' = <<[kind |-> target.kind, timestamp |-> target.timestamp,
                          changes |-> merged, counter |-> target.counter]>>
                         \o SubSeq(undo_steps, i + 1, Len(undo_steps))
      /\ counter' = target.counter
      /\ UNCHANGED <<db, synced, ls, clock, redo_steps>>

-----------------------------------------------------------------------------
(* Around it *)

(* Mutant: the steps from before the sync are kept. *)
SyncKeepingSteps ==
  /\ db[Modified].val # ls
  /\ clock < MaxClock
  /\ db' = [c \in Cells |-> [val |-> IF c = Modified THEN clock ELSE db[c].val,
                             pending |-> FALSE]]
  /\ synced' = [c \in Rows |-> db[c].val]
  /\ ls' = clock
  /\ clock' = clock + 1
  /\ UNCHANGED <<undo_steps, redo_steps, counter>>

(* A sync that found something to do: it clears the history first, and     *)
(* leaves both sides with a new stamp.  An operation in its very last      *)
(* millisecond is left to CollectionSync.                                  *)
Sync ==
  /\ db[Modified].val # ls
  /\ clock < MaxClock
  /\ db' = [c \in Cells |-> [val |-> IF c = Modified THEN clock ELSE db[c].val,
                             pending |-> FALSE]]
  /\ synced' = [c \in Rows |-> db[c].val]
  /\ ls' = clock
  /\ clock' = clock + 1
  /\ ClearQueues
  /\ UNCHANGED counter

(* discard_undo_and_study_queues: the day rolled over, a sync failed, the  *)
(* database was written behind the backend's back.                         *)
Discard ==
  /\ undo_steps # <<>> \/ redo_steps # <<>>
  /\ ClearQueues
  /\ UNCHANGED <<db, synced, ls, clock, counter>>

Wait ==
  /\ clock < MaxClock
  /\ clock' = clock + 1
  /\ UNCHANGED <<db, synced, ls, undo_steps, redo_steps, counter>>

Next ==
  \/ \E n \in Notes, v \in Values : UpdateNote(n, v)
  \/ \E writes \in OpWrites(Rows) : OtherOp(writes) \/ NoUndoOp(writes)
  \/ \E writes \in OpWrites(SkipCells) : SkipCells # {} /\ SkipUndoOp(writes)
  \/ FailedOp
  \/ AddCustomStep
  \/ Undo
  \/ Redo
  \/ \E i \in DOMAIN undo_steps : Merge(i)
  \/ Sync
  \/ Discard
  \/ Wait

Spec == Init /\ [][Next]_vars

-----------------------------------------------------------------------------
(* Properties *)

(* The variables' types; a step that changed nothing is never kept. *)
TypeOK ==
  /\ db \in [Cells -> Row]
  /\ synced \in [Rows -> Values]
  /\ ls \in Nat
  /\ clock \in Nat
  /\ undo_steps \in Seq({step \in UndoableOp : step.changes = <<>> => step.kind = "Custom"})
  /\ redo_steps \in Seq({step \in UndoableOp : step.changes = <<>> => step.kind = "Custom"})
  /\ counter \in Nat

(* What the history stands for: the contents reached by i undos, by i redos. *)
AfterUndos[i \in 0 .. Len(undo_steps)] ==
  IF i = 0 THEN db ELSE Rewind(AfterUndos[i - 1], undo_steps[i]).db
AfterRedos[i \in 0 .. Len(redo_steps)] ==
  IF i = 0 THEN db ELSE Rewind(AfterRedos[i - 1], redo_steps[Len(redo_steps) + 1 - i]).db

(* SkipUndo operations change the present under the history's feet, so what *)
(* they write, the modification time among it, is not promised to come back.*)
Tracked == IF SkipCells = {} THEN Cells ELSE Rows \ SkipCells
TrackedOf(rows) == [c \in Tracked |-> rows[c]]

Snapshots == INSTANCE UndoSnapshots WITH
  Contents <- [Tracked -> Row],
  Depth <- UNDO_LIMIT,
  content <- TrackedOf(db),
  past <- [i \in 1 .. Len(undo_steps) |-> TrackedOf(AfterUndos[i])],
  future <- [i \in 1 .. Len(redo_steps) |-> TrackedOf(AfterRedos[Len(redo_steps) + 1 - i])]

(* Undo and redo bring back exactly the collections that were there, rows, *)
(* sync marks and modification time, however the steps were recorded,      *)
(* coalesced, merged, undone and redone; where SkipUndo operations come in *)
(* between, still every row they do not write.                             *)
ImplementsSnapshots == Snapshots!Spec

(* A row no sync would send is the row the last sync left on the server:   *)
(* an undo that takes the mark off a row has also taken back the change.   *)
CleanIsSynced == \A c \in Rows : db[c].pending \/ db[c].val = synced[c]

(* While some row waits to be sent the modification time is past the last  *)
(* sync's, without which the next sync would find nothing to do. A row that*)
(* a SkipUndo operation writes has no such promise: an undo may take the   *)
(* modification time back past that write.                                 *)
DirtyIsStamped == (\E c \in Rows \ SkipCells : db[c].pending) => db[Modified].val > ls

(* A merge target names one step, and no step to come will reuse it: the   *)
(* counters fall from the newest step to the oldest and none is ahead of   *)
(* the counter, through undos, redos, and merges that set it back.         *)
CountersDescend ==
  /\ \A i, j \in DOMAIN undo_steps : i < j => undo_steps[i].counter > undo_steps[j].counter
  /\ \A i \in DOMAIN undo_steps : undo_steps[i].counter \in 1 .. counter

(* The cap counts the steps on both sides together, so what was undone can *)
(* always be redone without pushing the oldest undo step out.              *)
QueuesBounded == Len(undo_steps) + Len(redo_steps) <= UNDO_LIMIT
=============================================================================
