---------------------------- MODULE UndoSnapshots ----------------------------
(* What the undo history promises, without a word about how: the collection's
   contents now, the contents every undo would bring back (nearest first), and
   the contents every redo would bring back (nearest last).  UndoHistory, which
   keeps lists of row changes instead, is shown to implement this. *)
EXTENDS Naturals, Sequences, SequencesExt

CONSTANTS
  Notes,      \* rows whose edits in quick succession share one step
  Modified,   \* the cell holding the collection's modification time
  Contents,   \* the collections there can be: functions on the cells
  Depth       \* how many steps back one can go

VARIABLES content, past, future

vars == <<content, past, future>>

(* The cells two contents disagree on, the modification time left out. *)
Differing(a, b) == {c \in DOMAIN a \ {Modified} : a[c] # b[c]}

Init ==
  /\ content \in Contents
  /\ past = <<>>
  /\ future = <<>>

(* A new step, or a custom one, which changes nothing yet. *)
Do ==
  /\ content' \in Contents
  /\ past' = <<content>> \o SubSeq(past, 1, IF Len(past) < Depth THEN Len(past) ELSE Depth - 1)
  /\ future' = <<>>

(* One more edit of the note the latest step edited: still one step back. *)
EditAgain ==
  /\ past # <<>>
  /\ content' \in Contents
  /\ \E n \in Notes : Differing(content, past[1]) \cup Differing(content, content') \subseteq {n}
  /\ future' = <<>>
  /\ UNCHANGED past

DoNothing ==
  /\ future' = <<>>
  /\ UNCHANGED <<content, past>>

Undo ==
  /\ past # <<>>
  /\ content' = Head(past)
  /\ past' = Tail(past)
  /\ future' = Append(future, content)

(* The step comes back, or joins the step before it when both edit one note. *)
Redo ==
  /\ future # <<>>
  /\ content' = Last(future)
  /\ future' = Front(future)
  /\ \/ past' = <<content>> \o past
     \/ /\ past # <<>>
        /\ \E n \in Notes : Differing(content, past[1]) \cup Differing(content, Last(future)) \subseteq {n}
        /\ UNCHANGED past

(* The latest steps become one; where the first of them began is kept. *)
Merge(i) ==
  /\ past' = SubSeq(past, i, Len(past))
  /\ UNCHANGED <<content, future>>

(* Whatever cannot be undone takes the history with it. *)
Forget ==
  /\ content' \in Contents
  /\ past' = <<>>
  /\ future' = <<>>

Next ==
  \/ Do
  \/ EditAgain
  \/ Forget
  \/ DoNothing
  \/ Undo
  \/ Redo
  \/ \E i \in DOMAIN past : Merge(i)

Spec == Init /\ [][Next]_vars
=============================================================================
