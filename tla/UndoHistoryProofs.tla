--------------------------- MODULE UndoHistoryProofs ---------------------------
(***************************************************************************)
(* For every collection, limit and bound: merge targets are unambiguous, a *)
(* redo never pushes an undo step out of the queue, the lists of row       *)
(* changes do what UndoSnapshots promises, and the sync marks they bring   *)
(* back are true.                                                          *)
(***************************************************************************)
EXTENDS UndoHistory, WellFoundedInduction, TLAPS

(***************************************************************************)
(* The two lists: what holds of them whatever the steps hold, so that the  *)
(* invariant only says that they are sequences of something.               *)
(***************************************************************************)

IsSeq(s) == s \in Seq(Range(s))

(* A sequence of anything is a sequence of its own elements. *)
LEMMA AnySeq ==
  ASSUME NEW S, NEW s \in Seq(S)
  PROVE  IsSeq(s)
<1>1. s \in [1 .. Len(s) -> S] /\ Len(s) \in Nat
  OBVIOUS
<1>2. \A i \in 1 .. Len(s) : s[i] \in Range(s)
  BY <1>1 DEF Range
<1>3. s \in [1 .. Len(s) -> Range(s)]
  BY <1>1, <1>2
<1> QED
  BY <1>1, <1>3 DEF IsSeq

(* The part of a sequence from one of its places on. *)
LEMMA Part ==
  ASSUME NEW s, IsSeq(s), NEW m \in 1 .. Len(s) + 1, NEW n \in 0 .. Len(s), m <= n + 1
  PROVE  /\ IsSeq(SubSeq(s, m, n))
         /\ Len(SubSeq(s, m, n)) = n - m + 1
         /\ \A i \in 1 .. n - m + 1 : SubSeq(s, m, n)[i] = s[m + i - 1]
<1> DEFINE S == Range(s)
<1>1. s \in Seq(S)
  BY DEF IsSeq
<1> HIDE DEF S
<1>2. /\ SubSeq(s, m, n) \in Seq(S)
      /\ Len(SubSeq(s, m, n)) = n - m + 1
      /\ \A i \in 1 .. n - m + 1 : SubSeq(s, m, n)[i] = s[m + i - 1]
  BY <1>1
<1> QED
  BY <1>2, AnySeq

(* What remains of a list without its first element. *)
LEMMA Rest ==
  ASSUME NEW s, IsSeq(s), s # <<>>
  PROVE  /\ IsSeq(Tail(s))
         /\ Len(s) \in Nat \ {0}
         /\ Len(Tail(s)) = Len(s) - 1
         /\ \A i \in 1 .. Len(s) - 1 : Tail(s)[i] = s[i + 1]
<1> DEFINE S == Range(s)
<1>1. s \in Seq(S)
  BY DEF IsSeq
<1> HIDE DEF S
<1>2. /\ Tail(s) \in Seq(S)
      /\ Len(s) \in Nat \ {0}
      /\ Len(Tail(s)) = Len(s) - 1
      /\ \A i \in 1 .. Len(s) - 1 : Tail(s)[i] = s[i + 1]
  BY <1>1
<1> QED
  BY <1>2, AnySeq

(* A step in front of a list. *)
LEMMA InFront ==
  ASSUME NEW s, IsSeq(s), NEW x
  PROVE  /\ IsSeq(<<x>> \o s)
         /\ Len(<<x>> \o s) = Len(s) + 1
         /\ (<<x>> \o s)[1] = x
         /\ \A i \in 2 .. Len(s) + 1 : (<<x>> \o s)[i] = s[i - 1]
<1> DEFINE S == Range(s) \cup {x}
<1>1. s \in Seq(S)
  <2>1. s \in [1 .. Len(s) -> Range(s)] /\ Len(s) \in Nat
    BY DEF IsSeq
  <2>2. s \in [1 .. Len(s) -> S]
    BY <2>1
  <2> QED
    BY <2>1, <2>2
<1>2. <<x>> \in Seq(S)
  OBVIOUS
<1> HIDE DEF S
<1>3. /\ <<x>> \o s \in Seq(S)
      /\ Len(<<x>> \o s) = Len(s) + 1
      /\ (<<x>> \o s)[1] = x
      /\ \A i \in 2 .. Len(s) + 1 : (<<x>> \o s)[i] = s[i - 1]
  BY <1>1, <1>2
<1> QED
  BY <1>3, AnySeq

-----------------------------------------------------------------------------
(* Counters that fall along a list, none above c. *)
Descends(s, c) ==
  /\ \A i, j \in 1 .. Len(s) : i < j => s[i].counter > s[j].counter
  /\ \A i \in 1 .. Len(s) : s[i].counter \in 1 .. c

LEMMA InvInTerms ==
  ASSUME IsSeq(undo_steps)
  PROVE  CountersDescend <=> Descends(undo_steps, counter)
<1>1. DOMAIN undo_steps = 1 .. Len(undo_steps)
  BY DEF IsSeq
<1> QED
  BY <1>1 DEF CountersDescend, Descends

(* Beginning a step raises the counter and disturbs nothing. *)
LEMMA DescendsMore ==
  ASSUME NEW s, NEW c \in Nat, Descends(s, c)
  PROVE  Descends(s, c + 1)
  BY DEF Descends

LEMMA PushUndoFacts ==
  ASSUME NEW s, IsSeq(s), NEW step
  PROVE  /\ IsSeq(PushUndo(s, step))
         /\ Len(PushUndo(s, step)) \in 1 .. UNDO_LIMIT
         /\ Len(PushUndo(s, step)) <= Len(s) + 1
         /\ PushUndo(s, step)[1] = step
         /\ \A i \in 2 .. Len(PushUndo(s, step)) : PushUndo(s, step)[i] = s[i - 1]
<1> DEFINE n == IF Len(s) < UNDO_LIMIT THEN Len(s) ELSE UNDO_LIMIT - 1
           rest == SubSeq(s, 1, n)
<1>1. Len(s) \in Nat
  BY DEF IsSeq
<1>2. n \in 0 .. Len(s) /\ n + 1 <= UNDO_LIMIT /\ UNDO_LIMIT \in Nat
  BY <1>1, LimitAssumption
<1> HIDE DEF n
<1>3. /\ IsSeq(rest)
      /\ Len(rest) = n
      /\ \A i \in 1 .. n : rest[i] = s[i]
  BY <1>1, <1>2, Part
<1> HIDE DEF rest
<1>4. /\ IsSeq(<<step>> \o rest)
      /\ Len(<<step>> \o rest) = n + 1
      /\ (<<step>> \o rest)[1] = step
      /\ \A i \in 2 .. n + 1 : (<<step>> \o rest)[i] = rest[i - 1]
  BY <1>3, InFront
<1>5. PushUndo(s, step) = <<step>> \o rest
  BY DEF PushUndo, n, rest
<1> QED
  BY <1>1, <1>2, <1>3, <1>4, <1>5

LEMMA EndStepFacts ==
  ASSUME NEW s, IsSeq(s), Len(s) <= UNDO_LIMIT,
         NEW step, NEW c \in Nat, step.counter = c + 1, Descends(s, c)
  PROVE  /\ IsSeq(EndStep(s, step))
         /\ Len(EndStep(s, step)) \in 0 .. UNDO_LIMIT
         /\ Len(EndStep(s, step)) <= Len(s) + 1
         /\ Descends(EndStep(s, step), c + 1)
<1>1. CASE ~ IsKept(step, s)
  <2>1. EndStep(s, step) = s /\ Len(s) \in Nat
    BY <1>1 DEF EndStep, IsSeq
  <2> QED
    BY <2>1, DescendsMore, LimitAssumption
<1>2. CASE IsKept(step, s)
  <2> DEFINE t == PushUndo(s, step)
  <2>1. EndStep(s, step) = t
    BY <1>2 DEF EndStep
  <2>2. /\ IsSeq(t)
        /\ Len(t) \in 1 .. UNDO_LIMIT
        /\ Len(t) <= Len(s) + 1
        /\ t[1] = step
        /\ \A i \in 2 .. Len(t) : t[i] = s[i - 1]
    BY PushUndoFacts
  <2> HIDE DEF t
  <2>3. Len(s) \in Nat /\ UNDO_LIMIT \in Nat
    BY LimitAssumption DEF IsSeq
  <2>4. \A i \in 2 .. Len(t) : i - 1 \in 1 .. Len(s) /\ t[i].counter \in 1 .. c
    BY <2>2, <2>3 DEF Descends
  <2>5. \A i \in 1 .. Len(t) : t[i].counter \in 1 .. c + 1
    <3> SUFFICES ASSUME NEW i \in 1 .. Len(t)
                 PROVE  t[i].counter \in 1 .. c + 1
      OBVIOUS
    <3>1. CASE i = 1
      BY <3>1, <2>2
    <3>2. CASE i # 1
      <4>1. i \in 2 .. Len(t)
        BY <3>2, <2>2
      <4> QED
        BY <4>1, <2>4
    <3> QED
      BY <3>1, <3>2
  <2>6. ASSUME NEW i \in 1 .. Len(t), NEW j \in 1 .. Len(t), i < j
        PROVE  t[i].counter > t[j].counter
    <3>1. j \in 2 .. Len(t)
      BY <2>2, <2>6
    <3>2. CASE i = 1
      BY <3>1, <3>2, <2>2, <2>4
    <3>3. CASE i # 1
      <4>1. i \in 2 .. Len(t)
        BY <3>3, <2>2
      <4>2. i - 1 \in 1 .. Len(s) /\ j - 1 \in 1 .. Len(s) /\ i - 1 < j - 1
        BY <4>1, <3>1, <2>4, <2>6
      <4> QED
        BY <4>1, <4>2, <3>1, <2>2 DEF Descends
    <3> QED
      BY <3>2, <3>3
  <2> QED
    BY <2>1, <2>2, <2>3, <2>5, <2>6 DEF Descends
<1> QED
  BY <1>1, <1>2

(* What remains of a falling list, under any counter at least as high. *)
LEMMA RestDescends ==
  ASSUME NEW s, IsSeq(s), s # <<>>, NEW c \in Nat, Descends(s, c)
  PROVE  Descends(Tail(s), c)
<1>1. /\ Len(s) \in Nat \ {0}
      /\ Len(Tail(s)) = Len(s) - 1
      /\ \A i \in 1 .. Len(s) - 1 : Tail(s)[i] = s[i + 1]
  BY Rest
<1>2. \A i \in 1 .. Len(Tail(s)) : i + 1 \in 1 .. Len(s) /\ Tail(s)[i] = s[i + 1]
  BY <1>1
<1>3. \A i \in 1 .. Len(Tail(s)) : Tail(s)[i].counter \in 1 .. c
  BY <1>2 DEF Descends
<1>4. ASSUME NEW i \in 1 .. Len(Tail(s)), NEW j \in 1 .. Len(Tail(s)), i < j
      PROVE  Tail(s)[i].counter > Tail(s)[j].counter
  <2>1. i + 1 \in 1 .. Len(s) /\ j + 1 \in 1 .. Len(s) /\ i + 1 < j + 1
    BY <1>2, <1>4
  <2> QED
    BY <1>2, <2>1 DEF Descends
<1> QED
  BY <1>3, <1>4 DEF Descends

(* A step in place of the first i, under the counter of the i-th. *)
LEMMA MergedFacts ==
  ASSUME NEW s, IsSeq(s), NEW c \in Nat, Descends(s, c),
         NEW i \in 1 .. Len(s), NEW x, x.counter = s[i].counter
  PROVE  LET t == <<x>> \o SubSeq(s, i + 1, Len(s))
         IN  /\ IsSeq(t)
             /\ Len(t) \in Nat
             /\ Len(t) <= Len(s)
             /\ Descends(t, x.counter)
<1> DEFINE rest == SubSeq(s, i + 1, Len(s))
           t == <<x>> \o rest
<1>1. Len(s) \in Nat
  BY DEF IsSeq
<1>2. /\ IsSeq(rest)
      /\ Len(rest) = Len(s) - i
      /\ \A k \in 1 .. Len(s) - i : rest[k] = s[i + k]
  <2>1. i + 1 \in 1 .. Len(s) + 1 /\ Len(s) \in 0 .. Len(s) /\ i + 1 <= Len(s) + 1
    BY <1>1
  <2>2. /\ IsSeq(rest)
        /\ Len(rest) = Len(s) - (i + 1) + 1
        /\ \A k \in 1 .. Len(s) - (i + 1) + 1 : rest[k] = s[i + 1 + k - 1]
    BY <2>1, Part
  <2> QED
    BY <2>2, <1>1
<1> HIDE DEF rest
<1>3. /\ IsSeq(t)
      /\ Len(t) = Len(rest) + 1
      /\ t[1] = x
      /\ \A k \in 2 .. Len(rest) + 1 : t[k] = rest[k - 1]
  BY <1>2, InFront
<1> HIDE DEF t
<1>4. \A k \in 2 .. Len(t) : i + k - 1 \in i + 1 .. Len(s) /\ t[k] = s[i + k - 1]
  BY <1>1, <1>2, <1>3
<1>5. x.counter \in 1 .. c
  BY DEF Descends
<1>6. \A k \in 2 .. Len(t) : t[k].counter \in 1 .. x.counter /\ x.counter > t[k].counter
  <2> SUFFICES ASSUME NEW k \in 2 .. Len(t)
               PROVE  t[k].counter \in 1 .. x.counter /\ x.counter > t[k].counter
    OBVIOUS
  <2>1. i + k - 1 \in 1 .. Len(s) /\ i < i + k - 1 /\ t[k] = s[i + k - 1]
    BY <1>1, <1>4
  <2>2. s[i].counter > s[i + k - 1].counter /\ s[i + k - 1].counter \in 1 .. c
    BY <2>1 DEF Descends
  <2> QED
    BY <2>1, <2>2, <1>5
<1>7. \A k \in 1 .. Len(t) : t[k].counter \in 1 .. x.counter
  <2> SUFFICES ASSUME NEW k \in 1 .. Len(t)
               PROVE  t[k].counter \in 1 .. x.counter
    OBVIOUS
  <2>1. CASE k = 1
    BY <2>1, <1>3, <1>5
  <2>2. CASE k # 1
    <3>1. k \in 2 .. Len(t)
      BY <2>2, <1>1, <1>2, <1>3
    <3> QED
      BY <3>1, <1>6
  <2> QED
    BY <2>1, <2>2
<1>8. ASSUME NEW k \in 1 .. Len(t), NEW l \in 1 .. Len(t), k < l
      PROVE  t[k].counter > t[l].counter
  <2>1. l \in 2 .. Len(t)
    BY <1>1, <1>2, <1>3, <1>8
  <2>2. CASE k = 1
    BY <2>1, <2>2, <1>3, <1>6
  <2>3. CASE k # 1
    <3>1. k \in 2 .. Len(t)
      BY <2>3, <1>1, <1>2, <1>3
    <3>2. /\ i + k - 1 \in 1 .. Len(s) /\ t[k] = s[i + k - 1]
          /\ i + l - 1 \in 1 .. Len(s) /\ t[l] = s[i + l - 1]
          /\ i + k - 1 < i + l - 1
      BY <3>1, <2>1, <1>1, <1>4, <1>8
    <3> QED
      BY <3>2 DEF Descends
  <2> QED
    BY <2>2, <2>3
<1>9. Len(t) \in Nat /\ Len(t) <= Len(s)
  BY <1>1, <1>2, <1>3
<1>10. Descends(t, x.counter)
  BY <1>7, <1>8 DEF Descends
<1> QED
  BY <1>3, <1>9, <1>10 DEF t, rest

(* A step at the end of a list, and a list without its last step. *)
LEMMA AtEnd ==
  ASSUME NEW s, IsSeq(s), NEW x
  PROVE  IsSeq(Append(s, x)) /\ Len(s) \in Nat /\ Len(Append(s, x)) = Len(s) + 1
<1> DEFINE S == Range(s) \cup {x}
<1>1. s \in Seq(S) /\ Len(s) \in Nat
  <2>1. s \in [1 .. Len(s) -> Range(s)] /\ Len(s) \in Nat
    BY DEF IsSeq
  <2>2. s \in [1 .. Len(s) -> S]
    BY <2>1
  <2> QED
    BY <2>1, <2>2
<1>2. x \in S
  OBVIOUS
<1> HIDE DEF S
<1>3. Append(s, x) \in Seq(S) /\ Len(Append(s, x)) = Len(s) + 1
  BY <1>1, <1>2
<1> QED
  BY <1>1, <1>3, AnySeq

LEMMA WithoutLast ==
  ASSUME NEW s, IsSeq(s), s # <<>>
  PROVE  IsSeq(Front(s)) /\ Len(s) \in Nat \ {0} /\ Len(Front(s)) = Len(s) - 1
<1>1. Len(s) \in Nat \ {0}
  BY Rest
<1>2. IsSeq(SubSeq(s, 1, Len(s) - 1)) /\ Len(SubSeq(s, 1, Len(s) - 1)) = Len(s) - 1
  <2>1. 1 \in 1 .. Len(s) + 1 /\ Len(s) - 1 \in 0 .. Len(s) /\ 1 <= Len(s) - 1 + 1
    BY <1>1
  <2>2. IsSeq(SubSeq(s, 1, Len(s) - 1))
        /\ Len(SubSeq(s, 1, Len(s) - 1)) = Len(s) - 1 - 1 + 1
    BY <2>1, Part
  <2> QED
    BY <2>2, <1>1
<1> QED
  BY <1>1, <1>2 DEF Front

LEMMA EmptyQueue == IsSeq(<<>>) /\ Len(<<>>) = 0 /\ \A c : Descends(<<>>, c)
<1>1. <<>> \in Seq({})
  OBVIOUS
<1>2. IsSeq(<<>>)
  BY <1>1, AnySeq
<1> QED
  BY <1>2 DEF Descends

-----------------------------------------------------------------------------
(* The invariant, of the two lists and the counter. *)
Inv(us, rs, c) ==
  /\ IsSeq(us)
  /\ IsSeq(rs)
  /\ c \in Nat
  /\ Descends(us, c)
  /\ Len(us) + Len(rs) <= UNDO_LIMIT

LEMMA Lengths ==
  ASSUME Inv(undo_steps, redo_steps, counter)
  PROVE  Len(undo_steps) \in Nat /\ Len(redo_steps) \in Nat /\ UNDO_LIMIT \in Nat
  BY LimitAssumption DEF Inv, IsSeq

(* Whatever clears both lists. *)
LEMMA ClearKeepsInv ==
  ASSUME ClearQueues, counter' \in Nat
  PROVE  Inv(undo_steps, redo_steps, counter)'
  BY EmptyQueue, LimitAssumption DEF ClearQueues, Inv

(* Whatever ends a normal step. *)
LEMMA EndKeepsInv ==
  ASSUME Inv(undo_steps, redo_steps, counter), BeginStep, redo_steps' = <<>>,
         NEW step, step.counter = counter + 1, undo_steps' = EndStep(undo_steps, step)
  PROVE  Inv(undo_steps, redo_steps, counter)'
<1>1. Len(undo_steps) \in Nat /\ Len(undo_steps) <= UNDO_LIMIT
  BY Lengths DEF Inv
<1>2. /\ IsSeq(EndStep(undo_steps, step))
      /\ Len(EndStep(undo_steps, step)) \in 0 .. UNDO_LIMIT
      /\ Descends(EndStep(undo_steps, step), counter + 1)
  BY <1>1, EndStepFacts DEF Inv
<1> QED
  BY <1>2, EmptyQueue, LimitAssumption DEF Inv, BeginStep

LEMMA TransactKeepsInv ==
  ASSUME Inv(undo_steps, redo_steps, counter), NEW kind, NEW writes, Transact(kind, writes)
  PROVE  Inv(undo_steps, redo_steps, counter)'
<1> DEFINE step == NewStep(kind, RunStamped(writes).changes)
<1>1. step.counter = counter + 1
  BY DEF NewStep
<1>2. BeginStep /\ redo_steps' = <<>> /\ undo_steps' = EndStep(undo_steps, step)
  BY DEF Transact
<1> HIDE DEF step
<1> QED
  BY <1>1, <1>2, EndKeepsInv

LEMMA UndoKeepsInv ==
  ASSUME Inv(undo_steps, redo_steps, counter), Undo
  PROVE  Inv(undo_steps, redo_steps, counter)'
<1>1. /\ undo_steps # <<>>
      /\ undo_steps' = Tail(undo_steps)
      /\ counter' = counter + 1
      /\ redo_steps' = redo_steps \/ \E step : redo_steps' = Append(redo_steps, step)
  BY DEF Undo, BeginStep
<1>2. IsSeq(redo_steps') /\ Len(redo_steps') \in Nat /\ Len(redo_steps') <= Len(redo_steps) + 1
  <2>1. CASE redo_steps' = redo_steps
    BY <2>1, Lengths DEF Inv
  <2>2. ASSUME NEW step, redo_steps' = Append(redo_steps, step)
        PROVE  IsSeq(redo_steps') /\ Len(redo_steps') \in Nat /\ Len(redo_steps') <= Len(redo_steps) + 1
    <3>1. IsSeq(redo_steps)
      BY DEF Inv
    <3> QED
      BY <2>2, <3>1, AtEnd
  <2> QED
    BY <1>1, <2>1, <2>2
<1>3. IsSeq(undo_steps') /\ Len(undo_steps') = Len(undo_steps) - 1
  BY <1>1, Rest DEF Inv
<1>4. Descends(undo_steps', counter')
  BY <1>1, RestDescends, Rest, DescendsMore DEF Inv
<1> QED
  BY <1>1, <1>2, <1>3, <1>4, Lengths DEF Inv

LEMMA RedoKeepsInv ==
  ASSUME Inv(undo_steps, redo_steps, counter), Redo
  PROVE  Inv(undo_steps, redo_steps, counter)'
<1> DEFINE step == NewStep(Last(redo_steps).kind, Rewind(db, Last(redo_steps)).changes)
<1>1. step.counter = counter + 1
  BY DEF NewStep
<1>2. /\ redo_steps # <<>>
      /\ counter' = counter + 1
      /\ undo_steps' = EndStep(undo_steps, step)
      /\ redo_steps' = Front(redo_steps)
  BY DEF Redo, BeginStep
<1> HIDE DEF step
<1>3. IsSeq(redo_steps') /\ Len(redo_steps') = Len(redo_steps) - 1
  BY <1>2, WithoutLast DEF Inv
<1>4. Len(undo_steps) <= UNDO_LIMIT
  BY Lengths DEF Inv
<1>5. /\ IsSeq(undo_steps')
      /\ Len(undo_steps') \in Nat
      /\ Len(undo_steps') <= Len(undo_steps) + 1
      /\ Descends(undo_steps', counter')
  BY <1>1, <1>2, <1>4, EndStepFacts DEF Inv
<1> QED
  BY <1>2, <1>3, <1>5, Lengths DEF Inv

LEMMA MergeKeepsInv ==
  ASSUME Inv(undo_steps, redo_steps, counter), NEW i \in DOMAIN undo_steps, Merge(i)
  PROVE  Inv(undo_steps, redo_steps, counter)'
<1>1. i \in 1 .. Len(undo_steps)
  BY DEF Inv, IsSeq
<1>2. PICK x : /\ x.counter = undo_steps[i].counter
               /\ undo_steps' = <<x>> \o SubSeq(undo_steps, i + 1, Len(undo_steps))
               /\ counter' = x.counter
  <2> DEFINE target == undo_steps[i]
             x(m) == [kind |-> target.kind, timestamp |-> target.timestamp,
                      changes |-> m, counter |-> target.counter]
  <2>1. PICK m : /\ undo_steps' = <<x(m)>> \o SubSeq(undo_steps, i + 1, Len(undo_steps))
                 /\ counter' = target.counter
    BY DEF Merge
  <2>2. x(m).counter = target.counter
    OBVIOUS
  <2> QED
    BY <2>1, <2>2
<1>3. /\ IsSeq(undo_steps')
      /\ Len(undo_steps') \in Nat
      /\ Len(undo_steps') <= Len(undo_steps)
      /\ Descends(undo_steps', counter')
  BY <1>1, <1>2, MergedFacts DEF Inv
<1>4. counter' \in Nat
  BY <1>1, <1>2 DEF Inv, Descends
<1>5. redo_steps' = redo_steps
  BY DEF Merge
<1> QED
  BY <1>3, <1>4, <1>5, Lengths DEF Inv

-----------------------------------------------------------------------------
LEMMA InitQueueInv == Init => Inv(undo_steps, redo_steps, counter)
  BY EmptyQueue, LimitAssumption DEF Init, Inv

LEMMA NextKeepsInv ==
  ASSUME Inv(undo_steps, redo_steps, counter), [Next]_vars
  PROVE  Inv(undo_steps, redo_steps, counter)'
<1>0. counter \in Nat
  BY DEF Inv
<1>1. CASE UNCHANGED <<undo_steps, redo_steps, counter>>
  BY <1>1 DEF Inv
<1>2. ASSUME NEW n \in Notes, NEW v \in Values, UpdateNote(n, v)
      PROVE  Inv(undo_steps, redo_steps, counter)'
  BY <1>2, TransactKeepsInv DEF UpdateNote
<1>3. ASSUME NEW writes, OtherOp(writes)
      PROVE  Inv(undo_steps, redo_steps, counter)'
  BY <1>3, TransactKeepsInv DEF OtherOp
<1>4. ASSUME NEW writes, NoUndoOp(writes)
      PROVE  Inv(undo_steps, redo_steps, counter)'
  BY <1>0, <1>4, ClearKeepsInv DEF NoUndoOp
<1>5. ASSUME NEW writes, SkipUndoOp(writes)
      PROVE  Inv(undo_steps, redo_steps, counter)'
  <2>1. undo_steps' = undo_steps /\ redo_steps' = <<>> /\ counter' = counter + 1
    BY <1>5 DEF SkipUndoOp, BeginStep
  <2>2. Descends(undo_steps, counter + 1)
    BY DescendsMore DEF Inv
  <2> QED
    BY <2>1, <2>2, EmptyQueue, Lengths DEF Inv
<1>6. CASE FailedOp
  BY <1>0, <1>6, ClearKeepsInv DEF FailedOp, BeginStep
<1>7. CASE AddCustomStep
  <2> DEFINE step == NewStep("Custom", <<>>)
  <2>1. step.counter = counter + 1
    BY DEF NewStep
  <2>2. BeginStep /\ redo_steps' = <<>> /\ undo_steps' = EndStep(undo_steps, step)
    BY <1>7 DEF AddCustomStep
  <2> HIDE DEF step
  <2> QED
    BY <2>1, <2>2, EndKeepsInv
<1>8. CASE Undo
  BY <1>8, UndoKeepsInv
<1>9. CASE Redo
  BY <1>9, RedoKeepsInv
<1>10. ASSUME NEW i \in DOMAIN undo_steps, Merge(i)
       PROVE  Inv(undo_steps, redo_steps, counter)'
  BY <1>10, MergeKeepsInv
<1>11. CASE Sync
  BY <1>0, <1>11, ClearKeepsInv DEF Sync
<1>12. CASE Discard
  BY <1>0, <1>12, ClearKeepsInv DEF Discard
<1>13. CASE Wait
  BY <1>13, <1>1 DEF Wait
<1>14. CASE UNCHANGED vars
  BY <1>14, <1>1 DEF vars
<1> QED
  BY <1>2, <1>3, <1>4, <1>5, <1>6, <1>7, <1>8, <1>9, <1>10, <1>11, <1>12, <1>13, <1>14 DEF Next

(* The invariant holds of every collection's history. *)
LEMMA InvHolds == Spec => []Inv(undo_steps, redo_steps, counter)
  BY InitQueueInv, NextKeepsInv, PTL DEF Spec

(* A merge target names one step only, and no later step takes its number: *)
(* merge_undoable_ops finds the step its caller meant.                     *)
THEOREM TargetsUnambiguous == Spec => []CountersDescend
<1>1. Inv(undo_steps, redo_steps, counter) => CountersDescend
  BY InvInTerms DEF Inv
<1> QED
  BY <1>1, InvHolds, PTL

(* The undo and redo lists together never hold more than UNDO_LIMIT steps, *)
(* so the truncation in end_step never bites during a redo.                *)
THEOREM RedoNeverEvicts == Spec => []QueuesBounded
<1>1. Inv(undo_steps, redo_steps, counter) => QueuesBounded
  BY DEF Inv, QueuesBounded
<1> QED
  BY <1>1, InvHolds, PTL

(***************************************************************************)
(* The rows that the steps bring back.                                     *)
(***************************************************************************)
(* What holds at the start and is handed on holds everywhere. *)
LEMMA Steps ==
  ASSUME NEW n \in Nat, NEW S, 0 \in S, \A i \in 0 .. n : i # n /\ i \in S => i + 1 \in S
  PROVE  0 .. n \subseteq S
<1> SUFFICES ASSUME ~ (0 .. n \subseteq S)
             PROVE  FALSE
  OBVIOUS
<1> DEFINE T == {i \in Nat : i <= n /\ i \notin S}
           R == OpToRel(<, Nat)
<1>1. T \subseteq Nat /\ T # {}
  OBVIOUS
<1>2. PICK x \in T : \A y \in T : ~ (<<y, x>> \in R)
  <2>1. IsWellFoundedOn(R, Nat)
    BY NatLessThanWellFounded
  <2> HIDE DEF R, T
  <2> QED
    BY <1>1, <2>1, WFMin
<1>3. \A y \in T : ~ (y < x)
  BY <1>1, <1>2 DEF OpToRel
<1>4. x \in Nat /\ x <= n /\ x \notin S /\ x # 0
  OBVIOUS
<1>5. x - 1 \in 0 .. n /\ x - 1 # n /\ x - 1 \in S
  BY <1>3, <1>4
<1>6. x - 1 + 1 \in S
  BY <1>5
<1> QED
  BY <1>4, <1>6

(* The values of a recursion that goes from 0 up to n. *)
Iterates(f, n, b, g) == f[0] = b /\ \A i \in 1 .. n : f[i] = g[i][f[i - 1]]

LEMMA IteratesExist ==
  ASSUME NEW n \in Nat, NEW X, NEW b \in X, NEW g \in [1 .. n -> [X -> X]]
  PROVE  \E f \in [0 .. n -> X] : Iterates(f, n, b, g)
<1> DEFINE S == {m \in 0 .. n : \E f \in [0 .. m -> X] : Iterates(f, m, b, g)}
<1>1. 0 \in S
  <2>1. [i \in 0 .. 0 |-> b] \in [0 .. 0 -> X] /\ Iterates([i \in 0 .. 0 |-> b], 0, b, g)
    BY DEF Iterates
  <2> QED
    BY <2>1
<1>2. ASSUME NEW m \in 0 .. n, m # n, m \in S
      PROVE  m + 1 \in S
  <2>1. PICK f \in [0 .. m -> X] : Iterates(f, m, b, g)
    BY <1>2
  <2> DEFINE h == [i \in 0 .. m + 1 |-> IF i = m + 1 THEN g[m + 1][f[m]] ELSE f[i]]
  <2>2. f[m] \in X /\ g[m + 1] \in [X -> X] /\ g[m + 1][f[m]] \in X
    BY <1>2
  <2>3. h \in [0 .. m + 1 -> X]
    BY <1>2, <2>2
  <2>4. Iterates(h, m + 1, b, g)
    <3>1. h[0] = b
      BY <1>2, <2>1 DEF Iterates
    <3>2. ASSUME NEW i \in 1 .. m + 1
          PROVE  h[i] = g[i][h[i - 1]]
      <4>1. CASE i = m + 1
        BY <4>1, <1>2
      <4>2. CASE i # m + 1
        <5>1. i \in 1 .. m /\ h[i] = f[i] /\ h[i - 1] = f[i - 1]
          BY <4>2, <1>2
        <5> QED
          BY <5>1, <2>1 DEF Iterates
      <4> QED
        BY <4>1, <4>2
    <3> QED
      BY <3>1, <3>2 DEF Iterates
  <2>5. m + 1 \in 0 .. n
    BY <1>2
  <2> HIDE DEF h
  <2> QED
    BY <2>3, <2>4, <2>5
<1>3. 0 .. n \subseteq S
  <2> HIDE DEF S
  <2> QED
    BY <1>1, <1>2, Steps
<1>4. n \in S
  BY <1>3
<1> QED
  BY <1>4

(* One write: what it does to the collection, and what it records. *)
State == [db : [Cells -> Row], changes : Seq(Write)]

LEMMA PutTyped ==
  ASSUME NEW state \in State, NEW w \in Write
  PROVE  Put(state, w) \in State
<1>1. /\ state.db \in [Cells -> Row] /\ state.changes \in Seq(Write)
      /\ w.cell \in Cells /\ w.row \in Row
  BY DEF State, Write
<1>2. [w EXCEPT !.row = state.db[w.cell]] \in Write
  BY <1>1 DEF Write
<1>3. [state.db EXCEPT ![w.cell] = w.row] \in [Cells -> Row]
  BY <1>1
<1>4. Append(state.changes, [w EXCEPT !.row = state.db[w.cell]]) \in Seq(Write)
  BY <1>1, <1>2
<1> QED
  BY <1>3, <1>4 DEF Put, State

(* Run is the iteration of Put. *)
LEMMA RunIterates ==
  ASSUME NEW from \in [Cells -> Row], NEW writes \in Seq(Write)
  PROVE  \E after \in [0 .. Len(writes) -> State] :
           /\ after[0] = [db |-> from, changes |-> <<>>]
           /\ \A i \in 1 .. Len(writes) : after[i] = Put(after[i - 1], writes[i])
           /\ Run(from, writes) = after[Len(writes)]
<1> DEFINE n == Len(writes)
           b == [db |-> from, changes |-> <<>>]
           put(w) == [state \in [db : [Cells -> Row], changes : Seq(Write)] |-> Put(state, w)]
           Rec(f) == [i \in 0 .. n |-> IF i = 0 THEN b ELSE put(writes[i])[f[i - 1]]]
           after == CHOOSE f : f = Rec(f)
           g == [i \in 1 .. n |-> [state \in State |-> Put(state, writes[i])]]
<1>1. n \in Nat /\ b \in State /\ \A i \in 1 .. n : writes[i] \in Write
  BY DEF State
<1>2. g \in [1 .. n -> [State -> State]]
  BY <1>1, PutTyped
<1>3. PICK f \in [0 .. n -> State] : Iterates(f, n, b, g)
  <2> HIDE DEF g, n, b
  <2> QED
    BY <1>1, <1>2, IteratesExist
<1>4. f = Rec(f)
  <2>1. \A i \in 1 .. n : f[i] = put(writes[i])[f[i - 1]]
    <3>1. \A i \in 1 .. n : f[i - 1] \in State
      BY <1>1
    <3>2. \A i \in 1 .. n : g[i][f[i - 1]] = put(writes[i])[f[i - 1]]
      BY <3>1 DEF State
    <3> HIDE DEF g, n, put
    <3> QED
      BY <3>2, <1>3 DEF Iterates
  <2>2. f[0] = b
    BY <1>3 DEF Iterates
  <2> HIDE DEF b, put
  <2> QED
    BY <1>1, <2>1, <2>2
<1>5. after = Rec(after)
  <2> HIDE DEF Rec
  <2> QED
    BY <1>4
<1>6. Run(from, writes) = after[n]
  BY DEF Run
<1>7. PICK a : a = Rec(a) /\ Run(from, writes) = a[n]
  <2> HIDE DEF after, Rec, n
  <2> QED
    BY <1>5, <1>6
<1> HIDE DEF after
<1>8. a[0] = b /\ \A i \in 1 .. n : a[i] = put(writes[i])[a[i - 1]]
  <2> HIDE DEF put, b
  <2> QED
    BY <1>1, <1>7
<1>9. \A i \in 0 .. n : a[i] \in State
  <2> DEFINE S == {i \in 0 .. n : a[i] \in State}
  <2>1. 0 \in S
    BY <1>1, <1>8
  <2>2. ASSUME NEW i \in 0 .. n, i # n, i \in S
        PROVE  i + 1 \in S
    <3>0. i + 1 \in 1 .. n /\ i + 1 - 1 = i
      BY <1>1, <2>2
    <3>1. a[i + 1] = put(writes[i + 1])[a[i]]
      <4> HIDE DEF put
      <4> QED
        BY <1>8, <3>0
    <3>2. a[i + 1] = Put(a[i], writes[i + 1])
      BY <2>2, <3>0, <3>1, <1>1 DEF State
    <3> QED
      BY <1>1, <2>2, <3>0, <3>2, PutTyped
  <2> HIDE DEF S
  <2>3. 0 .. n \subseteq S
    BY <1>1, <2>1, <2>2, Steps
  <2> QED
    BY <2>3 DEF S
<1>10. \A i \in 1 .. n : a[i] = Put(a[i - 1], writes[i])
  <2>1. \A i \in 1 .. n : a[i - 1] \in State
    BY <1>1, <1>9
  <2> QED
    BY <1>8, <2>1 DEF State
<1>11. a \in [0 .. n -> State]
  <2>1. a = [i \in 0 .. n |-> a[i]]
    <3> HIDE DEF put, b
    <3> QED
      BY <1>7
  <2> QED
    BY <1>9, <2>1
<1> QED
  BY <1>7, <1>8, <1>10, <1>11
-----------------------------------------------------------------------------
(* The write that recorded w led from the tracked rows p to the rows q.    *)
Contents == [Tracked -> Row]

Made(w, p, q) ==
  IF w.cell \in Tracked
  THEN /\ p[w.cell] = w.row
       /\ \A d \in Tracked : d # w.cell => q[d] = p[d]
       /\ w.cell \in Configs => q[w.cell].val # p[w.cell].val
  ELSE q = p

(* The writes that recorded these changes led from b to a, over x.         *)
Trail(x, changes) ==
  /\ x \in [0 .. Len(changes) -> Contents]
  /\ \A i \in 1 .. Len(changes) : Made(changes[i], x[i - 1], x[i])

Records(changes, b, a) == \E x : Trail(x, changes) /\ x[0] = b /\ x[Len(changes)] = a

LEMMA TrackedCells == Tracked \subseteq Cells
  BY CellsAssumption DEF Tracked, Cells

LEMMA TrackedTyped ==
  ASSUME NEW rows \in [Cells -> Row]
  PROVE  TrackedOf(rows) \in Contents /\ \A c \in Tracked : TrackedOf(rows)[c] = rows[c]
  BY TrackedCells DEF TrackedOf, Contents

(* A write that is not skipped is recorded.                                *)
LEMMA PutMade ==
  ASSUME NEW state \in State, NEW w \in Write, Put(state, w) # state
  PROVE  \E v \in Write :
           /\ v.cell = w.cell
           /\ v.row = state.db[w.cell]
           /\ Put(state, w).changes = Append(state.changes, v)
           /\ Made(v, TrackedOf(state.db), TrackedOf(Put(state, w).db))
<1> DEFINE v == [w EXCEPT !.row = state.db[w.cell]]
           next == [state.db EXCEPT ![w.cell] = w.row]
<1>1. /\ ~ (w.cell \in Configs /\ state.db[w.cell].val = w.row.val)
      /\ Put(state, w) = [db |-> next, changes |-> Append(state.changes, v)]
  BY DEF Put
<1>2. /\ state.db \in [Cells -> Row] /\ w.cell \in Cells /\ w.row \in Row
      /\ v \in Write /\ v.cell = w.cell /\ v.row = state.db[w.cell]
  BY DEF State, Write
<1>3. next \in [Cells -> Row] /\ next[w.cell] = w.row /\ \A d \in Cells : d # w.cell => next[d] = state.db[d]
  BY <1>2
<1>4. Made(v, TrackedOf(state.db), TrackedOf(next))
  <2>1. /\ \A d \in Tracked : TrackedOf(state.db)[d] = state.db[d] /\ TrackedOf(next)[d] = next[d]
        /\ TrackedOf(state.db) \in Contents /\ TrackedOf(next) \in Contents
    BY <1>2, <1>3, TrackedTyped
  <2> HIDE DEF v, next
  <2>2. CASE w.cell \in Tracked
    BY <1>1, <1>2, <1>3, <2>1, <2>2, TrackedCells DEF Made
  <2>3. CASE w.cell \notin Tracked
    <3>1. \A d \in Tracked : next[d] = state.db[d]
      BY <1>3, <2>3, TrackedCells
    <3>2. TrackedOf(next) = TrackedOf(state.db)
      BY <3>1 DEF TrackedOf
    <3> QED
      BY <1>2, <2>3, <3>2 DEF Made
  <2> QED
    BY <2>2, <2>3
<1>5. Put(state, w).changes = Append(state.changes, v) /\ Put(state, w).db = next
  BY <1>1
<1> HIDE DEF v, next
<1> QED
  BY <1>2, <1>4, <1>5

(* Writing back what was recorded leads back.                              *)
LEMMA PutReturns ==
  ASSUME NEW state \in State, NEW w \in Write, NEW p \in Contents, Made(w, p, TrackedOf(state.db))
  PROVE  TrackedOf(Put(state, w).db) = p
<1> DEFINE next == [state.db EXCEPT ![w.cell] = w.row]
<1>1. state.db \in [Cells -> Row] /\ w.cell \in Cells /\ w.row \in Row
  BY DEF State, Write
<1>2. next \in [Cells -> Row] /\ next[w.cell] = w.row /\ \A d \in Cells : d # w.cell => next[d] = state.db[d]
  BY <1>1
<1>3. /\ TrackedOf(state.db) \in Contents /\ TrackedOf(next) \in Contents
      /\ \A d \in Tracked : TrackedOf(state.db)[d] = state.db[d] /\ TrackedOf(next)[d] = next[d]
  BY <1>1, <1>2, TrackedTyped
<1>4. Put(state, w).db = next \/ (w.cell \in Configs /\ state.db[w.cell].val = w.row.val /\ Put(state, w) = state)
  BY DEF Put
<1> HIDE DEF next
<1>5. CASE w.cell \in Tracked
  <2>1. Put(state, w).db = next
    BY <1>1, <1>3, <1>4, <1>5 DEF Made
  <2>2. \A d \in Tracked : TrackedOf(next)[d] = p[d]
    BY <1>2, <1>3, <1>5, TrackedCells DEF Made
  <2> QED
    BY <1>3, <2>1, <2>2 DEF Contents
<1>6. CASE w.cell \notin Tracked
  <2>1. TrackedOf(state.db) = p
    BY <1>6 DEF Made
  <2>2. \A d \in Tracked : next[d] = state.db[d]
    BY <1>2, <1>6, TrackedCells
  <2>3. TrackedOf(next) = TrackedOf(state.db)
    BY <2>2 DEF TrackedOf
  <2> QED
    BY <1>4, <2>1, <2>3
<1> QED
  BY <1>5, <1>6

(* Nothing recorded, nothing changed; and records put together.            *)
LEMMA NothingRecorded ==
  ASSUME NEW b \in Contents
  PROVE  \A a : Records(<<>>, b, a) <=> a = b
<1>1. ASSUME NEW a, Records(<<>>, b, a)
      PROVE  a = b
  BY <1>1 DEF Records
<1>2. Records(<<>>, b, b)
  <2>1. Trail([i \in 0 .. 0 |-> b], <<>>)
    BY DEF Trail
  <2> QED
    BY <2>1 DEF Records
<1> QED
  BY <1>1, <1>2

LEMMA RecordsTogether ==
  ASSUME NEW first \in Seq(Write), NEW second \in Seq(Write), NEW b, NEW m, NEW a,
         Records(first, b, m), Records(second, m, a)
  PROVE  Records(first \o second, b, a)
<1> DEFINE k == Len(first)
           l == Len(second)
           all == first \o second
<1>1. /\ k \in Nat /\ l \in Nat /\ all \in Seq(Write) /\ Len(all) = k + l
      /\ \A i \in 1 .. k : all[i] = first[i]
      /\ \A i \in 1 .. l : all[k + i] = second[i]
  OBVIOUS
<1>2. PICK x : Trail(x, first) /\ x[0] = b /\ x[k] = m
  BY DEF Records
<1>3. PICK y : Trail(y, second) /\ y[0] = m /\ y[l] = a
  BY DEF Records
<1> HIDE DEF all
<1> DEFINE z == [i \in 0 .. k + l |-> IF i <= k THEN x[i] ELSE y[i - k]]
<1>4. z \in [0 .. k + l -> Contents]
  <2>1. \A i \in 0 .. k + l : i > k => i - k \in 0 .. l
    BY <1>1
  <2>2. (\A i \in 0 .. k : x[i] \in Contents) /\ (\A i \in 0 .. l : y[i] \in Contents)
    BY <1>2, <1>3 DEF Trail
  <2> HIDE DEF k, l
  <2> QED
    BY <1>1, <2>1, <2>2
<1>5. ASSUME NEW i \in 1 .. k + l
      PROVE  Made(all[i], z[i - 1], z[i])
  <2>1. CASE i <= k
    <3>1. all[i] = first[i] /\ z[i - 1] = x[i - 1] /\ z[i] = x[i] /\ i \in 1 .. k
      BY <1>1, <2>1
    <3> QED
      BY <3>1, <1>2 DEF Trail
  <2>2. CASE i > k
    <3> DEFINE j == i - k
    <3>1. j \in 1 .. l /\ i = k + j
      BY <1>1, <2>2
    <3>2. all[i] = second[j]
      BY <1>1, <3>1
    <3>3. z[i] = y[j]
      BY <1>1, <3>1
    <3>4. z[i - 1] = y[j - 1]
      <4>1. CASE j = 1
        <5>1. i - 1 = k /\ z[i - 1] = x[k] /\ j - 1 = 0
          BY <1>1, <3>1, <4>1
        <5> QED
          BY <5>1, <1>2, <1>3
      <4>2. CASE j # 1
        BY <1>1, <3>1, <4>2
      <4> QED
        BY <4>1, <4>2
    <3> QED
      BY <3>1, <3>2, <3>3, <3>4, <1>3 DEF Trail
  <2> QED
    BY <1>1, <2>1, <2>2
<1>6. z[0] = b
  BY <1>1, <1>2
<1>7. z[k + l] = a
  <2>1. CASE l = 0
    BY <1>1, <1>2, <1>3, <2>1
  <2>2. CASE l # 0
    BY <1>1, <1>3, <2>2
  <2> QED
    BY <2>1, <2>2
<1>8. Trail(z, all)
  <2> HIDE DEF z, k, l
  <2> QED
    BY <1>1, <1>4, <1>5 DEF Trail
<1> HIDE DEF z
<1> QED
  BY <1>1, <1>6, <1>7, <1>8 DEF Records, all

LEMMA OneMore ==
  ASSUME NEW changes \in Seq(Write), NEW w \in Write, NEW b, NEW p \in Contents, NEW q \in Contents,
         Records(changes, b, p), Made(w, p, q)
  PROVE  Records(Append(changes, w), b, q)
<1> DEFINE x == [i \in 0 .. 1 |-> IF i = 0 THEN p ELSE q]
<1>1. <<w>> \in Seq(Write) /\ Len(<<w>>) = 1 /\ <<w>>[1] = w /\ Append(changes, w) = changes \o <<w>>
  OBVIOUS
<1>2. x \in [0 .. 1 -> Contents] /\ x[0] = p /\ x[1] = q
  OBVIOUS
<1>3. Trail(x, <<w>>)
  BY <1>1, <1>2 DEF Trail
<1>4. Records(<<w>>, p, q)
  BY <1>1, <1>2, <1>3 DEF Records
<1> QED
  BY <1>1, <1>4, RecordsTogether
-----------------------------------------------------------------------------
(* What a run of writes records, and what running a record backwards does. *)
LEMMA RunTyped ==
  ASSUME NEW from \in [Cells -> Row], NEW writes \in Seq(Write)
  PROVE  Run(from, writes) \in State
<1>1. PICK after \in [0 .. Len(writes) -> State] : Run(from, writes) = after[Len(writes)]
  BY RunIterates
<1>2. Len(writes) \in 0 .. Len(writes)
  OBVIOUS
<1> QED
  BY <1>1, <1>2

LEMMA RunRecords ==
  ASSUME NEW from \in [Cells -> Row], NEW writes \in Seq(Write)
  PROVE  Records(Run(from, writes).changes, TrackedOf(from), TrackedOf(Run(from, writes).db))
<1> DEFINE n == Len(writes)
<1>1. PICK after \in [0 .. n -> State] :
             /\ after[0] = [db |-> from, changes |-> <<>>]
             /\ \A i \in 1 .. n : after[i] = Put(after[i - 1], writes[i])
             /\ Run(from, writes) = after[n]
  BY RunIterates
<1>2. n \in Nat /\ \A i \in 1 .. n : writes[i] \in Write
  OBVIOUS
<1> HIDE DEF n
<1> DEFINE Ok(i) == Records(after[i].changes, TrackedOf(from), TrackedOf(after[i].db))
           S == {i \in 0 .. n : Ok(i)}
<1>3. 0 \in S
  BY <1>1, <1>2, NothingRecorded, TrackedTyped
<1>4. ASSUME NEW i \in 0 .. n, i # n, i \in S
      PROVE  i + 1 \in S
  <2>1. i + 1 \in 1 .. n /\ i + 1 - 1 = i /\ i + 1 \in 0 .. n
    BY <1>2, <1>4
  <2>2. after[i] \in State /\ writes[i + 1] \in Write /\ after[i + 1] = Put(after[i], writes[i + 1])
    BY <1>1, <1>2, <2>1
  <2>3. Ok(i)
    BY <1>4
  <2>4. CASE after[i + 1] = after[i]
    BY <2>1, <2>3, <2>4
  <2>5. CASE after[i + 1] # after[i]
    <3>1. PICK v \in Write : /\ after[i + 1].changes = Append(after[i].changes, v)
                             /\ Made(v, TrackedOf(after[i].db), TrackedOf(after[i + 1].db))
      BY <2>2, <2>5, PutMade
    <3>2. after[i + 1] \in State
      BY <1>1, <2>1
    <3>3. after[i].changes \in Seq(Write) /\ TrackedOf(after[i].db) \in Contents /\ TrackedOf(after[i + 1].db) \in Contents
      BY <2>2, <3>2, TrackedTyped DEF State
    <3>4. Ok(i + 1)
      BY <2>3, <3>1, <3>3, OneMore
    <3> QED
      BY <2>1, <3>4
  <2> QED
    BY <2>4, <2>5
<1>5. n \in S
  <2> HIDE DEF S
  <2>1. 0 .. n \subseteq S
    BY <1>2, <1>3, <1>4, Steps
  <2> QED
    BY <1>2, <2>1
<1> QED
  BY <1>1, <1>5

LEMMA ReverseFacts ==
  ASSUME NEW changes \in Seq(Write)
  PROVE  /\ Reverse(changes) \in Seq(Write)
         /\ Len(Reverse(changes)) = Len(changes)
         /\ \A i \in 1 .. Len(changes) : Reverse(changes)[i] = changes[Len(changes) - i + 1]
  BY DEF Reverse

LEMMA RewindReturns ==
  ASSUME NEW from \in [Cells -> Row], NEW step, step.changes \in Seq(Write),
         NEW b, Records(step.changes, b, TrackedOf(from))
  PROVE  TrackedOf(Rewind(from, step).db) = b
<1> DEFINE changes == step.changes
           writes == Reverse(changes)
           n == Len(changes)
<1>1. /\ writes \in Seq(Write) /\ Len(writes) = n /\ n \in Nat
      /\ \A i \in 1 .. n : writes[i] = changes[n - i + 1]
      /\ \A i \in 1 .. n : changes[i] \in Write
  BY ReverseFacts
<1>2. PICK x : Trail(x, changes) /\ x[0] = b /\ x[n] = TrackedOf(from)
  BY DEF Records
<1> HIDE DEF writes
<1>3. PICK after \in [0 .. n -> State] :
             /\ after[0] = [db |-> from, changes |-> <<>>]
             /\ \A i \in 1 .. n : after[i] = Put(after[i - 1], writes[i])
             /\ Run(from, writes) = after[n]
  BY <1>1, RunIterates
<1> HIDE DEF n, changes
<1> DEFINE Ok(i) == TrackedOf(after[i].db) = x[n - i]
           S == {i \in 0 .. n : Ok(i)}
<1>4. 0 \in S
  BY <1>1, <1>2, <1>3
<1>5. ASSUME NEW i \in 0 .. n, i # n, i \in S
      PROVE  i + 1 \in S
  <2>1. /\ i + 1 \in 1 .. n /\ i + 1 - 1 = i /\ i + 1 \in 0 .. n
        /\ n - i \in 1 .. n /\ n - (i + 1) + 1 = n - i /\ n - (i + 1) = n - i - 1 /\ n - i - 1 \in 0 .. n
    BY <1>1, <1>5
  <2>2. after[i + 1] = Put(after[i], changes[n - i]) /\ after[i] \in State /\ changes[n - i] \in Write
    <3>1. writes[i + 1] = changes[n - (i + 1) + 1]
      BY <1>1, <2>1
    <3>2. after[i + 1] = Put(after[i + 1 - 1], writes[i + 1])
      BY <1>3, <2>1
    <3>3. after[i] \in State
      BY <1>3, <1>5
    <3> QED
      BY <1>1, <2>1, <3>1, <3>2, <3>3
  <2>3. Made(changes[n - i], x[n - i - 1], x[n - i]) /\ x[n - i - 1] \in Contents
    BY <1>2, <2>1 DEF Trail, n
  <2>4. TrackedOf(after[i].db) = x[n - i]
    BY <1>5
  <2>5. TrackedOf(after[i + 1].db) = x[n - i - 1]
    BY <2>2, <2>3, <2>4, PutReturns
  <2> QED
    BY <2>1, <2>5
<1>6. n \in S
  <2> HIDE DEF S
  <2>1. 0 .. n \subseteq S
    BY <1>1, <1>4, <1>5, Steps
  <2> QED
    BY <1>1, <2>1
<1>7. TrackedOf(after[n].db) = x[0]
  BY <1>1, <1>6
<1> QED
  BY <1>2, <1>3, <1>7 DEF Rewind, writes, changes
-----------------------------------------------------------------------------
(* Whatever holds of the rows at the start and of every write holds of the *)
(* rows at the end and of what was recorded.                               *)
LEMMA PutGood ==
  ASSUME NEW Good \in SUBSET Write, NEW state \in State, NEW w \in Good,
         \A c \in Cells : [cell |-> c, row |-> state.db[c]] \in Good,
         state.changes \in Seq(Good)
  PROVE  /\ \A c \in Cells : [cell |-> c, row |-> Put(state, w).db[c]] \in Good
         /\ Put(state, w).changes \in Seq(Good)
<1> DEFINE v == [w EXCEPT !.row = state.db[w.cell]]
           next == [state.db EXCEPT ![w.cell] = w.row]
<1>1. w \in Write /\ w.cell \in Cells /\ state.db \in [Cells -> Row] /\ w = [cell |-> w.cell, row |-> w.row]
  BY DEF State, Write
<1>2. v = [cell |-> w.cell, row |-> state.db[w.cell]]
  BY <1>1
<1>3. \A c \in Cells : next[c] = IF c = w.cell THEN w.row ELSE state.db[c]
  BY <1>1
<1>4. Put(state, w) = state \/ Put(state, w) = [db |-> next, changes |-> Append(state.changes, v)]
  BY DEF Put
<1>5. v \in Good
  BY <1>1, <1>2
<1> HIDE DEF v, next
<1>6. \A c \in Cells : [cell |-> c, row |-> next[c]] \in Good
  BY <1>1, <1>3
<1>7. Append(state.changes, v) \in Seq(Good)
  BY <1>5
<1> QED
  BY <1>4, <1>6, <1>7

LEMMA RunGood ==
  ASSUME NEW Good \in SUBSET Write, NEW from \in [Cells -> Row], NEW writes \in Seq(Good),
         \A c \in Cells : [cell |-> c, row |-> from[c]] \in Good
  PROVE  /\ \A c \in Cells : [cell |-> c, row |-> Run(from, writes).db[c]] \in Good
         /\ Run(from, writes).changes \in Seq(Good)
<1> DEFINE n == Len(writes)
<1>1. writes \in Seq(Write) /\ n \in Nat /\ \A i \in 1 .. n : writes[i] \in Good
  <2>1. n \in Nat /\ writes \in [1 .. n -> Good]
    OBVIOUS
  <2>2. writes \in [1 .. n -> Write]
    BY <2>1
  <2> QED
    BY <2>1, <2>2
<1>2. PICK after \in [0 .. n -> State] :
             /\ after[0] = [db |-> from, changes |-> <<>>]
             /\ \A i \in 1 .. n : after[i] = Put(after[i - 1], writes[i])
             /\ Run(from, writes) = after[n]
  BY <1>1, RunIterates
<1> HIDE DEF n
<1> DEFINE Ok(i) == /\ \A c \in Cells : [cell |-> c, row |-> after[i].db[c]] \in Good
                    /\ after[i].changes \in Seq(Good)
           S == {i \in 0 .. n : Ok(i)}
<1>3. 0 \in S
  BY <1>1, <1>2
<1>4. ASSUME NEW i \in 0 .. n, i # n, i \in S
      PROVE  i + 1 \in S
  <2>1. i + 1 \in 1 .. n /\ i + 1 - 1 = i /\ i + 1 \in 0 .. n
    BY <1>1, <1>4
  <2>2. after[i] \in State /\ writes[i + 1] \in Good /\ after[i + 1] = Put(after[i], writes[i + 1])
    BY <1>1, <1>2, <2>1
  <2>3. Ok(i)
    BY <1>4
  <2>4. Ok(i + 1)
    BY <2>2, <2>3, PutGood
  <2> QED
    BY <2>1, <2>4
<1>5. n \in S
  <2> HIDE DEF S
  <2>1. 0 .. n \subseteq S
    BY <1>1, <1>3, <1>4, Steps
  <2> QED
    BY <1>1, <2>1
<1> QED
  BY <1>2, <1>5

(* The modification time is no config entry: writing it is never skipped.  *)
LEMMA StampPut ==
  ASSUME NEW state \in State, NEW w \in Write, w.cell = Modified
  PROVE  /\ Put(state, w).db[Modified] = w.row
         /\ Put(state, w).changes = Append(state.changes, [cell |-> Modified, row |-> state.db[Modified]])
<1>1. Modified \in Cells /\ Modified \notin Configs
  BY CellsAssumption DEF Cells, Rows
<1>2. w = [cell |-> w.cell, row |-> w.row] /\ state.db \in [Cells -> Row]
  BY DEF Write, State
<1> QED
  BY <1>1, <1>2 DEF Put

LEMMA OtherPut ==
  ASSUME NEW state \in State, NEW w \in Write, w.cell # Modified
  PROVE  /\ Put(state, w).db[Modified] = state.db[Modified]
         /\ \/ Put(state, w).changes = state.changes
            \/ \E v \in Write : /\ v.cell = w.cell
                                /\ Put(state, w).changes = Append(state.changes, v)
<1>1. Modified \in Cells /\ state.db \in [Cells -> Row]
  BY DEF Cells, State
<1>2. Put(state, w).db[Modified] = state.db[Modified]
  BY <1>1 DEF Put
<1> QED
  BY <1>2, PutMade
-----------------------------------------------------------------------------
(* The first and the last modification time among some changes.            *)
IsStamp(change) == change.cell = Modified

FirstStamp(changes, row) ==
  \E k \in 1 .. Len(changes) : /\ IsStamp(changes[k]) /\ changes[k].row = row
                               /\ \A j \in 1 .. k - 1 : ~ IsStamp(changes[j])

LEMMA AppendFacts ==
  ASSUME NEW S, NEW s \in Seq(S), NEW x \in S
  PROVE  /\ Len(Append(s, x)) = Len(s) + 1 /\ Len(s) \in Nat
         /\ Append(s, x)[Len(s) + 1] = x
         /\ \A j \in 1 .. Len(s) : Append(s, x)[j] = s[j]
  OBVIOUS

LEMMA FirstStays ==
  ASSUME NEW changes \in Seq(Write), NEW w \in Write, NEW row, FirstStamp(changes, row)
  PROVE  FirstStamp(Append(changes, w), row)
<1>1. /\ Len(Append(changes, w)) = Len(changes) + 1 /\ Len(changes) \in Nat
      /\ \A j \in 1 .. Len(changes) : Append(changes, w)[j] = changes[j]
  BY AppendFacts
<1>2. PICK k \in 1 .. Len(changes) : /\ IsStamp(changes[k]) /\ changes[k].row = row
                                     /\ \A j \in 1 .. k - 1 : ~ IsStamp(changes[j])
  BY DEF FirstStamp
<1>3. k \in 1 .. Len(Append(changes, w)) /\ Append(changes, w)[k] = changes[k]
  BY <1>1
<1>4. \A j \in 1 .. k - 1 : Append(changes, w)[j] = changes[j]
  BY <1>1
<1> QED
  BY <1>2, <1>3, <1>4 DEF FirstStamp

(* Once the modification time is written, what it was at the start is the  *)
(* first recorded.                                                         *)
LEMMA RunFirst ==
  ASSUME NEW from \in [Cells -> Row], NEW writes \in Seq(Write),
         NEW k \in 1 .. Len(writes), IsStamp(writes[k])
  PROVE  FirstStamp(Run(from, writes).changes, from[Modified])
<1> DEFINE n == Len(writes)
<1>1. PICK after \in [0 .. n -> State] :
             /\ after[0] = [db |-> from, changes |-> <<>>]
             /\ \A i \in 1 .. n : after[i] = Put(after[i - 1], writes[i])
             /\ Run(from, writes) = after[n]
  BY RunIterates
<1>2. n \in Nat /\ k \in 1 .. n /\ \A i \in 1 .. n : writes[i] \in Write
  OBVIOUS
<1> HIDE DEF n
<1> DEFINE changes(i) == after[i].changes
           None(i) == /\ i < k
                      /\ \A j \in 1 .. Len(changes(i)) : ~ IsStamp(changes(i)[j])
                      /\ after[i].db[Modified] = from[Modified]
           Ok(i) == None(i) \/ FirstStamp(changes(i), from[Modified])
           S == {i \in 0 .. n : Ok(i)}
<1>3. 0 \in S
  BY <1>1, <1>2
<1>4. ASSUME NEW i \in 0 .. n, i # n, i \in S
      PROVE  i + 1 \in S
  <2>1. i + 1 \in 1 .. n /\ i + 1 - 1 = i /\ i + 1 \in 0 .. n
    BY <1>2, <1>4
  <2>2. after[i] \in State /\ writes[i + 1] \in Write /\ after[i + 1] = Put(after[i], writes[i + 1])
    BY <1>1, <1>2, <2>1
  <2>3. Ok(i)
    BY <1>4
  <2>4. changes(i) \in Seq(Write) /\ after[i].db \in [Cells -> Row] /\ Modified \in Cells
    BY <2>2 DEF State, Cells
  <2>5. CASE IsStamp(writes[i + 1])
    <3> DEFINE v == [cell |-> Modified, row |-> after[i].db[Modified]]
    <3>1. changes(i + 1) = Append(changes(i), v)
      BY <2>2, <2>5, StampPut DEF IsStamp
    <3>2. v \in Write /\ v.cell = Modified /\ v.row = after[i].db[Modified]
      BY <2>4 DEF Write
    <3> HIDE DEF v
    <3>3. CASE FirstStamp(changes(i), from[Modified])
      <4> HIDE DEF changes
      <4>1. Ok(i + 1)
        BY <3>1, <3>2, <3>3, <2>4, FirstStays
      <4> QED
        BY <2>1, <4>1
    <3>4. CASE None(i)
      <4>1. v.row = from[Modified] /\ \A j \in 1 .. Len(changes(i)) : ~ IsStamp(changes(i)[j])
        BY <3>2, <3>4
      <4> HIDE DEF changes
      <4>2. /\ Len(changes(i + 1)) = Len(changes(i)) + 1 /\ Len(changes(i)) \in Nat
            /\ changes(i + 1)[Len(changes(i)) + 1] = v
            /\ \A j \in 1 .. Len(changes(i)) : changes(i + 1)[j] = changes(i)[j]
        BY <3>1, <3>2, <2>4, AppendFacts
      <4>3. FirstStamp(changes(i + 1), from[Modified])
        <5> DEFINE m == Len(changes(i)) + 1
        <5>1. m \in 1 .. Len(changes(i + 1)) /\ changes(i + 1)[m] = v
          BY <4>2
        <5>2. \A j \in 1 .. m - 1 : ~ IsStamp(changes(i + 1)[j])
          BY <4>1, <4>2
        <5> HIDE DEF m
        <5> QED
          BY <3>2, <4>1, <5>1, <5>2 DEF FirstStamp, IsStamp
      <4> QED
        BY <2>1, <4>3
    <3> QED
      BY <2>3, <3>3, <3>4
  <2>6. CASE ~ IsStamp(writes[i + 1])
    <3>1. /\ after[i + 1].db[Modified] = after[i].db[Modified]
          /\ \/ changes(i + 1) = changes(i)
             \/ \E v \in Write : ~ IsStamp(v) /\ changes(i + 1) = Append(changes(i), v)
      BY <2>2, <2>6, OtherPut DEF IsStamp
    <3>2. i + 1 # k
      BY <2>6
    <3>3. CASE FirstStamp(changes(i), from[Modified])
      <4> HIDE DEF changes
      <4>1. Ok(i + 1)
        BY <3>1, <3>3, <2>4, FirstStays
      <4> QED
        BY <2>1, <4>1
    <3>4. CASE None(i)
      <4>1. i + 1 < k /\ after[i + 1].db[Modified] = from[Modified]
        BY <1>2, <3>1, <3>2, <3>4
      <4>2. \A j \in 1 .. Len(changes(i)) : ~ IsStamp(changes(i)[j])
        BY <3>4
      <4>3. \A j \in 1 .. Len(changes(i + 1)) : ~ IsStamp(changes(i + 1)[j])
        <5> HIDE DEF changes
        <5>1. CASE changes(i + 1) = changes(i)
          BY <4>2, <5>1
        <5>2. ASSUME NEW v \in Write, ~ IsStamp(v), changes(i + 1) = Append(changes(i), v)
              PROVE  \A j \in 1 .. Len(changes(i + 1)) : ~ IsStamp(changes(i + 1)[j])
          <6>1. /\ Len(changes(i + 1)) = Len(changes(i)) + 1 /\ Len(changes(i)) \in Nat
                /\ changes(i + 1)[Len(changes(i)) + 1] = v
                /\ \A j \in 1 .. Len(changes(i)) : changes(i + 1)[j] = changes(i)[j]
            <7> DEFINE t == changes(i)
            <7>1. t \in Seq(Write) /\ changes(i + 1) = Append(t, v)
              BY <5>2, <2>4
            <7> HIDE DEF t
            <7>2. /\ Len(Append(t, v)) = Len(t) + 1 /\ Len(t) \in Nat
                  /\ Append(t, v)[Len(t) + 1] = v
                  /\ \A j \in 1 .. Len(t) : Append(t, v)[j] = t[j]
              BY <7>1, AppendFacts
            <7> QED
              BY <7>1, <7>2 DEF t
          <6> QED
            BY <6>1, <4>2, <5>2
        <5> QED
          BY <3>1, <5>1, <5>2
      <4>4. Ok(i + 1)
        BY <4>1, <4>3
      <4> QED
        BY <2>1, <4>4
    <3> QED
      BY <2>3, <3>3, <3>4
  <2> QED
    BY <2>5, <2>6
<1>5. n \in S
  <2> HIDE DEF S
  <2>1. 0 .. n \subseteq S
    BY <1>2, <1>3, <1>4, Steps
  <2> QED
    BY <1>2, <2>1
<1>6. ~ (n < k)
  BY <1>2
<1> QED
  BY <1>1, <1>5, <1>6
(* The last modification time written is the one that stays.               *)
LEMMA RunLast ==
  ASSUME NEW from \in [Cells -> Row], NEW writes \in Seq(Write),
         NEW k \in 1 .. Len(writes), IsStamp(writes[k]),
         \A j \in k + 1 .. Len(writes) : ~ IsStamp(writes[j])
  PROVE  Run(from, writes).db[Modified] = writes[k].row
<1> DEFINE n == Len(writes)
<1>1. PICK after \in [0 .. n -> State] :
             /\ after[0] = [db |-> from, changes |-> <<>>]
             /\ \A i \in 1 .. n : after[i] = Put(after[i - 1], writes[i])
             /\ Run(from, writes) = after[n]
  BY RunIterates
<1>2. /\ n \in Nat /\ k \in 1 .. n /\ \A i \in 1 .. n : writes[i] \in Write
      /\ \A j \in k + 1 .. n : ~ IsStamp(writes[j])
  OBVIOUS
<1> HIDE DEF n
<1> DEFINE Ok(i) == i >= k => after[i].db[Modified] = writes[k].row
           S == {i \in 0 .. n : Ok(i)}
<1>3. 0 \in S
  BY <1>2
<1>4. ASSUME NEW i \in 0 .. n, i # n, i \in S
      PROVE  i + 1 \in S
  <2>1. i + 1 \in 1 .. n /\ i + 1 - 1 = i /\ i + 1 \in 0 .. n
    BY <1>2, <1>4
  <2>2. after[i] \in State /\ writes[i + 1] \in Write /\ after[i + 1] = Put(after[i], writes[i + 1])
    BY <1>1, <1>2, <2>1
  <2>3. CASE i + 1 < k
    BY <1>2, <2>1, <2>3
  <2>4. CASE i + 1 = k
    <3>1. after[i + 1].db[Modified] = writes[i + 1].row
      BY <2>2, <2>4, StampPut DEF IsStamp
    <3> QED
      BY <2>1, <2>4, <3>1
  <2>5. CASE i + 1 > k
    <3>1. i + 1 \in k + 1 .. n /\ i >= k
      BY <1>2, <2>1, <2>5
    <3>2. after[i].db[Modified] = writes[k].row
      BY <1>4, <3>1
    <3>3. after[i + 1].db[Modified] = after[i].db[Modified]
      BY <1>2, <2>2, <3>1, OtherPut DEF IsStamp
    <3> QED
      BY <2>1, <3>2, <3>3
  <2> QED
    BY <1>2, <2>1, <2>3, <2>4, <2>5
<1>5. n \in S
  <2> HIDE DEF S
  <2>1. 0 .. n \subseteq S
    BY <1>2, <1>3, <1>4, Steps
  <2> QED
    BY <1>2, <2>1
<1> QED
  BY <1>1, <1>2, <1>5

(* The modification time written last, or first, is recorded there.        *)
LEMMA RunEnds ==
  ASSUME NEW from \in [Cells -> Row], NEW writes \in Seq(Write),
         Len(writes) # 0, IsStamp(writes[Len(writes)])
  PROVE  LET changes == Run(from, writes).changes
         IN  Len(changes) # 0 /\ IsStamp(changes[Len(changes)])
<1> DEFINE n == Len(writes)
<1>1. PICK after \in [0 .. n -> State] :
             /\ \A i \in 1 .. n : after[i] = Put(after[i - 1], writes[i])
             /\ Run(from, writes) = after[n]
  BY RunIterates
<1>2. n \in 1 .. n /\ n - 1 \in 0 .. n /\ writes[n] \in Write /\ IsStamp(writes[n])
  OBVIOUS
<1> HIDE DEF n
<1> DEFINE v == [cell |-> Modified, row |-> after[n - 1].db[Modified]]
           t == after[n - 1].changes
<1>3. after[n - 1] \in State /\ after[n] = Put(after[n - 1], writes[n])
  BY <1>1, <1>2
<1>4. after[n].changes = Append(t, v)
  BY <1>2, <1>3, StampPut DEF IsStamp
<1>5. t \in Seq(Write) /\ v \in Write /\ IsStamp(v)
  BY <1>3 DEF State, Write, Cells, IsStamp
<1> HIDE DEF t, v
<1>6. /\ Len(Append(t, v)) = Len(t) + 1 /\ Len(t) \in Nat /\ Append(t, v)[Len(t) + 1] = v
  BY <1>5, AppendFacts
<1> QED
  BY <1>1, <1>4, <1>5, <1>6

LEMMA RunBegins ==
  ASSUME NEW from \in [Cells -> Row], NEW writes \in Seq(Write),
         Len(writes) # 0, IsStamp(writes[1])
  PROVE  LET changes == Run(from, writes).changes
         IN  Len(changes) # 0 /\ IsStamp(changes[1])
<1> DEFINE n == Len(writes)
<1>1. PICK after \in [0 .. n -> State] :
             /\ after[0] = [db |-> from, changes |-> <<>>]
             /\ \A i \in 1 .. n : after[i] = Put(after[i - 1], writes[i])
             /\ Run(from, writes) = after[n]
  BY RunIterates
<1>2. n \in Nat \ {0} /\ IsStamp(writes[1]) /\ \A i \in 1 .. n : writes[i] \in Write
  OBVIOUS
<1> HIDE DEF n
<1> DEFINE Begun(t) == Len(t) # 0 /\ IsStamp(t[1])
           S == {i \in 0 .. n : i # 0 => Begun(after[i].changes)}
<1>3. 0 \in S
  BY <1>2
<1>4. ASSUME NEW i \in 0 .. n, i # n, i \in S
      PROVE  i + 1 \in S
  <2>1. i + 1 \in 1 .. n /\ i + 1 - 1 = i /\ i + 1 \in 0 .. n
    BY <1>2, <1>4
  <2>2. after[i] \in State /\ writes[i + 1] \in Write /\ after[i + 1] = Put(after[i], writes[i + 1])
    BY <1>1, <1>2, <2>1
  <2> DEFINE t == after[i].changes
  <2>3. t \in Seq(Write) /\ (i # 0 => Begun(t)) /\ (i = 0 => t = <<>>)
    BY <1>1, <1>4, <2>2 DEF State
  <2>4. \/ after[i + 1].changes = t /\ ~ IsStamp(writes[i + 1])
        \/ \E v \in Write : v.cell = writes[i + 1].cell /\ after[i + 1].changes = Append(t, v)
    <3>1. CASE IsStamp(writes[i + 1])
      <4> DEFINE v == [cell |-> Modified, row |-> after[i].db[Modified]]
      <4>1. after[i + 1].changes = Append(t, v) /\ v.cell = writes[i + 1].cell
        BY <2>2, <3>1, StampPut DEF IsStamp
      <4>2. v \in Write
        BY <2>2 DEF State, Write, Cells
      <4> QED
        BY <4>1, <4>2
    <3>2. CASE ~ IsStamp(writes[i + 1])
      BY <2>2, <3>2, OtherPut DEF IsStamp
    <3> QED
      BY <3>1, <3>2
  <2> HIDE DEF t
  <2>5. CASE after[i + 1].changes = t /\ ~ IsStamp(writes[i + 1])
    <3>1. i # 0
      BY <1>2, <2>5
    <3> QED
      BY <2>1, <2>3, <2>5, <3>1
  <2>6. ASSUME NEW v \in Write, v.cell = writes[i + 1].cell, after[i + 1].changes = Append(t, v)
        PROVE  i + 1 \in S
    <3>1. /\ Len(Append(t, v)) = Len(t) + 1 /\ Len(t) \in Nat /\ Append(t, v)[Len(t) + 1] = v
          /\ \A j \in 1 .. Len(t) : Append(t, v)[j] = t[j]
      BY <2>3, AppendFacts
    <3>2. CASE i = 0
      <4>1. Len(t) = 0 /\ IsStamp(v)
        BY <1>2, <2>3, <2>6, <3>2 DEF IsStamp
      <4>2. Begun(Append(t, v))
        BY <3>1, <4>1
      <4> QED
        BY <2>1, <2>6, <4>2
    <3>3. CASE i # 0
      <4>1. Begun(Append(t, v))
        BY <2>3, <3>1, <3>3
      <4> QED
        BY <2>1, <2>6, <4>1
    <3> QED
      BY <3>2, <3>3
  <2> QED
    BY <2>4, <2>5, <2>6
<1>5. n \in S
  <2> HIDE DEF S
  <2>1. 0 .. n \subseteq S
    BY <1>2, <1>3, <1>4, Steps
  <2> QED
    BY <1>2, <2>1
<1> QED
  BY <1>1, <1>2, <1>5
LEMMA RunNothing ==
  ASSUME NEW from \in [Cells -> Row]
  PROVE  Run(from, <<>>) = [db |-> from, changes |-> <<>>]
<1>1. <<>> \in Seq(Write) /\ Len(<<>>) = 0
  OBVIOUS
<1>2. PICK after : after[0] = [db |-> from, changes |-> <<>>] /\ Run(from, <<>>) = after[Len(<<>>)]
  BY <1>1, RunIterates
<1> QED
  BY <1>1, <1>2

(* Going back over a step: what is recorded meanwhile can be gone back     *)
(* over in its turn, and the modification time is what the step saved.     *)
LEMMA RewindFacts ==
  ASSUME NEW from \in [Cells -> Row], NEW step, step.changes \in Seq(Write)
  PROVE  LET done == Rewind(from, step)
         IN  /\ done \in State
             /\ Records(done.changes, TrackedOf(from), TrackedOf(done.db))
             /\ step.changes = <<>> => done = [db |-> from, changes |-> <<>>]
<1> DEFINE writes == Reverse(step.changes)
<1>1. writes \in Seq(Write) /\ Len(writes) = Len(step.changes)
  BY ReverseFacts
<1>2. Run(from, writes) \in State
  BY <1>1, RunTyped
<1>3. Records(Run(from, writes).changes, TrackedOf(from), TrackedOf(Run(from, writes).db))
  BY <1>1, RunRecords
<1>4. step.changes = <<>> => writes = <<>>
  BY <1>1
<1>5. Rewind(from, step) = Run(from, writes)
  BY DEF Rewind
<1> HIDE DEF writes
<1> QED
  BY <1>2, <1>3, <1>4, <1>5, RunNothing

LEMMA RewindStamps ==
  ASSUME NEW from \in [Cells -> Row], NEW step, step.changes \in Seq(Write),
         NEW row, FirstStamp(step.changes, row)
  PROVE  LET done == Rewind(from, step)
         IN  /\ FirstStamp(done.changes, from[Modified])
             /\ done.db[Modified] = row
             /\ IsStamp(step.changes[Len(step.changes)]) => IsStamp(done.changes[1])
             /\ IsStamp(step.changes[1]) => IsStamp(done.changes[Len(done.changes)])
<1> DEFINE changes == step.changes
           writes == Reverse(changes)
           n == Len(changes)
<1>1. /\ writes \in Seq(Write) /\ Len(writes) = n /\ n \in Nat
      /\ \A i \in 1 .. n : writes[i] = changes[n - i + 1]
      /\ Rewind(from, step) = Run(from, writes)
  BY ReverseFacts DEF Rewind
<1>2. PICK k \in 1 .. n : /\ IsStamp(changes[k]) /\ changes[k].row = row
                          /\ \A j \in 1 .. k - 1 : ~ IsStamp(changes[j])
  BY DEF FirstStamp
<1> HIDE DEF writes, n, changes
<1> DEFINE l == n - k + 1
<1>3. l \in 1 .. Len(writes) /\ writes[l] = changes[k]
  <2>1. l \in 1 .. n /\ n - l + 1 = k
    BY <1>1
  <2>2. writes[l] = changes[n - l + 1]
    BY <1>1, <2>1
  <2> QED
    BY <1>1, <2>1, <2>2
<1>4. \A j \in l + 1 .. Len(writes) : ~ IsStamp(writes[j])
  <2> SUFFICES ASSUME NEW j \in l + 1 .. n
               PROVE  ~ IsStamp(writes[j])
    BY <1>1
  <2>1. j \in 1 .. n /\ n - j + 1 \in 1 .. k - 1
    BY <1>1
  <2>2. writes[j] = changes[n - j + 1]
    BY <1>1, <2>1
  <2> QED
    BY <1>2, <2>1, <2>2
<1> HIDE DEF l
<1>5. FirstStamp(Run(from, writes).changes, from[Modified])
  BY <1>1, <1>2, <1>3, RunFirst
<1>6. Run(from, writes).db[Modified] = row
  BY <1>1, <1>2, <1>3, <1>4, RunLast
<1>7. Len(writes) # 0 /\ writes[1] = changes[n] /\ writes[n] = changes[1]
  <2>1. 1 \in 1 .. n /\ n \in 1 .. n /\ n - 1 + 1 = n /\ n - n + 1 = 1
    BY <1>1
  <2>2. writes[1] = changes[n - 1 + 1] /\ writes[n] = changes[n - n + 1]
    BY <1>1, <2>1
  <2> QED
    BY <1>1, <2>1, <2>2
<1>8. ASSUME IsStamp(changes[n])
      PROVE  IsStamp(Run(from, writes).changes[1])
  BY <1>1, <1>7, <1>8, RunBegins
<1>9. ASSUME IsStamp(changes[1])
      PROVE  IsStamp(Run(from, writes).changes[Len(Run(from, writes).changes)])
  BY <1>1, <1>7, <1>9, RunEnds
<1> QED
  BY <1>1, <1>5, <1>6, <1>8, <1>9 DEF n, changes
-----------------------------------------------------------------------------
(* Only the cells that were written can differ.                            *)
LEMMA Confined ==
  ASSUME NEW changes \in Seq(Write), NEW b, NEW a, Records(changes, b, a), NEW C,
         \A i \in 1 .. Len(changes) : changes[i].cell \in C
  PROVE  \A d \in Tracked \ C : a[d] = b[d]
<1> SUFFICES ASSUME NEW d \in Tracked \ C
             PROVE  a[d] = b[d]
  OBVIOUS
<1> DEFINE n == Len(changes)
<1>1. n \in Nat /\ \A i \in 1 .. n : changes[i].cell \in C
  OBVIOUS
<1>2. PICK x : Trail(x, changes) /\ x[0] = b /\ x[n] = a
  BY DEF Records
<1>3. \A i \in 1 .. n : Made(changes[i], x[i - 1], x[i])
  BY <1>2 DEF Trail
<1> HIDE DEF n
<1> DEFINE S == {i \in 0 .. n : x[i][d] = b[d]}
<1>4. 0 \in S
  BY <1>1, <1>2
<1>5. ASSUME NEW i \in 0 .. n, i # n, i \in S
      PROVE  i + 1 \in S
  <2>1. i + 1 \in 1 .. n /\ i + 1 - 1 = i /\ i + 1 \in 0 .. n
    BY <1>1, <1>5
  <2>2. Made(changes[i + 1], x[i], x[i + 1]) /\ changes[i + 1].cell \in C
    <3>1. Made(changes[i + 1], x[i + 1 - 1], x[i + 1])
      BY <1>3, <2>1
    <3> QED
      BY <1>1, <2>1, <3>1
  <2>3. x[i + 1][d] = x[i][d]
    BY <2>2 DEF Made
  <2> QED
    BY <1>5, <2>1, <2>3
<1>6. n \in S
  <2> HIDE DEF S
  <2>1. 0 .. n \subseteq S
    BY <1>1, <1>4, <1>5, Steps
  <2> QED
    BY <1>1, <2>1
<1> QED
  BY <1>2, <1>6

(* An edit of one note can be followed by another without a new step.      *)
LEMMA EditedAgain ==
  ASSUME NEW step, step.changes \in Seq(Write), NEW n \in Notes, IsNoteEdit(step, n),
         NEW b, NEW a, Records(step.changes, b, a),
         NEW c \in Contents, \A d \in Tracked \ {n, Modified} : c[d] = a[d]
  PROVE  Records(step.changes, b, c)
<1> DEFINE first == step.changes[1]
           second == step.changes[2]
           x == [i \in 0 .. 2 |-> IF i = 0 THEN b
                                  ELSE IF i = 1 THEN [d \in Tracked |-> IF d = Modified THEN second.row ELSE c[d]]
                                  ELSE c]
<1>1. /\ Len(step.changes) = 2 /\ first.cell = n /\ second.cell = Modified
      /\ n \notin Configs /\ Modified \notin Configs /\ n # Modified /\ second.row \in Row
  <2>1. Len(step.changes) = 2 /\ first.cell = n /\ second.cell = Modified
    BY DEF IsNoteEdit
  <2>2. second \in Write
    BY <2>1
  <2>3. second.row \in Row
    BY <2>2 DEF Write
  <2> HIDE DEF first, second
  <2> QED
    BY <2>1, <2>3, CellsAssumption DEF Rows
<1>2. PICK y : Trail(y, step.changes) /\ y[0] = b /\ y[2] = a
  BY <1>1 DEF Records
<1>3. /\ b \in Contents /\ a \in Contents /\ y[1] \in Contents
      /\ Made(first, b, y[1]) /\ Made(second, y[1], a)
  <2>1. Made(first, y[1 - 1], y[1]) /\ Made(second, y[2 - 1], y[2])
    BY <1>1, <1>2 DEF Trail
  <2> QED
    BY <1>1, <1>2, <2>1 DEF Trail
<1>4. x[0] = b /\ x[2] = c /\ x[1] \in Contents /\ x \in [0 .. 2 -> Contents]
  BY <1>1, <1>3 DEF Contents
<1>5. \A d \in Tracked : x[1][d] = IF d = Modified THEN second.row ELSE c[d]
  OBVIOUS
<1> HIDE DEF x
<1>6. \A d \in Tracked \ {n, Modified} : c[d] = b[d]
  BY <1>1, <1>3 DEF Made, Contents
<1>7. Made(second, x[1], c)
  <2>1. CASE Modified \in Tracked
    BY <1>1, <1>5, <2>1 DEF Made
  <2>2. CASE Modified \notin Tracked
    <3>1. \A d \in Tracked : x[1][d] = c[d]
      BY <1>5, <2>2
    <3>2. x[1] = c
      BY <3>1, <1>4 DEF Contents
    <3> QED
      BY <1>1, <2>2, <3>2 DEF Made
  <2> QED
    BY <2>1, <2>2
<1>8. Modified \in Tracked => b[Modified] = second.row
  BY <1>1, <1>3 DEF Made
<1>9. Made(first, b, x[1])
  <2>1. CASE n \in Tracked
    BY <1>1, <1>3, <1>5, <1>6, <1>8, <2>1 DEF Made
  <2>2. CASE n \notin Tracked
    <3>1. \A d \in Tracked : x[1][d] = b[d]
      BY <1>5, <1>6, <1>8, <2>2
    <3>2. x[1] = b
      BY <3>1, <1>3, <1>4 DEF Contents
    <3> QED
      BY <1>1, <2>2, <3>2 DEF Made
  <2> QED
    BY <2>1, <2>2
<1>10. Trail(x, step.changes)
  <2>1. \A i \in 1 .. 2 : Made(step.changes[i], x[i - 1], x[i])
    BY <1>4, <1>7, <1>9
  <2> QED
    BY <1>1, <1>4, <2>1 DEF Trail
<1> QED
  BY <1>1, <1>4, <1>10 DEF Records
-----------------------------------------------------------------------------
(* Changes put end to end.                                                 *)
LEMMA Together ==
  ASSUME NEW s \in Seq(Write), NEW t \in Seq(Write)
  PROVE  /\ s \o t \in Seq(Write) /\ Len(s \o t) = Len(s) + Len(t)
         /\ Len(s) \in Nat /\ Len(t) \in Nat
         /\ \A i \in 1 .. Len(s) : (s \o t)[i] = s[i]
         /\ \A i \in 1 .. Len(t) : (s \o t)[Len(s) + i] = t[i]
         /\ s = <<>> => s \o t = t
         /\ t = <<>> => s \o t = s
  OBVIOUS

LEMMA FirstOfBoth ==
  ASSUME NEW s \in Seq(Write), NEW t \in Seq(Write), NEW row, FirstStamp(s, row)
  PROVE  FirstStamp(s \o t, row)
<1>1. /\ Len(s \o t) = Len(s) + Len(t) /\ Len(s) \in Nat /\ Len(t) \in Nat
      /\ \A i \in 1 .. Len(s) : (s \o t)[i] = s[i]
  BY Together
<1>2. PICK k \in 1 .. Len(s) : /\ IsStamp(s[k]) /\ s[k].row = row
                               /\ \A j \in 1 .. k - 1 : ~ IsStamp(s[j])
  BY DEF FirstStamp
<1> DEFINE all == s \o t
<1>3. k \in 1 .. Len(all) /\ all[k] = s[k] /\ \A j \in 1 .. k - 1 : all[j] = s[j]
  BY <1>1
<1> HIDE DEF all
<1> QED
  BY <1>2, <1>3 DEF FirstStamp, all

LEMMA TogetherIn ==
  ASSUME NEW X, NEW s \in Seq(X), NEW t \in Seq(X)
  PROVE  /\ s \o t \in Seq(X)
         /\ s = <<>> => s \o t = t
  OBVIOUS

LEMMA Flattened ==
  ASSUME NEW X, NEW n \in Nat \ {0}, NEW seqs \in [1 .. n -> Seq(X)]
  PROVE  \E f \in [0 .. n -> Seq(X)] :
           /\ f[0] = <<>>
           /\ \A i \in 1 .. n : f[i] = f[i - 1] \o seqs[i]
           /\ FlattenSeq(seqs) = f[n]
<1> DEFINE Rec(a) == [i \in 1 .. n |-> IF i = 1 THEN seqs[i] ELSE a[i - 1] \o seqs[i]]
           flatten == CHOOSE a : a = [i \in 1 .. Len(seqs) |-> IF i = 1 THEN seqs[i] ELSE a[i - 1] \o seqs[i]]
           g == [i \in 1 .. n |-> [s \in Seq(X) |-> s \o seqs[i]]]
           b == <<>>
<1>1. Len(seqs) = n /\ n # 0 /\ n \in Nat /\ b \in Seq(X)
  OBVIOUS
<1>2. g \in [1 .. n -> [Seq(X) -> Seq(X)]]
  <2>1. \A i \in 1 .. n, s \in Seq(X) : s \o seqs[i] \in Seq(X)
    BY TogetherIn
  <2> QED
    BY <2>1
<1>3. PICK f \in [0 .. n -> Seq(X)] : Iterates(f, n, b, g)
  <2> HIDE DEF g, b
  <2> QED
    BY <1>1, <1>2, IteratesExist
<1>4. f[0] = <<>> /\ \A i \in 1 .. n : f[i] = f[i - 1] \o seqs[i]
  <2>1. \A i \in 1 .. n : f[i - 1] \in Seq(X)
    OBVIOUS
  <2>2. \A i \in 1 .. n : g[i][f[i - 1]] = f[i - 1] \o seqs[i]
    BY <2>1
  <2> HIDE DEF g
  <2> QED
    BY <1>3, <2>2 DEF Iterates
<1>5. \E a : a = Rec(a)
  <2> DEFINE h == [i \in 1 .. n |-> f[i]]
  <2>1. \A i \in 1 .. n : h[i] = IF i = 1 THEN seqs[i] ELSE h[i - 1] \o seqs[i]
    <3> SUFFICES ASSUME NEW i \in 1 .. n
                 PROVE  f[i] = IF i = 1 THEN seqs[i] ELSE h[i - 1] \o seqs[i]
      OBVIOUS
    <3>1. CASE i = 1
      <4>1. f[1] = f[0] \o seqs[1]
        <5>1. f[1] = f[1 - 1] \o seqs[1]
          BY <1>4, <3>1
        <5> QED
          BY <5>1
      <4>2. seqs[1] \in Seq(X)
        BY <3>1
      <4> QED
        BY <1>1, <1>4, <3>1, <4>1, <4>2, TogetherIn
    <3>2. CASE i # 1
      <4>1. h[i - 1] = f[i - 1]
        BY <3>2
      <4> QED
        BY <1>4, <3>2, <4>1
    <3> QED
      BY <3>1, <3>2
  <2>2. h = Rec(h)
    BY <2>1
  <2> HIDE DEF h, Rec
  <2> QED
    BY <2>2
<1>6. flatten = Rec(flatten)
  <2>1. flatten = CHOOSE a : a = Rec(a)
    BY <1>1
  <2> HIDE DEF Rec, flatten
  <2> QED
    BY <1>5, <2>1
<1>7. FlattenSeq(seqs) = flatten[n]
  BY <1>1 DEF FlattenSeq
<1>8. PICK a : a = Rec(a) /\ FlattenSeq(seqs) = a[n]
  <2> HIDE DEF flatten, Rec
  <2> QED
    BY <1>6, <1>7
<1> HIDE DEF flatten
<1>9. \A i \in 1 .. n : a[i] = IF i = 1 THEN seqs[i] ELSE a[i - 1] \o seqs[i]
  BY <1>8
<1> HIDE DEF Rec
<1> DEFINE S == {i \in 0 .. n : i # 0 => a[i] = f[i]}
<1>10. 0 \in S
  BY <1>1
<1>11. ASSUME NEW i \in 0 .. n, i # n, i \in S
       PROVE  i + 1 \in S
  <2>1. i + 1 \in 1 .. n /\ i + 1 - 1 = i /\ i + 1 \in 0 .. n /\ (i + 1 = 1 <=> i = 0)
    BY <1>1, <1>11
  <2> DEFINE next == seqs[i + 1]
  <2>2. a[i + 1] = IF i = 0 THEN next ELSE a[i] \o next
    <3>1. a[i + 1] = IF i + 1 = 1 THEN next ELSE a[i + 1 - 1] \o next
      BY <1>9, <2>1
    <3> HIDE DEF next
    <3> QED
      BY <2>1, <3>1
  <2>3. f[i + 1] = f[i] \o next
    <3>1. f[i + 1] = f[i + 1 - 1] \o next
      <4> DEFINE joined(u, v) == u \o v
      <4>1. \A j \in 1 .. n : f[j] = joined(f[j - 1], seqs[j])
        BY <1>4
      <4>2. i + 1 \in 1 .. n
        BY <2>1
      <4>3. f[i + 1] = joined(f[i + 1 - 1], next)
        <5> HIDE DEF joined
        <5> QED
          BY <4>1, <4>2
      <4> QED
        BY <4>3
    <3> HIDE DEF next
    <3> QED
      BY <2>1, <3>1
  <2>4. next \in Seq(X)
    BY <2>1
  <2> HIDE DEF next
  <2>5. CASE i = 0
    <3>1. f[i] = <<>> /\ f[i] \in Seq(X)
      BY <1>4, <2>5
    <3>2. f[i] \o next = next
      BY <2>4, <3>1, TogetherIn
    <3> QED
      BY <2>1, <2>2, <2>3, <2>5, <3>2
  <2>6. CASE i # 0
    <3>1. a[i] = f[i]
      BY <1>11, <2>6
    <3> QED
      BY <2>1, <2>2, <2>3, <2>6, <3>1
  <2> QED
    BY <2>5, <2>6
<1>12. n \in S
  <2> HIDE DEF S
  <2>1. 0 .. n \subseteq S
    BY <1>1, <1>10, <1>11, Steps
  <2> QED
    BY <1>1, <2>1
<1> QED
  BY <1>1, <1>4, <1>8, <1>12
-----------------------------------------------------------------------------
(* Some row that no SkipUndo operation writes waits for the next sync.     *)
IsDirty(rows) == \E c \in Rows \ SkipCells : rows[c].pending

(* Going back over the step to such rows also goes back to a modification  *)
(* time later than the last sync.                                          *)
Saved(changes, b, last) ==
  changes # <<>> => \E row : FirstStamp(changes, row) /\ (IsDirty(b) => row.val > last)

EndsStamped(changes) == changes # <<>> => IsStamp(changes[Len(changes)])

(* Steps, newest first, that lead back from rows over the contents p.      *)
History(rows, steps, p, last) ==
  /\ p \in [0 .. Len(steps) -> Contents]
  /\ p[0] = TrackedOf(rows)
  /\ \A i \in 1 .. Len(steps) : /\ Records(steps[i].changes, p[i], p[i - 1])
                                /\ Saved(steps[i].changes, p[i], last)

(* The changes of the latest steps, put together, lead back as far.        *)
LEMMA MergedChanges ==
  ASSUME NEW rows, NEW steps, NEW p, NEW last, Len(steps) \in Nat, History(rows, steps, p, last),
         \A j \in 1 .. Len(steps) : steps[j].changes \in Seq(Write) /\ EndsStamped(steps[j].changes),
         NEW i \in 1 .. Len(steps)
  PROVE  LET merged == FlattenSeq([k \in 1 .. i |-> steps[i + 1 - k].changes])
         IN  /\ merged \in Seq(Write)
             /\ Records(merged, p[i], p[0])
             /\ Saved(merged, p[i], last)
             /\ EndsStamped(merged)
             /\ merged = <<>> => steps[i].changes = <<>>
<1> DEFINE seqs == [k \in 1 .. i |-> steps[i + 1 - k].changes]
           l == Len(steps)
<1>0. i \in 1 .. l /\ l \in Nat
  OBVIOUS
<1>6. p \in [0 .. l -> Contents]
  BY DEF History
<1> HIDE DEF l
<1>1. i \in Nat \ {0} /\ l \in Nat /\ i \in 0 .. l /\ \A k \in 1 .. i : i + 1 - k \in 1 .. l
  BY <1>0
<1>2. seqs \in [1 .. i -> Seq(Write)]
  BY <1>1 DEF l
<1>3. PICK f \in [0 .. i -> Seq(Write)] : /\ f[0] = <<>>
                                          /\ \A k \in 1 .. i : f[k] = f[k - 1] \o seqs[k]
                                          /\ FlattenSeq(seqs) = f[i]
  <2> HIDE DEF seqs
  <2> QED
    BY <1>1, <1>2, Flattened
<1> DEFINE joined(u, v) == u \o v
<1>4. \A k \in 1 .. i : f[k] = joined(f[k - 1], seqs[k])
  BY <1>3
<1> HIDE DEF joined
<1>5. \A k \in 1 .. i : seqs[k] = steps[i + 1 - k].changes
  OBVIOUS
<1> HIDE DEF seqs
<1> DEFINE Ok(k) == /\ Records(f[k], p[i], p[i - k])
                    /\ Saved(f[k], p[i], last)
                    /\ EndsStamped(f[k])
                    /\ f[k] = <<>> => (k # 0 => steps[i].changes = <<>>) /\ p[i - k] = p[i]
           S == {k \in 0 .. i : Ok(k)}
<1>7. 0 \in S
  <2>1. p[i] \in Contents /\ i - 0 = i
    BY <1>1, <1>6
  <2>2. Records(<<>>, p[i], p[i])
    BY <2>1, NothingRecorded
  <2> QED
    BY <1>1, <1>3, <2>1, <2>2 DEF Saved, EndsStamped
<1>8. ASSUME NEW k \in 0 .. i, k # i, k \in S
      PROVE  k + 1 \in S
  <2>1. /\ k + 1 \in 1 .. i /\ k + 1 - 1 = k /\ k + 1 \in 0 .. i /\ i - (k + 1) = i - k - 1
        /\ i + 1 - (k + 1) = i - k /\ i - k \in 1 .. l /\ (k = 0 => i - k = i)
    BY <1>0, <1>8
  <2> DEFINE next == steps[i - k].changes
             so_far == f[k]
             m == p[i - k]
             a == p[i - k - 1]
  <2>2. f[k + 1] = joined(so_far, next)
    <3>1. f[k + 1] = joined(f[k + 1 - 1], seqs[k + 1])
      BY <1>4, <2>1
    <3>2. seqs[k + 1] = steps[i + 1 - (k + 1)].changes
      BY <1>5, <2>1
    <3> QED
      BY <2>1, <3>1, <3>2
  <2>3. next \in Seq(Write) /\ so_far \in Seq(Write) /\ EndsStamped(next)
    BY <2>1 DEF l
  <2>4. Records(next, m, a) /\ Saved(next, m, last) /\ m \in Contents
    <3>1. m \in Contents
      BY <1>0, <1>6, <2>1
    <3>2. Records(next, m, a) /\ Saved(next, m, last)
      BY <2>1 DEF History, l
    <3> QED
      BY <3>1, <3>2
  <2>5. /\ Records(so_far, p[i], m) /\ Saved(so_far, p[i], last) /\ EndsStamped(so_far)
        /\ so_far = <<>> => (k # 0 => steps[i].changes = <<>>) /\ m = p[i]
    BY <1>8
  <2>6. next = <<>> => a = m
    <3> HIDE DEF next, m, a
    <3> QED
      BY <2>4, NothingRecorded
  <2>7. k = 0 => next = steps[i].changes
    BY <2>1
  <2> HIDE DEF next, so_far, m, a
  <2>8. /\ Records(so_far \o next, p[i], a)
        /\ Saved(so_far \o next, p[i], last)
        /\ EndsStamped(so_far \o next)
        /\ so_far \o next = <<>> => steps[i].changes = <<>> /\ a = p[i]
    <3>1. Records(so_far \o next, p[i], a)
      BY <2>3, <2>4, <2>5, RecordsTogether
    <3>2. CASE so_far = <<>>
      <4>1. so_far \o next = next
        BY <2>3, <3>2, Together
      <4>2. so_far \o next = <<>> => steps[i].changes = <<>> /\ a = p[i]
        BY <2>5, <2>6, <2>7, <3>2, <4>1
      <4> QED
        BY <2>3, <2>4, <2>5, <3>1, <3>2, <4>1, <4>2
    <3>3. CASE so_far # <<>> /\ next = <<>>
      <4>1. so_far \o next = so_far
        BY <2>3, <3>3, Together
      <4> QED
        BY <2>5, <3>1, <3>3, <4>1
    <3>4. CASE so_far # <<>> /\ next # <<>>
      <4>1. /\ Len(so_far \o next) = Len(so_far) + Len(next) /\ Len(so_far) \in Nat
            /\ Len(next) \in Nat \ {0}
            /\ \A j \in 1 .. Len(next) : (so_far \o next)[Len(so_far) + j] = next[j]
        <5>1. Len(next) # 0
          BY <2>3, <3>4
        <5> QED
          BY <2>3, <5>1, Together
      <4>2. (so_far \o next)[Len(so_far \o next)] = next[Len(next)]
        BY <4>1
      <4>3. EndsStamped(so_far \o next)
        BY <2>3, <3>4, <4>2 DEF EndsStamped
      <4>4. Saved(so_far \o next, p[i], last)
        <5>1. PICK row : FirstStamp(so_far, row) /\ (IsDirty(p[i]) => row.val > last)
          BY <2>5, <3>4 DEF Saved
        <5>2. FirstStamp(so_far \o next, row)
          BY <2>3, <5>1, FirstOfBoth
        <5> QED
          BY <5>1, <5>2 DEF Saved
      <4>5. so_far \o next # <<>>
        BY <4>1
      <4> QED
        BY <3>1, <4>3, <4>4, <4>5
    <3> QED
      BY <3>2, <3>3, <3>4
  <2>9. f[k + 1] = so_far \o next
    BY <2>2 DEF joined
  <2> QED
    BY <2>1, <2>8, <2>9 DEF a
<1>9. i \in S
  <2> HIDE DEF S
  <2>1. 0 .. i \subseteq S
    BY <1>1, <1>7, <1>8, Steps
  <2> QED
    BY <1>1, <2>1
<1>10. f[i] \in Seq(Write) /\ i - i = 0 /\ i # 0
  BY <1>1
<1>11. Ok(i)
  BY <1>9
<1> QED
  BY <1>3, <1>10, <1>11 DEF seqs
-----------------------------------------------------------------------------
(* What becomes of the contents a list of steps leads back to.             *)
LEMMA NoHistory ==
  ASSUME NEW rows \in [Cells -> Row], NEW last
  PROVE  History(rows, <<>>, [i \in 0 .. 0 |-> TrackedOf(rows)], last)
<1>1. TrackedOf(rows) \in Contents /\ Len(<<>>) = 0
  BY TrackedTyped
<1> QED
  BY <1>1 DEF History

LEMMA Pushed ==
  ASSUME NEW rows, NEW steps, IsSeq(steps), NEW p, NEW last, History(rows, steps, p, last),
         NEW now \in [Cells -> Row], NEW step,
         Records(step.changes, p[0], TrackedOf(now)), Saved(step.changes, p[0], last),
         NEW new, Len(new) \in 1 .. Len(steps) + 1, new[1] = step,
         \A i \in 2 .. Len(new) : new[i] = steps[i - 1]
  PROVE  History(now, new, [i \in 0 .. Len(new) |-> IF i = 0 THEN TrackedOf(now) ELSE p[i - 1]], last)
<1> DEFINE l == Len(steps)
           n == Len(new)
           q == [i \in 0 .. n |-> IF i = 0 THEN TrackedOf(now) ELSE p[i - 1]]
<1>1. l \in Nat /\ n \in 1 .. l + 1 /\ TrackedOf(now) \in Contents
  BY TrackedTyped DEF IsSeq
<1>2. /\ p \in [0 .. l -> Contents]
      /\ \A i \in 1 .. l : Records(steps[i].changes, p[i], p[i - 1]) /\ Saved(steps[i].changes, p[i], last)
  BY DEF History
<1>3. new[1] = step /\ \A i \in 2 .. n : new[i] = steps[i - 1]
  OBVIOUS
<1> HIDE DEF l, n
<1>4. q \in [0 .. n -> Contents]
  BY <1>1, <1>2
<1>5. q[0] = TrackedOf(now) /\ \A i \in 1 .. n : q[i] = p[i - 1]
  BY <1>1
<1> HIDE DEF q
<1>6. ASSUME NEW i \in 1 .. n
      PROVE  Records(new[i].changes, q[i], q[i - 1]) /\ Saved(new[i].changes, q[i], last)
  <2>1. CASE i = 1
    <3>1. q[i] = p[0] /\ q[i - 1] = TrackedOf(now) /\ new[i] = step
      BY <1>3, <1>5, <2>1
    <3> QED
      BY <3>1
  <2>2. CASE i # 1
    <3> DEFINE j == i - 1
    <3>1. j \in 1 .. l /\ i \in 2 .. n /\ i - 1 \in 1 .. n /\ i = j + 1
      BY <1>1, <2>2
    <3>2. q[i] = p[j] /\ q[i - 1] = p[j - 1] /\ new[i] = steps[j]
      BY <1>3, <1>5, <3>1
    <3> HIDE DEF j
    <3>3. Records(steps[j].changes, p[j], p[j - 1]) /\ Saved(steps[j].changes, p[j], last)
      BY <1>2, <3>1
    <3> QED
      BY <3>2, <3>3
  <2> QED
    BY <2>1, <2>2
<1> QED
  BY <1>4, <1>5, <1>6 DEF History, q, n

LEMMA Popped ==
  ASSUME NEW rows, NEW steps, IsSeq(steps), steps # <<>>, NEW p, NEW last, History(rows, steps, p, last),
         NEW now, TrackedOf(now) = p[1]
  PROVE  History(now, Tail(steps), [i \in 0 .. Len(steps) - 1 |-> p[i + 1]], last)
<1> DEFINE l == Len(steps)
           rest == Tail(steps)
           q == [i \in 0 .. l - 1 |-> p[i + 1]]
<1>1. l \in Nat \ {0} /\ Len(rest) = l - 1 /\ \A i \in 1 .. l - 1 : rest[i] = steps[i + 1]
  BY Rest
<1>2. /\ p \in [0 .. l -> Contents]
      /\ \A i \in 1 .. l : Records(steps[i].changes, p[i], p[i - 1]) /\ Saved(steps[i].changes, p[i], last)
  BY DEF History
<1> HIDE DEF l, rest
<1>3. q \in [0 .. l - 1 -> Contents] /\ q[0] = p[1]
  BY <1>1, <1>2
<1>4. ASSUME NEW i \in 1 .. l - 1
      PROVE  Records(rest[i].changes, q[i], q[i - 1]) /\ Saved(rest[i].changes, q[i], last)
  <2> DEFINE j == i + 1
  <2>1. j \in 1 .. l /\ i - 1 \in 0 .. l - 1 /\ q[i] = p[j] /\ q[i - 1] = p[j - 1] /\ rest[i] = steps[j]
    BY <1>1
  <2> HIDE DEF j, q
  <2>2. Records(steps[j].changes, p[j], p[j - 1]) /\ Saved(steps[j].changes, p[j], last)
    BY <1>2, <2>1
  <2> QED
    BY <2>1, <2>2
<1> HIDE DEF q
<1> QED
  BY <1>1, <1>3, <1>4 DEF History, q, l, rest

(* The first i steps of a list made one, and the contents left between.    *)
InOne(steps, i, x) == <<x>> \o SubSeq(steps, i + 1, Len(steps))
IsOver(p, q, steps, new) ==
  \E i \in 1 .. Len(steps) : /\ Len(new) = Len(steps) - i + 1
                             /\ q = [j \in 0 .. Len(new) |-> IF j = 0 THEN p[0] ELSE p[i + j - 1]]

LEMMA Joined ==
  ASSUME NEW rows, NEW steps, IsSeq(steps), NEW p, NEW last, History(rows, steps, p, last),
         NEW i \in 1 .. Len(steps), NEW changes, NEW x, x.changes = changes,
         Records(changes, p[i], p[0]), Saved(changes, p[i], last),
         NEW new, new = InOne(steps, i, x)
  PROVE  \E q : History(rows, new, q, last) /\ IsOver(p, q, steps, new)
<1> DEFINE l == Len(steps)
           n == Len(new)
           rest == SubSeq(steps, i + 1, l)
           q == [j \in 0 .. n |-> IF j = 0 THEN p[0] ELSE p[i + j - 1]]
<1>1. l \in Nat /\ i \in 1 .. l
  BY DEF IsSeq
<1>2. /\ p \in [0 .. l -> Contents] /\ p[0] = TrackedOf(rows)
      /\ \A k \in 1 .. l : Records(steps[k].changes, p[k], p[k - 1]) /\ Saved(steps[k].changes, p[k], last)
  BY DEF History
<1>3. IsSeq(rest) /\ Len(rest) = l - i /\ \A k \in 1 .. l - i : rest[k] = steps[i + k]
  <2>1. i + 1 \in 1 .. l + 1 /\ l \in 0 .. l /\ i + 1 <= l + 1
    BY <1>1
  <2>2. /\ IsSeq(rest) /\ Len(rest) = l - (i + 1) + 1
        /\ \A k \in 1 .. l - (i + 1) + 1 : rest[k] = steps[i + 1 + k - 1]
    BY <2>1, Part
  <2> HIDE DEF rest, l
  <2> QED
    BY <1>1, <2>2
<1> HIDE DEF rest, l
<1>0. new = <<x>> \o rest
  BY DEF InOne, rest, l
<1>4. Len(new) = Len(rest) + 1 /\ new[1] = x /\ \A k \in 2 .. Len(rest) + 1 : new[k] = rest[k - 1]
  BY <1>0, <1>3, InFront
<1>11. n = l - i + 1 /\ n \in Nat
  BY <1>1, <1>3, <1>4
<1> HIDE DEF n
<1>5. \A j \in 2 .. n : new[j] = steps[i + j - 1]
  BY <1>1, <1>3, <1>4, <1>11
<1>6. q \in [0 .. n -> Contents] /\ q[0] = TrackedOf(rows)
  BY <1>1, <1>2, <1>11
<1>7. \A j \in 1 .. n : q[j] = p[i + j - 1]
  BY <1>1
<1> HIDE DEF q
<1>8. ASSUME NEW j \in 1 .. n
      PROVE  Records(new[j].changes, q[j], q[j - 1]) /\ Saved(new[j].changes, q[j], last)
  <2>1. CASE j = 1
    <3>1. q[j] = p[i] /\ q[j - 1] = p[0] /\ new[j] = x
      BY <1>1, <1>2, <1>4, <1>6, <1>7, <2>1
    <3> QED
      BY <3>1
  <2>2. CASE j # 1
    <3> DEFINE k == i + j - 1
    <3>1. k \in 1 .. l /\ j \in 2 .. n /\ j - 1 \in 1 .. n /\ i + (j - 1) - 1 = k - 1
      BY <1>1, <1>11, <2>2
    <3>2. q[j] = p[k] /\ new[j] = steps[k]
      BY <1>5, <1>7, <3>1
    <3>3. q[j - 1] = p[i + (j - 1) - 1]
      BY <1>7, <3>1
    <3>4. Records(steps[k].changes, p[k], p[k - 1]) /\ Saved(steps[k].changes, p[k], last)
      BY <1>2, <3>1
    <3> HIDE DEF k
    <3> QED
      BY <3>1, <3>2, <3>3, <3>4
  <2> QED
    BY <2>1, <2>2
<1>9. History(rows, new, q, last)
  BY <1>6, <1>8 DEF History, n
<1>10. IsOver(p, q, steps, new)
  BY <1>1, <1>11 DEF IsOver, q, l, n
<1> QED
  BY <1>9, <1>10

LEMMA Again ==
  ASSUME NEW rows, NEW steps \in Seq(UndoableOp), NEW p, NEW last, History(rows, steps, p, last),
         steps # <<>>, NEW n \in Notes, IsNoteEdit(steps[1], n), NEW now \in [Cells -> Row],
         \A d \in Tracked \ {n, Modified} : now[d] = rows[d]
  PROVE  History(now, steps, [p EXCEPT ![0] = TrackedOf(now)], last)
<1> DEFINE l == Len(steps)
           q == [p EXCEPT ![0] = TrackedOf(now)]
<1>1. l \in Nat \ {0} /\ steps[1].changes \in Seq(Write)
  <2>1. l \in Nat \ {0} /\ steps[1] \in UndoableOp
    OBVIOUS
  <2> QED
    BY <2>1 DEF UndoableOp
<1>2. /\ p \in [0 .. l -> Contents] /\ p[0] = TrackedOf(rows)
      /\ \A k \in 1 .. l : Records(steps[k].changes, p[k], p[k - 1]) /\ Saved(steps[k].changes, p[k], last)
  BY DEF History
<1> HIDE DEF l
<1>3. TrackedOf(now) \in Contents /\ \A d \in Tracked : TrackedOf(now)[d] = now[d] /\ p[0][d] = rows[d]
  BY <1>2, TrackedTyped DEF TrackedOf
<1>4. q \in [0 .. l -> Contents] /\ q[0] = TrackedOf(now) /\ \A k \in 1 .. l : q[k] = p[k]
  BY <1>1, <1>2, <1>3
<1> HIDE DEF q
<1>5. Records(steps[1].changes, p[1], p[0])
  <2>1. 1 \in 1 .. l /\ 1 - 1 = 0
    BY <1>1
  <2> QED
    BY <1>2, <2>1
<1>6. Records(steps[1].changes, p[1], TrackedOf(now))
  <2> DEFINE step == steps[1]
             c == TrackedOf(now)
             b == p[1]
             a == p[0]
  <2>1. /\ step.changes \in Seq(Write) /\ Records(step.changes, b, a)
        /\ c \in Contents /\ \A d \in Tracked \ {n, Modified} : c[d] = a[d]
    BY <1>1, <1>3, <1>5
  <2>2. IsNoteEdit(step, n)
    OBVIOUS
  <2> HIDE DEF step, c, a, b
  <2>3. Records(step.changes, b, c)
    BY <2>1, <2>2, EditedAgain
  <2> QED
    BY <2>3 DEF step, c, b
<1>7. ASSUME NEW k \in 1 .. l
      PROVE  Records(steps[k].changes, q[k], q[k - 1]) /\ Saved(steps[k].changes, q[k], last)
  <2>1. CASE k = 1
    <3>1. q[k] = p[1] /\ q[k - 1] = TrackedOf(now)
      BY <1>4, <2>1
    <3>2. Saved(steps[k].changes, p[k], last)
      BY <1>2
    <3> QED
      BY <1>6, <2>1, <3>1, <3>2
  <2>2. CASE k # 1
    <3>1. q[k] = p[k] /\ q[k - 1] = p[k - 1]
      BY <1>1, <1>4, <2>2
    <3> QED
      BY <1>2, <3>1
  <2> QED
    BY <2>1, <2>2
<1> QED
  BY <1>4, <1>7 DEF History, q, l

(* The steps determine the contents.                                       *)
Unfolds(after, rows, n, steps) ==
  /\ after[0] = rows
  /\ \A i \in 1 .. n : after[i] = Rewind(after[i - 1], steps[i]).db

LEMMA HistoryIsWhatUndosShow ==
  ASSUME NEW rows \in [Cells -> Row], NEW steps, Len(steps) \in Nat,
         \A i \in 1 .. Len(steps) : steps[i].changes \in Seq(Write),
         NEW p, NEW last, History(rows, steps, p, last), NEW after, Unfolds(after, rows, Len(steps), steps)
  PROVE  \A i \in 0 .. Len(steps) : after[i] \in [Cells -> Row] /\ TrackedOf(after[i]) = p[i]
<1> DEFINE n == Len(steps)
           S == {i \in 0 .. n : after[i] \in [Cells -> Row] /\ TrackedOf(after[i]) = p[i]}
<1>1. n \in Nat /\ \A i \in 1 .. n : steps[i].changes \in Seq(Write)
  OBVIOUS
<1>2. p[0] = TrackedOf(rows) /\ \A k \in 1 .. n : Records(steps[k].changes, p[k], p[k - 1])
  BY DEF History
<1>3. after[0] = rows /\ \A i \in 1 .. n : after[i] = Rewind(after[i - 1], steps[i]).db
  BY DEF Unfolds, n
<1> HIDE DEF n
<1>4. 0 \in S
  BY <1>1, <1>2, <1>3
<1>5. ASSUME NEW i \in 0 .. n, i # n, i \in S
      PROVE  i + 1 \in S
  <2>1. i + 1 \in 1 .. n /\ i + 1 - 1 = i /\ i + 1 \in 0 .. n
    BY <1>1, <1>5
  <2> DEFINE step == steps[i + 1]
  <2>2. step.changes \in Seq(Write) /\ Records(step.changes, p[i + 1], p[i + 1 - 1])
    BY <1>1, <1>2, <2>1
  <2>3. after[i + 1] = Rewind(after[i + 1 - 1], step).db
    BY <1>3, <2>1
  <2>4. after[i] \in [Cells -> Row] /\ TrackedOf(after[i]) = p[i]
    BY <1>5
  <2> HIDE DEF step
  <2>5. TrackedOf(Rewind(after[i], step).db) = p[i + 1]
    BY <2>1, <2>2, <2>4, RewindReturns
  <2>6. Rewind(after[i], step).db \in [Cells -> Row]
    BY <2>2, <2>4, RewindFacts DEF State
  <2> QED
    BY <2>1, <2>3, <2>5, <2>6
<1> HIDE DEF S
<1>6. 0 .. n \subseteq S
  BY <1>1, <1>4, <1>5, Steps
<1> QED
  BY <1>6 DEF S, n
LEMMA UnfoldingExists ==
  ASSUME NEW rows \in [Cells -> Row], NEW n \in Nat, NEW steps,
         \A i \in 1 .. n : steps[i].changes \in Seq(Write)
  PROVE  \E f : Unfolds(f, rows, n, steps)
<1> DEFINE X == [Cells -> Row]
           g == [i \in 1 .. n |-> [from \in X |-> Rewind(from, steps[i]).db]]
<1>1. g \in [1 .. n -> [X -> X]]
  <2>1. \A i \in 1 .. n, from \in X : Rewind(from, steps[i]).db \in X
    BY RewindFacts DEF State
  <2> QED
    BY <2>1
<1>2. PICK f \in [0 .. n -> X] : Iterates(f, n, rows, g)
  <2> HIDE DEF g
  <2> QED
    BY <1>1, IteratesExist
<1>3. \A i \in 1 .. n : f[i] = Rewind(f[i - 1], steps[i]).db
  <2> SUFFICES ASSUME NEW i \in 1 .. n
               PROVE  f[i] = Rewind(f[i - 1], steps[i]).db
    OBVIOUS
  <2>1. f[i - 1] \in X
    OBVIOUS
  <2>2. g[i][f[i - 1]] = Rewind(f[i - 1], steps[i]).db
    BY <2>1
  <2> HIDE DEF g
  <2> QED
    BY <1>2, <2>2 DEF Iterates
<1>4. f[0] = rows
  BY <1>2 DEF Iterates
<1> QED
  BY <1>3, <1>4 DEF Unfolds

(* What the two lists hold.                                                *)
BeginsStamped(changes) == changes # <<>> => IsStamp(changes[1])
Kept == {step \in UndoableOp : step.changes = <<>> => step.kind = "Custom"}
UndoSteps == {step \in Kept : EndsStamped(step.changes)}
RedoSteps == {step \in Kept : BeginsStamped(step.changes)}

Typed ==
  /\ db \in [Cells -> Row]
  /\ undo_steps \in Seq(UndoSteps)
  /\ redo_steps \in Seq(RedoSteps)

LEMMA UndosUnfold == Typed => Unfolds(AfterUndos, db, Len(undo_steps), undo_steps)
<1> SUFFICES ASSUME Typed
             PROVE  Unfolds(AfterUndos, db, Len(undo_steps), undo_steps)
  OBVIOUS
<1> DEFINE n == Len(undo_steps)
           Rec(f) == [i \in 0 .. n |-> IF i = 0 THEN db ELSE Rewind(f[i - 1], undo_steps[i]).db]
<1>1. n \in Nat /\ \A i \in 1 .. n : undo_steps[i].changes \in Seq(Write)
  BY DEF Typed, UndoSteps, Kept, UndoableOp
<1>2. \E f : f = Rec(f)
  <2> DEFINE rows == db
             steps == undo_steps
  <2>1. rows \in [Cells -> Row] /\ n \in Nat /\ \A i \in 1 .. n : steps[i].changes \in Seq(Write)
    BY <1>1 DEF Typed
  <2> HIDE DEF n, rows, steps
  <2>2. PICK h : Unfolds(h, rows, n, steps)
    BY <2>1, UnfoldingExists
  <2> DEFINE f == [i \in 0 .. n |-> h[i]]
  <2>3. \A i \in 0 .. n : f[i] = IF i = 0 THEN db ELSE Rewind(f[i - 1], undo_steps[i]).db
    BY <2>1, <2>2 DEF rows, steps, Unfolds
  <2>4. f = Rec(f)
    BY <2>3
  <2> QED
    BY <2>4
<1>3. AfterUndos = CHOOSE f : f = Rec(f)
  BY DEF AfterUndos
<1>4. AfterUndos = Rec(AfterUndos)
  <2> HIDE DEF Rec
  <2> QED
    BY <1>2, <1>3
<1>5. PICK a : a = AfterUndos
  OBVIOUS
<1>6. a = Rec(a)
  BY <1>4, <1>5
<1> HIDE DEF n
<1>7. a[0] = db /\ \A i \in 1 .. n : a[i] = Rewind(a[i - 1], undo_steps[i]).db
  BY <1>1, <1>6
<1> QED
  BY <1>5, <1>7 DEF Unfolds, n

LEMMA RedosUnfold == Typed => Unfolds(AfterRedos, db, Len(redo_steps), Reverse(redo_steps))
<1> SUFFICES ASSUME Typed
             PROVE  Unfolds(AfterRedos, db, Len(redo_steps), Reverse(redo_steps))
  OBVIOUS
<1> DEFINE n == Len(redo_steps)
           steps == Reverse(redo_steps)
           Rec(f) == [i \in 0 .. n |-> IF i = 0 THEN db
                                       ELSE Rewind(f[i - 1], redo_steps[n + 1 - i]).db]
<1>1. n \in Nat /\ \A i \in 1 .. n : redo_steps[i].changes \in Seq(Write)
  BY DEF Typed, RedoSteps, Kept, UndoableOp
<1>2. Len(steps) = n /\ \A i \in 1 .. n : steps[i] = redo_steps[n + 1 - i]
  BY <1>1 DEF Reverse
<1>3. \A i \in 1 .. n : steps[i].changes \in Seq(Write)
  BY <1>1, <1>2
<1>4. \E f : f = Rec(f)
  <2> DEFINE rows == db
  <2>0. rows \in [Cells -> Row]
    BY DEF Typed
  <2> HIDE DEF n, steps, rows
  <2>1. PICK h : Unfolds(h, rows, n, steps)
    BY <1>1, <1>3, <2>0, UnfoldingExists
  <2> DEFINE f == [i \in 0 .. n |-> h[i]]
  <2>2. \A i \in 0 .. n : f[i] = IF i = 0 THEN db ELSE Rewind(f[i - 1], redo_steps[n + 1 - i]).db
    BY <1>1, <1>2, <2>1 DEF rows, Unfolds
  <2>3. f = Rec(f)
    BY <2>2
  <2> QED
    BY <2>3
<1>5. AfterRedos = CHOOSE f : f = Rec(f)
  BY DEF AfterRedos
<1>6. AfterRedos = Rec(AfterRedos)
  <2> HIDE DEF Rec
  <2> QED
    BY <1>4, <1>5
<1>7. PICK a : a = AfterRedos
  OBVIOUS
<1>8. a = Rec(a)
  BY <1>6, <1>7
<1> HIDE DEF n, steps
<1>9. a[0] = db /\ \A i \in 1 .. n : a[i] = Rewind(a[i - 1], steps[i]).db
  BY <1>1, <1>2, <1>8
<1> QED
  BY <1>7, <1>9 DEF Unfolds, steps, n
-----------------------------------------------------------------------------
(* What an operation of its own records, up to the modification time.      *)
LEMMA SomeFirst ==
  ASSUME NEW changes \in Seq(Write), NEW k \in 1 .. Len(changes), IsStamp(changes[k]), NEW row,
         \A j \in 1 .. Len(changes) : IsStamp(changes[j]) => changes[j].row = row
  PROVE  FirstStamp(changes, row)
<1> DEFINE n == Len(changes)
           S == {m \in 0 .. n : (\E i \in 1 .. m : IsStamp(changes[i])) => FirstStamp(changes, row)}
<1>1. n \in Nat /\ k \in 1 .. n
  OBVIOUS
<1>2. 0 \in S
  BY <1>1
<1>3. ASSUME NEW m \in 0 .. n, m # n, m \in S
      PROVE  m + 1 \in S
  <2>1. m + 1 \in 1 .. n /\ m + 1 - 1 = m /\ m + 1 \in 0 .. n
    BY <1>1, <1>3
  <2>2. CASE \E i \in 1 .. m : IsStamp(changes[i])
    BY <1>3, <2>1, <2>2
  <2>3. CASE ~ IsStamp(changes[m + 1])
    <3>1. (\E i \in 1 .. m + 1 : IsStamp(changes[i])) => \E i \in 1 .. m : IsStamp(changes[i])
      BY <2>1, <2>3
    <3> QED
      BY <1>3, <2>1, <3>1
  <2>4. CASE IsStamp(changes[m + 1]) /\ ~ \E i \in 1 .. m : IsStamp(changes[i])
    <3>1. \A j \in 1 .. m + 1 - 1 : ~ IsStamp(changes[j])
      BY <2>1, <2>4
    <3>2. FirstStamp(changes, row)
      BY <2>1, <2>4, <3>1 DEF FirstStamp
    <3> QED
      BY <2>1, <3>2
  <2> QED
    BY <2>2, <2>3, <2>4
<1>4. n \in S
  <2> HIDE DEF S
  <2>1. 0 .. n \subseteq S
    BY <1>1, <1>2, <1>3, Steps
  <2> QED
    BY <1>1, <2>1
<1> QED
  BY <1>1, <1>4

LEMMA RunStampedFacts ==
  ASSUME db \in [Cells -> Row], clock \in Nat,
         NEW writes \in Seq({w \in Write : w.cell # Modified})
  PROVE  LET done == RunStamped(writes)
         IN  /\ done \in State
             /\ Records(done.changes, TrackedOf(db), TrackedOf(done.db))
             /\ done.changes # <<>> => /\ FirstStamp(done.changes, db[Modified])
                                       /\ IsStamp(done.changes[Len(done.changes)])
                                       /\ done.db[Modified].val = clock
             /\ done.changes = <<>> => done.db[Modified] = db[Modified]
<1> DEFINE Good == {w \in Write : IsStamp(w) => w.row = db[Modified]}
           run == Run(db, writes)
<1>1. /\ writes \in Seq(Write) /\ writes \in Seq(Good)
  <2>1. {w \in Write : w.cell # Modified} \subseteq Write /\ {w \in Write : w.cell # Modified} \subseteq Good
    BY DEF IsStamp
  <2>2. Len(writes) \in Nat /\ writes \in [1 .. Len(writes) -> {w \in Write : w.cell # Modified}]
    OBVIOUS
  <2> HIDE DEF Good
  <2>3. writes \in [1 .. Len(writes) -> Write] /\ writes \in [1 .. Len(writes) -> Good]
    BY <2>1, <2>2
  <2> QED
    BY <2>2, <2>3
<1>2. Good \in SUBSET Write /\ Modified \in Cells
  BY DEF Cells
<1>3. \A c \in Cells : [cell |-> c, row |-> db[c]] \in Good
  BY DEF Write, IsStamp
<1>4. /\ \A c \in Cells : [cell |-> c, row |-> run.db[c]] \in Good
      /\ run.changes \in Seq(Good)
  <2> HIDE DEF Good
  <2> QED
    BY <1>1, <1>2, <1>3, RunGood
<1>5. run \in State /\ Records(run.changes, TrackedOf(db), TrackedOf(run.db))
  BY <1>1, RunTyped, RunRecords
<1>6. run.db[Modified] = db[Modified]
  BY <1>2, <1>4 DEF IsStamp
<1>7. Stamp \in Write /\ Stamp.cell = Modified /\ Stamp.row.val = clock
  BY <1>2 DEF Stamp, Write, Row
<1> DEFINE v == [cell |-> Modified, row |-> run.db[Modified]]
           done == Put(run, Stamp)
<1>8. v \in Good /\ v \in Write /\ IsStamp(v)
  BY <1>2, <1>4 DEF IsStamp
<1> HIDE DEF run, Good
<1>9. /\ done \in State /\ done.db[Modified] = Stamp.row
      /\ done.changes = Append(run.changes, v)
  <2>1. done.changes = Append(run.changes, v) /\ done.db[Modified] = Stamp.row
    BY <1>5, <1>7, StampPut
  <2>2. done \in State
    BY <1>5, <1>7, PutTyped
  <2> QED
    BY <2>1, <2>2
<1>10. /\ Len(done.changes) = Len(run.changes) + 1 /\ Len(run.changes) \in Nat
       /\ done.changes[Len(run.changes) + 1] = v
       /\ \A j \in 1 .. Len(run.changes) : done.changes[j] = run.changes[j]
  <2> HIDE DEF v, done
  <2>1. run.changes \in Seq(Good)
    BY <1>4
  <2>2. /\ Len(Append(run.changes, v)) = Len(run.changes) + 1 /\ Len(run.changes) \in Nat
        /\ Append(run.changes, v)[Len(run.changes) + 1] = v
        /\ \A j \in 1 .. Len(run.changes) : Append(run.changes, v)[j] = run.changes[j]
    BY <1>8, <2>1, AppendFacts
  <2> QED
    BY <1>9, <2>2
<1>11. Records(done.changes, TrackedOf(db), TrackedOf(done.db))
  <2> HIDE DEF v
  <2>1. done # run
    BY <1>10
  <2>2. PICK u \in Write : /\ done.changes = Append(run.changes, u)
                           /\ Made(u, TrackedOf(run.db), TrackedOf(done.db))
    BY <1>5, <1>7, <2>1, PutMade
  <2>3. /\ run.changes \in Seq(Write)
        /\ TrackedOf(run.db) \in Contents /\ TrackedOf(done.db) \in Contents
    BY <1>5, <1>9, TrackedTyped DEF State
  <2> HIDE DEF done
  <2> QED
    BY <1>5, <2>2, <2>3, OneMore
<1>12. FirstStamp(done.changes, db[Modified])
  <2> DEFINE k == Len(run.changes) + 1
  <2>1. done.changes \in Seq(Write) /\ k \in 1 .. Len(done.changes) /\ IsStamp(done.changes[k])
    <3>1. done.changes \in Seq(Write)
      BY <1>9 DEF State
    <3> HIDE DEF done, v
    <3> QED
      BY <1>8, <1>10, <3>1
  <2>2. ASSUME NEW j \in 1 .. Len(done.changes), IsStamp(done.changes[j])
        PROVE  done.changes[j].row = db[Modified]
    <3>1. CASE j = k
      BY <1>6, <1>10, <3>1
    <3>2. CASE j # k
      <4>1. j \in 1 .. Len(run.changes)
        BY <1>10, <3>2
      <4>2. run.changes[j] \in Good /\ done.changes[j] = run.changes[j]
        BY <1>4, <1>10, <4>1
      <4> QED
        BY <2>2, <4>2 DEF Good
    <3> QED
      BY <3>1, <3>2
  <2> HIDE DEF done, k
  <2> QED
    BY <2>1, <2>2, SomeFirst
<1>13. RunStamped(writes) = IF run.changes = <<>> THEN run ELSE done
  BY DEF RunStamped, run
<1>14. done.changes # <<>>
  BY <1>10
<1> HIDE DEF done
<1> QED
  BY <1>5, <1>6, <1>7, <1>8, <1>9, <1>10, <1>11, <1>12, <1>13, <1>14
-----------------------------------------------------------------------------
(* A step is put on the list, or it has nothing to keep, or it joins the   *)
(* step before it.                                                         *)
IsPushed(p, now, q, m, n) ==
  /\ n = IF m < UNDO_LIMIT THEN m + 1 ELSE UNDO_LIMIT
  /\ q = [i \in 0 .. n |-> IF i = 0 THEN now ELSE p[i - 1]]

IsJoined(p, now, q, m, n) ==
  /\ n = m /\ m # 0
  /\ q = [p EXCEPT ![0] = now]
  /\ \E note \in Notes : \A d \in Tracked \ {note, Modified} : now[d] = p[0][d] /\ p[1][d] = p[0][d]

LEMMA NoteEdited ==
  ASSUME NEW changes \in Seq(Write), NEW step, step.changes = changes, NEW n \in Notes,
         IsNoteEdit(step, n), NEW b, NEW a, Records(changes, b, a)
  PROVE  \A d \in Tracked \ {n, Modified} : a[d] = b[d]
<1>1. \A i \in 1 .. Len(changes) : changes[i].cell \in {n, Modified}
  <2>1. Len(changes) = 2 /\ changes[1].cell = n /\ changes[2].cell = Modified
    BY DEF IsNoteEdit
  <2> QED
    BY <2>1
<1> DEFINE C == {n, Modified}
<1> HIDE DEF C
<1>2. \A i \in 1 .. Len(changes) : changes[i].cell \in C
  BY <1>1 DEF C
<1>3. \A d \in Tracked \ C : a[d] = b[d]
  BY <1>2, Confined
<1> QED
  BY <1>3 DEF C

(* What has become of the contents when a step ends.                       *)
Ended(p, now, q, us, new, step) ==
  \/ IsPushed(p, now, q, Len(us), Len(new))
  \/ IsJoined(p, now, q, Len(us), Len(new))
  \/ ~ HasChanges(step) /\ new = us /\ q = p /\ now = p[0]

LEMMA StepEnds ==
  ASSUME NEW us \in Seq(UndoSteps), NEW rows, NEW p, NEW last, History(rows, us, p, last),
         NEW now \in [Cells -> Row], NEW step \in UndoableOp, EndsStamped(step.changes),
         Records(step.changes, p[0], TrackedOf(now)), Saved(step.changes, p[0], last)
  PROVE  LET new == EndStep(us, step)
         IN  /\ new \in Seq(UndoSteps)
             /\ \E q : History(now, new, q, last) /\ Ended(p, TrackedOf(now), q, us, new, step)
<1> DEFINE new == EndStep(us, step)
           m == Len(us)
           here == TrackedOf(now)
<1>1. IsSeq(us) /\ m \in Nat /\ \A i \in 1 .. m : us[i] \in UndoSteps
  BY AnySeq
<1>2. here \in Contents /\ step.changes \in Seq(Write) /\ p \in [0 .. m -> Contents] /\ p[0] \in Contents
  <2>1. here \in Contents /\ step.changes \in Seq(Write) /\ p \in [0 .. m -> Contents]
    BY TrackedTyped DEF History, UndoableOp
  <2> QED
    BY <1>1, <2>1
<1>3. CASE ~ HasChanges(step)
  <2>1. new = us /\ step.changes = <<>>
    BY <1>3 DEF EndStep, IsKept, HasChanges
  <2>2. here = p[0]
    BY <1>2, <2>1, NothingRecorded
  <2>3. History(now, us, p, last)
    BY <2>2 DEF History
  <2>4. Ended(p, here, p, us, us, step)
    BY <1>3, <2>2 DEF Ended
  <2> HIDE DEF new, here
  <2> QED
    <3>1. new \in Seq(UndoSteps) /\ \E w : History(now, new, w, last) /\ Ended(p, here, w, us, new, step)
      BY <2>1, <2>3, <2>4
    <3> QED
      BY <3>1 DEF new, here
<1>4. CASE HasChanges(step) /\ Coalesces(step, us)
  <2>1. new = us
    BY <1>4 DEF EndStep, IsKept
  <2>2. PICK n \in Notes : IsNoteEdit(us[1], n) /\ IsNoteEdit(step, n)
    BY <1>4 DEF Coalesces
  <2>3. us # <<>> /\ m # 0 /\ 1 \in 1 .. m
    BY <1>1, <1>4 DEF Coalesces
  <2>4. \A d \in Tracked \ {n, Modified} : here[d] = p[0][d]
    BY <1>2, <2>2, NoteEdited
  <2>5. \A d \in Tracked \ {n, Modified} : p[1][d] = p[0][d]
    <3>1. us[1].changes \in Seq(Write)
      BY <1>1, <2>3 DEF UndoSteps, Kept, UndoableOp
    <3>2. Records(us[1].changes, p[1], p[0])
      <4>1. 1 - 1 = 0 /\ 1 \in 1 .. Len(us)
        BY <2>3
      <4>2. Records(us[1].changes, p[1], p[1 - 1])
        BY <4>1 DEF History
      <4> QED
        BY <4>1, <4>2
    <3> QED
      BY <2>2, <3>1, <3>2, NoteEdited
  <2> DEFINE q == [p EXCEPT ![0] = here]
  <2>6. History(now, us, q, last)
    <3>1. us \in Seq(UndoableOp)
      <4>1. UndoSteps \subseteq UndoableOp /\ us \in [1 .. m -> UndoSteps]
        BY <1>1 DEF UndoSteps, Kept
      <4>2. us \in [1 .. m -> UndoableOp]
        BY <4>1
      <4> QED
        BY <1>1, <4>2
    <3>2. \A d \in Tracked \ {n, Modified} : now[d] = rows[d]
      <4>1. p[0] = TrackedOf(rows)
        BY DEF History
      <4> QED
        BY <2>4, <4>1 DEF TrackedOf
    <3> QED
      BY <2>2, <2>3, <3>1, <3>2, Again
  <2>7. Ended(p, here, q, us, us, step)
    <3>1. IsJoined(p, here, q, m, m)
      BY <2>3, <2>4, <2>5 DEF IsJoined
    <3> QED
      BY <3>1 DEF Ended
  <2> HIDE DEF new, q, here
  <2> QED
    <3>1. new \in Seq(UndoSteps) /\ \E w : History(now, new, w, last) /\ Ended(p, here, w, us, new, step)
      BY <2>1, <2>6, <2>7
    <3> QED
      BY <3>1 DEF new, here
<1>5. CASE IsKept(step, us)
  <2>1. new = PushUndo(us, step)
    BY <1>5 DEF EndStep
  <2>2. step \in UndoSteps
    BY <1>5 DEF UndoSteps, Kept, IsKept, HasChanges
  <2>3. /\ IsSeq(new) /\ Len(new) \in 1 .. UNDO_LIMIT /\ Len(new) <= m + 1 /\ new[1] = step
        /\ \A i \in 2 .. Len(new) : new[i] = us[i - 1]
    BY <1>1, <2>1, PushUndoFacts
  <2>4. Len(new) = IF m < UNDO_LIMIT THEN m + 1 ELSE UNDO_LIMIT
    <3> DEFINE n == IF m < UNDO_LIMIT THEN m ELSE UNDO_LIMIT - 1
               rest == SubSeq(us, 1, n)
    <3>1. n \in 0 .. m /\ 1 \in 1 .. m + 1 /\ 1 <= n + 1 /\ n - 1 + 1 = n
      BY <1>1, LimitAssumption
    <3>2. new = <<step>> \o rest
      BY <2>1 DEF PushUndo
    <3> HIDE DEF n
    <3>3. IsSeq(rest) /\ Len(rest) = n - 1 + 1
      BY <1>1, <3>1, Part
    <3> HIDE DEF rest, new, m
    <3>4. Len(new) = Len(rest) + 1
      BY <3>2, <3>3, InFront
    <3>5. UNDO_LIMIT \in Nat \ {0}
      BY LimitAssumption
    <3> QED
      BY <1>1, <3>1, <3>3, <3>4, <3>5 DEF n
  <2> DEFINE n == Len(new)
             q == [i \in 0 .. n |-> IF i = 0 THEN here ELSE p[i - 1]]
  <2>5. n \in 1 .. m + 1
    <3>1. UNDO_LIMIT \in Nat
      BY LimitAssumption
    <3> QED
      BY <1>1, <2>3, <3>1
  <2>6. History(now, new, q, last)
    <3> HIDE DEF new
    <3> QED
      BY <1>1, <2>3, <2>5, Pushed
  <2>7. new \in Seq(UndoSteps)
    <3>1. \A i \in 1 .. n : new[i] \in UndoSteps
      <4> SUFFICES ASSUME NEW i \in 1 .. n
                   PROVE  new[i] \in UndoSteps
        OBVIOUS
      <4>1. CASE i = 1
        BY <2>2, <2>3, <4>1
      <4>2. CASE i # 1
        <5>1. i \in 2 .. n /\ i - 1 \in 1 .. m
          BY <1>1, <2>5, <4>2
        <5> QED
          BY <1>1, <2>3, <5>1
      <4> QED
        BY <4>1, <4>2
    <3>2. new \in [1 .. n -> Range(new)] /\ n \in Nat
      BY <2>3 DEF IsSeq
    <3>3. new \in [1 .. n -> UndoSteps]
      BY <3>1, <3>2
    <3> QED
      BY <3>2, <3>3
  <2>8. Ended(p, here, q, us, new, step)
    <3>1. IsPushed(p, here, q, m, n)
      BY <2>4 DEF IsPushed
    <3> QED
      BY <3>1 DEF Ended
  <2> HIDE DEF new, q, here
  <2> QED
    <3>1. new \in Seq(UndoSteps) /\ \E w : History(now, new, w, last) /\ Ended(p, here, w, us, new, step)
      BY <2>6, <2>7, <2>8
    <3> QED
      BY <3>1 DEF new, here
<1> QED
  BY <1>3, <1>4, <1>5 DEF IsKept
-----------------------------------------------------------------------------
(* The two lists of contents that UndoSnapshots speaks of.                 *)
Past(p, m) == [i \in 1 .. m |-> p[i]]
Future(q, n) == [i \in 1 .. n |-> q[n + 1 - i]]

PastShown == [i \in 1 .. Len(undo_steps) |-> TrackedOf(AfterUndos[i])]
FutureShown == [i \in 1 .. Len(redo_steps) |-> TrackedOf(AfterRedos[Len(redo_steps) + 1 - i])]

PastIsSeen == \A p, last : History(db, undo_steps, p, last) => PastShown = Past(p, Len(undo_steps))
FutureIsSeen ==
  \A q, last : History(db, Reverse(redo_steps), q, last) => FutureShown = Future(q, Len(redo_steps))

LEMMA SeenPast == Typed => PastIsSeen
<1> SUFFICES ASSUME Typed, NEW p, NEW last, History(db, undo_steps, p, last)
             PROVE  PastShown = Past(p, Len(undo_steps))
  BY DEF PastIsSeen
<1> DEFINE n == Len(undo_steps)
<1>1. n \in Nat /\ \A i \in 1 .. n : undo_steps[i].changes \in Seq(Write)
  BY DEF Typed, UndoSteps, Kept, UndoableOp
<1>2. PICK rows, steps, a : rows = db /\ steps = undo_steps /\ a = AfterUndos
  OBVIOUS
<1>3. rows \in [Cells -> Row] /\ Unfolds(a, rows, Len(steps), steps) /\ History(rows, steps, p, last)
  BY <1>2, UndosUnfold DEF Typed
<1>4. \A i \in 0 .. Len(steps) : TrackedOf(a[i]) = p[i]
  BY <1>1, <1>2, <1>3, HistoryIsWhatUndosShow
<1>5. \A i \in 1 .. n : TrackedOf(a[i]) = p[i]
  BY <1>1, <1>2, <1>4
<1> QED
  BY <1>2, <1>5 DEF PastShown, Past

LEMMA SeenFuture == Typed => FutureIsSeen
<1> SUFFICES ASSUME Typed, NEW q, NEW last, History(db, Reverse(redo_steps), q, last)
             PROVE  FutureShown = Future(q, Len(redo_steps))
  BY DEF FutureIsSeen
<1> DEFINE n == Len(redo_steps)
<1>1. n \in Nat /\ \A i \in 1 .. n : redo_steps[i].changes \in Seq(Write)
  BY DEF Typed, RedoSteps, Kept, UndoableOp
<1>2. PICK rows, steps, a : rows = db /\ steps = Reverse(redo_steps) /\ a = AfterRedos
  OBVIOUS
<1>3. Len(steps) = n /\ \A i \in 1 .. n : steps[i] = redo_steps[n - i + 1]
  BY <1>1, <1>2 DEF Reverse
<1>4. \A i \in 1 .. n : steps[i].changes \in Seq(Write)
  BY <1>1, <1>3
<1>5. rows \in [Cells -> Row] /\ Unfolds(a, rows, n, steps) /\ History(rows, steps, q, last)
  BY <1>2, RedosUnfold DEF Typed
<1> HIDE DEF n
<1>6. \A i \in 0 .. n : TrackedOf(a[i]) = q[i]
  <2>1. /\ Len(steps) \in Nat /\ Unfolds(a, rows, Len(steps), steps)
        /\ \A i \in 1 .. Len(steps) : steps[i].changes \in Seq(Write)
    BY <1>1, <1>3, <1>4, <1>5
  <2>2. \A i \in 0 .. Len(steps) : TrackedOf(a[i]) = q[i]
    BY <1>5, <2>1, HistoryIsWhatUndosShow
  <2> QED
    BY <1>3, <2>2
<1>7. \A i \in 1 .. n : TrackedOf(a[n + 1 - i]) = q[n + 1 - i]
  BY <1>1, <1>6
<1> QED
  BY <1>2, <1>7 DEF FutureShown, Future, n

LEMMA SeenNext == Typed' => PastIsSeen' /\ FutureIsSeen'
  BY SeenPast, SeenFuture, PTL

LEMMA PastFacts ==
  ASSUME NEW m \in Nat, NEW p \in [0 .. m -> Contents]
  PROVE  /\ Past(p, m) \in Seq(Contents) /\ Len(Past(p, m)) = m
         /\ \A i \in 1 .. m : Past(p, m)[i] = p[i]
  BY DEF Past

LEMMA FutureFacts ==
  ASSUME NEW n \in Nat, NEW q \in [0 .. n -> Contents]
  PROVE  /\ Future(q, n) \in Seq(Contents) /\ Len(Future(q, n)) = n
         /\ \A i \in 1 .. n : Future(q, n)[i] = q[n + 1 - i]
<1>1. \A i \in 1 .. n : q[n + 1 - i] \in Contents
  OBVIOUS
<1> QED
  BY <1>1 DEF Future

LEMMA SameSeq ==
  ASSUME NEW S, NEW s \in Seq(S), NEW t \in Seq(S), Len(s) = Len(t), \A i \in 1 .. Len(s) : s[i] = t[i]
  PROVE  s = t
  OBVIOUS

IsPushedOn(old, content, new) ==
  new = <<content>> \o SubSeq(old, 1, IF Len(old) < UNDO_LIMIT THEN Len(old) ELSE UNDO_LIMIT - 1)

LEMMA PastPushed ==
  ASSUME NEW m \in Nat, NEW n \in Nat, NEW p \in [0 .. m -> Contents], NEW now \in Contents, NEW q,
         IsPushed(p, now, q, m, n)
  PROVE  IsPushedOn(Past(p, m), p[0], Past(q, n))
<1> DEFINE k == IF m < UNDO_LIMIT THEN m ELSE UNDO_LIMIT - 1
           rest == SubSeq(Past(p, m), 1, k)
           right == <<p[0]>> \o rest
<1>1. k \in 0 .. m /\ n = k + 1
  BY LimitAssumption DEF IsPushed
<1>2. /\ Past(p, m) \in Seq(Contents) /\ Len(Past(p, m)) = m /\ \A i \in 1 .. m : Past(p, m)[i] = p[i]
      /\ p[0] \in Contents
  BY PastFacts
<1>3. q = [i \in 0 .. n |-> IF i = 0 THEN now ELSE p[i - 1]]
  BY DEF IsPushed
<1> HIDE DEF k
<1>4. rest \in Seq(Contents) /\ Len(rest) = k /\ \A i \in 1 .. k : rest[i] = p[i]
  BY <1>1, <1>2
<1> HIDE DEF rest
<1>5. right \in Seq(Contents) /\ Len(right) = k + 1 /\ right[1] = p[0] /\ \A i \in 2 .. k + 1 : right[i] = rest[i - 1]
  BY <1>1, <1>2, <1>4
<1>6. q \in [0 .. n -> Contents] /\ \A i \in 1 .. n : q[i] = p[i - 1]
  BY <1>1, <1>3
<1> HIDE DEF right
<1>7. \A i \in 1 .. n : right[i] = p[i - 1]
  BY <1>1, <1>4, <1>5
<1>8. Past(q, n) \in Seq(Contents) /\ Len(Past(q, n)) = n /\ \A i \in 1 .. n : Past(q, n)[i] = q[i]
  BY <1>6, PastFacts
<1>9. \A i \in 1 .. Len(Past(q, n)) : Past(q, n)[i] = right[i]
  BY <1>6, <1>7, <1>8
<1>10. Past(q, n) = right
  BY <1>1, <1>5, <1>8, <1>9, SameSeq
<1> QED
  BY <1>2, <1>10 DEF right, rest, k, IsPushedOn

LEMMA PastPopped ==
  ASSUME NEW m \in Nat \ {0}, NEW p \in [0 .. m -> Contents]
  PROVE  /\ Past([i \in 0 .. m - 1 |-> p[i + 1]], m - 1) = Tail(Past(p, m))
         /\ Head(Past(p, m)) = p[1] /\ Past(p, m) # <<>>
<1> DEFINE q == [i \in 0 .. m - 1 |-> p[i + 1]]
           s == Past(p, m)
<1>1. s \in Seq(Contents) /\ Len(s) = m /\ \A i \in 1 .. m : s[i] = p[i]
  BY PastFacts
<1>2. q \in [0 .. m - 1 -> Contents] /\ m - 1 \in Nat /\ \A i \in 1 .. m - 1 : q[i] = p[i + 1]
  OBVIOUS
<1> HIDE DEF q, s
<1>3. Past(q, m - 1) \in Seq(Contents) /\ Len(Past(q, m - 1)) = m - 1 /\ \A i \in 1 .. m - 1 : Past(q, m - 1)[i] = q[i]
  BY <1>2, PastFacts
<1>4. /\ Tail(s) \in Seq(Contents) /\ Len(Tail(s)) = m - 1 /\ \A i \in 1 .. m - 1 : Tail(s)[i] = s[i + 1]
      /\ Head(s) = s[1] /\ s # <<>>
  BY <1>1
<1>5. \A i \in 1 .. Len(Past(q, m - 1)) : Past(q, m - 1)[i] = Tail(s)[i]
  BY <1>1, <1>2, <1>3, <1>4
<1>6. Past(q, m - 1) = Tail(s)
  BY <1>3, <1>4, <1>5, SameSeq
<1>7. Head(s) = p[1]
  BY <1>1, <1>4
<1> QED
  BY <1>4, <1>6, <1>7 DEF q, s

LEMMA PastJoined ==
  ASSUME NEW m \in Nat, NEW p \in [0 .. m -> Contents], NEW i \in 1 .. m
  PROVE  Past([j \in 0 .. m - i + 1 |-> IF j = 0 THEN p[0] ELSE p[i + j - 1]], m - i + 1)
           = SubSeq(Past(p, m), i, m)
<1> DEFINE n == m - i + 1
           q == [j \in 0 .. n |-> IF j = 0 THEN p[0] ELSE p[i + j - 1]]
           s == Past(p, m)
           t == SubSeq(s, i, m)
<1>1. s \in Seq(Contents) /\ Len(s) = m /\ \A j \in 1 .. m : s[j] = p[j]
  BY PastFacts
<1>2. n \in Nat /\ \A j \in 1 .. n : i + j - 1 \in 1 .. m
  OBVIOUS
<1>3. q \in [0 .. n -> Contents] /\ \A j \in 1 .. n : q[j] = p[i + j - 1]
  BY <1>2
<1> HIDE DEF s, q
<1>4. t \in Seq(Contents) /\ Len(t) = n /\ \A j \in 1 .. n : t[j] = s[i + j - 1]
  BY <1>1
<1> HIDE DEF n, t
<1>5. Past(q, n) \in Seq(Contents) /\ Len(Past(q, n)) = n /\ \A j \in 1 .. n : Past(q, n)[j] = q[j]
  BY <1>2, <1>3, PastFacts
<1>6. \A j \in 1 .. Len(Past(q, n)) : Past(q, n)[j] = t[j]
  <2> SUFFICES ASSUME NEW j \in 1 .. Len(Past(q, n)) PROVE Past(q, n)[j] = t[j]
    OBVIOUS
  <2>1. j \in 1 .. n
    BY <1>5
  <2>2. i + j - 1 \in 1 .. m
    BY <1>2, <2>1
  <2>3. s[i + j - 1] = p[i + j - 1]
    BY <1>1, <2>2
  <2>4. t[j] = s[i + j - 1] /\ Past(q, n)[j] = q[j] /\ q[j] = p[i + j - 1]
    BY <1>3, <1>4, <1>5, <2>1
  <2> QED
    BY <2>3, <2>4
<1>7. Past(q, n) = t
  BY <1>4, <1>5, <1>6, SameSeq
<1> QED
  BY <1>7 DEF n, q, s, t

LEMMA FuturePushed ==
  ASSUME NEW n \in Nat, NEW q \in [0 .. n -> Contents], NEW now \in Contents
  PROVE  Future([i \in 0 .. n + 1 |-> IF i = 0 THEN now ELSE q[i - 1]], n + 1) = Append(Future(q, n), q[0])
<1> DEFINE r == [i \in 0 .. n + 1 |-> IF i = 0 THEN now ELSE q[i - 1]]
           s == Future(q, n)
           t == Append(s, q[0])
<1>1. s \in Seq(Contents) /\ Len(s) = n /\ \A i \in 1 .. n : s[i] = q[n + 1 - i]
  BY FutureFacts
<1>2. r \in [0 .. n + 1 -> Contents] /\ n + 1 \in Nat /\ q[0] \in Contents /\ \A i \in 1 .. n + 1 : r[i] = q[i - 1]
  OBVIOUS
<1> HIDE DEF r, s
<1>3. t \in Seq(Contents) /\ Len(t) = n + 1 /\ t[n + 1] = q[0] /\ \A i \in 1 .. n : t[i] = s[i]
  BY <1>1, <1>2
<1> HIDE DEF t
<1>4. /\ Future(r, n + 1) \in Seq(Contents) /\ Len(Future(r, n + 1)) = n + 1
      /\ \A i \in 1 .. n + 1 : Future(r, n + 1)[i] = r[n + 1 + 1 - i]
  BY <1>2, FutureFacts
<1>5. ASSUME NEW i \in 1 .. n + 1
      PROVE  r[n + 1 + 1 - i] = t[i]
  <2>1. CASE i = n + 1
    <3>1. n + 1 + 1 - i = 1 /\ r[1] = q[0]
      BY <1>2, <2>1
    <3> QED
      BY <1>3, <2>1, <3>1
  <2>2. CASE i # n + 1
    <3>1. n + 1 + 1 - i \in 1 .. n + 1 /\ i \in 1 .. n /\ n + 1 + 1 - i - 1 = n + 1 - i
      BY <2>2
    <3>2. r[n + 1 + 1 - i] = q[n + 1 - i]
      BY <1>2, <3>1
    <3> QED
      BY <1>1, <1>3, <3>1, <3>2
  <2> QED
    BY <2>1, <2>2
<1>6. \A i \in 1 .. Len(Future(r, n + 1)) : Future(r, n + 1)[i] = t[i]
  BY <1>4, <1>5
<1>7. Future(r, n + 1) = t
  BY <1>3, <1>4, <1>6, SameSeq
<1> QED
  BY <1>7 DEF r, s, t

LEMMA FuturePopped ==
  ASSUME NEW n \in Nat \ {0}, NEW q \in [0 .. n -> Contents]
  PROVE  /\ Future([i \in 0 .. n - 1 |-> q[i + 1]], n - 1) = Front(Future(q, n))
         /\ Last(Future(q, n)) = q[1] /\ Future(q, n) # <<>>
<1> DEFINE r == [i \in 0 .. n - 1 |-> q[i + 1]]
           s == Future(q, n)
           t == SubSeq(s, 1, n - 1)
<1>1. s \in Seq(Contents) /\ Len(s) = n /\ \A i \in 1 .. n : s[i] = q[n + 1 - i]
  BY FutureFacts
<1>2. r \in [0 .. n - 1 -> Contents] /\ n - 1 \in Nat /\ \A i \in 1 .. n - 1 : r[i] = q[i + 1]
  OBVIOUS
<1> HIDE DEF r, s
<1>3. t \in Seq(Contents) /\ Len(t) = n - 1 /\ \A i \in 1 .. n - 1 : t[i] = s[i]
  BY <1>1
<1> HIDE DEF t
<1>4. /\ Future(r, n - 1) \in Seq(Contents) /\ Len(Future(r, n - 1)) = n - 1
      /\ \A i \in 1 .. n - 1 : Future(r, n - 1)[i] = r[n - 1 + 1 - i]
  BY <1>2, FutureFacts
<1>5. ASSUME NEW i \in 1 .. n - 1
      PROVE  r[n - 1 + 1 - i] = t[i]
  <2>1. n - 1 + 1 - i \in 1 .. n - 1 /\ i \in 1 .. n /\ n - 1 + 1 - i + 1 = n + 1 - i
    OBVIOUS
  <2>2. r[n - 1 + 1 - i] = q[n + 1 - i]
    BY <1>2, <2>1
  <2> QED
    BY <1>1, <1>3, <2>1, <2>2
<1>6. \A i \in 1 .. Len(Future(r, n - 1)) : Future(r, n - 1)[i] = t[i]
  BY <1>4, <1>5
<1>7. Future(r, n - 1) = t
  BY <1>3, <1>4, <1>6, SameSeq
<1>8. Front(s) = t /\ Last(s) = q[1] /\ s # <<>>
  <2>1. n \in 1 .. n /\ n + 1 - n = 1
    OBVIOUS
  <2>2. s[n] = q[n + 1 - n]
    BY <1>1, <2>1
  <2> QED
    BY <1>1, <2>1, <2>2 DEF Front, Last, t
<1> QED
  BY <1>7, <1>8 DEF r, s
-----------------------------------------------------------------------------
(* How one step changes the contents in both lists.                        *)
Popping(p, q, m, n) == m # 0 /\ n = m - 1 /\ q = [i \in 0 .. n |-> p[i + 1]]

Pushing(q, now, r, n, k) == k = n + 1 /\ r = [i \in 0 .. k |-> IF i = 0 THEN now ELSE q[i - 1]]

Joining(p, q, m, n) ==
  \E i \in 1 .. m : n = m - i + 1 /\ q = [j \in 0 .. n |-> IF j = 0 THEN p[0] ELSE p[i + j - 1]]

Links(p, q, m, n, p2, q2, m2, n2) ==
  \/ IsPushed(p, p2[0], p2, m, m2) /\ n2 = 0
  \/ IsJoined(p, p2[0], p2, m, m2) /\ n2 = 0
  \/ p2 = p /\ m2 = m /\ n2 = 0
  \/ m2 = 0 /\ n2 = 0
  \/ Popping(p, p2, m, m2) /\ Pushing(q, p[1], q2, n, n2)
  \/ /\ Popping(q, q2, n, n2)
     /\ \/ m < UNDO_LIMIT /\ IsPushed(p, q[1], p2, m, m2)
        \/ IsJoined(p, q[1], p2, m, m2)
  \/ Joining(p, p2, m, m2) /\ q2 = q /\ n2 = n
  \/ p2 = p /\ q2 = q /\ m2 = m /\ n2 = n

EditOneNote(a, b, c) ==
  \E note \in Notes : \A d \in DOMAIN a \ {Modified} : (a[d] # b[d] \/ a[d] # c[d]) => d = note

LEMMA JoinedDiffers ==
  ASSUME NEW m \in Nat, NEW p \in [0 .. m -> Contents], NEW now \in Contents, NEW q, NEW n,
         IsJoined(p, now, q, m, n)
  PROVE  /\ n = m /\ Past(q, n) = Past(p, m) /\ Past(p, m) # <<>>
         /\ EditOneNote(p[0], Past(p, m)[1], now)
<1>1. n = m /\ m # 0 /\ q = [p EXCEPT ![0] = now]
  BY DEF IsJoined
<1>2. \A i \in 1 .. m : q[i] = p[i]
  BY <1>1
<1>3. Past(q, n) = Past(p, m)
  BY <1>1, <1>2 DEF Past
<1>4. Past(p, m)[1] = p[1] /\ Past(p, m) # <<>>
  <2>1. 1 \in 1 .. m
    BY <1>1
  <2> QED
    BY <2>1, PastFacts
<1>5. PICK note \in Notes : \A d \in Tracked \ {note, Modified} : now[d] = p[0][d] /\ p[1][d] = p[0][d]
  BY DEF IsJoined
<1>6. p[0] \in Contents /\ DOMAIN p[0] = Tracked
  BY DEF Contents
<1> QED
  BY <1>1, <1>3, <1>4, <1>5, <1>6 DEF EditOneNote

LEMMA OneNote ==
  ASSUME NEW a, NEW b, NEW c, EditOneNote(a, b, c)
  PROVE  \E n \in Notes : Snapshots!Differing(a, b) \cup Snapshots!Differing(a, c) \subseteq {n}
  BY DEF EditOneNote, Snapshots!Differing

(* Each such change is a step UndoSnapshots allows.                        *)
LEMMA LinkedStep ==
  ASSUME NEW m \in Nat, NEW n \in Nat, NEW m2 \in Nat, NEW n2 \in Nat,
         NEW p \in [0 .. m -> Contents], NEW q \in [0 .. n -> Contents],
         NEW p2 \in [0 .. m2 -> Contents], NEW q2 \in [0 .. n2 -> Contents],
         p[0] = q[0], p2[0] = q2[0], Links(p, q, m, n, p2, q2, m2, n2),
         TrackedOf(db) = p[0], PastShown = Past(p, m), FutureShown = Future(q, n),
         TrackedOf(db)' = p2[0], PastShown' = Past(p2, m2), FutureShown' = Future(q2, n2)
  PROVE  Snapshots!Next \/ UNCHANGED Snapshots!vars
<1>1. /\ p[0] \in Contents /\ p2[0] \in Contents
      /\ Len(Past(p, m)) = m /\ Past(p2, 0) = <<>> /\ Future(q2, 0) = <<>>
  <2>1. Past(p2, 0) = <<>> /\ Future(q2, 0) = <<>>
    BY DEF Past, Future
  <2> QED
    BY <2>1, PastFacts
<1>2. CASE IsPushed(p, p2[0], p2, m, m2) /\ n2 = 0
  <2>1. IsPushedOn(Past(p, m), p[0], Past(p2, m2))
    BY <1>1, <1>2, PastPushed
  <2>2. Snapshots!Do
    BY <1>1, <1>2, <2>1 DEF Snapshots!Do, IsPushedOn, PastShown, FutureShown, Contents
  <2> QED
    BY <2>2 DEF Snapshots!Next
<1>3. CASE IsJoined(p, p2[0], p2, m, m2) /\ n2 = 0
  <2> DEFINE there == p2[0]
  <2>0. there \in Contents /\ IsJoined(p, there, p2, m, m2)
    BY <1>1, <1>3
  <2> HIDE DEF there
  <2>2. Past(p2, m2) = Past(p, m) /\ Past(p, m) # <<>> /\ EditOneNote(p[0], Past(p, m)[1], there)
    BY <2>0, JoinedDiffers
  <2>3. \E note \in Notes : Snapshots!Differing(p[0], Past(p, m)[1]) \cup Snapshots!Differing(p[0], there) \subseteq {note}
    BY <2>2, OneNote
  <2>1. Snapshots!EditAgain
    BY <1>1, <1>3, <2>2, <2>3 DEF Snapshots!EditAgain, PastShown, FutureShown, Contents, there
  <2> QED
    BY <2>1 DEF Snapshots!Next
<1>4. CASE p2 = p /\ m2 = m /\ n2 = 0
  <2>1. Snapshots!DoNothing
    BY <1>1, <1>4 DEF Snapshots!DoNothing, PastShown, FutureShown
  <2> QED
    BY <2>1 DEF Snapshots!Next
<1>5. CASE m2 = 0 /\ n2 = 0
  <2>1. Snapshots!Forget
    BY <1>1, <1>5 DEF Snapshots!Forget, PastShown, FutureShown, Contents
  <2> QED
    BY <2>1 DEF Snapshots!Next
<1>6. CASE Popping(p, p2, m, m2) /\ Pushing(q, p[1], q2, n, n2)
  <2>1. p[1] \in Contents /\ m # 0 /\ m2 = m - 1 /\ p2 = [i \in 0 .. m - 1 |-> p[i + 1]] /\ p2[0] = p[1]
    BY <1>6 DEF Popping
  <2>2. n2 = n + 1 /\ q2 = [i \in 0 .. n + 1 |-> IF i = 0 THEN p[1] ELSE q[i - 1]]
    BY <1>6 DEF Pushing
  <2>3. Past(p2, m2) = Tail(Past(p, m)) /\ Head(Past(p, m)) = p[1] /\ Past(p, m) # <<>>
    BY <2>1, PastPopped
  <2>4. Future(q2, n2) = Append(Future(q, n), q[0])
    BY <2>1, <2>2, FuturePushed
  <2>5. Snapshots!Undo
    BY <2>1, <2>3, <2>4 DEF Snapshots!Undo, PastShown, FutureShown
  <2> QED
    BY <2>5 DEF Snapshots!Next
<1>7. CASE /\ Popping(q, q2, n, n2)
           /\ \/ m < UNDO_LIMIT /\ IsPushed(p, q[1], p2, m, m2)
              \/ IsJoined(p, q[1], p2, m, m2)
  <2>0. n # 0 /\ n2 = n - 1 /\ q2 = [i \in 0 .. n2 |-> q[i + 1]]
    BY <1>7 DEF Popping
  <2>1. q[1] \in Contents /\ n # 0 /\ n2 = n - 1 /\ q2 = [i \in 0 .. n - 1 |-> q[i + 1]] /\ q2[0] = q[1]
    <3>1. 1 \in 0 .. n /\ 0 \in 0 .. n - 1
      BY <2>0
    <3> QED
      BY <2>0, <3>1
  <2>2. Future(q2, n2) = Front(Future(q, n)) /\ Last(Future(q, n)) = q[1] /\ Future(q, n) # <<>>
    BY <2>1, FuturePopped
  <2>3. CASE IsPushed(p, q[1], p2, m, m2) /\ m < UNDO_LIMIT
    <3>1. Past(p2, m2) = <<p[0]>> \o SubSeq(Past(p, m), 1, m)
      <4>1. IsPushedOn(Past(p, m), p[0], Past(p2, m2))
        BY <2>1, <2>3, PastPushed
      <4>2. Len(Past(p, m)) = m /\ m < UNDO_LIMIT
        BY <1>1, <2>3
      <4> QED
        BY <4>1, <4>2 DEF IsPushedOn
    <3>2. SubSeq(Past(p, m), 1, m) = Past(p, m)
      <4>1. Past(p, m) \in Seq(Contents)
        BY PastFacts
      <4> HIDE DEF Past
      <4> QED
        BY <1>1, <4>1
    <3>3. Past(p2, m2) = <<p[0]>> \o Past(p, m) /\ p2[0] = q[1]
      BY <2>1, <3>1, <3>2
    <3>4. /\ FutureShown # <<>> /\ TrackedOf(db)' = Last(FutureShown) /\ FutureShown' = Front(FutureShown)
          /\ PastShown' = <<TrackedOf(db)>> \o PastShown
      BY <2>2, <3>3
    <3>5. Snapshots!Redo
      BY <3>4 DEF Snapshots!Redo, Snapshots!Last, Snapshots!Front, Last, Front, PastShown, FutureShown
    <3> QED
      BY <3>5 DEF Snapshots!Next
  <2>4. CASE IsJoined(p, q[1], p2, m, m2)
    <3> DEFINE there == q[1]
    <3>0. there \in Contents /\ IsJoined(p, there, p2, m, m2)
      BY <2>1, <2>4
    <3> HIDE DEF there
    <3>2. Past(p2, m2) = Past(p, m) /\ Past(p, m) # <<>> /\ EditOneNote(p[0], Past(p, m)[1], there)
      BY <3>0, JoinedDiffers
    <3>3. there = Last(Future(q, n)) /\ p2[0] = there
      BY <2>1, <2>2 DEF there
    <3>4. \E note \in Notes : Snapshots!Differing(p[0], Past(p, m)[1]) \cup Snapshots!Differing(p[0], there) \subseteq {note}
      BY <3>2, OneNote
    <3>5. /\ FutureShown # <<>> /\ TrackedOf(db)' = Last(FutureShown) /\ FutureShown' = Front(FutureShown)
          /\ PastShown # <<>> /\ PastShown' = PastShown
      BY <2>2, <3>2, <3>3
    <3>6. \E note \in Notes : Snapshots!Differing(TrackedOf(db), PastShown[1])
                                 \cup Snapshots!Differing(TrackedOf(db), Last(FutureShown)) \subseteq {note}
      BY <3>3, <3>4
    <3>1. Snapshots!Redo
      BY <3>5, <3>6 DEF Snapshots!Redo, Snapshots!Last, Snapshots!Front, Last, Front, PastShown, FutureShown
    <3> QED
      BY <3>1 DEF Snapshots!Next
  <2> QED
    BY <1>7, <2>3, <2>4
<1>8. CASE Joining(p, p2, m, m2) /\ q2 = q /\ n2 = n
  <2>1. PICK i \in 1 .. m : m2 = m - i + 1 /\ p2 = [j \in 0 .. m2 |-> IF j = 0 THEN p[0] ELSE p[i + j - 1]]
    BY <1>8 DEF Joining
  <2>2. Past(p2, m2) = SubSeq(Past(p, m), i, Len(Past(p, m)))
    BY <1>1, <2>1, PastJoined
  <2>3. i \in DOMAIN PastShown /\ p2[0] = p[0]
    BY <1>8 DEF Past
  <2>4. Snapshots!Merge(i)
    BY <1>8, <2>2, <2>3 DEF Snapshots!Merge, PastShown, FutureShown
  <2> QED
    BY <2>3, <2>4 DEF Snapshots!Next, PastShown
<1>9. CASE p2 = p /\ q2 = q /\ m2 = m /\ n2 = n
  BY <1>9 DEF Snapshots!vars, PastShown, FutureShown
<1> QED
  BY <1>2, <1>3, <1>4, <1>5, <1>6, <1>7, <1>8, <1>9 DEF Links
-----------------------------------------------------------------------------
(* The redo list, read from its next step on.                              *)
LEMMA ReversedSeq ==
  ASSUME NEW S, NEW s \in Seq(S)
  PROVE  /\ Reverse(s) \in Seq(S) /\ Len(Reverse(s)) = Len(s) /\ Len(s) \in Nat /\ IsSeq(Reverse(s))
         /\ \A i \in 1 .. Len(s) : Reverse(s)[i] = s[Len(s) - i + 1]
<1>1. /\ Reverse(s) \in Seq(S) /\ Len(Reverse(s)) = Len(s) /\ Len(s) \in Nat
      /\ \A i \in 1 .. Len(s) : Reverse(s)[i] = s[Len(s) - i + 1]
  BY DEF Reverse
<1> QED
  BY <1>1, AnySeq

LEMMA ReversedAppend ==
  ASSUME NEW S, NEW s \in Seq(S), NEW x \in S
  PROVE  /\ Len(Reverse(Append(s, x))) = Len(s) + 1
         /\ Reverse(Append(s, x))[1] = x
         /\ \A i \in 2 .. Len(s) + 1 : Reverse(Append(s, x))[i] = Reverse(s)[i - 1]
<1> DEFINE t == Append(s, x)
           n == Len(s)
<1>1. t \in Seq(S) /\ Len(t) = n + 1 /\ n \in Nat /\ t[n + 1] = x /\ \A j \in 1 .. n : t[j] = s[j]
  OBVIOUS
<1> HIDE DEF t
<1>2. Len(Reverse(t)) = n + 1 /\ \A i \in 1 .. n + 1 : Reverse(t)[i] = t[n + 1 - i + 1]
  BY <1>1, ReversedSeq
<1>3. \A i \in 1 .. n : Reverse(s)[i] = s[n - i + 1]
  BY ReversedSeq
<1> HIDE DEF n
<1>4. Reverse(t)[1] = x
  <2>1. 1 \in 1 .. n + 1 /\ n + 1 - 1 + 1 = n + 1
    BY <1>1
  <2>2. Reverse(t)[1] = t[n + 1 - 1 + 1]
    BY <1>2, <2>1
  <2> QED
    BY <1>1, <2>1, <2>2
<1>5. ASSUME NEW i \in 2 .. n + 1
      PROVE  Reverse(t)[i] = Reverse(s)[i - 1]
  <2>1. /\ i \in 1 .. n + 1 /\ i - 1 \in 1 .. n /\ n + 1 - i + 1 = n - (i - 1) + 1
        /\ n - (i - 1) + 1 \in 1 .. n
    BY <1>1
  <2>2. Reverse(t)[i] = t[n + 1 - i + 1] /\ Reverse(s)[i - 1] = s[n - (i - 1) + 1]
    BY <1>2, <1>3, <2>1
  <2> QED
    BY <1>1, <2>1, <2>2
<1> QED
  BY <1>2, <1>4, <1>5 DEF t, n

LEMMA ReversedFront ==
  ASSUME NEW S, NEW s \in Seq(S), s # <<>>
  PROVE  /\ Front(s) \in Seq(S) /\ Len(Front(s)) = Len(s) - 1
         /\ Reverse(Front(s)) = Tail(Reverse(s))
         /\ Reverse(s) # <<>> /\ Reverse(s)[1] = Last(s) /\ Last(s) \in S
<1> DEFINE n == Len(s)
           r == Reverse(s)
           f == Front(s)
<1>1. n \in Nat \ {0} /\ f \in Seq(S) /\ Len(f) = n - 1 /\ \A i \in 1 .. n - 1 : f[i] = s[i]
  <2>1. n \in Nat \ {0} /\ n - 1 \in 0 .. n
    OBVIOUS
  <2>2. /\ SubSeq(s, 1, n - 1) \in Seq(S) /\ Len(SubSeq(s, 1, n - 1)) = n - 1
        /\ \A i \in 1 .. n - 1 : SubSeq(s, 1, n - 1)[i] = s[i]
    <3> DEFINE k == n - 1
    <3>1. k \in Nat /\ k <= Len(s) /\ k = n - 1
      BY <2>1
    <3> HIDE DEF k
    <3>2. /\ SubSeq(s, 1, k) \in Seq(S) /\ Len(SubSeq(s, 1, k)) = k
          /\ \A i \in 1 .. k : SubSeq(s, 1, k)[i] = s[i]
      BY <3>1
    <3> QED
      BY <3>1, <3>2
  <2> QED
    BY <2>1, <2>2 DEF Front
<1>2. r \in Seq(S) /\ Len(r) = n /\ \A i \in 1 .. n : r[i] = s[n - i + 1]
  BY ReversedSeq
<1> HIDE DEF n, r, f
<1>3. /\ Reverse(f) \in Seq(S) /\ Len(Reverse(f)) = n - 1
      /\ \A i \in 1 .. n - 1 : Reverse(f)[i] = f[n - 1 - i + 1]
  <2>1. f \in Seq(S)
    BY <1>1
  <2>2. /\ Reverse(f) \in Seq(S) /\ Len(Reverse(f)) = Len(f)
        /\ \A i \in 1 .. Len(f) : Reverse(f)[i] = f[Len(f) - i + 1]
    BY <2>1, ReversedSeq
  <2> QED
    BY <1>1, <2>2
<1>4. Tail(r) \in Seq(S) /\ Len(Tail(r)) = n - 1 /\ r # <<>> /\ \A i \in 1 .. n - 1 : Tail(r)[i] = r[i + 1]
  BY <1>1, <1>2
<1>5. ASSUME NEW i \in 1 .. n - 1
      PROVE  Reverse(f)[i] = Tail(r)[i]
  <2>1. /\ i + 1 \in 1 .. n /\ n - 1 - i + 1 = n - (i + 1) + 1 /\ n - 1 - i + 1 \in 1 .. n - 1
    BY <1>1
  <2>2. Reverse(f)[i] = s[n - 1 - i + 1]
    BY <1>1, <1>3, <2>1
  <2>3. Tail(r)[i] = s[n - (i + 1) + 1]
    BY <1>2, <1>4, <2>1
  <2> QED
    BY <2>1, <2>2, <2>3
<1>6. Reverse(f) = Tail(r)
  BY <1>3, <1>4, <1>5, SameSeq
<1>7. r[1] = Last(s) /\ Last(s) \in S
  <2>1. 1 \in 1 .. n /\ n \in 1 .. n /\ n - 1 + 1 = n
    BY <1>1
  <2>2. r[1] = s[n]
    BY <1>2, <2>1
  <2>3. s[n] \in S
    BY <2>1 DEF n
  <2> QED
    BY <2>2, <2>3 DEF Last, n
<1> QED
  BY <1>1, <1>4, <1>6, <1>7 DEF n, r, f

-----------------------------------------------------------------------------
(* The invariant: each list leads back, step by step, through contents     *)
(* that were there.                                                        *)
RInv ==
  /\ Typed
  /\ clock \in Nat /\ ls \in Nat /\ clock > ls /\ counter \in Nat
  /\ \E p : History(db, undo_steps, p, ls)
  /\ \E q : History(db, Reverse(redo_steps), q, ls)
  /\ DirtyIsStamped

(* What a step makes of the two lists of contents.                         *)
Leads ==
  \E p, q, p2, q2 :
    /\ History(db, undo_steps, p, ls) /\ History(db, Reverse(redo_steps), q, ls)
    /\ History(db', undo_steps', p2, ls') /\ History(db', Reverse(redo_steps'), q2, ls')
    /\ Links(p, q, Len(undo_steps), Len(redo_steps), p2, q2, Len(undo_steps'), Len(redo_steps'))

LEMMA LeadsToStep ==
  ASSUME Typed, Typed', Leads
  PROVE  Snapshots!Next \/ UNCHANGED Snapshots!vars
<1>1. PICK p, q, p2, q2 :
        /\ History(db, undo_steps, p, ls) /\ History(db, Reverse(redo_steps), q, ls)
        /\ History(db', undo_steps', p2, ls') /\ History(db', Reverse(redo_steps'), q2, ls')
        /\ Links(p, q, Len(undo_steps), Len(redo_steps), p2, q2, Len(undo_steps'), Len(redo_steps'))
  BY DEF Leads
<1>2. PastShown = Past(p, Len(undo_steps)) /\ FutureShown = Future(q, Len(redo_steps))
  BY <1>1, SeenPast, SeenFuture DEF PastIsSeen, FutureIsSeen
<1>3. PastIsSeen' /\ FutureIsSeen'
  BY SeenNext
<1>5. PastShown' = Past(p2, Len(undo_steps')) /\ FutureShown' = Future(q2, Len(redo_steps'))
  BY <1>1, <1>3 DEF PastIsSeen, FutureIsSeen
<1>6. /\ Len(undo_steps) \in Nat /\ Len(redo_steps) \in Nat
      /\ Len(Reverse(redo_steps)) = Len(redo_steps)
  BY ReversedSeq DEF Typed
<1>7. /\ Len(undo_steps') \in Nat /\ Len(redo_steps') \in Nat
      /\ Len(Reverse(redo_steps')) = Len(redo_steps')
  BY ReversedSeq DEF Typed
<1>8. /\ p \in [0 .. Len(undo_steps) -> Contents] /\ q \in [0 .. Len(redo_steps) -> Contents]
      /\ p2 \in [0 .. Len(undo_steps') -> Contents] /\ q2 \in [0 .. Len(redo_steps') -> Contents]
      /\ p[0] = TrackedOf(db) /\ q[0] = TrackedOf(db) /\ p2[0] = TrackedOf(db') /\ q2[0] = TrackedOf(db')
  BY <1>1, <1>6, <1>7 DEF History
<1>9. TrackedOf(db)' = TrackedOf(db')
  BY DEF TrackedOf
<1> QED
  BY <1>1, <1>2, <1>5, <1>6, <1>7, <1>8, <1>9, LinkedStep
LEMMA SameDirt ==
  ASSUME NEW rows \in [Cells -> Row]
  PROVE  IsDirty(TrackedOf(rows)) <=> IsDirty(rows)
  BY TrackedTyped DEF IsDirty, Tracked, Cells, Rows

LEMMA SameRowsSameDirt ==
  ASSUME NEW rows \in [Cells -> Row], NEW now \in [Cells -> Row], TrackedOf(rows) = TrackedOf(now)
  PROVE  IsDirty(rows) <=> IsDirty(now)
  BY SameDirt

LEMMA NoSteps == /\ <<>> \in Seq(UndoSteps) /\ <<>> \in Seq(RedoSteps) /\ Len(<<>>) = 0
                 /\ Reverse(<<>>) = <<>>
  BY DEF Reverse

(* Clearing the lists, whatever became of the collection.                  *)
LEMMA ClearingLeads ==
  ASSUME RInv, ClearQueues, db' \in [Cells -> Row], DirtyIsStamped',
         clock' \in Nat, ls' \in Nat, clock' > ls', counter' \in Nat
  PROVE  RInv' /\ Leads
<1>1. undo_steps' = <<>> /\ redo_steps' = <<>> /\ Reverse(redo_steps') = <<>> /\ Len(<<>>) = 0
  BY NoSteps DEF ClearQueues
<1> DEFINE r == [i \in 0 .. 0 |-> TrackedOf(db')]
<1>2. History(db', <<>>, r, ls')
  BY NoHistory
<1> HIDE DEF r
<1>3. RInv'
  BY <1>1, <1>2, NoSteps DEF RInv, Typed
<1>4. Leads
  <2>1. PICK p, q : History(db, undo_steps, p, ls) /\ History(db, Reverse(redo_steps), q, ls)
    BY DEF RInv
  <2>2. Links(p, q, Len(undo_steps), Len(redo_steps), r, r, Len(undo_steps'), Len(redo_steps'))
    BY <1>1 DEF Links
  <2> QED
    BY <1>1, <1>2, <2>1, <2>2 DEF Leads
<1> QED
  BY <1>3, <1>4

(* An operation, whatever it recorded.                                     *)
LEMMA EndingLeads ==
  ASSUME RInv, NEW done \in State, NEW step \in UndoableOp, step.changes = done.changes,
         EndsStamped(done.changes),
         Records(done.changes, TrackedOf(db), TrackedOf(done.db)),
         Saved(done.changes, TrackedOf(db), ls),
         IsDirty(done.db) => done.db[Modified].val > ls,
         db' = done.db, undo_steps' = EndStep(undo_steps, step), redo_steps' = <<>>,
         UNCHANGED <<ls, clock>>, counter' \in Nat
  PROVE  RInv' /\ Leads
<1>1. PICK p, q : History(db, undo_steps, p, ls) /\ History(db, Reverse(redo_steps), q, ls)
  BY DEF RInv
<1>2. p[0] = TrackedOf(db) /\ undo_steps \in Seq(UndoSteps) /\ done.db \in [Cells -> Row]
  BY <1>1 DEF History, RInv, Typed, State
<1>3. /\ undo_steps' \in Seq(UndoSteps)
      /\ \E r : History(done.db, undo_steps', r, ls) /\ Ended(p, TrackedOf(done.db), r, undo_steps, undo_steps', step)
  <2> DEFINE now == done.db
  <2> HIDE DEF now
  <2>1. now \in [Cells -> Row] /\ EndsStamped(step.changes) /\ Records(step.changes, p[0], TrackedOf(now))
        /\ Saved(step.changes, p[0], ls)
    BY <1>2 DEF now
  <2>2. LET new == EndStep(undo_steps, step)
        IN  /\ new \in Seq(UndoSteps)
            /\ \E r : History(now, new, r, ls) /\ Ended(p, TrackedOf(now), r, undo_steps, new, step)
    BY <1>1, <1>2, <2>1, StepEnds
  <2> QED
    BY <2>2 DEF now
<1>4. PICK p2 : /\ History(done.db, undo_steps', p2, ls)
                /\ Ended(p, TrackedOf(done.db), p2, undo_steps, undo_steps', step)
  BY <1>3
<1> DEFINE r == [i \in 0 .. 0 |-> TrackedOf(done.db)]
<1>5. History(db', Reverse(redo_steps'), r, ls') /\ Len(redo_steps') = 0
  BY <1>2, NoHistory, NoSteps
<1> HIDE DEF r
<1>6. p2[0] = TrackedOf(done.db)
  BY <1>4 DEF History
<1>7. Links(p, q, Len(undo_steps), Len(redo_steps), p2, r, Len(undo_steps'), Len(redo_steps'))
  BY <1>4, <1>5, <1>6 DEF Links, Ended
<1>8. Leads
  BY <1>1, <1>4, <1>5, <1>7 DEF Leads
<1>9. DirtyIsStamped'
  BY DEF DirtyIsStamped, IsDirty
<1>10. RInv'
  BY <1>2, <1>3, <1>4, <1>5, <1>9, NoSteps DEF RInv, Typed
<1> QED
  BY <1>8, <1>10

LEMMA EditedFacts ==
  ASSUME NEW c \in Rows, NEW v \in Values
  PROVE  Edited(c, v) \in {w \in Write : w.cell # Modified} /\ Edited(c, v).cell = c
  BY CellsAssumption DEF Edited, Write, Row, Cells

LEMMA OpWritesFacts ==
  ASSUME NEW cells \in SUBSET Rows, NEW writes \in OpWrites(cells)
  PROVE  writes \in Seq({w \in Write : w.cell # Modified /\ w.cell \in cells})
<1> DEFINE S == {Edited(c, v) : c \in cells, v \in Values}
           T == {w \in Write : w.cell # Modified /\ w.cell \in cells}
<1>1. MaxWrites \in Nat
  BY BoundsAssumption
<1>2. PICK m \in 0 .. MaxWrites : writes \in [1 .. m -> S]
  BY <1>1 DEF OpWrites, SeqOf
<1>3. S \subseteq T
  BY EditedFacts
<1> HIDE DEF S, T
<1>4. writes \in [1 .. m -> T] /\ m \in Nat
  BY <1>1, <1>2, <1>3
<1>5. writes \in Seq(T)
  BY <1>4
<1> QED
  BY <1>5 DEF T

LEMMA TransactLeads ==
  ASSUME RInv, NEW kind \in Kinds, NEW writes \in Seq({w \in Write : w.cell # Modified}),
         Transact(kind, writes)
  PROVE  RInv' /\ Leads
<1> DEFINE done == RunStamped(writes)
           step == NewStep(kind, done.changes)
<1>0. db \in [Cells -> Row] /\ clock \in Nat /\ counter \in Nat /\ clock > ls
  BY DEF RInv, Typed
<1>1. /\ done \in State
      /\ Records(done.changes, TrackedOf(db), TrackedOf(done.db))
      /\ done.changes # <<>> => /\ FirstStamp(done.changes, db[Modified])
                                /\ IsStamp(done.changes[Len(done.changes)])
                                /\ done.db[Modified].val = clock
      /\ done.changes = <<>> => done.db[Modified] = db[Modified]
  BY <1>0, RunStampedFacts
<1>2. /\ db' = done.db /\ undo_steps' = EndStep(undo_steps, step) /\ redo_steps' = <<>>
      /\ UNCHANGED <<ls, clock>> /\ counter' \in Nat
  BY <1>0 DEF Transact, BeginStep
<1> HIDE DEF done
<1>3. done.changes \in Seq(Write) /\ done.db \in [Cells -> Row]
  BY <1>1 DEF State
<1>4. step \in UndoableOp /\ step.changes = done.changes
  BY <1>0, <1>3 DEF NewStep, UndoableOp
<1> HIDE DEF step
<1>5. EndsStamped(done.changes)
  BY <1>1 DEF EndsStamped
<1>6. Saved(done.changes, TrackedOf(db), ls)
  BY <1>0, <1>1, SameDirt DEF Saved, RInv, DirtyIsStamped, IsDirty
<1>7. IsDirty(done.db) => done.db[Modified].val > ls
  <2>1. CASE done.changes # <<>>
    BY <1>0, <1>1, <2>1
  <2>2. CASE done.changes = <<>>
    <3>1. TrackedOf(done.db) = TrackedOf(db)
      BY <1>0, <1>1, <2>2, NothingRecorded, TrackedTyped
    <3>2. IsDirty(done.db) => IsDirty(db)
      BY <1>0, <1>3, <3>1, SameRowsSameDirt
    <3> QED
      BY <1>1, <2>2, <3>2 DEF RInv, DirtyIsStamped, IsDirty
  <2> QED
    BY <2>1, <2>2
<1> QED
  BY <1>1, <1>2, <1>4, <1>5, <1>6, <1>7, EndingLeads
LEMMA UpdateNoteLeads ==
  ASSUME RInv, NEW n \in Notes, NEW v \in Values, UpdateNote(n, v)
  PROVE  RInv' /\ Leads
<1> DEFINE W == {w \in Write : w.cell # Modified}
<1>1. "UpdateNote" \in Kinds
  BY DEF Kinds
<1>2. Edited(n, v) \in W /\ \A c \in Others : Edited(c, v) \in W
  BY EditedFacts DEF Rows
<1>3. \E writes \in Seq(W) : Transact("UpdateNote", writes)
  <2> HIDE DEF W
  <2>1. <<>> \in Seq(W) /\ <<Edited(n, v)>> \in Seq(W) /\ \A c \in Others : <<Edited(n, v), Edited(c, v)>> \in Seq(W)
    BY <1>2
  <2> QED
    BY <2>1 DEF UpdateNote
<1> QED
  BY <1>1, <1>3, TransactLeads

LEMMA OtherOpLeads ==
  ASSUME RInv, NEW writes \in OpWrites(Rows), OtherOp(writes)
  PROVE  RInv' /\ Leads
<1> DEFINE T == {w \in Write : w.cell # Modified /\ w.cell \in Rows}
           W == {w \in Write : w.cell # Modified}
<1>1. writes \in Seq(T)
  BY OpWritesFacts
<1>2. writes \in Seq(W)
  <2>1. T \subseteq W
    OBVIOUS
  <2> HIDE DEF T, W
  <2>2. Len(writes) \in Nat /\ writes \in [1 .. Len(writes) -> T]
    BY <1>1
  <2>3. writes \in [1 .. Len(writes) -> W]
    BY <2>1, <2>2
  <2> QED
    BY <2>2, <2>3
<1>3. "Other" \in Kinds /\ Transact("Other", writes)
  BY DEF Kinds, OtherOp
<1> QED
  BY <1>2, <1>3, TransactLeads

LEMMA CustomLeads ==
  ASSUME RInv, AddCustomStep
  PROVE  RInv' /\ Leads
<1> DEFINE done == [db |-> db, changes |-> <<>>]
           step == NewStep("Custom", <<>>)
<1>0. db \in [Cells -> Row] /\ clock \in Nat /\ counter \in Nat /\ <<>> \in Seq(Write)
  BY DEF RInv, Typed
<1>1. done \in State /\ done.db = db /\ done.changes = <<>>
  BY <1>0 DEF State
<1>2. step \in UndoableOp /\ step.changes = done.changes
  BY <1>0 DEF NewStep, UndoableOp, Kinds
<1>3. /\ db' = done.db /\ undo_steps' = EndStep(undo_steps, step) /\ redo_steps' = <<>>
      /\ UNCHANGED <<ls, clock>> /\ counter' \in Nat
  BY <1>0 DEF AddCustomStep, BeginStep
<1> HIDE DEF done, step
<1>4. EndsStamped(done.changes) /\ Saved(done.changes, TrackedOf(db), ls)
  BY <1>1 DEF EndsStamped, Saved
<1>5. Records(done.changes, TrackedOf(db), TrackedOf(done.db))
  BY <1>0, <1>1, TrackedTyped, NothingRecorded
<1>6. IsDirty(done.db) => done.db[Modified].val > ls
  BY <1>1 DEF RInv, DirtyIsStamped, IsDirty
<1> QED
  BY <1>1, <1>2, <1>3, <1>4, <1>5, <1>6, EndingLeads

LEMMA FailedLeads ==
  ASSUME RInv, FailedOp
  PROVE  RInv' /\ Leads
<1>1. ClearQueues /\ UNCHANGED <<db, ls, clock>> /\ counter' \in Nat
  BY DEF FailedOp, BeginStep, RInv
<1>2. DirtyIsStamped' /\ db' \in [Cells -> Row]
  BY <1>1 DEF RInv, Typed, DirtyIsStamped
<1> QED
  BY <1>1, <1>2, ClearingLeads DEF RInv

LEMMA DiscardLeads ==
  ASSUME RInv, Discard
  PROVE  RInv' /\ Leads
<1>1. ClearQueues /\ UNCHANGED <<db, ls, clock>> /\ counter' \in Nat
  BY DEF Discard, RInv
<1>2. DirtyIsStamped' /\ db' \in [Cells -> Row]
  BY <1>1 DEF RInv, Typed, DirtyIsStamped
<1> QED
  BY <1>1, <1>2, ClearingLeads DEF RInv

LEMMA SyncLeads ==
  ASSUME RInv, Sync
  PROVE  RInv' /\ Leads
<1>1. /\ ClearQueues /\ counter' \in Nat /\ ls' = clock /\ clock' = clock + 1
      /\ db' = [c \in Cells |-> [val |-> IF c = Modified THEN clock ELSE db[c].val, pending |-> FALSE]]
  BY DEF Sync, RInv
<1>2. clock \in Nat /\ db \in [Cells -> Row]
  BY DEF RInv, Typed
<1>3. \A c \in Cells : db[c].val \in Values \cup Nat
  BY <1>2 DEF Row
<1>4. db' \in [Cells -> Row]
  BY <1>1, <1>2, <1>3 DEF Row
<1>5. \A c \in Rows \ SkipCells : ~ db'[c].pending
  BY <1>1 DEF Cells
<1>6. DirtyIsStamped'
  BY <1>5 DEF DirtyIsStamped
<1> QED
  BY <1>1, <1>2, <1>4, <1>6, ClearingLeads

LEMMA NoUndoLeads ==
  ASSUME RInv, NEW writes \in OpWrites(Rows), NoUndoOp(writes)
  PROVE  RInv' /\ Leads
<1> DEFINE run == Run(db, writes)
<1>1. ClearQueues /\ UNCHANGED <<ls, clock, counter>> /\ db' = Put(run, Stamp).db
  BY DEF NoUndoOp
<1>2. db \in [Cells -> Row] /\ clock \in Nat /\ ls \in Nat /\ clock > ls /\ counter \in Nat
  BY DEF RInv, Typed
<1>3. run \in State
  <2> DEFINE T == {w \in Write : w.cell # Modified /\ w.cell \in Rows}
  <2>1. writes \in Seq(T) /\ T \subseteq Write
    BY OpWritesFacts
  <2> HIDE DEF T
  <2>2. Len(writes) \in Nat /\ writes \in [1 .. Len(writes) -> T]
    BY <2>1
  <2>3. writes \in [1 .. Len(writes) -> Write]
    BY <2>1, <2>2
  <2>4. writes \in Seq(Write)
    BY <2>2, <2>3
  <2> QED
    BY <1>2, <2>4, RunTyped
<1> HIDE DEF run
<1>4. Stamp \in Write /\ Stamp.cell = Modified /\ Stamp.row.val = clock
  BY <1>2 DEF Stamp, Write, Row, Cells
<1>5. Put(run, Stamp) \in State /\ Put(run, Stamp).db[Modified] = Stamp.row
  BY <1>3, <1>4, PutTyped, StampPut
<1>6. db' \in [Cells -> Row] /\ db'[Modified].val > ls
  BY <1>1, <1>2, <1>4, <1>5 DEF State
<1>7. DirtyIsStamped'
  BY <1>1, <1>6 DEF DirtyIsStamped
<1> QED
  BY <1>1, <1>2, <1>6, <1>7, ClearingLeads

LEMMA WaitLeads ==
  ASSUME RInv, Wait
  PROVE  RInv' /\ Leads
<1>1. UNCHANGED <<db, ls, undo_steps, redo_steps, counter>> /\ clock' = clock + 1
  BY DEF Wait
<1>2. PICK p, q : History(db, undo_steps, p, ls) /\ History(db, Reverse(redo_steps), q, ls)
  BY DEF RInv
<1>3. Links(p, q, Len(undo_steps), Len(redo_steps), p, q, Len(undo_steps'), Len(redo_steps'))
  BY <1>1 DEF Links
<1>4. Leads
  BY <1>1, <1>2, <1>3 DEF Leads
<1>5. RInv'
  BY <1>1 DEF RInv, Typed, DirtyIsStamped
<1> QED
  BY <1>4, <1>5

(* SkipUndo operations write beside what is tracked.                       *)
LEMMA SkipLeads ==
  ASSUME RInv, SkipCells # {}, NEW writes \in OpWrites(SkipCells), SkipUndoOp(writes)
  PROVE  RInv' /\ Leads
<1> DEFINE done == RunStamped(writes)
           T == {w \in Write : w.cell # Modified /\ w.cell \in SkipCells}
           Good == {w \in Write : w.cell \in Tracked => w.row = db[w.cell]}
<1>0. /\ db \in [Cells -> Row] /\ clock \in Nat /\ counter \in Nat /\ clock > ls /\ ls \in Nat
      /\ SkipCells \subseteq Rows
  BY CellsAssumption DEF RInv, Typed
<1>1. Tracked = Rows \ SkipCells /\ Modified \notin Tracked /\ Tracked \subseteq Cells
  BY CellsAssumption, TrackedCells DEF Tracked
<1>2. writes \in Seq(T)
  BY <1>0, OpWritesFacts
<1>3. writes \in Seq(Good) /\ writes \in Seq({w \in Write : w.cell # Modified})
  <2>1. T \subseteq Good /\ T \subseteq {w \in Write : w.cell # Modified}
    BY <1>1
  <2> HIDE DEF T, Good
  <2>2. Len(writes) \in Nat /\ writes \in [1 .. Len(writes) -> T]
    BY <1>2
  <2>3. writes \in [1 .. Len(writes) -> Good] /\ writes \in [1 .. Len(writes) -> {w \in Write : w.cell # Modified}]
    BY <2>1, <2>2
  <2> QED
    BY <2>2, <2>3
<1>4. \A c \in Cells : [cell |-> c, row |-> Run(db, writes).db[c]] \in Good
  <2>1. \A c \in Cells : [cell |-> c, row |-> db[c]] \in Good
    BY <1>0 DEF Write
  <2>2. Good \in SUBSET Write
    OBVIOUS
  <2> HIDE DEF Good
  <2> QED
    BY <1>0, <1>3, <2>1, <2>2, RunGood
<1>5. done \in State /\ (done.changes # <<>> => done.db[Modified].val = clock)
      /\ (done.changes = <<>> => done.db[Modified] = db[Modified])
  BY <1>0, <1>3, RunStampedFacts
<1>6. \A c \in Tracked : done.db[c] = db[c]
  <2>1. \A c \in Tracked : Run(db, writes).db[c] = db[c]
    BY <1>1, <1>4
  <2>2. done = Run(db, writes) \/ done = Put(Run(db, writes), Stamp)
    BY DEF RunStamped
  <2>3. Run(db, writes) \in State
    <3>1. writes \in Seq(Write)
      <4> HIDE DEF T
      <4>1. Len(writes) \in Nat /\ writes \in [1 .. Len(writes) -> T] /\ T \subseteq Write
        BY <1>2 DEF T
      <4>2. writes \in [1 .. Len(writes) -> Write]
        BY <4>1
      <4> QED
        BY <4>1, <4>2
    <3> QED
      BY <1>0, <3>1, RunTyped
  <2>4. \A c \in Tracked : Put(Run(db, writes), Stamp).db[c] = Run(db, writes).db[c]
    BY <1>1, <2>3 DEF Put, Stamp, State
  <2> QED
    BY <2>1, <2>2, <2>4
<1>7. TrackedOf(done.db) = TrackedOf(db)
  BY <1>6 DEF TrackedOf
<1>8. db' = done.db /\ UNCHANGED <<ls, clock, undo_steps>> /\ redo_steps' = <<>> /\ counter' \in Nat
  BY <1>0 DEF SkipUndoOp, BeginStep
<1> HIDE DEF done
<1>9. done.db \in [Cells -> Row]
  BY <1>5 DEF State
<1>10. DirtyIsStamped'
  <2>1. IsDirty(done.db) => IsDirty(db)
    BY <1>0, <1>7, <1>9, SameRowsSameDirt
  <2>2. IsDirty(done.db) => done.db[Modified].val > ls
    BY <1>0, <1>5, <2>1 DEF RInv, DirtyIsStamped, IsDirty
  <2> QED
    BY <1>8, <2>2 DEF DirtyIsStamped, IsDirty
<1>11. PICK p, q : History(db, undo_steps, p, ls) /\ History(db, Reverse(redo_steps), q, ls)
  BY DEF RInv
<1>12. History(done.db, undo_steps, p, ls)
  BY <1>7, <1>11 DEF History
<1> DEFINE r == [i \in 0 .. 0 |-> TrackedOf(done.db)]
<1>13. History(db', Reverse(redo_steps'), r, ls') /\ Len(redo_steps') = 0
  BY <1>8, <1>9, NoHistory, NoSteps
<1> HIDE DEF r
<1>14. Links(p, q, Len(undo_steps), Len(redo_steps), p, r, Len(undo_steps'), Len(redo_steps'))
  BY <1>8, <1>13 DEF Links
<1>15. Leads
  BY <1>8, <1>11, <1>12, <1>13, <1>14 DEF Leads
<1>16. RInv'
  BY <1>0, <1>8, <1>9, <1>10, <1>12, <1>13, NoSteps DEF RInv, Typed
<1> QED
  BY <1>15, <1>16
-----------------------------------------------------------------------------
(* Going back over the first step of a list.                               *)
LEMMA Rewound ==
  ASSUME db \in [Cells -> Row], DirtyIsStamped,
         NEW steps, NEW n \in Nat \ {0}, Len(steps) = n, NEW p, History(db, steps, p, ls),
         NEW step \in Kept, step = steps[1], NEW done, done = Rewind(db, step)
  PROVE  /\ done \in State /\ TrackedOf(done.db) = p[1]
         /\ Records(done.changes, p[0], TrackedOf(done.db))
         /\ Saved(done.changes, p[0], ls)
         /\ IsDirty(done.db) => done.db[Modified].val > ls
         /\ EndsStamped(step.changes) => BeginsStamped(done.changes)
         /\ BeginsStamped(step.changes) => EndsStamped(done.changes)
         /\ done.changes = <<>> => step.changes = <<>>
<1>1. /\ p[0] = TrackedOf(db) /\ p \in [0 .. n -> Contents]
      /\ Records(step.changes, p[1], p[0]) /\ Saved(step.changes, p[1], ls)
  <2>1. 1 \in 1 .. n /\ 1 - 1 = 0
    OBVIOUS
  <2>2. Records(steps[1].changes, p[1], p[1 - 1]) /\ Saved(steps[1].changes, p[1], ls)
    BY <2>1 DEF History
  <2> QED
    BY <2>1, <2>2 DEF History
<1>2. step.changes \in Seq(Write)
  BY DEF Kept, UndoableOp
<1>3. /\ done \in State /\ Records(done.changes, p[0], TrackedOf(done.db))
      /\ step.changes = <<>> => done = [db |-> db, changes |-> <<>>]
  BY <1>1, <1>2, RewindFacts
<1>4. TrackedOf(done.db) = p[1]
  BY <1>1, <1>2, RewindReturns
<1>5. done.db \in [Cells -> Row] /\ done.changes \in Seq(Write)
  BY <1>3 DEF State
<1>6. CASE step.changes = <<>>
  <2>1. done.db = db /\ done.changes = <<>>
    BY <1>3, <1>6
  <2>2. IsDirty(done.db) => done.db[Modified].val > ls
    BY <2>1 DEF DirtyIsStamped, IsDirty
  <2>3. Saved(done.changes, p[0], ls) /\ BeginsStamped(done.changes) /\ EndsStamped(done.changes)
    BY <2>1 DEF Saved, BeginsStamped, EndsStamped
  <2> QED
    BY <1>3, <1>4, <1>6, <2>2, <2>3
<1>7. CASE step.changes # <<>>
  <2>1. PICK row : FirstStamp(step.changes, row) /\ (IsDirty(p[1]) => row.val > ls)
    BY <1>1, <1>7 DEF Saved
  <2>2. /\ FirstStamp(done.changes, db[Modified])
        /\ done.db[Modified] = row
        /\ IsStamp(step.changes[Len(step.changes)]) => IsStamp(done.changes[1])
        /\ IsStamp(step.changes[1]) => IsStamp(done.changes[Len(done.changes)])
    BY <1>2, <2>1, RewindStamps
  <2>3. done.changes # <<>>
    <3>1. Len(done.changes) # 0
      BY <1>5, <2>2 DEF FirstStamp
    <3> QED
      BY <3>1
  <2>4. (IsDirty(done.db) <=> IsDirty(p[1])) /\ (IsDirty(p[0]) <=> IsDirty(db))
    BY <1>1, <1>4, <1>5, SameDirt
  <2>5. Saved(done.changes, p[0], ls)
    BY <2>2, <2>4 DEF Saved, DirtyIsStamped, IsDirty
  <2>6. EndsStamped(step.changes) => BeginsStamped(done.changes)
    BY <1>7, <2>2 DEF EndsStamped, BeginsStamped
  <2>7. BeginsStamped(step.changes) => EndsStamped(done.changes)
    BY <1>7, <2>2 DEF EndsStamped, BeginsStamped
  <2> QED
    BY <1>3, <1>4, <2>1, <2>2, <2>3, <2>4, <2>5, <2>6, <2>7
<1> QED
  BY <1>6, <1>7

LEMMA UndoLeads ==
  ASSUME RInv, Undo
  PROVE  RInv' /\ Leads
<1> DEFINE us == undo_steps
           rs == redo_steps
           first == us[1]
           done == Rewind(db, first)
           step == NewStep(first.kind, done.changes)
<1>0. /\ db \in [Cells -> Row] /\ clock \in Nat /\ ls \in Nat /\ clock > ls /\ counter \in Nat
      /\ us \in Seq(UndoSteps) /\ rs \in Seq(RedoSteps) /\ us # <<>>
  BY DEF RInv, Typed, Undo
<1>1. /\ Head(us) = us[1] /\ Len(us) \in Nat \ {0} /\ IsSeq(us) /\ Tail(us) \in Seq(UndoSteps)
      /\ Len(Tail(us)) = Len(us) - 1
      /\ first \in UndoSteps
  <2>1. 1 \in 1 .. Len(us) /\ Len(us) \in Nat \ {0}
    BY <1>0
  <2> QED
    BY <1>0, <2>1, AnySeq
<1>2. /\ BeginStep /\ db' = done.db /\ undo_steps' = Tail(us)
      /\ redo_steps' = IF IsKept(step, Tail(us)) THEN Append(rs, step) ELSE rs
      /\ UNCHANGED <<synced, ls, clock>>
  BY <1>1 DEF Undo
<1>3. PICK p, q : History(db, us, p, ls) /\ History(db, Reverse(rs), q, ls)
  BY DEF RInv
<1>4. first \in Kept /\ EndsStamped(first.changes)
  BY <1>1 DEF UndoSteps
<1> HIDE DEF first, done, us, rs
<1>5. /\ done \in State /\ TrackedOf(done.db) = p[1]
      /\ Records(done.changes, p[0], TrackedOf(done.db))
      /\ Saved(done.changes, p[0], ls)
      /\ IsDirty(done.db) => done.db[Modified].val > ls
      /\ BeginsStamped(done.changes)
      /\ done.changes = <<>> => first.changes = <<>>
  <2>1. first = us[1] /\ done = Rewind(db, first)
    BY DEF first, done
  <2> QED
    BY <1>0, <1>1, <1>3, <1>4, <2>1, Rewound DEF RInv
<1>6. done.db \in [Cells -> Row] /\ done.changes \in Seq(Write)
  BY <1>5 DEF State
<1>7. step \in RedoSteps /\ step.changes = done.changes /\ HasChanges(step)
  <2>1. step \in UndoableOp /\ step.changes = done.changes /\ step.kind = first.kind
    BY <1>0, <1>4, <1>6 DEF NewStep, UndoableOp, Kept
  <2>2. step.changes = <<>> => step.kind = "Custom"
    BY <1>4, <1>5, <2>1 DEF Kept
  <2> QED
    BY <1>5, <2>1, <2>2 DEF RedoSteps, Kept, HasChanges
<1> HIDE DEF step
<1>8. ~ Coalesces(step, Tail(us))
  <2> SUFFICES ASSUME NEW n \in Notes, IsNoteEdit(step, n)
               PROVE  FALSE
    BY DEF Coalesces
  <2>1. step.changes # <<>> /\ step.changes[1].cell = n
    BY DEF IsNoteEdit
  <2>2. n = Modified
    BY <1>5, <1>7, <2>1 DEF BeginsStamped, IsStamp
  <2> QED
    BY <2>2, CellsAssumption DEF Rows
<1>9. redo_steps' = Append(rs, step)
  BY <1>2, <1>7, <1>8 DEF IsKept
<1> DEFINE p2 == [i \in 0 .. Len(us) - 1 |-> p[i + 1]]
           q2 == [i \in 0 .. Len(rs) + 1 |-> IF i = 0 THEN TrackedOf(done.db) ELSE q[i - 1]]
<1>10. History(db', undo_steps', p2, ls')
  BY <1>0, <1>1, <1>2, <1>3, <1>5, Popped
<1>11. History(db', Reverse(redo_steps'), q2, ls') /\ Len(redo_steps') = Len(rs) + 1
       /\ redo_steps' \in Seq(RedoSteps) /\ Len(rs) \in Nat /\ p[0] = q[0]
  <2> DEFINE old == Reverse(rs)
             new == Reverse(Append(rs, step))
             m == Len(rs)
  <2>1. Len(old) = m /\ m \in Nat /\ IsSeq(old)
    BY <1>0, ReversedSeq
  <2>2. Len(new) = m + 1 /\ new[1] = step /\ \A i \in 2 .. m + 1 : new[i] = old[i - 1]
    BY <1>0, <1>7, ReversedAppend
  <2>3. p[0] = q[0]
    BY <1>3 DEF History
  <2>4. Append(rs, step) \in Seq(RedoSteps) /\ Len(Append(rs, step)) = m + 1
    BY <1>0, <1>7
  <2>5. History(db, old, q, ls)
    BY <1>3
  <2> HIDE DEF old, new, m
  <2>6. Records(step.changes, q[0], TrackedOf(done.db)) /\ Saved(step.changes, q[0], ls)
    BY <1>5, <1>7, <2>3
  <2>7. Len(new) \in 1 .. Len(old) + 1 /\ \A i \in 2 .. Len(new) : new[i] = old[i - 1]
    BY <2>1, <2>2
  <2>8. History(done.db, new, [i \in 0 .. Len(new) |-> IF i = 0 THEN TrackedOf(done.db) ELSE q[i - 1]], ls)
    <3> DEFINE now == done.db
    <3> HIDE DEF now
    <3>1. now \in [Cells -> Row] /\ Records(step.changes, q[0], TrackedOf(now))
      BY <1>6, <2>6 DEF now
    <3> DEFINE n == Len(new)
               r == [i \in 0 .. n |-> IF i = 0 THEN TrackedOf(now) ELSE q[i - 1]]
    <3>2. IsSeq(old) /\ new[1] = step /\ Saved(step.changes, q[0], ls)
      BY <2>1, <2>2, <2>6
    <3>3. History(now, new, r, ls)
      BY <2>5, <2>7, <3>1, <3>2, Pushed
    <3> QED
      BY <3>3 DEF now
  <2>9. new = Reverse(redo_steps') /\ db' = done.db /\ ls' = ls
    BY <1>2, <1>9 DEF new
  <2> QED
    BY <1>9, <2>1, <2>2, <2>3, <2>4, <2>8, <2>9 DEF m
<1>12. Links(p, q, Len(us), Len(rs), p2, q2, Len(undo_steps'), Len(redo_steps'))
  <2>1. Popping(p, p2, Len(us), Len(undo_steps'))
    BY <1>1, <1>2 DEF Popping
  <2>2. Pushing(q, p[1], q2, Len(rs), Len(redo_steps'))
    BY <1>5, <1>11 DEF Pushing
  <2> HIDE DEF p2, q2
  <2> QED
    BY <2>1, <2>2 DEF Links
<1> HIDE DEF p2, q2
<1>13. Leads
  BY <1>3, <1>10, <1>11, <1>12 DEF Leads, us, rs
<1>14. DirtyIsStamped'
  BY <1>2, <1>5 DEF DirtyIsStamped, IsDirty
<1>15. RInv'
  BY <1>0, <1>1, <1>2, <1>6, <1>10, <1>11, <1>14 DEF RInv, Typed, BeginStep
<1> QED
  BY <1>13, <1>15
LEMMA RedoLeads ==
  ASSUME RInv, Inv(undo_steps, redo_steps, counter), Redo
  PROVE  RInv' /\ Leads
<1> DEFINE us == undo_steps
           rs == redo_steps
           old == Reverse(rs)
           next == Last(rs)
           done == Rewind(db, next)
           step == NewStep(next.kind, done.changes)
<1>0. /\ db \in [Cells -> Row] /\ clock \in Nat /\ ls \in Nat /\ clock > ls /\ counter \in Nat
      /\ us \in Seq(UndoSteps) /\ rs \in Seq(RedoSteps) /\ rs # <<>>
      /\ Len(us) + Len(rs) <= UNDO_LIMIT /\ UNDO_LIMIT \in Nat
  BY LimitAssumption DEF RInv, Typed, Redo, Inv
<1>1. /\ BeginStep /\ db' = done.db /\ undo_steps' = EndStep(us, step) /\ redo_steps' = Front(rs)
      /\ UNCHANGED <<synced, ls, clock>>
  BY DEF Redo
<1>2. /\ Front(rs) \in Seq(RedoSteps) /\ Len(Front(rs)) = Len(rs) - 1
      /\ Reverse(Front(rs)) = Tail(old) /\ old # <<>> /\ old[1] = next /\ next \in RedoSteps
  BY <1>0, ReversedFront
<1>3. PICK p, q : History(db, us, p, ls) /\ History(db, old, q, ls)
  BY DEF RInv
<1>4. next \in Kept /\ BeginsStamped(next.changes)
  BY <1>2 DEF RedoSteps
<1>5. Len(us) \in Nat /\ Len(rs) \in Nat \ {0} /\ Len(old) = Len(rs) /\ IsSeq(old)
  <2>1. Len(us) \in Nat /\ Len(rs) \in Nat \ {0}
    BY <1>0
  <2> QED
    BY <1>0, <2>1, ReversedSeq
<1>6. step = NewStep(next.kind, done.changes) /\ done = Rewind(db, next)
  OBVIOUS
<1> HIDE DEF next, done, us, rs, old, step
<1>7. /\ done \in State /\ TrackedOf(done.db) = q[1]
      /\ Records(done.changes, q[0], TrackedOf(done.db))
      /\ Saved(done.changes, q[0], ls)
      /\ IsDirty(done.db) => done.db[Modified].val > ls
      /\ EndsStamped(done.changes)
      /\ done.changes = <<>> => next.changes = <<>>
  BY <1>0, <1>2, <1>3, <1>4, <1>5, <1>6, Rewound DEF RInv
<1>8. done.db \in [Cells -> Row] /\ done.changes \in Seq(Write) /\ p[0] = q[0]
  BY <1>3, <1>7 DEF State, History
<1>9. step \in UndoableOp /\ step.changes = done.changes /\ HasChanges(step)
  <2>1. step \in UndoableOp /\ step.changes = done.changes /\ step.kind = next.kind
    BY <1>0, <1>4, <1>6, <1>8 DEF NewStep, UndoableOp, Kept
  <2> QED
    BY <1>4, <1>7, <2>1 DEF Kept, HasChanges
<1>10. /\ undo_steps' \in Seq(UndoSteps)
       /\ \E r : History(done.db, undo_steps', r, ls) /\ Ended(p, q[1], r, us, undo_steps', step)
  <2> DEFINE now == done.db
  <2> HIDE DEF now
  <2>1. now \in [Cells -> Row] /\ EndsStamped(step.changes) /\ Records(step.changes, p[0], TrackedOf(now))
        /\ Saved(step.changes, p[0], ls) /\ TrackedOf(now) = q[1]
    BY <1>7, <1>8, <1>9 DEF now
  <2>2. LET new == EndStep(us, step)
        IN  /\ new \in Seq(UndoSteps)
            /\ \E r : History(now, new, r, ls) /\ Ended(p, TrackedOf(now), r, us, new, step)
    BY <1>0, <1>3, <1>9, <2>1, StepEnds
  <2> QED
    BY <1>1, <2>1, <2>2 DEF now
<1>11. PICK p2 : History(done.db, undo_steps', p2, ls) /\ Ended(p, q[1], p2, us, undo_steps', step)
  BY <1>10
<1> DEFINE q2 == [i \in 0 .. Len(rs) - 1 |-> q[i + 1]]
<1>12. History(db', Reverse(redo_steps'), q2, ls')
  <2>1. History(done.db, Tail(old), [i \in 0 .. Len(old) - 1 |-> q[i + 1]], ls)
    BY <1>2, <1>3, <1>5, <1>7, Popped
  <2> QED
    BY <1>1, <1>2, <1>5, <2>1
<1>13. Links(p, q, Len(us), Len(rs), p2, q2, Len(undo_steps'), Len(redo_steps'))
  <2>1. Popping(q, q2, Len(rs), Len(redo_steps'))
    BY <1>1, <1>2, <1>5 DEF Popping
  <2>2. Len(us) < UNDO_LIMIT
    BY <1>0, <1>5
  <2>3. \/ IsPushed(p, q[1], p2, Len(us), Len(undo_steps'))
        \/ IsJoined(p, q[1], p2, Len(us), Len(undo_steps'))
    BY <1>9, <1>11 DEF Ended
  <2> HIDE DEF q2
  <2> QED
    BY <2>1, <2>2, <2>3 DEF Links
<1> HIDE DEF q2
<1>14. Leads
  BY <1>1, <1>3, <1>11, <1>12, <1>13 DEF Leads, us, rs, old
<1>15. DirtyIsStamped'
  BY <1>1, <1>7 DEF DirtyIsStamped, IsDirty
<1>16. RInv'
  BY <1>0, <1>1, <1>2, <1>8, <1>10, <1>11, <1>12, <1>15 DEF RInv, Typed, BeginStep
<1> QED
  BY <1>14, <1>16

LEMMA MergeLeads ==
  ASSUME RInv, NEW i \in DOMAIN undo_steps, Merge(i)
  PROVE  RInv' /\ Leads
<1> DEFINE us == undo_steps
           target == us[i]
           merged == FlattenSeq([k \in 1 .. i |-> us[i + 1 - k].changes])
           x == [kind |-> target.kind, timestamp |-> target.timestamp,
                 changes |-> merged, counter |-> target.counter]
           new == <<x>> \o SubSeq(us, i + 1, Len(us))
<1>0. /\ db \in [Cells -> Row] /\ clock \in Nat /\ ls \in Nat /\ clock > ls /\ counter \in Nat
      /\ us \in Seq(UndoSteps) /\ redo_steps \in Seq(RedoSteps)
  BY DEF RInv, Typed
<1>1. /\ undo_steps' = new /\ counter' = target.counter
      /\ UNCHANGED <<db, ls, clock, redo_steps>>
  BY DEF Merge
<1>2. PICK p, q : History(db, us, p, ls) /\ History(db, Reverse(redo_steps), q, ls)
  BY DEF RInv
<1>3. IsSeq(us) /\ Len(us) \in Nat /\ i \in 1 .. Len(us) /\ \A j \in 1 .. Len(us) : us[j] \in UndoSteps
  BY <1>0, AnySeq
<1> HIDE DEF us
<1>4. target \in Kept /\ \A j \in 1 .. Len(us) : us[j].changes \in Seq(Write) /\ EndsStamped(us[j].changes)
  BY <1>3 DEF UndoSteps, Kept, UndoableOp
<1>5. /\ merged \in Seq(Write)
      /\ Records(merged, p[i], p[0])
      /\ Saved(merged, p[i], ls)
      /\ EndsStamped(merged)
      /\ merged = <<>> => target.changes = <<>>
  BY <1>2, <1>3, <1>4, MergedChanges
<1> HIDE DEF merged
<1>6. x \in UndoSteps /\ x.changes = merged
  <2>1. x \in UndoableOp /\ x.changes = merged /\ x.kind = target.kind
    BY <1>4, <1>5 DEF Kept, UndoableOp
  <2> QED
    BY <1>4, <1>5, <2>1 DEF UndoSteps, Kept
<1>7. target.counter \in Nat
  BY <1>4 DEF Kept, UndoableOp
<1> HIDE DEF x, target
<1>8. PICK p2 : History(db, new, p2, ls) /\ IsOver(p, p2, us, new)
  <2>1. new = InOne(us, i, x)
    BY DEF InOne
  <2> HIDE DEF new
  <2> QED
    BY <1>2, <1>3, <1>5, <1>6, <2>1, Joined
<1>9. new \in Seq(UndoSteps)
  <2>1. us \in Seq(UndoSteps)
    BY <1>0
  <2>2. SubSeq(us, i + 1, Len(us)) \in Seq(UndoSteps)
    BY <1>3, <2>1
  <2> HIDE DEF us
  <2>3. <<x>> \in Seq(UndoSteps)
    BY <1>6
  <2> QED
    BY <2>2, <2>3
<1> HIDE DEF new
<1>10. Links(p, q, Len(us), Len(redo_steps), p2, q, Len(undo_steps'), Len(redo_steps'))
  <2>1. Joining(p, p2, Len(us), Len(new))
    BY <1>3, <1>8 DEF Joining, IsOver
  <2> QED
    BY <1>1, <2>1 DEF Links
<1>11. Leads
  BY <1>1, <1>2, <1>8, <1>10 DEF Leads, us
<1>12. RInv'
  BY <1>0, <1>1, <1>2, <1>7, <1>8, <1>9 DEF RInv, Typed, DirtyIsStamped
<1> QED
  BY <1>11, <1>12
LEMMA StandingLeads ==
  ASSUME RInv, UNCHANGED vars
  PROVE  RInv' /\ Leads
<1>1. UNCHANGED <<db, ls, clock, undo_steps, redo_steps, counter>>
  BY DEF vars
<1>2. PICK p, q : History(db, undo_steps, p, ls) /\ History(db, Reverse(redo_steps), q, ls)
  BY DEF RInv
<1>3. Links(p, q, Len(undo_steps), Len(redo_steps), p, q, Len(undo_steps'), Len(redo_steps'))
  BY <1>1 DEF Links
<1>4. Leads
  BY <1>1, <1>2, <1>3 DEF Leads
<1>5. RInv'
  BY <1>1 DEF RInv, Typed, DirtyIsStamped
<1> QED
  BY <1>4, <1>5

LEMMA InitRInv == Init => RInv
<1> SUFFICES ASSUME Init
             PROVE  RInv
  OBVIOUS
<1>1. /\ db = [c \in Cells |-> [val |-> IF c = Modified THEN 0 ELSE synced[c], pending |-> FALSE]]
      /\ synced = [c \in Rows |-> Initial] /\ undo_steps = <<>> /\ redo_steps = <<>>
      /\ clock = 1 /\ ls = 0 /\ counter = 0
  BY DEF Init
<1>2. \A c \in Cells : db[c] \in Row /\ ~ db[c].pending
  BY <1>1, InitialAssumption DEF Row, Cells
<1>3. db \in [Cells -> Row]
  BY <1>1, <1>2
<1> DEFINE r == [i \in 0 .. 0 |-> TrackedOf(db)]
<1>4. History(db, <<>>, r, ls)
  BY <1>3, NoHistory
<1> HIDE DEF r
<1>5. DirtyIsStamped
  BY <1>2 DEF DirtyIsStamped, Cells
<1>6. Typed
  BY <1>1, <1>3, NoSteps DEF Typed
<1> QED
  BY <1>1, <1>4, <1>5, <1>6, NoSteps DEF RInv

LEMMA NextLeads ==
  ASSUME RInv, Inv(undo_steps, redo_steps, counter), [Next]_vars
  PROVE  RInv' /\ Leads
<1>1. CASE UNCHANGED vars
  BY <1>1, StandingLeads
<1>2. CASE Next
  <2>1. CASE \E n \in Notes, v \in Values : UpdateNote(n, v)
    BY <2>1, UpdateNoteLeads
  <2>2. CASE \E writes \in OpWrites(Rows) : OtherOp(writes) \/ NoUndoOp(writes)
    BY <2>2, OtherOpLeads, NoUndoLeads
  <2>3. CASE \E writes \in OpWrites(SkipCells) : SkipCells # {} /\ SkipUndoOp(writes)
    BY <2>3, SkipLeads
  <2>4. CASE FailedOp
    BY <2>4, FailedLeads
  <2>5. CASE AddCustomStep
    BY <2>5, CustomLeads
  <2>6. CASE Undo
    BY <2>6, UndoLeads
  <2>7. CASE Redo
    BY <2>7, RedoLeads
  <2>8. CASE \E i \in DOMAIN undo_steps : Merge(i)
    BY <2>8, MergeLeads
  <2>9. CASE Sync
    BY <2>9, SyncLeads
  <2>10. CASE Discard
    BY <2>10, DiscardLeads
  <2>11. CASE Wait
    BY <2>11, WaitLeads
  <2> QED
    BY <1>2, <2>1, <2>2, <2>3, <2>4, <2>5, <2>6, <2>7, <2>8, <2>9, <2>10, <2>11 DEF Next
<1> QED
  BY <1>1, <1>2

LEMMA RInvHolds == Spec => []RInv
<1>1. RInv /\ Inv(undo_steps, redo_steps, counter) /\ [Next]_vars => RInv'
  BY NextLeads
<1> QED
  BY <1>1, InitRInv, InvHolds, PTL DEF Spec

LEMMA InitShown == Init => Snapshots!Init
<1> SUFFICES ASSUME Init
             PROVE  Snapshots!Init
  OBVIOUS
<1>1. undo_steps = <<>> /\ redo_steps = <<>> /\ db \in [Cells -> Row]
  BY InitRInv DEF Init, RInv, Typed
<1>2. TrackedOf(db) \in [Tracked -> Row]
  BY <1>1, TrackedTyped DEF Contents
<1>3. PastShown = <<>> /\ FutureShown = <<>>
  <2>1. Len(undo_steps) = 0 /\ Len(redo_steps) = 0 /\ 1 .. 0 = {}
    BY <1>1
  <2> QED
    BY <2>1 DEF PastShown, FutureShown
<1> QED
  BY <1>2, <1>3 DEF Snapshots!Init, PastShown, FutureShown

(* Undo and redo bring back exactly the contents that were there, however  *)
(* the steps were recorded, coalesced, merged, undone and redone: every    *)
(* step of the lists of row changes is a step of UndoSnapshots.            *)
THEOREM UndoRestores == Spec => ImplementsSnapshots
<1>1. RInv /\ RInv' /\ Inv(undo_steps, redo_steps, counter) /\ [Next]_vars
        => [Snapshots!Next]_(Snapshots!vars)
  <2> SUFFICES ASSUME RInv, RInv', Inv(undo_steps, redo_steps, counter), [Next]_vars
               PROVE  Snapshots!Next \/ UNCHANGED Snapshots!vars
    OBVIOUS
  <2>1. Leads
    BY NextLeads
  <2>2. Typed /\ Typed'
    BY DEF RInv
  <2> QED
    BY <2>1, <2>2, LeadsToStep
<1> QED
  BY <1>1, InitShown, RInvHolds, InvHolds, PTL DEF Spec, ImplementsSnapshots, Snapshots!Spec

(* As long as some row waits to be sent, the modification time is past the *)
(* last sync's, also when undos take it back: each step that goes back to  *)
(* such rows goes back to a later time than that.                          *)
THEOREM DirtyStaysStamped == Spec => []DirtyIsStamped
<1>1. RInv => DirtyIsStamped
  BY DEF RInv
<1> QED
  BY <1>1, RInvHolds, PTL
-----------------------------------------------------------------------------
(* A row that the next sync would not send is the server's, in the         *)
(* collection and in whatever a step would bring back.                     *)
Clean(server) ==
  {w \in Write : w.cell \in Rows => /\ w.row.val \in Values
                                    /\ w.row.pending \/ w.row.val = server[w.cell]}
CleanSteps(server) == {step \in UndoableOp : step.changes \in Seq(Clean(server))}
CleanRows(rows, server) == \A c \in Cells : [cell |-> c, row |-> rows[c]] \in Clean(server)

CInv ==
  /\ synced \in [Rows -> Values]
  /\ CleanRows(db, synced)
  /\ undo_steps \in Seq(CleanSteps(synced))
  /\ redo_steps \in Seq(CleanSteps(synced))

LEMMA EndStepIn ==
  ASSUME NEW X, NEW steps \in Seq(X), NEW step \in X
  PROVE  EndStep(steps, step) \in Seq(X)
<1> DEFINE n == IF Len(steps) < UNDO_LIMIT THEN Len(steps) ELSE UNDO_LIMIT - 1
           rest == SubSeq(steps, 1, n)
<1>1. n \in Nat /\ n <= Len(steps)
  BY LimitAssumption
<1>2. rest \in Seq(X)
  <2> HIDE DEF n
  <2> QED
    BY <1>1
<1>3. PushUndo(steps, step) = <<step>> \o rest
  BY DEF PushUndo
<1> HIDE DEF rest
<1>4. <<step>> \o rest \in Seq(X)
  BY <1>2
<1> QED
  BY <1>3, <1>4 DEF EndStep

(* What is clean stays clean as it is written, and the rows put aside.     *)
LEMMA CleanRun ==
  ASSUME NEW server, NEW from \in [Cells -> Row], CleanRows(from, server),
         NEW writes \in Seq(Clean(server)), NEW done, done = Run(from, writes)
  PROVE  /\ done \in State
         /\ CleanRows(done.db, server) /\ done.changes \in Seq(Clean(server))
<1> DEFINE Good == Clean(server)
<1>1. Good \in SUBSET Write
  BY DEF Clean
<1>2. \A c \in Cells : [cell |-> c, row |-> from[c]] \in Good
  BY DEF CleanRows
<1> HIDE DEF Good
<1>3. writes \in Seq(Good)
  BY DEF Good
<1>4. /\ \A c \in Cells : [cell |-> c, row |-> done.db[c]] \in Good
      /\ done.changes \in Seq(Good)
  BY <1>1, <1>2, <1>3, RunGood
<1>5. writes \in Seq(Write)
  <2>1. Len(writes) \in Nat /\ writes \in [1 .. Len(writes) -> Good]
    BY <1>3
  <2>2. writes \in [1 .. Len(writes) -> Write]
    BY <1>1, <2>1
  <2> QED
    BY <2>1, <2>2
<1>6. done \in State
  BY <1>5, RunTyped
<1> QED
  BY <1>4, <1>6 DEF Good, CleanRows

LEMMA CleanStamp ==
  ASSUME NEW server, NEW done \in State, CleanRows(done.db, server),
         done.changes \in Seq(Clean(server)), clock \in Nat
  PROVE  LET stamped == Put(done, Stamp)
         IN  CleanRows(stamped.db, server) /\ stamped.changes \in Seq(Clean(server))
<1> DEFINE Good == Clean(server)
<1>1. Good \in SUBSET Write
  BY DEF Clean
<1>2. Stamp \in Good
  BY CellsAssumption DEF Stamp, Clean, Write, Row, Cells
<1>3. \A c \in Cells : [cell |-> c, row |-> done.db[c]] \in Good
  BY DEF CleanRows
<1> HIDE DEF Good
<1>4. done.changes \in Seq(Good)
  BY DEF Good
<1>5. /\ \A c \in Cells : [cell |-> c, row |-> Put(done, Stamp).db[c]] \in Good
      /\ Put(done, Stamp).changes \in Seq(Good)
  BY <1>1, <1>2, <1>3, <1>4, PutGood
<1> QED
  BY <1>5 DEF Good, CleanRows

LEMMA CleanStamped ==
  ASSUME NEW server, db \in [Cells -> Row], clock \in Nat, CleanRows(db, server),
         NEW writes \in Seq(Clean(server)), NEW done, done = RunStamped(writes)
  PROVE  CleanRows(done.db, server) /\ done.changes \in Seq(Clean(server))
<1> DEFINE run == Run(db, writes)
<1>1. run \in State /\ CleanRows(run.db, server) /\ run.changes \in Seq(Clean(server))
  BY CleanRun
<1>2. done = run \/ done = Put(run, Stamp)
  BY DEF RunStamped
<1> HIDE DEF run
<1>3. LET stamped == Put(run, Stamp)
      IN  CleanRows(stamped.db, server) /\ stamped.changes \in Seq(Clean(server))
  BY <1>1, CleanStamp
<1> QED
  BY <1>1, <1>2, <1>3

LEMMA EditedClean ==
  ASSUME NEW server, NEW c \in Rows, NEW v \in Values
  PROVE  Edited(c, v) \in Clean(server)
  BY DEF Edited, Clean, Write, Row, Cells

LEMMA OpWritesClean ==
  ASSUME NEW server, NEW cells \in SUBSET Rows, NEW writes \in OpWrites(cells)
  PROVE  writes \in Seq(Clean(server))
<1> DEFINE S == {Edited(c, v) : c \in cells, v \in Values}
<1>1. MaxWrites \in Nat
  BY BoundsAssumption
<1>2. PICK m \in 0 .. MaxWrites : writes \in [1 .. m -> S]
  BY <1>1 DEF OpWrites, SeqOf
<1>3. S \subseteq Clean(server)
  BY EditedClean
<1> HIDE DEF S
<1>4. writes \in [1 .. m -> Clean(server)] /\ m \in Nat
  BY <1>1, <1>2, <1>3
<1> QED
  BY <1>4
LEMMA NewStepClean ==
  ASSUME clock \in Nat, counter \in Nat, NEW server, NEW kind \in Kinds,
         NEW changes \in Seq(Clean(server))
  PROVE  NewStep(kind, changes) \in CleanSteps(server)
<1>1. changes \in Seq(Write)
  <2> DEFINE Good == Clean(server)
  <2>1. Good \subseteq Write /\ changes \in Seq(Good)
    BY DEF Clean
  <2> HIDE DEF Good
  <2>2. Len(changes) \in Nat /\ changes \in [1 .. Len(changes) -> Good]
    BY <2>1
  <2>3. changes \in [1 .. Len(changes) -> Write]
    BY <2>1, <2>2
  <2> QED
    BY <2>2, <2>3
<1> QED
  BY <1>1 DEF NewStep, CleanSteps, UndoableOp

LEMMA ClearingClean ==
  ASSUME ClearQueues, synced' \in [Rows -> Values], CleanRows(db', synced')
  PROVE  CInv'
<1>1. <<>> \in Seq(CleanSteps(synced'))
  OBVIOUS
<1> QED
  BY <1>1 DEF ClearQueues, CInv, CleanRows, CleanSteps, Clean

LEMMA TransactClean ==
  ASSUME RInv, CInv, NEW kind \in Kinds, NEW writes \in Seq(Clean(synced)), Transact(kind, writes)
  PROVE  CInv'
<1> DEFINE done == RunStamped(writes)
           step == NewStep(kind, done.changes)
<1>1. /\ db' = done.db /\ undo_steps' = EndStep(undo_steps, step) /\ redo_steps' = <<>>
      /\ synced' = synced
  BY DEF Transact
<1>2. db \in [Cells -> Row] /\ clock \in Nat /\ counter \in Nat
  BY DEF RInv, Typed
<1>3. CleanRows(done.db, synced) /\ done.changes \in Seq(Clean(synced))
  BY <1>2, CleanStamped DEF CInv
<1> HIDE DEF done
<1>4. step \in CleanSteps(synced)
  BY <1>2, <1>3, NewStepClean
<1> HIDE DEF step
<1>5. undo_steps' \in Seq(CleanSteps(synced)) /\ redo_steps' \in Seq(CleanSteps(synced))
  BY <1>1, <1>4, EndStepIn DEF CInv
<1> QED
  BY <1>1, <1>3, <1>5 DEF CInv, CleanRows, CleanSteps, Clean

LEMMA UpdateNoteClean ==
  ASSUME RInv, CInv, NEW n \in Notes, NEW v \in Values, UpdateNote(n, v)
  PROVE  CInv'
<1>1. \E writes \in Seq(Clean(synced)) : Transact("UpdateNote", writes)
  <2> DEFINE W == Clean(synced)
  <2>1. Edited(n, v) \in W /\ \A c \in Others : Edited(c, v) \in W
    BY EditedClean DEF Rows
  <2> HIDE DEF W
  <2>2. <<>> \in Seq(W) /\ <<Edited(n, v)>> \in Seq(W) /\ \A c \in Others : <<Edited(n, v), Edited(c, v)>> \in Seq(W)
    BY <2>1
  <2> QED
    BY <2>2 DEF UpdateNote, W
<1> QED
  BY <1>1, TransactClean DEF Kinds

LEMMA OtherOpClean ==
  ASSUME RInv, CInv, NEW writes \in OpWrites(Rows), OtherOp(writes)
  PROVE  CInv'
  BY OpWritesClean, TransactClean DEF OtherOp, Kinds

LEMMA NoUndoClean ==
  ASSUME RInv, CInv, NEW writes \in OpWrites(Rows), NoUndoOp(writes)
  PROVE  CInv'
<1> DEFINE run == Run(db, writes)
<1>1. writes \in Seq(Clean(synced))
  BY OpWritesClean
<1>2. db \in [Cells -> Row] /\ clock \in Nat
  BY DEF RInv, Typed
<1>3. run \in State /\ CleanRows(run.db, synced) /\ run.changes \in Seq(Clean(synced))
  BY <1>1, <1>2, CleanRun DEF CInv
<1>4. db' = Put(run, Stamp).db /\ synced' = synced /\ ClearQueues
  BY DEF NoUndoOp
<1> HIDE DEF run
<1>5. CleanRows(Put(run, Stamp).db, synced)
  BY <1>2, <1>3, CleanStamp
<1> QED
  BY <1>4, <1>5, ClearingClean DEF CInv

LEMMA SkipClean ==
  ASSUME RInv, CInv, NEW writes \in OpWrites(SkipCells), SkipUndoOp(writes)
  PROVE  CInv'
<1> DEFINE done == RunStamped(writes)
<1>1. writes \in Seq(Clean(synced))
  BY CellsAssumption, OpWritesClean
<1>2. db \in [Cells -> Row] /\ clock \in Nat
  BY DEF RInv, Typed
<1>3. CleanRows(done.db, synced)
  BY <1>1, <1>2, CleanStamped DEF CInv
<1>4. db' = done.db /\ redo_steps' = <<>> /\ UNCHANGED <<synced, undo_steps>>
  BY DEF SkipUndoOp
<1> HIDE DEF done
<1>5. <<>> \in Seq(CleanSteps(synced))
  OBVIOUS
<1> QED
  BY <1>3, <1>4, <1>5 DEF CInv, CleanRows, CleanSteps, Clean

LEMMA CustomClean ==
  ASSUME RInv, CInv, AddCustomStep
  PROVE  CInv'
<1> DEFINE step == NewStep("Custom", <<>>)
<1>1. step \in CleanSteps(synced)
  <2>1. <<>> \in Seq(Clean(synced)) /\ "Custom" \in Kinds /\ clock \in Nat /\ counter \in Nat
    BY DEF Kinds, RInv
  <2> QED
    BY <2>1, NewStepClean
<1>2. /\ undo_steps' = EndStep(undo_steps, step) /\ redo_steps' = <<>>
      /\ UNCHANGED <<db, synced>>
  BY DEF AddCustomStep
<1> HIDE DEF step
<1>3. undo_steps' \in Seq(CleanSteps(synced)) /\ <<>> \in Seq(CleanSteps(synced))
  BY <1>1, <1>2, EndStepIn DEF CInv
<1> QED
  BY <1>2, <1>3 DEF CInv, CleanRows, CleanSteps, Clean

(* Going back over a clean step.                                           *)
LEMMA CleanRewind ==
  ASSUME RInv, CInv, NEW old \in CleanSteps(synced), NEW done, done = Rewind(db, old)
  PROVE  CleanRows(done.db, synced) /\ NewStep(old.kind, done.changes) \in CleanSteps(synced)
<1> DEFINE Good == Clean(synced)
<1>1. old.changes \in Seq(Good) /\ old.kind \in Kinds
  BY DEF CleanSteps, UndoableOp
<1>2. Reverse(old.changes) \in Seq(Good)
  <2> HIDE DEF Good
  <2> QED
    BY <1>1, ReversedSeq
<1>3. db \in [Cells -> Row] /\ clock \in Nat /\ counter \in Nat
  BY DEF RInv, Typed
<1>4. CleanRows(done.db, synced) /\ done.changes \in Seq(Clean(synced))
  BY <1>2, <1>3, CleanRun DEF CInv, Rewind
<1> QED
  BY <1>1, <1>3, <1>4, NewStepClean

LEMMA UndoClean ==
  ASSUME RInv, CInv, Undo
  PROVE  CInv'
<1> DEFINE old == Head(undo_steps)
           done == Rewind(db, old)
           step == NewStep(old.kind, done.changes)
           X == CleanSteps(synced)
<1>1. /\ undo_steps # <<>> /\ db' = done.db /\ undo_steps' = Tail(undo_steps)
      /\ redo_steps' = Append(redo_steps, step) \/ redo_steps' = redo_steps
      /\ synced' = synced
  BY DEF Undo
<1>2. undo_steps \in Seq(X) /\ redo_steps \in Seq(X)
  BY DEF CInv
<1> HIDE DEF X
<1>3. old \in X /\ Tail(undo_steps) \in Seq(X)
  BY <1>1, <1>2
<1> HIDE DEF old
<1>4. CleanRows(done.db, synced) /\ step \in X
  BY <1>3, CleanRewind DEF X
<1> HIDE DEF done, step
<1>5. undo_steps' \in Seq(X) /\ redo_steps' \in Seq(X)
  BY <1>1, <1>2, <1>3, <1>4
<1> QED
  BY <1>1, <1>4, <1>5 DEF CInv, CleanRows, CleanSteps, Clean, X

LEMMA RedoClean ==
  ASSUME RInv, CInv, Redo
  PROVE  CInv'
<1> DEFINE old == Last(redo_steps)
           done == Rewind(db, old)
           step == NewStep(old.kind, done.changes)
           X == CleanSteps(synced)
<1>1. /\ redo_steps # <<>> /\ db' = done.db /\ undo_steps' = EndStep(undo_steps, step)
      /\ redo_steps' = Front(redo_steps)
      /\ synced' = synced
  BY DEF Redo
<1>2. undo_steps \in Seq(X) /\ redo_steps \in Seq(X)
  BY DEF CInv
<1> HIDE DEF X
<1>3. old \in X /\ Front(redo_steps) \in Seq(X)
  BY <1>1, <1>2, ReversedFront
<1> HIDE DEF old
<1>4. CleanRows(done.db, synced) /\ step \in X
  BY <1>3, CleanRewind DEF X
<1> HIDE DEF done, step
<1>5. undo_steps' \in Seq(X) /\ redo_steps' \in Seq(X)
  BY <1>1, <1>2, <1>3, <1>4, EndStepIn
<1> QED
  BY <1>1, <1>4, <1>5 DEF CInv, CleanRows, CleanSteps, Clean, X

LEMMA MergeClean ==
  ASSUME RInv, CInv, NEW i \in DOMAIN undo_steps, Merge(i)
  PROVE  CInv'
<1> DEFINE us == undo_steps
           target == us[i]
           seqs == [k \in 1 .. i |-> us[i + 1 - k].changes]
           merged == FlattenSeq(seqs)
           x == [kind |-> target.kind, timestamp |-> target.timestamp,
                 changes |-> merged, counter |-> target.counter]
           rest == SubSeq(us, i + 1, Len(us))
           Good == Clean(synced)
           X == CleanSteps(synced)
<1>1. undo_steps' = <<x>> \o rest /\ UNCHANGED <<db, synced, redo_steps>>
  BY DEF Merge
<1>2. us \in Seq(X) /\ Len(us) \in Nat /\ i \in 1 .. Len(us)
  BY DEF CInv
<1>3. \A j \in 1 .. Len(us) : us[j] \in UndoableOp /\ us[j].changes \in Seq(Good)
  <2>1. \A j \in 1 .. Len(us) : us[j] \in X
    <3> HIDE DEF X, us
    <3> QED
      BY <1>2
  <2> QED
    BY <2>1 DEF CleanSteps
<1>4. rest \in Seq(X)
  <2> HIDE DEF X, us
  <2> QED
    BY <1>2
<1> HIDE DEF us, Good
<1>5. seqs \in [1 .. i -> Seq(Good)] /\ i \in Nat \ {0}
  <2>1. \A k \in 1 .. i : i + 1 - k \in 1 .. Len(us)
    BY <1>2
  <2> QED
    BY <1>2, <1>3, <2>1
<1> HIDE DEF seqs
<1>6. merged \in Seq(Good)
  <2>1. PICK f \in [0 .. i -> Seq(Good)] :
          /\ f[0] = <<>>
          /\ \A k \in 1 .. i : f[k] = f[k - 1] \o seqs[k]
          /\ merged = f[i]
    BY <1>5, Flattened
  <2>2. i \in 0 .. i
    BY <1>5
  <2> QED
    BY <2>1, <2>2
<1> HIDE DEF merged
<1>7. merged \in Seq(Write)
  <2>1. Good \subseteq Write
    BY DEF Good, Clean
  <2>2. Len(merged) \in Nat /\ merged \in [1 .. Len(merged) -> Good]
    BY <1>6
  <2>3. merged \in [1 .. Len(merged) -> Write]
    BY <2>1, <2>2
  <2> QED
    BY <2>2, <2>3
<1>8. x \in X
  <2>1. target \in UndoableOp
    BY <1>2, <1>3
  <2> HIDE DEF target
  <2> QED
    BY <1>6, <1>7, <2>1 DEF CleanSteps, UndoableOp, Good
<1> HIDE DEF x, rest, X
<1>9. undo_steps' \in Seq(X)
  BY <1>1, <1>4, <1>8
<1> QED
  BY <1>1, <1>9 DEF CInv, CleanRows, CleanSteps, Clean, X

LEMMA SyncClean ==
  ASSUME RInv, CInv, Sync
  PROVE  CInv'
<1>1. /\ db' = [c \in Cells |-> [val |-> IF c = Modified THEN clock ELSE db[c].val, pending |-> FALSE]]
      /\ synced' = [c \in Rows |-> db[c].val]
      /\ ClearQueues
  BY DEF Sync
<1>2. \A c \in Rows : db[c].val \in Values /\ c # Modified /\ c \in Cells
  BY CellsAssumption DEF CInv, CleanRows, Clean, Cells
<1>3. synced' \in [Rows -> Values]
  BY <1>1, <1>2
<1>4. clock \in Nat
  BY DEF RInv
<1>5. CleanRows(db', synced')
  <2> SUFFICES ASSUME NEW c \in Cells
               PROVE  [cell |-> c, row |-> db'[c]] \in Clean(synced')
    BY DEF CleanRows
  <2>1. CASE c = Modified
    BY <1>1, <1>4, <2>1, CellsAssumption DEF Clean, Write, Row
  <2>2. CASE c # Modified
    BY <1>1, <1>2, <2>2 DEF Clean, Write, Row, Cells
  <2> QED
    BY <2>1, <2>2
<1> QED
  BY <1>1, <1>3, <1>5, ClearingClean

LEMMA StandingClean ==
  ASSUME CInv, UNCHANGED <<db, synced, undo_steps, redo_steps>>
  PROVE  CInv'
  BY DEF CInv, CleanRows, CleanSteps, Clean

LEMMA InitClean == Init => CInv
<1> SUFFICES ASSUME Init
             PROVE  CInv
  OBVIOUS
<1>1. /\ db = [c \in Cells |-> [val |-> IF c = Modified THEN 0 ELSE synced[c], pending |-> FALSE]]
      /\ synced = [c \in Rows |-> Initial] /\ undo_steps = <<>> /\ redo_steps = <<>>
  BY DEF Init
<1>2. synced \in [Rows -> Values]
  BY <1>1, InitialAssumption
<1>3. CleanRows(db, synced)
  BY <1>1, <1>2, CellsAssumption DEF CleanRows, Clean, Write, Row, Cells
<1>4. <<>> \in Seq(CleanSteps(synced))
  OBVIOUS
<1> QED
  BY <1>1, <1>2, <1>3, <1>4 DEF CInv

LEMMA NextClean ==
  ASSUME RInv, CInv, [Next]_vars
  PROVE  CInv'
<1>1. CASE UNCHANGED vars
  BY <1>1, StandingClean DEF vars
<1>2. CASE Next
  <2>1. CASE \E n \in Notes, v \in Values : UpdateNote(n, v)
    BY <2>1, UpdateNoteClean
  <2>2. CASE \E writes \in OpWrites(Rows) : OtherOp(writes) \/ NoUndoOp(writes)
    BY <2>2, OtherOpClean, NoUndoClean
  <2>3. CASE \E writes \in OpWrites(SkipCells) : SkipCells # {} /\ SkipUndoOp(writes)
    BY <2>3, SkipClean
  <2>4. CASE FailedOp
    BY <2>4, ClearingClean DEF FailedOp, CInv
  <2>5. CASE AddCustomStep
    BY <2>5, CustomClean
  <2>6. CASE Undo
    BY <2>6, UndoClean
  <2>7. CASE Redo
    BY <2>7, RedoClean
  <2>8. CASE \E i \in DOMAIN undo_steps : Merge(i)
    BY <2>8, MergeClean
  <2>9. CASE Sync
    BY <2>9, SyncClean
  <2>10. CASE Discard
    BY <2>10, ClearingClean DEF Discard, CInv
  <2>11. CASE Wait
    BY <2>11, StandingClean DEF Wait
  <2> QED
    BY <1>2, <2>1, <2>2, <2>3, <2>4, <2>5, <2>6, <2>7, <2>8, <2>9, <2>10, <2>11 DEF Next
<1> QED
  BY <1>1, <1>2

LEMMA CInvHolds == Spec => []CInv
<1>1. RInv /\ CInv /\ [Next]_vars => CInv'
  BY NextClean
<1> QED
  BY <1>1, InitClean, RInvHolds, PTL DEF Spec

(* A row that no sync would send is the row the last sync left on the      *)
(* server, whatever was undone, redone and merged since: a step that would *)
(* bring back a row without its mark brings back the server's.             *)
THEOREM CleanStaysSynced == Spec => []CleanIsSynced
<1>1. CInv => CleanIsSynced
  BY DEF CInv, CleanRows, Clean, CleanIsSynced, Cells
<1> QED
  BY <1>1, CInvHolds, PTL

(* The variables keep their types, and a step without changes is a custom  *)
(* one: whatever a step restores or merges is a row the collection held.   *)
THEOREM TypeCorrect == Spec => []TypeOK
<1>1. RInv /\ CInv => TypeOK
  <2> SUFFICES ASSUME RInv, CInv
               PROVE  TypeOK
    OBVIOUS
  <2> DEFINE K == {step \in UndoableOp : step.changes = <<>> => step.kind = "Custom"}
  <2>1. UndoSteps \subseteq K /\ RedoSteps \subseteq K
    BY DEF UndoSteps, RedoSteps, Kept
  <2>2. undo_steps \in Seq(UndoSteps) /\ redo_steps \in Seq(RedoSteps)
    BY DEF RInv, Typed
  <2> HIDE DEF K
  <2>3. undo_steps \in Seq(K) /\ redo_steps \in Seq(K)
    BY <2>1, <2>2
  <2> QED
    BY <2>3 DEF RInv, Typed, CInv, TypeOK, K
<1> QED
  BY <1>1, RInvHolds, CInvHolds, PTL
=============================================================================
