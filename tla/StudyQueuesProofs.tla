-------------------------- MODULE StudyQueuesProofs --------------------------
(***************************************************************************)
(* For every deck, preset and bound: the kept queues never hold an entry   *)
(* of a card that has been modified, the card shown and the answer to be   *)
(* redone are found in them, and undoing an answer shows its card again.   *)
(*                                                                         *)
(* The history that can be undone, and the one that can be redone, are     *)
(* read as timelines: the cards and the queues as they will be after each  *)
(* further step.  Answers, undoing and redoing move along them.            *)
(***************************************************************************)
EXTENDS StudyQueues, FiniteSetTheorems, WellFoundedInduction, TLAPS

(* What holds at the start and is handed on holds everywhere.              *)
LEMMA Handed ==
  ASSUME NEW n \in Nat, NEW S, 0 \in S, \A i \in 0..n : i # n /\ i \in S => i + 1 \in S
  PROVE  0..n \subseteq S
<1> SUFFICES ASSUME ~(0..n \subseteq S) PROVE FALSE OBVIOUS
<1> DEFINE T == {i \in Nat : i <= n /\ i \notin S}
           R == OpToRel(<, Nat)
<1>1. T \subseteq Nat /\ T # {} OBVIOUS
<1>2. PICK x \in T : \A y \in T : ~(<<y, x>> \in R)
  <2>1. IsWellFoundedOn(R, Nat) BY NatLessThanWellFounded
  <2> HIDE DEF R, T
  <2> QED BY <1>1, <2>1, WFMin
<1>3. \A y \in T : ~(y < x) BY <1>1, <1>2 DEF OpToRel
<1>4. x \in Nat /\ x <= n /\ x \notin S /\ x # 0 OBVIOUS
<1>5. x - 1 \in 0..n /\ x - 1 # n /\ x - 1 \in S BY <1>3, <1>4
<1>6. x - 1 + 1 \in S BY <1>5
<1> QED BY <1>4, <1>6

LEMMA LeastOf ==
  ASSUME NEW S \in SUBSET Nat, S # {}
  PROVE  Min(S) \in S /\ \A y \in S : Min(S) <= y
<1> DEFINE R == OpToRel(<, Nat)
<1>1. PICK x \in S : \A y \in S : ~(<<y, x>> \in R)
  <2>1. IsWellFoundedOn(R, Nat) BY NatLessThanWellFounded
  <2> HIDE DEF R
  <2> QED BY <2>1, WFMin
<1>2. \A y \in S : ~(y < x) BY <1>1 DEF OpToRel
<1>3. \A y \in S : x =< y BY <1>2
<1> QED BY <1>3 DEF Min

(* The values of a recursion that goes from 0 up to n.                     *)
Iterates(f, n, b, g) == f[0] = b /\ \A i \in 1..n : f[i] = g[i][f[i - 1]]

LEMMA IteratesExist ==
  ASSUME NEW n \in Nat, NEW X, NEW b \in X, NEW g \in [1..n -> [X -> X]]
  PROVE  \E f \in [0..n -> X] : Iterates(f, n, b, g)
<1> DEFINE S == {m \in 0..n : \E f \in [0..m -> X] : Iterates(f, m, b, g)}
<1>1. 0 \in S
  <2>1. [i \in 0..0 |-> b] \in [0..0 -> X] /\ Iterates([i \in 0..0 |-> b], 0, b, g) BY DEF Iterates
  <2> QED BY <2>1
<1>2. ASSUME NEW m \in 0..n, m # n, m \in S PROVE m + 1 \in S
  <2>1. PICK f \in [0..m -> X] : Iterates(f, m, b, g) BY <1>2
  <2> DEFINE h == [i \in 0..(m + 1) |-> IF i = m + 1 THEN g[m + 1][f[m]] ELSE f[i]]
  <2>2. g[m + 1][f[m]] \in X BY <1>2
  <2>3. h \in [0..(m + 1) -> X] BY <1>2, <2>2
  <2>4. h[0] = b BY <1>2, <2>1 DEF Iterates
  <2>5. ASSUME NEW i \in 1..(m + 1) PROVE h[i] = g[i][h[i - 1]]
    <3>1. CASE i = m + 1 BY <3>1, <1>2
    <3>2. CASE i # m + 1
      <4>1. i \in 1..m /\ h[i] = f[i] /\ h[i - 1] = f[i - 1] BY <3>2, <1>2
      <4> QED BY <4>1, <2>1 DEF Iterates
    <3> QED BY <3>1, <3>2
  <2>6. m + 1 \in 0..n BY <1>2
  <2> HIDE DEF h
  <2> QED BY <2>3, <2>4, <2>5, <2>6 DEF Iterates
<1>3. 0..n \subseteq S
  <2> HIDE DEF S
  <2> QED BY <1>1, <1>2, Handed
<1> QED BY <1>3

---------------------------------------------------------------------------
(* Sequences                                                               *)

LEMMA Joins ==
  ASSUME NEW E, NEW a \in Seq(E), NEW b \in Seq(E)
  PROVE  /\ a \o b \in Seq(E) /\ Len(a \o b) = Len(a) + Len(b)
         /\ \A j \in 1..(Len(a) + Len(b)) : (a \o b)[j] = IF j <= Len(a) THEN a[j] ELSE b[j - Len(a)]
  OBVIOUS

LEMMA RemovedAt ==
  ASSUME NEW E, NEW s \in Seq(E), NEW i \in DOMAIN s
  PROVE  /\ RemoveAt(s, i) \in Seq(E) /\ Len(RemoveAt(s, i)) = Len(s) - 1
         /\ \A j \in 1..(Len(s) - 1) : RemoveAt(s, i)[j] = IF j < i THEN s[j] ELSE s[j + 1]
<1> DEFINE a == SubSeq(s, 1, i - 1)
           b == SubSeq(s, i + 1, Len(s))
<1>1. i \in 1..Len(s) /\ Len(s) \in Nat OBVIOUS
<1>2. a \in Seq(E) /\ Len(a) = i - 1 /\ \A j \in 1..(i - 1) : a[j] = s[j] BY <1>1
<1>3. b \in Seq(E) /\ Len(b) = Len(s) - i /\ \A j \in 1..(Len(s) - i) : b[j] = s[i + j] BY <1>1
<1> HIDE DEF a, b
<1>4. /\ a \o b \in Seq(E) /\ Len(a \o b) = Len(a) + Len(b)
      /\ \A j \in 1..(Len(a) + Len(b)) : (a \o b)[j] = IF j <= Len(a) THEN a[j] ELSE b[j - Len(a)]
  BY <1>2, <1>3, Joins
<1>5. \A j \in 1..(Len(s) - 1) : (a \o b)[j] = IF j < i THEN s[j] ELSE s[j + 1]
  <2>1. SUFFICES ASSUME NEW j \in 1..(Len(s) - 1) PROVE (a \o b)[j] = IF j < i THEN s[j] ELSE s[j + 1] OBVIOUS
  <2>2. CASE j < i
    <3>1. j \in 1..(i - 1) /\ j <= Len(a) /\ j \in 1..(Len(a) + Len(b)) BY <1>1, <1>2, <1>3, <2>2
    <3>2. (a \o b)[j] = a[j] /\ a[j] = s[j] BY <1>2, <1>4, <3>1
    <3> QED BY <2>2, <3>2
  <2>3. CASE ~(j < i)
    <3>0. j \in 1..(Len(a) + Len(b)) /\ ~(j <= Len(a)) BY <1>1, <1>2, <1>3, <2>3
    <3>1. (a \o b)[j] = b[j - (i - 1)] BY <1>2, <1>4, <3>0
    <3>2. j - (i - 1) \in 1..(Len(s) - i) BY <1>1, <2>3
    <3>3. b[j - (i - 1)] = s[i + (j - (i - 1))] BY <1>3, <3>2
    <3>4. i + (j - (i - 1)) = j + 1 BY <1>1
    <3> QED BY <2>3, <3>1, <3>3, <3>4
  <2> QED BY <2>2, <2>3
<1>6. RemoveAt(s, i) = a \o b BY DEF RemoveAt, a, b
<1>7. Len(a) + Len(b) = Len(s) - 1 BY <1>1, <1>2, <1>3
<1> QED BY <1>4, <1>5, <1>6, <1>7

HasInserted(t, s, i, e) ==
  /\ Len(t) = Len(s) + 1
  /\ \A j \in 1..(Len(s) + 1) : t[j] = IF j < i THEN s[j] ELSE IF j = i THEN e ELSE s[j - 1]

LEMMA InsertedAt ==
  ASSUME NEW E, NEW s \in Seq(E), NEW e \in E, NEW i \in 1..(Len(s) + 1)
  PROVE  InsertAt(s, i, e) \in Seq(E) /\ HasInserted(InsertAt(s, i, e), s, i, e)
<1> DEFINE a == SubSeq(s, 1, i - 1)
           b == SubSeq(s, i, Len(s))
           c == a \o <<e>>
<1>1. i \in Nat \ {0} /\ i <= Len(s) + 1 /\ Len(s) \in Nat OBVIOUS
<1>2. a \in Seq(E) /\ Len(a) = i - 1 /\ \A j \in 1..(i - 1) : a[j] = s[j] BY <1>1
<1>3. b \in Seq(E) /\ Len(b) = Len(s) + 1 - i /\ \A j \in 1..(Len(s) + 1 - i) : b[j] = s[i + j - 1] BY <1>1
<1>4. /\ c \in Seq(E) /\ Len(c) = i /\ c[i] = e
      /\ \A j \in 1..(i - 1) : c[j] = s[j]
  <2> HIDE DEF a, b
  <2> QED BY <1>1, <1>2
<1> HIDE DEF a, b, c
<1>5. /\ c \o b \in Seq(E) /\ Len(c \o b) = Len(c) + Len(b)
      /\ \A j \in 1..(Len(c) + Len(b)) : (c \o b)[j] = IF j <= Len(c) THEN c[j] ELSE b[j - Len(c)]
  BY <1>3, <1>4, Joins
<1>6. \A j \in 1..(Len(s) + 1) : (c \o b)[j] = IF j < i THEN s[j] ELSE IF j = i THEN e ELSE s[j - 1]
  <2>1. SUFFICES ASSUME NEW j \in 1..(Len(s) + 1)
                 PROVE (c \o b)[j] = IF j < i THEN s[j] ELSE IF j = i THEN e ELSE s[j - 1]
    OBVIOUS
  <2>2. CASE j <= i
    <3>1. j \in 1..(Len(c) + Len(b)) /\ j <= Len(c) BY <1>1, <1>3, <1>4, <2>2
    <3>2. (c \o b)[j] = c[j] BY <1>5, <3>1
    <3>3. j = i \/ j \in 1..(i - 1) BY <1>1, <2>2
    <3> QED BY <1>1, <1>4, <3>2, <3>3
  <2>3. CASE ~(j <= i)
    <3>1. (c \o b)[j] = b[j - i] BY <1>1, <1>3, <1>4, <1>5, <2>3
    <3>2. j - i \in 1..(Len(s) + 1 - i) BY <1>1, <2>3
    <3>3. b[j - i] = s[i + (j - i) - 1] BY <1>3, <3>2
    <3>4. i + (j - i) - 1 = j - 1 BY <1>1
    <3> QED BY <2>3, <3>1, <3>3, <3>4
  <2> QED BY <2>2, <2>3
<1>7. InsertAt(s, i, e) = c \o b BY DEF InsertAt, a, b, c
<1>8. Len(c \o b) = Len(s) + 1 BY <1>1, <1>3, <1>4, <1>5
<1>9. HasInserted(c \o b, s, i, e) BY <1>6, <1>8 DEF HasInserted
<1> QED BY <1>5, <1>7, <1>9
---------------------------------------------------------------------------
(* What queues, entries and steps are                                      *)

LEntry == [id : Cards, mtime : Nat, due : Nat]
MEntry == [id : Cards, mtime : Nat, kind : MainKinds]
Queues == [main : Seq(MEntry), learning : Seq(LEntry), new : Int, review : Int, learn : Int,
           cutoff : Nat, day : Nat, built : Nat]

(* No two entries of a sequence are of the same card.                      *)
IdsOnce(s) == \A i, j \in DOMAIN s : s[i].id = s[j].id => i = j

LEMMA EntryForms ==
  /\ \A e \in LEntry : IsLearning(e)
  /\ \A e \in MEntry : ~IsLearning(e) /\ CountOf(e) \in {"new", "review", "learn"}
<1>1. \A e \in LEntry : "due" \in DOMAIN e BY DEF LEntry
<1>2. \A e \in MEntry : "due" \notin DOMAIN e BY DEF MEntry
<1>3. \A e \in MEntry : e.kind \in MainKinds BY DEF MEntry
<1> QED BY <1>1, <1>2, <1>3 DEF IsLearning, CountOf, MainKinds

LEMMA RemovedEntry ==
  ASSUME NEW s \in Seq(LEntry), IdsOnce(s), NEW i \in DOMAIN s
  PROVE  /\ RemoveAt(s, i) \in Seq(LEntry) /\ IdsOnce(RemoveAt(s, i))
         /\ Range(RemoveAt(s, i)) = Range(s) \ {s[i]}
<1> DEFINE t == RemoveAt(s, i)
<1>1. /\ t \in Seq(LEntry) /\ Len(t) = Len(s) - 1
      /\ \A j \in 1..(Len(s) - 1) : t[j] = IF j < i THEN s[j] ELSE s[j + 1]
  BY RemovedAt
<1> HIDE DEF t
<1>2. i \in 1..Len(s) /\ Len(s) \in Nat /\ DOMAIN s = 1..Len(s) /\ DOMAIN t = 1..(Len(s) - 1) BY <1>1
<1>3. \A j \in DOMAIN t : LET k == IF j < i THEN j ELSE j + 1 IN k \in DOMAIN s /\ k # i /\ t[j] = s[k]
  BY <1>1, <1>2
<1>4. IdsOnce(t)
  <2>1. SUFFICES ASSUME NEW j \in DOMAIN t, NEW k \in DOMAIN t, t[j].id = t[k].id PROVE j = k BY DEF IdsOnce
  <2>2. (IF j < i THEN j ELSE j + 1) = (IF k < i THEN k ELSE k + 1) BY <1>3, <2>1 DEF IdsOnce
  <2> QED BY <1>2, <2>2
<1>5. Range(t) \subseteq Range(s) \ {s[i]}
  <2>1. SUFFICES ASSUME NEW j \in DOMAIN t PROVE t[j] \in Range(s) \ {s[i]} BY DEF Range
  <2>2. PICK k \in DOMAIN s : k # i /\ t[j] = s[k] BY <1>3
  <2> QED BY <2>2 DEF IdsOnce, Range
<1>6. Range(s) \ {s[i]} \subseteq Range(t)
  <2>1. SUFFICES ASSUME NEW k \in DOMAIN s, k # i PROVE s[k] \in Range(t) BY DEF Range
  <2>2. CASE k < i
    <3>1. k \in DOMAIN t /\ t[k] = s[k] BY <1>1, <1>2, <2>2
    <3> QED BY <3>1 DEF Range
  <2>3. CASE k > i
    <3>1. k - 1 \in DOMAIN t /\ t[k - 1] = s[(k - 1) + 1] /\ (k - 1) + 1 = k BY <1>1, <1>2, <2>3
    <3> QED BY <3>1 DEF Range
  <2> QED BY <1>2, <2>1, <2>2, <2>3
<1> QED BY <1>1, <1>4, <1>5, <1>6 DEF t

LEMMA InsertedEntry ==
  ASSUME NEW s \in Seq(LEntry), IdsOnce(s), NEW e \in LEntry, \A x \in Range(s) : x.id # e.id,
         NEW i \in 1..(Len(s) + 1)
  PROVE  /\ InsertAt(s, i, e) \in Seq(LEntry) /\ IdsOnce(InsertAt(s, i, e))
         /\ Range(InsertAt(s, i, e)) = Range(s) \cup {e}
<1> DEFINE t == InsertAt(s, i, e)
<1>1. /\ t \in Seq(LEntry) /\ Len(t) = Len(s) + 1
      /\ \A j \in 1..(Len(s) + 1) : t[j] = IF j < i THEN s[j] ELSE IF j = i THEN e ELSE s[j - 1]
  <2> HIDE DEF t
  <2>1. t = InsertAt(s, i, e) BY DEF t
  <2>2. t \in Seq(LEntry) /\ HasInserted(t, s, i, e) BY <2>1, InsertedAt
  <2> QED BY <2>2 DEF HasInserted
<1> HIDE DEF t
<1>2. i \in Nat /\ Len(s) \in Nat /\ DOMAIN s = 1..Len(s) /\ DOMAIN t = 1..(Len(s) + 1) /\ i \in DOMAIN t BY <1>1
<1>3. \A j \in DOMAIN t : j # i => LET k == IF j < i THEN j ELSE j - 1 IN k \in DOMAIN s /\ t[j] = s[k]
  BY <1>1, <1>2
<1>4. t[i] = e BY <1>1, <1>2
<1>5. \A j \in DOMAIN t : j # i => t[j] \in Range(s) BY <1>3 DEF Range
<1>6. IdsOnce(t)
  <2>1. SUFFICES ASSUME NEW j \in DOMAIN t, NEW k \in DOMAIN t, t[j].id = t[k].id PROVE j = k BY DEF IdsOnce
  <2>2. CASE j = i \/ k = i BY <1>4, <1>5, <2>1, <2>2
  <2>3. CASE j # i /\ k # i
    <3>1. (IF j < i THEN j ELSE j - 1) = (IF k < i THEN k ELSE k - 1) BY <1>3, <2>1, <2>3 DEF IdsOnce
    <3> QED BY <1>2, <2>3, <3>1
  <2> QED BY <2>2, <2>3
<1>7. Range(t) \subseteq Range(s) \cup {e} BY <1>4, <1>5 DEF Range
<1>8. ASSUME NEW k \in DOMAIN s PROVE s[k] \in Range(t)
  <2>1. CASE k < i
    <3>1. k \in DOMAIN t /\ t[k] = s[k] BY <1>1, <1>2, <2>1
    <3> QED BY <3>1 DEF Range
  <2>2. CASE ~(k < i)
    <3>1. k + 1 \in DOMAIN t /\ t[k + 1] = s[(k + 1) - 1] /\ (k + 1) - 1 = k BY <1>1, <1>2, <2>2
    <3> QED BY <3>1 DEF Range
  <2> QED BY <2>1, <2>2
<1>9. e \in Range(t) BY <1>2, <1>4 DEF Range
<1>10. Range(s) \cup {e} \subseteq Range(t) BY <1>8, <1>9 DEF Range
<1> QED BY <1>1, <1>6, <1>7, <1>10 DEF t

---------------------------------------------------------------------------
(* What the operators on queues keep                                       *)

SameTimes(q, p) == p.cutoff = q.cutoff /\ p.day = q.day /\ p.built = q.built

LEMMA CountSet ==
  ASSUME NEW q \in Queues, NEW k \in {"new", "review", "learn"}, NEW v \in Int
  PROVE  /\ [q EXCEPT ![k] = v] \in Queues /\ [q EXCEPT ![k] = v].main = q.main
         /\ [q EXCEPT ![k] = v].learning = q.learning /\ SameTimes(q, [q EXCEPT ![k] = v])
<1>1. CASE k = "new" BY <1>1 DEF Queues, SameTimes
<1>2. CASE k = "review" BY <1>2 DEF Queues, SameTimes
<1>3. CASE k = "learn" BY <1>3 DEF Queues, SameTimes
<1> QED BY <1>1, <1>2, <1>3

LEMMA Counts == ASSUME NEW q \in Queues PROVE \A k \in {"new", "review", "learn"} : q[k] \in Int
  BY DEF Queues

LEMMA LearningIndex ==
  ASSUME NEW q \in Queues, NEW c, Learning(q, c) # {}
  PROVE  LET i == CHOOSE i \in Learning(q, c) : TRUE
         IN  i \in DOMAIN q.learning /\ q.learning[i].id = c
  BY DEF Learning

LEMMA PoppedKeeps ==
  ASSUME NEW q \in Queues, IdsOnce(q.learning), NEW c, CanPop(q, c)
  PROVE  /\ Popped(q, c) \in Queues /\ SameTimes(q, Popped(q, c)) /\ IdsOnce(Popped(q, c).learning)
         /\ EntryOf(q, c).id = c
         /\ \/ /\ Learning(q, c) # {} /\ EntryOf(q, c) \in Range(q.learning)
               /\ Popped(q, c).main = q.main /\ Range(Popped(q, c).learning) = Range(q.learning) \ {EntryOf(q, c)}
            \/ /\ Learning(q, c) = {} /\ q.main # <<>> /\ EntryOf(q, c) = Head(q.main)
               /\ Popped(q, c).main = Tail(q.main) /\ Popped(q, c).learning = q.learning
<1> DEFINE e == EntryOf(q, c)
<1>0. q.main \in Seq(MEntry) /\ q.learning \in Seq(LEntry) BY DEF Queues
<1>1. CASE Learning(q, c) # {}
  <2> DEFINE i == CHOOSE i \in Learning(q, c) : TRUE
             short == [q EXCEPT !.learning = RemoveAt(@, i)]
  <2>1. i \in DOMAIN q.learning /\ q.learning[i].id = c BY <1>1 DEF Learning
  <2>2. e = q.learning[i] BY <1>1 DEF EntryOf
  <2> HIDE DEF i
  <2>3. e \in LEntry /\ e \in Range(q.learning) /\ e.id = c BY <1>0, <2>1, <2>2 DEF Range
  <2>4. /\ RemoveAt(q.learning, i) \in Seq(LEntry) /\ IdsOnce(RemoveAt(q.learning, i))
        /\ Range(RemoveAt(q.learning, i)) = Range(q.learning) \ {e}
    BY <1>0, <2>1, <2>2, RemovedEntry
  <2>5. /\ short \in Queues /\ short.main = q.main /\ short.learning = RemoveAt(q.learning, i)
        /\ SameTimes(q, short) /\ short["learn"] \in Int
    BY <2>4 DEF Queues, SameTimes
  <2>6. IsLearning(e) BY <2>3, EntryForms
  <2>7. Popped(q, c) = [short EXCEPT !["learn"] = AtLeast0(short["learn"] - 1)]
    <3>1. CountOf(e) = "learn" BY <2>6 DEF CountOf
    <3>2. Popped(q, c) = [short EXCEPT ![CountOf(e)] = AtLeast0(short[CountOf(e)] - 1)] BY <2>6 DEF Popped, i
    <3> QED BY <3>1, <3>2
  <2>8. AtLeast0(short["learn"] - 1) \in Int BY <2>5 DEF AtLeast0
  <2> HIDE DEF short, e
  <2> DEFINE v == AtLeast0(short["learn"] - 1)
             p == [short EXCEPT !["learn"] = v]
  <2>8a. v \in Int /\ short \in Queues /\ "learn" \in {"new", "review", "learn"} BY <2>5, <2>7, <2>8
  <2> HIDE DEF v
  <2>8b. p \in Queues /\ p.main = short.main /\ p.learning = short.learning /\ SameTimes(short, p) BY <2>8a, CountSet
  <2>8c. Popped(q, c) = p BY <2>7 DEF v
  <2> HIDE DEF p
  <2>9. /\ Popped(q, c) \in Queues /\ Popped(q, c).main = short.main
        /\ Popped(q, c).learning = short.learning /\ SameTimes(short, Popped(q, c))
    BY <2>8b, <2>8c
  <2>10. SameTimes(q, Popped(q, c)) BY <2>5, <2>9 DEF SameTimes
  <2> QED BY <1>1, <2>3, <2>4, <2>5, <2>9, <2>10 DEF e
<1>2. CASE Learning(q, c) = {}
  <2> DEFINE short == [q EXCEPT !.main = Tail(@)]
  <2>1. q.main # <<>> /\ Head(q.main).id = c BY <1>2 DEF CanPop
  <2>2. e = Head(q.main) BY <1>2 DEF EntryOf
  <2>3. e \in MEntry /\ Tail(q.main) \in Seq(MEntry) BY <1>0, <2>1, <2>2
  <2>4. short \in Queues /\ short.main = Tail(q.main) /\ short.learning = q.learning /\ SameTimes(q, short)
    BY <2>3 DEF Queues, SameTimes
  <2>5. ~IsLearning(e) /\ CountOf(e) \in {"new", "review", "learn"} BY <2>3, EntryForms
  <2>6. Popped(q, c) = [short EXCEPT ![CountOf(e)] = AtLeast0(short[CountOf(e)] - 1)] BY <2>5 DEF Popped
  <2>7. short[CountOf(e)] \in Int BY <2>4, <2>5, Counts
  <2>8. AtLeast0(short[CountOf(e)] - 1) \in Int BY <2>7 DEF AtLeast0
  <2> HIDE DEF short, e
  <2> DEFINE v == AtLeast0(short[CountOf(e)] - 1)
             p == [short EXCEPT ![CountOf(e)] = v]
  <2>8a. v \in Int /\ short \in Queues /\ CountOf(e) \in {"new", "review", "learn"} BY <2>4, <2>5, <2>6, <2>8
  <2> HIDE DEF v
  <2>8b. p \in Queues /\ p.main = short.main /\ p.learning = short.learning /\ SameTimes(short, p) BY <2>8a, CountSet
  <2>8c. Popped(q, c) = p BY <2>6 DEF v
  <2> HIDE DEF p
  <2>9. /\ Popped(q, c) \in Queues /\ Popped(q, c).main = short.main
        /\ Popped(q, c).learning = short.learning /\ SameTimes(short, Popped(q, c))
    BY <2>8b, <2>8c
  <2>10. SameTimes(q, Popped(q, c)) BY <2>4, <2>9 DEF SameTimes
  <2> QED BY <1>2, <2>1, <2>2, <2>4, <2>9, <2>10 DEF e
<1> QED BY <1>1, <1>2
(* The same for any count, as the operators write it.                      *)
LEMMA Recounted ==
  ASSUME NEW q \in Queues, NEW k \in {"new", "review", "learn"}, NEW v \in Int, NEW p, p = [q EXCEPT ![k] = v]
  PROVE  p \in Queues /\ p.main = q.main /\ p.learning = q.learning /\ SameTimes(q, p)
  BY CountSet

LEMMA PushedKeeps ==
  ASSUME NEW q \in Queues, IdsOnce(q.learning), NEW e \in MEntry \cup LEntry, \A x \in Range(q.learning) : x.id # e.id
  PROVE  /\ Pushed(q, e) \in Queues /\ SameTimes(q, Pushed(q, e)) /\ IdsOnce(Pushed(q, e).learning)
         /\ e \in LEntry => /\ Pushed(q, e).main = q.main /\ Range(Pushed(q, e).learning) = Range(q.learning) \cup {e}
                            /\ Pushed(q, e).learning # <<>> /\ Pushed(q, e).learning[1] = e
         /\ e \in MEntry => Pushed(q, e).main = <<e>> \o q.main /\ Pushed(q, e).learning = q.learning
<1>0. q.main \in Seq(MEntry) /\ q.learning \in Seq(LEntry) BY DEF Queues
<1>1. CASE e \in LEntry
  <2> DEFINE t == <<e>> \o q.learning
             long == [q EXCEPT !.learning = t]
             v == long["learn"] + 1
             p == [long EXCEPT !["learn"] = v]
  <2>1. IsLearning(e) /\ e \notin MEntry BY <1>1, EntryForms
  <2>2. t = InsertAt(q.learning, 1, e) /\ 1 \in 1..(Len(q.learning) + 1)
    <3>1. SubSeq(q.learning, 1, 0) = <<>> /\ SubSeq(q.learning, 1, Len(q.learning)) = q.learning BY <1>0
    <3> QED BY <1>0, <1>1, <3>1 DEF InsertAt
  <2>4. t # <<>> /\ t[1] = e BY <1>0, <1>1
  <2> HIDE DEF t
  <2>3. t \in Seq(LEntry) /\ IdsOnce(t) /\ Range(t) = Range(q.learning) \cup {e} BY <1>0, <1>1, <2>2, InsertedEntry
  <2>5. long \in Queues /\ long.main = q.main /\ long.learning = t /\ SameTimes(q, long) BY <2>3 DEF Queues, SameTimes
  <2>6. Pushed(q, e) = p
    <3>1. CountOf(e) = "learn" BY <2>1 DEF CountOf
    <3> QED BY <2>1, <3>1 DEF Pushed, t
  <2> HIDE DEF long
  <2>7. v \in Int BY <2>5, Counts
  <2> HIDE DEF v
  <2>8. p \in Queues /\ p.main = long.main /\ p.learning = long.learning /\ SameTimes(long, p) BY <2>5, <2>7, Recounted
  <2> HIDE DEF p
  <2>9. SameTimes(q, p) BY <2>5, <2>8 DEF SameTimes
  <2> QED BY <2>1, <2>3, <2>4, <2>5, <2>6, <2>8, <2>9
<1>2. CASE e \in MEntry
  <2> DEFINE t == <<e>> \o q.main
             long == [q EXCEPT !.main = t]
             k == CountOf(e)
             v == long[k] + 1
             p == [long EXCEPT ![k] = v]
  <2>1. ~IsLearning(e) /\ e \notin LEntry /\ k \in {"new", "review", "learn"} BY <1>2, EntryForms
  <2>2. t \in Seq(MEntry) BY <1>0, <1>2
  <2>3. Pushed(q, e) = p BY <2>1 DEF Pushed
  <2> HIDE DEF t, k
  <2>4. long \in Queues /\ long.main = t /\ long.learning = q.learning /\ SameTimes(q, long) BY <2>2 DEF Queues, SameTimes
  <2> HIDE DEF long
  <2>5. v \in Int BY <2>1, <2>4, Counts
  <2> HIDE DEF v
  <2>6. p \in Queues /\ p.main = long.main /\ p.learning = long.learning /\ SameTimes(long, p) BY <2>1, <2>4, <2>5, Recounted
  <2> HIDE DEF p
  <2>7. SameTimes(q, p) BY <2>4, <2>6 DEF SameTimes
  <2> QED BY <2>1, <2>3, <2>4, <2>6, <2>7 DEF t
<1> QED BY <1>1, <1>2

LEMMA InsertedKeeps ==
  ASSUME NEW q \in Queues, IdsOnce(q.learning), NEW e \in LEntry, \A x \in Range(q.learning) : x.id # e.id,
         NEW p \in Inserted(q, e)
  PROVE  /\ p \in Queues /\ SameTimes(q, p) /\ IdsOnce(p.learning)
         /\ p.main = q.main /\ Range(p.learning) = Range(q.learning) \cup {e}
<1>0. q.learning \in Seq(LEntry) BY DEF Queues
<1>1. PICK i \in Places(q, e) : p = [q EXCEPT !.learning = InsertAt(@, i, e),
                                              !.learn = IF e.due <= AheadCutoff(q) THEN @ + 1 ELSE @]
  BY DEF Inserted
<1> DEFINE t == InsertAt(q.learning, i, e)
           v == IF e.due <= AheadCutoff(q) THEN q.learn + 1 ELSE q.learn
<1>2. i \in 1..(Len(q.learning) + 1) BY <1>1 DEF Places
<1>3. t \in Seq(LEntry) /\ IdsOnce(t) /\ Range(t) = Range(q.learning) \cup {e} BY <1>0, <1>2, InsertedEntry
<1>4. v \in Int BY DEF Queues
<1>5. p = [q EXCEPT !.learning = t, !.learn = v] BY <1>1
<1> HIDE DEF t, v
<1> QED BY <1>3, <1>4, <1>5 DEF Queues, SameTimes

(* At most one entry is put back, and the operators choose where.          *)
LEMMA InsertedAllKeeps ==
  ASSUME NEW q \in Queues, IdsOnce(q.learning), NEW r \in SUBSET LEntry, \A e, f \in r : e = f,
         \A e \in r : \A x \in Range(q.learning) : x.id # e.id,
         NEW p \in InsertedAll(q, r)
  PROVE  /\ p \in Queues /\ SameTimes(q, p) /\ IdsOnce(p.learning)
         /\ p.main = q.main /\ Range(p.learning) = Range(q.learning) \cup r
<1>1. CASE r = {} BY <1>1 DEF InsertedAll, SameTimes
<1>2. CASE r # {}
  <2>1. PICK e \in r : p \in Inserted(q, e) BY <1>2 DEF InsertedAll
  <2>2. r = {e} /\ e \in LEntry BY <2>1
  <2> QED BY <2>1, <2>2, InsertedKeeps
<1> QED BY <1>1, <1>2

LEMMA RemovedKeeps ==
  ASSUME NEW q \in Queues, IdsOnce(q.learning), NEW e \in Range(q.learning)
  PROVE  /\ Removed(q, e.id) \in Queues /\ SameTimes(q, Removed(q, e.id)) /\ IdsOnce(Removed(q, e.id).learning)
         /\ Removed(q, e.id).main = q.main /\ Range(Removed(q, e.id).learning) = Range(q.learning) \ {e}
<1> DEFINE i == CHOOSE i \in Learning(q, e.id) : TRUE
           t == RemoveAt(q.learning, i)
           v == IF q.learning[i].due <= AheadCutoff(q) THEN AtLeast0(q.learn - 1) ELSE q.learn
<1>0. q.learning \in Seq(LEntry) BY DEF Queues
<1>1. PICK k \in DOMAIN q.learning : q.learning[k] = e BY DEF Range
<1>2. k \in Learning(q, e.id) BY <1>1 DEF Learning
<1>3. i \in Learning(q, e.id) BY <1>2
<1>4. i = k BY <1>1, <1>3 DEF Learning, IdsOnce
<1>5. t \in Seq(LEntry) /\ IdsOnce(t) /\ Range(t) = Range(q.learning) \ {e} BY <1>0, <1>1, <1>4, RemovedEntry
<1>6. v \in Int BY DEF Queues, AtLeast0
<1>7. Removed(q, e.id) = [q EXCEPT !.learning = t, !.learn = v] BY DEF Removed
<1> HIDE DEF t, v, i
<1> QED BY <1>5, <1>6, <1>7 DEF Queues, SameTimes

LEMMA NowIsNat == ASSUME now \in Nat PROVE Today \in Nat /\ NextDayAt \in Nat
<1>1. DayLength \in Nat \ {0} BY TimeAssumption
<1>2. now \div DayLength \in Nat BY <1>1
<1> QED BY <1>1, <1>2 DEF Today, Day, NextDayAt

LEMMA DueIsFinite == ASSUME NEW q \in Queues, NEW t PROVE IsFiniteSet(DueBy(q, t)) /\ DueBy(q, t) \subseteq Nat
<1>1. DOMAIN q.learning = 1..Len(q.learning) /\ Len(q.learning) \in Nat BY DEF Queues
<1>2. IsFiniteSet(1..Len(q.learning)) BY <1>1, FS_Interval
<1>3. DueBy(q, t) \in SUBSET (1..Len(q.learning)) BY <1>1 DEF DueBy
<1> QED BY <1>1, <1>2, <1>3, FS_Subset

(* Moving the cutoff on changes nothing but it and a count.                *)
LEMMA MovedKeeps ==
  ASSUME NEW q \in Queues, now \in Nat
  PROVE  /\ MovedCutoff(q) \in Queues /\ MovedCutoff(q).main = q.main /\ MovedCutoff(q).learning = q.learning
         /\ MovedCutoff(q).built = q.built /\ MovedCutoff(q).day = q.day
<1> DEFINE D == DueBy(q, now + LearnAhead) \ DueBy(q, AheadCutoff(q))
           v == q.learn + Cardinality(D)
<1>1. IsFiniteSet(D) BY DueIsFinite, FS_Subset
<1>2. v \in Int BY <1>1, FS_CardinalityType DEF Queues
<1>3. MovedCutoff(q) = [q EXCEPT !.cutoff = now, !.learn = v] BY DEF MovedCutoff
<1> HIDE DEF v
<1> QED BY <1>2, <1>3 DEF Queues

LEMMA CountedKeeps ==
  ASSUME NEW q \in Queues, now \in Nat
  PROVE  /\ Counted(q) \in Queues /\ Counted(q).main = q.main /\ Counted(q).learning = q.learning
         /\ Counted(q).built = q.built /\ Counted(q).day = q.day
  BY MovedKeeps DEF Counted
LEMMA RestoredKeeps ==
  ASSUME NEW q \in Queues, NEW u, u.cutoff \in Nat, u.learn \in Int
  PROVE  /\ RestoredCutoff(q, u) \in Queues /\ RestoredCutoff(q, u).main = q.main
         /\ RestoredCutoff(q, u).learning = q.learning /\ RestoredCutoff(q, u).built = q.built
         /\ RestoredCutoff(q, u).cutoff = u.cutoff
  BY DEF RestoredCutoff, Queues

---------------------------------------------------------------------------
(* Timelines                                                               *)

CardTables == [Cards -> Row]
Rows == UNION {[D -> Row] : D \in SUBSET Cards}
Update == [entry : MEntry \cup LEntry, requeue : SUBSET LEntry, built : Nat, cutoff : Nat, learn : Int]
Studied == [day : Nat, new : Nat, review : Nat]
Recorded == {s \in [op : {"answer", "bury", "bring_back", "flag"}, rows : Rows, studied : Studied,
                    update : Update \cup {NoUpdate}] : s.update \in Update <=> s.op = "answer"}

(* A moment: the cards, the main queue and the learning cards in no order. *)
Moments == [cards : CardTables, main : Seq(MEntry), learning : SUBSET LEntry]
Moment(table, q) ==
  [cards |-> table, main |-> IF q = NoQueues THEN <<>> ELSE q.main,
   learning |-> IF q = NoQueues THEN {} ELSE Range(q.learning)]
Queued(m) == Range(m.main) \cup m.learning

(* The entries are of different cards, current or of an overlooked card,   *)
(* and a card queued with a sibling is of a kind that the preset does not   *)
(* bury, or overlooks.                                                     *)
Apart(bury, kind) == kind \in bury => Overlooks(bury, kind)
Good(m, bury) ==
  /\ IdsOnce(m.main)
  /\ \A e, f \in m.learning : e.id = f.id => e = f
  /\ \A e \in Range(m.main), f \in m.learning : e.id # f.id
  /\ \A e \in Queued(m) : e.mtime = m.cards[e.id].mod \/ Overlooked(m.cards[e.id], bury)
  /\ \A e, f \in Queued(m) : e.id # f.id /\ Notes[e.id] = Notes[f.id] => Apart(bury, m.cards[e.id].kind)

(* The entry was the first to show.                                        *)
OnTop(m, e, cutoff) ==
  LET dueBy(t) == {f \in m.learning : f.due <= t}
  IN  \/ e \in dueBy(cutoff)
      \/ dueBy(cutoff) = {} /\ m.main # <<>> /\ e = Head(m.main)
      \/ dueBy(cutoff) = {} /\ m.main = <<>> /\ e \in dueBy(cutoff + LearnAhead)

(* What an answer did to the queues.                                       *)
Patched(old, new, u) ==
  /\ \A e \in u.requeue : e.id = u.entry.id
  /\ \A e, f \in u.requeue : e = f
  /\ OnTop(old, u.entry, u.cutoff)
  /\ \/ /\ u.entry \in old.learning
        /\ new.main = old.main
        /\ new.learning = (old.learning \ {u.entry}) \cup u.requeue
     \/ /\ u.entry \in MEntry /\ old.main # <<>> /\ u.entry = Head(old.main)
        /\ new.main = Tail(old.main)
        /\ new.learning = old.learning \cup u.requeue

(* The line of moments along a history, as far as the queues go.           *)
Live(step, built) == step.op = "flag" \/ step.update.built = built
Reach(steps, j, built) == \A i \in 1..j : Live(steps[i], built)
Contiguous(steps, built) == \A j \in 1..Len(steps) : steps[j].update.built = built => Reach(steps, j, built)
CardsAlong(t, steps) ==
  \A j \in 1..Len(steps) :
    /\ t[j + 1].cards = Written(steps[j].rows, t[j].cards)
    /\ steps[j].op = "flag" => t[j + 1].cards = t[j].cards
Leads(m, next, step, back) ==
  IF step.op = "flag" THEN next = m
  ELSE IF back THEN Patched(next, m, step.update) ELSE Patched(m, next, step.update)
QueuesAlong(t, steps, built, bury, back) ==
  \A j \in 1..Len(steps) : Reach(steps, j, built) => Good(t[j + 1], bury) /\ Leads(t[j], t[j + 1], steps[j], back)

CardsLine(steps, table) == \E t \in [Nat -> Moments] : t[1].cards = table /\ CardsAlong(t, steps)
Line(steps, m, built, bury, back) ==
  /\ Contiguous(steps, built)
  /\ \E t \in [Nat -> Moments] : t[1] = m /\ CardsAlong(t, steps) /\ QueuesAlong(t, steps, built, bury, back)

LEMMA LineOfCards ==
  ASSUME NEW steps, NEW m, NEW built, NEW bury, NEW back, Line(steps, m, built, bury, back)
  PROVE  CardsLine(steps, m.cards)
  BY DEF Line, CardsLine

LEMMA NoLine ==
  ASSUME NEW m \in Moments, NEW built, NEW bury, NEW back
  PROVE  Line(<<>>, m, built, bury, back)
<1>1. [j \in Nat |-> m] \in [Nat -> Moments] /\ [j \in Nat |-> m][1] = m OBVIOUS
<1>2. 1..Len(<<>>) = {} OBVIOUS
<1> QED BY <1>1, <1>2 DEF Line, Contiguous, CardsAlong, QueuesAlong

(* Steps in front and steps taken away.                                    *)
LEMMA Longer ==
  ASSUME NEW steps \in Seq(Recorded), NEW step \in Recorded
  PROVE  LET l == <<step>> \o steps
         IN  l \in Seq(Recorded) /\ Len(l) = Len(steps) + 1 /\ l[1] = step /\ \A j \in 1..Len(steps) : l[j + 1] = steps[j]
  OBVIOUS

LEMMA ReachLonger ==
  ASSUME NEW steps \in Seq(Recorded), NEW step \in Recorded, NEW built, NEW j \in 1..Len(steps)
  PROVE  /\ Reach(<<step>> \o steps, j + 1, built) <=> Live(step, built) /\ Reach(steps, j, built)
         /\ Reach(<<step>> \o steps, 1, built) <=> Live(step, built)
<1> DEFINE l == <<step>> \o steps
<1>1. Len(l) = Len(steps) + 1 /\ l[1] = step /\ \A i \in 1..Len(steps) : l[i + 1] = steps[i] BY Longer
<1> HIDE DEF l
<1>2. ASSUME Reach(l, j + 1, built) PROVE Live(step, built) /\ Reach(steps, j, built)
  <2>1. Live(l[1], built) BY <1>2 DEF Reach
  <2>2. ASSUME NEW i \in 1..j PROVE Live(steps[i], built)
    <3>1. i + 1 \in 1..(j + 1) /\ i \in 1..Len(steps) OBVIOUS
    <3> QED BY <1>1, <1>2, <3>1 DEF Reach
  <2> QED BY <1>1, <2>1, <2>2 DEF Reach
<1>3. ASSUME Live(step, built), Reach(steps, j, built) PROVE Reach(l, j + 1, built)
  <2>1. SUFFICES ASSUME NEW i \in 1..(j + 1) PROVE Live(l[i], built) BY DEF Reach
  <2>2. CASE i = 1 BY <1>1, <1>3, <2>2
  <2>3. CASE i # 1
    <3>1. i - 1 \in 1..j /\ i - 1 \in 1..Len(steps) /\ l[(i - 1) + 1] = l[i] BY <2>3
    <3> QED BY <1>1, <1>3, <3>1 DEF Reach
  <2> QED BY <2>2, <2>3
<1>4. Reach(l, 1, built) <=> Live(step, built) BY <1>1 DEF Reach
<1> QED BY <1>2, <1>3, <1>4 DEF l

LEMMA CardsLonger ==
  ASSUME NEW steps \in Seq(Recorded), NEW step \in Recorded, NEW table \in CardTables, NEW old,
         CardsLine(steps, old), old = Written(step.rows, table), step.op = "flag" => old = table
  PROVE  CardsLine(<<step>> \o steps, table)
<1> DEFINE l == <<step>> \o steps
<1>1. Len(l) = Len(steps) + 1 /\ l[1] = step /\ \A i \in 1..Len(steps) : l[i + 1] = steps[i] BY Longer
<1>2. PICK t \in [Nat -> Moments] : t[1].cards = old /\ CardsAlong(t, steps) BY DEF CardsLine
<1>3. PICK m \in Moments : m.cards = table
  <2>1. [cards |-> table, main |-> <<>>, learning |-> {}] \in Moments BY DEF Moments
  <2> QED BY <2>1
<1> DEFINE u == [j \in Nat |-> IF j = 1 THEN m ELSE IF j = 0 THEN t[0] ELSE t[j - 1]]
<1>4. u \in [Nat -> Moments] /\ u[1] = m /\ \A j \in Nat \ {0} : u[j + 1] = t[j] BY <1>2, <1>3
<1> HIDE DEF u, l
<1>5. CardsAlong(u, l)
  <2>1. SUFFICES ASSUME NEW j \in 1..(Len(steps) + 1)
                 PROVE u[j + 1].cards = Written(l[j].rows, u[j].cards) /\ (l[j].op = "flag" => u[j + 1].cards = u[j].cards)
    BY <1>1 DEF CardsAlong
  <2>2. CASE j = 1 BY <1>1, <1>2, <1>3, <1>4, <2>2
  <2>3. CASE j # 1
    <3>1. PICK i \in 1..Len(steps) : j = i + 1 BY <2>3
    <3>0. i \in Nat \ {0} /\ i + 1 \in Nat \ {0} OBVIOUS
    <3>2. u[j + 1] = t[i + 1] /\ u[j] = t[i] /\ l[j] = steps[i]
      <4>1. u[i + 1] = t[i] /\ u[(i + 1) + 1] = t[i + 1] BY <1>4, <3>0
      <4> QED BY <1>1, <3>1, <4>1
    <3> QED BY <1>2, <3>1, <3>2 DEF CardsAlong
  <2> QED BY <2>2, <2>3
<1> QED BY <1>3, <1>4, <1>5 DEF CardsLine, l

LEMMA LineLonger ==
  ASSUME NEW steps \in Seq(Recorded), NEW step \in Recorded, NEW m \in Moments, NEW next \in Moments,
         NEW built, NEW bury, NEW back, Line(steps, next, built, bury, back), Good(next, bury),
         next.cards = Written(step.rows, m.cards), Live(step, built), Leads(m, next, step, back)
  PROVE  Line(<<step>> \o steps, m, built, bury, back)
<1> DEFINE l == <<step>> \o steps
<1>1. Len(l) = Len(steps) + 1 /\ l[1] = step /\ \A i \in 1..Len(steps) : l[i + 1] = steps[i] BY Longer
<1>2. PICK t \in [Nat -> Moments] : t[1] = next /\ CardsAlong(t, steps) /\ QueuesAlong(t, steps, built, bury, back) BY DEF Line
<1> DEFINE u == [j \in Nat |-> IF j = 1 THEN m ELSE IF j = 0 THEN t[0] ELSE t[j - 1]]
<1>4. u \in [Nat -> Moments] /\ u[1] = m /\ \A j \in Nat \ {0} : u[j + 1] = t[j] BY <1>2
<1>5. \A i \in 1..Len(steps) : Reach(l, i + 1, built) <=> Reach(steps, i, built) BY ReachLonger
<1>6. Reach(l, 1, built) BY <1>1 DEF Reach
<1> HIDE DEF u, l
<1>7. ASSUME NEW j \in 1..(Len(steps) + 1), j # 1
      PROVE \E i \in 1..Len(steps) : j = i + 1 /\ u[j + 1] = t[i + 1] /\ u[j] = t[i] /\ l[j] = steps[i]
  <2>1. PICK i \in 1..Len(steps) : j = i + 1 BY <1>7
  <2>2. i \in Nat \ {0} /\ i + 1 \in Nat \ {0} OBVIOUS
  <2>3. u[i + 1] = t[i] /\ u[(i + 1) + 1] = t[i + 1] BY <1>4, <2>2
  <2> QED BY <1>1, <2>1, <2>3
<1>8. u[2] = next /\ u[1] = m BY <1>2, <1>4
<1>9. CardsAlong(u, l)
  <2>1. SUFFICES ASSUME NEW j \in 1..(Len(steps) + 1)
                 PROVE u[j + 1].cards = Written(l[j].rows, u[j].cards) /\ (l[j].op = "flag" => u[j + 1].cards = u[j].cards)
    BY <1>1 DEF CardsAlong
  <2>2. CASE j = 1 BY <1>1, <1>8, <2>2 DEF Leads
  <2>3. CASE j # 1 BY <1>2, <1>7, <2>3 DEF CardsAlong
  <2> QED BY <2>2, <2>3
<1>10. QueuesAlong(u, l, built, bury, back)
  <2>1. SUFFICES ASSUME NEW j \in 1..(Len(steps) + 1), Reach(l, j, built)
                 PROVE Good(u[j + 1], bury) /\ Leads(u[j], u[j + 1], l[j], back)
    BY <1>1 DEF QueuesAlong
  <2>2. CASE j = 1 BY <1>1, <1>8, <2>2
  <2>3. CASE j # 1 BY <1>2, <1>5, <1>7, <2>1, <2>3 DEF QueuesAlong
  <2> QED BY <2>2, <2>3
<1>11. Contiguous(l, built)
  <2>1. SUFFICES ASSUME NEW j \in 1..(Len(steps) + 1), l[j].update.built = built PROVE Reach(l, j, built)
    BY <1>1 DEF Contiguous
  <2>2. CASE j = 1 BY <1>6, <2>2
  <2>3. CASE j # 1 BY <1>5, <1>7, <2>1, <2>3 DEF Line, Contiguous
  <2> QED BY <2>2, <2>3
<1> QED BY <1>4, <1>9, <1>10, <1>11 DEF Line, l
LEMMA Shorter ==
  ASSUME NEW steps \in Seq(Recorded), steps # <<>>
  PROVE  /\ Tail(steps) \in Seq(Recorded) /\ Len(Tail(steps)) = Len(steps) - 1 /\ Len(steps) \in Nat \ {0}
         /\ Head(steps) = steps[1] /\ Head(steps) \in Recorded
         /\ \A j \in 1..(Len(steps) - 1) : Tail(steps)[j] = steps[j + 1]
  OBVIOUS

LEMMA ReachShorter ==
  ASSUME NEW steps \in Seq(Recorded), steps # <<>>, NEW built, NEW j \in 1..(Len(steps) - 1), Live(Head(steps), built)
  PROVE  Reach(steps, j + 1, built) <=> Reach(Tail(steps), j, built)
<1> DEFINE r == Tail(steps)
<1>1. Len(steps) \in Nat \ {0} /\ Head(steps) = steps[1] /\ \A i \in 1..(Len(steps) - 1) : r[i] = steps[i + 1] BY Shorter
<1> HIDE DEF r
<1>2. ASSUME Reach(steps, j + 1, built) PROVE Reach(r, j, built)
  <2>1. SUFFICES ASSUME NEW i \in 1..j PROVE Live(r[i], built) BY DEF Reach
  <2>2. i + 1 \in 1..(j + 1) /\ i \in 1..(Len(steps) - 1) BY <1>1
  <2> QED BY <1>1, <1>2, <2>2 DEF Reach
<1>3. ASSUME Reach(r, j, built) PROVE Reach(steps, j + 1, built)
  <2>1. SUFFICES ASSUME NEW i \in 1..(j + 1) PROVE Live(steps[i], built) BY DEF Reach
  <2>2. CASE i = 1 BY <1>1, <2>2
  <2>3. CASE i # 1
    <3>1. i - 1 \in 1..j /\ i - 1 \in 1..(Len(steps) - 1) /\ (i - 1) + 1 = i BY <1>1, <2>3
    <3> QED BY <1>1, <1>3, <3>1 DEF Reach
  <2> QED BY <2>2, <2>3
<1> QED BY <1>2, <1>3 DEF r

LEMMA CardsShorter ==
  ASSUME NEW steps \in Seq(Recorded), steps # <<>>, NEW table, CardsLine(steps, table)
  PROVE  /\ CardsLine(Tail(steps), Written(Head(steps).rows, table))
         /\ Head(steps).op = "flag" => Written(Head(steps).rows, table) = table
<1> DEFINE r == Tail(steps)
<1>1. Len(r) = Len(steps) - 1 /\ Len(steps) \in Nat \ {0} /\ Head(steps) = steps[1] /\ \A i \in 1..(Len(steps) - 1) : r[i] = steps[i + 1]
  BY Shorter
<1>2. PICK t \in [Nat -> Moments] : t[1].cards = table /\ CardsAlong(t, steps) BY DEF CardsLine
<1> DEFINE u == [j \in Nat |-> t[j + 1]]
<1>3. u \in [Nat -> Moments] /\ \A j \in Nat : u[j] = t[j + 1] BY <1>2
<1> HIDE DEF u, r
<1>4. u[1].cards = Written(Head(steps).rows, table) /\ (Head(steps).op = "flag" => u[1].cards = table)
  <2>1. 1 \in 1..Len(steps) /\ 1 + 1 = 2 BY <1>1
  <2> QED BY <1>1, <1>2, <1>3, <2>1 DEF CardsAlong
<1>5. CardsAlong(u, r)
  <2>1. SUFFICES ASSUME NEW j \in 1..(Len(steps) - 1)
                 PROVE u[j + 1].cards = Written(r[j].rows, u[j].cards) /\ (r[j].op = "flag" => u[j + 1].cards = u[j].cards)
    BY <1>1 DEF CardsAlong
  <2>2. j + 1 \in 1..Len(steps) /\ j \in Nat /\ j + 1 \in Nat BY <1>1
  <2>3. u[j + 1] = t[(j + 1) + 1] /\ u[j] = t[j + 1] /\ r[j] = steps[j + 1] BY <1>1, <1>3, <2>2
  <2> QED BY <1>2, <2>2, <2>3 DEF CardsAlong
<1> QED BY <1>3, <1>4, <1>5 DEF CardsLine, r

LEMMA LineShorter ==
  ASSUME NEW steps \in Seq(Recorded), steps # <<>>, NEW m, NEW built, NEW bury, NEW back,
         Line(steps, m, built, bury, back), Live(Head(steps), built)
  PROVE  \E next \in Moments :
           /\ next.cards = Written(Head(steps).rows, m.cards)
           /\ Good(next, bury)
           /\ Leads(m, next, Head(steps), back)
           /\ Line(Tail(steps), next, built, bury, back)
<1> DEFINE r == Tail(steps)
<1>1. Len(r) = Len(steps) - 1 /\ Len(steps) \in Nat \ {0} /\ Head(steps) = steps[1] /\ \A i \in 1..(Len(steps) - 1) : r[i] = steps[i + 1]
  BY Shorter
<1>2. PICK t \in [Nat -> Moments] : t[1] = m /\ CardsAlong(t, steps) /\ QueuesAlong(t, steps, built, bury, back) BY DEF Line
<1> DEFINE u == [j \in Nat |-> t[j + 1]]
<1>3. u \in [Nat -> Moments] /\ \A j \in Nat : u[j] = t[j + 1] BY <1>2
<1>4. \A j \in 1..(Len(steps) - 1) : Reach(steps, j + 1, built) <=> Reach(r, j, built) BY ReachShorter
<1> HIDE DEF u, r
<1>5. u[1].cards = Written(Head(steps).rows, m.cards) /\ Good(u[1], bury) /\ Leads(m, u[1], Head(steps), back)
  <2>1. 1 \in 1..Len(steps) /\ u[1] = t[1 + 1] BY <1>1, <1>3
  <2>2. Reach(steps, 1, built) BY <1>1 DEF Reach
  <2> QED BY <1>1, <1>2, <2>1, <2>2 DEF CardsAlong, QueuesAlong
<1>6. ASSUME NEW j \in 1..(Len(steps) - 1)
      PROVE  j + 1 \in 1..Len(steps) /\ u[j + 1] = t[(j + 1) + 1] /\ u[j] = t[j + 1] /\ r[j] = steps[j + 1]
  <2>1. j + 1 \in 1..Len(steps) /\ j \in Nat /\ j + 1 \in Nat BY <1>1
  <2> QED BY <1>1, <1>3, <2>1
<1>7. CardsAlong(u, r)
  <2>1. SUFFICES ASSUME NEW j \in 1..(Len(steps) - 1)
                 PROVE u[j + 1].cards = Written(r[j].rows, u[j].cards) /\ (r[j].op = "flag" => u[j + 1].cards = u[j].cards)
    BY <1>1 DEF CardsAlong
  <2> QED BY <1>2, <1>6 DEF CardsAlong
<1>8. QueuesAlong(u, r, built, bury, back)
  <2>1. SUFFICES ASSUME NEW j \in 1..(Len(steps) - 1), Reach(r, j, built)
                 PROVE Good(u[j + 1], bury) /\ Leads(u[j], u[j + 1], r[j], back)
    BY <1>1 DEF QueuesAlong
  <2> QED BY <1>2, <1>4, <1>6, <2>1 DEF QueuesAlong
<1>9. Contiguous(r, built)
  <2>1. SUFFICES ASSUME NEW j \in 1..(Len(steps) - 1), r[j].update.built = built PROVE Reach(r, j, built)
    BY <1>1 DEF Contiguous
  <2>2. Contiguous(steps, built) BY DEF Line
  <2> QED BY <1>4, <1>6, <2>1, <2>2 DEF Contiguous
<1>10. u[1] \in Moments BY <1>3
<1> QED BY <1>3, <1>5, <1>7, <1>8, <1>9, <1>10 DEF Line, r

(* The history is cut off at its limit.                                    *)
LEMMA Cut ==
  ASSUME NEW steps \in Seq(Recorded), NEW k \in 0..Len(steps)
  PROVE  /\ SubSeq(steps, 1, k) \in Seq(Recorded) /\ Len(SubSeq(steps, 1, k)) = k
         /\ \A j \in 1..k : SubSeq(steps, 1, k)[j] = steps[j]
  OBVIOUS

LEMMA CardsCut ==
  ASSUME NEW steps \in Seq(Recorded), NEW k \in 0..Len(steps), NEW table, CardsLine(steps, table)
  PROVE  CardsLine(SubSeq(steps, 1, k), table)
<1> DEFINE l == SubSeq(steps, 1, k)
<1>1. Len(l) = k /\ \A j \in 1..k : l[j] = steps[j] BY Cut
<1> HIDE DEF l
<1>2. \A j \in 1..k : j \in 1..Len(steps) OBVIOUS
<1>3. PICK t \in [Nat -> Moments] : t[1].cards = table /\ CardsAlong(t, steps) BY DEF CardsLine
<1>4. CardsAlong(t, l) BY <1>1, <1>2, <1>3 DEF CardsAlong
<1> QED BY <1>3, <1>4 DEF CardsLine, l

LEMMA LineCut ==
  ASSUME NEW steps \in Seq(Recorded), NEW k \in 0..Len(steps), NEW m, NEW built, NEW bury, NEW back,
         Line(steps, m, built, bury, back)
  PROVE  Line(SubSeq(steps, 1, k), m, built, bury, back)
<1> DEFINE l == SubSeq(steps, 1, k)
<1>1. Len(l) = k /\ \A j \in 1..k : l[j] = steps[j] BY Cut
<1> HIDE DEF l
<1>2. \A j \in 1..k : j \in 1..Len(steps) OBVIOUS
<1>3. PICK t \in [Nat -> Moments] : t[1] = m /\ CardsAlong(t, steps) /\ QueuesAlong(t, steps, built, bury, back) BY DEF Line
<1>4. CardsAlong(t, l) BY <1>1, <1>2, <1>3 DEF CardsAlong
<1>5. ASSUME NEW j \in 1..k PROVE Reach(l, j, built) <=> Reach(steps, j, built)
  <2>1. \A i \in 1..j : i \in 1..k /\ l[i] = steps[i] BY <1>1
  <2> QED BY <2>1 DEF Reach
<1>6. QueuesAlong(t, l, built, bury, back) BY <1>1, <1>2, <1>3, <1>5 DEF QueuesAlong
<1>7. Contiguous(l, built)
  <2>1. Contiguous(steps, built) BY DEF Line
  <2> QED BY <1>1, <1>2, <1>5, <2>1 DEF Contiguous
<1> QED BY <1>3, <1>4, <1>6, <1>7 DEF Line, l

LEMMA SavedIs ==
  ASSUME NEW steps \in Seq(Recorded), NEW step \in Recorded
  PROVE  \E k \in 0..Len(steps) :
           /\ Saved(steps, step) = <<step>> \o SubSeq(steps, 1, k)
           /\ Saved(steps, step) \in Seq(Recorded) /\ Saved(steps, step)[1] = step
           /\ Len(Saved(steps, step)) = k + 1 /\ k + 1 <= UNDO_LIMIT
           /\ \A j \in 1..k : Saved(steps, step)[j + 1] = steps[j]
<1> DEFINE k == Least(Len(steps), UNDO_LIMIT - 1)
           s == SubSeq(steps, 1, k)
<1>1. k \in 0..Len(steps) /\ k + 1 <= UNDO_LIMIT BY LimitsAssumption DEF Least
<1> HIDE DEF k
<1>2. s \in Seq(Recorded) /\ Len(s) = k /\ \A j \in 1..k : s[j] = steps[j] BY <1>1, Cut
<1> HIDE DEF s
<1> DEFINE l == <<step>> \o s
<1>3. l \in Seq(Recorded) /\ Len(l) = Len(s) + 1 /\ l[1] = step /\ \A j \in 1..Len(s) : l[j + 1] = s[j]
  BY <1>2, Longer
<1>4. Saved(steps, step) = l BY DEF Saved, k, s
<1> HIDE DEF l
<1>5. l = <<step>> \o SubSeq(steps, 1, k) BY DEF l, s
<1> QED BY <1>1, <1>2, <1>3, <1>4, <1>5

LEMMA SavedIsShort ==
  ASSUME NEW steps \in Seq(Recorded), NEW step \in Recorded
  PROVE  Saved(steps, step) \in Seq(Recorded) /\ Len(Saved(steps, step)) <= UNDO_LIMIT /\ Len(Saved(steps, step)) <= Len(steps) + 1
<1>1. PICK k \in 0..Len(steps) :
           /\ Saved(steps, step) \in Seq(Recorded)
           /\ Len(Saved(steps, step)) = k + 1 /\ k + 1 <= UNDO_LIMIT
  BY SavedIs
<1> QED BY <1>1

(* Only flags can be undone or redone in queues that no step was made in.  *)
LEMMA Rebuilt ==
  ASSUME NEW steps \in Seq(Recorded), NEW m \in Moments, NEW built, NEW bury, NEW back,
         CardsLine(steps, m.cards), Good(m, bury), \A j \in 1..Len(steps) : steps[j].update.built # built
  PROVE  Line(steps, m, built, bury, back)
<1>1. PICK t \in [Nat -> Moments] : t[1].cards = m.cards /\ CardsAlong(t, steps) BY DEF CardsLine
<1> DEFINE u == [j \in Nat |-> [cards |-> t[j].cards, main |-> m.main, learning |-> m.learning]]
<1>2. u \in [Nat -> Moments] BY <1>1 DEF Moments
<1>3. \A j \in Nat : u[j].cards = t[j].cards BY <1>1
<1>4. \A i, j \in Nat : t[i].cards = t[j].cards => u[i] = u[j] BY <1>1
<1>5. u[1] = m BY <1>1 DEF Moments
<1> HIDE DEF u
<1>6. CardsAlong(u, steps)
  <2>1. SUFFICES ASSUME NEW j \in 1..Len(steps)
                 PROVE u[j + 1].cards = Written(steps[j].rows, u[j].cards) /\ (steps[j].op = "flag" => u[j + 1].cards = u[j].cards)
    BY DEF CardsAlong
  <2>2. u[j].cards = t[j].cards /\ u[j + 1].cards = t[j + 1].cards BY <1>3
  <2> QED BY <1>1, <2>2 DEF CardsAlong
<1>7. ASSUME NEW j \in 1..Len(steps), Reach(steps, j, built) PROVE u[j] = m /\ u[j + 1] = m /\ steps[j].op = "flag"
  <2> DEFINE S == {i \in 0..j : u[i + 1] = m}
  <2>1. 0 \in S BY <1>5
  <2>2. \A i \in 1..j : steps[i].op = "flag"
    <3>1. \A i \in 1..j : i \in 1..Len(steps) OBVIOUS
    <3> QED BY <1>7, <3>1 DEF Reach, Live
  <2>3. ASSUME NEW i \in 0..j, i # j, i \in S PROVE i + 1 \in S
    <3>1. i + 1 \in 1..Len(steps) /\ i + 1 \in 1..j BY <2>3
    <3>2. t[(i + 1) + 1].cards = t[i + 1].cards BY <1>1, <2>2, <3>1 DEF CardsAlong
    <3>3. u[(i + 1) + 1] = u[i + 1] BY <1>4, <3>1, <3>2
    <3> QED BY <2>3, <3>1, <3>3
  <2>2a. j \in Nat OBVIOUS
  <2> HIDE DEF S
  <2>4. j \in Nat /\ 0..j \subseteq S
    <3> HIDE <1>7
    <3> QED BY <2>1, <2>2a, <2>3, Handed
  <2>5. j \in S /\ j - 1 \in S BY <2>4
  <2>6. \A i \in S : u[i + 1] = m BY DEF S
  <2>7. (j - 1) + 1 = j BY <2>4
  <2> QED BY <2>2, <2>4, <2>5, <2>6, <2>7
<1>8. QueuesAlong(u, steps, built, bury, back) BY <1>7 DEF QueuesAlong, Leads
<1>9. Contiguous(steps, built) BY DEF Contiguous
<1> QED BY <1>2, <1>5, <1>6, <1>8, <1>9 DEF Line
---------------------------------------------------------------------------
(* What shows first, and answers taken back and repeated                   *)

LEMMA KeptMoment ==
  ASSUME NEW table \in CardTables, NEW q \in Queues
  PROVE  /\ q # NoQueues
         /\ Moment(table, q) \in Moments /\ Moment(table, q).cards = table
         /\ Moment(table, q).main = q.main /\ Moment(table, q).learning = Range(q.learning)
<1>1. "main" \in DOMAIN q /\ "main" \notin DOMAIN NoQueues BY DEF Queues, NoQueues
<1>2. q.main \in Seq(MEntry) /\ Range(q.learning) \subseteq LEntry BY DEF Queues, Range
<1> QED BY <1>1, <1>2 DEF Moment, Moments

LEMMA EmptyMoment ==
  ASSUME NEW table \in CardTables, NEW bury
  PROVE  /\ Moment(table, NoQueues) \in Moments /\ Moment(table, NoQueues).cards = table
         /\ Good(Moment(table, NoQueues), bury)
<1>1. Moment(table, NoQueues) = [cards |-> table, main |-> <<>>, learning |-> {}] BY DEF Moment
<1>2. Range(<<>>) = {} BY DEF Range
<1> QED BY <1>1, <1>2 DEF Moments, Good, Queued, IdsOnce

LEMMA DueByIs ==
  ASSUME NEW q \in Queues, NEW x
  PROVE  /\ DueBy(q, x) \in SUBSET Nat /\ DueBy(q, x) \subseteq DOMAIN q.learning
         /\ \A i \in DOMAIN q.learning : q.learning[i] \in Range(q.learning) /\ q.learning[i] \in LEntry
         /\ DueBy(q, x) = {} <=> {f \in Range(q.learning) : f.due <= x} = {}
         /\ \A i \in DueBy(q, x) : q.learning[i] \in {f \in Range(q.learning) : f.due <= x}
<1>1. DOMAIN q.learning = 1..Len(q.learning) /\ Len(q.learning) \in Nat BY DEF Queues
<1>2. \A i \in DOMAIN q.learning : q.learning[i] \in Range(q.learning) /\ q.learning[i] \in LEntry BY DEF Queues, Range
<1>3. DueBy(q, x) = {} <=> {f \in Range(q.learning) : f.due <= x} = {} BY DEF DueBy, Range
<1> QED BY <1>1, <1>2, <1>3 DEF DueBy

LEMMA MinOfDue ==
  ASSUME NEW q \in Queues, NEW x, DueBy(q, x) # {}
  PROVE  Min(DueBy(q, x)) \in DueBy(q, x) /\ \A i \in DueBy(q, x) : Min(DueBy(q, x)) <= i
<1> DEFINE S == DueBy(q, x)
<1>1. S \in SUBSET Nat /\ S # {} BY DueByIs
<1> HIDE DEF S
<1>2. Min(S) \in S /\ \A y \in S : Min(S) <= y BY <1>1, LeastOf
<1> QED BY <1>2 DEF S

LEMMA FirstIsOnTop ==
  ASSUME NEW table \in CardTables, NEW q \in Queues, NEW bury, Good(Moment(table, q), bury), Showable(q) # {}
  PROVE  LET c == First(q).id
         IN  /\ CanPop(q, c) /\ EntryOf(q, c) = First(q) /\ First(q) \in Queued(Moment(table, q))
             /\ First(q) \in MEntry \cup LEntry
             /\ OnTop(Moment(table, q), First(q), q.cutoff)
<1> DEFINE m == Moment(table, q)
           soon == DueBy(q, AheadCutoff(q))
           dueNow == DueBy(q, q.cutoff)
           e == First(q)
<1>0. m.main = q.main /\ m.learning = Range(q.learning) /\ AheadCutoff(q) = q.cutoff + LearnAhead BY KeptMoment DEF AheadCutoff
<1>1. q.main \in Seq(MEntry) BY DEF Queues
<1>2. ASSUME NEW i \in DOMAIN q.learning, e = q.learning[i]
      PROVE  CanPop(q, e.id) /\ EntryOf(q, e.id) = e /\ e \in Queued(m) /\ e \in LEntry
  <2>1. i \in Learning(q, e.id) BY <1>2 DEF Learning
  <2>2. \A k \in Learning(q, e.id) : q.learning[k] = e
    <3>1. SUFFICES ASSUME NEW k \in Learning(q, e.id) PROVE q.learning[k] = e OBVIOUS
    <3>2. k \in DOMAIN q.learning /\ q.learning[k].id = e.id BY DEF Learning
    <3>3. q.learning[k] \in m.learning /\ e \in m.learning BY <1>0, <1>2, <3>2, DueByIs
    <3> QED BY <3>2, <3>3 DEF Good
  <2>3. e \in m.learning /\ e \in LEntry BY <1>0, <1>2, DueByIs
  <2> QED BY <2>1, <2>2, <2>3 DEF CanPop, EntryOf, Queued
<1>3. CASE dueNow # {}
  <2>1. Min(dueNow) \in dueNow BY <1>3, MinOfDue
  <2>2. e = q.learning[Min(dueNow)] BY <1>3 DEF First
  <2>3. e \in {f \in m.learning : f.due <= q.cutoff} /\ Min(dueNow) \in DOMAIN q.learning BY <1>0, <2>1, <2>2, DueByIs
  <2>4. OnTop(m, e, q.cutoff) BY <2>3 DEF OnTop
  <2> QED BY <1>2, <2>2, <2>3, <2>4
<1>4. CASE dueNow = {} /\ q.main # <<>>
  <2>1. e = Head(q.main) /\ e \in MEntry /\ e \in Range(q.main)
    <3>1. e = Head(q.main) BY <1>4 DEF First
    <3>2. Head(q.main) = q.main[1] /\ 1 \in DOMAIN q.main /\ Head(q.main) \in MEntry BY <1>1, <1>4
    <3> QED BY <3>1, <3>2 DEF Range
  <2>2. Learning(q, e.id) = {}
    <3>1. SUFFICES ASSUME NEW k \in Learning(q, e.id) PROVE FALSE OBVIOUS
    <3>2. k \in DOMAIN q.learning /\ q.learning[k].id = e.id BY DEF Learning
    <3>3. q.learning[k] \in m.learning BY <1>0, <3>2, DueByIs
    <3> QED BY <1>0, <2>1, <3>2, <3>3 DEF Good
  <2>3. {f \in m.learning : f.due <= q.cutoff} = {} BY <1>0, <1>4, DueByIs
  <2>4. OnTop(m, e, q.cutoff) BY <1>0, <1>4, <2>1, <2>3 DEF OnTop
  <2> QED BY <1>0, <1>4, <2>1, <2>2, <2>4 DEF CanPop, EntryOf, Queued
<1>5. CASE dueNow = {} /\ q.main = <<>>
  <2>1. soon # {}
    <3>1. Range(q.main) = {} BY <1>5 DEF Range
    <3> QED BY <3>1 DEF Showable
  <2>2. Min(soon) \in soon BY <2>1, MinOfDue
  <2>3. e = q.learning[Min(soon)] BY <1>5 DEF First
  <2>4. e \in {f \in m.learning : f.due <= q.cutoff + LearnAhead} /\ Min(soon) \in DOMAIN q.learning BY <1>0, <2>2, <2>3, DueByIs
  <2>5. {f \in m.learning : f.due <= q.cutoff} = {} BY <1>0, <1>5, DueByIs
  <2>6. OnTop(m, e, q.cutoff) BY <1>0, <1>5, <2>4, <2>5 DEF OnTop
  <2> QED BY <1>2, <2>3, <2>4, <2>6
<1> QED BY <1>3, <1>4, <1>5

LEMMA OnTopIsFirst ==
  ASSUME NEW table \in CardTables, NEW q \in Queues, NEW e \in MEntry \cup LEntry, OnTop(Moment(table, q), e, q.cutoff),
         e \in LEntry => q.learning # <<>> /\ q.learning[1] = e
  PROVE  First(q) = e
<1> DEFINE m == Moment(table, q)
           soon == DueBy(q, AheadCutoff(q))
           dueNow == DueBy(q, q.cutoff)
<1>0. m.main = q.main /\ m.learning = Range(q.learning) /\ AheadCutoff(q) = q.cutoff + LearnAhead BY KeptMoment DEF AheadCutoff
<1>1. q.main \in Seq(MEntry) /\ q.learning \in Seq(LEntry) /\ q.cutoff \in Nat BY DEF Queues
<1>2. ASSUME NEW x, e.due <= x, e \in LEntry PROVE DueBy(q, x) # {} /\ q.learning[Min(DueBy(q, x))] = e
  <2>1. q.learning[1] = e /\ 1 \in DOMAIN q.learning BY <1>1, <1>2
  <2>2. 1 \in DueBy(q, x) BY <1>2, <2>1 DEF DueBy
  <2>3. Min(DueBy(q, x)) \in Nat \ {0} /\ Min(DueBy(q, x)) <= 1
    <3>1. DueBy(q, x) \subseteq 1..Len(q.learning) BY <1>1 DEF DueBy
    <3> QED BY <2>2, <3>1, MinOfDue
  <2>4. Min(DueBy(q, x)) = 1 BY <2>3
  <2> QED BY <2>1, <2>2, <2>4
<1>3. \A f \in m.learning : f \in LEntry BY <1>0, <1>1 DEF Range
<1>4. CASE e \in {f \in m.learning : f.due <= q.cutoff} BY <1>2, <1>3, <1>4 DEF First
<1>5. CASE {f \in m.learning : f.due <= q.cutoff} = {} /\ m.main # <<>> /\ e = Head(m.main)
  <2>1. dueNow = {} BY <1>0, <1>5, DueByIs
  <2> QED BY <1>0, <1>5, <2>1 DEF First
<1>6. CASE {f \in m.learning : f.due <= q.cutoff} = {} /\ m.main = <<>> /\ e \in {f \in m.learning : f.due <= q.cutoff + LearnAhead}
  <2>1. dueNow = {} BY <1>0, <1>6, DueByIs
  <2> QED BY <1>0, <1>2, <1>3, <1>6, <2>1 DEF First
<1> QED BY <1>4, <1>5, <1>6 DEF OnTop
(* Entries of the card of another entry, once that has been taken out.     *)
LEMMA Answered ==
  ASSUME NEW table \in CardTables, NEW q \in Queues, IdsOnce(q.learning), NEW bury, Good(Moment(table, q), bury),
         NEW c, CanPop(q, c), NEW r \in SUBSET LEntry, \A e \in r : e.id = c, \A e, f \in r : e = f,
         NEW p \in InsertedAll(Popped(q, c), r)
  PROVE  /\ Popped(q, c) \in Queues
         /\ p \in Queues /\ IdsOnce(p.learning) /\ SameTimes(q, p)
         /\ EntryOf(q, c) \in Queued(Moment(table, q)) /\ EntryOf(q, c).id = c /\ EntryOf(q, c) \in MEntry \cup LEntry
         /\ \/ /\ EntryOf(q, c) \in Range(q.learning)
               /\ p.main = q.main
               /\ Range(p.learning) = (Range(q.learning) \ {EntryOf(q, c)}) \cup r
            \/ /\ EntryOf(q, c) \in MEntry /\ q.main # <<>> /\ EntryOf(q, c) = Head(q.main)
               /\ p.main = Tail(q.main)
               /\ Range(p.learning) = Range(q.learning) \cup r
<1> DEFINE e == EntryOf(q, c)
           o == Popped(q, c)
           m == Moment(table, q)
<1>0. m.main = q.main /\ m.learning = Range(q.learning) BY KeptMoment
<1>1. q.main \in Seq(MEntry) /\ Range(q.learning) \subseteq LEntry BY DEF Queues, Range
<1>2. /\ o \in Queues /\ SameTimes(q, o) /\ IdsOnce(o.learning) /\ e.id = c
      /\ \/ /\ Learning(q, c) # {} /\ e \in Range(q.learning)
            /\ o.main = q.main /\ Range(o.learning) = Range(q.learning) \ {e}
         \/ /\ Learning(q, c) = {} /\ q.main # <<>> /\ e = Head(q.main)
            /\ o.main = Tail(q.main) /\ o.learning = q.learning
  BY PoppedKeeps
<1>3. \A x \in Range(o.learning) : x.id # c
  <2>1. CASE e \in Range(q.learning) /\ Range(o.learning) = Range(q.learning) \ {e} BY <1>0, <1>2, <2>1 DEF Good
  <2>2. CASE Learning(q, c) = {} /\ o.learning = q.learning BY <2>2 DEF Learning, Range
  <2> QED BY <1>2, <2>1, <2>2
<1>4. q.main # <<>> => Head(q.main) \in Range(q.main) /\ Head(q.main) \in MEntry
  <2>1. q.main # <<>> => Head(q.main) = q.main[1] /\ 1 \in DOMAIN q.main /\ Head(q.main) \in MEntry BY <1>1
  <2> QED BY <2>1 DEF Range
<1>5. e \in Queued(m) /\ e \in MEntry \cup LEntry BY <1>0, <1>1, <1>2, <1>4 DEF Queued
<1> HIDE DEF e, o, m
<1>6. p \in InsertedAll(o, r) BY DEF o
<1>7. /\ p \in Queues /\ SameTimes(o, p) /\ IdsOnce(p.learning)
      /\ p.main = o.main /\ Range(p.learning) = Range(o.learning) \cup r
  <2>1. \A f \in r : \A x \in Range(o.learning) : x.id # f.id BY <1>3
  <2> QED BY <1>2, <1>6, <2>1, InsertedAllKeeps
<1>8. SameTimes(q, p) BY <1>2, <1>7 DEF SameTimes
<1> QED BY <1>1, <1>2, <1>4, <1>5, <1>7, <1>8 DEF e, o, m

LEMMA Undone ==
  ASSUME NEW table \in CardTables, NEW old \in Moments, NEW u \in Update, NEW bury,
         queues \in Queues, IdsOnce(queues.learning), Good(Moment(table, queues), bury), Good(old, bury),
         Patched(old, Moment(table, queues), u)
  PROVE  LET p == UndoneQueues(u)
         IN  /\ p \in Queues /\ IdsOnce(p.learning) /\ p.built = queues.built
             /\ p.main = old.main /\ Range(p.learning) = old.learning
             /\ First(p) = u.entry
<1> DEFINE m == Moment(table, queues)
           q == RestoredCutoff(queues, u)
           e == u.entry
           w == IF u.requeue = {} THEN q ELSE Removed(q, e.id)
           p == UndoneQueues(u)
<1>0. m.main = queues.main /\ m.learning = Range(queues.learning) BY KeptMoment
<1>1. /\ e \in MEntry \cup LEntry /\ u.requeue \in SUBSET LEntry /\ u.cutoff \in Nat /\ u.learn \in Int BY DEF Update
<1>2. /\ q \in Queues /\ q.main = m.main /\ q.learning = queues.learning /\ q.built = queues.built /\ q.cutoff = u.cutoff
  BY <1>0, <1>1, RestoredKeeps
<1>3. /\ \A f \in u.requeue : f.id = e.id
      /\ \A f, g \in u.requeue : f = g
      /\ OnTop(old, e, u.cutoff)
      /\ \/ /\ e \in old.learning /\ m.main = old.main
            /\ m.learning = (old.learning \ {e}) \cup u.requeue
         \/ /\ e \in MEntry /\ old.main # <<>> /\ e = Head(old.main) /\ m.main = Tail(old.main)
            /\ m.learning = old.learning \cup u.requeue
  BY DEF Patched
<1>4. p = Pushed(w, e) BY DEF UndoneQueues
<1>5. old.main \in Seq(MEntry) /\ old.learning \in SUBSET LEntry BY DEF Moments
<1>6. old.main # <<>> => /\ Head(old.main) \in Range(old.main) /\ Head(old.main) \in MEntry
                         /\ old.main = <<Head(old.main)>> \o Tail(old.main)
  <2>1. old.main # <<>> => /\ Head(old.main) = old.main[1] /\ 1 \in DOMAIN old.main /\ Head(old.main) \in MEntry
                           /\ old.main = <<Head(old.main)>> \o Tail(old.main)
    BY <1>5
  <2> QED BY <2>1 DEF Range
<1> HIDE DEF q, e, p, m
<1>7. /\ w \in Queues /\ IdsOnce(w.learning) /\ w.built = queues.built /\ w.cutoff = u.cutoff
      /\ w.main = m.main /\ Range(w.learning) = m.learning \ u.requeue
  <2>1. CASE u.requeue = {} BY <1>0, <1>2, <2>1
  <2>2. CASE u.requeue # {}
    <3>1. PICK f \in u.requeue : u.requeue = {f} /\ f.id = e.id BY <1>3, <2>2
    <3>2. f \in Range(q.learning) BY <1>0, <1>2, <1>3, <3>1
    <3>3. /\ Removed(q, f.id) \in Queues /\ SameTimes(q, Removed(q, f.id)) /\ IdsOnce(Removed(q, f.id).learning)
          /\ Removed(q, f.id).main = q.main /\ Range(Removed(q, f.id).learning) = Range(q.learning) \ {f}
      BY <1>2, <3>2, RemovedKeeps
    <3> QED BY <1>0, <1>2, <2>2, <3>1, <3>3 DEF SameTimes
  <2> QED BY <2>1, <2>2
<1>8. Range(w.learning) = IF e \in old.learning THEN old.learning \ {e} ELSE old.learning
  <2>1. CASE e \in old.learning /\ m.learning = (old.learning \ {e}) \cup u.requeue
    <3>1. (old.learning \ {e}) \cap u.requeue = {} BY <1>3, <2>1 DEF Good
    <3> QED BY <1>7, <2>1, <3>1
  <2>2. CASE e = Head(old.main) /\ old.main # <<>> /\ e \in MEntry /\ m.learning = old.learning \cup u.requeue
    <3>1. \A f \in old.learning : f.id # e.id BY <1>6, <2>2 DEF Good
    <3>2. old.learning \cap u.requeue = {} BY <1>3, <3>1
    <3> QED BY <1>7, <2>2, <3>1, <3>2
  <2> QED BY <1>3, <2>1, <2>2
<1>9. \A x \in Range(w.learning) : x.id # e.id
  <2>1. CASE e \in old.learning BY <1>8, <2>1 DEF Good
  <2>2. CASE e \notin old.learning BY <1>3, <1>6, <1>8, <2>2 DEF Good
  <2> QED BY <2>1, <2>2
<1> HIDE DEF w
<1>10. /\ p \in Queues /\ SameTimes(w, p) /\ IdsOnce(p.learning)
       /\ e \in LEntry => /\ p.main = w.main /\ Range(p.learning) = Range(w.learning) \cup {e}
                          /\ p.learning # <<>> /\ p.learning[1] = e
       /\ e \in MEntry => p.main = <<e>> \o w.main /\ p.learning = w.learning
  <2>1. e \in MEntry \cup LEntry BY <1>1 DEF e
  <2> QED BY <1>4, <1>7, <1>9, <2>1, PushedKeeps
<1>11. e \in MEntry => e \notin LEntry BY EntryForms
<1>12. p.main = old.main /\ Range(p.learning) = old.learning
  <2>1. CASE e \in old.learning /\ m.main = old.main BY <1>5, <1>7, <1>8, <1>10, <2>1
  <2>2. CASE e = Head(old.main) /\ old.main # <<>> /\ e \in MEntry /\ m.main = Tail(old.main)
    <3>1. e \notin old.learning BY <1>5, <1>11, <2>2
    <3> QED BY <1>6, <1>7, <1>8, <1>10, <2>2, <3>1
  <2> QED BY <1>3, <2>1, <2>2
<1>13. First(p) = e
  <2>1. Moment(table, p).main = old.main /\ Moment(table, p).learning = old.learning BY <1>10, <1>12, KeptMoment
  <2>2. OnTop(Moment(table, p), e, u.cutoff) BY <1>3, <2>1 DEF OnTop
  <2>3. p.cutoff = u.cutoff /\ e \in MEntry \cup LEntry BY <1>1, <1>7, <1>10 DEF SameTimes, e
  <2> QED BY <1>10, <2>2, <2>3, OnTopIsFirst
<1> QED BY <1>7, <1>10, <1>12, <1>13 DEF SameTimes, p, e

LEMMA Redone ==
  ASSUME NEW table \in CardTables, NEW new, NEW u \in Update, NEW bury,
         queues \in Queues, IdsOnce(queues.learning), Good(Moment(table, queues), bury),
         Patched(Moment(table, queues), new, u)
  PROVE  /\ CanPop(queues, u.entry.id)
         /\ \A p \in RedoneQueues(u) : /\ p \in Queues /\ IdsOnce(p.learning) /\ p.built = queues.built
                                       /\ p.main = new.main /\ Range(p.learning) = new.learning
<1> DEFINE m == Moment(table, queues)
           e == u.entry
<1>0. m.main = queues.main /\ m.learning = Range(queues.learning) BY KeptMoment
<1>1. /\ u.requeue \in SUBSET LEntry /\ u.cutoff \in Nat /\ u.learn \in Int BY DEF Update
<1>2. queues.main \in Seq(MEntry) /\ queues.learning \in Seq(LEntry) BY DEF Queues
<1>3. /\ \A f \in u.requeue : f.id = e.id
      /\ \A f, g \in u.requeue : f = g
      /\ \/ /\ e \in m.learning /\ new.main = m.main
            /\ new.learning = (m.learning \ {e}) \cup u.requeue
         \/ /\ e \in MEntry /\ m.main # <<>> /\ e = Head(m.main) /\ new.main = Tail(m.main)
            /\ new.learning = m.learning \cup u.requeue
  BY DEF Patched
<1>4. m.main # <<>> => Head(m.main) \in Range(m.main)
  <2>1. m.main # <<>> => Head(m.main) = m.main[1] /\ 1 \in DOMAIN m.main BY <1>0, <1>2
  <2> QED BY <2>1 DEF Range
<1> HIDE DEF m, e
<1>5. Good(m, bury) BY DEF m
<1>6. \A i \in Learning(queues, e.id) : queues.learning[i].id = e.id /\ queues.learning[i] \in m.learning
  BY <1>0 DEF Learning, Range
<1>7. ASSUME e \in m.learning PROVE CanPop(queues, e.id) /\ EntryOf(queues, e.id) = e
  <2>1. PICK i \in DOMAIN queues.learning : queues.learning[i] = e BY <1>0, <1>7 DEF Range
  <2>2. i \in Learning(queues, e.id) BY <2>1 DEF Learning
  <2>3. CanPop(queues, e.id) /\ EntryOf(queues, e.id) = e BY <1>5, <1>6, <1>7, <2>2 DEF CanPop, EntryOf, Good
  <2> QED BY <2>3
<1>8. ASSUME m.main # <<>>, e = Head(m.main) PROVE CanPop(queues, e.id) /\ EntryOf(queues, e.id) = e
  <2>1. Learning(queues, e.id) = {} BY <1>4, <1>5, <1>6, <1>8 DEF Good
  <2> QED BY <1>0, <1>8, <2>1 DEF CanPop, EntryOf
<1>9. CanPop(queues, e.id) /\ EntryOf(queues, e.id) = e BY <1>3, <1>7, <1>8
<1>10. ASSUME NEW p \in RedoneQueues(u)
       PROVE  /\ p \in Queues /\ IdsOnce(p.learning) /\ p.built = queues.built
              /\ p.main = new.main /\ Range(p.learning) = new.learning
  <2>1. PICK q \in InsertedAll(Popped(queues, e.id), u.requeue) : p = RestoredCutoff(q, u) BY DEF RedoneQueues, e
  <2>2. /\ q \in Queues /\ IdsOnce(q.learning) /\ SameTimes(queues, q)
        /\ \/ /\ e \in Range(queues.learning)
              /\ q.main = queues.main
              /\ Range(q.learning) = (Range(queues.learning) \ {e}) \cup u.requeue
           \/ /\ e \in MEntry /\ queues.main # <<>> /\ e = Head(queues.main)
              /\ q.main = Tail(queues.main)
              /\ Range(q.learning) = Range(queues.learning) \cup u.requeue
    BY <1>1, <1>3, <1>5, <1>9, <2>1, Answered DEF m
  <2>3. \A x \in m.learning : x \notin MEntry
    <3>1. \A x \in Range(queues.learning) : x \in LEntry BY <1>2 DEF Range
    <3> QED BY <1>0, <3>1, EntryForms
  <2>4. q.main = new.main /\ Range(q.learning) = new.learning BY <1>0, <1>3, <2>2, <2>3
  <2>5. p \in Queues /\ p.main = q.main /\ p.learning = q.learning /\ p.built = q.built BY <1>1, <2>1, <2>2, RestoredKeeps
  <2> QED BY <2>2, <2>4, <2>5 DEF SameTimes
<1> QED BY <1>9, <1>10 DEF e
---------------------------------------------------------------------------
(* The operators of the actions                                            *)

LEMMA WrittenIs ==
  ASSUME NEW table \in CardTables, NEW rows \in Rows
  PROVE  /\ Written(rows, table) \in CardTables
         /\ \A c \in Cards : Written(rows, table)[c] = IF c \in DOMAIN rows THEN rows[c] ELSE table[c]
  BY DEF Written, CardTables, Rows

LEMMA OldIs ==
  ASSUME cards \in CardTables, NEW rows \in Rows
  PROVE  Old(rows) \in Rows /\ Written(Old(rows), Written(rows, cards)) = cards
<1>1. DOMAIN rows \in SUBSET Cards BY DEF Rows
<1>2. Old(rows) \in [DOMAIN rows -> Row] BY <1>1 DEF Old, CardTables
<1>3. Old(rows) \in Rows BY <1>1, <1>2 DEF Rows
<1>4. \A c \in Cards : Written(Old(rows), Written(rows, cards))[c] = cards[c] BY <1>1, <1>3, WrittenIs DEF Old
<1>5. Written(Old(rows), Written(rows, cards)) \in CardTables BY <1>3, WrittenIs
<1> QED BY <1>3, <1>4, <1>5 DEF CardTables

LEMMA UnburiedIs ==
  ASSUME NEW table \in CardTables
  PROVE  Unburied(table) \in CardTables
<1>1. \A c \in Cards : [table[c] EXCEPT !.held = "no"] \in Row /\ table[c] \in Row BY DEF CardTables, Row
<1> QED BY <1>1 DEF Unburied, CardTables

LEMMA OutcomesAre ==
  ASSUME now \in Nat, NEW kind, NEW row \in Outcomes(kind)
  PROVE  row \in Row /\ row.mod = now /\ row.kind # "New"
<1>0. Today \in Nat /\ NextDayAt \in Nat BY NowIsNat
<1>1. CASE row \in {[kind |-> IF now + s < NextDayAt THEN "Learn" ELSE "DayLearn",
           due |-> IF now + s < NextDayAt THEN now + s ELSE Today + 1 + (now + s - NextDayAt) \div DayLength,
           held |-> "no", mod |-> now] : s \in Steps}
  <2>1. PICK s \in Steps : row = [kind |-> IF now + s < NextDayAt THEN "Learn" ELSE "DayLearn",
           due |-> IF now + s < NextDayAt THEN now + s ELSE Today + 1 + (now + s - NextDayAt) \div DayLength,
           held |-> "no", mod |-> now]
    BY <1>1
  <2>2. s \in Nat /\ DayLength \in Nat \ {0} BY TimeAssumption
  <2> DEFINE due == IF now + s < NextDayAt THEN now + s ELSE Today + 1 + (now + s - NextDayAt) \div DayLength
  <2>3. due \in Nat
    <3>1. CASE now + s < NextDayAt BY <2>2, <3>1
    <3>2. CASE ~(now + s < NextDayAt)
      <4>1. now + s - NextDayAt \in Nat BY <1>0, <2>2, <3>2
      <4>2. (now + s - NextDayAt) \div DayLength \in Nat BY <2>2, <4>1
      <4> QED BY <1>0, <3>2, <4>2
    <3> QED BY <3>1, <3>2
  <2> HIDE DEF due
  <2>4. row = [kind |-> IF now + s < NextDayAt THEN "Learn" ELSE "DayLearn", due |-> due, held |-> "no", mod |-> now]
    BY <2>1 DEF due
  <2> QED BY <2>3, <2>4 DEF Row, Kinds, MainKinds
<1>2. CASE row \in {[kind |-> "Review", due |-> Today + 1, held |-> "no", mod |-> now]}
  BY <1>0, <1>2 DEF Row, Kinds, MainKinds
<1>3. CASE row \in {[kind |-> "Review", due |-> Today + 1, held |-> "suspended", mod |-> now] : k \in {kind} \cap {"Review"}}
  BY <1>0, <1>3 DEF Row, Kinds, MainKinds
<1> QED BY <1>1, <1>2, <1>3 DEF Outcomes

LEMMA RequeueIs ==
  ASSUME NEW q \in Queues, NEW c \in Cards, NEW row \in Row
  PROVE  /\ Requeue(q, c, row) \in SUBSET LEntry
         /\ \A e \in Requeue(q, c, row) : e.id = c /\ e.mtime = row.mod /\ row.kind = "Learn"
         /\ \A e, f \in Requeue(q, c, row) : e = f
<1> DEFINE e == LearningEntry(c, row)
           next == Head(q.learning).due
<1>1. e \in LEntry /\ e.id = c /\ e.mtime = row.mod BY DEF LearningEntry, LEntry, Row
<1>2. q.learning # <<>> => [e EXCEPT !.due = next + 1] \in LEntry /\ [e EXCEPT !.due = next + 1].id = c
                           /\ [e EXCEPT !.due = next + 1].mtime = row.mod
  <2>1. q.learning # <<>> => Head(q.learning) \in LEntry BY DEF Queues
  <2>2. q.learning # <<>> => next \in Nat BY <2>1 DEF LEntry
  <2> HIDE DEF next, e
  <2> QED BY <1>1, <2>2 DEF LEntry
<1> DEFINE soon == /\ e.due <= AheadCutoff(q) /\ q.main = <<>> /\ q.learning # <<>>
                  /\ next >= e.due /\ next + 1 < AheadCutoff(q)
           later == [e EXCEPT !.due = next + 1]
           out == row.kind # "Learn" \/ row.held # "no" \/ row.due >= NextDayAt
<1>3. Requeue(q, c, row) = IF out THEN {} ELSE IF soon THEN {later} ELSE {e} BY Zenon DEF Requeue
<1>3a. soon => q.learning # <<>> OBVIOUS
<1>3b. out \in BOOLEAN /\ soon \in BOOLEAN /\ (row.kind # "Learn" => out) OBVIOUS
<1> HIDE DEF e, next, soon, later, out
<1>4. Requeue(q, c, row) = {} \/ Requeue(q, c, row) = {e} \/ (q.learning # <<>> /\ Requeue(q, c, row) = {later})
  BY <1>3, <1>3a, <1>3b
<1>5. row.kind # "Learn" => Requeue(q, c, row) = {} BY <1>3, <1>3b
<1> QED BY <1>1, <1>2, <1>4, <1>5 DEF later

LEMMA StudiedIs ==
  ASSUME now \in Nat, studied \in Studied, NEW kind \in Kinds
  PROVE  StudiedWith(kind) \in Studied
<1>1. StudiedToday \in Studied BY NowIsNat DEF StudiedToday, Studied
<1> QED BY <1>1 DEF StudiedWith, Studied, Kinds, MainKinds

(* There are too few steps to use up the numbers.                          *)
LEMMA FreshBuildIs ==
  ASSUME NEW steps \in Seq(Recorded), Len(steps) <= UNDO_LIMIT
  PROVE  /\ FreshBuild(steps) \in Nat
         /\ \A j \in 1..Len(steps) : steps[j].update.built # FreshBuild(steps)
<1> DEFINE B == {step.update.built : step \in Range(steps)}
           L == 2 * UNDO_LIMIT
<1>0. Len(steps) \in Nat /\ UNDO_LIMIT \in Nat \ {0} BY LimitsAssumption
<1>1. \E b \in 0..L : b \notin B
  <2>1. SUFFICES ASSUME 0..L \subseteq B PROVE FALSE OBVIOUS
  <2> DEFINE f == [j \in 1..Len(steps) |-> steps[j].update.built]
             C == {f[j] : j \in 1..Len(steps)}
  <2>2. DOMAIN steps = 1..Len(steps) OBVIOUS
  <2>3. B = C BY <2>2 DEF Range
  <2>6. f \in Surjection(1..Len(steps), C) BY DEF Surjection
  <2>0. L \in Nat BY <1>0
  <2> HIDE DEF f, C, L, B
  <2> DEFINE n == Len(steps)
  <2> HIDE DEF n
  <2>n. n \in Nat BY <1>0 DEF n
  <2>3a. IsFiniteSet(1..n) /\ Cardinality(1..n) = n BY <2>n, FS_Interval
  <2>4. IsFiniteSet(1..Len(steps)) /\ Cardinality(1..Len(steps)) = Len(steps) BY <2>3a DEF n
  <2>5. IsFiniteSet(0..L) /\ Cardinality(0..L) = L + 1 BY <2>0, FS_Interval
  <2>7. IsFiniteSet(C) /\ Cardinality(C) <= Len(steps)
    <3>1. IsFiniteSet(C) /\ Cardinality(C) <= Cardinality(1..Len(steps)) BY <2>4, <2>6, FS_Surjection
    <3> QED BY <2>4, <3>1
  <2>8. Cardinality(0..L) <= Cardinality(C) BY <2>1, <2>3, <2>7, FS_Subset
  <2>9. Cardinality(C) \in Nat BY <2>7, FS_CardinalityType
  <2> QED BY <1>0, <2>5, <2>7, <2>8, <2>9 DEF L
<1>2. FreshBuild(steps) \in 0..L /\ FreshBuild(steps) \notin B BY <1>1 DEF FreshBuild
<1>3. \A j \in 1..Len(steps) : steps[j].update.built \in B
  <2>1. DOMAIN steps = 1..Len(steps) OBVIOUS
  <2> QED BY <2>1 DEF Range
<1> QED BY <1>0, <1>2, <1>3
---------------------------------------------------------------------------
(* Building                                                                *)

Entry == MEntry \cup LEntry
Gatherers == [left : [new : Int, review : Int], seen : [Range(Notes) -> SUBSET MainKinds], took : [Kinds -> Seq(Entry)]]
Taken(took) == UNION {Range(took[k]) : k \in Kinds}
EntryFor(kind, table, c) == IF kind = "Learn" THEN LearningEntry(c, table[c]) ELSE MainEntry(c, table[c])

(* What is taken when the first cards of a kind have been gathered.        *)
Held(took, table, kind, p) ==
  /\ \A k \in Kinds : \A e \in Range(took[k]) : e.id \in Cards /\ table[e.id].kind = k /\ e = EntryFor(k, table, e.id)
  /\ \A k \in Kinds : IdsOnce(took[k])
  /\ \A k \in Kinds : GatherOrd[k] > GatherOrd[kind] => took[k] = <<>>
  /\ \A e \in Range(took[kind]) : \E i \in 1..p : e.id = Order[i]
Spaced(took, table) ==
  \A e, f \in Taken(took) : e.id # f.id /\ Notes[e.id] = Notes[f.id] => Apart(preset.bury, table[e.id].kind)
Asked(took, seen) == \A e \in Taken(took) : preset.bury \subseteq seen[Notes[e.id]]
Gathering(g, table, kind, p) ==
  g \in Gatherers /\ Held(g.took, table, kind, p) /\ Spaced(g.took, table) /\ Asked(g.took, g.seen)

LEMMA OrderIs ==
  /\ Len(Order) \in Nat
  /\ \A i \in 1..Len(Order) : Order[i] \in Cards
  /\ \A i, j \in 1..Len(Order) : Order[i] = Order[j] => i = j
<1>1. Order \in Seq(Cards) /\ DOMAIN Order = 1..Len(Order) BY OrderAssumption
<1>2. IsInjective(Order) BY OrderAssumption
<1> QED BY <1>1, <1>2 DEF IsInjective

LEMMA NoteIs == ASSUME NEW c \in Cards PROVE Notes[c] \in Range(Notes)
  BY CardsAssumption DEF Range

LEMMA EntryIs ==
  ASSUME NEW table \in CardTables, NEW c \in Cards
  PROVE  LET e == EntryFor(table[c].kind, table, c)
         IN  /\ e \in Entry /\ e.id = c /\ e.mtime = table[c].mod
             /\ table[c].kind = "Learn" => e \in LEntry
             /\ table[c].kind # "Learn" => e \in MEntry
<1>1. table[c] \in Row BY DEF CardTables
<1> QED BY <1>1 DEF EntryFor, LearningEntry, MainEntry, LEntry, MEntry, Entry, Row, Kinds

LEMMA AppendedIs ==
  ASSUME NEW s \in Seq(Entry), NEW e \in Entry
  PROVE  /\ Append(s, e) \in Seq(Entry) /\ Range(Append(s, e)) = Range(s) \cup {e}
         /\ IdsOnce(s) /\ (\A x \in Range(s) : x.id # e.id) => IdsOnce(Append(s, e))
<1> DEFINE t == Append(s, e)
<1>1. /\ t \in Seq(Entry) /\ DOMAIN s = 1..Len(s) /\ Len(s) \in Nat /\ DOMAIN t = 1..(Len(s) + 1)
      /\ t[Len(s) + 1] = e /\ \A i \in 1..Len(s) : t[i] = s[i]
  OBVIOUS
<1> HIDE DEF t
<1>2. \A i \in DOMAIN t : i = Len(s) + 1 \/ i \in DOMAIN s BY <1>1
<1>3. Range(t) = Range(s) \cup {e} BY <1>1, <1>2 DEF Range
<1>4. ASSUME IdsOnce(s), \A x \in Range(s) : x.id # e.id PROVE IdsOnce(t)
  <2>1. \A i \in DOMAIN s : t[i] = s[i] /\ s[i] \in Range(s) BY <1>1 DEF Range
  <2> QED BY <1>1, <1>2, <1>4, <2>1 DEF IdsOnce
<1> QED BY <1>1, <1>3, <1>4 DEF t

(* An entry of a card whose kind and note let it be taken.                 *)
Allowed(took, kind, c) == kind # "Learn" => \A x \in Taken(took) : Notes[x.id] = Notes[c] => kind \notin preset.bury
Adds(took, new, kind, e) ==
  /\ new \in [Kinds -> Seq(Entry)]
  /\ new[kind] = Append(took[kind], e)
  /\ \A k \in Kinds : k # kind => new[k] = took[k]

LEMMA TakenKeeps ==
  ASSUME NEW table \in CardTables, NEW kind \in Kinds, NEW i \in 1..Len(Order), NEW took \in [Kinds -> Seq(Entry)],
         Held(took, table, kind, i - 1), Spaced(took, table), preset \in Presets,
         table[Order[i]].kind = kind,
         Allowed(took, kind, Order[i]), NEW e, e = EntryFor(kind, table, Order[i]), NEW new, Adds(took, new, kind, e)
  PROVE  /\ Taken(new) = Taken(took) \cup {e} /\ e.id = Order[i]
         /\ Held(new, table, kind, i) /\ Spaced(new, table)
<1> DEFINE c == Order[i]
<1>1. c \in Cards /\ \A j \in 1..(i - 1) : Order[j] # c BY OrderIs
<1>2. e \in Entry /\ e.id = c BY <1>1, EntryIs
<1>3. \A x \in Range(took[kind]) : x.id # e.id BY <1>1, <1>2 DEF Held
<1>4. /\ Append(took[kind], e) \in Seq(Entry) /\ Range(Append(took[kind], e)) = Range(took[kind]) \cup {e}
      /\ IdsOnce(Append(took[kind], e))
  BY <1>2, <1>3, AppendedIs DEF Held
<1>5. new[kind] = Append(took[kind], e) /\ \A k \in Kinds : k # kind => new[k] = took[k] BY DEF Adds
<1>6. \A k \in Kinds : Range(new[k]) = IF k = kind THEN Range(took[k]) \cup {e} ELSE Range(took[k]) BY <1>4, <1>5
<1> HIDE DEF c
<1>7. Taken(new) = Taken(took) \cup {e}
  <2>1. \A x : x \in Taken(new) <=> \E k \in Kinds : x \in Range(new[k]) BY DEF Taken
  <2>2. \A x : x \in Taken(took) <=> \E k \in Kinds : x \in Range(took[k]) BY DEF Taken
  <2>3. \A x : x \in Taken(new) <=> x \in Taken(took) \/ x = e BY <1>6, <2>1, <2>2
  <2> QED BY <2>3
<1>8. Held(new, table, kind, i)
  <2>1. \A k \in Kinds : \A x \in Range(new[k]) : x.id \in Cards /\ table[x.id].kind = k /\ x = EntryFor(k, table, x.id)
    <3>1. \A k \in Kinds : \A x \in Range(took[k]) : x.id \in Cards /\ table[x.id].kind = k /\ x = EntryFor(k, table, x.id)
      BY DEF Held
    <3>2. e.id \in Cards /\ table[e.id].kind = kind /\ e = EntryFor(kind, table, e.id) BY <1>1, <1>2 DEF c
    <3>3. \A k \in Kinds : \A x \in Range(new[k]) : x \in Range(took[k]) \/ (k = kind /\ x = e) BY <1>6
    <3> QED BY <3>1, <3>2, <3>3
  <2>2. \A k \in Kinds : IdsOnce(new[k]) BY <1>4, <1>5 DEF Held
  <2>3. \A k \in Kinds : GatherOrd[k] > GatherOrd[kind] => new[k] = <<>>
    <3>1. GatherOrd[kind] \in Nat BY DEF GatherOrd, Kinds, MainKinds
    <3>2. \A k \in Kinds : GatherOrd[k] > GatherOrd[kind] => k # kind BY <3>1
    <3> QED BY <1>5, <3>2 DEF Held
  <2>4. \A x \in Range(new[kind]) : \E j \in 1..i : x.id = Order[j]
    <3>1. \A x \in Range(took[kind]) : \E j \in 1..i : x.id = Order[j]
      <4>1. \A j \in 1..(i - 1) : j \in 1..i OBVIOUS
      <4> QED BY <4>1 DEF Held
    <3>2. i \in 1..i OBVIOUS
    <3> QED BY <1>2, <1>6, <3>1, <3>2 DEF c
  <2> QED BY <2>1, <2>2, <2>3, <2>4 DEF Held
<1>9. \A x \in Taken(took) : Notes[x.id] = Notes[c] => Apart(preset.bury, table[x.id].kind) /\ Apart(preset.bury, kind)
  <2>1. SUFFICES ASSUME NEW x \in Taken(took), Notes[x.id] = Notes[c]
                 PROVE Apart(preset.bury, table[x.id].kind) /\ Apart(preset.bury, kind)
    OBVIOUS
  <2>2. preset.bury \in SUBSET MainKinds BY PresetsAssumption
  <2>3. PICK k \in Kinds : x \in Range(took[k]) BY DEF Taken
  <2>4. table[x.id].kind = k BY <2>3 DEF Held
  <2>5. GatherOrd[k] <= GatherOrd[kind]
    <3>1. GatherOrd[k] \in Nat /\ GatherOrd[kind] \in Nat BY DEF GatherOrd, Kinds, MainKinds
    <3>2. took[k] # <<>> BY <2>3 DEF Range
    <3> QED BY <3>1, <3>2 DEF Held
  <2>6. CASE kind = "Learn"
    <3>1. k = "Learn" BY <2>5, <2>6 DEF GatherOrd, Kinds, MainKinds
    <3>2. "Learn" \notin preset.bury BY <2>2 DEF MainKinds
    <3> QED BY <2>4, <2>6, <3>1, <3>2 DEF Apart
  <2>7. CASE kind # "Learn"
    <3>1. kind \in MainKinds /\ kind \notin preset.bury BY <2>1, <2>7 DEF Kinds, c, Allowed
    <3>2. k \in preset.bury => k \in MainKinds /\ k # kind BY <2>2, <3>1
    <3>3. k \in preset.bury => GatherOrd[k] < GatherOrd[kind] BY <2>5, <3>1, <3>2 DEF GatherOrd, Kinds, MainKinds
    <3> QED BY <2>4, <3>1, <3>3 DEF Apart, Overlooks
  <2> QED BY <2>6, <2>7
<1>10. Spaced(new, table)
  <2>1. SUFFICES ASSUME NEW x \in Taken(took) \cup {e}, NEW y \in Taken(took) \cup {e}, x.id # y.id, Notes[x.id] = Notes[y.id]
                 PROVE Apart(preset.bury, table[x.id].kind)
    BY <1>7 DEF Spaced
  <2>2. CASE x \in Taken(took) /\ y \in Taken(took) BY <2>1, <2>2 DEF Spaced
  <2>3. CASE x = e /\ y \in Taken(took) BY <1>2, <1>9, <2>1, <2>3 DEF c
  <2>4. CASE y = e /\ x \in Taken(took) BY <1>2, <1>9, <2>1, <2>4
  <2> QED BY <2>1, <2>2, <2>3, <2>4
<1> QED BY <1>2, <1>5, <1>7, <1>8, <1>10 DEF c
LEMMA PassedOver ==
  ASSUME NEW table, NEW kind, NEW i \in 1..Len(Order), NEW took, Held(took, table, kind, i - 1)
  PROVE  Held(took, table, kind, i)
<1>1. \A j \in 1..(i - 1) : j \in 1..i BY OrderIs
<1> QED BY <1>1 DEF Held

LEMMA DecrementedIs ==
  ASSUME NEW left \in [new : Int, review : Int], NEW kind
  PROVE  Decremented(left, kind) \in [new : Int, review : Int]
  BY DEF Decremented, Least

LEMMA GatherTyped ==
  ASSUME NEW table \in CardTables, NEW g \in Gatherers, NEW c \in Cards, preset \in Presets
  PROVE  Gather(g, c, table[c]) \in Gatherers
<1> DEFINE row == table[c]
           kind == row.kind
           seen == [g.seen EXCEPT ![Notes[c]] = @ \cup preset.bury]
           e == EntryFor(kind, table, c)
           took == [g.took EXCEPT ![kind] = Append(@, e)]
<1>1. kind \in Kinds /\ row \in Row BY DEF CardTables, Row
<1>2. g.left \in [new : Int, review : Int] /\ g.seen \in [Range(Notes) -> SUBSET MainKinds] /\ g.took \in [Kinds -> Seq(Entry)]
  BY DEF Gatherers
<1>3. seen \in [Range(Notes) -> SUBSET MainKinds]
  <2>1. preset.bury \in SUBSET MainKinds BY PresetsAssumption
  <2>2. Notes[c] \in Range(Notes) BY NoteIs
  <2> QED BY <1>2, <2>1, <2>2
<1>4. took \in [Kinds -> Seq(Entry)]
  <2>1. e \in Entry BY EntryIs
  <2> HIDE DEF e, kind
  <2>2. Append(g.took[kind], e) \in Seq(Entry) BY <1>1, <1>2, <2>1, AppendedIs
  <2> QED BY <1>2, <2>2
<1>5. Decremented(g.left, kind) \in [new : Int, review : Int] BY <1>2, DecrementedIs
<1>6. \/ Gather(g, c, row) = [left |-> g.left, seen |-> seen, took |-> took]
      \/ Gather(g, c, row) = g
      \/ Gather(g, c, row) = [left |-> g.left, seen |-> seen, took |-> g.took]
      \/ Gather(g, c, row) = [left |-> Decremented(g.left, kind), seen |-> seen, took |-> took]
  BY Zenon DEF Gather, EntryFor
<1> HIDE DEF seen, took, kind
<1> QED BY <1>2, <1>3, <1>4, <1>5, <1>6 DEF Gatherers

LEMMA GatherIs ==
  ASSUME NEW table \in CardTables, NEW kind \in Kinds, NEW i \in 1..Len(Order), NEW g,
         Gathering(g, table, kind, i - 1), table[Order[i]].kind = kind, preset \in Presets
  PROVE  Gathering(Gather(g, Order[i], table[Order[i]]), table, kind, i)
<1> DEFINE c == Order[i]
           row == table[c]
           seen == [g.seen EXCEPT ![Notes[c]] = @ \cup preset.bury]
           e == EntryFor(kind, table, c)
           took == [g.took EXCEPT ![kind] = Append(@, e)]
           h == Gather(g, c, row)
<1>1. c \in Cards /\ row \in Row /\ row.kind = kind BY OrderIs DEF CardTables
<1>2. g \in Gatherers /\ g.seen \in [Range(Notes) -> SUBSET MainKinds] /\ g.took \in [Kinds -> Seq(Entry)]
  BY DEF Gathering, Gatherers
<1>3. h \in Gatherers BY <1>1, <1>2, GatherTyped
<1>4. Held(g.took, table, kind, i - 1) /\ Spaced(g.took, table) /\ Asked(g.took, g.seen) BY DEF Gathering
<1>5. Held(g.took, table, kind, i) BY <1>4, PassedOver
<1>6. preset.bury \in SUBSET MainKinds BY PresetsAssumption
<1>7. Notes[c] \in Range(Notes) /\ seen[Notes[c]] = g.seen[Notes[c]] \cup preset.bury
      /\ \A n \in Range(Notes) : g.seen[n] \subseteq seen[n]
  <2>1. Notes[c] \in Range(Notes) BY <1>1, NoteIs
  <2> QED BY <1>2, <2>1
<1>8. \A x \in Taken(g.took) : Notes[x.id] \in Range(Notes)
  <2>1. \A x \in Taken(g.took) : x.id \in Cards BY <1>4 DEF Taken, Held
  <2> QED BY <2>1, NoteIs
<1>9. Asked(g.took, seen) BY <1>4, <1>7, <1>8 DEF Asked
<1>10. ASSUME kind = "Learn" \/ kind \notin g.seen[Notes[c]]
       PROVE  /\ took \in [Kinds -> Seq(Entry)] /\ Held(took, table, kind, i) /\ Spaced(took, table)
              /\ Asked(took, seen)
  <2>1. Allowed(g.took, kind, c) BY <1>4, <1>10 DEF Asked, Allowed
  <2>2. /\ took \in [Kinds -> Seq(Entry)] /\ Taken(took) = Taken(g.took) \cup {e} /\ e.id = c
        /\ Held(took, table, kind, i) /\ Spaced(took, table)
    <3>1. e = EntryFor(kind, table, Order[i]) /\ e \in Entry /\ table[Order[i]].kind = kind BY <1>1, EntryIs
    <3>2. took = [g.took EXCEPT ![kind] = Append(@, e)] OBVIOUS
    <3> HIDE DEF took, e, c
    <3>3. Adds(g.took, took, kind, e)
      <4>1. Append(g.took[kind], e) \in Seq(Entry) BY <1>2, <3>1, AppendedIs
      <4> QED BY <1>2, <3>2, <4>1 DEF Adds
    <3>4. g.took \in [Kinds -> Seq(Entry)] BY <1>2
    <3>5. Allowed(g.took, kind, Order[i]) BY <2>1 DEF c
    <3>6. /\ Taken(took) = Taken(g.took) \cup {e} /\ e.id = Order[i]
          /\ Held(took, table, kind, i) /\ Spaced(took, table)
      BY <1>4, <3>1, <3>3, <3>4, <3>5, TakenKeeps
    <3> QED BY <3>3, <3>6 DEF Adds, c
  <2>3. Asked(took, seen)
    <3> HIDE DEF took, e, seen
    <3> QED BY <1>7, <1>9, <2>2 DEF Asked
  <2> QED BY <2>2, <2>3
<1>11. /\ kind = "Learn" => h = [left |-> g.left, seen |-> seen, took |-> took]
       /\ kind # "Learn" =>
            IF g.left[LimitKind(kind)] = 0 THEN h = g
            ELSE IF kind \in g.seen[Notes[c]] THEN h = [left |-> g.left, seen |-> seen, took |-> g.took]
            ELSE h = [left |-> Decremented(g.left, kind), seen |-> seen, took |-> took]
  <2>1. row.kind = kind BY <1>1
  <2> HIDE DEF row, c
  <2> QED BY <2>1, Zenon DEF Gather, EntryFor, row
<1> HIDE DEF h, took, seen, row
<1>12. CASE h = g
  <2>1. Gathering(h, table, kind, i) BY <1>3, <1>4, <1>5, <1>12 DEF Gathering
  <2> QED BY <2>1 DEF h, row
<1>13. CASE h = [left |-> g.left, seen |-> seen, took |-> g.took]
  <2>1. h.took = g.took /\ h.seen = seen BY <1>13
  <2> QED BY <1>3, <1>4, <1>5, <1>9, <2>1 DEF Gathering, h, row
<1>14. ASSUME h.took = took, h.seen = seen, kind = "Learn" \/ kind \notin g.seen[Notes[c]]
       PROVE Gathering(h, table, kind, i)
  BY <1>3, <1>10, <1>14 DEF Gathering
<1>15. CASE kind = "Learn"
  <2>1. h.took = took /\ h.seen = seen BY <1>11, <1>15
  <2> QED BY <1>14, <1>15, <2>1 DEF h, row
<1>16. CASE kind # "Learn" /\ g.left[LimitKind(kind)] # 0 /\ kind \notin g.seen[Notes[c]]
  <2>1. h = [left |-> Decremented(g.left, kind), seen |-> seen, took |-> took] BY <1>11, <1>16
  <2>2. h.took = took /\ h.seen = seen BY <2>1
  <2> QED BY <1>14, <1>16, <2>2 DEF h, row
<1>17. CASE kind # "Learn" /\ g.left[LimitKind(kind)] = 0
  <2>1. h = g BY <1>11, <1>17
  <2> QED BY <1>12, <2>1 DEF h, row
<1>18. CASE kind # "Learn" /\ g.left[LimitKind(kind)] # 0 /\ kind \in g.seen[Notes[c]]
  <2>1. h = [left |-> g.left, seen |-> seen, took |-> g.took] BY <1>11, <1>18
  <2> QED BY <1>13, <2>1
<1> QED BY <1>15, <1>16, <1>17, <1>18

LEMMA GatherKindIs ==
  ASSUME NEW table \in CardTables, NEW kind \in Kinds, NEW g, Gathering(g, table, kind, 0), preset \in Presets
  PROVE  Gathering(GatherKind(g, kind, table), table, kind, Len(Order))
<1> DEFINE n == Len(Order)
           next(i, h) == IF Due(table[Order[i]], kind) THEN Gather(h, Order[i], table[Order[i]]) ELSE h
           Rec(f) == [i \in 0..n |-> IF i = 0 THEN g
                                     ELSE IF Due(table[Order[i]], kind) THEN Gather(f[i - 1], Order[i], table[Order[i]])
                                     ELSE f[i - 1]]
           after == CHOOSE f : f = Rec(f)
           moves == [i \in 1..n |-> [h \in Gatherers |-> next(i, h)]]
<1>1. n \in Nat /\ g \in Gatherers /\ \A i \in 1..n : Order[i] \in Cards BY OrderIs DEF Gathering
<1>2. moves \in [1..n -> [Gatherers -> Gatherers]]
  <2>1. ASSUME NEW i \in 1..n, NEW h \in Gatherers PROVE next(i, h) \in Gatherers BY <1>1, GatherTyped
  <2> HIDE DEF next, n
  <2> QED BY <2>1
<1>3. PICK f \in [0..n -> Gatherers] : Iterates(f, n, g, moves)
  <2> HIDE DEF moves, n
  <2> QED BY <1>1, <1>2, IteratesExist
<1>4. f = Rec(f)
  <2>1. ASSUME NEW i \in 1..n PROVE f[i] = next(i, f[i - 1])
    <3>1. f[i - 1] \in Gatherers BY <1>1
    <3>2. f[i] = moves[i][f[i - 1]]
      <4> HIDE DEF moves, n, next
      <4> QED BY <1>3 DEF Iterates
    <3> HIDE DEF next, n
    <3> QED BY <3>1, <3>2
  <2>2. f[0] = g BY <1>3 DEF Iterates
  <2>3. Rec(f) = [i \in 0..n |-> IF i = 0 THEN g ELSE next(i, f[i - 1])] OBVIOUS
  <2> HIDE DEF next, n, Rec
  <2> QED BY <1>1, <2>1, <2>2, <2>3
<1>5. after = Rec(after)
  <2> HIDE DEF Rec
  <2> QED BY <1>4
<1>6. GatherKind(g, kind, table) = after[n] BY DEF GatherKind
<1>7. PICK a : a = Rec(a) /\ GatherKind(g, kind, table) = a[n]
  <2> HIDE DEF after, Rec, n
  <2> QED BY <1>5, <1>6
<1> HIDE DEF after
<1>8. a[0] = g /\ \A i \in 1..n : a[i] = next(i, a[i - 1])
  <2>1. Rec(a) = [i \in 0..n |-> IF i = 0 THEN g ELSE next(i, a[i - 1])] OBVIOUS
  <2> HIDE DEF next, Rec, n
  <2> QED BY <1>1, <1>7, <2>1
<1> DEFINE S == {i \in 0..n : Gathering(a[i], table, kind, i)}
<1>9. 0 \in S BY <1>1, <1>8
<1>10. ASSUME NEW i \in 0..n, i # n, i \in S PROVE i + 1 \in S
  <2>1. i + 1 \in 1..n /\ (i + 1) - 1 = i BY <1>1, <1>10
  <2>2. a[i + 1] = next(i + 1, a[i])
    <3> HIDE DEF next
    <3> QED BY <1>8, <2>1
  <2>3. Gathering(a[i], table, kind, (i + 1) - 1) BY <1>10, <2>1
  <2>4. Gathering(a[i + 1], table, kind, i + 1)
    <3>1. CASE Due(table[Order[i + 1]], kind)
      <4>1. table[Order[i + 1]].kind = kind BY <3>1 DEF Due
      <4>2. a[i + 1] = Gather(a[i], Order[i + 1], table[Order[i + 1]]) BY <2>2, <3>1
      <4> HIDE DEF next, Rec
      <4> QED BY <2>1, <2>3, <4>1, <4>2, GatherIs
    <3>2. CASE ~Due(table[Order[i + 1]], kind)
      <4>1. a[i + 1] = a[i] BY <2>2, <3>2
      <4> QED BY <2>1, <2>3, <4>1, PassedOver DEF Gathering
    <3> QED BY <3>1, <3>2
  <2> QED BY <2>1, <2>4
<1>11. 0..n \subseteq S
  <2> HIDE DEF S, n
  <2> QED BY <1>1, <1>9, <1>10, Handed
<1> QED BY <1>1, <1>7, <1>11
LEMMA StartIs ==
  ASSUME NEW table \in CardTables, preset \in Presets, studied \in Studied, now \in Nat
  PROVE  Gathering(StartGathering, table, "Learn", 0)
<1>1. StudiedToday \in Studied BY NowIsNat DEF StudiedToday, Studied
<1>2. Limits["review"] \in Nat /\ Limits["new"] \in Nat BY LimitsAssumption
<1>3. RemainingLimits \in [new : Int, review : Int] BY <1>1, <1>2 DEF RemainingLimits, AtLeast0, Least, Studied
<1> DEFINE empty == [k \in Kinds |-> <<>>]
           seen == [n \in Range(Notes) |-> {}]
<1>4. StartGathering.took = empty /\ StartGathering.seen = seen /\ StartGathering = [left |-> RemainingLimits, seen |-> seen, took |-> empty]
  BY DEF StartGathering
<1>5. StartGathering \in Gatherers
  <2>1. empty \in [Kinds -> Seq(Entry)] /\ seen \in [Range(Notes) -> SUBSET MainKinds] OBVIOUS
  <2> HIDE DEF empty, seen
  <2> QED BY <1>3, <1>4, <2>1 DEF Gatherers
<1>6. "Learn" \in Kinds /\ \A k \in Kinds : empty[k] = <<>> /\ Range(empty[k]) = {} BY DEF Range, Kinds
<1>7. Taken(empty) = {} BY <1>6 DEF Taken
<1> HIDE DEF empty, seen
<1>8. Held(empty, table, "Learn", 0) BY <1>6 DEF Held, IdsOnce
<1>9. Spaced(empty, table) /\ Asked(empty, seen) BY <1>7 DEF Spaced, Asked
<1> QED BY <1>4, <1>5, <1>8, <1>9 DEF Gathering

LEMMA NextKind ==
  ASSUME NEW table, NEW kind \in Kinds, NEW next \in Kinds, GatherOrd[kind] < GatherOrd[next], NEW p,
         NEW g, Gathering(g, table, kind, p)
  PROVE  Gathering(g, table, next, 0)
<1>1. \A k \in Kinds : GatherOrd[k] \in Nat BY DEF GatherOrd, Kinds, MainKinds
<1>2. \A k \in Kinds : GatherOrd[k] > GatherOrd[next] => GatherOrd[k] > GatherOrd[kind] BY <1>1
<1>3. g.took[next] = <<>> BY <1>1 DEF Gathering, Held
<1>4. Range(g.took[next]) = {} BY <1>3 DEF Range
<1>5. Held(g.took, table, next, 0) BY <1>2, <1>4 DEF Gathering, Held
<1> QED BY <1>5 DEF Gathering

LEMMA GatheredIs ==
  ASSUME NEW table \in CardTables, preset \in Presets, studied \in Studied, now \in Nat
  PROVE  LET took == Gathered(table)
         IN  /\ took["Learn"] \in Seq(LEntry) /\ IdsOnce(took["Learn"])
             /\ \A k \in MainKinds : took[k] \in Seq(MEntry) /\ IdsOnce(took[k])
             /\ \A k \in Kinds : \A e \in Range(took[k]) : table[e.id].kind = k /\ e.mtime = table[e.id].mod /\ e \in Taken(took)
             /\ Spaced(took, table)
<1> DEFINE n == Len(Order)
           g1 == GatherKind(StartGathering, "Learn", table)
           g2 == GatherKind(g1, "DayLearn", table)
           g3 == GatherKind(g2, "Review", table)
           g4 == GatherKind(g3, "New", table)
<1>1. /\ {"Learn", "DayLearn", "Review", "New"} \subseteq Kinds
      /\ GatherOrd["Learn"] < GatherOrd["DayLearn"] /\ GatherOrd["DayLearn"] < GatherOrd["Review"]
      /\ GatherOrd["Review"] < GatherOrd["New"]
  BY DEF GatherOrd, Kinds, MainKinds
<1>2. Gathering(StartGathering, table, "Learn", 0) BY StartIs
<1> HIDE DEF n, g1, g2, g3, g4
<1>3. Gathering(g1, table, "Learn", n) BY <1>1, <1>2, GatherKindIs DEF g1, n
<1>4. Gathering(g1, table, "DayLearn", 0) BY <1>1, <1>3, NextKind
<1>5. Gathering(g2, table, "DayLearn", n) BY <1>1, <1>4, GatherKindIs DEF g2, n
<1>6. Gathering(g2, table, "Review", 0) BY <1>1, <1>5, NextKind
<1>7. Gathering(g3, table, "Review", n) BY <1>1, <1>6, GatherKindIs DEF g3, n
<1>8. Gathering(g3, table, "New", 0) BY <1>1, <1>7, NextKind
<1>9. Gathering(g4, table, "New", n) BY <1>1, <1>8, GatherKindIs DEF g4, n
<1> DEFINE took == g4.took
<1>10. Gathered(table) = took BY DEF Gathered, g1, g2, g3, g4
<1>11. /\ took \in [Kinds -> Seq(Entry)] /\ Spaced(took, table)
       /\ \A k \in Kinds : \A e \in Range(took[k]) : e.id \in Cards /\ table[e.id].kind = k /\ e = EntryFor(k, table, e.id)
       /\ \A k \in Kinds : IdsOnce(took[k])
  BY <1>9 DEF Gathering, Gatherers, Held
<1> HIDE DEF took
<1>12. \A k \in Kinds : \A e \in Range(took[k]) :
         /\ e.mtime = table[e.id].mod
         /\ k = "Learn" => e \in LEntry
         /\ k # "Learn" => e \in MEntry
  BY <1>11, EntryIs
<1>13. ASSUME NEW s \in Seq(Entry), NEW E, \A e \in Range(s) : e \in E PROVE s \in Seq(E)
  <2>1. \A i \in 1..Len(s) : s[i] \in Range(s) BY DEF Range
  <2> QED BY <1>13, <2>1
<1>14. took["Learn"] \in Seq(LEntry) BY <1>1, <1>11, <1>12, <1>13
<1>15. \A k \in MainKinds : took[k] \in Seq(MEntry) /\ k \in Kinds
  <2>1. \A k \in MainKinds : k \in Kinds /\ k # "Learn" BY DEF Kinds, MainKinds
  <2> QED BY <1>11, <1>12, <1>13, <2>1
<1>16. \A k \in Kinds : Range(took[k]) \subseteq Taken(took) BY DEF Taken
<1> QED BY <1>1, <1>10, <1>11, <1>12, <1>14, <1>15, <1>16

(* Learning entries sorted are the same entries.                           *)
LEMMA ByDueIs ==
  ASSUME NEW s \in Seq(LEntry), IdsOnce(s)
  PROVE  ByDue(s) \in Seq(LEntry) /\ IdsOnce(ByDue(s)) /\ Range(ByDue(s)) \subseteq Range(s)
<1> DEFINE D == 1..Len(s)
           upTo(i) == {j \in DOMAIN s : s[j].due < s[i].due \/ (s[j].due = s[i].due /\ j <= i)}
           rank == [i \in D |-> Cardinality(upTo(i))]
           place(k) == CHOOSE i \in DOMAIN s : Cardinality(upTo(i)) = k
           t == ByDue(s)
<1>1. DOMAIN s = D /\ Len(s) \in Nat /\ IsFiniteSet(D) /\ Cardinality(D) = Len(s)
  <2>1. Len(s) \in Nat OBVIOUS
  <2> DEFINE n == Len(s)
  <2> HIDE DEF n
  <2>2. IsFiniteSet(1..n) /\ Cardinality(1..n) = n BY <2>1, FS_Interval DEF n
  <2> QED BY <2>1, <2>2 DEF n
<1>2. \A i \in D : s[i].due \in Nat
  <2>1. \A i \in D : s[i] \in LEntry OBVIOUS
  <2> QED BY <2>1 DEF LEntry
<1>3. t = [k \in DOMAIN s |-> s[place(k)]] BY DEF ByDue
<1>4. \A i \in D : upTo(i) \subseteq D /\ i \in upTo(i) BY <1>1, <1>2
<1>5. \A i \in D : IsFiniteSet(upTo(i)) BY <1>1, <1>4, FS_Subset
<1>6. \A i \in D : Cardinality(upTo(i)) \in D
  <2> HIDE DEF upTo
  <2>1. SUFFICES ASSUME NEW i \in D PROVE Cardinality(upTo(i)) \in D OBVIOUS
  <2>2. IsFiniteSet(upTo(i)) /\ upTo(i) \subseteq D /\ upTo(i) # {} BY <1>4, <1>5
  <2> HIDE DEF D
  <2>3. Cardinality(upTo(i)) <= Len(s) BY <1>1, <2>2, FS_Subset
  <2>4. Cardinality(upTo(i)) \in Nat /\ Cardinality(upTo(i)) # 0 BY <2>2, FS_CardinalityType, FS_EmptySet
  <2> QED BY <1>1, <2>3, <2>4 DEF D
<1>7. ASSUME NEW i \in D, NEW j \in D, i # j, s[i].due < s[j].due \/ (s[i].due = s[j].due /\ i < j)
      PROVE Cardinality(upTo(i)) # Cardinality(upTo(j))
  <2>1. upTo(i) \subseteq upTo(j) BY <1>1, <1>2, <1>7
  <2>2. j \notin upTo(i) /\ j \in upTo(j) BY <1>1, <1>2, <1>7
  <2> HIDE DEF upTo
  <2>3. upTo(i) # upTo(j) BY <2>2
  <2> QED BY <1>5, <2>1, <2>3, FS_Subset
<1>8. \A i, j \in D : Cardinality(upTo(i)) = Cardinality(upTo(j)) => i = j
  <2>1. SUFFICES ASSUME NEW i \in D, NEW j \in D, i # j PROVE Cardinality(upTo(i)) # Cardinality(upTo(j)) OBVIOUS
  <2>2. (s[i].due < s[j].due \/ (s[i].due = s[j].due /\ i < j)) \/ (s[j].due < s[i].due \/ (s[j].due = s[i].due /\ j < i))
    BY <1>2, <2>1
  <2> HIDE DEF upTo
  <2> QED BY <1>7, <2>1, <2>2
<1>9. \A k \in D : \E i \in D : Cardinality(upTo(i)) = k
  <2>1. rank \in Injection(D, D)
    <3> HIDE DEF upTo, D
    <3> QED BY <1>6, <1>8 DEF Injection, IsInjective
  <2>2. rank \in Surjection(D, D)
    <3> HIDE DEF rank, D
    <3> QED BY <1>1, <2>1, FS_Injection
  <2> HIDE DEF upTo, D
  <2> QED BY <2>2 DEF Surjection
<1>10. \A k \in D : place(k) \in D /\ Cardinality(upTo(place(k))) = k
  <2> HIDE DEF upTo, D
  <2> QED BY <1>1, <1>9
<1> HIDE DEF t, place, upTo
<1>11. t = [k \in D |-> s[place(k)]] BY <1>1, <1>3
<1>12. \A k \in D : s[place(k)] \in LEntry /\ s[place(k)] \in Range(s) BY <1>1, <1>10 DEF Range
<1>13. t \in Seq(LEntry) /\ DOMAIN t = D BY <1>1, <1>11, <1>12
<1>14. IdsOnce(t)
  <2>1. SUFFICES ASSUME NEW k \in D, NEW l \in D, t[k].id = t[l].id PROVE k = l BY <1>13 DEF IdsOnce
  <2>2. place(k) = place(l) BY <1>1, <1>10, <1>11, <2>1 DEF IdsOnce
  <2> QED BY <1>10, <2>2
<1>15. Range(t) \subseteq Range(s) BY <1>11, <1>12, <1>13 DEF Range
<1> QED BY <1>13, <1>14, <1>15 DEF t
(* Merging                                                                 *)
LEMMA JoinedOnce ==
  ASSUME NEW one \in Seq(MEntry), NEW two \in Seq(MEntry), IdsOnce(one), IdsOnce(two),
         \A x \in Range(one), y \in Range(two) : x.id # y.id
  PROVE  /\ one \o two \in Seq(MEntry) /\ IdsOnce(one \o two)
         /\ Range(one \o two) \subseteq Range(one) \cup Range(two)
<1> DEFINE s == one \o two
           m == Len(one)
<1>1. /\ s \in Seq(MEntry) /\ Len(s) = Len(one) + Len(two)
      /\ \A j \in 1..(Len(one) + Len(two)) : s[j] = IF j <= Len(one) THEN one[j] ELSE two[j - Len(one)]
  BY Joins
<1> HIDE DEF s
<1>2. /\ m \in Nat /\ Len(two) \in Nat /\ DOMAIN one = 1..m /\ DOMAIN two = 1..Len(two) /\ DOMAIN s = 1..(m + Len(two))
  BY <1>1
<1>3. \A j \in DOMAIN s : /\ j <= m => j \in DOMAIN one /\ s[j] = one[j] /\ s[j] \in Range(one)
                          /\ j > m => j - m \in DOMAIN two /\ s[j] = two[j - m] /\ s[j] \in Range(two)
  BY <1>1, <1>2 DEF Range
<1> HIDE DEF m
<1>4. \A j \in DOMAIN s : j \in Nat /\ (j <= m \/ j > m) BY <1>2
<1>5. IdsOnce(s)
  <2>1. SUFFICES ASSUME NEW i \in DOMAIN s, NEW j \in DOMAIN s, s[i].id = s[j].id PROVE i = j BY DEF IdsOnce
  <2>2. CASE i <= m /\ j <= m BY <1>3, <2>1, <2>2 DEF IdsOnce
  <2>3. CASE i > m /\ j > m
    <3>1. i - m = j - m BY <1>3, <2>1, <2>3 DEF IdsOnce
    <3> QED BY <1>2, <1>4, <3>1
  <2>4. CASE i <= m /\ j > m BY <1>3, <2>1, <2>4
  <2>5. CASE i > m /\ j <= m BY <1>3, <2>1, <2>5
  <2> QED BY <1>4, <2>2, <2>3, <2>4, <2>5
<1>6. Range(s) \subseteq Range(one) \cup Range(two)
  <2>1. \A j \in DOMAIN s : s[j] \in Range(one) \cup Range(two) BY <1>3, <1>4
  <2> QED BY <2>1 DEF Range
<1> QED BY <1>1, <1>5, <1>6 DEF s

(* What the two have given after k turns.                                  *)
Taking(d, one, two, k) ==
  /\ d.one \in 0..Len(one) /\ d.two \in 0..Len(two) /\ d.one + d.two = k
  /\ d.seq \in Seq(MEntry) /\ IdsOnce(d.seq)
  /\ \A x \in Range(d.seq) : (\E i \in 1..d.one : x = one[i]) \/ (\E i \in 1..d.two : x = two[i])

LEMMA AppendedOnce ==
  ASSUME NEW s \in Seq(MEntry), NEW e \in MEntry, IdsOnce(s), \A x \in Range(s) : x.id # e.id
  PROVE  Append(s, e) \in Seq(MEntry) /\ IdsOnce(Append(s, e)) /\ Range(Append(s, e)) = Range(s) \cup {e}
<1>1. s \in Seq(Entry) /\ e \in Entry BY DEF Entry
<1> QED BY <1>1, AppendedIs

LEMMA TakingNext ==
  ASSUME NEW one \in Seq(MEntry), NEW two \in Seq(MEntry), IdsOnce(one), IdsOnce(two),
         \A x \in Range(one), y \in Range(two) : x.id # y.id,
         NEW k \in 0..(Len(one) + Len(two)), k # Len(one) + Len(two), NEW d, Taking(d, one, two, k)
  PROVE  Taking(TakenNext(one, two, d), one, two, k + 1)
<1> DEFINE i1 == d.one + 1
           i2 == d.two + 1
           second == i1 > Len(one) \/ (i2 <= Len(two) /\ i2 * (Len(one) + 1) < i1 * (Len(two) + 1))
           dTwo == [one |-> d.one, two |-> i2, seq |-> Append(d.seq, two[i2])]
           dOne == [one |-> i1, two |-> d.two, seq |-> Append(d.seq, one[i1])]
           n == TakenNext(one, two, d)
<1>0. /\ Len(one) \in Nat /\ Len(two) \in Nat /\ DOMAIN one = 1..Len(one) /\ DOMAIN two = 1..Len(two)
      /\ d.one \in Nat /\ d.two \in Nat /\ d.one <= Len(one) /\ d.two <= Len(two) /\ d.one + d.two = k
      /\ k \in Nat /\ k < Len(one) + Len(two)
  BY DEF Taking
<1>1. n = IF second THEN dTwo ELSE dOne BY DEF TakenNext
<1>2. second => i2 <= Len(two) /\ i1 \in Nat /\ i2 \in Nat
  <2>1. CASE i1 > Len(one) BY <1>0, <2>1
  <2>2. CASE i2 <= Len(two) BY <1>0, <2>2
  <2> QED BY <2>1, <2>2
<1>3. ~second => i1 <= Len(one) BY <1>0
<1>4. second \in BOOLEAN OBVIOUS
<1>5. d.seq \in Seq(MEntry) /\ IdsOnce(d.seq)
      /\ \A x \in Range(d.seq) : (\E i \in 1..d.one : x = one[i]) \/ (\E i \in 1..d.two : x = two[i])
  BY DEF Taking
<1> HIDE DEF second
<1>6. CASE second
  <2> DEFINE e == two[i2]
  <2>1. i2 \in DOMAIN two /\ i2 \in Nat BY <1>0, <1>2, <1>6
  <2>2. e \in MEntry /\ e \in Range(two) BY <2>1 DEF Range
  <2>3. \A x \in Range(d.seq) : x.id # e.id
    <3>1. \A i \in 1..d.one : one[i] \in Range(one) BY <1>0 DEF Range
    <3>2. \A i \in 1..d.two : i \in DOMAIN two /\ i # i2 BY <1>0
    <3>3. \A i \in 1..d.two : two[i].id # two[i2].id BY <2>1, <3>2 DEF IdsOnce
    <3> QED BY <1>5, <2>2, <3>1, <3>3
  <2>4. n = dTwo BY <1>1, <1>6
  <2>5. n.one = d.one /\ n.two = i2 /\ n.seq = Append(d.seq, e) BY <2>4
  <2> HIDE DEF n, e
  <2>6. n.seq \in Seq(MEntry) /\ IdsOnce(n.seq) /\ Range(n.seq) = Range(d.seq) \cup {e} BY <1>5, <2>2, <2>3, <2>5, AppendedOnce
  <2>7. \A x \in Range(n.seq) : (\E i \in 1..n.one : x = one[i]) \/ (\E i \in 1..n.two : x = two[i])
    <3>1. \A i \in 1..d.two : i \in 1..n.two BY <1>0, <2>5
    <3>2. i2 \in 1..n.two /\ e = two[i2] BY <2>1, <2>5, <1>0 DEF e
    <3> QED BY <1>5, <2>5, <2>6, <3>1, <3>2
  <2>8. n.one \in 0..Len(one) /\ n.two \in 0..Len(two) /\ n.one + n.two = k + 1 BY <1>0, <1>2, <1>6, <2>5
  <2> QED BY <2>6, <2>7, <2>8 DEF Taking, n
<1>7. CASE ~second
  <2> DEFINE e == one[i1]
  <2>1. i1 \in DOMAIN one /\ i1 \in Nat BY <1>0, <1>3, <1>7
  <2>2. e \in MEntry /\ e \in Range(one) BY <2>1 DEF Range
  <2>3. \A x \in Range(d.seq) : x.id # e.id
    <3>1. \A i \in 1..d.two : two[i] \in Range(two) BY <1>0 DEF Range
    <3>2. \A i \in 1..d.one : i \in DOMAIN one /\ i # i1 BY <1>0
    <3>3. \A i \in 1..d.one : one[i].id # one[i1].id BY <2>1, <3>2 DEF IdsOnce
    <3> QED BY <1>5, <2>2, <3>1, <3>3
  <2>4. n = dOne BY <1>1, <1>7
  <2>5. n.one = i1 /\ n.two = d.two /\ n.seq = Append(d.seq, e) BY <2>4
  <2> HIDE DEF n, e
  <2>6. n.seq \in Seq(MEntry) /\ IdsOnce(n.seq) /\ Range(n.seq) = Range(d.seq) \cup {e} BY <1>5, <2>2, <2>3, <2>5, AppendedOnce
  <2>7. \A x \in Range(n.seq) : (\E i \in 1..n.one : x = one[i]) \/ (\E i \in 1..n.two : x = two[i])
    <3>1. \A i \in 1..d.one : i \in 1..n.one BY <1>0, <2>5
    <3>2. i1 \in 1..n.one /\ e = one[i1] BY <2>1, <2>5, <1>0 DEF e
    <3> QED BY <1>5, <2>5, <2>6, <3>1, <3>2
  <2>8. n.one \in 0..Len(one) /\ n.two \in 0..Len(two) /\ n.one + n.two = k + 1 BY <1>0, <1>3, <1>7, <2>5
  <2> QED BY <2>6, <2>7, <2>8 DEF Taking, n
<1> QED BY <1>4, <1>6, <1>7
LEMMA InterspersedIs ==
  ASSUME NEW one \in Seq(MEntry), NEW two \in Seq(MEntry), IdsOnce(one), IdsOnce(two),
         \A x \in Range(one), y \in Range(two) : x.id # y.id
  PROVE  /\ Interspersed(one, two) \in Seq(MEntry) /\ IdsOnce(Interspersed(one, two))
         /\ Range(Interspersed(one, two)) \subseteq Range(one) \cup Range(two)
<1> DEFINE n == Len(one) + Len(two)
           start == [one |-> 0, two |-> 0, seq |-> <<>>]
           E == MEntry \cup {one[i] : i \in Nat} \cup {two[i] : i \in Nat}
           X == [one : Nat, two : Nat, seq : Seq(E)]
           Rec(f) == [k \in 0..n |-> IF k = 0 THEN start ELSE TakenNext(one, two, f[k - 1])]
           after == CHOOSE f : f = Rec(f)
           moves == [k \in 1..n |-> [d \in X |-> TakenNext(one, two, d)]]
<1>1. n \in Nat /\ start \in X OBVIOUS
<1>2. ASSUME NEW d \in X PROVE TakenNext(one, two, d) \in X
  <2> DEFINE i1 == d.one + 1
             i2 == d.two + 1
  <2>1. i1 \in Nat /\ i2 \in Nat /\ d.one \in Nat /\ d.two \in Nat /\ d.seq \in Seq(E) OBVIOUS
  <2>2. one[i1] \in E /\ two[i2] \in E BY <2>1
  <2> HIDE DEF E
  <2>3. Append(d.seq, one[i1]) \in Seq(E) /\ Append(d.seq, two[i2]) \in Seq(E) BY <2>1, <2>2
  <2>4. /\ [one |-> d.one, two |-> i2, seq |-> Append(d.seq, two[i2])] \in X
        /\ [one |-> i1, two |-> d.two, seq |-> Append(d.seq, one[i1])] \in X
    BY <2>1, <2>3
  <2> HIDE DEF X
  <2> QED BY <2>4 DEF TakenNext
<1>3. moves \in [1..n -> [X -> X]]
  <2> HIDE DEF X, n
  <2> QED BY <1>2
<1>4. PICK f \in [0..n -> X] : Iterates(f, n, start, moves)
  <2> HIDE DEF moves, n, X, start
  <2> QED BY <1>1, <1>3, IteratesExist
<1> HIDE DEF X, E
<1>5. f = Rec(f)
  <2>1. ASSUME NEW k \in 1..n PROVE f[k] = TakenNext(one, two, f[k - 1])
    <3>1. f[k - 1] \in X
      <4> HIDE DEF moves, n
      <4>1. k - 1 \in 0..n BY <1>1
      <4> QED BY <4>1
    <3>2. f[k] = moves[k][f[k - 1]]
      <4> HIDE DEF moves, n
      <4> QED BY <1>4 DEF Iterates
    <3> HIDE DEF n
    <3> QED BY <3>1, <3>2
  <2>2. f[0] = start BY <1>4 DEF Iterates
  <2> HIDE DEF n, start
  <2> QED BY <1>1, <2>1, <2>2
<1>6. after = Rec(after)
  <2> HIDE DEF Rec
  <2> QED BY <1>5
<1>7. Interspersed(one, two) = after[n].seq BY DEF Interspersed
<1>8. PICK a : a = Rec(a) /\ Interspersed(one, two) = a[n].seq
  <2> HIDE DEF after, Rec, n
  <2> QED BY <1>6, <1>7
<1> HIDE DEF after
<1>9. a[0] = start /\ \A k \in 1..n : a[k] = TakenNext(one, two, a[k - 1])
  <2> HIDE DEF n, start
  <2> QED BY <1>1, <1>8
<1> DEFINE S == {k \in 0..n : Taking(a[k], one, two, k)}
<1>10. 0 \in S
  <2>1. Range(<<>>) = {} BY DEF Range
  <2>2. Taking(start, one, two, 0)
    <3>1. start.one = 0 /\ start.two = 0 /\ start.seq = <<>> OBVIOUS
    <3> HIDE DEF start
    <3> QED BY <2>1, <3>1 DEF Taking, IdsOnce
  <2> QED BY <1>1, <1>9, <2>2
<1>11. ASSUME NEW k \in 0..n, k # n, k \in S PROVE k + 1 \in S
  <2>1. k + 1 \in 1..n /\ (k + 1) - 1 = k BY <1>1, <1>11
  <2>2. a[k + 1] = TakenNext(one, two, a[k])
    <3> HIDE DEF n
    <3> QED BY <1>9, <2>1
  <2>3. Taking(a[k + 1], one, two, k + 1)
    <3>1. Taking(a[k], one, two, k) BY <1>11
    <3> QED BY <1>11, <2>2, <3>1, TakingNext
  <2> QED BY <2>1, <2>3
<1>12. 0..n \subseteq S
  <2> HIDE DEF S, n
  <2> QED BY <1>1, <1>10, <1>11, Handed
<1>13. Taking(a[n], one, two, n) BY <1>1, <1>12
<1> DEFINE d == a[n]
<1>14. /\ d.seq \in Seq(MEntry) /\ IdsOnce(d.seq) /\ d.one \in 0..Len(one) /\ d.two \in 0..Len(two)
       /\ \A x \in Range(d.seq) : (\E i \in 1..d.one : x = one[i]) \/ (\E i \in 1..d.two : x = two[i])
  BY <1>13 DEF Taking
<1> HIDE DEF d
<1>15. Range(d.seq) \subseteq Range(one) \cup Range(two)
  <2>1. \A i \in 1..d.one : one[i] \in Range(one)
    <3>1. \A i \in 1..d.one : i \in DOMAIN one BY <1>14
    <3> QED BY <3>1 DEF Range
  <2>2. \A i \in 1..d.two : two[i] \in Range(two)
    <3>1. \A i \in 1..d.two : i \in DOMAIN two BY <1>14
    <3> QED BY <3>1 DEF Range
  <2> QED BY <1>14, <2>1, <2>2
<1> QED BY <1>8, <1>14, <1>15 DEF d

LEMMA MergedIs ==
  ASSUME NEW mix \in Mixes, NEW one \in Seq(MEntry), NEW two \in Seq(MEntry), IdsOnce(one), IdsOnce(two),
         \A x \in Range(one), y \in Range(two) : x.id # y.id
  PROVE  /\ Merged(mix, one, two) \in Seq(MEntry) /\ IdsOnce(Merged(mix, one, two))
         /\ Range(Merged(mix, one, two)) \subseteq Range(one) \cup Range(two)
<1>1. CASE mix = "after"
  <2>1. Merged(mix, one, two) = one \o two BY <1>1 DEF Merged
  <2> QED BY <2>1, JoinedOnce
<1>2. CASE mix = "before"
  <2>1. Merged(mix, one, two) = two \o one BY <1>2 DEF Merged
  <2>2. \A x \in Range(two), y \in Range(one) : x.id # y.id OBVIOUS
  <2> QED BY <2>1, <2>2, JoinedOnce
<1>3. CASE mix = "mixed"
  <2>1. Merged(mix, one, two) = Interspersed(one, two) BY <1>3 DEF Merged
  <2> QED BY <2>1, InterspersedIs
<1> QED BY <1>1, <1>2, <1>3 DEF Mixes

(* New queues are good.                                                    *)
LEMMA BuiltIs ==
  ASSUME NEW table \in CardTables, NEW steps \in Seq(Recorded), Len(steps) <= UNDO_LIMIT,
         preset \in Presets, studied \in Studied, now \in Nat
  PROVE  LET q == BuildQueues(table, steps)
         IN  /\ q \in Queues /\ IdsOnce(q.learning) /\ q.built = FreshBuild(steps) /\ q.day = Today
             /\ Good(Moment(table, q), preset.bury)
<1> DEFINE took == Gathered(table)
           learning == ByDue(took["Learn"])
           soon == {i \in DOMAIN learning : learning[i].due <= now + LearnAhead}
           days == Merged(preset.dayMix, took["Review"], took["DayLearn"])
           main == Merged(preset.newMix, days, took["New"])
           q == BuildQueues(table, steps)
<1>1. {"Review", "DayLearn", "New"} \subseteq MainKinds /\ {"Review", "DayLearn", "New", "Learn"} \subseteq Kinds BY DEF Kinds, MainKinds
<1>2. preset.dayMix \in Mixes /\ preset.newMix \in Mixes BY PresetsAssumption
<1>3. /\ took["Learn"] \in Seq(LEntry) /\ IdsOnce(took["Learn"])
      /\ \A k \in MainKinds : took[k] \in Seq(MEntry) /\ IdsOnce(took[k])
      /\ \A k \in Kinds : \A e \in Range(took[k]) : table[e.id].kind = k /\ e.mtime = table[e.id].mod /\ e \in Taken(took)
      /\ Spaced(took, table)
  BY GatheredIs
<1> HIDE DEF took
<1>4. learning \in Seq(LEntry) /\ IdsOnce(learning) /\ Range(learning) \subseteq Range(took["Learn"]) BY <1>3, ByDueIs
<1>5. /\ days \in Seq(MEntry) /\ IdsOnce(days)
      /\ Range(days) \subseteq Range(took["Review"]) \cup Range(took["DayLearn"])
  <2>1. \A x \in Range(took["Review"]), y \in Range(took["DayLearn"]) : x.id # y.id BY <1>1, <1>3
  <2> QED BY <1>1, <1>2, <1>3, <2>1, MergedIs
<1> HIDE DEF learning, days
<1>6. /\ main \in Seq(MEntry) /\ IdsOnce(main)
      /\ Range(main) \subseteq Range(took["Review"]) \cup Range(took["DayLearn"]) \cup Range(took["New"])
  <2>1. \A x \in Range(days), y \in Range(took["New"]) : x.id # y.id BY <1>1, <1>3, <1>5
  <2>2. main \in Seq(MEntry) /\ IdsOnce(main) /\ Range(main) \subseteq Range(days) \cup Range(took["New"])
    BY <1>1, <1>2, <1>3, <1>5, <2>1, MergedIs
  <2> QED BY <1>5, <2>2
<1> HIDE DEF main
<1>7. Cardinality(soon) \in Nat
  <2>1. DOMAIN learning = 1..Len(learning) /\ Len(learning) \in Nat BY <1>4
  <2> DEFINE n == Len(learning)
  <2> HIDE DEF n
  <2>2. IsFiniteSet(1..n) BY <2>1, FS_Interval DEF n
  <2>3. soon \in SUBSET (1..n) BY <2>1 DEF n
  <2> HIDE DEF soon
  <2> QED BY <2>2, <2>3, FS_Subset, FS_CardinalityType
<1>8. FreshBuild(steps) \in Nat /\ Today \in Nat BY FreshBuildIs, NowIsNat
<1>9. q = [main |-> main, learning |-> learning, new |-> Len(took["New"]), review |-> Len(took["Review"]),
           learn |-> Cardinality(soon) + Len(took["DayLearn"]), cutoff |-> now, day |-> Today, built |-> FreshBuild(steps)]
  BY DEF BuildQueues, main, days, learning, took
<1> HIDE DEF q, soon
<1>10. Len(took["New"]) \in Nat /\ Len(took["Review"]) \in Nat /\ Len(took["DayLearn"]) \in Nat BY <1>1, <1>3
<1>11. /\ q \in Queues /\ q.main = main /\ q.learning = learning /\ q.built = FreshBuild(steps) /\ q.day = Today
  BY <1>4, <1>6, <1>7, <1>8, <1>9, <1>10 DEF Queues
<1> DEFINE m == Moment(table, q)
<1>12. m.cards = table /\ m.main = main /\ m.learning = Range(learning) BY <1>11, KeptMoment
<1> HIDE DEF m
<1>13. \A e \in Queued(m) : e \in Taken(took) /\ e.mtime = table[e.id].mod BY <1>1, <1>3, <1>4, <1>6, <1>12 DEF Queued
<1>14. \A e, f \in m.learning : e.id = f.id => e = f BY <1>4, <1>12 DEF IdsOnce, Range
<1>15. \A e \in Range(m.main), f \in m.learning : e.id # f.id
  <2>1. \A e \in Range(main) : table[e.id].kind # "Learn" BY <1>1, <1>3, <1>6
  <2>2. \A f \in Range(learning) : table[f.id].kind = "Learn" BY <1>1, <1>3, <1>4
  <2> QED BY <1>12, <2>1, <2>2
<1>16. Good(m, preset.bury) BY <1>3, <1>6, <1>12, <1>13, <1>14, <1>15 DEF Good, Spaced
<1> QED BY <1>4, <1>11, <1>16 DEF q, m
---------------------------------------------------------------------------
(* The inductive invariant                                                 *)

Typed ==
  /\ TypeOK
  /\ undo \in Seq(Recorded) /\ redo \in Seq(Recorded) /\ Len(undo) + Len(redo) <= UNDO_LIMIT
  /\ Kept => queues \in Queues /\ IdsOnce(queues.learning)
Present == Moment(cards, queues)
LinesHold ==
  /\ Good(Present, preset.bury)
  /\ Line(undo, Present, queues.built, preset.bury, TRUE)
  /\ Line(redo, Present, queues.built, preset.bury, FALSE)
(* A card is shown that is first in the kept queues; without them it is a  *)
(* review fetched on an earlier day, whose answer is refused.              *)
ShownFits == shown.card # NoCard =>
  /\ shown.day <= Today
  /\ Kept => Showable(queues) # {} /\ First(queues).id = shown.card
  /\ ~Kept => cards[shown.card].kind = "Review" /\ shown.day # Today
IInv == Typed /\ LinesHold /\ ShownFits

LEMMA TypeParts ==
  ASSUME TypeOK
  PROVE  /\ now \in Nat /\ cards \in CardTables /\ studied \in Studied /\ preset \in Presets
         /\ preset.bury \in SUBSET MainKinds /\ Today \in Nat
  BY PresetsAssumption, NowIsNat DEF TypeOK, CardTables, Studied

LEMMA UpdateForms ==
  /\ NoUpdate \notin Update /\ NoUpdate.built = -2 /\ NoQueues.built = -1
  /\ \A u \in Update : u.built \in Nat /\ u.cutoff \in Nat /\ u.learn \in Int /\ u.entry \in MEntry \cup LEntry /\ u.requeue \in SUBSET LEntry
<1>1. "entry" \notin DOMAIN NoUpdate BY DEF NoUpdate
<1>2. \A u \in Update : "entry" \in DOMAIN u BY DEF Update
<1>3. \A u \in Update : u.built \in Nat /\ u.cutoff \in Nat /\ u.learn \in Int /\ u.entry \in MEntry \cup LEntry /\ u.requeue \in SUBSET LEntry
  BY DEF Update
<1> QED BY <1>1, <1>2, <1>3 DEF NoUpdate, NoQueues

LEMMA RecordedForms ==
  ASSUME NEW s \in Recorded
  PROVE  /\ s.op \in {"answer", "bury", "bring_back", "flag"} /\ s.rows \in Rows /\ s.studied \in Studied
         /\ s.op = "answer" => s.update \in Update /\ s.update # NoUpdate
         /\ s.op # "answer" => s.update = NoUpdate
         /\ s.update.built # NoQueues.built
<1>1. s \in [op : {"answer", "bury", "bring_back", "flag"}, rows : Rows, studied : Studied, update : Update \cup {NoUpdate}]
      /\ (s.update \in Update <=> s.op = "answer")
  BY DEF Recorded
<1>2. s.op \in {"answer", "bury", "bring_back", "flag"} /\ s.rows \in Rows /\ s.studied \in Studied /\ s.update \in Update \cup {NoUpdate}
  BY <1>1
<1>3. s.update.built # NoQueues.built BY <1>2, UpdateForms
<1> QED BY <1>1, <1>2, <1>3, UpdateForms

LEMMA StepIs ==
  ASSUME NEW op \in {"answer", "bury", "bring_back", "flag"}, NEW rows \in Rows, NEW update \in Update \cup {NoUpdate},
         update \in Update <=> op = "answer", cards \in CardTables, studied \in Studied
  PROVE  /\ Step(op, rows, update) \in Recorded /\ Step(op, rows, update).op = op
         /\ Step(op, rows, update).rows = Old(rows) /\ Step(op, rows, update).update = update
<1>1. Old(rows) \in Rows BY OldIs
<1> QED BY <1>1 DEF Step, Recorded

LEMMA InverseIs ==
  ASSUME NEW s \in Recorded, cards \in CardTables, studied \in Studied
  PROVE  /\ InverseStep(s) \in Recorded /\ InverseStep(s).op = s.op
         /\ InverseStep(s).rows = Old(s.rows) /\ InverseStep(s).update = s.update
<1>1. Old(s.rows) \in Rows BY OldIs, RecordedForms
<1>2. s \in [op : {"answer", "bury", "bring_back", "flag"}, rows : Rows, studied : Studied, update : Update \cup {NoUpdate}]
      /\ (s.update \in Update <=> s.op = "answer")
  BY DEF Recorded
<1> DEFINE o == Old(s.rows)
<1>3. InverseStep(s) = [s EXCEPT !.rows = o, !.studied = studied] BY DEF InverseStep
<1> HIDE DEF o
<1>4. o \in Rows BY <1>1 DEF o
<1>5. /\ InverseStep(s) \in [op : {"answer", "bury", "bring_back", "flag"}, rows : Rows, studied : Studied, update : Update \cup {NoUpdate}]
      /\ InverseStep(s).op = s.op /\ InverseStep(s).rows = o /\ InverseStep(s).update = s.update
  BY <1>2, <1>3, <1>4
<1> QED BY <1>2, <1>5 DEF Recorded, o

LEMMA MomentOf ==
  ASSUME NEW m \in Moments, NEW table \in CardTables, NEW q \in Queues,
         m.cards = table, m.main = q.main, m.learning = Range(q.learning)
  PROVE  m = Moment(table, q)
<1>1. /\ Moment(table, q) \in Moments /\ Moment(table, q).cards = table
      /\ Moment(table, q).main = q.main /\ Moment(table, q).learning = Range(q.learning)
  BY KeptMoment
<1> QED BY <1>1 DEF Moments

LEMMA PresentIs ==
  ASSUME Typed
  PROVE  Present \in Moments /\ Present.cards = cards /\ (~Kept => Present = Moment(cards, NoQueues))
<1>1. cards \in CardTables BY TypeParts DEF Typed
<1>2. CASE Kept BY <1>1, <1>2, KeptMoment DEF Typed, Present
<1>3. CASE ~Kept BY <1>1, <1>3, EmptyMoment DEF Present, Kept
<1> QED BY <1>2, <1>3

(* Without queues the histories need only lead through the cards.          *)
LEMMA NotKept ==
  ASSUME NEW steps \in Seq(Recorded), NEW table \in CardTables, CardsLine(steps, table), NEW bury, NEW back
  PROVE  Line(steps, Moment(table, NoQueues), NoQueues.built, bury, back)
<1>1. \A j \in 1..Len(steps) : steps[j].update.built # NoQueues.built
  <2>1. \A j \in 1..Len(steps) : steps[j] \in Recorded OBVIOUS
  <2> QED BY <2>1, RecordedForms
<1> QED BY <1>1, EmptyMoment, Rebuilt

LEMMA NoCardsLine == ASSUME NEW table \in CardTables PROVE CardsLine(<<>>, table)
<1>1. Line(<<>>, Moment(table, NoQueues), 0, {}, TRUE) BY EmptyMoment, NoLine
<1> QED BY <1>1, EmptyMoment, LineOfCards

(* A step saved in front of the history it undoes.                         *)
LEMMA SavedCards ==
  ASSUME NEW steps \in Seq(Recorded), NEW step \in Recorded, NEW table \in CardTables, NEW old, CardsLine(steps, old),
         old = Written(step.rows, table), step.op = "flag" => old = table
  PROVE  CardsLine(Saved(steps, step), table)
<1>1. PICK k \in 0..Len(steps) : Saved(steps, step) = <<step>> \o SubSeq(steps, 1, k) BY SavedIs
<1>2. SubSeq(steps, 1, k) \in Seq(Recorded) BY Cut
<1>3. CardsLine(SubSeq(steps, 1, k), old) BY CardsCut
<1> HIDE DEF Saved
<1> QED BY <1>1, <1>2, <1>3, CardsLonger

LEMMA SavedLine ==
  ASSUME NEW steps \in Seq(Recorded), NEW step \in Recorded, NEW m \in Moments, NEW next \in Moments,
         NEW built, NEW bury, NEW back, Line(steps, next, built, bury, back), Good(next, bury),
         next.cards = Written(step.rows, m.cards), Live(step, built), Leads(m, next, step, back)
  PROVE  Line(Saved(steps, step), m, built, bury, back)
<1>1. PICK k \in 0..Len(steps) : Saved(steps, step) = <<step>> \o SubSeq(steps, 1, k) BY SavedIs
<1> DEFINE l == SubSeq(steps, 1, k)
<1>2. l \in Seq(Recorded) BY Cut
<1>3. Line(l, next, built, bury, back) BY LineCut
<1>4. Saved(steps, step) = <<step>> \o l BY <1>1
<1> HIDE DEF l
<1>5. Line(<<step>> \o l, m, built, bury, back) BY <1>2, <1>3, LineLonger
<1> QED BY <1>4, <1>5
---------------------------------------------------------------------------
(* Every step keeps the invariant                                          *)

LEMMA Dropped ==
  ASSUME undo' \in Seq(Recorded), redo' \in Seq(Recorded), cards' \in CardTables,
         CardsLine(undo', cards'), CardsLine(redo', cards'), queues' = NoQueues
  PROVE  LinesHold' /\ ~Kept'
<1>1. Present' = Moment(cards', NoQueues) BY DEF Present
<1>2. Good(Present', preset'.bury) BY <1>1, EmptyMoment
<1>3. /\ Line(undo', Present', queues'.built, preset'.bury, TRUE)
      /\ Line(redo', Present', queues'.built, preset'.bury, FALSE)
  BY <1>1, NotKept
<1> QED BY <1>2, <1>3 DEF LinesHold, Kept

LEMMA Emptied ==
  ASSUME undo' = <<>>, redo' = <<>>, queues' = NoQueues, cards' \in CardTables
  PROVE  /\ LinesHold' /\ ~Kept' /\ undo' \in Seq(Recorded) /\ redo' \in Seq(Recorded)
         /\ Len(undo') + Len(redo') <= UNDO_LIMIT
<1>1. <<>> \in Seq(Recorded) /\ Len(<<>>) = 0 OBVIOUS
<1>2. CardsLine(<<>>, cards') BY NoCardsLine
<1>3. 0 + 0 <= UNDO_LIMIT BY LimitsAssumption
<1> QED BY <1>1, <1>2, <1>3, Dropped

LEMMA NobodyShown ==
  ASSUME ForgetCard
  PROVE  ShownFits' /\ shown' \in [card : Cards \cup {NoCard}, day : Nat]
  BY DEF ForgetCard, Nobody, ShownFits

LEMMA InitKeeps == Init => IInv
<1> SUFFICES ASSUME Init PROVE IInv OBVIOUS
<1> USE DEF Init
<1>1. PICK kinds \in Tables : cards = [c \in Cards |-> FirstRow(kinds[c])] OBVIOUS
<1>2. now \in Nat /\ Today \in Nat BY NowIsNat
<1>3. \A k \in Kinds : FirstRow(k) \in Row BY <1>2 DEF FirstRow, Row, Kinds, MainKinds
<1>4. \A c \in Cards : kinds[c] \in Kinds BY TablesAssumption
<1>5. cards \in CardTables BY <1>1, <1>3, <1>4 DEF CardTables
<1>6. Nobody \in [card : Cards \cup {NoCard}, day : Nat] /\ Nobody.card = NoCard BY DEF Nobody
<1>7. TypeOK BY <1>2, <1>5, <1>6 DEF TypeOK, CardTables
<1>8. <<>> \in Seq(Recorded) /\ Len(<<>>) = 0 /\ 0 + 0 <= UNDO_LIMIT BY LimitsAssumption
<1>9. ~Kept BY DEF Kept
<1>10. Typed BY <1>7, <1>8, <1>9 DEF Typed
<1>11. Present = Moment(cards, NoQueues) BY DEF Present
<1>12. LinesHold
  <2>1. CardsLine(<<>>, cards) BY <1>5, NoCardsLine
  <2>2. Good(Present, preset.bury) BY <1>5, <1>11, EmptyMoment
  <2>3. \A b \in BOOLEAN : Line(<<>>, Present, NoQueues.built, preset.bury, b) BY <1>5, <1>8, <1>11, <2>1, NotKept
  <2> QED BY <2>2, <2>3 DEF LinesHold
<1>13. ShownFits BY <1>6 DEF ShownFits
<1> QED BY <1>10, <1>12, <1>13 DEF IInv

LEMMA DaysPass ==
  ASSUME NEW a \in Nat, NEW b \in Nat, a <= b
  PROVE  Day(a) \in Nat /\ Day(b) \in Nat /\ Day(a) <= Day(b)
<1> DEFINE d == DayLength
           x == a \div d
           y == b \div d
<1>1. d \in Nat \ {0} BY TimeAssumption
<1> HIDE DEF d
<1>2. x \in Nat /\ y \in Nat /\ a = d * x + (a % d) /\ b = d * y + (b % d) /\ a % d \in 0..(d - 1) /\ b % d \in 0..(d - 1)
  BY <1>1
<1>3. x <= y
  <2> SUFFICES ASSUME ~(x <= y) PROVE FALSE OBVIOUS
  <2> HIDE DEF x, y
  <2>1. x >= y + 1 BY <1>2
  <2>2. d * x >= d * (y + 1) BY <1>1, <1>2, <2>1
  <2>3. d * (y + 1) = d * y + d BY <1>1, <1>2
  <2> QED BY <1>1, <1>2, <2>2, <2>3
<1> QED BY <1>2, <1>3 DEF Day, d

LEMMA TickKeeps == ASSUME IInv, Tick PROVE IInv'
<1> USE DEF Tick
<1>1. now \in Nat /\ now' \in Nat /\ now <= now' BY DEF IInv, Typed, TypeOK
<1>2. Today \in Nat /\ Today' \in Nat /\ Today <= Today'
  <2>1. Day(now) \in Nat /\ Day(now') \in Nat /\ Day(now) <= Day(now') BY <1>1, DaysPass
  <2> QED BY <2>1 DEF Today, Day
<1>3. Typed' BY <1>1 DEF IInv, Typed, TypeOK, Kept
<1>4. LinesHold' BY DEF IInv, LinesHold, Present
<1>5. ShownFits'
  <2>1. shown.card # NoCard => shown.day \in Nat BY DEF IInv, Typed, TypeOK
  <2>2. Kept' = Kept BY DEF Kept
  <2>3. shown' = shown /\ queues' = queues /\ cards' = cards OBVIOUS
  <2>4. ShownFits BY DEF IInv
  <2> QED BY <1>2, <2>1, <2>2, <2>3, <2>4 DEF ShownFits
<1> QED BY <1>3, <1>4, <1>5 DEF IInv

LEMMA RestartKeeps == ASSUME IInv, Restart PROVE IInv'
<1> USE DEF Restart, RolledBack
<1>1. TypeOK BY DEF IInv, Typed
<1>2. /\ LinesHold' /\ ~Kept' /\ undo' \in Seq(Recorded) /\ redo' \in Seq(Recorded)
      /\ Len(undo') + Len(redo') <= UNDO_LIMIT
  BY <1>1, TypeParts, Emptied
<1>3. ShownFits' /\ shown' \in [card : Cards \cup {NoCard}, day : Nat] BY NobodyShown
<1>4. Typed' BY <1>1, <1>2, <1>3 DEF Typed, TypeOK
<1> QED BY <1>2, <1>3, <1>4 DEF IInv

LEMMA PanicKeeps ==
  ASSUME IInv, NEW step \in Recorded, NEW table \in CardTables, Panic(step, table)
  PROVE  IInv' /\ ~Kept'
<1> USE DEF Panic
<1>1. TypeOK BY DEF IInv, Typed
<1>2. /\ LinesHold' /\ ~Kept' /\ undo' \in Seq(Recorded) /\ redo' \in Seq(Recorded)
      /\ Len(undo') + Len(redo') <= UNDO_LIMIT
  BY Emptied
<1>3. ShownFits' /\ shown' \in [card : Cards \cup {NoCard}, day : Nat] BY NobodyShown
<1>4. step.studied \in Studied BY RecordedForms
<1>5. TypeOK' BY <1>1, <1>3, <1>4 DEF TypeOK, CardTables, Studied
<1>6. Typed' BY <1>2, <1>5 DEF Typed
<1> QED BY <1>2, <1>3, <1>6 DEF IInv

(* Operations of the user other than answers.                              *)
LEMMA UserOpKeeps ==
  ASSUME IInv, NEW op \in {"bury", "bring_back", "flag"}, NEW rows \in Rows, UserOp(op, rows),
         op = "flag" => Changed(rows) = cards
  PROVE  IInv'
<1> USE DEF UserOp
<1> DEFINE step == Step(op, rows, NoUpdate)
<1>1. TypeOK /\ undo \in Seq(Recorded) /\ redo \in Seq(Recorded) /\ Len(undo) + Len(redo) <= UNDO_LIMIT BY DEF IInv, Typed
<1>2. cards \in CardTables /\ studied \in Studied BY <1>1, TypeParts
<1>3. step \in Recorded /\ step.op = op /\ step.rows = Old(rows) /\ step.update = NoUpdate BY <1>2, StepIs, UpdateForms
<1> HIDE DEF step
<1>4. undo' = Saved(undo, step) /\ redo' = <<>> BY DEF step
<1>5. cards' = Written(rows, cards) /\ cards' \in CardTables /\ cards = Written(step.rows, cards')
  BY <1>2, <1>3, WrittenIs, OldIs DEF Changed
<1>6. undo' \in Seq(Recorded) /\ Len(undo') <= UNDO_LIMIT BY <1>1, <1>3, <1>4, SavedIsShort
<1>7. /\ undo' \in Seq(Recorded) /\ redo' \in Seq(Recorded) /\ Len(undo') + Len(redo') <= UNDO_LIMIT
  <2>1. Len(<<>>) = 0 /\ <<>> \in Seq(Recorded) OBVIOUS
  <2> QED BY <1>4, <1>6, <2>1
<1>8. shown' \in [card : Cards \cup {NoCard}, day : Nat] BY <1>1, NobodyShown DEF AfterStep, TypeOK
<1>9. TypeOK' BY <1>1, <1>5, <1>8 DEF TypeOK, CardTables
<1>10. CASE op # "flag"
  <2>1. queues' = NoQueues /\ ForgetCard BY <1>10 DEF Rebuilds, AfterStep
  <2>2. CardsLine(undo, cards)
    <3>1. Present.cards = cards BY PresentIs DEF IInv
    <3> QED BY <3>1, LineOfCards DEF IInv, LinesHold
  <2>3. CardsLine(undo', cards') BY <1>1, <1>3, <1>4, <1>5, <1>10, <2>2, SavedCards
  <2>4. CardsLine(redo', cards') BY <1>4, <1>5, NoCardsLine
  <2>5. LinesHold' /\ ~Kept' BY <1>5, <1>7, <2>1, <2>3, <2>4, Dropped
  <2> QED BY <1>7, <1>9, <2>1, <2>5, NobodyShown DEF IInv, Typed
<1>11. CASE op = "flag"
  <2>1. queues' = queues /\ shown' = shown /\ cards' = cards BY <1>11 DEF Rebuilds, AfterStep
  <2>2. Present' = Present BY <2>1 DEF Present
  <2>3. preset' = preset OBVIOUS
  <2>4. Present \in Moments /\ Present.cards = cards BY PresentIs DEF IInv
  <2>5. Line(undo', Present', queues'.built, preset'.bury, TRUE)
    <3>1. Live(step, queues.built) /\ Leads(Present, Present, step, TRUE) BY <1>3, <1>11 DEF Live, Leads
    <3>2. Good(Present, preset.bury) /\ Line(undo, Present, queues.built, preset.bury, TRUE) BY DEF IInv, LinesHold
    <3>3. Present.cards = Written(step.rows, Present.cards) BY <1>5, <2>1, <2>4
    <3>4. Line(Saved(undo, step), Present, queues.built, preset.bury, TRUE) BY <1>1, <1>3, <2>4, <3>1, <3>2, <3>3, SavedLine
    <3> QED BY <1>4, <2>1, <2>2, <2>3, <3>4
  <2>6. Line(redo', Present', queues'.built, preset'.bury, FALSE) BY <1>4, <2>2, <2>4, NoLine
  <2>7. LinesHold' BY <2>2, <2>3, <2>5, <2>6 DEF IInv, LinesHold
  <2>8. now' = now OBVIOUS
  <2>9. ShownFits' BY <2>1, <2>8 DEF IInv, ShownFits, Kept, Today, Day
  <2>10. Typed' BY <1>7, <1>9, <2>1 DEF IInv, Typed, Kept
  <2> QED BY <2>7, <2>9, <2>10 DEF IInv
<1> QED BY <1>10, <1>11

LEMMA OneRow ==
  ASSUME NEW c \in Cards, NEW row \in Row
  PROVE  [x \in {c} |-> row] \in Rows
<1>1. {c} \in SUBSET Cards /\ [x \in {c} |-> row] \in [{c} -> Row] OBVIOUS
<1> QED BY <1>1 DEF Rows

LEMMA BuryKeeps == ASSUME IInv, NEW c \in Touched, Bury(c) PROVE IInv'
<1>1. TypeOK BY DEF IInv, Typed
<1>2. c \in Cards /\ cards[c] \in Row /\ now \in Nat BY <1>1, CardsAssumption DEF TypeOK
<1>3. [cards[c] EXCEPT !.held = "buried", !.mod = now] \in Row BY <1>2 DEF Row
<1>4. [x \in {c} |-> [cards[c] EXCEPT !.held = "buried", !.mod = now]] \in Rows BY <1>2, <1>3, OneRow
<1>5. UserOp("bury", [x \in {c} |-> [cards[c] EXCEPT !.held = "buried", !.mod = now]]) BY DEF Bury
<1> QED BY <1>4, <1>5, UserOpKeeps

LEMMA BringBackKeeps == ASSUME IInv, NEW c \in Touched, BringBack(c) PROVE IInv'
<1>1. TypeOK BY DEF IInv, Typed
<1>2. c \in Cards /\ cards[c] \in Row /\ now \in Nat BY <1>1, CardsAssumption DEF TypeOK
<1>3. [cards[c] EXCEPT !.held = "no", !.mod = now] \in Row BY <1>2 DEF Row
<1>4. [x \in {c} |-> [cards[c] EXCEPT !.held = "no", !.mod = now]] \in Rows BY <1>2, <1>3, OneRow
<1>5. UserOp("bring_back", [x \in {c} |-> [cards[c] EXCEPT !.held = "no", !.mod = now]]) BY DEF BringBack
<1> QED BY <1>4, <1>5, UserOpKeeps

LEMMA SetFlagKeeps == ASSUME IInv, NEW c \in Touched, SetFlag(c) PROVE IInv'
<1>1. TypeOK BY DEF IInv, Typed
<1>2. c \in Cards /\ cards[c] \in Row /\ cards \in CardTables BY <1>1, TypeParts, CardsAssumption DEF TypeOK
<1> DEFINE rows == [x \in {c} |-> cards[c]]
<1>3. rows \in Rows BY <1>2, OneRow
<1>4. \A x \in Cards : Written(rows, cards)[x] = cards[x] BY <1>2, <1>3, WrittenIs
<1>5. Written(rows, cards) \in CardTables BY <1>2, <1>3, WrittenIs
<1>6. Changed(rows) = cards BY <1>2, <1>4, <1>5 DEF Changed, CardTables
<1>7. UserOp("flag", rows) BY DEF SetFlag
<1> HIDE DEF rows
<1> QED BY <1>3, <1>6, <1>7, UserOpKeeps
(* The parts of the invariant that undoing and redoing start from.         *)
LEMMA Start ==
  ASSUME IInv
  PROVE  /\ TypeOK /\ now \in Nat /\ cards \in CardTables /\ studied \in Studied /\ preset \in Presets
         /\ undo \in Seq(Recorded) /\ redo \in Seq(Recorded) /\ Len(undo) + Len(redo) <= UNDO_LIMIT
         /\ Kept => queues \in Queues /\ IdsOnce(queues.learning)
         /\ ~Kept => queues = NoQueues
         /\ Present \in Moments /\ Present.cards = cards
         /\ Good(Present, preset.bury)
         /\ Line(undo, Present, queues.built, preset.bury, TRUE)
         /\ Line(redo, Present, queues.built, preset.bury, FALSE)
         /\ CardsLine(undo, cards) /\ CardsLine(redo, cards)
<1>1. Typed /\ LinesHold BY DEF IInv
<1>2. Present \in Moments /\ Present.cards = cards BY <1>1, PresentIs
<1>3. Line(undo, Present, queues.built, preset.bury, TRUE) /\ Line(redo, Present, queues.built, preset.bury, FALSE)
  BY <1>1 DEF LinesHold
<1>4. CardsLine(undo, cards) /\ CardsLine(redo, cards) BY <1>2, <1>3, LineOfCards
<1>5. /\ TypeOK /\ now \in Nat /\ cards \in CardTables /\ studied \in Studied /\ preset \in Presets BY <1>1, TypeParts DEF Typed
<1> QED BY <1>1, <1>2, <1>3, <1>4, <1>5 DEF Typed, LinesHold, Kept

(* A flag can be undone and redone without anything but the history        *)
(* changing.                                                               *)
LEMMA SameBut ==
  ASSUME IInv, queues' = queues, cards' = cards, shown' = shown, preset' = preset, now' = now,
         studied' \in Studied, UNCHANGED broken,
         undo' \in Seq(Recorded), redo' \in Seq(Recorded), Len(undo') + Len(redo') <= UNDO_LIMIT,
         Line(undo', Present, queues.built, preset.bury, TRUE), Line(redo', Present, queues.built, preset.bury, FALSE)
  PROVE  IInv'
<1>1. Present' = Present BY DEF Present
<1>2. LinesHold' BY <1>1 DEF IInv, LinesHold
<1>3. ShownFits' BY DEF IInv, ShownFits, Kept, Today, Day
<1>4. TypeOK' BY DEF IInv, Typed, TypeOK, Studied
<1>5. Typed' BY <1>4 DEF IInv, Typed, Kept
<1> QED BY <1>2, <1>3, <1>5 DEF IInv

(* The histories after a step has gone from one to the other.              *)
LEMMA DroppedBy ==
  ASSUME IInv, queues' = NoQueues, ForgetCard, cards' \in CardTables, preset' = preset, now' = now,
         studied' \in Studied, UNCHANGED broken,
         undo' \in Seq(Recorded), redo' \in Seq(Recorded), Len(undo') + Len(redo') <= UNDO_LIMIT,
         CardsLine(undo', cards'), CardsLine(redo', cards')
  PROVE  IInv' /\ ~Kept'
<1>1. LinesHold' /\ ~Kept' BY Dropped
<1>2. ShownFits' /\ shown' \in [card : Cards \cup {NoCard}, day : Nat] BY NobodyShown
<1>3. TypeOK' BY <1>2, Start DEF TypeOK, Studied, CardTables
<1> QED BY <1>1, <1>2, <1>3 DEF IInv, Typed

LEMMA MovedBy ==
  ASSUME IInv, queues' \in Queues, IdsOnce(queues'.learning), ForgetCard, cards' \in CardTables, preset' = preset, now' = now,
         studied' \in Studied, UNCHANGED broken,
         undo' \in Seq(Recorded), redo' \in Seq(Recorded), Len(undo') + Len(redo') <= UNDO_LIMIT,
         NEW m, m = Moment(cards', queues'), Good(m, preset.bury),
         Line(undo', m, queues'.built, preset.bury, TRUE), Line(redo', m, queues'.built, preset.bury, FALSE)
  PROVE  IInv'
<1>1. Present' = m BY DEF Present
<1>2. LinesHold' BY <1>1 DEF LinesHold
<1>3. ShownFits' /\ shown' \in [card : Cards \cup {NoCard}, day : Nat] BY NobodyShown
<1>4. TypeOK' BY <1>3, Start DEF TypeOK, Studied, CardTables
<1> QED BY <1>2, <1>3, <1>4 DEF IInv, Typed

LEMMA UndoKeeps ==
  ASSUME IInv, Undo
  PROVE  /\ IInv'
         /\ Head(undo).op = "answer" /\ Kept' => First(queues').id = Head(undo).update.entry.id
<1> DEFINE step == Head(undo)
           inv == InverseStep(step)
           u == step.update
<1>1. undo # <<>> BY DEF Undo
<1>2. undo \in Seq(Recorded) /\ redo \in Seq(Recorded) /\ Len(undo) + Len(redo) <= UNDO_LIMIT
      /\ cards \in CardTables /\ studied \in Studied /\ CardsLine(undo, cards) /\ CardsLine(redo, cards)
      /\ Present \in Moments /\ Present.cards = cards
  BY Start
<1>3. /\ step \in Recorded /\ Tail(undo) \in Seq(Recorded) /\ Len(Tail(undo)) = Len(undo) - 1 /\ Len(undo) \in Nat \ {0}
  BY <1>1, <1>2, Shorter
<1>4. /\ step.op \in {"answer", "bury", "bring_back", "flag"} /\ step.rows \in Rows /\ step.studied \in Studied
      /\ step.op = "answer" => step.update \in Update /\ step.update # NoUpdate
      /\ step.op # "answer" => step.update = NoUpdate
  BY <1>3, RecordedForms
<1>5. inv \in Recorded /\ inv.op = step.op /\ inv.rows = Old(step.rows) /\ inv.update = u BY <1>2, <1>3, InverseIs
<1>6. CASE Panics(step)
  <2>1. Panic(step, Written(step.rows, Unburied(cards))) BY <1>6 DEF Undo
  <2>2. Written(step.rows, Unburied(cards)) \in CardTables BY <1>2, <1>4, UnburiedIs, WrittenIs
  <2> QED BY <1>3, <2>1, <2>2, PanicKeeps
<1>7. CASE ~Panics(step)
  <2>1. /\ cards' = Written(step.rows, cards) /\ studied' = step.studied
        /\ undo' = Tail(undo) /\ redo' = <<inv>> \o redo
        /\ queues' = IF u # NoUpdate THEN IF Ready(step) THEN UndoneQueues(u) ELSE NoQueues
                     ELSE IF Rebuilds(step.op) THEN NoQueues ELSE queues
        /\ AfterStep(step.op)
        /\ now' = now /\ preset' = preset /\ UNCHANGED broken
    BY <1>7 DEF Undo, Reverted, Changed
  <2> HIDE DEF step, inv
  <2>2. cards' \in CardTables /\ cards = Written(inv.rows, cards') BY <1>2, <1>4, <1>5, <2>1, WrittenIs, OldIs
  <2>3. redo' \in Seq(Recorded) /\ Len(redo') = Len(redo) + 1 BY <1>2, <1>5, <2>1, Longer
  <2>4. Len(redo) \in Nat BY <1>2
  <2>5. undo' \in Seq(Recorded) /\ Len(undo') + Len(redo') <= UNDO_LIMIT BY <1>2, <1>3, <2>1, <2>3, <2>4, LimitsAssumption
  <2>6. CardsLine(undo', cards') /\ (step.op = "flag" => cards' = cards) BY <1>1, <1>2, <2>1, CardsShorter DEF step
  <2>7. CardsLine(redo', cards') BY <1>2, <1>5, <2>1, <2>2, <2>6, CardsLonger
  <2>8. studied' \in Studied BY <1>4, <2>1
  <2>9. CASE step.op = "flag"
    <3>1. queues' = queues /\ shown' = shown /\ cards' = cards BY <1>4, <2>1, <2>6, <2>9 DEF Rebuilds, AfterStep
    <3>2. Live(step, queues.built) /\ Live(inv, queues.built) BY <1>5, <2>9 DEF Live
    <3>3. PICK next \in Moments : /\ Leads(Present, next, step, TRUE)
                                  /\ Line(undo', next, queues.built, preset.bury, TRUE)
      BY <1>1, <1>2, <2>1, <3>2, Start, LineShorter DEF step
    <3>4. next = Present BY <2>9, <3>3 DEF Leads
    <3>5. Leads(Present, Present, inv, FALSE) BY <1>5, <2>9 DEF Leads
    <3>6. Good(Present, preset.bury) /\ Line(redo, Present, queues.built, preset.bury, FALSE) BY Start
    <3>7. Line(redo', Present, queues.built, preset.bury, FALSE) BY <1>2, <1>5, <2>1, <2>2, <3>1, <3>2, <3>5, <3>6, LineLonger
    <3>8. IInv' BY <2>1, <2>3, <2>5, <2>8, <3>1, <3>3, <3>4, <3>7, SameBut
    <3> QED BY <2>9, <3>8 DEF step
  <2>10. CASE step.op \in {"bury", "bring_back"}
    <3>1. queues' = NoQueues /\ ForgetCard BY <1>4, <2>1, <2>10 DEF Rebuilds, AfterStep
    <3>2. IInv' BY <2>1, <2>2, <2>3, <2>5, <2>6, <2>7, <2>8, <3>1, DroppedBy
    <3> QED BY <2>10, <3>2 DEF step
  <2>11. CASE step.op = "answer" /\ ~Ready(step)
    <3>1. queues' = NoQueues /\ ForgetCard BY <1>4, <2>1, <2>11 DEF AfterStep
    <3> QED BY <2>1, <2>2, <2>3, <2>5, <2>6, <2>7, <2>8, <3>1, DroppedBy
  <2>12. CASE step.op = "answer" /\ Ready(step)
    <3>1. queues' = UndoneQueues(u) /\ ForgetCard /\ Kept /\ queues.built = u.built BY <1>4, <2>1, <2>12 DEF AfterStep, Ready
    <3>2. Live(step, queues.built) /\ Live(inv, queues.built) BY <1>5, <3>1 DEF Live
    <3>3. PICK next \in Moments : /\ next.cards = Written(step.rows, Present.cards)
                                  /\ Good(next, preset.bury)
                                  /\ Leads(Present, next, step, TRUE)
                                  /\ Line(undo', next, queues.built, preset.bury, TRUE)
      BY <1>1, <1>2, <2>1, <3>2, Start, LineShorter DEF step
    <3>4. Patched(next, Present, u) BY <2>12, <3>3 DEF Leads
    <3>5. u \in Update BY <1>4, <2>12
    <3>6. queues \in Queues /\ IdsOnce(queues.learning) /\ Good(Present, preset.bury) BY <3>1, Start
    <3>7. /\ queues' \in Queues /\ IdsOnce(queues'.learning) /\ queues'.built = queues.built
          /\ queues'.main = next.main /\ Range(queues'.learning) = next.learning
          /\ First(queues') = u.entry
      BY <1>2, <3>1, <3>3, <3>4, <3>5, <3>6, Undone DEF Present
    <3>8. next = Moment(cards', queues')
      <4>1. next.cards = cards' BY <1>2, <2>1, <3>3
      <4> QED BY <2>2, <3>3, <3>7, <4>1, MomentOf
    <3>9. Leads(next, Present, inv, FALSE) BY <1>5, <2>12, <3>4 DEF Leads
    <3>10. Line(redo, Present, queues.built, preset.bury, FALSE) BY Start
    <3>11. Present.cards = Written(inv.rows, next.cards) BY <1>2, <2>1, <2>2, <3>3
    <3>12. Line(redo', next, queues.built, preset.bury, FALSE)
      BY <1>2, <1>5, <2>1, <3>2, <3>3, <3>6, <3>9, <3>10, <3>11, LineLonger
    <3>13. IInv' BY <2>1, <2>2, <2>3, <2>5, <2>8, <3>1, <3>3, <3>7, <3>8, <3>12, MovedBy
    <3> QED BY <3>7, <3>13 DEF step
  <2> QED BY <1>4, <2>9, <2>10, <2>11, <2>12
<1> QED BY <1>6, <1>7
LEMMA RedoFound ==
  ASSUME IInv, redo # <<>>, Ready(Head(redo))
  PROVE  CanPop(queues, Head(redo).update.entry.id)
<1> DEFINE step == Head(redo)
<1>1. redo \in Seq(Recorded) /\ Present \in Moments /\ Present.cards = cards BY Start
<1>2. step \in Recorded BY <1>1, Shorter
<1>3. Kept /\ queues.built = step.update.built BY DEF Ready
<1>4. queues \in Queues /\ IdsOnce(queues.learning) BY <1>3, Start
<1>5. step.op = "answer" /\ step.update \in Update
  <2>1. queues.built \in Nat BY <1>4 DEF Queues
  <2> QED BY <1>2, <1>3, <2>1, RecordedForms, UpdateForms
<1>6. Live(step, queues.built) BY <1>3 DEF Live
<1>7. PICK next \in Moments : Leads(Present, next, step, FALSE) BY <1>1, <1>6, Start, LineShorter
<1>8. Patched(Present, next, step.update) BY <1>5, <1>7 DEF Leads
<1> HIDE DEF step
<1>9. CanPop(queues, step.update.entry.id) BY <1>4, <1>5, <1>8, Start, Redone DEF Present
<1> QED BY <1>9 DEF step

LEMMA RedoKeeps ==
  ASSUME IInv, Redo
  PROVE  IInv'
<1> DEFINE step == Head(redo)
           inv == InverseStep(step)
           u == step.update
<1>1. redo # <<>> BY DEF Redo
<1>2. undo \in Seq(Recorded) /\ redo \in Seq(Recorded) /\ Len(undo) + Len(redo) <= UNDO_LIMIT
      /\ cards \in CardTables /\ studied \in Studied /\ CardsLine(undo, cards) /\ CardsLine(redo, cards)
      /\ Present \in Moments /\ Present.cards = cards
  BY Start
<1>3. /\ step \in Recorded /\ Tail(redo) \in Seq(Recorded) /\ Len(Tail(redo)) = Len(redo) - 1 /\ Len(redo) \in Nat \ {0}
  BY <1>1, <1>2, Shorter
<1>4. /\ step.op \in {"answer", "bury", "bring_back", "flag"} /\ step.rows \in Rows /\ step.studied \in Studied
      /\ step.op = "answer" => step.update \in Update /\ step.update # NoUpdate
      /\ step.op # "answer" => step.update = NoUpdate
  BY <1>3, RecordedForms
<1>5. inv \in Recorded /\ inv.op = step.op /\ inv.rows = Old(step.rows) /\ inv.update = u BY <1>2, <1>3, InverseIs
<1>6. CASE Panics(step)
  <2>1. Panic(step, Unburied(Changed(step.rows))) BY <1>6 DEF Redo
  <2>2. Unburied(Changed(step.rows)) \in CardTables BY <1>2, <1>4, UnburiedIs, WrittenIs DEF Changed
  <2> QED BY <1>3, <2>1, <2>2, PanicKeeps
<1>7. CASE ~Panics(step)
  <2>0. Ready(step) => CanPop(queues, step.update.entry.id) BY <1>1, RedoFound
  <2>1. /\ cards' = Written(step.rows, cards) /\ studied' = step.studied
        /\ undo' = Saved(undo, inv) /\ redo' = Tail(redo)
        /\ u # NoUpdate /\ Ready(step) => queues' \in RedoneQueues(u)
        /\ u # NoUpdate /\ ~Ready(step) => queues' = NoQueues
        /\ u = NoUpdate => queues' = IF Rebuilds(step.op) THEN NoQueues ELSE queues
        /\ AfterStep(step.op)
        /\ now' = now /\ preset' = preset /\ UNCHANGED broken
    BY <1>7, <2>0 DEF Redo, Reverted, Changed
  <2> HIDE DEF step, inv
  <2>2. cards' \in CardTables /\ cards = Written(inv.rows, cards') BY <1>2, <1>4, <1>5, <2>1, WrittenIs, OldIs
  <2>3. undo' \in Seq(Recorded) /\ Len(undo') <= Len(undo) + 1 BY <1>2, <1>5, <2>1, SavedIsShort
  <2>4. Len(undo) \in Nat /\ Len(undo') \in Nat BY <1>2, <2>3
  <2>5. redo' \in Seq(Recorded) /\ Len(undo') + Len(redo') <= UNDO_LIMIT BY <1>2, <1>3, <2>1, <2>3, <2>4, LimitsAssumption
  <2>6. CardsLine(redo', cards') /\ (step.op = "flag" => cards' = cards) BY <1>1, <1>2, <2>1, CardsShorter DEF step
  <2>7. CardsLine(undo', cards') BY <1>2, <1>5, <2>1, <2>2, <2>6, SavedCards
  <2>8. studied' \in Studied BY <1>4, <2>1
  <2>9. CASE step.op = "flag"
    <3>1. queues' = queues /\ shown' = shown /\ cards' = cards BY <1>4, <2>1, <2>6, <2>9 DEF Rebuilds, AfterStep
    <3>2. Live(step, queues.built) /\ Live(inv, queues.built) BY <1>5, <2>9 DEF Live
    <3>3. PICK next \in Moments : /\ Leads(Present, next, step, FALSE)
                                  /\ Line(redo', next, queues.built, preset.bury, FALSE)
      BY <1>1, <1>2, <2>1, <3>2, Start, LineShorter DEF step
    <3>4. next = Present BY <2>9, <3>3 DEF Leads
    <3>5. Leads(Present, Present, inv, TRUE) BY <1>5, <2>9 DEF Leads
    <3>6. Good(Present, preset.bury) /\ Line(undo, Present, queues.built, preset.bury, TRUE) BY Start
    <3>7. Line(undo', Present, queues.built, preset.bury, TRUE) BY <1>2, <1>5, <2>1, <2>2, <3>1, <3>2, <3>5, <3>6, SavedLine
    <3> QED BY <2>1, <2>3, <2>5, <2>8, <3>1, <3>3, <3>4, <3>7, SameBut
  <2>10. CASE step.op \in {"bury", "bring_back"}
    <3>1. queues' = NoQueues /\ ForgetCard BY <1>4, <2>1, <2>10 DEF Rebuilds, AfterStep
    <3> QED BY <2>1, <2>2, <2>3, <2>5, <2>6, <2>7, <2>8, <3>1, DroppedBy
  <2>11. CASE step.op = "answer" /\ ~Ready(step)
    <3>1. queues' = NoQueues /\ ForgetCard BY <1>4, <2>1, <2>11 DEF AfterStep
    <3> QED BY <2>1, <2>2, <2>3, <2>5, <2>6, <2>7, <2>8, <3>1, DroppedBy
  <2>12. CASE step.op = "answer" /\ Ready(step)
    <3>1. queues' \in RedoneQueues(u) /\ ForgetCard /\ Kept /\ queues.built = u.built BY <1>4, <2>1, <2>12 DEF AfterStep, Ready
    <3>2. Live(step, queues.built) /\ Live(inv, queues.built) BY <1>5, <3>1 DEF Live
    <3>3. PICK next \in Moments : /\ next.cards = Written(step.rows, Present.cards)
                                  /\ Good(next, preset.bury)
                                  /\ Leads(Present, next, step, FALSE)
                                  /\ Line(redo', next, queues.built, preset.bury, FALSE)
      BY <1>1, <1>2, <2>1, <3>2, Start, LineShorter DEF step
    <3>4. Patched(Present, next, u) BY <2>12, <3>3 DEF Leads
    <3>5. u \in Update BY <1>4, <2>12
    <3>6. queues \in Queues /\ IdsOnce(queues.learning) /\ Good(Present, preset.bury) BY <3>1, Start
    <3>7. /\ queues' \in Queues /\ IdsOnce(queues'.learning) /\ queues'.built = queues.built
          /\ queues'.main = next.main /\ Range(queues'.learning) = next.learning
      BY <1>2, <3>1, <3>3, <3>4, <3>5, <3>6, Redone DEF Present
    <3>8. next = Moment(cards', queues')
      <4>1. next.cards = cards' BY <1>2, <2>1, <3>3
      <4> QED BY <2>2, <3>3, <3>7, <4>1, MomentOf
    <3>9. Leads(next, Present, inv, TRUE) BY <1>5, <2>12, <3>4 DEF Leads
    <3>10. Line(undo, Present, queues.built, preset.bury, TRUE) BY Start
    <3>11. Present.cards = Written(inv.rows, next.cards) BY <1>2, <2>1, <2>2, <3>3
    <3>12. Line(undo', next, queues.built, preset.bury, TRUE)
      BY <1>2, <1>5, <2>1, <3>2, <3>3, <3>6, <3>9, <3>10, <3>11, SavedLine
    <3> QED BY <2>1, <2>2, <2>3, <2>5, <2>8, <3>1, <3>3, <3>7, <3>8, <3>12, MovedBy
  <2> QED BY <1>4, <2>9, <2>10, <2>11, <2>12
<1> QED BY <1>6, <1>7

(* The card the reviewer shows is found.                                   *)
LEMMA ShownFound ==
  ASSUME IInv, Kept, shown.card # NoCard
  PROVE  /\ CanPop(queues, shown.card)
         /\ EntryOf(queues, shown.card) \in Queued(Present) /\ EntryOf(queues, shown.card) \in MEntry \cup LEntry
         /\ EntryOf(queues, shown.card).id = shown.card
         /\ OnTop(Present, EntryOf(queues, shown.card), queues.cutoff)
<1>1. Showable(queues) # {} /\ First(queues).id = shown.card BY DEF IInv, ShownFits
<1>2. queues \in Queues /\ cards \in CardTables /\ Good(Present, preset.bury) BY Start
<1> QED BY <1>1, <1>2, FirstIsOnTop DEF Present

LEMMA AnswerRefusedKeeps == ASSUME IInv, NEW c \in Cards, AnswerRefused(c) PROVE IInv'
<1> USE DEF AnswerRefused, RolledBack
<1>1. TypeOK /\ cards \in CardTables BY Start
<1>2. /\ LinesHold' /\ ~Kept' /\ undo' \in Seq(Recorded) /\ redo' \in Seq(Recorded)
      /\ Len(undo') + Len(redo') <= UNDO_LIMIT
  BY <1>1, Emptied
<1>3. shown.card = c /\ c # NoCard BY CardsAssumption
<1>4. ~StateMatches(c) BY <1>3, ShownFound
<1>5. cards[c].kind = "Review" /\ shown.day # Today BY <1>4 DEF StateMatches
<1>6. shown' = shown /\ cards' = cards /\ now' = now OBVIOUS
<1>7. ShownFits' BY <1>2, <1>3, <1>5, <1>6 DEF IInv, ShownFits, Today, Day
<1>8. Typed' BY <1>1, <1>2, <1>6 DEF Typed, TypeOK
<1> QED BY <1>2, <1>7, <1>8 DEF IInv

LEMMA GetQueuedCardsKeeps == ASSUME IInv, GetQueuedCards PROVE IInv'
<1> DEFINE table == IF DayChanged THEN Unburied(cards) ELSE cards
           steps == IF DayChanged THEN <<>> ELSE undo \o redo
           fresh == BuildQueues(table, steps)
           base == IF Kept /\ ~DayChanged THEN queues ELSE fresh
           q == Counted(base)
           m == Moment(table, q)
<1>1. /\ TypeOK /\ now \in Nat /\ cards \in CardTables /\ studied \in Studied /\ preset \in Presets
      /\ undo \in Seq(Recorded) /\ redo \in Seq(Recorded) /\ Len(undo) + Len(redo) <= UNDO_LIMIT
      /\ CardsLine(undo, cards) /\ CardsLine(redo, cards)
  BY Start
<1>2. /\ cards' = table
      /\ undo' = IF DayChanged THEN <<>> ELSE undo
      /\ redo' = IF DayChanged THEN <<>> ELSE redo
      /\ queues' = q
      /\ shown' = IF Showable(q) # {} /\ Current(First(q), table) THEN [card |-> First(q).id, day |-> Today] ELSE Nobody
      /\ UNCHANGED <<now, studied, preset, broken, others>>
  BY DEF GetQueuedCards
<1>3. table \in CardTables BY <1>1, UnburiedIs
<1>4. steps \in Seq(Recorded) /\ Len(steps) <= UNDO_LIMIT
  <2>1. Len(undo \o redo) = Len(undo) + Len(redo) /\ undo \o redo \in Seq(Recorded) BY <1>1
  <2>2. Len(<<>>) = 0 /\ <<>> \in Seq(Recorded) /\ 0 <= UNDO_LIMIT BY LimitsAssumption
  <2> QED BY <1>1, <2>1, <2>2
<1>5. /\ undo' \in Seq(Recorded) /\ redo' \in Seq(Recorded) /\ Len(undo') + Len(redo') <= UNDO_LIMIT
      /\ CardsLine(undo', table) /\ CardsLine(redo', table)
  <2>1. CASE DayChanged
    <3>1. Len(<<>>) = 0 /\ <<>> \in Seq(Recorded) /\ 0 + 0 <= UNDO_LIMIT BY LimitsAssumption
    <3>2. CardsLine(<<>>, table) BY <1>3, NoCardsLine
    <3> QED BY <1>2, <2>1, <3>1, <3>2
  <2>2. CASE ~DayChanged BY <1>1, <1>2, <2>2
  <2> QED BY <2>1, <2>2
<1> HIDE DEF table, steps
<1>6. /\ fresh \in Queues /\ IdsOnce(fresh.learning) /\ fresh.built = FreshBuild(steps)
      /\ Good(Moment(table, fresh), preset.bury)
  BY <1>1, <1>3, <1>4, BuiltIs
<1>7. \A j \in 1..Len(steps) : steps[j].update.built # fresh.built BY <1>4, <1>6, FreshBuildIs
<1> HIDE DEF fresh
<1>8. /\ base \in Queues /\ IdsOnce(base.learning) /\ Good(Moment(table, base), preset.bury)
      /\ Line(undo', Moment(table, base), base.built, preset.bury, TRUE)
      /\ Line(redo', Moment(table, base), base.built, preset.bury, FALSE)
  <2>1. CASE Kept /\ ~DayChanged
    <3>1. base = queues /\ table = cards /\ undo' = undo /\ redo' = redo BY <1>2, <2>1 DEF table
    <3>2. Moment(table, base) = Present BY <3>1 DEF Present
    <3> HIDE DEF base
    <3> QED BY <2>1, <3>1, <3>2, Start
  <2>2. CASE ~(Kept /\ ~DayChanged)
    <3>1. base = fresh BY <2>2
    <3>2. Moment(table, fresh) \in Moments /\ Moment(table, fresh).cards = table BY <1>3, <1>6, KeptMoment
    <3>3. \A j \in 1..Len(undo') : undo'[j].update.built # fresh.built
      <4>1. CASE DayChanged
        <5>1. Len(<<>>) = 0 OBVIOUS
        <5> QED BY <1>2, <4>1, <5>1
      <4>2. CASE ~DayChanged
        <5>1. steps = undo \o redo /\ undo' = undo BY <1>2, <4>2 DEF steps
        <5>2. \A j \in 1..Len(undo) : j \in 1..Len(steps) /\ steps[j] = undo[j] BY <1>1, <5>1
        <5> QED BY <1>7, <5>1, <5>2
      <4> QED BY <4>1, <4>2
    <3>4. \A j \in 1..Len(redo') : redo'[j].update.built # fresh.built
      <4>1. CASE DayChanged
        <5>1. Len(<<>>) = 0 OBVIOUS
        <5> QED BY <1>2, <4>1, <5>1
      <4>2. CASE ~DayChanged
        <5>1. steps = undo \o redo /\ redo' = redo BY <1>2, <4>2 DEF steps
        <5>2. \A j \in 1..Len(redo) : (Len(undo) + j) \in 1..Len(steps) /\ steps[Len(undo) + j] = redo[j]
          <6>1. /\ Len(undo \o redo) = Len(undo) + Len(redo) /\ Len(undo) \in Nat /\ Len(redo) \in Nat
                /\ \A k \in 1..(Len(undo) + Len(redo)) : (undo \o redo)[k] = IF k <= Len(undo) THEN undo[k] ELSE redo[k - Len(undo)]
            BY <1>1, Joins
          <6>2. SUFFICES ASSUME NEW j \in 1..Len(redo)
                         PROVE (Len(undo) + j) \in 1..Len(steps) /\ steps[Len(undo) + j] = redo[j]
            OBVIOUS
          <6>3. Len(undo) + j \in 1..(Len(undo) + Len(redo)) /\ ~(Len(undo) + j <= Len(undo)) /\ (Len(undo) + j) - Len(undo) = j
            BY <6>1
          <6> QED BY <5>1, <6>1, <6>3
        <5> QED BY <1>7, <5>1, <5>2
      <4> QED BY <4>1, <4>2
    <3>5. \A back \in BOOLEAN : Line(undo', Moment(table, fresh), fresh.built, preset.bury, back)
      BY <1>5, <1>6, <3>2, <3>3, Rebuilt
    <3>6. \A back \in BOOLEAN : Line(redo', Moment(table, fresh), fresh.built, preset.bury, back)
      BY <1>5, <1>6, <3>2, <3>4, Rebuilt
    <3> QED BY <1>6, <3>1, <3>5, <3>6
  <2> QED BY <2>1, <2>2
<1> HIDE DEF base
<1>9. q \in Queues /\ q.main = base.main /\ q.learning = base.learning /\ q.built = base.built BY <1>1, <1>8, CountedKeeps
<1> HIDE DEF q
<1>10. m = Moment(table, base)
  <2>1. q # NoQueues /\ base # NoQueues BY <1>3, <1>8, <1>9, KeptMoment
  <2> QED BY <1>9, <2>1 DEF Moment
<1>11. Present' = m BY <1>2 DEF Present
<1>12. LinesHold' BY <1>2, <1>8, <1>9, <1>10, <1>11 DEF LinesHold
<1>13. Kept'
  <2>1. q # NoQueues BY <1>3, <1>9, KeptMoment
  <2> QED BY <1>2, <2>1 DEF Kept
<1>14. Today \in Nat /\ Today' = Today BY <1>1, <1>2, NowIsNat DEF Today, Day
<1>15. CASE Showable(q) # {} /\ Current(First(q), table)
  <2>1. shown' = [card |-> First(q).id, day |-> Today] BY <1>2, <1>15
  <2>2. First(q) \in MEntry \cup LEntry BY <1>3, <1>8, <1>9, <1>10, <1>15, FirstIsOnTop
  <2>3. First(q).id \in Cards BY <2>2 DEF MEntry, LEntry
  <2>4. shown' \in [card : Cards \cup {NoCard}, day : Nat] BY <1>14, <2>1, <2>3
  <2>5. ShownFits' BY <1>2, <1>13, <1>14, <1>15, <2>1 DEF ShownFits
  <2>6. TypeOK' BY <1>1, <1>2, <1>3, <2>4 DEF TypeOK, CardTables
  <2> QED BY <1>2, <1>5, <1>8, <1>9, <1>12, <2>5, <2>6 DEF IInv, Typed
<1>16. CASE ~(Showable(q) # {} /\ Current(First(q), table))
  <2>1. ForgetCard BY <1>2, <1>16 DEF ForgetCard
  <2>2. ShownFits' /\ shown' \in [card : Cards \cup {NoCard}, day : Nat] BY <2>1, NobodyShown
  <2>3. TypeOK' BY <1>1, <1>2, <1>3, <2>2 DEF TypeOK, CardTables
  <2> QED BY <1>2, <1>5, <1>8, <1>9, <1>12, <2>2, <2>3 DEF IInv, Typed
<1> QED BY <1>15, <1>16
(* The cards queued after an answer were not touched by it.                *)
LEMMA AnsweredIsGood ==
  ASSUME NEW old \in Moments, NEW new \in Moments, NEW bury \in SUBSET MainKinds, Good(old, bury),
         NEW u, Patched(old, new, u), u.entry \in Queued(old), u.requeue \in SUBSET LEntry,
         \A x \in u.requeue : x.mtime = new.cards[x.id].mod /\ new.cards[x.id].kind = "Learn",
         \A x \in Queued(old) : x.id # u.entry.id =>
            \/ new.cards[x.id] = old.cards[x.id]
            \/ /\ Notes[x.id] = Notes[u.entry.id] /\ old.cards[x.id].kind \in bury
               /\ new.cards[x.id].kind = old.cards[x.id].kind /\ new.cards[x.id].held = "buried"
  PROVE  Good(new, bury)
<1> DEFINE e == u.entry
           r == u.requeue
<1>1. old.main \in Seq(MEntry) /\ old.learning \in SUBSET LEntry BY DEF Moments
<1>2. /\ \A x \in r : x.id = e.id
      /\ \A x, y \in r : x = y
      /\ \/ /\ e \in old.learning /\ new.main = old.main
            /\ new.learning = (old.learning \ {e}) \cup r
         \/ /\ e \in MEntry /\ old.main # <<>> /\ e = Head(old.main) /\ new.main = Tail(old.main)
            /\ new.learning = old.learning \cup r
  BY DEF Patched
<1>3. old.main # <<>> => /\ Tail(old.main) \in Seq(MEntry) /\ IdsOnce(Tail(old.main))
                         /\ Head(old.main) \in Range(old.main)
                         /\ Range(Tail(old.main)) \subseteq Range(old.main)
                         /\ \A x \in Range(Tail(old.main)) : x.id # Head(old.main).id
  <2>1. SUFFICES ASSUME old.main # <<>>
        PROVE  /\ Tail(old.main) \in Seq(MEntry) /\ IdsOnce(Tail(old.main))
               /\ Head(old.main) \in Range(old.main)
               /\ Range(Tail(old.main)) \subseteq Range(old.main)
               /\ \A x \in Range(Tail(old.main)) : x.id # Head(old.main).id
    OBVIOUS
  <2> DEFINE s == old.main
             t == Tail(s)
  <2>2. /\ t \in Seq(MEntry) /\ DOMAIN t = 1..(Len(s) - 1) /\ DOMAIN s = 1..Len(s) /\ Len(s) \in Nat \ {0}
        /\ Head(s) = s[1] /\ \A i \in 1..(Len(s) - 1) : t[i] = s[i + 1]
    BY <1>1, <2>1
  <2> HIDE DEF t, s
  <2>3. IdsOnce(s) BY DEF Good, s
  <2>4. \A i \in DOMAIN t : i + 1 \in DOMAIN s /\ i + 1 # 1 /\ t[i] = s[i + 1] BY <2>2
  <2>5. 1 \in DOMAIN s BY <2>2
  <2>6. IdsOnce(t)
    <3>1. SUFFICES ASSUME NEW i \in DOMAIN t, NEW j \in DOMAIN t, t[i].id = t[j].id PROVE i = j BY DEF IdsOnce
    <3>2. i + 1 = j + 1 BY <2>3, <2>4, <3>1 DEF IdsOnce
    <3> QED BY <2>2, <3>2
  <2>7. Head(s) \in Range(s) BY <2>2, <2>5 DEF Range
  <2>8. \A x \in Range(t) : x \in Range(s) /\ x.id # Head(s).id
    <3>1. SUFFICES ASSUME NEW i \in DOMAIN t PROVE t[i] \in Range(s) /\ t[i].id # Head(s).id BY DEF Range
    <3> QED BY <2>2, <2>3, <2>4, <2>5 DEF Range, IdsOnce
  <2> QED BY <2>2, <2>6, <2>7, <2>8 DEF s, t
<1> HIDE DEF e, r
<1>4. /\ IdsOnce(new.main)
      /\ \A x \in Range(new.main) : x \in Range(old.main) /\ x.id # e.id
      /\ \A x \in new.learning : x \in r \/ (x \in old.learning /\ x.id # e.id)
  <2>1. CASE e \in old.learning /\ new.main = old.main /\ new.learning = (old.learning \ {e}) \cup r
    <3>1. \A x \in Range(old.main) : x.id # e.id BY <2>1 DEF Good
    <3>2. \A x \in old.learning \ {e} : x.id # e.id BY <2>1 DEF Good
    <3> QED BY <2>1, <3>1, <3>2 DEF Good
  <2>2. CASE old.main # <<>> /\ e = Head(old.main) /\ new.main = Tail(old.main) /\ new.learning = old.learning \cup r
    <3>1. \A x \in old.learning : x.id # e.id BY <1>3, <2>2 DEF Good
    <3> QED BY <1>3, <2>2, <3>1
  <2> QED BY <1>2, <2>1, <2>2
<1>5. \A x \in Queued(new) : x \in r \/ (x \in Queued(old) /\ x.id # e.id) BY <1>4 DEF Queued
<1>6. \A x \in r : /\ x.id = e.id /\ x.mtime = new.cards[x.id].mod /\ Apart(bury, new.cards[x.id].kind)
  <2>1. "Learn" \notin bury BY DEF MainKinds
  <2>2. \A x \in r : x.mtime = new.cards[x.id].mod /\ new.cards[x.id].kind = "Learn" BY DEF r
  <2> QED BY <1>2, <2>1, <2>2 DEF Apart
<1>7. ASSUME NEW x \in Queued(old), x.id # e.id
      PROVE  /\ new.cards[x.id].kind = old.cards[x.id].kind
             /\ x.mtime = new.cards[x.id].mod \/ Overlooked(new.cards[x.id], bury)
  <2>1. x.mtime = old.cards[x.id].mod \/ Overlooked(old.cards[x.id], bury) BY DEF Good
  <2>2. CASE new.cards[x.id] = old.cards[x.id] BY <2>1, <2>2
  <2>3. CASE /\ Notes[x.id] = Notes[e.id] /\ old.cards[x.id].kind \in bury
             /\ new.cards[x.id].kind = old.cards[x.id].kind /\ new.cards[x.id].held = "buried"
    <3>1. e \in Queued(old) BY DEF e
    <3>2. Overlooks(bury, old.cards[x.id].kind) BY <1>7, <2>3, <3>1 DEF Good, Apart
    <3> QED BY <2>3, <3>2 DEF Overlooked
  <2> QED BY <1>7, <2>2, <2>3 DEF e
<1>8. \A x, y \in new.learning : x.id = y.id => x = y BY <1>2, <1>4, <1>6 DEF Good, r
<1>9. \A x \in Range(new.main), y \in new.learning : x.id # y.id BY <1>4, <1>6 DEF Good
<1>10. \A x \in Queued(new) : x.mtime = new.cards[x.id].mod \/ Overlooked(new.cards[x.id], bury) BY <1>5, <1>6, <1>7
<1>11. \A x, y \in Queued(new) : x.id # y.id /\ Notes[x.id] = Notes[y.id] => Apart(bury, new.cards[x.id].kind)
  <2>1. SUFFICES ASSUME NEW x \in Queued(new), NEW y \in Queued(new), x.id # y.id, Notes[x.id] = Notes[y.id]
                 PROVE Apart(bury, new.cards[x.id].kind)
    OBVIOUS
  <2>2. CASE x \in r BY <1>6, <2>2
  <2>3. CASE x \in Queued(old) /\ x.id # e.id
    <3>1. PICK z \in Queued(old) : z.id = y.id
      <4>1. e \in Queued(old) BY DEF e
      <4> QED BY <1>5, <1>6, <4>1
    <3>2. Apart(bury, old.cards[x.id].kind) BY <2>1, <2>3, <3>1 DEF Good
    <3> QED BY <1>7, <2>3, <3>2
  <2> QED BY <1>5, <2>2, <2>3
<1> QED BY <1>4, <1>8, <1>9, <1>10, <1>11 DEF Good

LEMMA AnswerKeeps == ASSUME IInv, NEW c \in Cards, Answer(c) PROVE IInv'
<1> DEFINE rowsFor(row) == [s \in {c} \cup BuriedWith(c) |-> IF s = c THEN row ELSE [cards[s] EXCEPT !.held = "buried", !.mod = now]]
           o == Popped(queues, c)
           r(row) == Requeue(o, c, row)
           chosen(row) == CHOOSE q \in InsertedAll(o, r(row)) : TRUE
           update(row) == [entry |-> EntryOf(queues, c), requeue |-> r(row), built |-> chosen(row).built,
                           cutoff |-> chosen(row).cutoff, learn |-> chosen(row).learn]
           step(row) == Step("answer", rowsFor(row), update(row))
<1>1. /\ TypeOK /\ now \in Nat /\ cards \in CardTables /\ studied \in Studied /\ preset \in Presets
      /\ undo \in Seq(Recorded) /\ Present \in Moments /\ Present.cards = cards
      /\ Good(Present, preset.bury) /\ Line(undo, Present, queues.built, preset.bury, TRUE)
      /\ preset.bury \in SUBSET MainKinds
  BY Start, TypeParts
<1>2. shown.card = c /\ shown.card # NoCard /\ StateMatches(c) BY CardsAssumption DEF Answer
<1>3. Kept BY <1>2 DEF IInv, ShownFits, StateMatches
<1>4. queues \in Queues /\ IdsOnce(queues.learning) BY <1>3, Start
<1>5. PICK row \in Outcomes(cards[c].kind) :
        /\ cards' = Changed(rowsFor(row))
        /\ studied' = StudiedWith(cards[c].kind)
        /\ \E q \in InsertedAll(o, r(row)) : queues' = MovedCutoff(q)
        /\ undo' = Saved(undo, step(row))
        /\ redo' = <<>>
        /\ ForgetCard
        /\ UNCHANGED <<now, preset, broken, others>>
  BY <1>3 DEF Answer
<1> DEFINE rows == rowsFor(row)
           e == EntryOf(queues, c)
           u == update(row)
           st == step(row)
<1>6. row \in Row /\ row.mod = now BY <1>1, OutcomesAre
<1>7. CanPop(queues, c) /\ e \in Queued(Present) /\ e \in MEntry \cup LEntry /\ e.id = c /\ OnTop(Present, e, queues.cutoff)
  BY <1>2, <1>3, ShownFound
<1>8. o \in Queues BY <1>4, <1>7, PoppedKeeps
<1> DEFINE back == r(row)
<1>9. /\ back \in SUBSET LEntry
      /\ \A x \in back : x.id = c /\ x.mtime = row.mod /\ row.kind = "Learn"
      /\ \A x, y \in back : x = y
  <2> HIDE DEF o
  <2> QED BY <1>6, <1>8, RequeueIs
<1>10. PICK q \in InsertedAll(o, back) : queues' = MovedCutoff(q) BY <1>5
<1> DEFINE picked == chosen(row)
<1>11. picked \in InsertedAll(o, back) BY <1>10
<1>12. u = [entry |-> e, requeue |-> back, built |-> picked.built, cutoff |-> picked.cutoff, learn |-> picked.learn] OBVIOUS
<1>13. st = Step("answer", rows, u) /\ undo' = Saved(undo, st) BY <1>5
<1> HIDE DEF picked, back, u, st, rows, e
<1>14. \A p \in InsertedAll(o, back) :
          /\ p \in Queues /\ IdsOnce(p.learning) /\ SameTimes(queues, p)
          /\ \/ /\ e \in Range(queues.learning)
                /\ p.main = queues.main
                /\ Range(p.learning) = (Range(queues.learning) \ {e}) \cup back
             \/ /\ e \in MEntry /\ queues.main # <<>> /\ e = Head(queues.main)
                /\ p.main = Tail(queues.main)
                /\ Range(p.learning) = Range(queues.learning) \cup back
  <2>1. \A x \in back : x.id = c BY <1>9
  <2>2. Good(Moment(cards, queues), preset.bury) BY <1>1 DEF Present
  <2> QED BY <1>1, <1>4, <1>7, <1>9, <2>1, <2>2, Answered DEF e
<1> HIDE DEF o
<1>15. picked \in Queues /\ picked.built = queues.built /\ picked.cutoff = queues.cutoff BY <1>11, <1>14 DEF SameTimes
<1>16. u \in Update /\ u.entry = e /\ u.requeue = back /\ u.built = queues.built /\ u.cutoff = queues.cutoff
  <2>1. picked.built \in Nat /\ picked.cutoff \in Nat /\ picked.learn \in Int BY <1>15 DEF Queues
  <2> QED BY <1>7, <1>9, <1>12, <1>15, <2>1 DEF Update
<1>17. rows \in Rows /\ rows[c] = row /\ DOMAIN rows = {c} \cup BuriedWith(c)
  <2>1. {c} \cup BuriedWith(c) \in SUBSET Cards BY DEF BuriedWith, Siblings
  <2>2. \A s \in {c} \cup BuriedWith(c) : [cards[s] EXCEPT !.held = "buried", !.mod = now] \in Row
    <3>1. \A s \in {c} \cup BuriedWith(c) : cards[s] \in Row BY <1>1, <2>1 DEF CardTables
    <3> QED BY <1>1, <3>1 DEF Row
  <2> DEFINE D == {c} \cup BuriedWith(c)
  <2>3. rows = [s \in D |-> IF s = c THEN row ELSE [cards[s] EXCEPT !.held = "buried", !.mod = now]] BY DEF rows
  <2>4. c \in D OBVIOUS
  <2> HIDE DEF D
  <2>5. rows \in [D -> Row] BY <1>6, <2>2, <2>3 DEF D
  <2>6. rows \in Rows BY <2>1, <2>5 DEF Rows, D
  <2>7. rows[c] = row /\ DOMAIN rows = D BY <2>3, <2>4
  <2> QED BY <2>6, <2>7 DEF D
<1>18. /\ st \in Recorded /\ st.op = "answer" /\ st.rows = Old(rows) /\ st.update = u BY <1>1, <1>13, <1>16, <1>17, StepIs
<1>19. /\ cards' = Written(rows, cards) /\ cards' \in CardTables /\ cards = Written(st.rows, cards')
       /\ \A s \in Cards : cards'[s] = IF s \in {c} \cup BuriedWith(c) THEN rows[s] ELSE cards[s]
  BY <1>1, <1>5, <1>17, <1>18, WrittenIs, OldIs DEF Changed, rows
<1>20. /\ queues' \in Queues /\ IdsOnce(queues'.learning) /\ queues'.built = queues.built
       /\ queues'.main = q.main /\ queues'.learning = q.learning
  <2>1. q \in Queues /\ IdsOnce(q.learning) /\ q.built = queues.built BY <1>10, <1>14 DEF SameTimes
  <2>2. /\ MovedCutoff(q) \in Queues /\ MovedCutoff(q).main = q.main /\ MovedCutoff(q).learning = q.learning
        /\ MovedCutoff(q).built = q.built
    BY <1>1, <2>1, MovedKeeps
  <2> QED BY <1>10, <2>1, <2>2
<1> DEFINE m == Moment(cards', queues')
<1>21. m \in Moments /\ m.cards = cards' /\ m.main = q.main /\ m.learning = Range(q.learning) BY <1>19, <1>20, KeptMoment
<1>22. Present.main = queues.main /\ Present.learning = Range(queues.learning) BY <1>1, <1>4, KeptMoment DEF Present
<1> HIDE DEF m
<1>23. Patched(Present, m, u)
  <2>1. \/ /\ e \in Range(queues.learning)
           /\ q.main = queues.main
           /\ Range(q.learning) = (Range(queues.learning) \ {e}) \cup back
        \/ /\ e \in MEntry /\ queues.main # <<>> /\ e = Head(queues.main)
           /\ q.main = Tail(queues.main)
           /\ Range(q.learning) = Range(queues.learning) \cup back
    BY <1>10, <1>14
  <2>2. \A x \in back : x.id = e.id BY <1>7, <1>9 DEF e
  <2>3. OnTop(Present, e, u.cutoff) BY <1>7, <1>16 DEF e
  <2> QED BY <1>9, <1>16, <1>21, <1>22, <2>1, <2>2, <2>3 DEF Patched
<1>24. Good(m, preset.bury)
  <2>1. e \in Queued(Present) /\ e.id = c BY <1>7 DEF e
  <2>2. \A x \in back : x.mtime = m.cards[x.id].mod /\ m.cards[x.id].kind = "Learn" BY <1>6, <1>9, <1>17, <1>19, <1>21
  <2>3. \A x \in Queued(Present) : x.id # e.id =>
            \/ m.cards[x.id] = Present.cards[x.id]
            \/ /\ Notes[x.id] = Notes[e.id] /\ Present.cards[x.id].kind \in preset.bury
               /\ m.cards[x.id].kind = Present.cards[x.id].kind /\ m.cards[x.id].held = "buried"
    <3>1. \A x \in Queued(Present) : x.id \in Cards
      <4>1. Queued(Present) \subseteq MEntry \cup LEntry BY <1>1 DEF Queued, Moments, Range
      <4> QED BY <4>1 DEF MEntry, LEntry
    <3>2. \A s \in BuriedWith(c) : s # c /\ s \in Cards /\ Notes[s] = Notes[c] /\ cards[s].kind \in preset.bury
      BY DEF BuriedWith, Siblings
    <3>3. \A s \in BuriedWith(c) : cards'[s].kind = cards[s].kind /\ cards'[s].held = "buried"
      <4>1. SUFFICES ASSUME NEW s \in BuriedWith(c) PROVE cards'[s].kind = cards[s].kind /\ cards'[s].held = "buried" OBVIOUS
      <4>2. s # c /\ s \in Cards /\ cards[s] \in Row BY <1>1, <3>2 DEF CardTables
      <4>3. cards'[s] = [cards[s] EXCEPT !.held = "buried", !.mod = now] BY <1>19, <4>2 DEF rows
      <4> QED BY <4>2, <4>3 DEF Row
    <3>4. ASSUME NEW x \in Queued(Present), x.id # e.id, x.id \notin BuriedWith(c) PROVE m.cards[x.id] = Present.cards[x.id]
      BY <1>1, <1>19, <1>21, <2>1, <3>1, <3>4
    <3>5. ASSUME NEW x \in Queued(Present), x.id \in BuriedWith(c)
          PROVE  /\ Notes[x.id] = Notes[e.id] /\ Present.cards[x.id].kind \in preset.bury
                 /\ m.cards[x.id].kind = Present.cards[x.id].kind /\ m.cards[x.id].held = "buried"
      BY <1>1, <1>21, <2>1, <3>2, <3>3, <3>5
    <3> QED BY <3>4, <3>5
  <2> QED BY <1>1, <1>9, <1>16, <1>21, <1>23, <2>1, <2>2, <2>3, AnsweredIsGood
<1>25. Line(undo', m, queues'.built, preset.bury, TRUE)
  <2>1. Live(st, queues.built) BY <1>16, <1>18 DEF Live
  <2>2. Leads(m, Present, st, TRUE) BY <1>18, <1>23 DEF Leads
  <2>3. Present.cards = Written(st.rows, m.cards) BY <1>1, <1>19, <1>21
  <2>4. Line(Saved(undo, st), m, queues.built, preset.bury, TRUE) BY <1>1, <1>18, <1>21, <2>1, <2>2, <2>3, SavedLine
  <2> QED BY <1>13, <1>20, <2>4
<1>26. Line(redo', m, queues'.built, preset.bury, FALSE) BY <1>5, <1>21, NoLine
<1>27. undo' \in Seq(Recorded) /\ Len(undo') <= UNDO_LIMIT /\ Len(undo') \in Nat BY <1>1, <1>13, <1>18, SavedIsShort
<1>28. redo' \in Seq(Recorded) /\ Len(undo') + Len(redo') <= UNDO_LIMIT
  <2>1. <<>> \in Seq(Recorded) /\ Len(<<>>) = 0 OBVIOUS
  <2>2. redo' = <<>> BY <1>5
  <2>3. redo' \in Seq(Recorded) /\ Len(redo') = 0 BY <2>1, <2>2
  <2>4. Len(undo') + Len(redo') = Len(undo') BY <1>27, <2>3
  <2> HIDE DEF st
  <2> QED BY <1>27, <2>3, <2>4
<1>29. studied' \in Studied
  <2>1. cards[c].kind \in Kinds BY <1>1 DEF CardTables, Row
  <2> QED BY <1>1, <1>5, <2>1, StudiedIs
<1>30. ForgetCard /\ preset' = preset /\ now' = now /\ UNCHANGED broken BY <1>5
<1> QED BY <1>19, <1>20, <1>24, <1>25, <1>26, <1>27, <1>28, <1>29, <1>30, MovedBy DEF m
(***************************************************************************)
(* The theorems                                                            *)
(***************************************************************************)
LEMMA NextKeeps == ASSUME IInv, [Next]_vars PROVE IInv'
<1>1. CASE UNCHANGED vars
  <2>1. /\ now' = now /\ cards' = cards /\ studied' = studied /\ preset' = preset /\ queues' = queues
        /\ undo' = undo /\ redo' = redo /\ shown' = shown /\ broken' = broken
    BY <1>1 DEF vars
  <2>2. Typed' BY <2>1 DEF IInv, Typed, TypeOK, Kept
  <2>3. LinesHold' BY <2>1 DEF IInv, LinesHold, Present
  <2>4. ShownFits' BY <2>1 DEF IInv, ShownFits, Kept, Today
  <2> QED BY <2>2, <2>3, <2>4 DEF IInv
<1>2. CASE Tick BY <1>2, TickKeeps
<1>3. CASE Restart BY <1>3, RestartKeeps
<1>4. CASE GetQueuedCards BY <1>4, GetQueuedCardsKeeps
<1>5. CASE Undo BY <1>5, UndoKeeps
<1>6. CASE Redo BY <1>6, RedoKeeps
<1>7. ASSUME NEW c \in Cards, Answer(c) PROVE IInv' BY <1>7, AnswerKeeps
<1>8. ASSUME NEW c \in Cards, AnswerRefused(c) PROVE IInv' BY <1>8, AnswerRefusedKeeps
<1>9. ASSUME NEW c \in Touched, Bury(c) PROVE IInv' BY <1>9, BuryKeeps
<1>10. ASSUME NEW c \in Touched, BringBack(c) PROVE IInv' BY <1>10, BringBackKeeps
<1>11. ASSUME NEW c \in Touched, SetFlag(c) PROVE IInv' BY <1>11, SetFlagKeeps
<1> QED BY <1>1, <1>2, <1>3, <1>4, <1>5, <1>6, <1>7, <1>8, <1>9, <1>10, <1>11 DEF Next

LEMMA IInvHolds == Spec => []IInv
<1>1. IInv /\ [Next]_vars => IInv' BY NextKeeps
<1> QED BY InitKeeps, <1>1, PTL DEF Spec

LEMMA Head1 == ASSUME NEW S, NEW s \in Seq(S), s # <<>> PROVE s[1] = Head(s)
  OBVIOUS

(* Every variable always holds a value of its type.                        *)
THEOREM TypeCorrect == Spec => []TypeOK
<1>1. IInv => TypeOK BY DEF IInv, Typed
<1> QED BY <1>1, IInvHolds, PTL

(* An entry that the kept queues show is stale, so that getting the queued *)
(* cards meets the mismatch that queue/mod.rs:117 calls a bug, only for a  *)
(* card that a sibling's answer buried and whose kind the preset overlooks *)
(* (it buries that kind, but not one that is gathered later). With presets *)
(* that overlook no kind no entry is ever stale.                           *)
THEOREM EntriesStayCurrent == Spec => []EntriesAreCurrent
<1>1. IInv => EntriesAreCurrent
  <2> SUFFICES ASSUME IInv, Kept, NEW e \in Showable(queues)
               PROVE Current(e, cards) \/ Overlooked(cards[e.id], preset.bury)
    BY DEF EntriesAreCurrent
  <2>1. queues \in Queues /\ Good(Present, preset.bury) /\ cards \in CardTables /\ Present.cards = cards BY Start
  <2>2. Present.main = queues.main /\ Present.learning = Range(queues.learning) BY <2>1, KeptMoment DEF Present
  <2>3. Showable(queues) \subseteq Range(queues.main) \cup Range(queues.learning)
    BY DEF Showable, DueBy, Range
  <2>4. e \in Queued(Present) BY <2>2, <2>3 DEF Queued
  <2>5. e.mtime = cards[e.id].mod \/ Overlooked(cards[e.id], preset.bury) BY <2>1, <2>4 DEF Good
  <2> QED BY <2>5 DEF Current
<1> QED BY <1>1, IInvHolds, PTL

(* Answering the card that the reviewer shows, and redoing the answer last *)
(* undone, find the card's entry in the kept queues: queue/mod.rs:187 does *)
(* not refuse them, after any sequence of answers, undos, redos, burials,  *)
(* flags and rollovers.                                                    *)
THEOREM CardsStayFound == Spec => []CardsAreFound
<1>1. IInv => CardsAreFound
  <2> SUFFICES ASSUME IInv PROVE CardsAreFound OBVIOUS
  <2>1. Kept /\ shown.card # NoCard => CanPop(queues, shown.card) BY ShownFound
  <2>2. redo \in Seq(Recorded) BY Start
  <2>3. redo # <<>> => redo[1] = Head(redo) BY <2>2, Head1
  <2>4. redo # <<>> /\ Ready(redo[1]) => CanPop(queues, redo[1].update.entry.id) BY <2>3, RedoFound
  <2> QED BY <2>1, <2>4 DEF CardsAreFound
<1> QED BY <1>1, IInvHolds, PTL

(* Undoing an answer shows its card again: when the queues are kept, their *)
(* first entry after the undo is the answered card's, whichever answers,   *)
(* undos and redos came between.                                           *)
THEOREM UndoBringsBack == Spec => UndoShowsCard
<1> DEFINE Back == (undo # <<>> /\ undo[1].op = "answer" /\ Undo /\ Kept') => First(queues').id = undo[1].update.entry.id
<1>1. IInv /\ [Next]_vars => [Back]_vars
  <2> SUFFICES ASSUME IInv, undo # <<>>, undo[1].op = "answer", Undo, Kept'
               PROVE  First(queues').id = undo[1].update.entry.id
    OBVIOUS
  <2>1. undo \in Seq(Recorded) BY Start
  <2>2. undo[1] = Head(undo) BY <2>1, Head1
  <2> QED BY <2>2, UndoKeeps
<1>2. UndoShowsCard <=> [][Back]_vars BY DEF UndoShowsCard
<1> QED BY <1>1, <1>2, IInvHolds, PTL DEF Spec
===============================================================================
