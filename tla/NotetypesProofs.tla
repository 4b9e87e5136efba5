---------------------------- MODULE NotetypesProofs ----------------------------
(* Every note fits its type and every card its note, notes keep having the     *)
(* cards they call for, and positions and names amount to fields and card      *)
(* types with an identity: for every number of types, notes, fields and card   *)
(* types, and through every edit of them.                                      *)
EXTENDS Notetypes, FiniteSetTheorems, WellFoundedInduction, TLAPS

(* What a note's fields may hold, and the parts of a type that count here.     *)
FieldTexts == UNION {[D -> Texts] : D \in SUBSET Nat}
Note == [type : Types, fields : FieldTexts]
TypesTyped == types = [t \in Types |-> types[t]] /\ \A t \in Types : DOMAIN types[t].fields \subseteq Nat
NotesTyped == notes \in [Notes -> Note \cup {NoNote}]
FormTyped == form # NoForm => form.new \in Types

IInv == TypesTyped /\ NotesTyped /\ FormTyped /\ FieldsFit

(* Originals and stock types number their fields.                              *)
LEMMA Numbered ==
  /\ \A t \in Types : DOMAIN Originals[t].fields \subseteq Nat
  /\ \A t \in Types : \A stock \in Stocks[t] : DOMAIN stock.fields \subseteq Nat
<1>1. \A nt \in Notetype : DOMAIN nt.fields \subseteq Nat
  <2>1. SUFFICES ASSUME NEW nt \in Notetype PROVE DOMAIN nt.fields \subseteq Nat OBVIOUS
  <2>2. nt.fields \in Seq(Field) BY DEF Notetype
  <2>3. \A s \in Seq(Field) : DOMAIN s = 1..Len(s) /\ Len(s) \in Nat OBVIOUS
  <2> QED BY <2>2, <2>3
<1> QED BY <1>1, TypesAssumption

LEMMA InitFits == Init => IInv
<1>1. SUFFICES ASSUME Init PROVE IInv OBVIOUS
<1>2. TypesTyped BY <1>1, Numbered, TypesAssumption DEF Init, TypesTyped
<1>3. NotesTyped /\ FormTyped /\ FieldsFit BY <1>1 DEF Init, NotesTyped, FormTyped, FieldsFit, Exists
<1> QED BY <1>2, <1>3 DEF IInv

(* An empty string or a text the note had is what a reordered field holds.     *)
LEMMA ReorderedFits ==
  ASSUME NEW text \in FieldTexts, NEW entries, DOMAIN entries \subseteq Nat
  PROVE Reordered(text, entries) \in FieldTexts /\ DOMAIN Reordered(text, entries) = DOMAIN entries
<1>1. \A i \in DOMAIN text : text[i] \in Texts BY DEF FieldTexts
<1>2. Reordered(text, entries) \in [DOMAIN entries -> Texts] BY <1>1, TextsAssumption DEF Reordered
<1> QED BY <1>2 DEF FieldTexts, Reordered

(* Saving a type makes its notes fit the edit, whatever it does to the fields. *)
LEMMA UpdateFits ==
  ASSUME IInv, NEW t \in Types, NEW edit, NEW skip_checks, NEW reworded, NEW unclozed,
         DOMAIN edit.fields \subseteq Nat, SaveNotetype(t, edit, skip_checks, reworded, unclozed)
  PROVE IInv'
<1> DEFINE new == PreparedForUpdate(types[t], edit, unclozed)
<1>1. types' = [types EXCEPT ![t] = new] /\ notes' = NotesUpdated(t, edit) /\ form' = form
  BY DEF SaveNotetype
<1>2. DOMAIN new.fields = DOMAIN edit.fields BY DEF PreparedForUpdate
<1>3. TypesTyped' BY <1>1, <1>2 DEF IInv, TypesTyped
<1>4. \A n \in Notes \ Of(t) : notes'[n] = notes[n]
  BY <1>1 DEF NotesUpdated, IInv, NotesTyped
<1>5. \A n \in Of(t) : /\ notes'[n] \in Note /\ notes'[n].type = t
                       /\ DOMAIN notes'[n].fields = DOMAIN edit.fields
  <2>1. SUFFICES ASSUME NEW n \in Of(t)
        PROVE notes'[n] \in Note /\ notes'[n].type = t /\ DOMAIN notes'[n].fields = DOMAIN edit.fields
    OBVIOUS
  <2>2. n \in Notes /\ notes[n] \in Note /\ notes[n].type = t /\ DOMAIN notes[n].fields = DOMAIN types[t].fields
    BY DEF Of, Exists, IInv, NotesTyped, FieldsFit
  <2>3. CASE OrdsChanged(types[t].fields, edit.fields)
    <3>1. notes'[n] = [type |-> t, fields |-> Reordered(notes[n].fields, edit.fields)]
      BY <1>1, <2>2, <2>3 DEF NotesUpdated
    <3>2. notes[n].fields \in FieldTexts BY <2>2 DEF Note
    <3> QED BY <3>1, <3>2, ReorderedFits DEF Note
  <2>4. CASE ~OrdsChanged(types[t].fields, edit.fields)
    BY <1>1, <2>2, <2>4 DEF NotesUpdated, OrdsChanged
  <2> QED BY <2>3, <2>4
<1>6. NotesTyped'
  <2>1. notes' = [n \in Notes |-> notes'[n]] BY <1>1 DEF NotesUpdated, IInv, NotesTyped
  <2>2. \A n \in Notes : notes'[n] \in Note \cup {NoNote} BY <1>4, <1>5 DEF IInv, NotesTyped
  <2> QED BY <2>1, <2>2 DEF NotesTyped
<1>7. FormTyped' BY <1>1 DEF IInv, FormTyped
<1>8. FieldsFit'
  <2>1. SUFFICES ASSUME NEW n \in Notes, Exists(n)' PROVE DOMAIN notes'[n].fields = DOMAIN types'[notes'[n].type].fields
    BY DEF FieldsFit
  <2>2. CASE n \in Of(t) BY <1>1, <1>2, <1>5, <2>2 DEF IInv, TypesTyped
  <2>3. CASE n \notin Of(t)
    <3>1. notes'[n] = notes[n] /\ Exists(n) BY <1>4, <2>1, <2>3 DEF Exists
    <3>2. notes[n].type # t BY <3>1, <2>3 DEF Of
    <3>3. types'[notes[n].type] = types[notes[n].type] BY <1>1, <3>2 DEF IInv, TypesTyped
    <3> QED BY <3>1, <3>3 DEF IInv, FieldsFit
  <2> QED BY <2>2, <2>3
<1> QED BY <1>3, <1>6, <1>7, <1>8 DEF IInv

(* Steps that change no type, where each note stays, goes, or fits its type.   *)
LEMMA NotesFitAgain ==
  ASSUME IInv, types' = types, FormTyped', NotesTyped',
         \A n \in Notes : \/ notes'[n] = notes[n] \/ notes'[n] = NoNote
                          \/ DOMAIN notes'[n].fields = DOMAIN types[notes'[n].type].fields
  PROVE IInv'
<1>1. FieldsFit' BY DEF IInv, FieldsFit, Exists
<1> QED BY <1>1 DEF IInv, TypesTyped

LEMMA StepFits == IInv /\ [Next]_vars => IInv'
<1>1. SUFFICES ASSUME IInv, [Next]_vars PROVE IInv' OBVIOUS
<1>2. ASSUME NEW n \in Notes, NEW t \in Types, AddNote(n, t) PROVE IInv'
  <2>1. PICK text \in [DOMAIN types[t].fields -> Texts] : notes' = [notes EXCEPT ![n] = [type |-> t, fields |-> text]]
    BY <1>2 DEF AddNote
  <2>2. text \in FieldTexts BY <1>1, <2>1 DEF IInv, TypesTyped, FieldTexts
  <2>3. NotesTyped' BY <1>1, <2>1, <2>2 DEF IInv, NotesTyped, Note
  <2>4. types' = types /\ form' = form BY <1>2 DEF AddNote
  <2>5. FormTyped' BY <1>1, <2>4 DEF IInv, FormTyped
  <2>6. \A m \in Notes : notes'[m] = notes[m] \/ DOMAIN notes'[m].fields = DOMAIN types[notes'[m].type].fields
    BY <1>1, <2>1 DEF IInv, NotesTyped
  <2> QED BY <1>1, <2>3, <2>4, <2>5, <2>6, NotesFitAgain
<1>3. ASSUME NEW n \in Notes, UpdateNote(n) PROVE IInv'
  <2>1. PICK i \in DOMAIN notes[n].fields : \E x \in Texts : notes' = [notes EXCEPT ![n].fields[i] = x]
    BY <1>3 DEF UpdateNote
  <2>2. PICK x \in Texts : notes' = [notes EXCEPT ![n].fields[i] = x] BY <2>1
  <2>3. Exists(n) /\ notes[n] \in Note BY <1>1, <1>3 DEF UpdateNote, Exists, IInv, NotesTyped
  <2> DEFINE text == [notes[n].fields EXCEPT ![i] = x]
  <2>4. PICK D \in SUBSET Nat : notes[n].fields \in [D -> Texts] BY <2>3 DEF Note, FieldTexts
  <2>5. text \in [D -> Texts] /\ DOMAIN text = DOMAIN notes[n].fields BY <2>4
  <2>6. text \in FieldTexts BY <2>5 DEF FieldTexts
  <2> HIDE DEF text
  <2>7. notes'[n] = [type |-> notes[n].type, fields |-> text] /\ \A m \in Notes \ {n} : notes'[m] = notes[m]
    BY <1>1, <2>2, <2>3 DEF text, IInv, NotesTyped, Note
  <2>8. NotesTyped'
    <3>1. notes' = [m \in Notes |-> notes'[m]] BY <1>1, <2>2 DEF IInv, NotesTyped
    <3>2. notes'[n] \in Note BY <2>3, <2>6, <2>7 DEF Note
    <3>3. \A m \in Notes : notes'[m] \in Note \cup {NoNote} BY <1>1, <2>7, <3>2 DEF IInv, NotesTyped
    <3> QED BY <3>1, <3>3 DEF NotesTyped
  <2>9. types' = types /\ form' = form BY <1>3 DEF UpdateNote
  <2>10. FormTyped' BY <1>1, <2>9 DEF IInv, FormTyped
  <2>11. \A m \in Notes : notes'[m] = notes[m] \/ DOMAIN notes'[m].fields = DOMAIN types[notes'[m].type].fields
    BY <1>1, <2>3, <2>5, <2>7 DEF IInv, FieldsFit
  <2> QED BY <1>1, <2>8, <2>9, <2>10, <2>11, NotesFitAgain
<1>4. ASSUME NEW n \in Notes, RemoveNote(n) PROVE IInv'
  <2>1. notes' = [notes EXCEPT ![n] = NoNote] /\ types' = types /\ form' = form BY <1>4 DEF RemoveNote
  <2>2. NotesTyped' /\ FormTyped' BY <1>1, <2>1 DEF IInv, NotesTyped, FormTyped
  <2>3. \A m \in Notes : notes'[m] = notes[m] \/ notes'[m] = NoNote BY <1>1, <2>1 DEF IInv, NotesTyped
  <2> QED BY <1>1, <2>1, <2>2, <2>3, NotesFitAgain
<1>5. ASSUME NEW t \in Types, NEW edit, DOMAIN edit.fields \subseteq Nat, NEW skip_checks, NEW reworded,
             UpdateNotetype(t, edit, skip_checks, reworded) PROVE IInv'
  <2>1. PICK unclozed : SaveNotetype(t, edit, skip_checks, reworded, unclozed) BY <1>5 DEF UpdateNotetype
  <2> QED BY <1>1, <1>5, <2>1, UpdateFits
<1>6. ASSUME NEW t \in FieldsEdited, EditFields(t) PROVE IInv'
  <2>1. PICK entries \in FieldEdits(types[t].fields) :
          UpdateNotetype(t, [kind |-> types[t].kind, fields |-> entries, templates |-> SameTemplates(types[t])], TRUE, FALSE)
    BY <1>6 DEF EditFields
  <2>2. DOMAIN entries \subseteq Nat
    <3>1. PICK k \in 1..MaxFields : entries \in [1..k -> [name : Names, had : 0..Len(types[t].fields)]]
      BY <2>1 DEF FieldEdits
    <3> QED BY <3>1
  <2> QED BY <1>5, <2>1, <2>2, EditedAssumption
<1>7. ASSUME NEW t \in Edited, EditTemplates(t) PROVE IInv'
  <2>1. PICK entries, reworded :
          UpdateNotetype(t, [kind |-> types[t].kind, fields |-> SameFields(types[t]), templates |-> entries], FALSE, reworded)
    BY <1>7 DEF EditTemplates
  <2>2. DOMAIN SameFields(types[t]) \subseteq Nat BY <1>1, EditedAssumption DEF SameFields, IInv, TypesTyped
  <2> QED BY <1>5, <2>1, <2>2, EditedAssumption
<1>8. ASSUME NEW t \in Types, Restore(t) PROVE IInv'
  <2>1. PICK stock \in Stocks[t] : \E reworded \in BOOLEAN :
          UpdateNotetype(t, [kind |-> stock.kind, fields |-> SameFields(stock), templates |-> SameTemplates(stock)], FALSE, reworded)
    BY <1>8 DEF Restore
  <2>2. PICK reworded \in BOOLEAN :
          UpdateNotetype(t, [kind |-> stock.kind, fields |-> SameFields(stock), templates |-> SameTemplates(stock)], FALSE, reworded)
    BY <2>1
  <2>3. DOMAIN SameFields(stock) \subseteq Nat BY <2>1, Numbered DEF SameFields
  <2> QED BY <1>5, <2>2, <2>3
<1>9. ASSUME NEW t \in Types, NEW u \in Types, OpenChange(t, u) PROVE IInv'
  <2>1. types' = types /\ notes' = notes /\ form'.new = u BY <1>9 DEF OpenChange
  <2> QED BY <1>1, <2>1, NotesFitAgain DEF IInv, FormTyped, NotesTyped
<1>10. CASE ChangeNotetype
  <2>1. form # NoForm /\ form.new \in Types /\ DOMAIN form.fields = DOMAIN types[form.new].fields
    BY <1>1, <1>10 DEF ChangeNotetype, IInv, FormTyped
  <2>2. /\ notes' = [n \in Notes |-> IF n \in form.notes THEN [type |-> form.new, fields |-> FieldsRemapped(notes[n].fields)]
                                     ELSE notes[n]]
        /\ types' = types /\ form' = NoForm /\ \A n \in form.notes : Exists(n)
    BY <1>10 DEF ChangeNotetype
  <2>3. ASSUME NEW n \in Notes, n \in form.notes
        PROVE notes'[n] \in Note /\ notes'[n].type = form.new /\ DOMAIN notes'[n].fields = DOMAIN form.fields
    <3>1. notes[n] \in Note BY <1>1, <2>2, <2>3 DEF Exists, IInv, NotesTyped
    <3>2. \A i \in DOMAIN notes[n].fields : notes[n].fields[i] \in Texts BY <3>1 DEF Note, FieldTexts
    <3>3. FieldsRemapped(notes[n].fields) \in [DOMAIN form.fields -> Texts]
      BY <3>2, TextsAssumption DEF FieldsRemapped
    <3>4. DOMAIN form.fields \subseteq Nat BY <1>1, <2>1 DEF IInv, TypesTyped
    <3>5. FieldsRemapped(notes[n].fields) \in FieldTexts BY <3>3, <3>4 DEF FieldTexts
    <3>6. notes'[n] = [type |-> form.new, fields |-> FieldsRemapped(notes[n].fields)] BY <2>2, <2>3
    <3>7. DOMAIN FieldsRemapped(notes[n].fields) = DOMAIN form.fields BY DEF FieldsRemapped
    <3> QED BY <2>1, <3>5, <3>6, <3>7 DEF Note
  <2>4. \A n \in Notes : n \notin form.notes => notes'[n] = notes[n] BY <2>2
  <2>5. NotesTyped'
    <3>1. \A n \in Notes : notes'[n] \in Note \cup {NoNote} BY <1>1, <2>3, <2>4 DEF IInv, NotesTyped
    <3>2. notes' = [n \in Notes |-> notes'[n]] BY <2>2
    <3> QED BY <3>1, <3>2 DEF NotesTyped
  <2> QED BY <1>1, <2>1, <2>2, <2>3, <2>4, <2>5, NotesFitAgain DEF FormTyped
<1>11. ASSUME NEW keep, DeleteEmpty(keep) PROVE IInv'
  <2>1. types' = types /\ form' = form BY <1>11 DEF DeleteEmpty
  <2>2. \A n \in Notes : notes'[n] = notes[n] \/ notes'[n] = NoNote BY <1>11 DEF DeleteEmpty
  <2>3. notes' = [n \in Notes |-> notes'[n]] BY <1>11 DEF DeleteEmpty
  <2>4. NotesTyped' BY <1>1, <2>2, <2>3 DEF IInv, NotesTyped
  <2> QED BY <1>1, <2>1, <2>2, <2>4, NotesFitAgain DEF IInv, FormTyped
<1>12. CASE CloseChange \/ FindEmpty \/ CloseReport \/ CheckDatabase \/ UNCHANGED vars
  <2>1. types' = types /\ notes' = notes /\ (form' = form \/ form' = NoForm)
    BY <1>12 DEF CloseChange, FindEmpty, CloseReport, CheckDatabase, vars
  <2> QED BY <1>1, <2>1, NotesFitAgain DEF IInv, FormTyped, NotesTyped
<1> QED BY <1>1, <1>2, <1>3, <1>4, <1>6, <1>7, <1>8, <1>9, <1>10, <1>11, <1>12 DEF Next

(* Every note always has a text for each field of its type: the fields of a    *)
(* type change with its notes, and a note changes type with its fields.        *)
THEOREM FieldsAlwaysFit == Spec => []FieldsFit
<1>1. IInv => FieldsFit BY DEF IInv
<1> QED BY InitFits, StepFits, <1>1, PTL DEF Spec

---------------------------------------------------------------------------
(* Counting: the numbering of a set of naturals, which new ids are taken by.   *)

(* Every set of naturals has a least element.                                  *)
LEMMA LeastNatural ==
  ASSUME NEW S \in SUBSET Nat, S # {}
  PROVE \E x \in S : \A y \in S : x <= y
<1>1. IsWellFoundedOn(OpToRel(<, Nat), Nat) BY NatLessThanWellFounded
<1>2. PICK x \in S : \A y \in S : ~ (<<y, x>> \in OpToRel(<, Nat)) BY <1>1, WFMin
<1>3. \A y \in S : ~ (y < x) BY <1>2 DEF OpToRel
<1> QED BY <1>3

Below(S, x) == {y \in S : y < x}

(* A finite set of n naturals has a kth element for every k from 1 to n: the   *)
(* first k without one would have a (k - 1)th, and the next larger after that. *)
LEMMA NthExists ==
  ASSUME NEW S \in SUBSET Nat, IsFiniteSet(S), NEW k \in 1..Cardinality(S)
  PROVE \E x \in S : Cardinality(Below(S, x)) = k - 1
<1> DEFINE n == Cardinality(S)
           Has(j) == \E x \in S : Cardinality(Below(S, x)) = j - 1
           Bad == {j \in 1..n : ~Has(j)}
<1>1. n \in Nat BY FS_CardinalityType
<1>2. SUFFICES ASSUME Bad # {} PROVE FALSE OBVIOUS
<1>3. Bad \in SUBSET Nat BY <1>1
<1>4. PICK j \in Bad : \A i \in Bad : j <= i BY <1>2, <1>3, LeastNatural
<1>5. j \in 1..n /\ ~Has(j) BY <1>4
<1>6. S # {} BY <1>1, <1>5, FS_EmptySet
<1>7. CASE j = 1
  <2>1. PICK x \in S : \A y \in S : x <= y BY <1>6, LeastNatural
  <2>2. \A y \in S : ~ (y < x) BY <2>1
  <2>3. Below(S, x) = {} BY <2>2 DEF Below
  <2>4. Cardinality(Below(S, x)) = 0 BY <2>3, FS_EmptySet
  <2> QED BY <1>5, <1>7, <2>4
<1>8. CASE j > 1
  <2>1. j - 1 \in 1..n /\ j - 1 \notin Bad BY <1>1, <1>4, <1>5, <1>8
  <2>2. PICK x \in S : Cardinality(Below(S, x)) = (j - 1) - 1 BY <2>1
  <2> DEFINE L == Below(S, x)
             Upto == L \cup {x}
             After == S \ Upto
  <2>3. IsFiniteSet(L) BY FS_Subset DEF Below
  <2>4. x \notin L BY DEF Below
  <2>5. IsFiniteSet(Upto) /\ Cardinality(Upto) = Cardinality(L) + 1 BY <2>3, <2>4, FS_AddElement
  <2>6. Cardinality(Upto) = j - 1 BY <1>5, <2>2, <2>5
  <2>7. Cardinality(Upto) # n BY <1>1, <1>5, <2>6
  <2>8. After # {}
    <3>1. Upto \subseteq S BY DEF Below
    <3> QED BY <2>7, <3>1
  <2>9. PICK z \in After : \A y \in After : z <= y BY <2>8, LeastNatural
  <2>10. x < z
    <3>1. z \in S /\ z # x /\ ~(z < x) BY <2>9 DEF Below
    <3> QED BY <3>1
  <2>11. Below(S, z) = Upto
    <3>1. \A y \in S : y < z => y \in Upto BY <2>9
    <3>2. \A y \in Upto : y \in S /\ y < z BY <2>10 DEF Below
    <3> QED BY <3>1, <3>2 DEF Below
  <2> QED BY <1>5, <2>6, <2>9, <2>11
<1> QED BY <1>1, <1>5, <1>7, <1>8

LEMMA NthFits ==
  ASSUME NEW S \in SUBSET Nat, IsFiniteSet(S), NEW k \in 1..Cardinality(S)
  PROVE Nth(S, k) \in S /\ Cardinality(Below(S, Nth(S, k))) = k - 1
<1>1. \E x \in S : Cardinality({y \in S : y < x}) = k - 1 BY NthExists DEF Below
<1> QED BY <1>1 DEF Nth, Below

(* R is the cards cs and one for each of the new ones, which m tells apart.     *)
MadeFrom(R, m, cs, new, unused) ==
  /\ DOMAIN cs \subseteq DOMAIN R /\ DOMAIN R \subseteq DOMAIN cs \cup unused
  /\ \A c \in DOMAIN cs : R[c] = cs[c]
  /\ \A c \in DOMAIN R \ DOMAIN cs : m[c] \in new /\ R[c] = [note |-> m[c].note, ord |-> m[c].ord]
  /\ \A c, d \in DOMAIN R \ DOMAIN cs : m[c] = m[d] => c = d
  /\ \A w \in new : \E c \in DOMAIN R \ DOMAIN cs : m[c] = w

(* New cards take ids that are each other's and nobody else's.                 *)
LEMMA AddGeneratedFits ==
  ASSUME NEW cs, NEW new, IsFiniteSet(new),
         NEW unused, unused = CardIds \ (DOMAIN cards \cup Reported),
         unused \in SUBSET Nat, IsFiniteSet(unused), Cardinality(new) <= Cardinality(unused),
         DOMAIN cs \cap unused = {}
  PROVE \E m : MadeFrom(AddGenerated(cs, new), m, cs, new, unused)
<1> DEFINE n == Cardinality(new)
           place == CHOOSE p \in [new -> 1..n] : \A v, w \in new : p[v] = p[w] => v = w
           made(c) == CHOOSE w \in new : Nth(unused, place[w]) = c
           ids == {Nth(unused, k) : k \in 1..n}
           m == [c \in ids |-> made(c)]
           R == AddGenerated(cs, new)
<1>1. n \in Nat /\ Cardinality(unused) \in Nat BY FS_CardinalityType
<1>2. \E p \in [new -> 1..n] : (\A v, w \in new : p[v] = p[w] => v = w) /\ \A k \in 1..n : \E w \in new : p[w] = k
  <2>1. IsFiniteSet(1..n) /\ Cardinality(1..n) = n BY <1>1, FS_Interval
  <2>2. PICK p : p \in Bijection(new, 1..n) BY <2>1, FS_SameCardinalityBij DEF ExistsBijection
  <2> QED BY <2>2 DEF Bijection, Injection, Surjection, IsInjective
<1>3. place \in [new -> 1..n] /\ \A v, w \in new : place[v] = place[w] => v = w BY <1>2
<1>4. \A k \in 1..n : \E w \in new : place[w] = k
  <2>1. IsFiniteSet(1..n) /\ Cardinality(1..n) = n BY <1>1, FS_Interval
  <2>2. place \in Injection(new, 1..n) BY <1>3 DEF Injection, IsInjective
  <2>3. place \in Surjection(new, 1..n) BY <2>1, <2>2, FS_Injection
  <2> QED BY <2>3 DEF Surjection
<1> HIDE DEF place
<1>5. \A k \in 1..n : Nth(unused, k) \in unused BY <1>1, NthFits
<1>6. \A c \in ids : made(c) \in new /\ Nth(unused, place[made(c)]) = c
  <2>1. SUFFICES ASSUME NEW k \in 1..n, NEW c, c = Nth(unused, k)
        PROVE \E w \in new : Nth(unused, place[w]) = c
    OBVIOUS
  <2> QED BY <1>4, <2>1
<1>7. R = [c \in DOMAIN cs \cup ids |-> IF c \in DOMAIN cs THEN cs[c] ELSE [note |-> made(c).note, ord |-> made(c).ord]]
  BY DEF AddGenerated, place
<1> HIDE DEF made, R, ids
<1>8. DOMAIN R = DOMAIN cs \cup ids BY <1>7
<1>9. ids \subseteq unused BY <1>5 DEF ids
<1>10. \A c \in DOMAIN R \ DOMAIN cs : m[c] \in new /\ R[c] = [note |-> m[c].note, ord |-> m[c].ord]
  BY <1>6, <1>7, <1>8
<1>11. \A c, d \in DOMAIN R \ DOMAIN cs : m[c] = m[d] => c = d BY <1>6, <1>8
<1>12. \A c \in DOMAIN cs : R[c] = cs[c] BY <1>7
<1>13. ASSUME NEW w \in new PROVE \E c \in DOMAIN R \ DOMAIN cs : m[c] = w
  <2>1. PICK k \in 1..n : k = place[w] BY <1>3
  <2>2. PICK c : c = Nth(unused, k) OBVIOUS
  <2>3. c \in ids /\ c \notin DOMAIN cs BY <1>5, <2>2 DEF ids
  <2>4. made(c) \in new /\ Nth(unused, place[made(c)]) = c BY <1>6, <2>3
  <2>5. PICK j \in 1..n : j = place[made(c)] BY <1>3, <2>4
  <2>6. Cardinality(Below(unused, c)) = k - 1 /\ Cardinality(Below(unused, c)) = j - 1
    BY <1>1, <2>2, <2>4, <2>5, NthFits
  <2>7. made(c) = w BY <1>3, <2>1, <2>4, <2>5, <2>6
  <2>8. c \in DOMAIN R \ DOMAIN cs BY <1>8, <2>3
  <2> QED BY <2>3, <2>7, <2>8
<1> HIDE DEF m
<1>14. DOMAIN cs \subseteq DOMAIN R /\ DOMAIN R \subseteq DOMAIN cs \cup unused BY <1>8, <1>9
<1>15. MadeFrom(R, m, cs, new, unused) BY <1>10, <1>11, <1>12, <1>13, <1>14 DEF MadeFrom
<1> QED BY <1>15 DEF R

---------------------------------------------------------------------------
(* Every card is a note's, and its ordinal its own and one of its type's.      *)

(* What the theorem supposes of a collection: a note type has as many card     *)
(* types as a card's ordinal can tell apart, and one at least; it is restored  *)
(* to a stock type of its own kind, as every type that was made from one is;   *)
(* and the clozes of a text are numbered from one up to the last ordinal.      *)
TemplatesFit(nt) == Len(nt.templates) \in 1..MaxTemplates
Ordinary ==
  /\ NoNote \notin Note
  /\ IsFiniteSet(Notes)
  /\ MaxTemplates <= LastOrd
  /\ \A t \in Types : TemplatesFit(Originals[t])
  /\ \A t \in Types : \A stock \in Stocks[t] : TemplatesFit(stock) /\ stock.kind = Originals[t].kind
  /\ \A x \in Texts : Clozes[x] \subseteq 1..LastOrd

Card == [note : Notes, ord : 1..LastOrd]

(* A type's card types are numbered from one.                                  *)
Counted(nt) ==
  /\ nt.kind \in {Normal, Cloze}
  /\ Len(nt.templates) \in 1..MaxTemplates
  /\ DOMAIN nt.templates = 1..Len(nt.templates)

TypesCounted == \A t \in Types : types[t].kind = Originals[t].kind /\ Counted(types[t])
CardsTyped(cs) == DOMAIN cs \subseteq CardIds /\ \A c \in DOMAIN cs : cs[c] \in Card
ReportTyped == report \in [Notes -> [empty : SUBSET CardIds, all : BOOLEAN]]

(* CardsFit, of any cards, notes and types.                                    *)
Placed(cs, ns, ts) ==
  /\ \A c, d \in DOMAIN cs : cs[c].note = cs[d].note /\ cs[c].ord = cs[d].ord => c = d
  /\ \A c \in DOMAIN cs :
       /\ ns[cs[c].note] # NoNote
       /\ cs[c].ord \in OrdsOf(ts[ns[cs[c].note].type])

(* Card types are taken over by those that the new type has, each by one.      *)
LaidOut(m, old, new) ==
  /\ Cloze \in {old.kind, new.kind} => m = <<>>
  /\ DOMAIN m \subseteq DOMAIN new.templates
  /\ \A i \in DOMAIN m : m[i] \in 0..Len(old.templates)
  /\ \A i, j \in DOMAIN m : m[i] = m[j] /\ m[i] # 0 => i = j

(* What an open dialog lays out is for the type its notes still have, and, as  *)
(* long as the schema is the one it was opened with, for the types as they are.*)
FormFits ==
  form # NoForm =>
    /\ form.old \in Types /\ form.notes \subseteq Notes
    /\ \A n \in form.notes : Exists(n) => notes[n].type = form.old
    /\ form.schema \in Nat /\ form.schema <= schema
    /\ form.schema = schema => LaidOut(form.templates, types[form.old], types[form.new])

CInv == IInv /\ TypesCounted /\ CardsTyped(cards) /\ ReportTyped /\ FormFits /\ schema \in Nat /\ Placed(cards, notes, types)

LEMMA PlacedIsFit == Placed(cards, notes, types) <=> CardsFit
  BY DEF Placed, CardsFit, Exists

(* The cards a note calls for: one for each ordinal that its cards lack.       *)
LEMMA RequiredFits ==
  ASSUME Ordinary, NEW n \in Notes, NEW nt, Counted(nt), NEW text \in FieldTexts, NEW have
  PROVE \A w \in NewCardsRequired(n, nt, text, have) :
          /\ w.ord \in OrdsOf(nt) \ have /\ w.ord \in 1..LastOrd
          /\ w = [note |-> n, ord |-> w.ord, number |-> w.ord]
<1>1. LastOrd \in Nat \ {0} /\ MaxTemplates \in Nat /\ MaxTemplates <= LastOrd BY BoundsAssumption DEF Ordinary
<1>2. Len(nt.templates) \in 1..MaxTemplates /\ DOMAIN nt.templates = 1..Len(nt.templates)
      /\ nt.kind \in {Normal, Cloze}
  BY DEF Counted
<1>3. 1 \in OrdsOf(nt) /\ OrdsOf(nt) \subseteq 1..LastOrd BY <1>1, <1>2 DEF OrdsOf
<1>4. ASSUME NEW w \in CardsRequired(n, nt, text, have)
      PROVE w.ord \in OrdsOf(nt) \ have /\ w = [note |-> n, ord |-> w.ord, number |-> w.ord]
  <2>1. CASE nt.kind = Normal
    <3>1. PICK i \in DOMAIN nt.templates \ have : w = [note |-> n, ord |-> i, number |-> i]
      BY <1>4, <2>1 DEF CardsRequired
    <3> QED BY <2>1, <3>1 DEF OrdsOf
  <2>2. CASE nt.kind # Normal
    <3>1. PICK k \in ClozesIn(text) : w = [note |-> n, ord |-> Least(k, LastOrd), number |-> k] /\ w.ord \notin have
      BY <1>4, <2>2 DEF CardsRequired
    <3>2. k \in 1..LastOrd
      <4>1. PICK i \in DOMAIN text : k \in Clozes[text[i]] BY <3>1 DEF ClozesIn
      <4>2. text[i] \in Texts BY <4>1 DEF FieldTexts
      <4> QED BY <4>1, <4>2 DEF Ordinary
    <3>3. Least(k, LastOrd) = k BY <1>1, <3>2 DEF Least
    <3>4. w.ord = k /\ w = [note |-> n, ord |-> k, number |-> k] BY <3>1, <3>3
    <3> QED BY <2>2, <3>1, <3>2, <3>4 DEF OrdsOf
  <2> QED BY <2>1, <2>2
<1>5. ASSUME NEW w \in NewCardsRequired(n, nt, text, have)
      PROVE w.ord \in OrdsOf(nt) \ have /\ w = [note |-> n, ord |-> w.ord, number |-> w.ord]
  <2>1. CASE have = {} /\ CardsRequired(n, nt, text, have) = {}
    <3>1. w = [note |-> n, ord |-> 1, number |-> 1] BY <1>5, <2>1 DEF NewCardsRequired
    <3> QED BY <1>3, <2>1, <3>1
  <2>2. CASE ~(have = {} /\ CardsRequired(n, nt, text, have) = {})
    <3>1. w \in CardsRequired(n, nt, text, have) BY <1>5, <2>2 DEF NewCardsRequired
    <3> QED BY <1>4, <3>1
  <2> QED BY <2>1, <2>2
<1> QED BY <1>3, <1>5

(* A note calls for less if it has more cards.                                 *)
LEMMA RequiredLess ==
  ASSUME NEW n, NEW nt, NEW text, NEW have, NEW more, have \subseteq more,
         NEW w \in CardsRequired(n, nt, text, more)
  PROVE w \in CardsRequired(n, nt, text, have) /\ w.note = n /\ w.ord \notin more
<1>1. CASE nt.kind = Normal
  <2>1. PICK i \in DOMAIN nt.templates \ more : w = [note |-> n, ord |-> i, number |-> i] /\ Renders(nt.templates[i], nt, text)
    BY <1>1 DEF CardsRequired
  <2> QED BY <1>1, <2>1 DEF CardsRequired
<1>2. CASE nt.kind # Normal
  <2>1. PICK k \in ClozesIn(text) : w = [note |-> n, ord |-> Least(k, LastOrd), number |-> k] /\ w.ord \notin more
    BY <1>2 DEF CardsRequired
  <2> QED BY <1>2, <2>1 DEF CardsRequired
<1> QED BY <1>1, <1>2

(* A card that a note calls for, or the first of a note that had none.         *)
CalledFor(n, ord, nt, text, have) == (\E w \in CardsRequired(n, nt, text, {}) : w.ord = ord) \/ have = {ord}

(* What generating cards for some notes does: they have cards and call for no  *)
(* more, the other notes keep theirs, and only cards that are called for come. *)
Filled(cs, table, kinds, which) ==
  /\ \A n \in which :
       CardsRequired(n, kinds[table[n].type], table[n].fields, Ords(cards', n)) = {} /\ CardsOf(cards', n) # {}
  /\ \A n \in Notes \ which : CardsOf(cards', n) = CardsOf(cs, n) /\ Ords(cards', n) = Ords(cs, n)
  /\ \A c \in DOMAIN cs : c \in DOMAIN cards' /\ cards'[c] = cs[c]
  /\ \A c \in DOMAIN cards' \ DOMAIN cs :
       LET n == cards'[c].note
       IN  c \notin DOMAIN cards /\ CalledFor(n, cards'[c].ord, kinds[table[n].type], table[n].fields, Ords(cards', n))

(* Generating cards for some notes leaves all cards placed, if those they are  *)
(* added to were, and the notes with every card they call for.                 *)
LEMMA GenerateFits ==
  ASSUME Ordinary, CardsTyped(cards), ReportTyped,
         NEW cs, CardsTyped(cs), DOMAIN cs \subseteq DOMAIN cards,
         NEW table, NEW kinds, Placed(cs, table, kinds),
         NEW which \in SUBSET Notes,
         \A n \in which : table[n] # NoNote /\ Counted(kinds[table[n].type]) /\ table[n].fields \in FieldTexts,
         Generate(cs, table, kinds, which)
  PROVE CardsTyped(cards)' /\ Placed(cards', table, kinds) /\ Filled(cs, table, kinds, which)
<1> DEFINE new == NewCards(cs, table, kinds, which)
           unused == CardIds \ (DOMAIN cards \cup Reported)
           taken == DOMAIN cards \cup Reported
<1>1. cards' = AddGenerated(cs, new) /\ Cardinality(new) <= MaxCards - Cardinality(taken) BY DEF Generate
<1>2. LastOrd \in Nat \ {0} /\ MaxCards \in Nat \ {0} BY BoundsAssumption
<1>3. ASSUME NEW w \in new
      PROVE /\ w.note \in which /\ w.ord \in OrdsOf(kinds[table[w.note].type]) /\ w.ord \in 1..LastOrd
            /\ w.ord \notin Ords(cs, w.note) /\ w = [note |-> w.note, ord |-> w.ord, number |-> w.ord]
  <2>1. PICK n \in which : w \in NewCardsRequired(n, kinds[table[n].type], table[n].fields, Ords(cs, n))
    BY <1>3 DEF NewCards
  <2>2. /\ w.ord \in OrdsOf(kinds[table[n].type]) \ Ords(cs, n) /\ w.ord \in 1..LastOrd
        /\ w = [note |-> n, ord |-> w.ord, number |-> w.ord]
    BY <2>1, RequiredFits
  <2>3. w.note = n BY <2>2
  <2> QED BY <2>2, <2>3
<1> HIDE DEF new
<1>4. IsFiniteSet(new)
  <2> DEFINE pairs == Notes \X (1..LastOrd)
             f == [w \in new |-> <<w.note, w.ord>>]
  <2>1. IsFiniteSet(pairs)
    <3>1. IsFiniteSet(1..LastOrd) BY <1>2, FS_Interval
    <3>2. IsFiniteSet(Notes) BY DEF Ordinary
    <3> QED BY <3>1, <3>2, FS_Product
  <2>2. f \in [new -> pairs] BY <1>3
  <2>3. \A v, w \in new : f[v] = f[w] => v = w BY <1>3
  <2>4. f \in Injection(new, pairs) BY <2>2, <2>3 DEF Injection, IsInjective
  <2> QED BY <2>1, <2>4, FS_Injection
<1>5. IsFiniteSet(CardIds) /\ Cardinality(CardIds) = MaxCards /\ CardIds \in SUBSET Nat
  BY <1>2, FS_Interval DEF CardIds
<1>6. taken \subseteq CardIds BY DEF CardsTyped, ReportTyped, Reported
<1> HIDE DEF taken
<1>7. unused = CardIds \ taken BY DEF taken
<1>8. IsFiniteSet(unused) /\ unused \in SUBSET Nat BY <1>5, <1>7, FS_Difference
<1>9. Cardinality(new) <= Cardinality(unused)
  <2>1. Cardinality(unused) = Cardinality(CardIds) - Cardinality(CardIds \cap taken) BY <1>5, <1>7, FS_Difference
  <2>2. CardIds \cap taken = taken BY <1>6
  <2> QED BY <1>1, <1>5, <2>1, <2>2
<1>10. DOMAIN cs \cap unused = {} OBVIOUS
<1>11. unused = CardIds \ (DOMAIN cards \cup Reported) OBVIOUS
<1> HIDE DEF unused
<1> DEFINE R == AddGenerated(cs, new)
<1>12. PICK m : MadeFrom(R, m, cs, new, unused)
  BY <1>4, <1>8, <1>9, <1>10, <1>11, AddGeneratedFits
<1>13. cards' = R BY <1>1
<1> HIDE DEF R
<1>14. \A c \in DOMAIN R \ DOMAIN cs :
         /\ m[c] \in new /\ R[c].note = m[c].note /\ R[c].ord = m[c].ord /\ R[c] \in Card
  BY <1>3, <1>12 DEF MadeFrom, Card
<1>15. CardsTyped(R)
  <2>1. unused \subseteq CardIds BY <1>7
  <2> QED BY <1>12, <1>14, <2>1 DEF MadeFrom, CardsTyped
<1>16. ASSUME NEW c \in DOMAIN R, NEW d \in DOMAIN R, R[c].note = R[d].note, R[c].ord = R[d].ord PROVE c = d
  <2>1. CASE c \in DOMAIN cs /\ d \in DOMAIN cs BY <1>12, <1>16, <2>1 DEF MadeFrom, Placed
  <2>2. ASSUME NEW x \in DOMAIN cs, NEW y \in DOMAIN R \ DOMAIN cs, R[x].note = R[y].note, R[x].ord = R[y].ord
        PROVE FALSE
    <3>1. cs[x].note = m[y].note /\ cs[x].ord = m[y].ord /\ m[y] \in new BY <1>12, <1>14, <2>2 DEF MadeFrom
    <3>2. m[y].ord \in Ords(cs, m[y].note) BY <3>1 DEF Ords, CardsOf
    <3> QED BY <1>3, <3>1, <3>2
  <2>3. CASE c \notin DOMAIN cs /\ d \notin DOMAIN cs
    <3>1. m[c] \in new /\ m[d] \in new /\ m[c].note = m[d].note /\ m[c].ord = m[d].ord BY <1>14, <1>16, <2>3
    <3>2. m[c] = m[d] BY <1>3, <3>1
    <3> QED BY <1>12, <2>3, <3>2 DEF MadeFrom
  <2> QED BY <1>16, <2>1, <2>2, <2>3
<1>17. ASSUME NEW c \in DOMAIN R
       PROVE table[R[c].note] # NoNote /\ R[c].ord \in OrdsOf(kinds[table[R[c].note].type])
  <2>1. CASE c \in DOMAIN cs BY <1>12, <2>1 DEF MadeFrom, Placed
  <2>2. CASE c \notin DOMAIN cs
    <3>1. m[c] \in new /\ R[c].note = m[c].note /\ R[c].ord = m[c].ord BY <1>14, <2>2
    <3> QED BY <1>3, <3>1
  <2> QED BY <2>1, <2>2
<1>18. ASSUME NEW n \in which PROVE CardsRequired(n, kinds[table[n].type], table[n].fields, Ords(R, n)) = {}
  <2>1. SUFFICES ASSUME NEW w \in CardsRequired(n, kinds[table[n].type], table[n].fields, Ords(R, n)) PROVE FALSE
    OBVIOUS
  <2>2. Ords(cs, n) \subseteq Ords(R, n) BY <1>12 DEF MadeFrom, Ords, CardsOf
  <2>3. /\ w \in CardsRequired(n, kinds[table[n].type], table[n].fields, Ords(cs, n))
        /\ w.note = n /\ w.ord \notin Ords(R, n)
    BY <2>2, RequiredLess
  <2>4. w \in NewCardsRequired(n, kinds[table[n].type], table[n].fields, Ords(cs, n))
    BY <2>3 DEF NewCardsRequired
  <2>5. w \in new BY <2>4 DEF new, NewCards
  <2>6. PICK c \in DOMAIN R \ DOMAIN cs : m[c] = w BY <1>12, <2>5 DEF MadeFrom
  <2>7. R[c].note = n /\ R[c].ord = w.ord BY <1>14, <2>3, <2>6
  <2> QED BY <2>3, <2>6, <2>7 DEF Ords, CardsOf
<1>19. ASSUME NEW n \in Notes \ which PROVE CardsOf(R, n) = CardsOf(cs, n) /\ Ords(R, n) = Ords(cs, n)
  <2>1. \A c \in DOMAIN R \ DOMAIN cs : R[c].note # n BY <1>3, <1>14
  <2>2. CardsOf(R, n) = CardsOf(cs, n) BY <1>12, <2>1 DEF MadeFrom, CardsOf
  <2>3. \A c \in CardsOf(cs, n) : R[c] = cs[c] BY <1>12 DEF MadeFrom, CardsOf
  <2> QED BY <2>2, <2>3 DEF Ords
<1>20. ASSUME NEW n \in which PROVE CardsOf(R, n) # {}
  <2>1. CASE Ords(cs, n) # {} BY <1>12, <2>1 DEF MadeFrom, Ords, CardsOf
  <2>2. CASE Ords(cs, n) = {}
    <3>1. PICK w : w \in NewCardsRequired(n, kinds[table[n].type], table[n].fields, Ords(cs, n))
      BY <2>2 DEF NewCardsRequired
    <3>2. w \in new BY <3>1 DEF new, NewCards
    <3>3. w.note = n BY <3>1, RequiredFits
    <3>4. PICK c \in DOMAIN R \ DOMAIN cs : m[c] = w BY <1>12, <3>2 DEF MadeFrom
    <3> QED BY <1>14, <3>3, <3>4 DEF CardsOf
  <2> QED BY <2>1, <2>2
<1>21. ASSUME NEW c \in DOMAIN R \ DOMAIN cs, NEW n, n = R[c].note
       PROVE c \notin DOMAIN cards /\ CalledFor(n, R[c].ord, kinds[table[n].type], table[n].fields, Ords(R, n))
  <2>1. c \notin DOMAIN cards BY <1>12, <1>21 DEF MadeFrom, unused
  <2>2. m[c] \in new /\ m[c].note = n /\ m[c].ord = R[c].ord /\ n \in which BY <1>3, <1>14, <1>21
  <2>3. m[c] \in NewCardsRequired(n, kinds[table[n].type], table[n].fields, Ords(cs, n))
    <3>1. PICK k \in which : m[c] \in NewCardsRequired(k, kinds[table[k].type], table[k].fields, Ords(cs, k))
      BY <2>2 DEF new, NewCards
    <3>2. m[c].note = k BY <3>1, RequiredFits
    <3> QED BY <2>2, <3>1, <3>2
  <2>4. CASE m[c] \in CardsRequired(n, kinds[table[n].type], table[n].fields, Ords(cs, n))
    <3>1. m[c] \in CardsRequired(n, kinds[table[n].type], table[n].fields, {}) BY <2>4, RequiredLess
    <3> QED BY <2>1, <2>2, <3>1 DEF CalledFor
  <2>5. CASE m[c] \notin CardsRequired(n, kinds[table[n].type], table[n].fields, Ords(cs, n))
    <3>1. /\ Ords(cs, n) = {}
          /\ NewCardsRequired(n, kinds[table[n].type], table[n].fields, Ords(cs, n)) = {[note |-> n, ord |-> 1, number |-> 1]}
      BY <2>3, <2>5 DEF NewCardsRequired
    <3>2. \A d \in CardsOf(R, n) : R[d].ord = 1
      <4>1. SUFFICES ASSUME NEW d \in DOMAIN R, R[d].note = n PROVE R[d].ord = 1 BY DEF CardsOf
      <4>2. d \notin DOMAIN cs BY <1>12, <3>1, <4>1 DEF MadeFrom, Ords, CardsOf
      <4>3. m[d] \in new /\ m[d].note = n /\ m[d].ord = R[d].ord BY <1>14, <4>1, <4>2
      <4>4. PICK k \in which : m[d] \in NewCardsRequired(k, kinds[table[k].type], table[k].fields, Ords(cs, k))
        BY <4>3 DEF new, NewCards
      <4>5. m[d].note = k BY <4>4, RequiredFits
      <4>6. k = n BY <4>3, <4>5
      <4>7. m[d] \in {[note |-> n, ord |-> 1, number |-> 1]} BY <3>1, <4>4, <4>6
      <4>8. m[d].ord = 1 BY <4>7
      <4> QED BY <4>3, <4>8
    <3>3. c \in CardsOf(R, n) BY <1>21 DEF CardsOf
    <3>4. Ords(R, n) = {R[c].ord} BY <3>2, <3>3 DEF Ords
    <3> QED BY <2>1, <3>4 DEF CalledFor
  <2> QED BY <2>4, <2>5
<1>22. \A c \in DOMAIN cs : c \in DOMAIN R /\ R[c] = cs[c] BY <1>12 DEF MadeFrom
<1>23. Filled(cs, table, kinds, which) BY <1>13, <1>18, <1>19, <1>20, <1>21, <1>22 DEF Filled
<1> QED BY <1>13, <1>15, <1>16, <1>17, <1>23 DEF Placed, CardsTyped

(* Taking cards away.                                                          *)
LEMMA WithoutFits ==
  ASSUME NEW cs, CardsTyped(cs), NEW ns, NEW ts, Placed(cs, ns, ts), NEW gone
  PROVE /\ CardsTyped(Without(cs, gone)) /\ Placed(Without(cs, gone), ns, ts)
        /\ DOMAIN Without(cs, gone) = DOMAIN cs \ gone
        /\ \A c \in DOMAIN cs \ gone : Without(cs, gone)[c] = cs[c]
<1>1. /\ DOMAIN Without(cs, gone) = DOMAIN cs \ gone
      /\ \A c \in DOMAIN cs \ gone : Without(cs, gone)[c] = cs[c]
  BY DEF Without
<1>2. CardsTyped(Without(cs, gone)) BY <1>1 DEF CardsTyped
<1>3. Placed(Without(cs, gone), ns, ts) BY <1>1 DEF Placed
<1> QED BY <1>1, <1>2, <1>3

(* Cards that follow their templates: each kept card of a changed note has a   *)
(* place in the new order, and had the ordinal that goes with the place.       *)
Follows(cs, ns, ts, K, table, kinds, ours, had) ==
  /\ DOMAIN K \subseteq DOMAIN cs
  /\ \A c \in DOMAIN K \ ours :
       /\ K[c] = cs[c] /\ table[cs[c].note] = ns[cs[c].note]
       /\ OrdsOf(kinds[ns[cs[c].note].type]) = OrdsOf(ts[ns[cs[c].note].type])
  /\ \A c \in DOMAIN K \cap ours :
       /\ K[c].note = cs[c].note /\ K[c] \in Card /\ had[K[c].ord] = cs[c].ord
       /\ table[cs[c].note] # NoNote
       /\ K[c].ord \in OrdsOf(kinds[table[cs[c].note].type])
  /\ \A c, d \in DOMAIN cs : cs[c].note = cs[d].note => (c \in ours <=> d \in ours)

LEMMA FollowedFits ==
  ASSUME NEW cs, NEW ns, NEW ts, NEW K, NEW table, NEW kinds, NEW ours, NEW had,
         CardsTyped(cs), Placed(cs, ns, ts), Follows(cs, ns, ts, K, table, kinds, ours, had)
  PROVE CardsTyped(K) /\ Placed(K, table, kinds)
<1>1. CardsTyped(K) BY DEF CardsTyped, Follows
<1>2. ASSUME NEW c \in DOMAIN K, NEW d \in DOMAIN K, K[c].note = K[d].note, K[c].ord = K[d].ord PROVE c = d
  <2>1. cs[c].note = cs[d].note BY <1>2 DEF Follows
  <2>2. cs[c].ord = cs[d].ord BY <1>2, <2>1 DEF Follows
  <2> QED BY <2>1, <2>2 DEF Placed, Follows
<1>3. ASSUME NEW c \in DOMAIN K PROVE table[K[c].note] # NoNote /\ K[c].ord \in OrdsOf(kinds[table[K[c].note].type])
  BY <1>3 DEF Placed, Follows
<1> QED BY <1>1, <1>2, <1>3 DEF Placed

(* The notes that saving a type generates cards for, and what comes of it.     *)
NotesGenerated(t, edit, reworded) ==
  IF ShouldGenerate(types[t].templates, types'[t].templates, edit.templates, reworded)
  THEN NotesToGenerate(CardsUpdated(t, edit.templates), t, types'[t]) ELSE {}
Saved(t, edit, reworded) ==
  /\ Filled(CardsUpdated(t, edit.templates), notes', types', NotesGenerated(t, edit, reworded))
  /\ CardsTyped(CardsUpdated(t, edit.templates)) /\ Placed(CardsUpdated(t, edit.templates), notes', types')

(* Saving a note type, whatever its edit, moves the cards with their templates.*)
LEMMA UpdateNotetypeFits ==
  ASSUME Ordinary, CInv, IInv', NEW t \in Types, NEW edit, NEW skip_checks, NEW reworded, NEW unclozed,
         SaveNotetype(t, edit, skip_checks, reworded, unclozed),
         edit.kind = types[t].kind,
         NEW k \in 1..MaxTemplates, DOMAIN edit.templates = 1..k,
         edit.kind = Cloze => \A i \in DOMAIN edit.templates : edit.templates[i].had = i
  PROVE CInv' /\ Saved(t, edit, reworded)
<1> DEFINE old == types[t]
           new == PreparedForUpdate(old, edit, unclozed)
           table == NotesUpdated(t, edit)
           entries == edit.templates
           kept == CardsUpdated(t, entries)
           kinds == [types EXCEPT ![t] = new]
           which == IF ShouldGenerate(old.templates, new.templates, entries, reworded)
                    THEN NotesToGenerate(kept, t, new) ELSE {}
           ours == {c \in DOMAIN cards : cards[c].note \in Of(t)}
           moved(o) == {i \in DOMAIN entries : entries[i].had = o}
           gone == {c \in DOMAIN cards : cards[c].note \in Of(t) /\ cards[c].ord \in DOMAIN old.templates \ Had(old.templates, entries)}
<1>1. /\ types' = kinds /\ notes' = table /\ Generate(kept, table, kinds, which)
      /\ form' = form /\ report' = report
      /\ \/ schema' = schema + 1
         \/ schema' = schema /\ ~TemplatesChanged(old.templates, entries)
  BY DEF SaveNotetype
<1>2. MaxTemplates \in Nat /\ LastOrd \in Nat /\ MaxTemplates <= LastOrd BY BoundsAssumption DEF Ordinary
<1>3. new.kind = old.kind /\ DOMAIN new.templates = 1..k /\ Len(new.templates) = k
  <2> DEFINE F(i) == [id |-> IdOf(old.templates, entries, i, TemplateIds),
                      front |-> FrontAfter(entries[i].front, old.fields, edit.fields, unclozed)]
             Y == {F(i) : i \in 1..k}
             s == [i \in 1..k |-> F(i)]
  <2>1. new.kind = old.kind /\ new.templates = s BY DEF PreparedForUpdate
  <2> HIDE DEF F
  <2>2. s \in [1..k -> Y] OBVIOUS
  <2>3. k \in Nat BY <1>2
  <2>4. s \in Seq(Y) /\ Len(s) = k BY <2>2, <2>3
  <2> QED BY <2>1, <2>4
<1> HIDE DEF new
<1>4. Counted(new) BY <1>3 DEF Counted, CInv, TypesCounted
<1>5. \A u \in Types : kinds[u] = IF u = t THEN new ELSE types[u] BY DEF CInv, IInv, TypesTyped
<1>6. TypesCounted' BY <1>1, <1>3, <1>4, <1>5 DEF CInv, TypesCounted
<1>7. \A n \in Notes : /\ table[n] # NoNote <=> notes[n] # NoNote
                       /\ n \in Of(t) => table[n].type = t
                       /\ n \notin Of(t) => table[n] = notes[n]
  <2>1. table \in [Notes -> Note \cup {NoNote}] BY <1>1 DEF IInv, NotesTyped
  <2>2. CASE OrdsChanged(old.fields, edit.fields)
    <3>1. table = [n \in Notes |-> IF n \in Of(t) THEN [type |-> t, fields |-> Reordered(notes[n].fields, edit.fields)]
                                   ELSE notes[n]]
      BY <2>2 DEF NotesUpdated
    <3>2. \A n \in Of(t) : notes[n] # NoNote /\ n \in Notes BY DEF Of, Exists
    <3>3. \A n \in Of(t) : table[n] # NoNote
      <4>1. SUFFICES ASSUME NEW n \in Of(t) PROVE table[n] # NoNote OBVIOUS
      <4>2. notes[n] \in Note BY <3>2 DEF CInv, IInv, NotesTyped
      <4>3. FieldTexts = FieldTexts OBVIOUS
      <4>4. DOMAIN edit.fields \subseteq Nat
        <5>1. DOMAIN new.fields = DOMAIN edit.fields BY DEF new, PreparedForUpdate
        <5>2. DOMAIN types'[t].fields \subseteq Nat BY DEF IInv, TypesTyped
        <5> QED BY <1>1, <1>5, <5>1, <5>2
      <4>5. Reordered(notes[n].fields, edit.fields) \in FieldTexts BY <4>2, <4>4, ReorderedFits DEF Note
      <4>6. table[n] \in Note BY <3>1, <3>2, <4>5 DEF Note
      <4> QED BY <4>6 DEF Ordinary
    <3> QED BY <3>1, <3>2, <3>3
  <2>3. CASE ~OrdsChanged(old.fields, edit.fields) BY <2>3 DEF NotesUpdated, Of
  <2> QED BY <2>2, <2>3
<1> HIDE DEF table, kinds
<1>8. /\ DOMAIN kept = DOMAIN cards \ gone
      /\ \A c \in DOMAIN kept \ ours : kept[c] = cards[c]
      /\ \A c \in DOMAIN kept \cap ours :
           kept[c] = IF moved(cards[c].ord) # {} THEN [cards[c] EXCEPT !.ord = CHOOSE i \in moved(cards[c].ord) : TRUE] ELSE cards[c]
  BY DEF CardsUpdated
<1> HIDE DEF kept
<1> DEFINE had == [i \in 1..LastOrd |-> IF i \in DOMAIN entries THEN entries[i].had ELSE i]
<1>9. ASSUME NEW c \in DOMAIN kept \cap ours
      PROVE /\ kept[c].note = cards[c].note /\ kept[c] \in Card /\ had[kept[c].ord] = cards[c].ord
            /\ table[cards[c].note] # NoNote
            /\ kept[c].ord \in OrdsOf(kinds[table[cards[c].note].type])
  <2>1. c \in DOMAIN cards \ gone /\ cards[c] \in Card /\ cards[c].note \in Of(t) BY <1>8 DEF CInv, CardsTyped
  <2>2. cards[c].note \in Notes /\ notes[cards[c].note] # NoNote /\ notes[cards[c].note].type = t
    BY <2>1 DEF Of, Exists
  <2>3. table[cards[c].note] # NoNote /\ kinds[table[cards[c].note].type] = new BY <1>5, <1>7, <2>1, <2>2
  <2>4. cards[c].ord \in OrdsOf(old) BY <2>1, <2>2 DEF CInv, Placed
  <2> DEFINE o == cards[c].ord
             j == CHOOSE i \in moved(o) : TRUE
  <2>5. CASE moved(o) # {}
    <3>1. j \in DOMAIN entries /\ entries[j].had = o BY <2>5
    <3> HIDE DEF j
    <3>2. j \in 1..LastOrd BY <1>2, <3>1
    <3>3. kept[c] = [note |-> cards[c].note, ord |-> j] BY <1>8, <2>1, <2>5 DEF Card, j
    <3>4. j \in OrdsOf(new) BY <1>3, <3>1, <3>2 DEF OrdsOf
    <3> QED BY <2>1, <2>3, <3>1, <3>2, <3>3, <3>4 DEF Card
  <2>6. CASE moved(o) = {}
    <3>1. kept[c] = cards[c] BY <1>8, <2>6
    <3>2. o \notin DOMAIN old.templates
      <4>1. SUFFICES ASSUME o \in DOMAIN old.templates PROVE FALSE OBVIOUS
      <4>2. o \in Had(old.templates, entries) BY <2>1, <4>1
      <4> QED BY <2>6, <4>2 DEF Had
    <3>3. old.kind # Normal BY <2>4, <3>2 DEF OrdsOf
    <3>4. old.kind = Cloze BY <3>3 DEF CInv, TypesCounted, Counted
    <3>5. o \in 1..LastOrd BY <2>4, <3>3 DEF OrdsOf
    <3>6. o \notin DOMAIN entries BY <2>6, <3>4
    <3>7. o \in OrdsOf(new) BY <1>3, <3>3, <3>5 DEF OrdsOf
    <3> QED BY <2>1, <2>3, <3>1, <3>5, <3>6, <3>7
  <2> QED BY <2>5, <2>6
<1> HIDE DEF had
<1>10. ASSUME NEW c \in DOMAIN kept \ ours
       PROVE /\ kept[c] = cards[c] /\ table[cards[c].note] = notes[cards[c].note]
             /\ OrdsOf(kinds[notes[cards[c].note].type]) = OrdsOf(types[notes[cards[c].note].type])
  <2>1. c \in DOMAIN cards /\ cards[c].note \notin Of(t) /\ cards[c].note \in Notes /\ notes[cards[c].note] # NoNote
    BY <1>8 DEF CInv, CardsTyped, Card, Placed
  <2>2. notes[cards[c].note].type # t /\ notes[cards[c].note].type \in Types
    BY <2>1 DEF Of, Exists, CInv, IInv, NotesTyped, Note
  <2> QED BY <1>5, <1>7, <1>8, <2>1, <2>2
<1>11. \A c, d \in DOMAIN cards : cards[c].note = cards[d].note => (c \in ours <=> d \in ours) OBVIOUS
<1>12. DOMAIN kept \subseteq DOMAIN cards BY <1>8
<1>13. CardsTyped(cards) /\ Placed(cards, notes, types) /\ ReportTyped BY DEF CInv
<1> HIDE DEF ours
<1>14. CardsTyped(kept) /\ Placed(kept, table, kinds)
  <2>1. Follows(cards, notes, types, kept, table, kinds, ours, had) BY <1>9, <1>10, <1>11, <1>12 DEF Follows
  <2> QED BY <1>13, <2>1, FollowedFits
<1>15. which \subseteq Of(t) BY DEF NotesToGenerate
<1>16. \A n \in which : table[n] # NoNote /\ Counted(kinds[table[n].type]) /\ table[n].fields \in FieldTexts
  <2>1. SUFFICES ASSUME NEW n \in Of(t) PROVE table[n] # NoNote /\ Counted(kinds[table[n].type]) /\ table[n].fields \in FieldTexts
    BY <1>15
  <2>2. n \in Notes /\ notes[n] # NoNote BY DEF Of, Exists
  <2>3. table[n] # NoNote /\ table[n].type = t BY <1>7, <2>2
  <2>4. table[n] \in Note BY <1>1, <2>2, <2>3 DEF IInv, NotesTyped
  <2> QED BY <1>4, <1>5, <2>3, <2>4 DEF Note
<1>17. which \in SUBSET Notes BY <1>15 DEF Of
<1>18. which = NotesGenerated(t, edit, reworded) BY <1>1, <1>5 DEF NotesGenerated, kept
<1> HIDE DEF which
<1>19. CardsTyped(cards)' /\ Placed(cards', table, kinds) /\ Filled(kept, table, kinds, which)
  BY <1>1, <1>12, <1>13, <1>14, <1>16, <1>17, GenerateFits
<1>20. FormFits'
  <2>1. SUFFICES ASSUME form # NoForm, form' = form PROVE FormFits' BY <1>1 DEF FormFits
  <2>2. /\ form.old \in Types /\ form.new \in Types /\ form.notes \subseteq Notes
        /\ form.schema \in Nat /\ form.schema <= schema /\ schema \in Nat
    BY <2>1 DEF CInv, IInv, FormFits, FormTyped
  <2>3. \A n \in Notes : Exists(n)' => Exists(n) /\ notes'[n].type = notes[n].type
    BY <1>1, <1>7 DEF Exists, Of
  <2>4. \A n \in form.notes : Exists(n)' => notes'[n].type = form.old BY <2>1, <2>2, <2>3 DEF CInv, FormFits
  <2>5. ASSUME form.schema = schema' PROVE LaidOut(form.templates, types'[form.old], types'[form.new])
    <3>1. form.schema = schema /\ Had(old.templates, entries) = DOMAIN old.templates
      BY <1>1, <2>2, <2>5 DEF TemplatesChanged
    <3>2. LaidOut(form.templates, types[form.old], types[form.new]) BY <2>1, <3>1 DEF CInv, FormFits
    <3>3. DOMAIN old.templates \subseteq DOMAIN entries
      <4>1. \A i \in DOMAIN entries : entries[i].had = i BY <1>1, <2>2, <2>5 DEF TemplatesChanged
      <4> QED BY <3>1, <4>1 DEF Had
    <3>4. \A u \in Types : /\ types'[u].kind = types[u].kind
                           /\ Len(types[u].templates) \in Nat /\ Len(types'[u].templates) \in Nat
                           /\ DOMAIN types[u].templates \subseteq DOMAIN types'[u].templates
                           /\ Len(types[u].templates) <= Len(types'[u].templates)
      <4>1. SUFFICES ASSUME NEW u \in Types, u = t
            PROVE /\ Len(old.templates) \in Nat /\ k \in Nat /\ Len(old.templates) <= k
                  /\ DOMAIN old.templates \subseteq 1..k
        BY <1>1, <1>2, <1>3, <1>5 DEF CInv, TypesCounted, Counted
      <4>2. Len(old.templates) \in 1..MaxTemplates /\ DOMAIN old.templates = 1..Len(old.templates)
        BY DEF CInv, TypesCounted, Counted
      <4>3. Len(old.templates) \in 1..k BY <3>3, <4>2
      <4> QED BY <1>2, <3>3, <4>2, <4>3
    <3>5. /\ Len(types[form.old].templates) \in Nat /\ Len(types'[form.old].templates) \in Nat
          /\ Len(types[form.old].templates) <= Len(types'[form.old].templates)
          /\ DOMAIN types[form.new].templates \subseteq DOMAIN types'[form.new].templates
          /\ types'[form.old].kind = types[form.old].kind /\ types'[form.new].kind = types[form.new].kind
      BY <2>2, <3>4
    <3>6. \A i \in DOMAIN form.templates : form.templates[i] \in 0..Len(types'[form.old].templates)
      <4>1. \A i \in DOMAIN form.templates : form.templates[i] \in 0..Len(types[form.old].templates) BY <3>2 DEF LaidOut
      <4> QED BY <3>5, <4>1
    <3> QED BY <3>2, <3>5, <3>6 DEF LaidOut
  <2> QED BY <1>1, <2>1, <2>2, <2>4, <2>5 DEF FormFits
<1>21. Saved(t, edit, reworded) BY <1>1, <1>14, <1>19, <1>18 DEF Saved, kept
<1> QED BY <1>1, <1>6, <1>19, <1>20, <1>21 DEF CInv, ReportTyped

LEMMA InitPlaces == Ordinary /\ Init => CInv
<1>1. SUFFICES ASSUME Ordinary, Init PROVE CInv OBVIOUS
<1>2. \A nt \in Notetype : TemplatesFit(nt) => Counted(nt)
  <2>1. SUFFICES ASSUME NEW nt \in Notetype, TemplatesFit(nt) PROVE Counted(nt) OBVIOUS
  <2>2. nt.templates \in Seq(Template) /\ nt.kind \in {Normal, Cloze} BY <2>1 DEF Notetype
  <2>3. DOMAIN nt.templates = 1..Len(nt.templates) BY <2>2
  <2> QED BY <2>1, <2>2, <2>3 DEF Counted, TemplatesFit
<1>3. \A t \in Types : Originals[t] \in Notetype BY TypesAssumption
<1>4. TypesCounted BY <1>1, <1>2, <1>3 DEF Init, TypesCounted, Ordinary
<1>5. DOMAIN cards = {} BY <1>1 DEF Init
<1>6. CardsTyped(cards) /\ Placed(cards, notes, types) BY <1>5 DEF CardsTyped, Placed
<1>7. ReportTyped BY <1>1 DEF Init, ReportTyped, NoReport
<1>8. FormFits /\ schema \in Nat BY <1>1 DEF Init, FormFits
<1> QED BY <1>1, <1>4, <1>6, <1>7, <1>8, InitFits DEF CInv

(* Steps that change no type: what is left to show is how the cards are placed.*)
LEMMA FrameFits ==
  ASSUME CInv, IInv', types' = types, ReportTyped', CardsTyped(cards)', Placed(cards', notes', types),
         schema' \in {schema, schema + 1},
         \/ form' = NoForm
         \/ /\ form' = form
            /\ \A n \in Notes : n \in form.notes /\ Exists(n)' => Exists(n) /\ notes'[n].type = notes[n].type
  PROVE CInv'
<1>1. TypesCounted' BY DEF CInv, TypesCounted
<1>2. schema' \in Nat BY DEF CInv
<1>3. FormFits' BY DEF CInv, FormFits
<1> QED BY <1>1, <1>2, <1>3 DEF CInv

LEMMA ExistingNote ==
  ASSUME IInv, NEW n \in Notes, Exists(n)
  PROVE notes[n] \in Note /\ notes[n].type \in Types /\ notes[n].fields \in FieldTexts
  BY DEF IInv, NotesTyped, Exists, Note

LEMMA AddNoteFits ==
  ASSUME Ordinary, CInv, IInv', NEW n \in Notes, NEW t \in Types, AddNote(n, t)
  PROVE CInv' /\ Filled(cards, notes', types, {n})
<1>1. PICK text \in [DOMAIN types[t].fields -> Texts] :
        /\ ~Exists(n) /\ (form # NoForm => n \notin form.notes)
        /\ notes' = [notes EXCEPT ![n] = [type |-> t, fields |-> text]]
        /\ Generate(cards, [notes EXCEPT ![n] = [type |-> t, fields |-> text]], types, {n})
        /\ UNCHANGED <<types, schema, form, report>>
  BY DEF AddNote
<1> DEFINE table == [notes EXCEPT ![n] = [type |-> t, fields |-> text]]
<1>2. text \in FieldTexts BY DEF CInv, IInv, TypesTyped, FieldTexts
<1>3. table[n] = [type |-> t, fields |-> text] /\ \A m \in Notes \ {n} : table[m] = notes[m] BY DEF CInv, IInv, NotesTyped
<1> HIDE DEF table
<1>4. table[n] \in Note BY <1>2, <1>3 DEF Note
<1>5. table[n] # NoNote BY <1>4 DEF Ordinary
<1>6. CardsTyped(cards) /\ ReportTyped /\ Placed(cards, notes, types) BY DEF CInv
<1>7. Placed(cards, table, types)
  <2>1. \A c \in DOMAIN cards : table[cards[c].note] = notes[cards[c].note]
    BY <1>1, <1>3, <1>6 DEF Placed, CardsTyped, Card, Exists
  <2> QED BY <1>6, <2>1 DEF Placed
<1>8. \A m \in {n} : table[m] # NoNote /\ Counted(types[table[m].type]) /\ table[m].fields \in FieldTexts
  BY <1>2, <1>3, <1>5 DEF CInv, TypesCounted
<1>9. CardsTyped(cards)' /\ Placed(cards', table, types) /\ Filled(cards, table, types, {n})
  BY <1>1, <1>6, <1>7, <1>8, GenerateFits DEF table
<1>10. ReportTyped' /\ notes' = table BY <1>1 DEF CInv, ReportTyped, table
<1>11. form # NoForm => \A m \in Notes : m \in form.notes /\ Exists(m)' => Exists(m) /\ notes'[m].type = notes[m].type
  BY <1>1, <1>3, <1>10 DEF Exists
<1> QED BY <1>1, <1>9, <1>10, <1>11, FrameFits

LEMMA UpdateNoteFits ==
  ASSUME Ordinary, CInv, IInv', NEW n \in Notes, UpdateNote(n)
  PROVE CInv' /\ Filled(cards, notes', types, {n})
<1>1. /\ Exists(n) /\ Generate(cards, notes', types, {n}) /\ UNCHANGED <<types, schema, form, report>>
      /\ \E i \in DOMAIN notes[n].fields, x \in Texts : notes' = [notes EXCEPT ![n].fields[i] = x]
  BY DEF UpdateNote
<1>2. /\ \A m \in Notes \ {n} : notes'[m] = notes[m]
      /\ notes'[n].type = notes[n].type
  <2>1. notes[n] \in Note BY <1>1, ExistingNote DEF CInv
  <2>2. PICK i \in DOMAIN notes[n].fields, x \in Texts : notes' = [notes EXCEPT ![n].fields[i] = x] BY <1>1
  <2> QED BY <2>1, <2>2 DEF CInv, IInv, NotesTyped, Note
<1>3. notes'[n] # NoNote
  <2>1. PICK i \in DOMAIN notes[n].fields, x \in Texts : notes' = [notes EXCEPT ![n].fields[i] = x] BY <1>1
  <2> DEFINE text == [notes[n].fields EXCEPT ![i] = x]
  <2>2. notes[n] \in Note BY <1>1, ExistingNote DEF CInv
  <2>3. PICK D \in SUBSET Nat : notes[n].fields \in [D -> Texts] BY <2>2 DEF Note, FieldTexts
  <2>4. text \in FieldTexts BY <2>3 DEF FieldTexts
  <2> HIDE DEF text
  <2>5. notes'[n] = [type |-> notes[n].type, fields |-> text] BY <2>1, <2>2 DEF text, CInv, IInv, NotesTyped, Note
  <2>6. notes'[n] \in Note BY <2>2, <2>4, <2>5 DEF Note
  <2> QED BY <2>6 DEF Ordinary
<1>4. CardsTyped(cards) /\ ReportTyped /\ Placed(cards, notes, types) BY DEF CInv
<1>5. Placed(cards, notes', types)
  <2>1. \A c \in DOMAIN cards : notes'[cards[c].note] # NoNote /\ notes'[cards[c].note].type = notes[cards[c].note].type
    BY <1>2, <1>3, <1>4 DEF Placed, CardsTyped, Card
  <2> QED BY <1>4, <2>1 DEF Placed
<1>6. \A m \in {n} : notes'[m] # NoNote /\ Counted(types[notes'[m].type]) /\ notes'[m].fields \in FieldTexts
  <2>1. notes'[n] \in Note BY <1>3 DEF IInv, NotesTyped
  <2>2. notes'[n].type \in Types /\ notes'[n].fields \in FieldTexts BY <2>1 DEF Note
  <2> QED BY <1>3, <2>2 DEF CInv, TypesCounted
<1>7. CardsTyped(cards)' /\ Placed(cards', notes', types) /\ Filled(cards, notes', types, {n})
  <2> DEFINE table == notes'
             which == {n}
  <2>1. which \in SUBSET Notes OBVIOUS
  <2>2. /\ \A m \in which : table[m] # NoNote /\ Counted(types[table[m].type]) /\ table[m].fields \in FieldTexts
        /\ Generate(cards, table, types, which) /\ Placed(cards, table, types)
    BY <1>1, <1>5, <1>6
  <2> HIDE DEF table, which
  <2>3. CardsTyped(cards)' /\ Placed(cards', table, types) /\ Filled(cards, table, types, which)
    BY <1>4, <2>1, <2>2, GenerateFits
  <2> QED BY <2>3 DEF table, which
<1>8. ReportTyped' BY <1>1 DEF CInv, ReportTyped
<1>9. \A m \in Notes : Exists(m)' => Exists(m) /\ notes'[m].type = notes[m].type BY <1>1, <1>2 DEF Exists
<1> QED BY <1>1, <1>7, <1>8, <1>9, FrameFits

LEMMA RemoveNoteFits ==
  ASSUME Ordinary, CInv, IInv', NEW n \in Notes, RemoveNote(n) PROVE CInv'
<1>1. /\ cards' = Without(cards, CardsOf(cards, n)) /\ UNCHANGED <<types, schema, form, report>>
      /\ notes'[n] = NoNote /\ \A m \in Notes \ {n} : notes'[m] = notes[m]
  BY DEF RemoveNote, CInv, IInv, NotesTyped
<1>2. CardsTyped(cards) /\ Placed(cards, notes, types) BY DEF CInv
<1>3. /\ CardsTyped(cards') /\ Placed(cards', notes, types)
      /\ DOMAIN cards' = DOMAIN cards \ CardsOf(cards, n)
      /\ \A c \in DOMAIN cards' : cards'[c] = cards[c]
  BY <1>1, <1>2, WithoutFits
<1>4. \A c \in DOMAIN cards' : notes'[cards'[c].note] = notes[cards'[c].note]
  BY <1>1, <1>3 DEF CardsOf, CardsTyped, Card
<1>5. Placed(cards', notes', types) BY <1>3, <1>4 DEF Placed
<1>6. ReportTyped' BY <1>1 DEF CInv, ReportTyped
<1>7. \A m \in Notes : Exists(m)' => Exists(m) /\ notes'[m].type = notes[m].type BY <1>1 DEF Exists
<1>8. CardsTyped(cards)' BY <1>3 DEF CardsTyped
<1> QED BY <1>1, <1>5, <1>6, <1>7, <1>8, FrameFits

(* The edits of a note type keep its kind and number its card types; those of  *)
(* a cloze type stay where they are.                                           *)
LEMMA EditsFit ==
  ASSUME Ordinary, CInv, IInv', NEW t \in Types,
         EditFields(t) \/ EditTemplates(t) \/ Restore(t)
  PROVE CInv'
<1>1. DOMAIN SameTemplates(types[t]) = 1..Len(types[t].templates) /\ Len(types[t].templates) \in 1..MaxTemplates
  BY DEF SameTemplates, CInv, TypesCounted, Counted
<1>2. CASE EditFields(t)
  <2>1. PICK entries \in FieldEdits(types[t].fields) :
          UpdateNotetype(t, [kind |-> types[t].kind, fields |-> entries, templates |-> SameTemplates(types[t])], TRUE, FALSE)
    BY <1>2 DEF EditFields
  <2> DEFINE edit == [kind |-> types[t].kind, fields |-> entries, templates |-> SameTemplates(types[t])]
  <2>2. edit.kind = types[t].kind /\ DOMAIN edit.templates = 1..Len(types[t].templates)
        /\ \A i \in DOMAIN edit.templates : edit.templates[i].had = i
    BY <1>1 DEF SameTemplates
  <2>3. PICK unclozed : SaveNotetype(t, edit, TRUE, FALSE, unclozed) BY <2>1 DEF UpdateNotetype
  <2> HIDE DEF edit
  <2> QED BY <1>1, <2>2, <2>3, UpdateNotetypeFits
<1>3. CASE EditTemplates(t)
  <2>1. PICK entries \in TemplateEdits(types[t].templates, NamesOf(types[t].fields)), reworded \in BOOLEAN :
          /\ types[t].kind = Cloze => ~OrdsChanged(types[t].templates, entries)
          /\ UpdateNotetype(t, [kind |-> types[t].kind, fields |-> SameFields(types[t]), templates |-> entries], FALSE, reworded)
    BY <1>3 DEF EditTemplates
  <2>2. PICK k \in 1..MaxTemplates : DOMAIN entries = 1..k
    <3>1. PICK k \in 1..MaxTemplates :
            entries \in [1..k -> [front : {front \in Fronts : front \subseteq NamesOf(types[t].fields)}, had : 0..Len(types[t].templates)]]
      BY <2>1 DEF TemplateEdits
    <3> QED BY <3>1
  <2> DEFINE edit == [kind |-> types[t].kind, fields |-> SameFields(types[t]), templates |-> entries]
  <2>3. edit.kind = types[t].kind /\ edit.templates = entries OBVIOUS
  <2>5. PICK unclozed : SaveNotetype(t, edit, FALSE, reworded, unclozed) BY <2>1 DEF UpdateNotetype
  <2> HIDE DEF edit
  <2>4. edit.kind = Cloze => \A i \in DOMAIN edit.templates : edit.templates[i].had = i
    BY <2>1, <2>3 DEF OrdsChanged
  <2> QED BY <2>2, <2>3, <2>4, <2>5, UpdateNotetypeFits
<1>4. CASE Restore(t)
  <2>1. PICK stock \in Stocks[t], reworded \in BOOLEAN :
          UpdateNotetype(t, [kind |-> stock.kind, fields |-> SameFields(stock), templates |-> SameTemplates(stock)], FALSE, reworded)
    BY <1>4 DEF Restore
  <2>2. stock.templates \in Seq(Template)
    <3>1. stock \in Notetype BY TypesAssumption
    <3> QED BY <3>1 DEF Notetype
  <2>3. stock.kind = types[t].kind /\ Len(stock.templates) \in 1..MaxTemplates
    BY DEF Ordinary, TemplatesFit, CInv, TypesCounted
  <2> DEFINE edit == [kind |-> stock.kind, fields |-> SameFields(stock), templates |-> SameTemplates(stock)]
  <2>4. edit.kind = types[t].kind /\ DOMAIN edit.templates = 1..Len(stock.templates)
        /\ \A i \in DOMAIN edit.templates : edit.templates[i].had = i
    BY <2>2, <2>3 DEF SameTemplates
  <2>5. PICK unclozed : SaveNotetype(t, edit, FALSE, reworded, unclozed) BY <2>1 DEF UpdateNotetype
  <2> HIDE DEF edit
  <2> QED BY <2>3, <2>4, <2>5, UpdateNotetypeFits
<1> QED BY <1>2, <1>3, <1>4

LEMMA OpenChangeFits ==
  ASSUME CInv, IInv', NEW t \in Types, NEW u \in Types, OpenChange(t, u) PROVE CInv'
<1>1. /\ UNCHANGED <<types, notes, cards, schema, report>>
      /\ form'.old = t /\ form'.new = u /\ form'.schema = schema /\ form'.notes \subseteq Of(t)
      /\ form'.templates \in TemplateMaps(types[t], types[u])
  <2>1. PICK ns \in (SUBSET Of(t)) \ {{}}, fields \in Layouts \cap [DOMAIN types[u].fields -> 0..Len(types[t].fields)],
             templates \in TemplateMaps(types[t], types[u]) :
          form' = [schema |-> schema, notes |-> ns, old |-> t, new |-> u, fields |-> fields, templates |-> templates,
                   wish |-> WishOf(ns, types[t], types[u], u, fields, templates)]
    BY DEF OpenChange
  <2>2. UNCHANGED <<types, notes, cards, schema, report>> BY DEF OpenChange
  <2> QED BY <2>1, <2>2
<1>2. LaidOut(form'.templates, types[t], types[u])
  <2>1. TemplateMaps(types[t], types[u]) = {<<>>} \/ DOMAIN form'.templates = DOMAIN types[u].templates
    BY <1>1 DEF TemplateMaps
  <2> QED BY <1>1, <2>1 DEF TemplateMaps, LaidOut
<1>3. FormFits' BY <1>1, <1>2 DEF FormFits, CInv, Of, Exists
<1> QED BY <1>1, <1>3 DEF CInv, TypesCounted, ReportTyped, CardsTyped, Placed

(* The cards of notes that change type keep an ordinal that the new type has:  *)
(* those laid out for removal, or past the new type's last, are gone.          *)
LEMMA RemappedFits ==
  ASSUME Ordinary, CInv, form # NoForm, form.schema = schema, form.new \in Types,
         NEW table, \A n \in Notes \ form.notes : table[n] = notes[n],
         \A n \in form.notes : Exists(n) /\ table[n] # NoNote /\ table[n].type = form.new
  PROVE /\ CardsTyped(CardsRemapped) /\ Placed(CardsRemapped, table, types)
        /\ DOMAIN CardsRemapped \subseteq DOMAIN cards
<1> DEFINE ours == {c \in DOMAIN cards : cards[c].note \in form.notes}
           old == types[form.old]
           new == types[form.new]
           m == form.templates
           K == CardsRemapped
           taken(o) == {i \in DOMAIN m : m[i] = o}
           unmapped == {o \in DOMAIN old.templates : taken(o) = {}}
           all == 1..LastOrd
           same == [i \in all |-> i]
<1>1. /\ form.old \in Types /\ form.notes \subseteq Notes /\ LaidOut(m, old, new)
      /\ \A n \in form.notes : notes[n].type = form.old
      /\ CardsTyped(cards) /\ Placed(cards, notes, types) /\ Counted(old) /\ Counted(new)
  BY DEF CInv, FormFits, TypesCounted
<1>2. \A c \in ours : cards[c] \in Card /\ cards[c].ord \in OrdsOf(old) BY <1>1 DEF CardsTyped, Placed
<1>3. \A c \in DOMAIN cards \ ours : table[cards[c].note] = notes[cards[c].note]
  BY <1>1 DEF CardsTyped, Card
<1>4. \A c \in ours : table[cards[c].note] # NoNote /\ types[table[cards[c].note].type] = new OBVIOUS
<1>5. \A c, d \in DOMAIN cards : cards[c].note = cards[d].note => (c \in ours <=> d \in ours) OBVIOUS
<1>6. MaxTemplates \in Nat /\ LastOrd \in Nat /\ MaxTemplates <= LastOrd BY BoundsAssumption DEF Ordinary
<1>7. OrdsOf(new) \subseteq all BY <1>1, <1>6 DEF OrdsOf, Counted
<1>8. ASSUME DOMAIN K \subseteq DOMAIN cards,
             \A c \in DOMAIN K : K[c] = cards[c], \A c \in DOMAIN K \cap ours : cards[c].ord \in OrdsOf(new)
      PROVE Follows(cards, notes, types, K, table, types, ours, same)
  <2>1. \A c \in DOMAIN K \cap ours : K[c] = cards[c] /\ same[K[c].ord] = cards[c].ord /\ K[c] \in Card BY <1>2, <1>8 DEF Card
  <2> HIDE DEF same, ours, K
  <2> QED BY <1>3, <1>4, <1>5, <1>8, <2>1 DEF Follows
<1>9. CASE m = <<>> /\ new.kind = Normal
  <2>1. K = Without(cards, {c \in ours : cards[c].ord > Len(new.templates)}) BY <1>9 DEF CardsRemapped
  <2>2. /\ DOMAIN K = DOMAIN cards \ {c \in ours : cards[c].ord > Len(new.templates)}
        /\ \A c \in DOMAIN K : K[c] = cards[c]
    BY <2>1 DEF Without
  <2>3. \A c \in DOMAIN K \cap ours : cards[c].ord \in OrdsOf(new) BY <1>1, <1>2, <1>9, <2>2 DEF OrdsOf, Counted, Card
  <2>4. DOMAIN K \subseteq DOMAIN cards BY <2>2
  <2> QED BY <1>1, <1>8, <2>2, <2>3, <2>4, FollowedFits
<1>10. CASE m = <<>> /\ new.kind # Normal
  <2>1. K = cards BY <1>10 DEF CardsRemapped
  <2>2. \A c \in ours : cards[c].ord \in OrdsOf(new) BY <1>2, <1>10 DEF OrdsOf, Card
  <2>3. DOMAIN K \subseteq DOMAIN cards /\ \A c \in DOMAIN K : K[c] = cards[c] BY <2>1
  <2> QED BY <1>1, <1>8, <2>2, <2>3, FollowedFits
<1>11. CASE m # <<>>
  <2>1. Cloze \notin {old.kind, new.kind} /\ DOMAIN m \subseteq DOMAIN new.templates BY <1>1, <1>11 DEF LaidOut
  <2>2. old.kind = Normal /\ new.kind = Normal BY <1>1, <2>1 DEF Counted
  <2>3. /\ DOMAIN K = DOMAIN cards \ {c \in ours : cards[c].ord \in unmapped}
        /\ \A c \in DOMAIN K \ ours : K[c] = cards[c]
        /\ \A c \in DOMAIN K \cap ours :
             taken(cards[c].ord) # {} => K[c] = [cards[c] EXCEPT !.ord = CHOOSE i \in taken(cards[c].ord) : TRUE]
    BY <1>11 DEF CardsRemapped
  <2>4. ASSUME NEW c \in DOMAIN K \cap ours
        PROVE /\ K[c].note = cards[c].note /\ K[c] \in Card /\ m[K[c].ord] = cards[c].ord /\ K[c].ord \in OrdsOf(new)
    <3> DEFINE o == cards[c].ord
               j == CHOOSE i \in taken(o) : TRUE
    <3>1. o \in DOMAIN old.templates BY <1>2, <2>2 DEF OrdsOf
    <3>2. o \notin unmapped BY <2>3
    <3>3. taken(o) # {} BY <3>1, <3>2
    <3>4. j \in DOMAIN m /\ m[j] = o BY <3>3
    <3>5. K[c] = [cards[c] EXCEPT !.ord = j] BY <2>3, <3>3
    <3> HIDE DEF j
    <3>6. j \in OrdsOf(new) BY <2>1, <2>2, <3>4 DEF OrdsOf
    <3>7. cards[c] = [note |-> cards[c].note, ord |-> o] /\ cards[c].note \in Notes BY <1>2 DEF Card
    <3>8. K[c] = [note |-> cards[c].note, ord |-> j] BY <3>5, <3>7
    <3>9. j \in all BY <1>7, <3>6
    <3> QED BY <3>4, <3>6, <3>7, <3>8, <3>9 DEF Card
  <2>5. DOMAIN K \subseteq DOMAIN cards BY <2>3
  <2>6. \A c \in DOMAIN K \ ours : K[c] = cards[c] BY <2>3
  <2> HIDE DEF K, ours
  <2>7. Follows(cards, notes, types, K, table, types, ours, m) BY <1>3, <1>4, <1>5, <2>4, <2>5, <2>6 DEF Follows
  <2> QED BY <1>1, <2>5, <2>7, FollowedFits DEF K
<1> QED BY <1>9, <1>10, <1>11

LEMMA ChangeNotetypeFits ==
  ASSUME Ordinary, CInv, IInv', ChangeNotetype
  PROVE CInv' /\ Filled(CardsRemapped, notes', types, form.notes)
<1> DEFINE table == [n \in Notes |-> IF n \in form.notes
                                     THEN [type |-> form.new, fields |-> FieldsRemapped(notes[n].fields)]
                                     ELSE notes[n]]
           which == form.notes
<1>1. /\ form # NoForm /\ form.schema = schema /\ \A n \in form.notes : Exists(n)
      /\ notes' = table /\ Generate(CardsRemapped, table, types, form.notes)
      /\ schema' = schema + 1 /\ form' = NoForm /\ UNCHANGED <<types, report>>
  BY DEF ChangeNotetype, SchemaIsCurrent
<1>2. form.new \in Types /\ form.notes \in SUBSET Notes BY <1>1 DEF CInv, IInv, FormTyped, FormFits
<1>3. \A n \in Notes \ form.notes : table[n] = notes[n] OBVIOUS
<1>4. \A n \in form.notes : table[n] # NoNote /\ table[n].type = form.new /\ table[n].fields \in FieldTexts
  <2>1. SUFFICES ASSUME NEW n \in form.notes
        PROVE table[n] # NoNote /\ table[n].type = form.new /\ table[n].fields \in FieldTexts
    OBVIOUS
  <2>2. table[n] = [type |-> form.new, fields |-> FieldsRemapped(notes[n].fields)] BY <1>2
  <2>3. notes[n] \in Note BY <1>1, <1>2, ExistingNote DEF CInv
  <2>4. \A i \in DOMAIN notes[n].fields : notes[n].fields[i] \in Texts BY <2>3 DEF Note, FieldTexts
  <2>5. FieldsRemapped(notes[n].fields) \in [DOMAIN form.fields -> Texts] BY <2>4, TextsAssumption DEF FieldsRemapped
  <2>6. DOMAIN form.fields \subseteq Nat BY <1>2 DEF ChangeNotetype, CInv, IInv, TypesTyped
  <2>7. FieldsRemapped(notes[n].fields) \in FieldTexts BY <2>5, <2>6 DEF FieldTexts
  <2>8. table[n] \in Note BY <1>2, <2>2, <2>7 DEF Note
  <2> QED BY <2>2, <2>7, <2>8 DEF Ordinary
<1> HIDE DEF table
<1>5. /\ CardsTyped(CardsRemapped) /\ Placed(CardsRemapped, table, types) /\ DOMAIN CardsRemapped \subseteq DOMAIN cards
  BY <1>1, <1>2, <1>3, <1>4, RemappedFits
<1>6. CardsTyped(cards) /\ ReportTyped BY DEF CInv
<1>7. \A n \in which : table[n] # NoNote /\ Counted(types[table[n].type]) /\ table[n].fields \in FieldTexts
  BY <1>2, <1>4 DEF CInv, TypesCounted
<1>8. which \in SUBSET Notes /\ Generate(CardsRemapped, table, types, which) BY <1>1, <1>2
<1> HIDE DEF which
<1>9. CardsTyped(cards)' /\ Placed(cards', table, types) /\ Filled(CardsRemapped, table, types, which)
  BY <1>5, <1>6, <1>7, <1>8, GenerateFits
<1>10. Filled(CardsRemapped, notes', types, form.notes) BY <1>1, <1>9 DEF which
<1>11. ReportTyped' BY <1>1 DEF CInv, ReportTyped
<1>12. Placed(cards', notes', types) BY <1>1, <1>9
<1> QED BY <1>1, <1>9, <1>11, <1>12, <1>10, FrameFits

LEMMA DeleteEmptyFits == ASSUME CInv, IInv', NEW keep, DeleteEmpty(keep) PROVE CInv'
<1> DEFINE gone == (UNION {ToDelete(n, keep) : n \in Notes}) \cap DOMAIN cards
           left == Without(cards, gone)
<1>1. /\ cards' = left /\ report' = NoReport /\ UNCHANGED <<types, schema, form>>
      /\ notes' = [n \in Notes |-> IF (\E c \in gone : cards[c].note = n) /\ CardsOf(left, n) = {} THEN NoNote ELSE notes[n]]
  BY DEF DeleteEmpty
<1>2. CardsTyped(cards) /\ Placed(cards, notes, types) BY DEF CInv
<1> HIDE DEF gone
<1>3. CardsTyped(left) /\ Placed(left, notes, types) BY <1>2, WithoutFits
<1> HIDE DEF left
<1>4. \A c \in DOMAIN left : left[c].note \in Notes /\ CardsOf(left, left[c].note) # {} BY <1>3 DEF CardsTyped, Card, CardsOf
<1>5. \A c \in DOMAIN left : notes'[left[c].note] = notes[left[c].note] BY <1>1, <1>4
<1>6. Placed(left, notes', types) BY <1>3, <1>5 DEF Placed
<1>7. CardsTyped(cards)' /\ Placed(cards', notes', types) BY <1>1, <1>3, <1>6 DEF CardsTyped
<1>8. ReportTyped' BY <1>1 DEF ReportTyped, NoReport
<1>9. \A n \in Notes : Exists(n)' => Exists(n) /\ notes'[n].type = notes[n].type BY <1>1 DEF Exists
<1> QED BY <1>1, <1>7, <1>8, <1>9, FrameFits

LEMMA CheckDatabaseFits ==
  ASSUME Ordinary, CInv, IInv', CheckDatabase
  PROVE CInv' /\ Filled(Without(cards, Duplicates \cup WithoutTemplate), notes, types, {n \in Notes : Exists(n)})
<1> DEFINE gone == Duplicates \cup WithoutTemplate
           left == Without(cards, gone)
           all == {n \in Notes : Exists(n)}
<1>1. /\ Generate(left, notes, types, all) /\ schema' \in {schema, schema + 1}
      /\ UNCHANGED <<types, notes, form, report>>
  BY DEF CheckDatabase
<1>2. CardsTyped(cards) /\ Placed(cards, notes, types) /\ ReportTyped BY DEF CInv
<1> HIDE DEF gone
<1>3. CardsTyped(left) /\ Placed(left, notes, types) /\ DOMAIN left \subseteq DOMAIN cards
  <2>1. CardsTyped(left) /\ Placed(left, notes, types) /\ DOMAIN left = DOMAIN cards \ gone BY <1>2, WithoutFits
  <2> QED BY <2>1
<1>4. \A n \in all : notes[n] # NoNote /\ Counted(types[notes[n].type]) /\ notes[n].fields \in FieldTexts
  BY ExistingNote DEF Exists, CInv, TypesCounted
<1>5. all \in SUBSET Notes OBVIOUS
<1> HIDE DEF left, all
<1>6. CardsTyped(cards)' /\ Placed(cards', notes, types) /\ Filled(left, notes, types, all)
  BY <1>1, <1>2, <1>3, <1>4, <1>5, GenerateFits
<1>7. ReportTyped' /\ Placed(cards', notes', types) BY <1>1, <1>6 DEF CInv, ReportTyped
<1>8. \A n \in Notes : Exists(n)' => Exists(n) /\ notes'[n].type = notes[n].type BY <1>1 DEF Exists
<1>9. Filled(Without(cards, Duplicates \cup WithoutTemplate), notes, types, {n \in Notes : Exists(n)})
  BY <1>6 DEF left, all, gone
<1> QED BY <1>1, <1>6, <1>7, <1>8, <1>9, FrameFits

LEMMA ReportFits == ASSUME CInv, IInv', FindEmpty PROVE CInv'
<1> DEFINE F(n) == LET empty == IF Exists(n) THEN EmptyCards(n) ELSE {}
                   IN  [empty |-> empty, all |-> empty # {} /\ empty = CardsOf(cards, n)]
<1>1. report' = [n \in Notes |-> F(n)] /\ UNCHANGED <<types, notes, cards, schema, form>> BY DEF FindEmpty
<1>2. ASSUME NEW n \in Notes PROVE F(n) \in [empty : SUBSET CardIds, all : BOOLEAN]
  <2>1. EmptyCards(n) \subseteq CardIds BY DEF EmptyCards, CardsOf, CInv, CardsTyped
  <2> DEFINE empty == IF Exists(n) THEN EmptyCards(n) ELSE {}
  <2>2. empty \in SUBSET CardIds BY <2>1
  <2> HIDE DEF empty
  <2>3. [empty |-> empty, all |-> empty # {} /\ empty = CardsOf(cards, n)] \in [empty : SUBSET CardIds, all : BOOLEAN]
    BY <2>2
  <2> QED BY <2>3 DEF empty
<1> HIDE DEF F
<1>3. ReportTyped' BY <1>1, <1>2 DEF ReportTyped
<1>4. CardsTyped(cards)' /\ Placed(cards', notes', types) BY <1>1 DEF CInv, CardsTyped
<1>5. \A n \in Notes : Exists(n)' => Exists(n) /\ notes'[n].type = notes[n].type BY <1>1 DEF Exists
<1> QED BY <1>1, <1>3, <1>4, <1>5, FrameFits

LEMMA StepPlaces == Ordinary /\ CInv /\ [Next]_vars => CInv'
<1>1. SUFFICES ASSUME Ordinary, CInv, [Next]_vars PROVE CInv' OBVIOUS
<1>2. IInv' BY <1>1, StepFits DEF CInv
<1>3. ASSUME NEW n \in Notes, NEW t \in Types, AddNote(n, t) PROVE CInv' BY <1>1, <1>2, <1>3, AddNoteFits
<1>4. ASSUME NEW n \in Notes, UpdateNote(n) \/ RemoveNote(n) PROVE CInv'
  BY <1>1, <1>2, <1>4, UpdateNoteFits, RemoveNoteFits
<1>5. ASSUME NEW t \in Types, EditFields(t) \/ EditTemplates(t) \/ Restore(t) PROVE CInv'
  BY <1>1, <1>2, <1>5, EditsFit
<1>7. ASSUME NEW t \in Types, NEW u \in Types, OpenChange(t, u) PROVE CInv' BY <1>1, <1>2, <1>7, OpenChangeFits
<1>8. CASE ChangeNotetype BY <1>1, <1>2, <1>8, ChangeNotetypeFits
<1>9. CASE FindEmpty BY <1>1, <1>2, <1>9, ReportFits
<1>10. ASSUME NEW keep \in BOOLEAN, DeleteEmpty(keep) PROVE CInv' BY <1>1, <1>2, <1>10, DeleteEmptyFits
<1>11. CASE CheckDatabase BY <1>1, <1>2, <1>11, CheckDatabaseFits
<1>12. CASE CloseChange \/ CloseReport \/ UNCHANGED vars
  <2>1. /\ types' = types /\ notes' = notes /\ cards' = cards /\ schema' = schema
        /\ (form' = form \/ form' = NoForm) /\ (report' = report \/ report' = NoReport)
    BY <1>12 DEF CloseChange, CloseReport, vars
  <2>2. ReportTyped'
    <3>1. NoReport \in [Notes -> [empty : SUBSET CardIds, all : BOOLEAN]] BY DEF NoReport
    <3> QED BY <1>1, <2>1, <3>1 DEF CInv, ReportTyped
  <2>3. CardsTyped(cards)' /\ Placed(cards', notes', types) BY <1>1, <2>1 DEF CInv, CardsTyped
  <2>4. \A n \in Notes : Exists(n)' => Exists(n) /\ notes'[n].type = notes[n].type BY <2>1 DEF Exists
  <2> QED BY <1>1, <1>2, <2>1, <2>2, <2>3, <2>4, FrameFits
<1> QED BY <1>1, <1>3, <1>4, <1>5, <1>7, <1>8, <1>9, <1>10, <1>11, <1>12, EditedAssumption DEF Next

(* Every card is always a note's, with an ordinal that no other card of the    *)
(* note has and that its type has a template for: through edits and restores   *)
(* of types, changes of type, and deletions of cards long since reported.      *)
THEOREM CardsAlwaysFit ==
  ASSUME Ordinary
  PROVE Spec => []CardsFit
<1>1. Init => CInv BY InitPlaces
<1>2. CInv /\ [Next]_vars => CInv' BY StepPlaces
<1>3. CInv => CardsFit BY PlacedIsFit DEF CInv
<1> QED BY <1>1, <1>2, <1>3, PTL DEF Spec

---------------------------------------------------------------------------
(* A note that has every card it calls for has them after any edit.            *)

(* What the theorem supposes besides: fields and card types can be told apart  *)
(* at first, stock types have no more fields than a type may have, and a field *)
(* that is empty has no clozes.                                                *)
Apart(entries, max) ==
  /\ Len(entries) \in 0..max /\ DOMAIN entries = 1..Len(entries)
  /\ \A i \in DOMAIN entries : entries[i].id \in 1..(max + 1)
  /\ \A i, j \in DOMAIN entries : entries[i].id = entries[j].id => i = j
ToldApart(nt) == Apart(nt.fields, MaxFields) /\ Apart(nt.templates, MaxTemplates)

Identified ==
  /\ \A t \in Types : ToldApart(Originals[t])
  /\ \A t \in Types : \A stock \in Stocks[t] : Len(stock.fields) <= MaxFields
  /\ Clozes[NoText] = {}

DInv == CInv /\ \A t \in Types : ToldApart(types[t])

(* What an edit lists: each field or card type once, and as many new ones as   *)
(* there is room for.                                                          *)
Proper(old, entries, max) ==
  /\ \E k \in 0..max : DOMAIN entries = 1..k
  /\ \A i, j \in DOMAIN entries : entries[i].had = entries[j].had => i = j
  /\ \A i \in DOMAIN entries : entries[i].had \in 0..Len(old) \/ entries[i].had = i
  /\ Cardinality(Added(old, entries)) + Len(old) <= max + 1

LEMMA FoundById ==
  ASSUME NEW entries, NEW max, Apart(entries, max), NEW i \in DOMAIN entries
  PROVE (CHOOSE j \in DOMAIN entries : entries[j].id = entries[i].id) = i
  BY DEF Apart

LEMMA LenOfList ==
  ASSUME NEW k \in Nat, NEW s, s = [i \in 1..k |-> s[i]]
  PROVE Len(s) = k
<1> DEFINE Y == {s[i] : i \in 1..k}
<1>1. s \in [1..k -> Y] OBVIOUS
<1> HIDE DEF Y
<1>2. s \in Seq(Y) BY <1>1
<1> QED BY <1>1, <1>2

Upto(A, i) == {j \in A : j <= i}

(* Counting up to a member of a set: from one to as many as there are, and the *)
(* more the later.                                                             *)
LEMMA RankFits ==
  ASSUME NEW A \in SUBSET Nat, IsFiniteSet(A), NEW i \in A
  PROVE /\ Cardinality(Upto(A, i)) \in 1..Cardinality(A)
        /\ \A j \in A : i < j => Cardinality(Upto(A, i)) < Cardinality(Upto(A, j))
<1>1. Cardinality(A) \in Nat BY FS_CardinalityType
<1>2. \A j \in A : IsFiniteSet(Upto(A, j)) /\ Cardinality(Upto(A, j)) \in Nat /\ Cardinality(Upto(A, j)) <= Cardinality(A)
  <2>1. SUFFICES ASSUME NEW j \in A
        PROVE IsFiniteSet(Upto(A, j)) /\ Cardinality(Upto(A, j)) \in Nat /\ Cardinality(Upto(A, j)) <= Cardinality(A)
    OBVIOUS
  <2>2. Upto(A, j) \subseteq A BY DEF Upto
  <2> QED BY <2>2, FS_Subset, FS_CardinalityType
<1>3. Cardinality(Upto(A, i)) # 0
  <2>1. i \in Upto(A, i) BY DEF Upto
  <2> QED BY <1>2, <2>1, FS_EmptySet
<1>4. ASSUME NEW j \in A, i < j PROVE Cardinality(Upto(A, i)) < Cardinality(Upto(A, j))
  <2> \A x \in A : x \in Nat OBVIOUS
  <2>1. Upto(A, i) \subseteq Upto(A, j)
    <3>1. SUFFICES ASSUME NEW x \in A, x <= i PROVE x <= j BY DEF Upto
    <3> QED BY <1>4, <3>1
  <2>2. j \in Upto(A, j) /\ j \notin Upto(A, i) BY <1>4 DEF Upto
  <2>3. Upto(A, i) # Upto(A, j) BY <2>2
  <2>4. Cardinality(Upto(A, i)) <= Cardinality(Upto(A, j))
        /\ (Cardinality(Upto(A, i)) = Cardinality(Upto(A, j)) => Upto(A, i) = Upto(A, j))
    BY <1>2, <2>1, FS_Subset
  <2> QED BY <1>2, <2>3, <2>4
<1> QED BY <1>1, <1>2, <1>3, <1>4

(* What was there keeps its id, and what is new has one that nothing had.      *)
Carried(old, entries, new) ==
  /\ DOMAIN new = DOMAIN entries
  /\ \A i \in DOMAIN entries : entries[i].had \in DOMAIN old => new[i].id = old[entries[i].had].id
  /\ \A i \in DOMAIN entries : entries[i].had \notin DOMAIN old => \A j \in DOMAIN old : new[i].id # old[j].id

(* New fields and card types get ids of their own.                             *)
LEMMA IdsFit ==
  ASSUME NEW max \in Nat, NEW old, Apart(old, max), NEW entries, Proper(old, entries, max),
         NEW new, new = [i \in DOMAIN entries |-> new[i]],
         \A i \in DOMAIN entries : new[i].id = IdOf(old, entries, i, 1..(max + 1))
  PROVE Apart(new, max) /\ Carried(old, entries, new)
<1> DEFINE ids == 1..(max + 1)
           taken == {old[j].id : j \in DOMAIN old}
           free == ids \ taken
           added == Added(old, entries)
           rank(i) == Cardinality(Upto(added, i))
<1>1. PICK k \in 0..max : DOMAIN entries = 1..k BY DEF Proper
<1>2. DOMAIN new = 1..k /\ Len(new) = k
  <2>1. new = [i \in 1..k |-> new[i]] BY <1>1
  <2>2. k \in Nat BY <1>1
  <2> QED BY <2>1, <2>2, LenOfList
<1>3. Len(old) \in Nat /\ DOMAIN old = 1..Len(old) BY DEF Apart
<1>4. IsFiniteSet(taken) /\ Cardinality(taken) <= Len(old) /\ Cardinality(taken) \in Nat
  <2>1. IsFiniteSet(DOMAIN old) /\ Cardinality(DOMAIN old) = Len(old)
    <3>1. PICK n \in Nat : n = Len(old) BY <1>3
    <3>2. IsFiniteSet(1..n) /\ Cardinality(1..n) = n BY FS_Interval
    <3> QED BY <1>3, <3>1, <3>2
  <2> DEFINE f == [j \in DOMAIN old |-> old[j].id]
  <2>2. f \in Surjection(DOMAIN old, taken) BY DEF Surjection
  <2> QED BY <2>1, <2>2, FS_Surjection, FS_CardinalityType
<1>5. IsFiniteSet(ids) /\ Cardinality(ids) = max + 1
  <2>1. PICK n \in Nat : n = max + 1 OBVIOUS
  <2>2. IsFiniteSet(1..n) /\ Cardinality(1..n) = n BY FS_Interval
  <2> QED BY <2>1, <2>2
<1>6. taken \subseteq ids BY DEF Apart
<1>7. IsFiniteSet(free) /\ Cardinality(free) = (max + 1) - Cardinality(taken)
  <2>1. IsFiniteSet(free) /\ Cardinality(free) = Cardinality(ids) - Cardinality(ids \cap taken) BY <1>5, FS_Difference
  <2>2. ids \cap taken = taken BY <1>6
  <2> QED BY <1>5, <2>1, <2>2
<1>8. added \in SUBSET Nat /\ IsFiniteSet(added) /\ Cardinality(added) \in Nat
  <2>1. added \subseteq 1..k BY <1>1 DEF Added
  <2>2. IsFiniteSet(1..k) BY <1>1, FS_Interval
  <2> QED BY <2>1, <2>2, FS_Subset, FS_CardinalityType
<1>9. Cardinality(added) <= Cardinality(free) BY <1>3, <1>4, <1>7, <1>8 DEF Proper
<1>10. \A i \in added : new[i].id = Nth(free, rank(i)) BY DEF IdOf, Upto, Added
<1>11. \A i \in DOMAIN entries : i \notin added => entries[i].had \in DOMAIN old /\ new[i].id = old[entries[i].had].id
  BY DEF IdOf, Added
<1>12. added \subseteq DOMAIN entries BY DEF Added
<1>13. free \in SUBSET Nat /\ Cardinality(free) \in Nat /\ free \subseteq ids /\ \A x \in free : x \notin taken
  BY <1>7, FS_CardinalityType
<1>14. \A j \in DOMAIN old : old[j].id \in taken OBVIOUS
<1>19. \A i \in DOMAIN entries : i \in added <=> entries[i].had \notin DOMAIN old BY DEF Added
<1> HIDE DEF added, free, taken
<1>15. \A i \in added : rank(i) \in 1..Cardinality(added) /\ \A j \in added : i < j => rank(i) < rank(j)
  BY <1>8, RankFits
<1> HIDE DEF rank
<1>16. \A i \in added : new[i].id \in free /\ Cardinality(Below(free, new[i].id)) = rank(i) - 1
  <2>1. SUFFICES ASSUME NEW i \in added
        PROVE new[i].id \in free /\ Cardinality(Below(free, new[i].id)) = rank(i) - 1
    OBVIOUS
  <2>2. PICK r \in 1..Cardinality(free) : r = rank(i) BY <1>8, <1>9, <1>13, <1>15
  <2>3. Nth(free, r) \in free /\ Cardinality(Below(free, Nth(free, r))) = r - 1 BY <1>7, <1>13, NthFits
  <2> QED BY <1>10, <2>2, <2>3
<1>17. \A i \in DOMAIN entries : new[i].id \in ids BY <1>6, <1>11, <1>13, <1>14, <1>16
<1>18. ASSUME NEW i \in DOMAIN entries, NEW j \in DOMAIN entries, new[i].id = new[j].id PROVE i = j
  <2>1. CASE i \in added /\ j \in added
    <3>1. rank(i) = rank(j) /\ rank(i) \in Nat /\ rank(j) \in Nat
      <4>1. rank(i) \in Nat /\ rank(j) \in Nat BY <1>8, <1>15, <2>1
      <4>2. rank(i) - 1 = rank(j) - 1 BY <1>16, <1>18, <2>1
      <4> QED BY <4>1, <4>2
    <3>2. i \in Nat /\ j \in Nat BY <1>8, <2>1
    <3> QED BY <1>15, <2>1, <3>1, <3>2
  <2>2. CASE i \notin added /\ j \notin added
    <3>1. old[entries[i].had].id = old[entries[j].had].id /\ entries[i].had \in DOMAIN old /\ entries[j].had \in DOMAIN old
      BY <1>11, <1>18, <2>2
    <3>2. entries[i].had = entries[j].had BY <3>1 DEF Apart
    <3> QED BY <3>2 DEF Proper
  <2>3. CASE i \in added /\ j \notin added BY <1>11, <1>13, <1>14, <1>16, <1>18, <2>3
  <2>4. CASE i \notin added /\ j \in added BY <1>11, <1>13, <1>14, <1>16, <1>18, <2>4
  <2> QED BY <2>1, <2>2, <2>3, <2>4
<1>20. Carried(old, entries, new) BY <1>1, <1>2, <1>11, <1>13, <1>14, <1>16, <1>19 DEF Carried
<1> QED BY <1>1, <1>2, <1>17, <1>18, <1>20 DEF Apart

(* The edits the dialogs make and the restores are proper: a dialog adds one   *)
(* at a time, and a stock type has the nth where the type had it.              *)
LEMMA OneAddedIsProper ==
  ASSUME NEW max \in Nat, NEW old, Apart(old, max), NEW k \in 0..max, NEW entries, DOMAIN entries = 1..k,
         \A i, j \in DOMAIN entries : entries[i].had = entries[j].had => i = j,
         \A i \in DOMAIN entries : entries[i].had \in 0..Len(old)
  PROVE Proper(old, entries, max)
<1> DEFINE added == Added(old, entries)
<1>1. Len(old) \in 0..max /\ DOMAIN old = 1..Len(old) BY DEF Apart
<1>2. \A i, j \in added : i = j
  <2>1. SUFFICES ASSUME NEW i \in added, NEW j \in added PROVE i = j OBVIOUS
  <2>2. \A x \in 0..Len(old) : x \notin 1..Len(old) => x = 0 BY <1>1
  <2>3. entries[i].had = 0 /\ entries[j].had = 0 BY <1>1, <2>2 DEF Added
  <2> QED BY <2>3 DEF Added
<1> HIDE DEF added
<1>3. Cardinality(added) \in {0, 1}
  <2>1. CASE added = {} BY <2>1, FS_EmptySet
  <2>2. ASSUME NEW i \in added PROVE Cardinality(added) = 1
    <3>1. added = {i} BY <1>2, <2>2
    <3> QED BY <3>1, FS_Singleton
  <2> QED BY <2>1, <2>2
<1>4. Cardinality(added) + Len(old) <= max + 1 BY <1>1, <1>3
<1> QED BY <1>4 DEF Proper, added

LEMMA InPlaceIsProper ==
  ASSUME NEW max \in Nat, NEW old, Apart(old, max), NEW k \in 0..max, NEW entries, DOMAIN entries = 1..k,
         \A i \in DOMAIN entries : entries[i].had = i
  PROVE Proper(old, entries, max)
<1> DEFINE added == Added(old, entries)
<1>1. PICK n \in 0..max : n = Len(old) /\ DOMAIN old = 1..n
  <2>1. Len(old) \in 0..max /\ DOMAIN old = 1..Len(old) BY DEF Apart
  <2> QED BY <2>1
<1>2. added = (n + 1)..k
  <2>1. \A i \in 1..k : i \in added <=> i \notin 1..n BY <1>1 DEF Added
  <2>2. added \subseteq 1..k BY DEF Added
  <2> HIDE DEF added
  <2>3. \A i \in 1..k : i \notin 1..n <=> i \in (n + 1)..k BY <1>1
  <2>4. (n + 1)..k \subseteq 1..k BY <1>1
  <2> QED BY <2>1, <2>2, <2>3, <2>4
<1>3. Cardinality(added) + n <= max + 1
  <2>1. PICK a \in Int : a = n + 1 BY <1>1
  <2>2. k \in Int OBVIOUS
  <2>3. Cardinality(a..k) = IF a > k THEN 0 ELSE k - a + 1 BY <2>2, FS_Interval
  <2>4. Cardinality(added) = IF a > k THEN 0 ELSE k - a + 1 BY <1>2, <2>1, <2>3
  <2> QED BY <1>1, <2>1, <2>4
<1> QED BY <1>1, <1>3 DEF Proper, added

(* An edit of a type: its kind stays, and a cloze type's card type where it is.*)
IsEdit(t, edit) ==
  /\ edit.kind = types[t].kind
  /\ Proper(types[t].fields, edit.fields, MaxFields)
  /\ Proper(types[t].templates, edit.templates, MaxTemplates)
  /\ \E k \in 1..MaxTemplates : DOMAIN edit.templates = 1..k
  /\ edit.kind = Cloze => \A i \in DOMAIN edit.templates : edit.templates[i].had = i

(* Which edit it is.                                                           *)
HowEdited(t, edit, skip_checks) ==
  \/ /\ EditFields(t) /\ edit.templates = SameTemplates(types[t]) /\ 1 \in DOMAIN edit.fields
     /\ \A i, j \in DOMAIN edit.fields : edit.fields[i].name = edit.fields[j].name => i = j
  \/ /\ EditTemplates(t) /\ edit.fields = SameFields(types[t]) /\ ~skip_checks
     /\ types[t].kind = Cloze => DOMAIN edit.templates = DOMAIN types[t].templates
  \/ /\ Restore(t) /\ ~skip_checks
     /\ \E stock \in Stocks[t] : edit.fields = SameFields(stock) /\ edit.templates = SameTemplates(stock)

LEMMA EditsAreProper ==
  ASSUME Ordinary, Identified, DInv, NEW t \in Types,
         EditFields(t) \/ EditTemplates(t) \/ Restore(t)
  PROVE \E edit, skip_checks, reworded : \E unclozed \in Unclozed(types[t], edit) :
          SaveNotetype(t, edit, skip_checks, reworded, unclozed) /\ IsEdit(t, edit) /\ HowEdited(t, edit, skip_checks)
<1> DEFINE old == types[t]
<1>1. /\ MaxFields \in Nat /\ MaxTemplates \in Nat
      /\ Apart(old.fields, MaxFields) /\ Apart(old.templates, MaxTemplates)
      /\ Len(old.templates) \in 1..MaxTemplates /\ DOMAIN old.templates = 1..Len(old.templates)
      /\ Len(old.fields) \in 0..MaxFields /\ DOMAIN old.fields = 1..Len(old.fields)
  BY BoundsAssumption DEF DInv, ToldApart, Apart, CInv, TypesCounted, Counted
<1>2. Proper(old.fields, SameFields(old), MaxFields)
  <2>1. DOMAIN SameFields(old) = 1..Len(old.fields) /\ \A i \in DOMAIN SameFields(old) : SameFields(old)[i].had = i
    BY <1>1 DEF SameFields
  <2> QED BY <1>1, <2>1, InPlaceIsProper
<1>3. /\ Proper(old.templates, SameTemplates(old), MaxTemplates) /\ DOMAIN SameTemplates(old) = 1..Len(old.templates)
      /\ \A i \in DOMAIN SameTemplates(old) : SameTemplates(old)[i].had = i
  <2>1. DOMAIN SameTemplates(old) = 1..Len(old.templates) /\ \A i \in DOMAIN SameTemplates(old) : SameTemplates(old)[i].had = i
    BY <1>1 DEF SameTemplates
  <2>2. Len(old.templates) \in 0..MaxTemplates BY <1>1
  <2> QED BY <1>1, <2>1, <2>2, InPlaceIsProper
<1>4. CASE EditFields(t)
  <2>1. PICK entries \in FieldEdits(old.fields) :
          UpdateNotetype(t, [kind |-> old.kind, fields |-> entries, templates |-> SameTemplates(old)], TRUE, FALSE)
    BY <1>4 DEF EditFields
  <2>2. PICK k \in 1..MaxFields : entries \in [1..k -> [name : Names, had : 0..Len(old.fields)]] BY <2>1 DEF FieldEdits
  <2>3. k \in 0..MaxFields /\ DOMAIN entries = 1..k /\ \A i \in DOMAIN entries : entries[i].had \in 0..Len(old.fields)
    BY <1>1, <2>2
  <2>4. \A i, j \in DOMAIN entries : entries[i].had = entries[j].had => i = j BY <2>1 DEF FieldEdits, Distinct
  <2>5. Proper(old.fields, entries, MaxFields) BY <1>1, <2>3, <2>4, OneAddedIsProper
  <2> DEFINE edit == [kind |-> old.kind, fields |-> entries, templates |-> SameTemplates(old)]
  <2>6. edit.kind = old.kind /\ edit.fields = entries /\ edit.templates = SameTemplates(old)
        /\ UpdateNotetype(t, edit, TRUE, FALSE)
    BY <2>1
  <2> HIDE DEF edit
  <2>7. IsEdit(t, edit) BY <1>1, <1>3, <2>5, <2>6 DEF IsEdit
  <2>8. 1 \in DOMAIN entries BY <2>2
  <2>9. \A i, j \in DOMAIN entries : entries[i].name = entries[j].name => i = j BY <2>1 DEF FieldEdits, Distinct
  <2>10. HowEdited(t, edit, TRUE) BY <1>4, <2>6, <2>8, <2>9 DEF HowEdited
  <2> QED BY <2>6, <2>7, <2>10 DEF UpdateNotetype
<1>5. CASE EditTemplates(t)
  <2>1. PICK entries \in TemplateEdits(old.templates, NamesOf(old.fields)), reworded \in BOOLEAN :
          /\ old.kind = Cloze => ~OrdsChanged(old.templates, entries)
          /\ UpdateNotetype(t, [kind |-> old.kind, fields |-> SameFields(old), templates |-> entries], FALSE, reworded)
    BY <1>5 DEF EditTemplates
  <2>2. PICK k \in 1..MaxTemplates :
          entries \in [1..k -> [front : {front \in Fronts : front \subseteq NamesOf(old.fields)}, had : 0..Len(old.templates)]]
    BY <2>1 DEF TemplateEdits
  <2>3. k \in 0..MaxTemplates /\ DOMAIN entries = 1..k /\ \A i \in DOMAIN entries : entries[i].had \in 0..Len(old.templates)
    BY <1>1, <2>2
  <2>4. \A i, j \in DOMAIN entries : entries[i].had = entries[j].had => i = j BY <2>1 DEF TemplateEdits, Distinct
  <2>5. Proper(old.templates, entries, MaxTemplates) BY <1>1, <2>3, <2>4, OneAddedIsProper
  <2> DEFINE edit == [kind |-> old.kind, fields |-> SameFields(old), templates |-> entries]
  <2>6. edit.kind = old.kind /\ edit.fields = SameFields(old) /\ edit.templates = entries
        /\ UpdateNotetype(t, edit, FALSE, reworded)
    BY <2>1
  <2> HIDE DEF edit
  <2>7. old.kind = Cloze => DOMAIN entries = DOMAIN old.templates /\ \A i \in DOMAIN entries : entries[i].had = i
    BY <2>1 DEF OrdsChanged
  <2>8. IsEdit(t, edit) BY <1>2, <2>3, <2>5, <2>6, <2>7 DEF IsEdit
  <2>9. HowEdited(t, edit, FALSE) BY <1>5, <2>6, <2>7 DEF HowEdited
  <2> QED BY <2>6, <2>8, <2>9 DEF UpdateNotetype
<1>6. CASE Restore(t)
  <2>1. PICK stock \in Stocks[t], reworded \in BOOLEAN :
          UpdateNotetype(t, [kind |-> stock.kind, fields |-> SameFields(stock), templates |-> SameTemplates(stock)], FALSE, reworded)
    BY <1>6 DEF Restore
  <2>2. stock.fields \in Seq(Field) /\ stock.templates \in Seq(Template)
    <3>1. stock \in Notetype BY TypesAssumption
    <3> QED BY <3>1 DEF Notetype
  <2>3. stock.kind = old.kind /\ Len(stock.templates) \in 1..MaxTemplates /\ Len(stock.fields) <= MaxFields
    BY DEF Ordinary, TemplatesFit, DInv, CInv, TypesCounted, Identified
  <2>4. PICK k \in 0..MaxFields : k = Len(stock.fields) BY <1>1, <2>2, <2>3
  <2>5. PICK l \in 1..MaxTemplates : l = Len(stock.templates) BY <2>3
  <2>6. DOMAIN SameFields(stock) = 1..k /\ \A i \in DOMAIN SameFields(stock) : SameFields(stock)[i].had = i
    BY <2>2, <2>4 DEF SameFields
  <2>7. DOMAIN SameTemplates(stock) = 1..l /\ \A i \in DOMAIN SameTemplates(stock) : SameTemplates(stock)[i].had = i
    BY <2>2, <2>5 DEF SameTemplates
  <2>8. Proper(old.fields, SameFields(stock), MaxFields) BY <1>1, <2>4, <2>6, InPlaceIsProper
  <2>9. Proper(old.templates, SameTemplates(stock), MaxTemplates)
    <3>1. l \in 0..MaxTemplates BY <1>1, <2>5
    <3> QED BY <1>1, <2>7, <3>1, InPlaceIsProper
  <2> DEFINE edit == [kind |-> stock.kind, fields |-> SameFields(stock), templates |-> SameTemplates(stock)]
  <2>10. edit.kind = old.kind /\ edit.fields = SameFields(stock) /\ edit.templates = SameTemplates(stock)
         /\ UpdateNotetype(t, edit, FALSE, reworded)
    BY <2>1, <2>3
  <2> HIDE DEF edit
  <2>11. IsEdit(t, edit) BY <2>7, <2>8, <2>9, <2>10 DEF IsEdit
  <2>12. HowEdited(t, edit, FALSE) BY <1>6, <2>1, <2>10 DEF HowEdited
  <2> QED BY <2>10, <2>11, <2>12 DEF UpdateNotetype
<1> QED BY <1>4, <1>5, <1>6

(* Fields and card types can always be told apart.                             *)
LEMMA StaysApart ==
  ASSUME DInv, NEW t \in Types, NEW edit, NEW skip_checks, NEW reworded, NEW unclozed,
         SaveNotetype(t, edit, skip_checks, reworded, unclozed), IsEdit(t, edit)
  PROVE /\ \A u \in Types : ToldApart(types'[u])
        /\ Carried(types[t].fields, edit.fields, types'[t].fields)
        /\ Carried(types[t].templates, edit.templates, types'[t].templates)
<1> DEFINE old == types[t]
           new == PreparedForUpdate(old, edit, unclozed)
<1>1. types' = [types EXCEPT ![t] = new] BY DEF SaveNotetype
<1>2. \A u \in Types : types'[u] = IF u = t THEN new ELSE types[u] BY <1>1 DEF DInv, CInv, IInv, TypesTyped
<1>3. MaxFields \in Nat /\ MaxTemplates \in Nat BY BoundsAssumption
<1>4. Apart(old.fields, MaxFields) /\ Apart(old.templates, MaxTemplates) BY DEF DInv, ToldApart
<1>5. Apart(new.fields, MaxFields) /\ Carried(old.fields, edit.fields, new.fields)
  <2>1. /\ new.fields = [i \in DOMAIN edit.fields |-> new.fields[i]]
        /\ \A i \in DOMAIN edit.fields : new.fields[i].id = IdOf(old.fields, edit.fields, i, 1..(MaxFields + 1))
    BY DEF PreparedForUpdate, FieldIds
  <2> QED BY <1>3, <1>4, <2>1, IdsFit DEF IsEdit
<1>6. Apart(new.templates, MaxTemplates) /\ Carried(old.templates, edit.templates, new.templates)
  <2>1. /\ new.templates = [i \in DOMAIN edit.templates |-> new.templates[i]]
        /\ \A i \in DOMAIN edit.templates : new.templates[i].id = IdOf(old.templates, edit.templates, i, 1..(MaxTemplates + 1))
    BY DEF PreparedForUpdate, TemplateIds
  <2> QED BY <1>3, <1>4, <2>1, IdsFit DEF IsEdit
<1> QED BY <1>2, <1>5, <1>6 DEF DInv, ToldApart

(* A note whose texts are the ones it had, of fields that the same fronts      *)
(* show, calls for no card that it did not call for.                           *)
LEMMA NoMoreRequired ==
  ASSUME Identified, NEW n, NEW old, NEW new, ToldApart(old), new.kind = old.kind,
         DOMAIN new.templates \subseteq DOMAIN old.templates,
         \A i \in DOMAIN new.templates :
           new.templates[i].front = old.templates[i].front /\ FrontIds(new, i) = FrontIds(old, i),
         NEW text, NEW after, DOMAIN text = DOMAIN old.fields, DOMAIN after = DOMAIN new.fields,
         \A j \in DOMAIN after :
           after[j] # NoText => \E l \in DOMAIN text : after[j] = text[l] /\ new.fields[j].id = old.fields[l].id,
         NEW have, CardsRequired(n, old, text, have) = {}
  PROVE CardsRequired(n, new, after, have) = {}
<1>1. ASSUME NEW i \in DOMAIN new.templates, Renders(new.templates[i], new, after)
      PROVE i \in DOMAIN old.templates /\ Renders(old.templates[i], old, text)
  <2>1. PICK j \in DOMAIN after : after[j] # NoText /\ new.fields[j].name \in new.templates[i].front BY <1>1 DEF Renders
  <2>2. PICK l \in DOMAIN text : after[j] = text[l] /\ new.fields[j].id = old.fields[l].id BY <2>1
  <2>3. new.fields[j].id \in FrontIds(old, i)
    <3>1. new.fields[j].id \in FrontIds(new, i) BY <2>1 DEF FrontIds
    <3> QED BY <1>1, <3>1
  <2>4. PICK m \in DOMAIN old.fields : old.fields[m].name \in old.templates[i].front /\ old.fields[m].id = new.fields[j].id
    BY <2>3 DEF FrontIds
  <2>5. m = l BY <2>2, <2>4 DEF ToldApart, Apart
  <2> QED BY <1>1, <2>1, <2>2, <2>4, <2>5 DEF Renders
<1>2. ClozesIn(after) \subseteq ClozesIn(text)
  <2>1. SUFFICES ASSUME NEW j \in DOMAIN after, NEW k \in Clozes[after[j]] PROVE k \in ClozesIn(text)
    BY DEF ClozesIn
  <2>2. after[j] # NoText BY DEF Identified
  <2>3. PICK l \in DOMAIN text : after[j] = text[l] BY <2>2
  <2> QED BY <2>3 DEF ClozesIn
<1>3. CASE new.kind = Normal
  <2>1. SUFFICES ASSUME NEW i \in DOMAIN new.templates \ have, Renders(new.templates[i], new, after) PROVE FALSE
    BY <1>3 DEF CardsRequired
  <2>2. i \in DOMAIN old.templates \ have /\ Renders(old.templates[i], old, text) BY <1>1, <2>1
  <2>3. [note |-> n, ord |-> i, number |-> i] \in CardsRequired(n, old, text, have) BY <1>3, <2>2 DEF CardsRequired
  <2> QED BY <2>3
<1>4. CASE new.kind # Normal
  <2>1. SUFFICES ASSUME NEW w \in CardsRequired(n, new, after, have) PROVE FALSE OBVIOUS
  <2>2. PICK k \in ClozesIn(after) : w = [note |-> n, ord |-> Least(k, LastOrd), number |-> k] /\ w.ord \notin have
    BY <1>4, <2>1 DEF CardsRequired
  <2>3. k \in ClozesIn(text) BY <1>2, <2>2
  <2>4. w \in CardsRequired(n, old, text, have) BY <1>4, <2>2, <2>3 DEF CardsRequired
  <2> QED BY <2>4
<1> QED BY <1>3, <1>4

(* A note with as many cards as its type has templates has one for each.       *)
LEMMA AllThere ==
  ASSUME NEW cs, CardsTyped(cs), NEW ns, NEW ts, Placed(cs, ns, ts), NEW n, NEW text, NEW nt, nt = ts[ns[n].type],
         Counted(nt), nt.kind = Normal, Cardinality(CardsOf(cs, n)) = Len(nt.templates)
  PROVE CardsRequired(n, nt, text, Ords(cs, n)) = {}
<1> DEFINE S == CardsOf(cs, n)
           f == [c \in S |-> cs[c].ord]
<1>1. PICK k \in Nat : k = Len(nt.templates) /\ DOMAIN nt.templates = 1..k BY DEF Counted
<1>2. \A c \in S : cs[c].ord \in 1..k
  <2>1. \A c \in S : c \in DOMAIN cs /\ cs[c].note = n BY DEF CardsOf
  <2>2. \A c \in S : cs[c].ord \in OrdsOf(nt) BY <2>1 DEF Placed
  <2> QED BY <1>1, <2>2 DEF OrdsOf
<1>3. \A c, d \in S : f[c] = f[d] => c = d BY DEF Placed, CardsOf
<1>4. f \in Injection(S, 1..k)
  <2>1. f \in [S -> 1..k] BY <1>2
  <2> QED BY <1>3, <2>1 DEF Injection, IsInjective
<1>5. IsFiniteSet(1..k) /\ Cardinality(1..k) = k BY FS_Interval
<1>6. Cardinality(S) = k BY <1>1
<1> HIDE DEF S
<1>7. f \in Surjection(S, 1..k) BY <1>4, <1>5, <1>6, FS_Injection
<1>8. \A i \in 1..k : \E c \in S : cs[c].ord = i BY <1>7 DEF Surjection
<1>9. \A i \in DOMAIN nt.templates : i \in Ords(cs, n) BY <1>1, <1>8 DEF Ords, S
<1> QED BY <1>9 DEF CardsRequired

(* Where each template stays where it was, so do the cards.                    *)
LEMMA CardsStay ==
  ASSUME CInv, NEW t \in Types, NEW entries, DOMAIN entries = DOMAIN types[t].templates,
         \A i \in DOMAIN entries : entries[i].had = i, NEW n
  PROVE Ords(CardsUpdated(t, entries), n) = Ords(cards, n)
<1> DEFINE kept == CardsUpdated(t, entries)
           ours(c) == cards[c].note \in Of(t)
           gone == {c \in DOMAIN cards : ours(c) /\ cards[c].ord \in DOMAIN types[t].templates \ Had(types[t].templates, entries)}
           moved(o) == {i \in DOMAIN entries : entries[i].had = o}
<1>1. kept = [c \in DOMAIN cards \ gone |->
                IF ours(c) /\ moved(cards[c].ord) # {}
                THEN [cards[c] EXCEPT !.ord = CHOOSE i \in moved(@) : TRUE] ELSE cards[c]]
  BY DEF CardsUpdated
<1>2. gone = {} BY DEF Had
<1>3. \A c \in DOMAIN cards : cards[c] \in Card BY DEF CInv, CardsTyped
<1>4. ASSUME NEW c \in DOMAIN cards, moved(cards[c].ord) # {}
      PROVE [cards[c] EXCEPT !.ord = CHOOSE i \in moved(cards[c].ord) : TRUE] = cards[c]
  <2>1. (CHOOSE i \in moved(cards[c].ord) : TRUE) = cards[c].ord BY <1>4
  <2>2. [cards[c] EXCEPT !.ord = cards[c].ord] = cards[c] BY <1>3 DEF Card
  <2> QED BY <2>1, <2>2
<1> HIDE DEF moved, gone, ours
<1>5. DOMAIN kept = DOMAIN cards /\ \A c \in DOMAIN cards : kept[c] = cards[c] BY <1>1, <1>2, <1>4
<1> HIDE DEF kept
<1>6. CardsOf(kept, n) = CardsOf(cards, n) BY <1>5 DEF CardsOf
<1>7. Ords(kept, n) = Ords(cards, n) BY <1>5, <1>6 DEF Ords, CardsOf
<1> QED BY <1>7 DEF kept

(* What saving a type makes of a note of the type: the texts are its own.      *)
LEMMA TextsCarried ==
  ASSUME DInv, NEW t \in Types, NEW edit, NEW skip_checks, NEW reworded, NEW unclozed,
         SaveNotetype(t, edit, skip_checks, reworded, unclozed), IInv',
         NEW n \in Of(t)
  PROVE /\ notes'[n].type = t /\ DOMAIN notes'[n].fields = DOMAIN types'[t].fields
        /\ DOMAIN notes[n].fields = DOMAIN types[t].fields
        /\ \A j \in DOMAIN notes'[n].fields :
             notes'[n].fields[j] # NoText =>
               \E l \in DOMAIN notes[n].fields :
                 notes'[n].fields[j] = notes[n].fields[l] /\ types'[t].fields[j].id = types[t].fields[l].id
<1> DEFINE old == types[t]
           new == PreparedForUpdate(old, edit, unclozed)
           text == notes[n].fields
           after == notes'[n].fields
<1>1. types' = [types EXCEPT ![t] = new] /\ notes' = NotesUpdated(t, edit) BY DEF SaveNotetype
<1>2. types'[t] = new BY <1>1 DEF DInv, CInv, IInv, TypesTyped
<1>3. n \in Notes /\ Exists(n) /\ notes[n].type = t /\ DOMAIN text = DOMAIN old.fields
  BY DEF Of, Exists, DInv, CInv, IInv, FieldsFit
<1>4. DOMAIN new.fields = DOMAIN edit.fields BY DEF PreparedForUpdate
<1>5. ASSUME NEW j \in DOMAIN edit.fields, edit.fields[j].had \in DOMAIN text
      PROVE new.fields[j].id = old.fields[edit.fields[j].had].id
  BY <1>3, <1>5 DEF PreparedForUpdate, IdOf, Added
<1> HIDE DEF new
<1>6. CASE OrdsChanged(old.fields, edit.fields)
  <2>1. notes'[n] = [type |-> t, fields |-> Reordered(text, edit.fields)] BY <1>1, <1>3, <1>6 DEF NotesUpdated
  <2>2. after = Reordered(text, edit.fields) /\ notes'[n].type = t BY <2>1
  <2>3. DOMAIN after = DOMAIN edit.fields BY <2>2 DEF Reordered
  <2>4. ASSUME NEW j \in DOMAIN after, after[j] # NoText
        PROVE \E l \in DOMAIN text : after[j] = text[l] /\ new.fields[j].id = old.fields[l].id
    <3>1. edit.fields[j].had \in DOMAIN text /\ after[j] = text[edit.fields[j].had] BY <2>2, <2>3, <2>4 DEF Reordered
    <3> QED BY <1>5, <2>3, <3>1
  <2> QED BY <1>2, <1>3, <1>4, <2>2, <2>3, <2>4
<1>7. CASE ~OrdsChanged(old.fields, edit.fields)
  <2>1. notes'[n] = notes[n] BY <1>1, <1>7 DEF NotesUpdated
  <2>2. DOMAIN edit.fields = DOMAIN old.fields /\ \A j \in DOMAIN edit.fields : edit.fields[j].had = j BY <1>7 DEF OrdsChanged
  <2>3. \A j \in DOMAIN text : new.fields[j].id = old.fields[j].id BY <1>3, <1>5, <2>2
  <2> QED BY <1>2, <1>3, <1>4, <2>1, <2>2, <2>3
<1> QED BY <1>6, <1>7

(* A note that nothing is generated for, as the templates look the same: no    *)
(* template moved, for then a front would belong to another card type.         *)
LEMMA NothingGenerated ==
  ASSUME Identified, DInv, CInv', NEW t \in Types, NEW edit, NEW skip_checks, NEW reworded, NEW unclozed,
         SaveNotetype(t, edit, skip_checks, reworded, unclozed), IsEdit(t, edit), Saved(t, edit, reworded),
         NEW n \in Of(t), Complete(n), Exists(n)',
         ~ShouldGenerate(types[t].templates, types'[t].templates, edit.templates, reworded), ~SameTextOtherMeaning(t)
  PROVE Complete(n)'
<1> DEFINE old == types[t]
           new == types'[t]
           entries == edit.templates
           text == notes[n].fields
           after == notes'[n].fields
<1>1. n \in Notes /\ notes[n] # NoNote /\ notes[n].type = t /\ CardsRequired(n, old, text, Ords(cards, n)) = {}
  BY DEF Of, Exists, Complete
<1>2. new = PreparedForUpdate(old, edit, unclozed) /\ notes' = NotesUpdated(t, edit)
  BY DEF SaveNotetype, DInv, CInv, IInv, TypesTyped
<1>3. new.kind = old.kind /\ DOMAIN new.templates = DOMAIN entries
      /\ \A i \in DOMAIN entries : new.templates[i].id = IdOf(old.templates, entries, i, TemplateIds)
  BY <1>2 DEF PreparedForUpdate, IsEdit
<1> HIDE DEF new
<1>4. DOMAIN new.templates = DOMAIN old.templates
  <2>1. Counted(old) /\ Counted(new) BY DEF DInv, CInv, TypesCounted, new
  <2>2. Len(new.templates) = Len(old.templates) BY DEF ShouldGenerate, new
  <2> QED BY <2>1, <2>2 DEF Counted
<1>5. \A i \in DOMAIN old.templates :
        /\ new.templates[i].front = old.templates[i].front /\ new.templates[i].id = old.templates[i].id
        /\ FrontIds(new, i) = FrontIds(old, i)
  <2>1. \A i \in DOMAIN old.templates : new.templates[i].front = old.templates[i].front BY DEF ShouldGenerate, new
  <2> QED BY <1>4, <2>1 DEF SameTextOtherMeaning, new
<1>6. ASSUME NEW i \in DOMAIN entries PROVE entries[i].had = i
  <2>1. DOMAIN old.templates = 1..Len(old.templates) /\ Len(old.templates) \in Nat
    BY DEF DInv, CInv, TypesCounted, Counted
  <2>2. i \in DOMAIN old.templates BY <1>3, <1>4, <1>6
  <2>3. entries[i].had \in DOMAIN old.templates
    <3>1. entries[i].had # 0 BY <1>6 DEF ShouldGenerate
    <3>2. entries[i].had \in 0..Len(old.templates) \/ entries[i].had = i BY <1>6 DEF IsEdit, Proper
    <3> QED BY <2>1, <2>2, <3>1, <3>2
  <2>4. new.templates[i].id = old.templates[entries[i].had].id BY <1>3, <1>6, <2>3 DEF IdOf, Added
  <2> QED BY <1>5, <2>2, <2>3, <2>4 DEF DInv, ToldApart, Apart
<1>7. Ords(cards', n) = Ords(cards, n)
  <2>1. NotesGenerated(t, edit, reworded) = {} BY DEF NotesGenerated
  <2>2. Ords(cards', n) = Ords(CardsUpdated(t, entries), n) BY <1>1, <2>1 DEF Saved, Filled
  <2>3. DOMAIN entries = DOMAIN old.templates BY <1>3, <1>4
  <2> QED BY <1>6, <2>2, <2>3, CardsStay DEF DInv
<1>8. /\ notes'[n].type = t /\ DOMAIN after = DOMAIN new.fields /\ DOMAIN text = DOMAIN old.fields
      /\ \A j \in DOMAIN after :
           after[j] # NoText => \E l \in DOMAIN text : after[j] = text[l] /\ new.fields[j].id = old.fields[l].id
  BY TextsCarried DEF CInv, new
<1>9. CardsRequired(n, new, after, Ords(cards, n)) = {}
  <2>1. ToldApart(old) BY DEF DInv
  <2>2. DOMAIN new.templates \subseteq DOMAIN old.templates BY <1>4
  <2>3. \A i \in DOMAIN new.templates :
          new.templates[i].front = old.templates[i].front /\ FrontIds(new, i) = FrontIds(old, i)
    BY <1>4, <1>5
  <2> HIDE DEF text, after, old
  <2>4. CardsRequired(n, old, text, Ords(cards, n)) = {} /\ DOMAIN text = DOMAIN old.fields
        /\ DOMAIN after = DOMAIN new.fields /\ new.kind = old.kind
    BY <1>1, <1>3, <1>8 DEF text, after, old
  <2>5. \A j \in DOMAIN after :
           after[j] # NoText => \E l \in DOMAIN text : after[j] = text[l] /\ new.fields[j].id = old.fields[l].id
    BY <1>8 DEF text, after, old
  <2> QED BY <2>1, <2>2, <2>3, <2>4, <2>5, NoMoreRequired
<1> QED BY <1>7, <1>8, <1>9 DEF Complete, Exists, new

LEMMA Untouched ==
  ASSUME NEW n \in Notes, Complete(n), notes'[n] = notes[n], types'[notes[n].type] = types[notes[n].type],
         Ords(cards', n) = Ords(cards, n)
  PROVE Complete(n)'
  BY DEF Complete, Exists

LEMMA SavedComplete ==
  ASSUME Ordinary, Identified, DInv, CInv', NEW t \in Types, NEW edit, NEW skip_checks, NEW reworded, NEW unclozed,
         SaveNotetype(t, edit, skip_checks, reworded, unclozed), IsEdit(t, edit), Saved(t, edit, reworded),
         NEW n \in Notes, Complete(n), Exists(n)', CardsOf(cards', n) # {}, ~SameTextOtherMeaning(notes[n].type)
  PROVE Complete(n)'
<1> DEFINE kept == CardsUpdated(t, edit.templates)
           which == NotesGenerated(t, edit, reworded)
           new == types'[t]
<1>1. /\ types' = [types EXCEPT ![t] = PreparedForUpdate(types[t], edit, unclozed)] /\ notes' = NotesUpdated(t, edit)
      /\ Exists(n)
  BY DEF SaveNotetype, Complete
<1>2. CASE n \notin Of(t)
  <2>1. notes[n].type # t /\ notes[n].type \in Types
    BY <1>1, <1>2, ExistingNote DEF Of, DInv, CInv
  <2>2. types'[notes[n].type] = types[notes[n].type] BY <1>1, <2>1 DEF DInv, CInv, IInv, TypesTyped
  <2>3. notes'[n] = notes[n] BY <1>1, <1>2 DEF NotesUpdated
  <2>4. n \notin which BY <1>2 DEF NotesGenerated, NotesToGenerate
  <2>5. Ords(cards', n) = Ords(kept, n) BY <2>4 DEF Saved, Filled
  <2>6. /\ DOMAIN kept \subseteq DOMAIN cards
        /\ \A c \in DOMAIN cards : cards[c].note \notin Of(t) => c \in DOMAIN kept /\ kept[c] = cards[c]
        /\ \A c \in DOMAIN kept : kept[c].note = n => cards[c].note = n
    <3>1. \A c \in DOMAIN cards : cards[c] \in Card BY DEF DInv, CInv, CardsTyped
    <3> QED BY <3>1 DEF CardsUpdated, Card
  <2> HIDE DEF kept
  <2>7. Ords(kept, n) = Ords(cards, n)
    <3>1. CardsOf(kept, n) = CardsOf(cards, n) BY <1>2, <2>6 DEF CardsOf
    <3>2. \A c \in CardsOf(cards, n) : kept[c] = cards[c] BY <1>2, <2>6 DEF CardsOf
    <3> QED BY <3>1, <3>2 DEF Ords
  <2> QED BY <2>2, <2>3, <2>5, <2>7, Untouched
<1>3. CASE n \in which
  <2>1. CardsRequired(n, types'[notes'[n].type], notes'[n].fields, Ords(cards', n)) = {} BY <1>3 DEF Saved, Filled
  <2> QED BY <2>1 DEF Complete
<1>4. CASE n \in Of(t) /\ n \notin which
  <2>1. notes[n].type = t /\ notes'[n].type = t BY <1>4, TextsCarried DEF Of, CInv
  <2>2. CASE ShouldGenerate(types[t].templates, types'[t].templates, edit.templates, reworded)
    <3>1. CardsOf(cards', n) = CardsOf(kept, n) /\ Ords(cards', n) = Ords(kept, n) BY <1>4 DEF Saved, Filled
    <3>2. new.kind = Normal /\ Cardinality(CardsOf(kept, n)) = Len(new.templates)
      BY <1>4, <2>2, <3>1 DEF NotesGenerated, NotesToGenerate
    <3>3. CardsTyped(kept) /\ Placed(kept, notes', types') /\ Counted(new) BY DEF Saved, CInv, TypesCounted
    <3> DEFINE ns == notes'
               ts == types'
    <3>4. new = ts[ns[n].type] /\ Placed(kept, ns, ts) BY <2>1, <3>3
    <3> HIDE DEF ns, ts, new, kept
    <3>5. CardsRequired(n, new, ns[n].fields, Ords(kept, n)) = {} BY <3>2, <3>3, <3>4, AllThere
    <3> QED BY <2>1, <3>1, <3>5 DEF Complete, ns, new
  <2>3. CASE ~ShouldGenerate(types[t].templates, types'[t].templates, edit.templates, reworded)
    BY <1>4, <2>1, <2>3, NothingGenerated
  <2> QED BY <2>2, <2>3
<1> QED BY <1>2, <1>3, <1>4

LEMMA StepTellsApart == Ordinary /\ Identified /\ DInv /\ [Next]_vars => DInv'
<1>1. SUFFICES ASSUME Ordinary, Identified, DInv, [Next]_vars PROVE \A t \in Types : ToldApart(types'[t])
  BY StepPlaces DEF DInv
<1>2. ASSUME NEW t \in Types, EditFields(t) \/ EditTemplates(t) \/ Restore(t)
      PROVE \A u \in Types : ToldApart(types'[u])
  <2>1. PICK edit, skip_checks, reworded, unclozed : SaveNotetype(t, edit, skip_checks, reworded, unclozed) /\ IsEdit(t, edit)
    BY <1>1, <1>2, EditsAreProper
  <2> QED BY <1>1, <2>1, StaysApart
<1>3. ASSUME types' = types PROVE \A t \in Types : ToldApart(types'[t]) BY <1>1, <1>3 DEF DInv
<1>4. CASE \E t \in Types : EditFields(t) \/ EditTemplates(t) \/ Restore(t) BY <1>2, <1>4
<1>5. CASE ~\E t \in Types : EditFields(t) \/ EditTemplates(t) \/ Restore(t)
  <2>1. types' = types
    BY <1>1, <1>5, EditedAssumption DEF Next, vars, AddNote, UpdateNote, RemoveNote, OpenChange, CloseChange, ChangeNotetype, FindEmpty,
      CloseReport, DeleteEmpty, CheckDatabase
  <2> QED BY <1>3, <2>1
<1> QED BY <1>4, <1>5

(* What a step does to the cards of a note that has all it calls for.          *)
LEMMA StepCompletes ==
  ASSUME Ordinary, Identified, DInv, [Next]_vars,
         NEW n \in Notes, Complete(n), Exists(n)', CardsOf(cards', n) # {},
         ~(report # NoReport /\ report' = NoReport), ~SameTextOtherMeaning(notes[n].type)
  PROVE Complete(n)'
<1>1. CInv /\ CInv' /\ IInv' BY StepPlaces DEF DInv, CInv
<1>2. Exists(n) BY DEF Complete
<1>3. ASSUME types' = types, notes'[n] = notes[n], Ords(cards', n) = Ords(cards, n) PROVE Complete(n)'
  BY <1>3, Untouched
<1>4. ASSUME NEW m \in Notes, NEW t \in Types, AddNote(m, t) PROVE Complete(n)'
  <2>1. types' = types /\ m # n /\ notes'[n] = notes[n] BY <1>1, <1>2, <1>4 DEF AddNote, CInv, IInv, NotesTyped
  <2>2. Filled(cards, notes', types, {m}) BY <1>1, <1>4, AddNoteFits
  <2>3. Ords(cards', n) = Ords(cards, n) BY <2>1, <2>2 DEF Filled
  <2> QED BY <1>3, <2>1, <2>3
<1>5. ASSUME NEW m \in Notes, UpdateNote(m) PROVE Complete(n)'
  <2>1. types' = types /\ (m # n => notes'[n] = notes[n])
    BY <1>1, <1>5 DEF UpdateNote, CInv, IInv, NotesTyped
  <2>2. Filled(cards, notes', types, {m}) BY <1>1, <1>5, UpdateNoteFits
  <2>3. CASE m = n BY <2>1, <2>2, <2>3 DEF Filled, Complete
  <2>4. CASE m # n
    <3>1. Ords(cards', n) = Ords(cards, n) BY <2>2, <2>4 DEF Filled
    <3> QED BY <1>3, <2>1, <2>4, <3>1
  <2> QED BY <2>3, <2>4
<1>6. ASSUME NEW m \in Notes, RemoveNote(m) PROVE Complete(n)'
  <2>1. /\ cards' = Without(cards, CardsOf(cards, m)) /\ types' = types
        /\ notes'[m] = NoNote /\ (m # n => notes'[n] = notes[n])
    BY <1>1, <1>6 DEF RemoveNote, CInv, IInv, NotesTyped
  <2>2. m # n BY <2>1 DEF Exists
  <2>3. Ords(cards', n) = Ords(cards, n)
    <3>1. DOMAIN cards' = DOMAIN cards \ CardsOf(cards, m) /\ \A c \in DOMAIN cards' : cards'[c] = cards[c]
      BY <2>1 DEF Without
    <3>2. CardsOf(cards', n) = CardsOf(cards, n) BY <2>2, <3>1 DEF CardsOf
    <3>3. \A c \in CardsOf(cards, n) : cards'[c] = cards[c] BY <3>1, <3>2 DEF CardsOf
    <3> QED BY <3>2, <3>3 DEF Ords
  <2> QED BY <1>3, <2>1, <2>2, <2>3
<1>7. ASSUME NEW t \in Types, EditFields(t) \/ EditTemplates(t) \/ Restore(t) PROVE Complete(n)'
  <2>1. PICK edit, skip_checks, reworded, unclozed : SaveNotetype(t, edit, skip_checks, reworded, unclozed) /\ IsEdit(t, edit)
    BY <1>7, EditsAreProper
  <2>2. Saved(t, edit, reworded) BY <1>1, <2>1, UpdateNotetypeFits DEF IsEdit
  <2> QED BY <1>1, <2>1, <2>2, SavedComplete
<1>8. CASE ChangeNotetype
  <2>1. /\ types' = types /\ form # NoForm
        /\ notes' = [m \in Notes |-> IF m \in form.notes
                                     THEN [type |-> form.new, fields |-> FieldsRemapped(notes[m].fields)] ELSE notes[m]]
    BY <1>8 DEF ChangeNotetype
  <2>2. Filled(CardsRemapped, notes', types, form.notes) BY <1>1, <1>8, ChangeNotetypeFits
  <2>3. CASE n \in form.notes BY <2>1, <2>2, <2>3 DEF Filled, Complete
  <2>4. CASE n \notin form.notes
    <3>1. notes'[n] = notes[n] BY <2>1, <2>4
    <3>2. Ords(cards', n) = Ords(CardsRemapped, n) BY <2>2, <2>4 DEF Filled
    <3> DEFINE K == CardsRemapped
    <3>3. /\ DOMAIN K \subseteq DOMAIN cards
          /\ \A c \in DOMAIN cards : cards[c].note \notin form.notes => c \in DOMAIN K /\ K[c] = cards[c]
          /\ \A c \in DOMAIN K : K[c].note = n => cards[c].note = n
      <4>1. \A c \in DOMAIN cards : cards[c] \in Card BY <1>1 DEF CInv, CardsTyped
      <4> QED BY <4>1 DEF CardsRemapped, Without, Card
    <3> HIDE DEF K
    <3>4. CardsOf(K, n) = CardsOf(cards, n) BY <2>4, <3>3 DEF CardsOf
    <3>5. \A c \in CardsOf(cards, n) : K[c] = cards[c] BY <2>4, <3>3 DEF CardsOf
    <3>6. Ords(K, n) = Ords(cards, n) BY <3>4, <3>5 DEF Ords
    <3> QED BY <1>3, <2>1, <3>1, <3>2, <3>6 DEF K
  <2> QED BY <2>3, <2>4
<1>9. CASE CheckDatabase
  <2>1. types' = types /\ notes' = notes BY <1>9 DEF CheckDatabase
  <2>2. Filled(Without(cards, Duplicates \cup WithoutTemplate), notes, types, {m \in Notes : Exists(m)})
    BY <1>1, <1>9, CheckDatabaseFits
  <2>3. CardsRequired(n, types[notes[n].type], notes[n].fields, Ords(cards', n)) = {} BY <1>2, <2>2 DEF Filled
  <2> QED BY <2>1, <2>3 DEF Complete
<1>10. ASSUME NEW keep \in BOOLEAN, DeleteEmpty(keep) PROVE FALSE BY <1>10 DEF DeleteEmpty
<1>11. CASE CloseReport BY <1>11 DEF CloseReport
<1>12. CASE (\E t, u \in Types : OpenChange(t, u)) \/ CloseChange \/ FindEmpty \/ UNCHANGED vars
  <2>1. types' = types /\ notes' = notes /\ cards' = cards BY <1>12 DEF OpenChange, CloseChange, FindEmpty, vars
  <2> QED BY <1>3, <2>1
<1> QED BY <1>4, <1>5, <1>6, <1>7, <1>8, <1>9, <1>10, <1>11, <1>12, EditedAssumption DEF Next

(* A note that has every card it calls for keeps having them, whatever is done *)
(* to it, to its type or to its type's fields, as long as one of its cards is  *)
(* left and no empty card was deleted; except where the text of a front stays  *)
(* the same while what it refers to changes.                                   *)
THEOREM NotesStayComplete ==
  ASSUME Ordinary, Identified
  PROVE Spec => StaysComplete
<1>1. Init => DInv BY InitPlaces DEF DInv, Init, Identified
<1>2. DInv /\ [Next]_vars => DInv' BY StepTellsApart
<1>3. DInv /\ [Next]_vars =>
        [\A n \in Notes : Complete(n) /\ Exists(n)' /\ CardsOf(cards, n)' # {} =>
           \/ Complete(n)'
           \/ report # NoReport /\ report' = NoReport
           \/ SameTextOtherMeaning(notes[n].type)]_vars
  BY StepCompletes
<1> QED BY <1>1, <1>2, <1>3, PTL DEF Spec, StaysComplete

---------------------------------------------------------------------------
(* Positions and names amount to fields and card types with an identity.       *)

(* What the theorem supposes besides: at first, fields have names of their own *)
(* and fronts show some of them, as the code makes sure on every save; the     *)
(* names of a stock type's fields differ; a cloze type has one card type; and  *)
(* no note and no change of type is mistaken for none.                         *)
WellNamed(fields) == \A i, j \in DOMAIN fields : fields[i].name = fields[j].name => i = j
OneOfClozes(nt) == nt.kind = Cloze => DOMAIN nt.templates = {1}
Legible(nt) == WellNamed(nt.fields) /\ Valid(nt) /\ OneOfClozes(nt)
NamedText == [type : Types, text : UNION {[ids -> Texts] : ids \in SUBSET FieldIds}]
Wish == [notes : SUBSET Notes, type : Types, laid_out : BOOLEAN,
         from : UNION {[ids -> FieldIds \cup {0}] : ids \in SUBSET FieldIds}, cards : SUBSET (Nat \X Nat)]

Distinguished ==
  /\ \A t \in Types : Legible(Originals[t])
  /\ \A t \in Types : \A stock \in Stocks[t] : WellNamed(stock.fields) /\ OneOfClozes(stock)
  /\ NoNote \notin NamedText
  /\ NoForm \notin Wish

(* As long as the schema is the one an open dialog was opened with, it has     *)
(* what was laid out, in positions and in terms of fields and card types.      *)
WishFits ==
  form # NoForm =>
    /\ form.wish \in Wish /\ form.wish.laid_out = (form.templates # <<>>)
    /\ form.schema = schema =>
         /\ form.fields \in [DOMAIN types[form.new].fields -> 0..Len(types[form.old].fields)]
         /\ WishBar = WishOf(form.notes, types[form.old], types[form.new], form.new, form.fields, form.templates)

EInv == DInv /\ (\A t \in Types : Legible(types[t])) /\ WishFits

(* Names keep being well-chosen when fields are renamed, added or removed.     *)
LEMMA FrontsFollow ==
  ASSUME NEW old, Legible(old), NEW i \in DOMAIN old.templates, NEW entries, 1 \in DOMAIN entries, NEW unclozed
  PROVE /\ FrontAfter(old.templates[i].front, old.fields, entries, unclozed) # {}
        /\ FrontAfter(old.templates[i].front, old.fields, entries, unclozed) \subseteq NamesOf(entries)
<1> DEFINE front == old.templates[i].front
           followed == UNION {NameAfter(name, old.fields, entries) : name \in front}
<1>1. front # {} /\ front \subseteq NamesOf(old.fields) BY DEF Legible, Valid
<1>2. followed \subseteq NamesOf(entries) BY <1>1 DEF NameAfter, NamesOf
<1>3. entries[1].name \in NamesOf(entries) BY DEF NamesOf
<1>4. CASE unclozed \/ (RenamedOrRemoved(old.fields, entries) /\ followed = {}) BY <1>2, <1>3, <1>4 DEF FrontAfter
<1>5. CASE ~unclozed /\ ~RenamedOrRemoved(old.fields, entries)
  <2>1. PICK j \in DOMAIN old.fields : old.fields[j].name \in front BY <1>1 DEF NamesOf
  <2>2. NameAfter(old.fields[j].name, old.fields, entries) = {old.fields[j].name} BY <1>5 DEF RenamedOrRemoved
  <2>3. followed # {} BY <2>1, <2>2
  <2>4. FrontAfter(front, old.fields, entries, unclozed) = followed BY <1>5 DEF FrontAfter
  <2> QED BY <1>2, <2>3, <2>4
<1>6. CASE ~unclozed /\ followed # {} BY <1>2, <1>6 DEF FrontAfter
<1> QED BY <1>4, <1>5, <1>6

LEMMA StaysLegible ==
  ASSUME Ordinary, Distinguished, EInv, NEW t \in Types, NEW edit, NEW skip_checks, NEW reworded, NEW unclozed,
         SaveNotetype(t, edit, skip_checks, reworded, unclozed), IsEdit(t, edit), HowEdited(t, edit, skip_checks)
  PROVE \A u \in Types : Legible(types'[u])
<1> DEFINE old == types[t]
           new == PreparedForUpdate(old, edit, unclozed)
<1>1. types' = [types EXCEPT ![t] = new] /\ (skip_checks \/ Valid(new)) BY DEF SaveNotetype
<1>2. \A u \in Types : types'[u] = IF u = t THEN new ELSE types[u] BY <1>1 DEF EInv, DInv, CInv, IInv, TypesTyped
<1>3. /\ DOMAIN new.fields = DOMAIN edit.fields /\ \A i \in DOMAIN edit.fields : new.fields[i].name = edit.fields[i].name
      /\ DOMAIN new.templates = DOMAIN edit.templates
      /\ \A i \in DOMAIN edit.templates :
           new.templates[i].front = FrontAfter(edit.templates[i].front, old.fields, edit.fields, unclozed)
  BY DEF PreparedForUpdate
<1>4. Legible(old) BY DEF EInv
<1> HIDE DEF new
<1>5. NamesOf(new.fields) = NamesOf(edit.fields) BY <1>3 DEF NamesOf
<1>6. WellNamed(new.fields)
  <2>1. CASE edit.fields = SameFields(old)
    <3>1. DOMAIN edit.fields = DOMAIN old.fields /\ \A i \in DOMAIN edit.fields : edit.fields[i].name = old.fields[i].name
      BY <2>1 DEF SameFields
    <3> QED BY <1>3, <1>4, <3>1 DEF WellNamed, Legible
  <2>2. ASSUME NEW stock \in Stocks[t], edit.fields = SameFields(stock) PROVE WellNamed(new.fields)
    <3>1. DOMAIN edit.fields = DOMAIN stock.fields /\ \A i \in DOMAIN edit.fields : edit.fields[i].name = stock.fields[i].name
      BY <2>2 DEF SameFields
    <3>2. WellNamed(stock.fields) BY DEF Distinguished
    <3> QED BY <1>3, <3>1, <3>2 DEF WellNamed
  <2>3. CASE \A i, j \in DOMAIN edit.fields : edit.fields[i].name = edit.fields[j].name => i = j
    BY <1>3, <2>3 DEF WellNamed
  <2> QED BY <2>1, <2>2, <2>3 DEF HowEdited
<1>7. Valid(new)
  <2>1. CASE ~skip_checks BY <1>1, <2>1
  <2>2. CASE edit.templates = SameTemplates(old) /\ 1 \in DOMAIN edit.fields
    <3>1. /\ DOMAIN edit.templates = DOMAIN old.templates
          /\ \A i \in DOMAIN edit.templates : edit.templates[i].front = old.templates[i].front
      BY <2>2 DEF SameTemplates
    <3>2. ASSUME NEW i \in DOMAIN new.templates
          PROVE new.templates[i].front # {} /\ new.templates[i].front \subseteq NamesOf(new.fields)
      <4>1. i \in DOMAIN old.templates /\ new.templates[i].front = FrontAfter(old.templates[i].front, old.fields, edit.fields, unclozed)
        BY <1>3, <3>1
      <4> QED BY <1>4, <1>5, <2>2, <4>1, FrontsFollow
    <3> QED BY <3>2 DEF Valid
  <2> QED BY <2>1, <2>2 DEF HowEdited
<1>8. OneOfClozes(new)
  <2>1. new.kind = edit.kind /\ DOMAIN new.templates = DOMAIN edit.templates BY <1>3 DEF new, PreparedForUpdate
  <2>2. edit.kind = old.kind BY DEF IsEdit
  <2>3. CASE edit.templates = SameTemplates(old)
    <3>1. DOMAIN edit.templates = DOMAIN old.templates BY <2>3 DEF SameTemplates
    <3> QED BY <1>4, <2>1, <2>2, <3>1 DEF Legible, OneOfClozes
  <2>4. CASE old.kind = Cloze => DOMAIN edit.templates = DOMAIN old.templates
    BY <1>4, <2>1, <2>2, <2>4 DEF Legible, OneOfClozes
  <2>5. ASSUME NEW stock \in Stocks[t], edit.templates = SameTemplates(stock) PROVE OneOfClozes(new)
    <3>1. DOMAIN edit.templates = DOMAIN stock.templates BY <2>5 DEF SameTemplates
    <3>2. stock.kind = old.kind BY DEF Ordinary, EInv, DInv, CInv, TypesCounted
    <3>3. OneOfClozes(stock) BY DEF Distinguished
    <3> QED BY <2>1, <2>2, <3>1, <3>2, <3>3 DEF OneOfClozes
  <2> QED BY <2>3, <2>4, <2>5 DEF HowEdited
<1>9. Legible(new) BY <1>6, <1>7, <1>8 DEF Legible
<1> QED BY <1>2, <1>9 DEF EInv

LEMMA InitNames == Ordinary /\ Identified /\ Distinguished /\ Init => EInv
<1>1. Ordinary /\ Identified /\ Init => DInv BY InitPlaces DEF DInv, Init, Identified
<1>2. Distinguished /\ Init => (\A t \in Types : Legible(types[t])) /\ WishFits BY DEF Init, Distinguished, WishFits
<1> QED BY <1>1, <1>2 DEF EInv

(* What a save that does not mark the schema makes of a type: fields and card  *)
(* types stay where they are, and new card types come after them.              *)
Appended(old, new) ==
  /\ DOMAIN new.fields = DOMAIN old.fields /\ Len(new.fields) = Len(old.fields)
  /\ \A i \in DOMAIN old.fields : new.fields[i].id = old.fields[i].id
  /\ DOMAIN old.templates \subseteq DOMAIN new.templates
  /\ \A i \in DOMAIN old.templates : new.templates[i].id = old.templates[i].id

LEMMA UnmarkedAppends ==
  ASSUME DInv, DInv', NEW t \in Types, NEW edit, NEW skip_checks, NEW reworded, NEW unclozed,
         SaveNotetype(t, edit, skip_checks, reworded, unclozed), IsEdit(t, edit), schema' = schema
  PROVE \A u \in Types : Appended(types[u], types'[u])
<1> DEFINE old == types[t]
           new == types'[t]
<1>1. \A u \in Types \ {t} : types'[u] = types[u] BY DEF SaveNotetype, DInv, CInv, IInv, TypesTyped
<1>2. ~OrdsChanged(old.fields, edit.fields) /\ ~TemplatesChanged(old.templates, edit.templates)
  BY DEF SaveNotetype, DInv, CInv
<1>3. Carried(old.fields, edit.fields, new.fields) /\ Carried(old.templates, edit.templates, new.templates)
  BY StaysApart
<1>4. Apart(old.fields, MaxFields) /\ Apart(new.fields, MaxFields) BY DEF DInv, ToldApart
<1> HIDE DEF new
<1>5. DOMAIN new.fields = DOMAIN old.fields /\ \A i \in DOMAIN old.fields : new.fields[i].id = old.fields[i].id
  BY <1>2, <1>3 DEF OrdsChanged, Carried
<1>6. Len(new.fields) = Len(old.fields)
  <2>1. PICK k \in Nat, l \in Nat : k = Len(old.fields) /\ l = Len(new.fields) BY <1>4, BoundsAssumption DEF Apart
  <2>2. 1..k = 1..l BY <1>4, <1>5, <2>1 DEF Apart
  <2> QED BY <2>1, <2>2
<1>7. DOMAIN old.templates \subseteq DOMAIN edit.templates /\ \A i \in DOMAIN edit.templates : edit.templates[i].had = i
  BY <1>2 DEF TemplatesChanged, Had
<1>8. /\ DOMAIN old.templates \subseteq DOMAIN new.templates
      /\ \A i \in DOMAIN old.templates : new.templates[i].id = old.templates[i].id
  BY <1>3, <1>7 DEF Carried
<1> QED BY <1>1, <1>5, <1>6, <1>8 DEF Appended, new

(* Which card becomes which, if that is left to the order of the card types.   *)
LEMMA ByOrdinalTyped ==
  ASSUME Ordinary, DInv, NEW t \in Types, NEW u \in Types
  PROVE ByOrdinal(types[t], types[u]) \in SUBSET (Nat \X Nat)
<1>1. \A v \in Types : ToldApart(types[v]) /\ Counted(types[v]) BY DEF DInv, CInv, TypesCounted
<1>2. LastOrd \in Nat /\ MaxTemplates \in Nat BY BoundsAssumption
<1>3. OrdsOf(types[t]) \subseteq Nat BY <1>1, <1>2 DEF OrdsOf, Counted
<1>4. ASSUME NEW v \in Types, NEW o \in Nat PROVE CardName(types[v], o) \in Nat
  <2>1. \A i \in DOMAIN types[v].templates : types[v].templates[i].id \in 1..(MaxTemplates + 1)
    BY <1>1 DEF ToldApart, Apart
  <2>2. 1..(MaxTemplates + 1) \subseteq Nat OBVIOUS
  <2> QED BY <1>4, <2>1, <2>2 DEF CardName
<1> QED BY <1>3, <1>4 DEF ByOrdinal

(* An open dialog stands for a wish, whatever became of the types since.       *)
LEMMA WishSeen ==
  Ordinary /\ EInv /\ form # NoForm => WishBar \in Wish /\ WishBar.laid_out = (form.templates # <<>>)
<1> SUFFICES ASSUME Ordinary, EInv, form # NoForm
    PROVE WishBar \in Wish /\ WishBar.laid_out = (form.templates # <<>>)
  OBVIOUS
<1>1. form.wish \in Wish /\ form.wish.laid_out = (form.templates # <<>>) BY DEF EInv, WishFits
<1>2. form.old \in Types /\ form.new \in Types BY DEF EInv, DInv, CInv, IInv, FormTyped, FormFits
<1>3. ByOrdinal(types[form.old], types[form.new]) \in SUBSET (Nat \X Nat) BY <1>2, ByOrdinalTyped DEF EInv
<1>4. CASE form.templates # <<>> BY <1>1, <1>4 DEF WishBar
<1>5. CASE form.templates = <<>>
  <2>1. WishBar = [form.wish EXCEPT !.cards = ByOrdinal(types[form.old], types[form.new])] BY <1>5 DEF WishBar
  <2> QED BY <1>1, <1>3, <2>1 DEF Wish
<1> QED BY <1>4, <1>5

LEMMA WishSeenAfter ==
  Ordinary /\ EInv' /\ form' # NoForm => WishBar' \in Wish /\ WishBar'.laid_out = (form'.templates # <<>>)
<1>1. (Ordinary /\ EInv /\ form # NoForm => WishBar \in Wish /\ WishBar.laid_out = (form.templates # <<>>))'
  BY WishSeen, PTL
<1>2. Ordinary' <=> Ordinary BY DEF Ordinary
<1> QED BY <1>1, <1>2

(* What is laid out is not disturbed by a save that does not mark the schema.  *)
LEMMA WishStays ==
  ASSUME EInv, DInv', form' = form, schema' \in {schema, schema + 1},
         schema' = schema => \A u \in Types : Appended(types[u], types'[u])
  PROVE WishFits'
<1> DEFINE old == types[form.old]
           new == types[form.new]
           later == types'[form.old]
           lately == types'[form.new]
           wished == WishOf(form.notes, old, new, form.new, form.fields, form.templates)
           still == WishOf(form.notes, later, lately, form.new, form.fields, form.templates)
<1>1. SUFFICES ASSUME form # NoForm, form.schema = schema'
      PROVE form.fields \in [DOMAIN lately.fields -> 0..Len(later.fields)] /\ WishBar' = still
  BY DEF WishFits, EInv
<1>2. form.schema \in Nat /\ form.schema <= schema /\ schema \in Nat /\ form.old \in Types /\ form.new \in Types
  BY <1>1 DEF EInv, DInv, CInv, IInv, FormFits, FormTyped
<1>3. schema' = schema /\ Appended(old, later) /\ Appended(new, lately) BY <1>1, <1>2
<1>4. /\ form.fields \in [DOMAIN new.fields -> 0..Len(old.fields)] /\ WishBar = wished
      /\ LaidOut(form.templates, old, new)
  BY <1>1, <1>3 DEF EInv, WishFits, DInv, CInv, FormFits
<1>5. Apart(new.fields, MaxFields) /\ Apart(lately.fields, MaxFields) /\ Apart(old.fields, MaxFields)
      /\ Apart(old.templates, MaxTemplates)
  BY <1>2 DEF EInv, DInv, ToldApart
<1>6. form.fields \in [DOMAIN lately.fields -> 0..Len(later.fields)] BY <1>3, <1>4 DEF Appended
<1>7. Sources(later, lately, form.fields) = Sources(old, new, form.fields)
  <2> DEFINE ids == {new.fields[i].id : i \in DOMAIN new.fields}
             From(o, w, id) == LET i == CHOOSE i \in DOMAIN w.fields : w.fields[i].id = id
                               IN  IF form.fields[i] = 0 THEN 0 ELSE o.fields[form.fields[i]].id
  <2>1. ids = {lately.fields[i].id : i \in DOMAIN lately.fields} BY <1>3 DEF Appended
  <2>2. ASSUME NEW i \in DOMAIN new.fields
        PROVE From(later, lately, new.fields[i].id) = From(old, new, new.fields[i].id)
    <3>1. i \in DOMAIN lately.fields /\ lately.fields[i].id = new.fields[i].id BY <1>3 DEF Appended
    <3>2. (CHOOSE j \in DOMAIN new.fields : new.fields[j].id = new.fields[i].id) = i BY <1>5, FoundById
    <3>3. (CHOOSE j \in DOMAIN lately.fields : lately.fields[j].id = new.fields[i].id) = i BY <1>5, <3>1, FoundById
    <3>4. form.fields[i] \in 0..Len(old.fields) BY <1>4
    <3>5. form.fields[i] # 0 => form.fields[i] \in DOMAIN old.fields BY <1>5, <3>4 DEF Apart
    <3>6. form.fields[i] # 0 => later.fields[form.fields[i]].id = old.fields[form.fields[i]].id
      BY <1>3, <3>5 DEF Appended
    <3> QED BY <3>2, <3>3, <3>6
  <2>3. Sources(later, lately, form.fields) = [id \in ids |-> From(later, lately, id)] BY <2>1 DEF Sources
  <2>4. Sources(old, new, form.fields) = [id \in ids |-> From(old, new, id)] BY DEF Sources
  <2> HIDE DEF From
  <2>5. \A id \in ids : From(later, lately, id) = From(old, new, id) BY <2>2
  <2> HIDE DEF ids
  <2> QED BY <2>3, <2>4, <2>5
<1>8. form.templates # <<>> => ByLayout(later, lately, form.templates) = ByLayout(old, new, form.templates)
  <2>1. \A i \in DOMAIN form.templates : i \in DOMAIN new.templates /\ form.templates[i] \in 0..Len(old.templates)
    BY <1>4 DEF LaidOut
  <2>2. \A i \in DOMAIN form.templates : form.templates[i] # 0 => form.templates[i] \in DOMAIN old.templates
    BY <1>5, <2>1 DEF Apart
  <2>3. \A i \in DOMAIN form.templates : form.templates[i] # 0 =>
          <<later.templates[form.templates[i]].id, lately.templates[i].id>> = <<old.templates[form.templates[i]].id, new.templates[i].id>>
    BY <1>3, <2>1, <2>2 DEF Appended
  <2> QED BY <2>3 DEF ByLayout
<1>9. CASE form.templates # <<>>
  <2>1. wished.cards = ByLayout(old, new, form.templates) /\ still.cards = ByLayout(later, lately, form.templates)
    BY <1>9 DEF WishOf
  <2>2. wished = still BY <1>7, <1>8, <1>9, <2>1 DEF WishOf
  <2>3. WishBar' = form.wish /\ WishBar = form.wish BY <1>1, <1>9 DEF WishBar
  <2> QED BY <1>4, <1>6, <2>2, <2>3
<1>10. CASE form.templates = <<>>
  <2>1. /\ WishBar = [form.wish EXCEPT !.cards = ByOrdinal(old, new)]
        /\ WishBar' = [form.wish EXCEPT !.cards = ByOrdinal(later, lately)]
    BY <1>1, <1>10 DEF WishBar
  <2>2. form.wish \in Wish BY <1>1 DEF EInv, WishFits
  <2>3. WishBar' = [WishBar EXCEPT !.cards = ByOrdinal(later, lately)]
    <3>1. DOMAIN form.wish = {"notes", "type", "laid_out", "from", "cards"} BY <2>2 DEF Wish
    <3> QED BY <2>1, <2>2, <3>1 DEF Wish
  <2>4. PICK flag : flag = (form.templates # <<>>) OBVIOUS
  <2>5. /\ wished = [notes |-> form.notes, type |-> form.new, laid_out |-> flag,
                     from |-> Sources(old, new, form.fields), cards |-> ByOrdinal(old, new)]
        /\ still = [notes |-> form.notes, type |-> form.new, laid_out |-> flag,
                    from |-> Sources(later, lately, form.fields), cards |-> ByOrdinal(later, lately)]
    BY <1>10, <2>4 DEF WishOf
  <2> HIDE DEF wished, still, old, new, later, lately
  <2>6. still = [wished EXCEPT !.cards = ByOrdinal(later, lately)] BY <1>7, <2>5
  <2> QED BY <1>4, <1>6, <2>3, <2>6 DEF wished, still
<1> QED BY <1>9, <1>10

(* What is laid out in a dialog is a wish.                                     *)
LEMMA WishTyped ==
  ASSUME Ordinary, DInv, NEW t \in Types, NEW u \in Types, NEW ns \in SUBSET Notes,
         NEW fields \in [DOMAIN types[u].fields -> 0..Len(types[t].fields)],
         NEW templates \in TemplateMaps(types[t], types[u])
  PROVE WishOf(ns, types[t], types[u], u, fields, templates) \in Wish
<1> DEFINE old == types[t]
           new == types[u]
           w == WishOf(ns, old, new, u, fields, templates)
           ids == {new.fields[i].id : i \in DOMAIN new.fields}
           From(id) == LET i == CHOOSE i \in DOMAIN new.fields : new.fields[i].id = id
                       IN  IF fields[i] = 0 THEN 0 ELSE old.fields[fields[i]].id
           pairs == IF templates = <<>> THEN ByOrdinal(old, new) ELSE ByLayout(old, new, templates)
<1>1. w = [notes |-> ns, type |-> u, laid_out |-> templates # <<>>, from |-> [id \in ids |-> From(id)], cards |-> pairs]
  BY DEF WishOf, Sources
<1>2. ToldApart(old) /\ ToldApart(new) BY DEF DInv
<1>3. MaxTemplates \in Nat BY BoundsAssumption
<1>4. ids \in SUBSET FieldIds BY <1>2 DEF ToldApart, Apart, FieldIds
<1>5. \A id \in ids : From(id) \in FieldIds \cup {0}
  <2>1. SUFFICES ASSUME NEW id \in ids PROVE From(id) \in FieldIds \cup {0} OBVIOUS
  <2> DEFINE i == CHOOSE i \in DOMAIN new.fields : new.fields[i].id = id
  <2>2. i \in DOMAIN new.fields OBVIOUS
  <2> HIDE DEF i
  <2>3. fields[i] \in 0..Len(old.fields) BY <2>2
  <2>4. fields[i] # 0 => fields[i] \in DOMAIN old.fields BY <1>2, <2>3 DEF ToldApart, Apart
  <2>5. fields[i] # 0 => old.fields[fields[i]].id \in FieldIds BY <1>2, <2>4 DEF ToldApart, Apart, FieldIds
  <2>6. From(id) = IF fields[i] = 0 THEN 0 ELSE old.fields[fields[i]].id BY DEF i
  <2> QED BY <2>5, <2>6
<1>6. [id \in ids |-> From(id)] \in UNION {[S -> FieldIds \cup {0}] : S \in SUBSET FieldIds}
  <2> HIDE DEF ids, From
  <2>1. [id \in ids |-> From(id)] \in [ids -> FieldIds \cup {0}] BY <1>5
  <2> QED BY <1>4, <2>1
<1>7. pairs \in SUBSET (Nat \X Nat)
  <2>1. CASE templates = <<>> BY <2>1, ByOrdinalTyped
  <2>2. CASE templates # <<>>
    <3>1. templates \in [DOMAIN new.templates -> 0..Len(old.templates)] BY <2>2 DEF TemplateMaps
    <3>2. \A i \in DOMAIN templates : templates[i] # 0 => templates[i] \in DOMAIN old.templates
      BY <1>2, <3>1 DEF ToldApart, Apart
    <3>3. \A i \in DOMAIN new.templates : new.templates[i].id \in Nat
      BY <1>2, <1>3 DEF ToldApart, Apart
    <3>4. \A i \in DOMAIN old.templates : old.templates[i].id \in Nat BY <1>2, <1>3 DEF ToldApart, Apart
    <3> QED BY <2>2, <3>1, <3>2, <3>3, <3>4 DEF ByLayout
  <2> QED BY <2>1, <2>2
<1> HIDE DEF pairs, From, ids
<1> QED BY <1>1, <1>6, <1>7 DEF Wish

LEMMA StepKeepsNames ==
  Ordinary /\ Identified /\ Distinguished /\ EInv /\ [Next]_vars => EInv'
<1>1. SUFFICES ASSUME Ordinary, Identified, Distinguished, EInv, [Next]_vars, DInv'
      PROVE (\A t \in Types : Legible(types'[t])) /\ WishFits'
  BY StepTellsApart DEF EInv
<1>2. ASSUME types' = types PROVE \A t \in Types : Legible(types'[t]) BY <1>1, <1>2 DEF EInv
<1>3. ASSUME NEW t \in Types, EditFields(t) \/ EditTemplates(t) \/ Restore(t)
      PROVE (\A u \in Types : Legible(types'[u])) /\ WishFits'
  <2>1. PICK edit, skip_checks, reworded, unclozed :
          SaveNotetype(t, edit, skip_checks, reworded, unclozed) /\ IsEdit(t, edit) /\ HowEdited(t, edit, skip_checks)
    BY <1>1, <1>3, EditsAreProper DEF EInv
  <2>2. \A u \in Types : Legible(types'[u]) BY <1>1, <2>1, StaysLegible
  <2>3. form' = form /\ schema' \in {schema, schema + 1} BY <2>1 DEF SaveNotetype
  <2>4. schema' = schema => \A u \in Types : Appended(types[u], types'[u]) BY <1>1, <2>1, UnmarkedAppends DEF EInv
  <2> QED BY <1>1, <2>2, <2>3, <2>4, WishStays
<1>4. ASSUME NEW t \in Types, NEW u \in Types, OpenChange(t, u) PROVE (\A v \in Types : Legible(types'[v])) /\ WishFits'
  <2>1. PICK ns \in (SUBSET Of(t)) \ {{}}, fields \in Layouts \cap [DOMAIN types[u].fields -> 0..Len(types[t].fields)],
             templates \in TemplateMaps(types[t], types[u]) :
          form' = [schema |-> schema, notes |-> ns, old |-> t, new |-> u, fields |-> fields, templates |-> templates,
                   wish |-> WishOf(ns, types[t], types[u], u, fields, templates)]
    BY <1>4 DEF OpenChange
  <2>2. types' = types /\ schema' = schema BY <1>4 DEF OpenChange
  <2>3. ns \in SUBSET Notes BY <2>1 DEF Of
  <2>4. WishOf(ns, types[t], types[u], u, fields, templates) \in Wish BY <1>1, <2>1, <2>3, WishTyped DEF EInv
  <2> DEFINE wished == WishOf(ns, types[t], types[u], u, fields, templates)
  <2>5. wished.laid_out = (templates # <<>>) /\ (templates = <<>> => wished.cards = ByOrdinal(types[t], types[u]))
    BY DEF WishOf
  <2> HIDE DEF wished
  <2>6. templates = <<>> => wished = [wished EXCEPT !.cards = ByOrdinal(types[t], types[u])]
    BY <2>4, <2>5 DEF wished, Wish
  <2>7. ASSUME form' # NoForm PROVE WishBar' = wished
    <3>1. /\ form'.wish = wished /\ form'.templates = templates /\ form'.old = t /\ form'.new = u
      BY <2>1 DEF wished
    <3> QED BY <2>2, <2>6, <2>7, <3>1 DEF WishBar
  <2>8. WishFits'
    <3>1. SUFFICES ASSUME form' # NoForm PROVE WishFits' BY DEF WishFits
    <3>2. /\ form'.wish = wished /\ form'.templates = templates /\ form'.old = t /\ form'.new = u
          /\ form'.notes = ns /\ form'.fields = fields
      BY <2>1 DEF wished
    <3>3. wished \in Wish BY <2>4 DEF wished
    <3> QED BY <2>1, <2>2, <2>5, <2>7, <3>1, <3>2, <3>3 DEF WishFits, wished
  <2> QED BY <1>2, <2>2, <2>8
<1>5. CASE CloseChange \/ ChangeNotetype
  <2>1. types' = types /\ form' = NoForm BY <1>5 DEF CloseChange, ChangeNotetype
  <2> QED BY <1>2, <2>1 DEF WishFits
<1>8. types' = types => \A t \in Types : Appended(types[t], types'[t]) BY DEF Appended
<1>6. CASE CheckDatabase
  <2>1. types' = types /\ form' = form /\ schema' \in {schema, schema + 1} BY <1>6 DEF CheckDatabase
  <2> QED BY <1>1, <1>2, <1>8, <2>1, WishStays
<1>7. CASE \/ \E n \in Notes, t \in Types : AddNote(n, t)
           \/ \E n \in Notes : UpdateNote(n) \/ RemoveNote(n)
           \/ FindEmpty \/ CloseReport \/ \E keep \in BOOLEAN : DeleteEmpty(keep)
           \/ UNCHANGED vars
  <2>1. types' = types /\ form' = form /\ schema' = schema
    BY <1>7 DEF AddNote, UpdateNote, RemoveNote, FindEmpty, CloseReport, DeleteEmpty, vars
  <2> QED BY <1>1, <1>2, <1>8, <2>1, WishStays
<1> QED BY <1>1, <1>3, <1>4, <1>5, <1>6, <1>7, EditedAssumption DEF Next

---------------------------------------------------------------------------
(* The named view of the state.                                                *)

Supposed == Ordinary /\ Identified /\ Distinguished

(* What the named view has of the note types.                                  *)
TypeViews ==
  \A t \in Types : KindsBar[t] = types[t].kind /\ FrontsBar[t] = NamedFronts(types[t]) /\ FieldsBar[t] = FieldIdsOf(types[t])

LEMMA TypesSeen == TypeViews BY DEF TypeViews, KindsBar, FrontsBar, FieldsBar

(* A note's texts by field.                                                    *)
TextView(n) ==
  /\ notes[n].type \in Types
  /\ TextsBar[n].type = notes[n].type
  /\ TextsBar[n] = [type |-> notes[n].type,
                    text |-> [id \in FieldIdsOf(types[notes[n].type]) |-> TextsBar[n].text[id]]]
  /\ \A i \in DOMAIN types[notes[n].type].fields :
       TextsBar[n].text[types[notes[n].type].fields[i].id] = notes[n].fields[i]
  /\ TextsBar[n] # NoNote
TextViews ==
  /\ TextsBar = [n \in Notes |-> TextsBar[n]]
  /\ \A n \in Notes : IF Exists(n) THEN TextView(n) ELSE TextsBar[n] = NoNote

LEMMA TextsSeen == Supposed /\ EInv => TextViews
<1>1. SUFFICES ASSUME Supposed, EInv PROVE TextViews OBVIOUS
<1>2. TextsBar = [n \in Notes |-> TextsBar[n]] /\ \A n \in Notes : TextsBar[n] = NamedTexts(n) BY DEF TextsBar
<1>3. ASSUME NEW n \in Notes, Exists(n) PROVE TextView(n)
  <2> DEFINE t == notes[n].type
             fields == types[t].fields
             At(id) == CHOOSE i \in DOMAIN fields : fields[i].id = id
             text == [id \in FieldIdsOf(types[t]) |-> notes[n].fields[At(id)]]
  <2>2. t \in Types /\ notes[n].fields \in FieldTexts /\ DOMAIN notes[n].fields = DOMAIN fields
    BY <1>1, <1>3, ExistingNote DEF EInv, DInv, CInv, IInv, FieldsFit
  <2>3. NamedTexts(n) = [type |-> t, text |-> text] BY <1>3 DEF NamedTexts
  <2>4. Apart(fields, MaxFields) BY <1>1, <2>2 DEF EInv, DInv, ToldApart
  <2>5. \A i \in DOMAIN fields : At(fields[i].id) = i BY <2>4, FoundById
  <2>6. \A i \in DOMAIN fields : fields[i].id \in FieldIdsOf(types[t]) BY DEF FieldIdsOf
  <2> HIDE DEF At
  <2>7. \A i \in DOMAIN fields : text[fields[i].id] = notes[n].fields[i] BY <2>5, <2>6
  <2>8. text \in [FieldIdsOf(types[t]) -> Texts]
    <3>1. \A i \in DOMAIN fields : notes[n].fields[i] \in Texts BY <2>2 DEF FieldTexts
    <3>2. \A id \in FieldIdsOf(types[t]) : \E i \in DOMAIN fields : id = fields[i].id BY DEF FieldIdsOf
    <3>3. \A id \in FieldIdsOf(types[t]) : text[id] \in Texts BY <2>7, <3>1, <3>2
    <3> QED BY <3>3
  <2>9. FieldIdsOf(types[t]) \in SUBSET FieldIds BY <2>4 DEF FieldIdsOf, Apart, FieldIds
  <2>10. text = [id \in FieldIdsOf(types[t]) |-> text[id]] OBVIOUS
  <2> HIDE DEF text
  <2>11. NamedTexts(n) \in NamedText BY <2>2, <2>3, <2>8, <2>9 DEF NamedText
  <2>12. TextsBar[n].type = t /\ TextsBar[n].text = text BY <1>2, <2>3
  <2>13. TextsBar[n] = [type |-> t, text |-> [id \in FieldIdsOf(types[t]) |-> TextsBar[n].text[id]]]
    BY <1>2, <2>3, <2>10, <2>12
  <2>14. TextsBar[n] # NoNote BY <1>1, <1>2, <2>11 DEF Supposed, Distinguished
  <2> QED BY <2>2, <2>7, <2>12, <2>13, <2>14 DEF TextView
<1>4. ASSUME NEW n \in Notes, ~Exists(n) PROVE TextsBar[n] = NoNote BY <1>2, <1>4 DEF NamedTexts
<1> QED BY <1>2, <1>3, <1>4 DEF TextViews

(* Cards of different card types differ in the named view.                      *)
ShownBy(n, nt, text) == {CardName(nt, w.ord) : w \in CardsRequired(n, nt, text, {})}

CardNamesDiffer ==
  \A t \in Types :
    /\ \A o, p \in OrdsOf(types[t]) : CardName(types[t], o) = CardName(types[t], p) => o = p
    /\ DOMAIN NamedFronts(types[t]) = {CardName(types[t], o) : o \in OrdsOf(types[t])}

LEMMA NamesDiffer == Supposed /\ EInv => CardNamesDiffer
<1>1. SUFFICES ASSUME Supposed, EInv, NEW t \in Types
      PROVE /\ \A o, p \in OrdsOf(types[t]) : CardName(types[t], o) = CardName(types[t], p) => o = p
            /\ DOMAIN NamedFronts(types[t]) = {CardName(types[t], o) : o \in OrdsOf(types[t])}
  BY DEF CardNamesDiffer
<1>2. Counted(types[t]) /\ ToldApart(types[t]) BY <1>1 DEF EInv, DInv, CInv, TypesCounted
<1>3. CASE types[t].kind = Normal
  <2>1. \A o \in OrdsOf(types[t]) : o \in DOMAIN types[t].templates /\ CardName(types[t], o) = types[t].templates[o].id
    BY <1>3 DEF OrdsOf, CardName, Normal, Cloze
  <2>2. DOMAIN NamedFronts(types[t]) = {types[t].templates[i].id : i \in DOMAIN types[t].templates}
    BY <1>3 DEF NamedFronts, Normal, Cloze
  <2>3. OrdsOf(types[t]) = DOMAIN types[t].templates BY <1>3 DEF OrdsOf
  <2>4. \A o, p \in OrdsOf(types[t]) : CardName(types[t], o) = CardName(types[t], p) => o = p
    BY <1>2, <2>1 DEF ToldApart, Apart
  <2> QED BY <2>1, <2>2, <2>3, <2>4
<1>4. CASE types[t].kind = Cloze
  <2>1. OrdsOf(types[t]) = 1..LastOrd /\ \A o : CardName(types[t], o) = o BY <1>4 DEF OrdsOf, CardName, Normal, Cloze
  <2>2. DOMAIN NamedFronts(types[t]) = 1..LastOrd BY <1>4 DEF NamedFronts
  <2> QED BY <2>1, <2>2
<1> QED BY <1>2, <1>3, <1>4 DEF Counted

(* The ordinals a note calls for.                                              *)
Requires(n, nt, text, ord) == \E w \in CardsRequired(n, nt, text, {}) : w.ord = ord

LEMMA WhatIsRequired ==
  ASSUME NEW n, NEW nt, NEW text, NEW ord
  PROVE Requires(n, nt, text, ord) <=>
          IF nt.kind = Normal THEN ord \in DOMAIN nt.templates /\ Renders(nt.templates[ord], nt, text)
          ELSE \E j \in ClozesIn(text) : ord = Least(j, LastOrd)
<1>1. CASE nt.kind = Normal
  <2> DEFINE shown == {i \in DOMAIN nt.templates \ {} : Renders(nt.templates[i], nt, text)}
             W(i) == [note |-> n, ord |-> i, number |-> i]
  <2>1. CardsRequired(n, nt, text, {}) = {W(i) : i \in shown} BY <1>1 DEF CardsRequired
  <2>2. \A i : W(i).ord = i OBVIOUS
  <2> HIDE DEF W
  <2>3. Requires(n, nt, text, ord) <=> ord \in shown BY <2>1, <2>2 DEF Requires
  <2> QED BY <1>1, <2>3
<1>2. CASE nt.kind # Normal
  <2> DEFINE W(k) == [note |-> n, ord |-> Least(k, LastOrd), number |-> k]
  <2>1. CardsRequired(n, nt, text, {}) = {w \in {W(k) : k \in ClozesIn(text)} : w.ord \notin {}}
    BY <1>2 DEF CardsRequired
  <2>2. \A k : W(k).ord = Least(k, LastOrd) OBVIOUS
  <2> HIDE DEF W
  <2>3. Requires(n, nt, text, ord) <=> \E j \in ClozesIn(text) : ord = Least(j, LastOrd) BY <2>1, <2>2 DEF Requires
  <2> QED BY <1>2, <2>3
<1> QED BY <1>1, <1>2

(* In the named view a note shows what it calls for.                           *)
Showings == \A n \in Notes : Exists(n) => Named!Showing(n) = ShownBy(n, types[notes[n].type], notes[n].fields)

LEMMA ShowingsSeen == Supposed /\ EInv => Showings
<1>1. SUFFICES ASSUME Supposed, EInv, NEW n \in Notes, Exists(n)
      PROVE Named!Showing(n) = ShownBy(n, types[notes[n].type], notes[n].fields)
  BY DEF Showings
<1> DEFINE t == notes[n].type
           nt == types[t]
           text == notes[n].fields
           named == TextsBar[n].text
<1>2. /\ t \in Types /\ TextsBar[n].type = t
      /\ \A i \in DOMAIN nt.fields : named[nt.fields[i].id] = text[i]
  BY <1>1, TextsSeen DEF TextViews, TextView
<1>3. /\ Counted(nt) /\ ToldApart(nt) /\ DOMAIN text = DOMAIN nt.fields
  BY <1>1, <1>2 DEF EInv, DInv, CInv, TypesCounted, IInv, FieldsFit
<1>4. KindsBar[t] = nt.kind /\ FrontsBar[t] = NamedFronts(nt) /\ FieldsBar[t] = FieldIdsOf(nt)
  BY <1>2, TypesSeen DEF TypeViews
<1> HIDE DEF named
<1>5. CASE nt.kind = Normal
  <2> DEFINE shown == {i \in DOMAIN nt.templates : Renders(nt.templates[i], nt, text)}
  <2>1. \A i \in DOMAIN nt.templates : (\E f \in FrontIds(nt, i) : named[f] # NoText) <=> Renders(nt.templates[i], nt, text)
    <3>1. SUFFICES ASSUME NEW i \in DOMAIN nt.templates
          PROVE (\E f \in FrontIds(nt, i) : named[f] # NoText) <=> Renders(nt.templates[i], nt, text)
      OBVIOUS
    <3>2. FrontIds(nt, i) = {nt.fields[j].id : j \in {j \in DOMAIN nt.fields : nt.fields[j].name \in nt.templates[i].front}}
      BY DEF FrontIds
    <3> QED BY <1>2, <1>3, <3>2 DEF Renders
  <2>2. DOMAIN FrontsBar[t] = {nt.templates[i].id : i \in DOMAIN nt.templates}
        /\ \A i \in DOMAIN nt.templates : FrontsBar[t][nt.templates[i].id] = FrontIds(nt, i)
    <3> DEFINE At(id) == CHOOSE i \in DOMAIN nt.templates : nt.templates[i].id = id
               ids == {nt.templates[i].id : i \in DOMAIN nt.templates}
    <3>1. FrontsBar[t] = [id \in ids |-> FrontIds(nt, At(id))] BY <1>4, <1>5 DEF NamedFronts, Normal, Cloze
    <3>2. \A i \in DOMAIN nt.templates : At(nt.templates[i].id) = i BY <1>3, FoundById DEF ToldApart
    <3>3. \A i \in DOMAIN nt.templates : nt.templates[i].id \in ids OBVIOUS
    <3> HIDE DEF At
    <3>4. \A i \in DOMAIN nt.templates : FrontsBar[t][nt.templates[i].id] = FrontIds(nt, i) BY <3>1, <3>2, <3>3
    <3>5. DOMAIN FrontsBar[t] = ids BY <3>1
    <3> QED BY <3>4, <3>5
  <2>3. Named!Showing(n) = {k \in DOMAIN FrontsBar[t] : \E f \in FrontsBar[t][k] : named[f] # NoText}
    BY <1>2, <1>4, <1>5 DEF Named!Showing, Normal, named
  <2>4. \A k : k \in Named!Showing(n) <=> \E i \in shown : k = nt.templates[i].id
    <3>1. \A k : k \in Named!Showing(n) <=> k \in DOMAIN FrontsBar[t] /\ \E f \in FrontsBar[t][k] : named[f] # NoText
      BY <2>3
    <3> QED BY <2>1, <2>2, <3>1
  <2>5. \A i \in DOMAIN nt.templates : CardName(nt, i) = nt.templates[i].id BY <1>5 DEF CardName, Normal, Cloze
  <2>6. \A o : Requires(n, nt, text, o) <=> o \in shown BY <1>5, WhatIsRequired
  <2>7. \A k : k \in ShownBy(n, nt, text) <=> \E i \in shown : k = nt.templates[i].id
    <3>1. \A k : k \in ShownBy(n, nt, text) <=> \E w \in CardsRequired(n, nt, text, {}) : k = CardName(nt, w.ord) BY DEF ShownBy
    <3>2. shown \subseteq DOMAIN nt.templates OBVIOUS
    <3> HIDE DEF shown
    <3> QED BY <2>5, <2>6, <3>1, <3>2 DEF Requires
  <2> QED BY <2>4, <2>7
<1>6. CASE nt.kind # Normal
  <2>1. UNION {Clozes[named[f]] : f \in FieldIdsOf(nt)} = ClozesIn(text)
    <3>1. \A f \in FieldIdsOf(nt) : \E i \in DOMAIN text : named[f] = text[i] BY <1>2, <1>3 DEF FieldIdsOf
    <3>2. \A i \in DOMAIN text : \E f \in FieldIdsOf(nt) : named[f] = text[i] BY <1>2, <1>3 DEF FieldIdsOf
    <3> QED BY <3>1, <3>2 DEF ClozesIn
  <2>2. nt.kind = Cloze BY <1>3, <1>6 DEF Counted
  <2>3. \A o : Requires(n, nt, text, o) <=> \E j \in ClozesIn(text) : o = Least(j, LastOrd) BY <1>6, WhatIsRequired
  <2>4. \A o : CardName(nt, o) = o BY <2>2 DEF CardName
  <2>5. \A k : k \in ShownBy(n, nt, text) <=> \E j \in ClozesIn(text) : k = Least(j, LastOrd)
    <3>1. \A k : k \in ShownBy(n, nt, text) <=> \E w \in CardsRequired(n, nt, text, {}) : k = w.ord BY <2>4 DEF ShownBy
    <3> QED BY <2>3, <3>1 DEF Requires
  <2>6. Named!Showing(n) = {IF k < LastOrd THEN k ELSE LastOrd : k \in UNION {Clozes[named[f]] : f \in FieldIdsOf(nt)}}
    BY <1>2, <1>4, <1>6 DEF Named!Showing, Normal, named
  <2>7. \A k : k \in Named!Showing(n) <=> \E j \in ClozesIn(text) : k = Least(j, LastOrd)
    BY <2>1, <2>6 DEF Least
  <2> QED BY <2>5, <2>7
<1> QED BY <1>5, <1>6

(* A note that calls for no more cards has one of each ordinal it calls for.   *)
LEMMA NothingMissing ==
  ASSUME NEW n, NEW nt, NEW text, NEW have, CardsRequired(n, nt, text, have) = {}, NEW ord, Requires(n, nt, text, ord)
  PROVE ord \in have
<1>1. SUFFICES ASSUME ord \notin have PROVE \E w : w \in CardsRequired(n, nt, text, have) OBVIOUS
<1>2. CASE nt.kind = Normal
  <2>1. ord \in DOMAIN nt.templates \ have /\ Renders(nt.templates[ord], nt, text) BY <1>1, <1>2, WhatIsRequired
  <2> QED BY <1>2, <2>1 DEF CardsRequired
<1>3. CASE nt.kind # Normal
  <2>1. PICK j \in ClozesIn(text) : ord = Least(j, LastOrd) BY <1>3, WhatIsRequired
  <2> DEFINE w == [note |-> n, ord |-> Least(j, LastOrd), number |-> j]
  <2>2. w.ord = ord BY <2>1
  <2>3. w \in CardsRequired(n, nt, text, have) BY <1>1, <1>3, <2>1, <2>2 DEF CardsRequired
  <2> QED BY <2>3
<1> QED BY <1>2, <1>3

(* The cards in the named view: of the same notes, and each of its card type.  *)
CardView(c) ==
  /\ CardsBar[c] = [note |-> cards[c].note, of |-> CardsBar[c].of]
  /\ CardsBar[c].of = CardName(types[notes[cards[c].note].type], cards[c].ord)
  /\ CardsBar[c].note = cards[c].note /\ cards[c].note \in Notes /\ Exists(cards[c].note)
  /\ notes[cards[c].note].type \in Types /\ cards[c].ord \in OrdsOf(types[notes[cards[c].note].type])
CardViews ==
  /\ CardsBar = [c \in DOMAIN cards |-> CardsBar[c]]
  /\ \A c \in DOMAIN cards : CardView(c)
  /\ \A n \in Notes : Named!CardsOf(n) = CardsOf(cards, n)

LEMMA CardsSeen == Supposed /\ EInv => CardViews
<1>1. SUFFICES ASSUME Supposed, EInv PROVE CardViews OBVIOUS
<1>2. CardsBar = [c \in DOMAIN cards |-> CardsBar[c]] /\ \A c \in DOMAIN cards : CardsBar[c] = NamedCard(c) BY DEF CardsBar
<1>3. CardsTyped(cards) /\ Placed(cards, notes, types) /\ IInv BY <1>1 DEF EInv, DInv, CInv
<1>4. ASSUME NEW c \in DOMAIN cards PROVE CardView(c)
  <2>1. cards[c].note \in Notes BY <1>3 DEF CardsTyped, Card
  <2>2. Exists(cards[c].note) /\ cards[c].ord \in OrdsOf(types[notes[cards[c].note].type]) BY <1>3 DEF Placed, Exists
  <2>3. notes[cards[c].note].type \in Types BY <1>3, <2>1, <2>2, ExistingNote
  <2> QED BY <1>2, <2>1, <2>2, <2>3 DEF NamedCard, CardView
<1>5. \A c \in DOMAIN cards : CardsBar[c].note = cards[c].note BY <1>4 DEF CardView
<1>6. DOMAIN CardsBar = DOMAIN cards BY <1>2
<1>7. \A n \in Notes : Named!CardsOf(n) = CardsOf(cards, n) BY <1>5, <1>6 DEF Named!CardsOf, CardsOf
<1> QED BY <1>2, <1>4, <1>7 DEF CardViews

NoteViews ==
  \A n \in Notes :
    /\ Named!Exists(n) <=> Exists(n)
    /\ Complete(n) => Named!Complete(n)
    /\ Exists(n) => \A ord : Requires(n, types[notes[n].type], notes[n].fields, ord) =>
                               CardName(types[notes[n].type], ord) \in Named!Showing(n)
    /\ \A ord : Ords(cards, n) = {ord} => Named!Having(n) = {CardName(types[notes[n].type], ord)}

LEMMA NotesSeen == Supposed /\ EInv => NoteViews
<1>1. SUFFICES ASSUME Supposed, EInv, NEW n \in Notes
      PROVE /\ Named!Exists(n) <=> Exists(n)
            /\ Complete(n) => Named!Complete(n)
            /\ Exists(n) => \A ord : Requires(n, types[notes[n].type], notes[n].fields, ord) =>
                                       CardName(types[notes[n].type], ord) \in Named!Showing(n)
            /\ \A ord : Ords(cards, n) = {ord} => Named!Having(n) = {CardName(types[notes[n].type], ord)}
  BY DEF NoteViews
<1> DEFINE nt == types[notes[n].type]
           text == notes[n].fields
<1>2. Named!Exists(n) <=> Exists(n) BY <1>1, TextsSeen DEF TextViews, TextView, Named!Exists
<1>3. CardViews BY <1>1, CardsSeen
<1>4. \A c \in CardsOf(cards, n) : c \in DOMAIN cards /\ CardsBar[c].of = CardName(nt, cards[c].ord)
  BY <1>3 DEF CardViews, CardView, CardsOf
<1>5. \A k : k \in Named!Having(n) <=> \E c \in CardsOf(cards, n) : k = CardName(nt, cards[c].ord)
  BY <1>3, <1>4 DEF CardViews, Named!Having
<1>6. ASSUME NEW ord, Exists(n), Requires(n, nt, text, ord) PROVE CardName(nt, ord) \in Named!Showing(n)
  <2>1. Named!Showing(n) = ShownBy(n, nt, text) BY <1>1, <1>6, ShowingsSeen DEF Showings
  <2>2. CardName(nt, ord) \in ShownBy(n, nt, text) BY <1>6 DEF ShownBy, Requires
  <2> QED BY <2>1, <2>2
<1>7. ASSUME NEW ord, Ords(cards, n) = {ord} PROVE Named!Having(n) = {CardName(nt, ord)}
  <2>1. (\E c : c \in CardsOf(cards, n)) /\ \A c \in CardsOf(cards, n) : cards[c].ord = ord BY <1>7 DEF Ords
  <2>2. \A k : k \in Named!Having(n) <=> k = CardName(nt, ord) BY <1>5, <2>1
  <2> QED BY <2>2
<1>8. ASSUME Complete(n) PROVE Named!Complete(n)
  <2>1. Exists(n) /\ CardsRequired(n, nt, text, Ords(cards, n)) = {} BY <1>8 DEF Complete
  <2>2. Named!Showing(n) = ShownBy(n, nt, text) BY <1>1, <2>1, ShowingsSeen DEF Showings
  <2>3. ASSUME NEW k \in Named!Showing(n) PROVE k \in Named!Having(n)
    <3>1. PICK w \in CardsRequired(n, nt, text, {}) : k = CardName(nt, w.ord) BY <2>2, <2>3 DEF ShownBy
    <3>2. Requires(n, nt, text, w.ord) BY <3>1 DEF Requires
    <3>3. w.ord \in Ords(cards, n) BY <2>1, <3>2, NothingMissing
    <3> QED BY <1>5, <3>1, <3>3 DEF Ords
  <2> QED BY <1>2, <2>1, <2>3 DEF Named!Complete
<1> QED BY <1>2, <1>6, <1>7, <1>8

(* The named view of a state, and that it is there after a step too.           *)
Views == TypeViews /\ TextViews /\ CardNamesDiffer /\ Showings /\ CardViews /\ NoteViews

LEMMA Seen == Supposed /\ EInv => Views
  BY TypesSeen, TextsSeen, NamesDiffer, ShowingsSeen, CardsSeen, NotesSeen DEF Views

LEMMA SeenAfter == Supposed /\ EInv' => Views'
<1>1. (Supposed /\ EInv => Views)' BY Seen, PTL
<1>2. Supposed' <=> Supposed BY DEF Supposed, Ordinary, Identified, Distinguished
<1> QED BY <1>1, <1>2

---------------------------------------------------------------------------
(* What the steps do in the named view.                                        *)

(* Only cards that are called for are new.                                     *)
LEMMA GainSeen ==
  ASSUME Views, Views', NEW cs, DOMAIN cs \subseteq DOMAIN cards, NEW which, Filled(cs, notes', types', which)
  PROVE Named!OnlyGain
<1>1. DOMAIN CardsBar = DOMAIN cards /\ DOMAIN CardsBar' = DOMAIN cards' BY DEF Views, CardViews
<1>2. SUFFICES ASSUME NEW c \in DOMAIN cards' \ DOMAIN cards
      PROVE \E n \in Notes :
              /\ CardsBar'[c].note = n /\ Named!Exists(n)'
              /\ CardsBar'[c].of \in Named!Showing(n)' \/ Named!Having(n)' = {CardsBar'[c].of}
  BY <1>1 DEF Named!OnlyGain
<1>3. c \in DOMAIN cards' /\ CardView(c)' BY <1>2 DEF Views, CardViews
<1>4. PICK n, ord : n \in Notes /\ n = cards'[c].note /\ ord = cards'[c].ord BY <1>3 DEF CardView
<1> DEFINE nt == types'[notes'[n].type]
<1>5. CardsBar'[c].note = n /\ CardsBar'[c].of = CardName(nt, ord) /\ Exists(n)' BY <1>3, <1>4 DEF CardView
<1>6. /\ Named!Exists(n)'
      /\ Requires(n, nt, notes'[n].fields, ord) => CardName(nt, ord) \in Named!Showing(n)'
      /\ Ords(cards', n) = {ord} => Named!Having(n)' = {CardName(nt, ord)}
  BY <1>4, <1>5 DEF Views, NoteViews
<1>7. CalledFor(n, ord, nt, notes'[n].fields, Ords(cards', n)) BY <1>2, <1>4 DEF Filled
<1> QED BY <1>4, <1>5, <1>6, <1>7 DEF CalledFor, Requires

(* A card that keeps its note and its card type is the same.                   *)
LEMMA KeptSeen ==
  ASSUME Views, Views', NEW c \in DOMAIN cards, c \in DOMAIN cards', cards'[c].note = cards[c].note,
         CardName(types'[notes'[cards[c].note].type], cards'[c].ord) = CardName(types[notes[cards[c].note].type], cards[c].ord)
  PROVE c \in DOMAIN CardsBar' /\ CardsBar'[c] = CardsBar[c]
<1>1. CardView(c) /\ CardView(c)' BY DEF Views, CardViews
<1>2. CardsBar[c].of = CardsBar'[c].of BY <1>1 DEF CardView
<1>3. CardsBar'[c] = CardsBar[c] BY <1>1, <1>2 DEF CardView
<1>4. DOMAIN CardsBar' = DOMAIN cards' BY DEF Views, CardViews
<1> QED BY <1>3, <1>4

LEMMA LoseSeen ==
  ASSUME Views, Views', types' = types, NEW gone,
         \A c \in DOMAIN cards \ gone :
           c \in DOMAIN cards' /\ cards'[c] = cards[c] /\ notes'[cards[c].note].type = notes[cards[c].note].type
  PROVE Named!OnlyLose(gone)
<1>1. DOMAIN CardsBar = DOMAIN cards BY DEF Views, CardViews
<1>2. ASSUME NEW c \in DOMAIN cards \ gone PROVE c \in DOMAIN CardsBar' /\ CardsBar'[c] = CardsBar[c]
  BY <1>2, KeptSeen
<1> QED BY <1>1, <1>2 DEF Named!OnlyLose

(* A note that stays the same, as does its type.                               *)
LEMMA SameText ==
  ASSUME NEW n \in Notes, notes'[n] = notes[n], Exists(n) => types'[notes[n].type] = types[notes[n].type]
  PROVE TextsBar'[n] = TextsBar[n]
<1>1. TextsBar[n] = NamedTexts(n) /\ TextsBar'[n] = NamedTexts(n)' BY DEF TextsBar
<1>2. CASE Exists(n)
  <2> DEFINE G(nt, x) == [type |-> x.type,
                          text |-> [id \in FieldIdsOf(nt) |-> x.fields[CHOOSE i \in DOMAIN nt.fields : nt.fields[i].id = id]]]
  <2>1. Exists(n)' BY <1>2 DEF Exists
  <2>2. NamedTexts(n) = G(types[notes[n].type], notes[n]) BY <1>2 DEF NamedTexts
  <2>3. NamedTexts(n)' = G(types'[notes'[n].type], notes'[n]) BY <2>1 DEF NamedTexts
  <2> HIDE DEF G
  <2> QED BY <1>1, <1>2, <2>2, <2>3
<1>3. CASE ~Exists(n) BY <1>1, <1>3 DEF NamedTexts, Exists
<1> QED BY <1>2, <1>3

(* Types, the laid out change and the report do not change by themselves.      *)
LEMMA FrameSeen ==
  /\ types' = types => UNCHANGED <<KindsBar, FrontsBar, FieldsBar>>
  /\ types' = types /\ form' = form => UNCHANGED WishBar
  /\ report' = report => UNCHANGED Reported
<1>1. types' = types => UNCHANGED <<KindsBar, FrontsBar, FieldsBar>> BY DEF KindsBar, FrontsBar, FieldsBar
<1>2. types' = types /\ form' = form => UNCHANGED WishBar BY DEF WishBar
<1>3. report' = report => UNCHANGED Reported BY DEF Reported
<1> QED BY <1>1, <1>2, <1>3

(* Notes for which cards were generated.                                       *)
LEMMA FillSeen ==
  ASSUME Views', NEW cs, NEW which, Filled(cs, notes', types', which), NEW n \in Notes, n \in which, Exists(n)'
  PROVE Named!Complete(n)' /\ Named!CardsOf(n)' # {}
<1>1. Complete(n)' BY DEF Filled, Complete
<1>2. CardsOf(cards', n) # {} BY DEF Filled
<1> QED BY <1>1, <1>2 DEF Views, NoteViews, CardViews

LEMMA AddNoteSeen ==
  ASSUME Supposed, EInv, EInv', NEW n \in Notes, NEW t \in Types, AddNote(n, t)
  PROVE Named!AddNote(n)
<1>1. Views /\ Views' BY Seen, SeenAfter
<1>2. PICK text \in [DOMAIN types[t].fields -> Texts] : notes' = [notes EXCEPT ![n] = [type |-> t, fields |-> text]]
  BY DEF AddNote
<1>3. ~Exists(n) /\ UNCHANGED <<types, form, report>> BY DEF AddNote
<1>4. CInv' /\ Filled(cards, notes', types', {n})
  <2>1. Ordinary /\ CInv /\ IInv' BY DEF Supposed, EInv, DInv, CInv
  <2>2. Filled(cards, notes', types, {n}) /\ types' = types BY <1>3, <2>1, AddNoteFits
  <2> QED BY <2>1, <2>2, AddNoteFits
<1>5. \A m \in Notes \ {n} : notes'[m] = notes[m] BY <1>2 DEF EInv, DInv, CInv, IInv, NotesTyped
<1>6. Exists(n)'
  <2>1. CardsOf(cards', n) # {} BY <1>4 DEF Filled
  <2>2. PICK c \in DOMAIN cards' : cards'[c].note = n BY <2>1 DEF CardsOf
  <2>3. CardView(c)' BY <1>1, <2>2 DEF Views, CardViews
  <2> QED BY <2>2, <2>3 DEF CardView, Exists
<1>7. Named!Complete(n)' /\ Named!CardsOf(n)' # {} BY <1>1, <1>4, <1>6, FillSeen
<1>8. Named!OnlyGain BY <1>1, <1>4, GainSeen
<1>9. Named!OnlyLose({})
  <2>1. ASSUME NEW c \in DOMAIN cards
        PROVE c \in DOMAIN cards' /\ cards'[c] = cards[c] /\ notes'[cards[c].note].type = notes[cards[c].note].type
    <3>1. cards[c].note \in Notes \ {n} BY <1>1, <1>3, <2>1 DEF Views, CardViews, CardView
    <3> QED BY <1>4, <1>5, <2>1, <3>1 DEF Filled
  <2> QED BY <1>1, <1>3, <2>1, LoseSeen
<1>10. \A m \in Notes \ {n} : TextsBar'[m] = TextsBar[m] BY <1>3, <1>5, SameText
<1>11. ~Named!Exists(n) BY <1>1, <1>3 DEF Views, NoteViews
<1>12. UNCHANGED <<KindsBar, FrontsBar, FieldsBar, WishBar, Reported>> BY <1>3, FrameSeen
<1> QED BY <1>7, <1>8, <1>9, <1>10, <1>11, <1>12 DEF Named!AddNote

LEMMA UpdateNoteSeen ==
  ASSUME Supposed, EInv, EInv', NEW n \in Notes, UpdateNote(n)
  PROVE Named!UpdateNote(n)
<1>1. Views /\ Views' BY Seen, SeenAfter
<1>2. PICK i \in DOMAIN notes[n].fields, x \in Texts : notes' = [notes EXCEPT ![n].fields[i] = x] BY DEF UpdateNote
<1>3. Exists(n) /\ UNCHANGED <<types, form, report>> BY DEF UpdateNote
<1>4. CInv' /\ Filled(cards, notes', types', {n})
  <2>1. Ordinary /\ CInv /\ IInv' BY DEF Supposed, EInv, DInv, CInv
  <2>2. Filled(cards, notes', types, {n}) /\ types' = types BY <1>3, <2>1, UpdateNoteFits
  <2> QED BY <2>1, <2>2, UpdateNoteFits
<1>5. \A m \in Notes \ {n} : notes'[m] = notes[m] BY <1>2 DEF EInv, DInv, CInv, IInv, NotesTyped
<1>6. notes'[n].type = notes[n].type
  <2>1. notes[n] \in Note /\ notes \in [Notes -> Note \cup {NoNote}] BY <1>3, ExistingNote DEF EInv, DInv, CInv, IInv, NotesTyped
  <2>2. notes'[n] = [notes[n] EXCEPT !.fields = [notes[n].fields EXCEPT ![i] = x]] BY <1>2, <2>1
  <2> QED BY <2>1, <2>2 DEF Note
<1>7. Exists(n)'
  <2>1. CardsOf(cards', n) # {} BY <1>4 DEF Filled
  <2>2. PICK c \in DOMAIN cards' : cards'[c].note = n BY <2>1 DEF CardsOf
  <2>3. CardView(c)' BY <1>1, <2>2 DEF Views, CardViews
  <2> QED BY <2>2, <2>3 DEF CardView, Exists
<1>8. Named!Complete(n)' BY <1>1, <1>4, <1>7, FillSeen
<1>9. Named!OnlyGain BY <1>1, <1>4, GainSeen
<1>10. Named!OnlyLose({})
  <2>1. ASSUME NEW c \in DOMAIN cards
        PROVE c \in DOMAIN cards' /\ cards'[c] = cards[c] /\ notes'[cards[c].note].type = notes[cards[c].note].type
    <3>1. cards[c].note \in Notes BY <1>1, <2>1 DEF Views, CardViews, CardView
    <3> QED BY <1>4, <1>5, <1>6, <2>1, <3>1 DEF Filled
  <2> QED BY <1>1, <1>3, <2>1, LoseSeen
<1>11. \A m \in Notes \ {n} : TextsBar'[m] = TextsBar[m] BY <1>3, <1>5, SameText
<1>12. Named!Exists(n) BY <1>1, <1>3 DEF Views, NoteViews
<1>13. TextsBar'[n].type = TextsBar[n].type
  <2>1. TextView(n) /\ TextView(n)' BY <1>1, <1>3, <1>7 DEF Views, TextViews
  <2> QED BY <1>6, <2>1 DEF TextView
<1>14. UNCHANGED <<KindsBar, FrontsBar, FieldsBar, WishBar, Reported>> BY <1>3, FrameSeen
<1> QED BY <1>8, <1>9, <1>10, <1>11, <1>12, <1>13, <1>14 DEF Named!UpdateNote

LEMMA RemoveNoteSeen ==
  ASSUME Supposed, EInv, EInv', NEW n \in Notes, RemoveNote(n)
  PROVE Named!RemoveNote(n)
<1>1. Views /\ Views' BY Seen, SeenAfter
<1>2. Exists(n) /\ UNCHANGED <<types, form, report>> BY DEF RemoveNote
<1>3. /\ DOMAIN cards' = DOMAIN cards \ CardsOf(cards, n)
      /\ \A c \in DOMAIN cards' : cards'[c] = cards[c]
  BY DEF RemoveNote, Without
<1>4. notes' = [notes EXCEPT ![n] = NoNote] BY DEF RemoveNote
<1>5. notes'[n] = NoNote /\ \A m \in Notes \ {n} : notes'[m] = notes[m] BY <1>4 DEF EInv, DInv, CInv, IInv, NotesTyped
<1>6. DOMAIN CardsBar = DOMAIN cards /\ DOMAIN CardsBar' = DOMAIN cards' /\ Named!CardsOf(n) = CardsOf(cards, n)
  BY <1>1 DEF Views, CardViews
<1>7. Named!OnlyLose(Named!CardsOf(n))
  <2>1. ASSUME NEW c \in DOMAIN cards \ CardsOf(cards, n)
        PROVE c \in DOMAIN cards' /\ cards'[c] = cards[c] /\ notes'[cards[c].note].type = notes[cards[c].note].type
    <3>1. cards[c].note \in Notes \ {n} BY <1>1, <2>1 DEF Views, CardViews, CardView, CardsOf
    <3> QED BY <1>3, <1>5, <2>1, <3>1
  <2>2. Named!OnlyLose(CardsOf(cards, n)) BY <1>1, <1>2, <2>1, LoseSeen
  <2> QED BY <1>6, <2>2
<1>8. Named!Lost = Named!CardsOf(n) /\ DOMAIN CardsBar' \subseteq DOMAIN CardsBar
  <2>1. CardsOf(cards, n) \subseteq DOMAIN cards BY DEF CardsOf
  <2> QED BY <1>3, <1>6, <2>1 DEF Named!Lost
<1>9. TextsBar' = [TextsBar EXCEPT ![n] = NoNote]
  <2>1. \A m \in Notes \ {n} : TextsBar'[m] = TextsBar[m] BY <1>2, <1>5, SameText
  <2>2. TextsBar'[n] = NoNote
    <3>1. ~Exists(n)' BY <1>5 DEF Exists
    <3> QED BY <1>1, <3>1 DEF Views, TextViews
  <2>3. TextsBar' = [m \in Notes |-> TextsBar'[m]] /\ TextsBar = [m \in Notes |-> TextsBar[m]] BY <1>1 DEF Views, TextViews
  <2> QED BY <2>1, <2>2, <2>3
<1>10. Named!Exists(n) BY <1>1, <1>2 DEF Views, NoteViews
<1>11. UNCHANGED <<KindsBar, FrontsBar, FieldsBar, WishBar, Reported>> BY <1>2, FrameSeen
<1> QED BY <1>7, <1>8, <1>9, <1>10, <1>11 DEF Named!RemoveNote

(* Notes and cards that stay, with their types, are the same.                  *)
LEMMA StaySeen ==
  ASSUME types' = types, notes' = notes, cards' = cards
  PROVE UNCHANGED <<KindsBar, FrontsBar, FieldsBar, TextsBar, CardsBar>>
<1>1. UNCHANGED <<KindsBar, FrontsBar, FieldsBar>> BY FrameSeen
<1>2. \A n \in Notes : TextsBar'[n] = TextsBar[n] BY SameText
<1>3. TextsBar' = TextsBar
  <2>1. DOMAIN TextsBar = Notes /\ DOMAIN TextsBar' = Notes BY DEF TextsBar
  <2>2. TextsBar = [n \in Notes |-> TextsBar[n]] /\ TextsBar' = [n \in Notes |-> TextsBar'[n]] BY DEF TextsBar
  <2> QED BY <1>2, <2>2
<1>4. CardsBar' = CardsBar BY DEF CardsBar, NamedCard
<1> QED BY <1>1, <1>3, <1>4

LEMMA DialogsSeen ==
  ASSUME Supposed, EInv', (\E t, u \in Types : OpenChange(t, u)) \/ CloseChange
  PROVE Named!OpenChange \/ Named!CloseChange \/ UNCHANGED Named!vars
<1>1. UNCHANGED <<types, notes, cards, report>> BY DEF OpenChange, CloseChange
<1>2. UNCHANGED <<KindsBar, FrontsBar, FieldsBar, TextsBar, CardsBar, Reported>> BY <1>1, StaySeen, FrameSeen
<1>3. CASE form' = form
  <2>1. UNCHANGED WishBar BY <1>1, <1>3, FrameSeen
  <2> QED BY <1>2, <2>1 DEF Named!vars
<1>4. CASE form' # form /\ \E t, u \in Types : OpenChange(t, u)
  <2>1. form = NoForm BY <1>4 DEF OpenChange
  <2>2. WishBar' \in Wish BY <1>4, <2>1, WishSeenAfter DEF Supposed
  <2>3. WishBar = NoForm /\ WishBar' # NoForm BY <2>1, <2>2 DEF WishBar, Supposed, Distinguished
  <2> QED BY <1>2, <2>3 DEF Named!OpenChange
<1>5. CASE CloseChange
  <2>1. WishBar' = NoForm BY <1>5 DEF CloseChange, WishBar
  <2> QED BY <1>2, <2>1 DEF Named!CloseChange
<1> QED BY <1>3, <1>4, <1>5

(* The empty cards are those of card types that the note does not show.        *)
LEMMA FindEmptySeen ==
  ASSUME Supposed, EInv, FindEmpty
  PROVE Named!FindEmpty
<1> DEFINE F(n) == LET empty == IF Exists(n) THEN EmptyCards(n) ELSE {}
                   IN  [empty |-> empty, all |-> empty # {} /\ empty = CardsOf(cards, n)]
<1>1. report' = [n \in Notes |-> F(n)] /\ UNCHANGED <<types, notes, cards, form>> BY DEF FindEmpty
<1>2. Views BY Seen
<1>3. \A n \in Notes : report'[n].empty = IF Exists(n) THEN EmptyCards(n) ELSE {} BY <1>1
<1> HIDE DEF F
<1>4. ASSUME NEW c \in DOMAIN cards PROVE c \in Reported' <=> CardsBar[c].of \notin Named!Showing(CardsBar[c].note)
  <2>1. CardView(c) BY <1>2, <1>4 DEF Views, CardViews
  <2> DEFINE n == cards[c].note
             nt == types[notes[n].type]
             text == notes[n].fields
  <2>2. n \in Notes /\ Exists(n) /\ notes[n].type \in Types /\ cards[c].ord \in OrdsOf(nt) BY <2>1 DEF CardView
  <2>3. c \in Reported' <=> c \in EmptyCards(n)
    <3>1. \A m \in Notes : EmptyCards(m) \subseteq CardsOf(cards, m) BY DEF EmptyCards
    <3>2. \A m \in Notes : c \in report'[m].empty <=> Exists(m) /\ c \in EmptyCards(m) BY <1>3
    <3>3. \A m \in Notes : c \in CardsOf(cards, m) => m = n BY DEF CardsOf
    <3>4. c \in Reported' <=> \E m \in Notes : c \in report'[m].empty BY DEF Reported
    <3> QED BY <2>2, <3>1, <3>2, <3>3, <3>4
  <2>4. c \in EmptyCards(n) <=> ~Requires(n, nt, text, cards[c].ord)
    <3>1. c \in CardsOf(cards, n) BY <1>4 DEF CardsOf
    <3> QED BY <3>1 DEF EmptyCards, Requires
  <2>5. CardsBar[c].of \in Named!Showing(n) <=> Requires(n, nt, text, cards[c].ord)
    <3>1. Named!Showing(n) = ShownBy(n, nt, text) BY <1>2, <2>2 DEF Views, Showings
    <3>2. CardsBar[c].of = CardName(nt, cards[c].ord) BY <2>1 DEF CardView
    <3>3. \A w \in CardsRequired(n, nt, text, {}) : w.ord \in OrdsOf(nt)
      <4>1. Ordinary /\ Counted(nt) /\ text \in FieldTexts
        BY <2>2, ExistingNote DEF Supposed, EInv, DInv, CInv, TypesCounted
      <4>2. CardsRequired(n, nt, text, {}) \subseteq NewCardsRequired(n, nt, text, {}) BY DEF NewCardsRequired
      <4> QED BY <2>2, <4>1, <4>2, RequiredFits
    <3>4. \A o \in OrdsOf(nt) : CardName(nt, o) = CardName(nt, cards[c].ord) => o = cards[c].ord
      BY <1>2, <2>2 DEF Views, CardNamesDiffer
    <3>5. CardsBar[c].of \in ShownBy(n, nt, text) <=> \E w \in CardsRequired(n, nt, text, {}) : w.ord = cards[c].ord
      BY <3>2, <3>3, <3>4 DEF ShownBy
    <3> QED BY <3>1, <3>5 DEF Requires
  <2>6. CardsBar[c].note = n BY <2>1 DEF CardView
  <2> QED BY <2>3, <2>4, <2>5, <2>6
<1>5. Reported' \subseteq DOMAIN cards
  <2>1. \A m \in Notes : report'[m].empty \subseteq DOMAIN cards BY <1>3 DEF EmptyCards, CardsOf
  <2> QED BY <2>1 DEF Reported
<1>6. DOMAIN CardsBar = DOMAIN cards BY <1>2 DEF Views, CardViews
<1>7. Reported' = {c \in DOMAIN CardsBar : CardsBar[c].of \notin Named!Showing(CardsBar[c].note)} BY <1>4, <1>5, <1>6
<1>8. UNCHANGED <<KindsBar, FrontsBar, FieldsBar, TextsBar, CardsBar, WishBar>> BY <1>1, StaySeen, FrameSeen
<1> QED BY <1>7, <1>8 DEF Named!FindEmpty

LEMMA DeleteEmptySeen ==
  ASSUME Supposed, EInv, EInv', CloseReport \/ \E keep \in BOOLEAN : DeleteEmpty(keep)
  PROVE Named!DeleteEmpty
<1>1. Views /\ Views' BY Seen, SeenAfter
<1>2. report' = NoReport /\ UNCHANGED <<types, form>> BY DEF CloseReport, DeleteEmpty
<1>3. Reported' = {} BY <1>2 DEF Reported, NoReport
<1>4. UNCHANGED <<KindsBar, FrontsBar, FieldsBar, WishBar>> BY <1>2, FrameSeen
<1>5. DOMAIN CardsBar = DOMAIN cards /\ DOMAIN CardsBar' = DOMAIN cards' BY <1>1 DEF Views, CardViews
<1>6. CASE CloseReport
  <2>1. notes' = notes /\ cards' = cards BY <1>6 DEF CloseReport
  <2>2. UNCHANGED <<TextsBar, CardsBar>> BY <1>2, <2>1, StaySeen
  <2> QED BY <1>3, <1>4, <2>2 DEF Named!DeleteEmpty, Named!Lost, Named!OnlyLose
<1>7. ASSUME NEW keep \in BOOLEAN, DeleteEmpty(keep) PROVE Named!DeleteEmpty
  <2> DEFINE listed == UNION {ToDelete(n, keep) : n \in Notes}
             gone == listed \cap DOMAIN cards
  <2>1. /\ cards' = Without(cards, gone)
        /\ notes' = [n \in Notes |-> IF (\E c \in gone : cards[c].note = n) /\ CardsOf(Without(cards, gone), n) = {}
                                     THEN NoNote ELSE notes[n]]
    BY <1>7 DEF DeleteEmpty
  <2>2. gone \subseteq Reported /\ gone \subseteq DOMAIN cards
    <3>1. \A n \in Notes : ToDelete(n, keep) \subseteq report[n].empty BY DEF ToDelete
    <3>2. ASSUME NEW c \in gone PROVE c \in Reported
      <4>1. PICK n \in Notes : c \in ToDelete(n, keep) OBVIOUS
      <4>2. c \in report[n].empty BY <3>1, <4>1
      <4> QED BY <4>2 DEF Reported
    <3> HIDE DEF listed
    <3>3. gone \subseteq DOMAIN cards OBVIOUS
    <3> HIDE DEF gone
    <3> QED BY <3>2, <3>3
  <2> HIDE DEF gone
  <2>3. DOMAIN cards' = DOMAIN cards \ gone /\ \A c \in DOMAIN cards' : cards'[c] = cards[c] BY <2>1 DEF Without
  <2>4. \A n \in Notes : \/ notes'[n] = notes[n]
                         \/ notes'[n] = NoNote /\ CardsOf(cards, n) # {} /\ CardsOf(cards', n) = {}
    <3>1. \A n \in Notes : (\E c \in gone : cards[c].note = n) => CardsOf(cards, n) # {} BY <2>2 DEF CardsOf
    <3> QED BY <2>1, <3>1
  <2>5. ASSUME NEW c \in DOMAIN cards \ Reported
        PROVE c \in DOMAIN cards' /\ cards'[c] = cards[c] /\ notes'[cards[c].note].type = notes[cards[c].note].type
    <3>1. c \in DOMAIN cards' /\ cards'[c] = cards[c] BY <2>2, <2>3, <2>5
    <3>2. cards[c].note \in Notes /\ c \in CardsOf(cards', cards[c].note)
      BY <1>1, <2>5, <3>1 DEF Views, CardViews, CardView, CardsOf
    <3> QED BY <2>4, <3>1, <3>2
  <2>6. Named!OnlyLose(Reported) BY <1>1, <1>2, <2>5, LoseSeen
  <2>7. Named!Lost \subseteq Reported /\ DOMAIN CardsBar' \subseteq DOMAIN CardsBar
    BY <1>5, <2>2, <2>3 DEF Named!Lost
  <2>8. ASSUME NEW n \in Notes
        PROVE \/ TextsBar'[n] = TextsBar[n]
              \/ TextsBar'[n] = NoNote /\ Named!CardsOf(n) # {} /\ Named!CardsOf(n)' = {}
    <3>1. CASE notes'[n] = notes[n] BY <1>2, <3>1, SameText
    <3>2. CASE notes'[n] = NoNote /\ CardsOf(cards, n) # {} /\ CardsOf(cards', n) = {}
      <4>1. ~Exists(n)' BY <3>2 DEF Exists
      <4>2. TextsBar'[n] = NoNote BY <1>1, <4>1 DEF Views, TextViews
      <4>3. Named!CardsOf(n) # {} /\ Named!CardsOf(n)' = {} BY <1>1, <3>2 DEF Views, CardViews
      <4> QED BY <4>2, <4>3
    <3> QED BY <2>4, <3>1, <3>2
  <2> QED BY <1>3, <1>4, <2>6, <2>7, <2>8 DEF Named!DeleteEmpty
<1> QED BY <1>6, <1>7

(* The database check finds no card to remove, and completes all notes.        *)
LEMMA CheckDatabaseSeen ==
  ASSUME Supposed, EInv, EInv', CheckDatabase
  PROVE Named!CheckDatabase
<1> DEFINE gone == Duplicates \cup WithoutTemplate
           left == Without(cards, gone)
           all == {n \in Notes : Exists(n)}
<1>1. Views /\ Views' BY Seen, SeenAfter
<1>2. UNCHANGED <<types, notes, form, report>> BY DEF CheckDatabase
<1>3. Ordinary /\ CInv /\ IInv' BY DEF Supposed, EInv, DInv, CInv
<1>4. Filled(left, notes', types', all) BY <1>2, <1>3, CheckDatabaseFits
<1>5. gone = {}
  <2>1. Placed(cards, notes, types) /\ CardsTyped(cards) /\ TypesCounted BY <1>3 DEF CInv
  <2>2. ASSUME NEW c \in DOMAIN cards PROVE c \notin Duplicates
    <3>1. \A d \in CardsOf(cards, cards[c].note) : cards[d].ord = cards[c].ord => d = c BY <2>1, <2>2 DEF Placed, CardsOf
    <3>2. c \in Nat BY <2>1, <2>2 DEF CardsTyped, CardIds
    <3> QED BY <3>1, <3>2 DEF Duplicates
  <2>3. ASSUME NEW c \in DOMAIN cards PROVE c \notin WithoutTemplate
    <3>1. CardView(c) BY <1>1, <2>3 DEF Views, CardViews
    <3> DEFINE nt == types[notes[cards[c].note].type]
    <3>2. Counted(nt) /\ cards[c].ord \in OrdsOf(nt) BY <2>1, <3>1 DEF CardView, TypesCounted
    <3>3. nt.kind = Normal => cards[c].ord \in 1..Len(nt.templates) /\ Len(nt.templates) \in Nat
      <4>1. MaxTemplates \in Nat BY BoundsAssumption
      <4>2. Len(nt.templates) \in 1..MaxTemplates /\ DOMAIN nt.templates = 1..Len(nt.templates) BY <3>2 DEF Counted
      <4>3. nt.kind = Normal => cards[c].ord \in DOMAIN nt.templates BY <3>2 DEF OrdsOf
      <4> HIDE DEF nt
      <4> QED BY <4>1, <4>2, <4>3
    <3>4. nt.kind = Normal => ~(cards[c].ord > Len(nt.templates)) BY <3>3
    <3> QED BY <3>4 DEF WithoutTemplate
  <2>4. Duplicates \subseteq DOMAIN cards /\ WithoutTemplate \subseteq DOMAIN cards BY DEF Duplicates, WithoutTemplate
  <2> QED BY <2>2, <2>3, <2>4
<1> HIDE DEF gone
<1>6. DOMAIN left = DOMAIN cards /\ \A c \in DOMAIN cards : left[c] = cards[c] BY <1>5 DEF Without
<1> HIDE DEF left
<1>7. Named!OnlyGain BY <1>1, <1>4, <1>6, GainSeen
<1>8. Named!OnlyLose({})
  <2>1. \A c \in DOMAIN cards \ {} :
          c \in DOMAIN cards' /\ cards'[c] = cards[c] /\ notes'[cards[c].note].type = notes[cards[c].note].type
    BY <1>2, <1>4, <1>6 DEF Filled
  <2> QED BY <1>1, <1>2, <2>1, LoseSeen
<1>9. ASSUME NEW n \in Notes, Named!Exists(n) PROVE Named!Complete(n)' /\ Named!CardsOf(n)' # {}
  <2>1. Exists(n) BY <1>1, <1>9 DEF Views, NoteViews
  <2>2. n \in all /\ Exists(n)' BY <1>2, <2>1 DEF Exists
  <2> HIDE DEF all
  <2> QED BY <1>1, <1>4, <2>2, FillSeen
<1>10. TextsBar' = TextsBar
  <2>1. \A n \in Notes : TextsBar'[n] = TextsBar[n] BY <1>2, SameText
  <2>2. TextsBar = [n \in Notes |-> TextsBar[n]] /\ TextsBar' = [n \in Notes |-> TextsBar'[n]] BY DEF TextsBar
  <2> QED BY <2>1, <2>2
<1>11. UNCHANGED <<KindsBar, FrontsBar, FieldsBar, WishBar, Reported>> BY <1>2, FrameSeen
<1> QED BY <1>7, <1>8, <1>9, <1>10, <1>11 DEF Named!CheckDatabase

LEMMA InitSeen == Supposed /\ Init => Named!Init
<1>1. SUFFICES ASSUME Supposed, Init PROVE Named!Init OBVIOUS
<1>2. Views BY <1>1, InitNames, Seen DEF Supposed
<1>3. TextsBar = [n \in Notes |-> NoNote]
  <2>1. \A n \in Notes : ~Exists(n) BY <1>1 DEF Init, Exists
  <2>2. TextsBar = [n \in Notes |-> NamedTexts(n)] BY DEF TextsBar
  <2>3. \A n \in Notes : NamedTexts(n) = NoNote BY <2>1 DEF NamedTexts
  <2> QED BY <2>2, <2>3
<1>4. DOMAIN CardsBar = {} BY <1>1 DEF Init, CardsBar
<1>5. WishBar = NoForm BY <1>1 DEF Init, WishBar
<1>6. Reported = {} BY <1>1 DEF Init, Reported, NoReport
<1>7. ASSUME NEW t \in Types, NEW k \in DOMAIN FrontsBar[t] PROVE FrontsBar[t][k] \subseteq FieldsBar[t]
  <2>1. FrontsBar[t] = NamedFronts(types[t]) /\ FieldsBar[t] = FieldIdsOf(types[t]) BY <1>2 DEF Views, TypeViews
  <2>2. \A i : FrontIds(types[t], i) \subseteq FieldIdsOf(types[t]) BY DEF FrontIds, FieldIdsOf
  <2>3. \E i : NamedFronts(types[t])[k] = FrontIds(types[t], i) BY <1>7, <2>1 DEF NamedFronts
  <2> QED BY <2>1, <2>2, <2>3
<1> QED BY <1>3, <1>4, <1>5, <1>6, <1>7 DEF Named!Init

(* Saving a type, for the texts: each field that remains has its text.          *)
SavedTexts(t, edit) ==
  \A n \in Of(t) :
    /\ Exists(n)' /\ notes'[n].type = t
    /\ \A j \in DOMAIN edit.fields :
         notes'[n].fields[j] = IF edit.fields[j].had \in DOMAIN types[t].fields THEN notes[n].fields[edit.fields[j].had] ELSE NoText

LEMMA TextsSaved ==
  ASSUME Ordinary, DInv, NEW t \in Types, NEW edit, NEW skip_checks, NEW reworded, NEW unclozed,
         SaveNotetype(t, edit, skip_checks, reworded, unclozed), IInv', IsEdit(t, edit)
  PROVE /\ SavedTexts(t, edit)
        /\ \A n \in Notes \ Of(t) : notes'[n] = notes[n]
        /\ \A u \in Types \ {t} : types'[u] = types[u]
<1> DEFINE old == types[t]
<1>1. types' = [types EXCEPT ![t] = PreparedForUpdate(old, edit, unclozed)] /\ notes' = NotesUpdated(t, edit) BY DEF SaveNotetype
<1>2. \A u \in Types \ {t} : types'[u] = types[u] BY <1>1 DEF DInv, CInv, IInv, TypesTyped
<1>3. \A n \in Notes \ Of(t) : notes'[n] = notes[n] BY <1>1 DEF NotesUpdated, Of
<1>4. ASSUME NEW n \in Of(t)
      PROVE /\ Exists(n)' /\ notes'[n].type = t
            /\ \A j \in DOMAIN edit.fields :
                 notes'[n].fields[j] = IF edit.fields[j].had \in DOMAIN old.fields THEN notes[n].fields[edit.fields[j].had] ELSE NoText
  <2>1. n \in Notes /\ Exists(n) /\ notes[n].type = t /\ DOMAIN notes[n].fields = DOMAIN old.fields
    BY DEF Of, DInv, CInv, IInv, FieldsFit
  <2>2. notes'[n].type = t BY TextsCarried
  <2>3. CASE OrdsChanged(old.fields, edit.fields)
    <3>1. notes'[n] = [type |-> t, fields |-> Reordered(notes[n].fields, edit.fields)] BY <1>1, <2>1, <2>3 DEF NotesUpdated
    <3>2. DOMAIN edit.fields \subseteq Nat BY DEF IsEdit, Proper
    <3>3. Reordered(notes[n].fields, edit.fields) \in FieldTexts BY <2>1, <3>2, ExistingNote, ReorderedFits DEF DInv, CInv
    <3>4. notes'[n] \in Note BY <3>1, <3>3 DEF Note
    <3>5. Exists(n)' BY <3>4 DEF Ordinary, Exists
    <3>6. notes'[n].fields = Reordered(notes[n].fields, edit.fields) BY <3>1
    <3>7. \A j \in DOMAIN edit.fields :
            notes'[n].fields[j] = IF edit.fields[j].had \in DOMAIN old.fields THEN notes[n].fields[edit.fields[j].had] ELSE NoText
      BY <2>1, <3>6 DEF Reordered
    <3> QED BY <2>2, <3>5, <3>7
  <2>4. CASE ~OrdsChanged(old.fields, edit.fields)
    <3>1. notes'[n] = notes[n] BY <1>1, <2>4 DEF NotesUpdated
    <3>2. DOMAIN edit.fields = DOMAIN old.fields /\ \A j \in DOMAIN edit.fields : edit.fields[j].had = j
      BY <2>4 DEF OrdsChanged
    <3>3. Exists(n)' BY <2>1, <3>1 DEF Exists
    <3> QED BY <2>2, <3>1, <3>2, <3>3
  <2> QED BY <2>3, <2>4
<1> QED BY <1>2, <1>3, <1>4 DEF SavedTexts

(* The texts of a saved type's notes in the named view.                        *)
LEMMA SavedTextsSeen ==
  ASSUME Views, Views', NEW t \in Types, NEW edit, SavedTexts(t, edit),
         Carried(types[t].fields, edit.fields, types'[t].fields), NEW n \in Of(t)
  PROVE TextsBar'[n] = [type |-> t,
                        text |-> [f \in FieldsBar'[t] |-> IF f \in FieldsBar[t] THEN TextsBar[n].text[f] ELSE NoText]]
<1> DEFINE old == types[t]
           new == types'[t]
           text == TextsBar[n].text
           after == TextsBar'[n].text
<1>1. n \in Notes /\ Exists(n) /\ notes[n].type = t /\ Exists(n)' /\ notes'[n].type = t BY DEF Of, SavedTexts
<1>2. TextView(n) /\ TextView(n)' BY <1>1 DEF Views, TextViews
<1>3. FieldsBar[t] = FieldIdsOf(old) /\ FieldsBar'[t] = FieldIdsOf(new) BY DEF Views, TypeViews
<1>4. /\ TextsBar'[n] = [type |-> t, text |-> [id \in FieldIdsOf(new) |-> after[id]]]
      /\ \A i \in DOMAIN old.fields : text[old.fields[i].id] = notes[n].fields[i]
      /\ \A i \in DOMAIN new.fields : after[new.fields[i].id] = notes'[n].fields[i]
  BY <1>1, <1>2 DEF TextView
<1> HIDE DEF text, after
<1>5. ASSUME NEW f \in FieldIdsOf(new) PROVE after[f] = IF f \in FieldIdsOf(old) THEN text[f] ELSE NoText
  <2>1. PICK j \in DOMAIN new.fields : f = new.fields[j].id BY DEF FieldIdsOf
  <2>2. j \in DOMAIN edit.fields /\ after[f] = notes'[n].fields[j] BY <1>4, <2>1 DEF Carried
  <2>3. CASE edit.fields[j].had \in DOMAIN old.fields
    <3>1. notes'[n].fields[j] = notes[n].fields[edit.fields[j].had] BY <2>2, <2>3 DEF SavedTexts
    <3>2. f = old.fields[edit.fields[j].had].id BY <2>1, <2>2, <2>3 DEF Carried
    <3>3. f \in FieldIdsOf(old) BY <2>3, <3>2 DEF FieldIdsOf
    <3> QED BY <1>4, <2>2, <2>3, <3>1, <3>2, <3>3
  <2>4. CASE edit.fields[j].had \notin DOMAIN old.fields
    <3>1. notes'[n].fields[j] = NoText BY <2>2, <2>4 DEF SavedTexts
    <3>2. f \notin FieldIdsOf(old) BY <2>1, <2>2, <2>4 DEF Carried, FieldIdsOf
    <3> QED BY <2>2, <3>1, <3>2
  <2> QED BY <2>3, <2>4
<1>6. [id \in FieldIdsOf(new) |-> after[id]] = [f \in FieldIdsOf(new) |-> IF f \in FieldIdsOf(old) THEN text[f] ELSE NoText]
  BY <1>5
<1> QED BY <1>3, <1>4, <1>6 DEF text

(* The cards of a saved type's notes: each stays with its card type, or goes   *)
(* with it.                                                                    *)
LEMMA CardsSaved ==
  ASSUME Ordinary, Distinguished, EInv, Views, Views', NEW t \in Types, NEW edit, IsEdit(t, edit),
         types'[t].kind = types[t].kind, OneOfClozes(types[t]), OneOfClozes(types'[t]),
         Carried(types[t].templates, edit.templates, types'[t].templates),
         NEW kept, kept = CardsUpdated(t, edit.templates), NEW c \in DOMAIN cards, cards[c].note \in Of(t)
  PROVE IF CardName(types[t], cards[c].ord) \in DOMAIN FrontsBar'[t]
        THEN /\ c \in DOMAIN kept /\ kept[c].note = cards[c].note
             /\ CardName(types'[t], kept[c].ord) = CardName(types[t], cards[c].ord)
        ELSE c \notin DOMAIN kept
<1> DEFINE old == types[t]
           new == types'[t]
           entries == edit.templates
           ours(d) == cards[d].note \in Of(t)
           gone == {d \in DOMAIN cards : ours(d) /\ cards[d].ord \in DOMAIN old.templates \ Had(old.templates, entries)}
           moved(o) == {i \in DOMAIN entries : entries[i].had = o}
           o == cards[c].ord
           j == CHOOSE i \in moved(o) : TRUE
<1>1. /\ DOMAIN kept = DOMAIN cards \ gone
      /\ \A d \in DOMAIN kept : kept[d] = IF ours(d) /\ moved(cards[d].ord) # {}
                                          THEN [cards[d] EXCEPT !.ord = CHOOSE i \in moved(cards[d].ord) : TRUE] ELSE cards[d]
  BY DEF CardsUpdated
<1>2. c \notin gone => c \in DOMAIN kept /\ kept[c] = IF moved(o) # {} THEN [cards[c] EXCEPT !.ord = j] ELSE cards[c]
  BY <1>1
<1>3. c \in gone => c \notin DOMAIN kept BY <1>1
<1>4. c \in gone <=> o \in DOMAIN old.templates \ Had(old.templates, entries) OBVIOUS
<1>5. cards[c] \in Card /\ notes[cards[c].note].type = t BY DEF EInv, DInv, CInv, CardsTyped, Of
<1>6. o \in OrdsOf(old) BY <1>5 DEF Views, CardViews, CardView
<1>7. DOMAIN FrontsBar'[t] = {CardName(new, p) : p \in OrdsOf(new)} BY DEF Views, TypeViews, CardNamesDiffer
<1>8. moved(o) # {} => j \in DOMAIN entries /\ entries[j].had = o OBVIOUS
<1>9. moved(o) = {} => \A i \in DOMAIN entries : entries[i].had # o OBVIOUS
<1>10. DOMAIN new.templates = DOMAIN entries BY DEF Carried
<1>11. Counted(old) BY DEF EInv, DInv, CInv, TypesCounted
<1> HIDE DEF gone, j, moved
<1>12. CASE old.kind = Normal
  <2>1. o \in DOMAIN old.templates /\ OrdsOf(new) = DOMAIN new.templates BY <1>6, <1>12 DEF OrdsOf
  <2>2. \A p : p \in DOMAIN old.templates => CardName(old, p) = old.templates[p].id BY <1>12 DEF CardName, Normal, Cloze
  <2>3. \A p : p \in DOMAIN new.templates => CardName(new, p) = new.templates[p].id BY <1>12 DEF CardName, Normal, Cloze
  <2>4. CASE moved(o) # {}
    <3>1. j \in DOMAIN new.templates /\ new.templates[j].id = old.templates[o].id
      BY <1>8, <1>10, <2>1, <2>4 DEF Carried
    <3>2. CardName(new, j) = CardName(old, o) /\ CardName(old, o) \in DOMAIN FrontsBar'[t]
      BY <1>7, <2>1, <2>2, <2>3, <3>1
    <3>3. o \in Had(old.templates, entries) BY <1>8, <2>1, <2>4 DEF Had
    <3>4. c \in DOMAIN kept /\ kept[c] = [cards[c] EXCEPT !.ord = j] BY <1>2, <1>4, <2>4, <3>3
    <3>5. kept[c].note = cards[c].note /\ kept[c].ord = j BY <1>5, <3>4 DEF Card
    <3> QED BY <3>2, <3>4, <3>5
  <2>5. CASE moved(o) = {}
    <3>1. o \notin Had(old.templates, entries) BY <1>9, <2>5 DEF Had
    <3>2. c \notin DOMAIN kept BY <1>3, <1>4, <2>1, <3>1
    <3>3. \A i \in DOMAIN new.templates : new.templates[i].id # old.templates[o].id
      <4>1. SUFFICES ASSUME NEW i \in DOMAIN entries PROVE new.templates[i].id # old.templates[o].id BY <1>10
      <4>2. CASE entries[i].had \in DOMAIN old.templates
        <5>1. new.templates[i].id = old.templates[entries[i].had].id BY <4>2 DEF Carried
        <5>2. Apart(old.templates, MaxTemplates) BY DEF EInv, DInv, ToldApart
        <5> QED BY <1>9, <2>1, <2>5, <4>2, <5>1, <5>2 DEF Apart
      <4>3. CASE entries[i].had \notin DOMAIN old.templates BY <2>1, <4>3 DEF Carried
      <4> QED BY <4>2, <4>3
    <3>4. CardName(old, o) \notin DOMAIN FrontsBar'[t] BY <1>7, <2>1, <2>2, <2>3, <3>3
    <3> QED BY <3>2, <3>4
  <2> QED BY <2>4, <2>5
<1>13. CASE old.kind # Normal
  <2>1. old.kind = Cloze /\ new.kind = Cloze /\ edit.kind = Cloze BY <1>11, <1>13 DEF Counted, IsEdit
  <2>2. \A p : CardName(old, p) = p /\ CardName(new, p) = p BY <2>1 DEF CardName
  <2>3. OrdsOf(old) = OrdsOf(new) BY <2>1 DEF OrdsOf, Normal, Cloze
  <2>4. CardName(old, o) \in DOMAIN FrontsBar'[t] BY <1>6, <1>7, <2>2, <2>3
  <2>5. \A i \in DOMAIN entries : entries[i].had = i BY <2>1 DEF IsEdit
  <2>6. DOMAIN old.templates = DOMAIN entries BY <1>10, <2>1 DEF OneOfClozes
  <2>7. c \notin gone BY <1>4, <2>5, <2>6 DEF Had
  <2>8. kept[c].note = cards[c].note /\ kept[c].ord = o /\ c \in DOMAIN kept
    <3>1. CASE moved(o) # {}
      <4>1. j = o BY <1>8, <2>5, <3>1
      <4>2. kept[c] = [cards[c] EXCEPT !.ord = o] /\ c \in DOMAIN kept BY <1>2, <2>7, <3>1, <4>1
      <4> QED BY <1>5, <4>2 DEF Card
    <3>2. CASE moved(o) = {} BY <1>2, <2>7, <3>2
    <3> QED BY <3>1, <3>2
  <2> QED BY <2>2, <2>4, <2>8
<1> QED BY <1>12, <1>13

LEMMA RestructureSeen ==
  ASSUME Supposed, EInv, EInv', NEW t \in Types, NEW edit, NEW skip_checks, NEW reworded, NEW unclozed,
         SaveNotetype(t, edit, skip_checks, reworded, unclozed), IsEdit(t, edit)
  PROVE Named!Restructure(t) /\ KindsBar' = KindsBar
<1> DEFINE kept == CardsUpdated(t, edit.templates)
           ours == {n \in Notes : Named!Exists(n) /\ TextsBar[n].type = t}
           lost == {c \in DOMAIN CardsBar : CardsBar[c].note \in ours /\ CardsBar[c].of \notin DOMAIN FrontsBar'[t]}
<1>1. Views /\ Views' BY Seen, SeenAfter
<1>2. Ordinary /\ Distinguished /\ DInv /\ CInv /\ IInv' BY DEF Supposed, EInv, DInv, CInv
<1>3. /\ SavedTexts(t, edit) /\ \A n \in Notes \ Of(t) : notes'[n] = notes[n]
      /\ \A u \in Types \ {t} : types'[u] = types[u]
  BY <1>2, TextsSaved
<1>4. /\ Carried(types[t].fields, edit.fields, types'[t].fields)
      /\ Carried(types[t].templates, edit.templates, types'[t].templates)
  BY <1>2, StaysApart
<1>5. PICK which : Filled(kept, notes', types', which)
  <2>1. Saved(t, edit, reworded) BY <1>2, UpdateNotetypeFits DEF IsEdit
  <2> QED BY <2>1 DEF Saved
<1>6. /\ DOMAIN kept \subseteq DOMAIN cards
      /\ \A c \in DOMAIN cards : cards[c].note \notin Of(t) => c \in DOMAIN kept /\ kept[c] = cards[c]
  BY DEF CardsUpdated
<1>7. /\ \A u \in Types : types'[u].kind = types[u].kind
      /\ OneOfClozes(types[t]) /\ OneOfClozes(types'[t])
  BY DEF EInv, DInv, CInv, TypesCounted, Legible
<1>8. KindsBar' = KindsBar BY <1>7 DEF KindsBar
<1>9. ours = Of(t) BY <1>1 DEF Views, NoteViews, TextViews, TextView, Of
<1>10. DOMAIN CardsBar = DOMAIN cards /\ DOMAIN CardsBar' = DOMAIN cards' BY <1>1 DEF Views, CardViews
<1>11. \A c \in DOMAIN kept : c \in DOMAIN cards' /\ cards'[c] = kept[c] BY <1>5 DEF Filled
<1>12. \A c \in DOMAIN cards \ DOMAIN kept : c \notin DOMAIN cards' BY <1>5 DEF Filled
<1>13. ASSUME NEW c \in DOMAIN cards
       PROVE IF cards[c].note \in Of(t) /\ CardsBar[c].of \notin DOMAIN FrontsBar'[t]
             THEN c \notin DOMAIN CardsBar' ELSE c \in DOMAIN CardsBar' /\ CardsBar'[c] = CardsBar[c]
  <2>1. CardView(c) BY <1>1 DEF Views, CardViews
  <2>2. PICK n \in Notes : n = cards[c].note BY <2>1 DEF CardView
  <2>3. Exists(n) /\ notes[n].type \in Types /\ CardsBar[c].of = CardName(types[notes[n].type], cards[c].ord)
    BY <2>1, <2>2 DEF CardView
  <2>4. CASE n \notin Of(t)
    <3>1. c \in DOMAIN cards' /\ cards'[c] = cards[c] BY <1>6, <1>11, <2>2, <2>4
    <3>2. notes'[n] = notes[n] /\ types'[notes[n].type] = types[notes[n].type] BY <1>3, <2>3, <2>4 DEF Of
    <3> QED BY <1>1, <2>2, <2>4, <3>1, <3>2, KeptSeen
  <2>5. CASE n \in Of(t)
    <3>1. notes[n].type = t /\ notes'[n].type = t BY <1>3, <2>5 DEF Of, SavedTexts
    <3>2. IF CardName(types[t], cards[c].ord) \in DOMAIN FrontsBar'[t]
          THEN /\ c \in DOMAIN kept /\ kept[c].note = cards[c].note
               /\ CardName(types'[t], kept[c].ord) = CardName(types[t], cards[c].ord)
          ELSE c \notin DOMAIN kept
      <4>1. CardsUpdated(t, edit.templates) = kept OBVIOUS
      <4> HIDE DEF kept
      <4> QED BY <1>1, <1>2, <1>4, <1>7, <2>2, <2>5, <4>1, CardsSaved
    <3> HIDE DEF kept
    <3>3. CASE CardsBar[c].of \in DOMAIN FrontsBar'[t]
      <4>1. c \in DOMAIN cards' /\ cards'[c] = kept[c] BY <1>11, <2>3, <3>1, <3>2, <3>3
      <4>2. c \in DOMAIN CardsBar' /\ CardsBar'[c] = CardsBar[c]
        BY <1>1, <2>2, <2>3, <3>1, <3>2, <3>3, <4>1, KeptSeen
      <4> QED BY <3>3, <4>2
    <3>4. CASE CardsBar[c].of \notin DOMAIN FrontsBar'[t]
      <4>1. c \notin DOMAIN cards' BY <1>12, <2>3, <3>1, <3>2, <3>4
      <4> QED BY <1>10, <2>2, <2>5, <3>4, <4>1
    <3> QED BY <3>3, <3>4
  <2> QED BY <2>4, <2>5
<1>14. \A c \in DOMAIN cards : c \in lost <=> cards[c].note \in Of(t) /\ CardsBar[c].of \notin DOMAIN FrontsBar'[t]
  <2>1. \A c \in DOMAIN cards : CardsBar[c].note = cards[c].note BY <1>1 DEF Views, CardViews, CardView
  <2> HIDE DEF ours
  <2> QED BY <1>9, <1>10, <2>1
<1>15. lost \subseteq DOMAIN cards BY <1>10
<1> HIDE DEF ours, lost, kept
<1>16. Named!OnlyLose(lost) /\ Named!Lost = lost BY <1>10, <1>13, <1>14, <1>15 DEF Named!OnlyLose, Named!Lost
<1>17. Named!OnlyGain BY <1>1, <1>5, <1>6, GainSeen
<1>18. \A n \in Notes \ Of(t) : TextsBar'[n] = TextsBar[n]
  <2>1. SUFFICES ASSUME NEW n \in Notes \ Of(t) PROVE TextsBar'[n] = TextsBar[n] OBVIOUS
  <2>2. Exists(n) => TextView(n) BY <1>1 DEF Views, TextViews
  <2>3. Exists(n) => types'[notes[n].type] = types[notes[n].type] BY <1>3, <2>2 DEF TextView, Of
  <2> QED BY <1>3, <2>3, SameText
<1>19. \A n \in Of(t) :
         TextsBar'[n] = [type |-> t,
                         text |-> [f \in FieldsBar'[t] |-> IF f \in FieldsBar[t] THEN TextsBar[n].text[f] ELSE NoText]]
  BY <1>1, <1>3, <1>4, SavedTextsSeen
<1>20. \A u \in Types \ {t} : KindsBar'[u] = KindsBar[u] /\ FieldsBar'[u] = FieldsBar[u] /\ FrontsBar'[u] = FrontsBar[u]
  BY <1>3, <1>8 DEF FieldsBar, FrontsBar
<1>21. Named!KeepsWish /\ UNCHANGED Reported
  <2>1. form' = form /\ report' = report BY DEF SaveNotetype
  <2>2. UNCHANGED Reported BY <2>1, FrameSeen
  <2>3. CASE form = NoForm \/ form.templates # <<>>
    <3>1. WishBar' = WishBar BY <2>1, <2>3 DEF WishBar
    <3> QED BY <2>2, <3>1 DEF Named!KeepsWish
  <2>4. CASE form # NoForm /\ form.templates = <<>>
    <3>1. WishBar \in Wish /\ WishBar.laid_out = FALSE BY <1>2, <2>4, WishSeen
    <3>2. WishBar' \in Wish BY <1>2, <2>1, <2>4, WishSeenAfter
    <3>3. form.wish \in Wish BY <2>4 DEF EInv, WishFits
    <3>4. /\ WishBar = [form.wish EXCEPT !.cards = ByOrdinal(types[form.old], types[form.new])]
          /\ WishBar' = [form.wish EXCEPT !.cards = ByOrdinal(types'[form.old], types'[form.new])]
      BY <2>1, <2>4 DEF WishBar
    <3>5. WishBar' = [WishBar EXCEPT !.cards = WishBar'.cards] BY <3>3, <3>4 DEF Wish
    <3>6. NoForm \notin {WishBar, WishBar'} BY <1>2, <3>1, <3>2 DEF Distinguished
    <3> QED BY <2>2, <3>1, <3>5, <3>6 DEF Named!KeepsWish
  <2> QED BY <2>3, <2>4
<1> QED BY <1>8, <1>9, <1>16, <1>17, <1>18, <1>19, <1>20, <1>21 DEF Named!Restructure, ours, lost

LEMMA EditTemplatesSeen ==
  ASSUME Supposed, EInv, EInv', NEW t \in Types, NEW edit, NEW skip_checks, NEW reworded, NEW unclozed,
         SaveNotetype(t, edit, skip_checks, reworded, unclozed), IsEdit(t, edit), edit.fields = SameFields(types[t])
  PROVE Named!EditTemplates(t)
<1>1. Named!Restructure(t) /\ KindsBar' = KindsBar BY RestructureSeen
<1>2. \A u \in Types \ {t} : FieldsBar'[u] = FieldsBar[u] BY <1>1 DEF Named!Restructure
<1>3. Carried(types[t].fields, edit.fields, types'[t].fields) BY StaysApart DEF EInv
<1>4. DOMAIN edit.fields = DOMAIN types[t].fields /\ \A i \in DOMAIN edit.fields : edit.fields[i].had = i
  BY DEF SameFields
<1>5. FieldIdsOf(types'[t]) = FieldIdsOf(types[t]) BY <1>3, <1>4 DEF Carried, FieldIdsOf
<1>6. FieldsBar' = FieldsBar
  <2>1. \A u \in Types : FieldsBar'[u] = FieldsBar[u] BY <1>2, <1>5 DEF FieldsBar
  <2>2. FieldsBar = [u \in Types |-> FieldsBar[u]] /\ FieldsBar' = [u \in Types |-> FieldsBar'[u]] BY DEF FieldsBar
  <2> QED BY <2>1, <2>2
<1> QED BY <1>1, <1>6 DEF Named!EditTemplates

(* A front keeps showing those of its fields that remain.  The first field     *)
(* comes to them if none is left, or with the last cloze that was lost.        *)
FrontFollows(before, after, ids, lossy) ==
  LET left == before \cap ids
  IN  \/ left # {} /\ after = left
      \/ /\ left = {} \/ (lossy /\ left # before)
         /\ \E f \in ids : after = left \cup {f}

LEMMA FrontSaved ==
  ASSUME NEW old, NEW new, NEW entries, NEW unclozed,
         Legible(old), WellNamed(new.fields), Apart(old.fields, MaxFields),
         Carried(old.fields, entries, new.fields), \A j \in DOMAIN entries : new.fields[j].name = entries[j].name,
         1 \in DOMAIN entries, NEW i \in DOMAIN old.templates,
         new.templates[i].front = FrontAfter(old.templates[i].front, old.fields, entries, unclozed),
         unclozed => \E name \in old.templates[i].front : NameAfter(name, old.fields, entries) = {}
  PROVE FrontFollows(FrontIds(old, i), FrontIds(new, i), FieldIdsOf(new), unclozed)
<1> DEFINE left == FrontIds(old, i) \cap FieldIdsOf(new)
           front == old.templates[i].front
           followed == UNION {NameAfter(name, old.fields, entries) : name \in front}
           Kept(j) == entries[j].had \in DOMAIN old.fields /\ old.fields[entries[j].had].name \in front
<1>1. front # {} /\ front \subseteq NamesOf(old.fields) BY DEF Legible, Valid
<1>2. DOMAIN new.fields = DOMAIN entries BY DEF Carried
<1>3. \A j, k \in DOMAIN entries : entries[j].name = entries[k].name => j = k BY <1>2 DEF WellNamed
<1>4. \A name \in front : \A x : x \in NameAfter(name, old.fields, entries) <=>
        \E j \in DOMAIN entries : x = entries[j].name /\ entries[j].had \in DOMAIN old.fields /\ old.fields[entries[j].had].name = name
  BY <1>1 DEF NameAfter
<1>5. \A x : x \in followed <=> \E j \in DOMAIN entries : x = entries[j].name /\ Kept(j)
  <2>1. \A x : x \in followed <=> \E name \in front : x \in NameAfter(name, old.fields, entries) OBVIOUS
  <2> HIDE DEF followed
  <2> QED BY <1>4, <2>1
<1>6. \A j \in DOMAIN entries : entries[j].name \in followed <=> Kept(j) BY <1>3, <1>5
<1>7. \A f : f \in left <=> \E j \in DOMAIN entries : f = new.fields[j].id /\ Kept(j)
  <2>1. ASSUME NEW f \in left PROVE \E j \in DOMAIN entries : f = new.fields[j].id /\ Kept(j)
    <3>1. PICK m \in DOMAIN old.fields : f = old.fields[m].id /\ old.fields[m].name \in front BY <2>1 DEF FrontIds
    <3>2. PICK j \in DOMAIN entries : f = new.fields[j].id BY <1>2, <2>1 DEF FieldIdsOf
    <3>3. entries[j].had \in DOMAIN old.fields BY <3>1, <3>2 DEF Carried
    <3>4. entries[j].had = m BY <3>1, <3>2, <3>3 DEF Carried, Apart
    <3> QED BY <3>1, <3>2, <3>3, <3>4
  <2>2. ASSUME NEW j \in DOMAIN entries, Kept(j) PROVE new.fields[j].id \in left
    <3>1. new.fields[j].id = old.fields[entries[j].had].id BY <2>2 DEF Carried
    <3>2. new.fields[j].id \in FrontIds(old, i) BY <2>2, <3>1 DEF FrontIds
    <3>3. new.fields[j].id \in FieldIdsOf(new) BY <1>2 DEF FieldIdsOf
    <3> QED BY <3>2, <3>3
  <2> QED BY <2>1, <2>2
<1>8. FrontAfter(front, old.fields, entries, unclozed) =
        IF unclozed \/ (RenamedOrRemoved(old.fields, entries) /\ followed = {})
        THEN followed \cup {entries[1].name} ELSE followed
  BY DEF FrontAfter
<1> DEFINE shown == FrontAfter(front, old.fields, entries, unclozed)
<1>9. \A f : f \in FrontIds(new, i) <=> \E j \in DOMAIN entries : f = new.fields[j].id /\ entries[j].name \in shown
  <2>1. FrontIds(new, i) = {new.fields[j].id : j \in {j \in DOMAIN new.fields : new.fields[j].name \in shown}}
    BY DEF FrontIds
  <2> HIDE DEF shown
  <2> QED BY <1>2, <2>1
<1>10. left = {} => followed = {} /\ RenamedOrRemoved(old.fields, entries)
  <2>1. SUFFICES ASSUME left = {} PROVE followed = {} /\ RenamedOrRemoved(old.fields, entries) OBVIOUS
  <2>2. followed = {}
    <3> HIDE DEF followed, Kept
    <3> QED BY <1>5, <1>7, <2>1
  <2>3. PICK m \in DOMAIN old.fields : old.fields[m].name \in front BY <1>1 DEF NamesOf
  <2>4. NameAfter(old.fields[m].name, old.fields, entries) = {} BY <2>2, <2>3
  <2> QED BY <2>2, <2>4 DEF RenamedOrRemoved
<1>11. unclozed => left # FrontIds(old, i)
  <2>1. SUFFICES ASSUME unclozed PROVE left # FrontIds(old, i) OBVIOUS
  <2>2. PICK name \in front : NameAfter(name, old.fields, entries) = {} BY <2>1
  <2>3. PICK m \in DOMAIN old.fields : old.fields[m].name = name BY <1>1 DEF NamesOf
  <2>4. old.fields[m].id \in FrontIds(old, i) BY <2>3 DEF FrontIds
  <2>5. ASSUME NEW j \in DOMAIN entries, old.fields[m].id = new.fields[j].id, Kept(j) PROVE FALSE
    <3>1. new.fields[j].id = old.fields[entries[j].had].id BY <2>5 DEF Carried
    <3>2. entries[j].had = m BY <2>5, <3>1 DEF Apart
    <3> QED BY <1>4, <2>2, <2>3, <2>5, <3>2
  <2> HIDE DEF Kept
  <2> QED BY <1>7, <2>4, <2>5
<1> HIDE DEF left
<1>12. CASE ~unclozed /\ left # {}
  <2>1. followed # {} BY <1>5, <1>7, <1>12
  <2>2. shown = followed BY <1>8, <1>12, <2>1
  <2> HIDE DEF shown, followed, Kept
  <2>3. \A f : f \in FrontIds(new, i) <=> f \in left BY <1>6, <1>7, <1>9, <2>2
  <2>4. FrontIds(new, i) = left BY <2>3
  <2> QED BY <1>12, <2>4 DEF FrontFollows, left
<1>13. CASE unclozed \/ left = {}
  <2>1. shown = followed \cup {entries[1].name} BY <1>8, <1>10, <1>13
  <2> HIDE DEF shown, followed, Kept
  <2>2. \A j \in DOMAIN entries : entries[j].name \in shown <=> Kept(j) \/ j = 1 BY <1>3, <1>6, <2>1
  <2>3. \A f : f \in FrontIds(new, i) <=> f \in left \/ f = new.fields[1].id BY <1>7, <1>9, <2>2
  <2>4. FrontIds(new, i) = left \cup {new.fields[1].id} BY <2>3
  <2>5. new.fields[1].id \in FieldIdsOf(new) BY <1>2 DEF FieldIdsOf
  <2> QED BY <1>11, <1>13, <2>4, <2>5 DEF FrontFollows, left
<1> QED BY <1>12, <1>13

LEMMA FrontsByName ==
  ASSUME NEW nt, Apart(nt.templates, MaxTemplates)
  PROVE /\ nt.kind # Cloze =>
             /\ DOMAIN NamedFronts(nt) = {nt.templates[i].id : i \in DOMAIN nt.templates}
             /\ \A i \in DOMAIN nt.templates : NamedFronts(nt)[nt.templates[i].id] = FrontIds(nt, i)
        /\ nt.kind = Cloze =>
             DOMAIN NamedFronts(nt) = 1..LastOrd /\ \A o \in 1..LastOrd : NamedFronts(nt)[o] = FrontIds(nt, 1)
<1>1. CASE nt.kind # Cloze
  <2> DEFINE At(id) == CHOOSE i \in DOMAIN nt.templates : nt.templates[i].id = id
             ids == {nt.templates[i].id : i \in DOMAIN nt.templates}
  <2>1. NamedFronts(nt) = [id \in ids |-> FrontIds(nt, At(id))] BY <1>1 DEF NamedFronts
  <2>2. \A i \in DOMAIN nt.templates : At(nt.templates[i].id) = i BY FoundById
  <2>3. \A i \in DOMAIN nt.templates : nt.templates[i].id \in ids OBVIOUS
  <2> HIDE DEF At
  <2>4. \A i \in DOMAIN nt.templates : NamedFronts(nt)[nt.templates[i].id] = FrontIds(nt, i) BY <2>1, <2>2, <2>3
  <2>5. DOMAIN NamedFronts(nt) = ids BY <2>1
  <2> QED BY <1>1, <2>4, <2>5
<1>2. CASE nt.kind = Cloze
  <2>1. NamedFronts(nt) = [o \in 1..LastOrd |-> FrontIds(nt, 1)] BY <1>2 DEF NamedFronts
  <2> QED BY <1>2, <2>1
<1> QED BY <1>1, <1>2

LEMMA EditFieldsSeen ==
  ASSUME Supposed, EInv, EInv', NEW t \in Types, NEW edit, NEW skip_checks, NEW reworded, NEW unclozed,
         SaveNotetype(t, edit, skip_checks, reworded, unclozed), IsEdit(t, edit),
         unclozed \in Unclozed(types[t], edit), edit.templates = SameTemplates(types[t]), 1 \in DOMAIN edit.fields
  PROVE Named!EditFields(t)
<1> DEFINE old == types[t]
           new == types'[t]
<1>1. Named!Restructure(t) /\ KindsBar' = KindsBar BY RestructureSeen
<1>2. /\ Carried(old.fields, edit.fields, new.fields) /\ Carried(old.templates, edit.templates, new.templates)
      /\ ToldApart(old) /\ ToldApart(new)
  BY StaysApart DEF EInv, DInv
<1>3. Legible(old) /\ Legible(new) /\ old.kind = new.kind BY DEF EInv, DInv, CInv, TypesCounted
<1>4. new = PreparedForUpdate(old, edit, unclozed)
  <2>1. types' = [types EXCEPT ![t] = PreparedForUpdate(old, edit, unclozed)] BY DEF SaveNotetype
  <2> QED BY <2>1 DEF EInv, DInv, CInv, IInv, TypesTyped
<1>5. /\ DOMAIN edit.templates = DOMAIN old.templates
      /\ \A i \in DOMAIN edit.templates : edit.templates[i].front = old.templates[i].front /\ edit.templates[i].had = i
  BY DEF SameTemplates
<1>6. /\ DOMAIN new.templates = DOMAIN old.templates
      /\ \A i \in DOMAIN old.templates : new.templates[i].id = old.templates[i].id
  BY <1>2, <1>5 DEF Carried
<1>7. /\ \A j \in DOMAIN edit.fields : new.fields[j].name = edit.fields[j].name
      /\ \A i \in DOMAIN old.templates : new.templates[i].front = FrontAfter(old.templates[i].front, old.fields, edit.fields, unclozed)
  BY <1>4, <1>5 DEF PreparedForUpdate
<1>8. FrontsBar[t] = NamedFronts(old) /\ FrontsBar'[t] = NamedFronts(new) /\ FieldsBar'[t] = FieldIdsOf(new)
  BY DEF FrontsBar, FieldsBar
<1> HIDE DEF new
<1>9.  /\ old.kind # Cloze =>
            /\ DOMAIN NamedFronts(old) = {old.templates[i].id : i \in DOMAIN old.templates}
            /\ DOMAIN NamedFronts(new) = {new.templates[i].id : i \in DOMAIN new.templates}
            /\ \A i \in DOMAIN old.templates : NamedFronts(old)[old.templates[i].id] = FrontIds(old, i)
            /\ \A i \in DOMAIN new.templates : NamedFronts(new)[new.templates[i].id] = FrontIds(new, i)
       /\ old.kind = Cloze =>
            /\ DOMAIN NamedFronts(old) = 1..LastOrd /\ DOMAIN NamedFronts(new) = 1..LastOrd
            /\ \A o \in 1..LastOrd : NamedFronts(old)[o] = FrontIds(old, 1) /\ NamedFronts(new)[o] = FrontIds(new, 1)
  <2>1. Apart(old.templates, MaxTemplates) /\ Apart(new.templates, MaxTemplates) BY <1>2 DEF ToldApart
  <2> QED BY <1>3, <2>1, FrontsByName
<1>10. {new.templates[i].id : i \in DOMAIN new.templates} = {old.templates[i].id : i \in DOMAIN old.templates} BY <1>6
<1>11. DOMAIN FrontsBar'[t] = DOMAIN FrontsBar[t] BY <1>8, <1>9, <1>10
<1>12. ASSUME NEW k \in DOMAIN FrontsBar[t]
       PROVE \E i \in DOMAIN old.templates : FrontsBar[t][k] = FrontIds(old, i) /\ FrontsBar'[t][k] = FrontIds(new, i)
  <2>1. CASE old.kind # Cloze
    <3>1. PICK i \in DOMAIN old.templates : k = old.templates[i].id BY <1>8, <1>12, <1>9, <2>1
    <3>2. FrontsBar[t][k] = FrontIds(old, i) BY <1>8, <1>9, <2>1, <3>1
    <3>3. FrontsBar'[t][k] = FrontIds(new, i) BY <1>6, <1>8, <1>9, <2>1, <3>1
    <3> QED BY <3>2, <3>3
  <2>2. CASE old.kind = Cloze
    <3>1. 1 \in DOMAIN old.templates BY <1>3, <2>2 DEF Legible, OneOfClozes
    <3>2. k \in 1..LastOrd BY <1>8, <1>12, <1>9, <2>2
    <3>3. FrontsBar[t][k] = FrontIds(old, 1) BY <1>8, <1>9, <2>2, <3>2
    <3>4. FrontsBar'[t][k] = FrontIds(new, 1) BY <1>8, <1>9, <2>2, <3>2
    <3> QED BY <3>1, <3>3, <3>4
  <2> QED BY <2>1, <2>2
<1>13. unclozed => /\ old.kind = Cloze
                   /\ \E l \in DOMAIN edit.templates :
                        \E name \in edit.templates[l].front : NameAfter(name, old.fields, edit.fields) = {}
  BY DEF Unclozed, IsEdit
<1>14. ASSUME NEW k \in DOMAIN FrontsBar[t]
       PROVE LET left == FrontsBar[t][k] \cap FieldsBar'[t]
             IN  \/ left # {} /\ FrontsBar'[t][k] = left
                 \/ /\ left = {} \/ (KindsBar[t] # "normal" /\ left # FrontsBar[t][k])
                    /\ \E f \in FieldsBar'[t] : FrontsBar'[t][k] = left \cup {f}
  <2>1. PICK i \in DOMAIN old.templates : FrontsBar[t][k] = FrontIds(old, i) /\ FrontsBar'[t][k] = FrontIds(new, i)
    BY <1>12
  <2>2. unclozed => \E name \in old.templates[i].front : NameAfter(name, old.fields, edit.fields) = {}
    <3>1. SUFFICES ASSUME unclozed PROVE \E name \in old.templates[i].front : NameAfter(name, old.fields, edit.fields) = {}
      OBVIOUS
    <3>2. PICK l \in DOMAIN edit.templates :
            \E name \in edit.templates[l].front : NameAfter(name, old.fields, edit.fields) = {}
      BY <1>13, <3>1
    <3>3. DOMAIN old.templates = {1} BY <1>3, <1>13, <3>1 DEF Legible, OneOfClozes
    <3> QED BY <1>5, <3>2, <3>3
  <2>3. FrontFollows(FrontIds(old, i), FrontIds(new, i), FieldIdsOf(new), unclozed)
    <3>1. Apart(old.fields, MaxFields) /\ WellNamed(new.fields) BY <1>2, <1>3 DEF ToldApart, Legible
    <3>2. new.templates[i].front = FrontAfter(old.templates[i].front, old.fields, edit.fields, unclozed) BY <1>7
    <3>3. \A j \in DOMAIN edit.fields : new.fields[j].name = edit.fields[j].name BY <1>7
    <3> QED BY <1>2, <1>3, <2>2, <3>1, <3>2, <3>3, FrontSaved
  <2>4. FrontFollows(FrontsBar[t][k], FrontsBar'[t][k], FieldsBar'[t], unclozed) BY <1>8, <2>1, <2>3
  <2>5. unclozed => KindsBar[t] # "normal" BY <1>13 DEF KindsBar, Cloze
  <2> QED BY <2>4, <2>5 DEF FrontFollows
<1> QED BY <1>1, <1>11, <1>14 DEF Named!EditFields

(* The parts of what was laid out in an open dialog, while it is current.      *)
LEMMA WishParts ==
  ASSUME Supposed, EInv, form # NoForm, form.schema = schema,
         NEW old, old = types[form.old], NEW new, new = types[form.new], NEW w, w = WishBar
  PROVE /\ w \in Wish /\ w.notes = form.notes /\ w.type = form.new /\ DOMAIN w.from = FieldIdsOf(new)
        /\ \A j \in DOMAIN new.fields :
             w.from[new.fields[j].id] = IF form.fields[j] = 0 THEN 0 ELSE old.fields[form.fields[j]].id
        /\ form.templates = <<>> =>
             \A p : p \in w.cards <=> \E o \in OrdsOf(old) \cap OrdsOf(new) : p = <<CardName(old, o), CardName(new, o)>>
        /\ form.templates # <<>> =>
             \A p : p \in w.cards <=> \E i \in DOMAIN form.templates :
                      form.templates[i] # 0 /\ p = <<old.templates[form.templates[i]].id, new.templates[i].id>>
<1>1. /\ form.fields \in [DOMAIN new.fields -> 0..Len(old.fields)]
      /\ w = WishOf(form.notes, old, new, form.new, form.fields, form.templates)
  BY DEF EInv, WishFits
<1>2. form.old \in Types /\ form.new \in Types BY DEF EInv, DInv, CInv, IInv, FormFits, FormTyped
<1>3. w \in Wish BY WishSeen DEF Supposed
<1> DEFINE From(id) == LET i == CHOOSE i \in DOMAIN new.fields : new.fields[i].id = id
                       IN  IF form.fields[i] = 0 THEN 0 ELSE old.fields[form.fields[i]].id
           pairs == IF form.templates = <<>>
                    THEN {<<CardName(old, o), CardName(new, o)>> : o \in OrdsOf(old) \cap OrdsOf(new)}
                    ELSE {<<old.templates[form.templates[i]].id, new.templates[i].id>> :
                            i \in {i \in DOMAIN form.templates : form.templates[i] # 0}}
<1>4. w = [notes |-> form.notes, type |-> form.new, laid_out |-> form.templates # <<>>,
           from |-> [id \in {new.fields[i].id : i \in DOMAIN new.fields} |-> From(id)], cards |-> pairs]
  BY <1>1 DEF WishOf, Sources, ByOrdinal, ByLayout
<1>5. Apart(new.fields, MaxFields) BY <1>2 DEF EInv, DInv, ToldApart
<1>6. ASSUME NEW j \in DOMAIN new.fields
      PROVE From(new.fields[j].id) = IF form.fields[j] = 0 THEN 0 ELSE old.fields[form.fields[j]].id
  <2>1. (CHOOSE i \in DOMAIN new.fields : new.fields[i].id = new.fields[j].id) = j BY <1>5, FoundById
  <2> QED BY <2>1
<1>7. form.templates = <<>> =>
        \A p : p \in pairs <=> \E o \in OrdsOf(old) \cap OrdsOf(new) : p = <<CardName(old, o), CardName(new, o)>>
  OBVIOUS
<1>8. form.templates # <<>> =>
        \A p : p \in pairs <=> \E i \in DOMAIN form.templates :
                 form.templates[i] # 0 /\ p = <<old.templates[form.templates[i]].id, new.templates[i].id>>
  OBVIOUS
<1> HIDE DEF From, pairs
<1>9. w.notes = form.notes /\ w.type = form.new /\ w.cards = pairs /\ w.from = [id \in FieldIdsOf(new) |-> From(id)]
  BY <1>4 DEF FieldIdsOf
<1>10. \A j \in DOMAIN new.fields : new.fields[j].id \in FieldIdsOf(new) BY DEF FieldIdsOf
<1>11. \A j \in DOMAIN new.fields : w.from[new.fields[j].id] = From(new.fields[j].id) BY <1>9, <1>10
<1> QED BY <1>3, <1>6, <1>7, <1>8, <1>9, <1>11

(* Each card of a note that changes type becomes the one that was laid out for *)
(* it, or goes if there is none.                                               *)
LEMMA CardChanged ==
  ASSUME Supposed, EInv, form # NoForm, form.schema = schema,
         NEW old, old = types[form.old], NEW new, new = types[form.new], NEW K, K = CardsRemapped,
         NEW c \in DOMAIN cards, cards[c].note \in form.notes, Exists(cards[c].note), NEW o, o = cards[c].ord
  PROVE /\ c \in DOMAIN K => K[c].note = cards[c].note /\ <<CardName(old, o), CardName(new, K[c].ord)>> \in WishBar.cards
        /\ c \notin DOMAIN K => \A k : <<CardName(old, o), k>> \notin WishBar.cards
<1> DEFINE ours == {d \in DOMAIN cards : cards[d].note \in form.notes}
           m == form.templates
           taken(p) == {i \in DOMAIN m : m[i] = p}
           unmapped == {p \in DOMAIN old.templates : taken(p) = {}}
<1>1. /\ form.old \in Types /\ form.new \in Types /\ LaidOut(m, old, new) /\ notes[cards[c].note].type = form.old
      /\ Counted(old) /\ Counted(new) /\ ToldApart(old) /\ ToldApart(new) /\ cards[c] \in Card
  BY DEF EInv, DInv, CInv, IInv, FormFits, FormTyped, TypesCounted, CardsTyped
<1>2. o \in OrdsOf(old) /\ c \in ours
  <2>1. CardView(c) BY Seen DEF Views, CardViews
  <2> QED BY <1>1, <2>1 DEF CardView
<1>3. \A p \in OrdsOf(old) : CardName(old, p) = CardName(old, o) => p = o
  BY <1>1, <1>2, Seen DEF Views, CardNamesDiffer
<1>4. CASE m = <<>>
  <2>1. \A p : p \in WishBar.cards <=> \E q \in OrdsOf(old) \cap OrdsOf(new) : p = <<CardName(old, q), CardName(new, q)>>
    BY <1>4, WishParts
  <2>2. /\ c \in DOMAIN K <=> o \in OrdsOf(new)
        /\ c \in DOMAIN K => K[c] = cards[c]
    <3>1. CASE new.kind = Normal
      <4>1. K = Without(cards, {d \in ours : cards[d].ord > Len(new.templates)}) BY <1>4, <3>1 DEF CardsRemapped
      <4>2. /\ c \in DOMAIN K <=> ~(o > Len(new.templates))
            /\ c \in DOMAIN K => K[c] = cards[c]
        BY <1>2, <4>1 DEF Without
      <4>3. OrdsOf(new) = 1..Len(new.templates) /\ Len(new.templates) \in Nat
        <5>1. MaxTemplates \in Nat BY BoundsAssumption
        <5> QED BY <1>1, <3>1, <5>1 DEF OrdsOf, Counted
      <4>4. o \in Nat \ {0}
        <5>1. o \in 1..LastOrd /\ LastOrd \in Nat BY <1>1, BoundsAssumption DEF Card
        <5> QED BY <5>1
      <4> QED BY <4>2, <4>3, <4>4
    <3>2. CASE new.kind # Normal
      <4>1. K = cards BY <1>4, <3>2 DEF CardsRemapped
      <4>2. o \in OrdsOf(new) BY <1>1, <3>2 DEF OrdsOf, Card
      <4> QED BY <4>1, <4>2
    <3> QED BY <3>1, <3>2
  <2> QED BY <1>2, <1>3, <2>1, <2>2
<1>5. CASE m # <<>>
  <2>1. \A p : p \in WishBar.cards <=> \E i \in DOMAIN m : m[i] # 0 /\ p = <<old.templates[m[i]].id, new.templates[i].id>>
    BY <1>5, WishParts
  <2>2. /\ Cloze \notin {old.kind, new.kind} /\ DOMAIN m \subseteq DOMAIN new.templates
        /\ \A i \in DOMAIN m : m[i] \in 0..Len(old.templates)
    BY <1>1, <1>5 DEF LaidOut
  <2>3. old.kind = Normal /\ new.kind = Normal BY <1>1, <2>2 DEF Counted
  <2>4. o \in DOMAIN old.templates BY <1>2, <2>3 DEF OrdsOf
  <2>5. CardName(old, o) = old.templates[o].id BY <2>3, <2>4 DEF CardName, Normal, Cloze
  <2>6. \A i \in DOMAIN new.templates : CardName(new, i) = new.templates[i].id BY <2>3 DEF CardName, Normal, Cloze
  <2>7. o # 0 /\ \A i \in DOMAIN m : m[i] # 0 => m[i] \in DOMAIN old.templates
    <3>1. Len(old.templates) \in Nat /\ DOMAIN old.templates = 1..Len(old.templates)
      <4>1. MaxTemplates \in Nat BY BoundsAssumption
      <4> QED BY <1>1, <4>1 DEF Counted
    <3> QED BY <2>2, <2>4, <3>1
  <2>8. \A i \in DOMAIN m : m[i] # 0 /\ old.templates[m[i]].id = old.templates[o].id <=> m[i] = o
    BY <1>1, <2>4, <2>7 DEF ToldApart, Apart
  <2>9. \A k : <<CardName(old, o), k>> \in WishBar.cards <=> \E i \in DOMAIN m : m[i] = o /\ k = new.templates[i].id
    BY <2>1, <2>5, <2>8
  <2>10. /\ DOMAIN K = DOMAIN cards \ {d \in ours : cards[d].ord \in unmapped}
         /\ \A d \in DOMAIN K \cap ours :
              taken(cards[d].ord) # {} => K[d] = [cards[d] EXCEPT !.ord = CHOOSE i \in taken(cards[d].ord) : TRUE]
    BY <1>5 DEF CardsRemapped
  <2> DEFINE j == CHOOSE i \in taken(o) : TRUE
  <2>11. c \in DOMAIN K <=> taken(o) # {} BY <1>2, <2>4, <2>10
  <2>12. taken(o) # {} => K[c] = [cards[c] EXCEPT !.ord = j]
    <3>1. taken(o) # {} => c \in DOMAIN K \cap ours BY <1>2, <2>11
    <3> HIDE DEF taken, ours, unmapped
    <3> QED BY <2>10, <3>1
  <2>13. taken(o) # {} => j \in DOMAIN m /\ m[j] = o OBVIOUS
  <2>14. taken(o) = {} => \A i \in DOMAIN m : m[i] # o OBVIOUS
  <2> HIDE DEF j, taken
  <2>15. taken(o) # {} => K[c].note = cards[c].note /\ K[c].ord = j BY <1>1, <2>12 DEF Card
  <2>16. DOMAIN m \subseteq DOMAIN new.templates BY <2>2
  <2> QED BY <2>6, <2>9, <2>11, <2>13, <2>14, <2>15, <2>16
<1> QED BY <1>4, <1>5

(* A change of type is carried out as it was laid out.                         *)
LEMMA ApplyChangeSeen ==
  ASSUME Supposed, EInv, EInv', ChangeNotetype
  PROVE Named!ApplyChange
<1> DEFINE old == types[form.old]
           new == types[form.new]
           w == WishBar
           K == CardsRemapped
           table == [n \in Notes |-> IF n \in form.notes
                                     THEN [type |-> form.new, fields |-> FieldsRemapped(notes[n].fields)]
                                     ELSE notes[n]]
           moved == {c \in DOMAIN CardsBar : CardsBar[c].note \in w.notes}
           to(c) == {p[2] : p \in {q \in w.cards : q[1] = CardsBar[c].of}}
<1>1. Views /\ Views' BY Seen, SeenAfter
<1>2. /\ form # NoForm /\ form.schema = schema /\ \A n \in form.notes : Exists(n)
      /\ notes' = table /\ form' = NoForm /\ types' = types /\ report' = report
  BY DEF ChangeNotetype, SchemaIsCurrent
<1>3. /\ Ordinary /\ CInv /\ IInv' /\ form.new \in Types /\ form.old \in Types /\ form.notes \subseteq Notes
      /\ \A n \in form.notes : notes[n].type = form.old
  BY <1>2 DEF Supposed, EInv, DInv, CInv, IInv, FormFits, FormTyped
<1>4. Filled(K, notes', types', form.notes) BY <1>2, <1>3, ChangeNotetypeFits
<1>5. /\ w \in Wish /\ w.notes = form.notes /\ w.type = form.new /\ DOMAIN w.from = FieldIdsOf(new)
      /\ \A j \in DOMAIN new.fields :
           w.from[new.fields[j].id] = IF form.fields[j] = 0 THEN 0 ELSE old.fields[form.fields[j]].id
  <2> HIDE DEF w
  <2> QED BY <1>2, WishParts DEF w
<1>6. w # NoForm /\ WishBar' = NoForm BY <1>2, <1>5 DEF WishBar, Supposed, Distinguished
<1>7. FieldsBar[form.new] = FieldIdsOf(new) /\ FieldsBar'[form.new] = FieldIdsOf(new) /\ FieldsBar[form.old] = FieldIdsOf(old)
  BY <1>2, <1>3 DEF FieldsBar
<1>8. DOMAIN CardsBar = DOMAIN cards /\ DOMAIN CardsBar' = DOMAIN cards' BY <1>1 DEF Views, CardViews
<1>9. /\ \A c \in DOMAIN K : c \in DOMAIN cards' /\ cards'[c] = K[c]
      /\ \A c \in DOMAIN cards \ DOMAIN K : c \notin DOMAIN cards'
  BY <1>4 DEF Filled
<1>10. \A n \in Notes \ form.notes : notes'[n] = notes[n] BY <1>2
<1>11. \A n \in form.notes : notes'[n] = [type |-> form.new, fields |-> FieldsRemapped(notes[n].fields)] BY <1>2, <1>3
<1> HIDE DEF table
<1>12. \A n \in form.notes : notes'[n].type = form.new /\ notes'[n].fields = FieldsRemapped(notes[n].fields)
  <2>1. SUFFICES ASSUME NEW n \in form.notes
        PROVE notes'[n].type = form.new /\ notes'[n].fields = FieldsRemapped(notes[n].fields)
    OBVIOUS
  <2>2. PICK u, text : u = form.new /\ text = FieldsRemapped(notes[n].fields) OBVIOUS
  <2>3. notes'[n] = [type |-> u, fields |-> text] BY <1>11, <2>2
  <2> QED BY <2>2, <2>3
<1>13. \A n \in Notes \ w.notes : TextsBar'[n] = TextsBar[n] BY <1>2, <1>5, <1>10, SameText
<1>14. ASSUME NEW n \in form.notes, NEW f \in FieldIdsOf(new)
       PROVE TextsBar'[n].text[f] = IF w.from[f] \in FieldIdsOf(old) THEN TextsBar[n].text[w.from[f]] ELSE NoText
  <2>1. PICK j \in DOMAIN new.fields : f = new.fields[j].id BY <1>14 DEF FieldIdsOf
  <2>2. /\ Exists(n) /\ notes[n].type = form.old /\ n \in Notes /\ notes'[n].type = form.new
        /\ notes'[n].fields = FieldsRemapped(notes[n].fields)
    BY <1>2, <1>3, <1>12
  <2>3. Exists(n)' /\ DOMAIN notes[n].fields = DOMAIN old.fields
    <3>1. CardsOf(cards', n) # {} BY <1>4 DEF Filled
    <3>2. PICK c \in DOMAIN cards' : cards'[c].note = n BY <3>1 DEF CardsOf
    <3>3. CardView(c)' BY <1>1, <3>2 DEF Views, CardViews
    <3> QED BY <2>2, <1>3, <3>2, <3>3 DEF CardView, Exists, CInv, IInv, FieldsFit
  <2>4. TextView(n) /\ TextView(n)' BY <1>1, <2>2, <2>3 DEF Views, TextViews
  <2>5. TextsBar'[n].text[f] = notes'[n].fields[j]
    <3>1. types'[notes'[n].type] = new BY <1>2, <2>2
    <3> HIDE DEF new
    <3> QED BY <2>1, <2>4, <3>1 DEF TextView
  <2>6. \A i \in DOMAIN old.fields : TextsBar[n].text[old.fields[i].id] = notes[n].fields[i] BY <2>2, <2>4 DEF TextView
  <2>7. j \in DOMAIN form.fields /\ form.fields[j] \in 0..Len(old.fields)
    <3>1. form.fields \in [DOMAIN new.fields -> 0..Len(old.fields)] BY <1>2 DEF EInv, WishFits
    <3> QED BY <3>1
  <2>8. notes'[n].fields[j] = IF form.fields[j] \in DOMAIN old.fields THEN notes[n].fields[form.fields[j]] ELSE NoText
    BY <2>2, <2>3, <2>7 DEF FieldsRemapped
  <2>9. Apart(old.fields, MaxFields) /\ MaxFields \in Nat BY <1>3, BoundsAssumption DEF EInv, DInv, ToldApart
  <2>10. CASE form.fields[j] = 0
    <3>1. w.from[f] = 0 BY <1>5, <2>1, <2>10
    <3>2. 0 \notin FieldIdsOf(old) /\ 0 \notin DOMAIN old.fields BY <2>9 DEF FieldIdsOf, Apart
    <3> QED BY <2>5, <2>8, <2>10, <3>1, <3>2
  <2>11. CASE form.fields[j] # 0
    <3>1. w.from[f] = old.fields[form.fields[j]].id BY <1>5, <2>1, <2>11
    <3>2. form.fields[j] \in DOMAIN old.fields BY <2>7, <2>9, <2>11 DEF Apart
    <3>3. w.from[f] \in FieldIdsOf(old) BY <3>1, <3>2 DEF FieldIdsOf
    <3> QED BY <2>5, <2>6, <2>8, <3>1, <3>2, <3>3
  <2> QED BY <2>10, <2>11
<1>15. ASSUME NEW n \in form.notes
       PROVE /\ n \in Notes /\ Named!Exists(n) /\ Named!Complete(n)' /\ Named!CardsOf(n)' # {}
             /\ TextsBar[n].type = form.old /\ TextsBar'[n].type = form.new
  <2>1. n \in Notes /\ Exists(n) /\ notes[n].type = form.old /\ notes'[n].type = form.new BY <1>2, <1>3, <1>12
  <2>2. Exists(n)'
    <3>1. CardsOf(cards', n) # {} BY <1>4 DEF Filled
    <3>2. PICK c \in DOMAIN cards' : cards'[c].note = n BY <3>1 DEF CardsOf
    <3>3. CardView(c)' BY <1>1, <3>2 DEF Views, CardViews
    <3> QED BY <3>2, <3>3 DEF CardView, Exists
  <2>3. TextView(n) /\ TextView(n)' BY <1>1, <2>1, <2>2 DEF Views, TextViews
  <2>4. TextsBar[n].type = form.old /\ TextsBar'[n].type = form.new BY <2>1, <2>3 DEF TextView
  <2>5. Named!Complete(n)' /\ Named!CardsOf(n)' # {} BY <1>1, <1>4, <2>1, <2>2, FillSeen
  <2>6. Named!Exists(n) BY <1>1, <2>1 DEF Views, NoteViews
  <2> QED BY <2>1, <2>4, <2>5, <2>6
<1>16. \A c \in DOMAIN cards : CardsBar[c].note = cards[c].note BY <1>1 DEF Views, CardViews, CardView
<1>17. \A c \in DOMAIN cards : c \in moved <=> cards[c].note \in form.notes BY <1>5, <1>8, <1>16
<1>18. moved \subseteq DOMAIN cards BY <1>8
<1> HIDE DEF moved
<1>19. Named!OnlyLose(moved)
  <2>1. ASSUME NEW c \in DOMAIN cards \ moved
        PROVE c \in DOMAIN cards' /\ cards'[c] = cards[c] /\ notes'[cards[c].note].type = notes[cards[c].note].type
    <3>1. cards[c].note \in Notes \ form.notes BY <1>1, <1>17, <2>1 DEF Views, CardViews, CardView
    <3>2. c \in DOMAIN K /\ K[c] = cards[c] BY <2>1, <3>1 DEF CardsRemapped, Without
    <3> QED BY <1>9, <1>10, <3>1, <3>2
  <2> QED BY <1>1, <1>2, <2>1, LoseSeen
<1>20. ASSUME NEW c \in moved
       PROVE IF to(c) = {} THEN c \notin DOMAIN CardsBar'
             ELSE c \in DOMAIN CardsBar' /\ \E k \in to(c) : CardsBar'[c] = [CardsBar[c] EXCEPT !.of = k]
  <2>1. c \in DOMAIN cards /\ cards[c].note \in form.notes BY <1>17, <1>18
  <2>2. PICK n, o : n \in form.notes /\ n = cards[c].note /\ o = cards[c].ord
    <3>1. \E n, o : n = cards[c].note /\ o = cards[c].ord OBVIOUS
    <3> QED BY <2>1, <3>1
  <2>3. CardView(c) /\ Exists(n) BY <1>1, <1>2, <2>1, <2>2 DEF Views, CardViews
  <2>4. CardsBar[c] = [note |-> n, of |-> CardName(old, o)] /\ CardsBar[c].of = CardName(old, o)
    BY <1>3, <2>2, <2>3 DEF CardView
  <2>5. \A k : k \in to(c) <=> <<CardName(old, o), k>> \in w.cards
    <3>1. w.cards \in SUBSET (Nat \X Nat) BY <1>5 DEF Wish
    <3> HIDE DEF w
    <3> QED BY <2>4, <3>1
  <2>6. /\ c \in DOMAIN K => K[c].note = n /\ <<CardName(old, o), CardName(new, K[c].ord)>> \in w.cards
        /\ c \notin DOMAIN K => \A k : <<CardName(old, o), k>> \notin w.cards
    BY <1>2, <2>1, <2>2, <2>3, CardChanged
  <2> HIDE DEF to, w, K
  <2>7. CASE c \in DOMAIN K
    <3>1. c \in DOMAIN cards' /\ cards'[c] = K[c] /\ CardView(c)' BY <1>1, <1>9, <2>7 DEF Views, CardViews
    <3>2. CardsBar'[c] = [note |-> n, of |-> CardName(new, K[c].ord)]
      <4>1. types'[notes'[n].type] = new BY <1>2, <1>12, <2>2
      <4> HIDE DEF new
      <4> QED BY <2>6, <2>7, <3>1, <4>1 DEF CardView
    <3>3. CardName(new, K[c].ord) \in to(c) BY <2>5, <2>6, <2>7
    <3>4. CardsBar'[c] = [CardsBar[c] EXCEPT !.of = CardName(new, K[c].ord)] BY <2>4, <3>2
    <3> QED BY <1>8, <3>1, <3>3, <3>4
  <2>8. CASE c \notin DOMAIN K
    <3>1. to(c) = {} BY <2>5, <2>6, <2>8
    <3> QED BY <1>8, <1>9, <2>1, <2>8, <3>1
  <2> QED BY <2>7, <2>8
<1>21. Named!OnlyGain
  <2>1. DOMAIN K \subseteq DOMAIN cards BY DEF CardsRemapped, Without
  <2> QED BY <1>1, <1>4, <2>1, GainSeen
<1>22. UNCHANGED <<KindsBar, FrontsBar, FieldsBar, Reported>> BY <1>2, FrameSeen
<1> HIDE DEF to
<1>23. \A n \in w.notes :
         /\ Named!Complete(n)' /\ Named!CardsOf(n)' # {}
         /\ TextsBar'[n].type = w.type
         /\ \A f \in FieldsBar[w.type] :
              TextsBar'[n].text[f] = IF w.from[f] \in FieldsBar[TextsBar[n].type] THEN TextsBar[n].text[w.from[f]] ELSE NoText
  BY <1>5, <1>7, <1>14, <1>15
<1>24. DOMAIN w.from = FieldsBar[w.type] /\ \A n \in w.notes : Named!Exists(n) BY <1>5, <1>7, <1>15
<1> QED BY <1>6, <1>13, <1>19, <1>20, <1>21, <1>22, <1>23, <1>24 DEF Named!ApplyChange, moved, to

LEMMA EditsSeen ==
  ASSUME Supposed, EInv, EInv', NEW t \in Types, EditFields(t) \/ EditTemplates(t) \/ Restore(t)
  PROVE Named!Next
<1>1. PICK edit, skip_checks, reworded : \E unclozed \in Unclozed(types[t], edit) :
        SaveNotetype(t, edit, skip_checks, reworded, unclozed) /\ IsEdit(t, edit) /\ HowEdited(t, edit, skip_checks)
  BY EditsAreProper DEF Supposed, EInv
<1>2. PICK unclozed \in Unclozed(types[t], edit) :
        SaveNotetype(t, edit, skip_checks, reworded, unclozed) /\ IsEdit(t, edit) /\ HowEdited(t, edit, skip_checks)
  BY <1>1
<1>3. CASE edit.templates = SameTemplates(types[t]) /\ 1 \in DOMAIN edit.fields
  <2>1. Named!EditFields(t) BY <1>2, <1>3, EditFieldsSeen
  <2> QED BY <2>1 DEF Named!Next
<1>4. CASE edit.fields = SameFields(types[t])
  <2>1. Named!EditTemplates(t) BY <1>2, <1>4, EditTemplatesSeen
  <2> QED BY <2>1 DEF Named!Next
<1>5. CASE Stocks[t] # {}
  <2>1. Named!Restore(t) BY <1>2, RestructureSeen DEF Named!Restore
  <2> QED BY <1>5, <2>1 DEF Named!Next
<1> QED BY <1>2, <1>3, <1>4, <1>5 DEF HowEdited

LEMMA StepSeen == Supposed /\ EInv /\ EInv' /\ [Next]_vars => [Named!Next]_Named!vars
<1>1. SUFFICES ASSUME Supposed, EInv, EInv', [Next]_vars PROVE Named!Next \/ UNCHANGED Named!vars OBVIOUS
<1>2. ASSUME NEW n \in Notes, NEW t \in Types, AddNote(n, t) PROVE Named!Next
  BY <1>1, <1>2, AddNoteSeen DEF Named!Next
<1>3. ASSUME NEW n \in Notes, UpdateNote(n) PROVE Named!Next BY <1>1, <1>3, UpdateNoteSeen DEF Named!Next
<1>4. ASSUME NEW n \in Notes, RemoveNote(n) PROVE Named!Next BY <1>1, <1>4, RemoveNoteSeen DEF Named!Next
<1>5. CASE (\E t \in FieldsEdited : EditFields(t)) \/ \E t \in Edited : EditTemplates(t)
  BY <1>1, <1>5, EditsSeen, EditedAssumption
<1>6. CASE \E t \in Types : Restore(t) BY <1>1, <1>6, EditsSeen
<1>7. CASE (\E t, u \in Types : OpenChange(t, u)) \/ CloseChange BY <1>1, <1>7, DialogsSeen DEF Named!Next
<1>8. CASE ChangeNotetype BY <1>1, <1>8, ApplyChangeSeen DEF Named!Next
<1>9. CASE FindEmpty BY <1>1, <1>9, FindEmptySeen DEF Named!Next
<1>10. CASE CloseReport \/ \E keep \in BOOLEAN : DeleteEmpty(keep) BY <1>1, <1>10, DeleteEmptySeen DEF Named!Next
<1>11. CASE CheckDatabase BY <1>1, <1>11, CheckDatabaseSeen DEF Named!Next
<1>12. CASE UNCHANGED vars
  <2>1. UNCHANGED <<types, notes, cards, form, report>> BY <1>12 DEF vars
  <2>2. UNCHANGED <<KindsBar, FrontsBar, FieldsBar, TextsBar, CardsBar, WishBar, Reported>> BY <2>1, StaySeen, FrameSeen
  <2> QED BY <2>2 DEF Named!vars
<1> QED BY <1>1, <1>2, <1>3, <1>4, <1>5, <1>6, <1>7, <1>8, <1>9, <1>10, <1>11, <1>12 DEF Next

(* Notes, texts and cards that the code keeps by position and by name behave   *)
(* as if fields and card types had an identity: whatever is renamed, moved,    *)
(* added or removed, a text stays with its field, a card with its card type,   *)
(* a front with its fields, and a change of note type does what was laid out   *)
(* when its dialog was opened.                                                 *)
THEOREM PositionsAndNamesSuffice ==
  ASSUME Ordinary, Identified, Distinguished
  PROVE Spec => ImplementsNamed
<1>1. Supposed BY DEF Supposed
<1>2. Init => EInv BY InitNames
<1>3. EInv /\ [Next]_vars => EInv' BY StepKeepsNames
<1>4. Init => Named!Init BY <1>1, InitSeen
<1>5. EInv /\ EInv' /\ [Next]_vars => [Named!Next]_Named!vars BY <1>1, StepSeen
<1> QED BY <1>2, <1>3, <1>4, <1>5, PTL DEF Spec, ImplementsNamed, Named!Spec
================================================================================
