------------------------------ MODULE Notetypes ------------------------------
(***************************************************************************)
(* Note types, notes and the cards generated from them: notes are edited,  *)
(* the fields and card types of a note type are added, removed, renamed    *)
(* and reordered, notes change to another type, empty cards are found and  *)
(* deleted, and the database is checked.                                   *)
(* Source: src/rslib/src/notetype, notes/mod.rs, dbcheck.rs, and the       *)
(* dialogs that call them (src/qt/aqt/fields.py, clayout.py,               *)
(* changenotetype.py, emptycards.py)                                       *)
(*                                                                         *)
(* Ordinals count from one here.  A front stands for the names of the      *)
(* fields it shows; the ids of fields and card types are not in the code:  *)
(* they say which is which across changes, and nothing is decided on them. *)
(***************************************************************************)
EXTENDS Integers, Sequences, FiniteSets

CONSTANTS
  Types, Notes, Names, NoNote, NoForm,
  Fronts,        \* what the user may put on a front
  Texts, NoText,
  Clozes,        \* the cloze numbers in each text
  LastOrd,       \* the last ordinal a cloze can have (500 in the code)
  FieldsEdited,  \* bound: the types whose fields are edited
  Edited,        \* bound: the types whose templates are edited
  Layouts,       \* bound: how a change of type may be laid out
  Originals,     \* the note types at first
  Stocks,        \* for each type, what it may be restored to
  MaxFields, MaxTemplates, MaxCards, MaxSchema  \* bounds

Normal == "normal"
Cloze == "cloze"
FieldIds == 1..(MaxFields + 1)
TemplateIds == 1..(MaxTemplates + 1)
CardIds == 1..MaxCards

ASSUME TextsAssumption == NoText \in Texts /\ Clozes \in [Texts -> SUBSET (Nat \ {0})]
ASSUME BoundsAssumption == {LastOrd, MaxFields, MaxTemplates, MaxCards} \subseteq Nat \ {0} /\ MaxSchema \in Nat

Field == [id : FieldIds, name : Names]
Template == [id : TemplateIds, front : SUBSET Names]
Notetype == [kind : {Normal, Cloze}, fields : Seq(Field), templates : Seq(Template)]

ASSUME EditedAssumption == FieldsEdited \subseteq Types /\ Edited \subseteq Types
ASSUME TypesAssumption == Originals \in [Types -> Notetype] /\ Stocks \in [Types -> SUBSET Notetype]

VARIABLES
  types,    \* kind, fields and templates of each type
  notes,    \* type and field texts of each note
  cards,    \* the cards by id: note and ordinal
  schema,   \* when the schema was last modified
  form,     \* the open dialog that changes the type of notes, or none
  report    \* the open report of empty cards: for each note, which of its cards

vars == <<types, notes, cards, schema, form, report>>

NamesOf(entries) == {entries[i].name : i \in DOMAIN entries}
IdsOf(entries) == [i \in DOMAIN entries |-> entries[i].id]
Exists(n) == notes[n] # NoNote
Of(t) == {n \in Notes : Exists(n) /\ notes[n].type = t}
CardsOf(cs, n) == {c \in DOMAIN cs : cs[c].note = n}
Ords(cs, n) == {cs[c].ord : c \in CardsOf(cs, n)}
NoReport == [n \in Notes |-> [empty |-> {}, all |-> FALSE]]
Reported == UNION {report[n].empty : n \in Notes}
Least(a, b) == IF a < b THEN a ELSE b

---------------------------------------------------------------------------
(* Which cards a note calls for                                            *)

(* A template shows something if a field it refers to is not empty.        *)
Renders(template, nt, text) ==
  \E i \in DOMAIN text : text[i] # NoText /\ nt.fields[i].name \in template.front

ClozesIn(text) == UNION {Clozes[text[i]] : i \in DOMAIN text}

CardsRequired(n, nt, text, have) ==
  IF nt.kind = Normal
  THEN {[note |-> n, ord |-> i, number |-> i] :
          i \in {i \in DOMAIN nt.templates \ have : Renders(nt.templates[i], nt, text)}}
  ELSE {w \in {[note |-> n, ord |-> Least(k, LastOrd), number |-> k] : k \in ClozesIn(text)} :
          w.ord \notin have}

(* A note without cards that calls for none is given the first.            *)
NewCardsRequired(n, nt, text, have) ==
  LET required == CardsRequired(n, nt, text, have)
  IN  IF have = {} /\ required = {} THEN {[note |-> n, ord |-> 1, number |-> 1]} ELSE required

Nth(S, k) == CHOOSE x \in S : Cardinality({y \in S : y < x}) = k - 1

(* New cards take ids no card has or, as far as anybody may notice, had.    *)
AddGenerated(cs, new) ==
  LET unused == CardIds \ (DOMAIN cards \cup Reported)
      place == CHOOSE p \in [new -> 1..Cardinality(new)] : \A v, w \in new : p[v] = p[w] => v = w
      made(c) == CHOOSE w \in new : Nth(unused, place[w]) = c
  IN  [c \in DOMAIN cs \cup {Nth(unused, k) : k \in 1..Cardinality(new)} |->
         IF c \in DOMAIN cs THEN cs[c]
         ELSE [note |-> made(c).note, ord |-> made(c).ord]]

Without(cs, gone) == [c \in DOMAIN cs \ gone |-> cs[c]]

(* The new cards of the given notes, which get an id each if there is room.  *)
NewCards(cs, table, kinds, which) ==
  UNION {NewCardsRequired(n, kinds[table[n].type], table[n].fields, Ords(cs, n)) : n \in which}

Generate(cs, table, kinds, which) ==
  LET new == NewCards(cs, table, kinds, which)
  IN  /\ Cardinality(new) <= MaxCards - Cardinality(DOMAIN cards \cup Reported)
      /\ cards' = AddGenerated(cs, new)

---------------------------------------------------------------------------
(* Notes                                                                   *)

(* A new note's id is no other's, nor one that an open dialog still has.    *)
AddNote(n, t) ==
  \E text \in [DOMAIN types[t].fields -> Texts] :
    LET table == [notes EXCEPT ![n] = [type |-> t, fields |-> text]]
    IN  /\ ~Exists(n) /\ (form # NoForm => n \notin form.notes)
        /\ notes' = table /\ Generate(cards, table, types, {n})
        /\ UNCHANGED <<types, schema, form, report>>

UpdateNote(n) ==
  /\ Exists(n)
  /\ \E i \in DOMAIN notes[n].fields, x \in Texts :
       LET table == [notes EXCEPT ![n].fields[i] = x]
       IN  /\ table # notes
           /\ notes' = table /\ Generate(cards, table, types, {n})
  /\ UNCHANGED <<types, schema, form, report>>

RemoveNote(n) ==
  /\ Exists(n)
  /\ notes' = [notes EXCEPT ![n] = NoNote] /\ cards' = Without(cards, CardsOf(cards, n))
  /\ UNCHANGED <<types, schema, form, report>>

---------------------------------------------------------------------------
(* Saving a note type.  An edit lists the fields and templates to be, each  *)
(* with the ordinal it had (0 if it is new).  An edit that fails the checks *)
(* changes nothing.                                                         *)

Had(old, entries) == {entries[i].had : i \in DOMAIN entries} \cap DOMAIN old
Added(old, entries) == {i \in DOMAIN entries : entries[i].had \notin DOMAIN old}
OrdsChangedInPlace(old, entries) == \E i \in DOMAIN entries : entries[i].had # i
OrdsChanged(old, entries) ==
  DOMAIN entries # DOMAIN old \/ \E i \in DOMAIN entries : entries[i].had # i

IdOf(old, entries, i, ids) ==
  IF i \in Added(old, entries)
  THEN Nth(ids \ {old[j].id : j \in DOMAIN old}, Cardinality({j \in Added(old, entries) : j <= i}))
  ELSE old[entries[i].had].id

(* What a name in a template becomes: a field's new name, or none.          *)
NameAfter(name, old, edit) ==
  IF name \notin NamesOf(old) THEN {name}
  ELSE {edit[i].name : i \in {i \in DOMAIN edit : edit[i].had \in DOMAIN old /\ old[edit[i].had].name = name}}

RenamedOrRemoved(old, edit) == \E i \in DOMAIN old : NameAfter(old[i].name, old, edit) # {old[i].name}

(* The front of a cloze type that loses a field may lose its last cloze with *)
(* it.  (A front's names do not tell which of them have the cloze filter.)   *)
Unclozed(old, edit) ==
  IF edit.kind = Cloze /\ \E i \in DOMAIN edit.templates :
       \E name \in edit.templates[i].front : NameAfter(name, old.fields, edit.fields) = {}
  THEN BOOLEAN ELSE {FALSE}

FrontAfter(front, old, edit, unclozed) ==
  LET followed == UNION {NameAfter(name, old, edit) : name \in front}
  IN  IF unclozed \/ (RenamedOrRemoved(old, edit) /\ followed = {}) THEN followed \cup {edit[1].name} ELSE followed

PreparedForUpdate(old, edit, unclozed) ==
  [kind |-> edit.kind,
   fields |-> [i \in DOMAIN edit.fields |->
                [id |-> IdOf(old.fields, edit.fields, i, FieldIds), name |-> edit.fields[i].name]],
   templates |-> [i \in DOMAIN edit.templates |->
                   [id |-> IdOf(old.templates, edit.templates, i, TemplateIds),
                    front |-> FrontAfter(edit.templates[i].front, old.fields, edit.fields, unclozed)]]]

Valid(nt) == \A i \in DOMAIN nt.templates : nt.templates[i].front # {} /\ nt.templates[i].front \subseteq NamesOf(nt.fields)

Reordered(text, entries) ==
  [i \in DOMAIN entries |-> IF entries[i].had \in DOMAIN text THEN text[entries[i].had] ELSE NoText]

NotesUpdated(t, edit) ==
  IF OrdsChanged(types[t].fields, edit.fields)
  THEN [n \in Notes |-> IF n \in Of(t) THEN [type |-> t, fields |-> Reordered(notes[n].fields, edit.fields)]
                        ELSE notes[n]]
  ELSE notes

(* Cards of removed templates go, then those of moved templates move.       *)
CardsUpdated(t, entries) ==
  LET ours(c) == cards[c].note \in Of(t)
      gone == {c \in DOMAIN cards : ours(c) /\ cards[c].ord \in DOMAIN types[t].templates \ Had(types[t].templates, entries)}
      moved(o) == {i \in DOMAIN entries : entries[i].had = o}
  IN  [c \in DOMAIN cards \ gone |->
         IF ours(c) /\ moved(cards[c].ord) # {}
         THEN [cards[c] EXCEPT !.ord = CHOOSE i \in moved(@) : TRUE] ELSE cards[c]]

(* A template given an ordinal there was none for is not counted as added.  *)
TemplatesChanged(old, entries) ==
  Had(old, entries) # DOMAIN old \/ \E i \in DOMAIN entries : entries[i].had # i

ShouldGenerateForAdded(old, new, entries, reworded) == \E i \in DOMAIN entries : entries[i].had = 0

(* reworded: a front's text changed though it refers to the same fields.    *)
ShouldGenerate(old, new, entries, reworded) ==
  \/ reworded
  \/ Len(new) # Len(old)
  \/ \E i \in DOMAIN entries : entries[i].had = 0
  \/ \E i \in DOMAIN old : new[i].front # old[i].front

(* Only notes that still have cards, and not as many as there are templates *)
NotesToGenerate(cs, t, nt) ==
  {n \in Of(t) : /\ CardsOf(cs, n) # {}
                 /\ nt.kind = Normal => Cardinality(CardsOf(cs, n)) # Len(nt.templates)}

SaveNotetype(t, edit, skip_checks, reworded, unclozed) ==
  LET old == types[t]
      new == PreparedForUpdate(old, edit, unclozed)
      table == NotesUpdated(t, edit)
      kept == CardsUpdated(t, edit.templates)
      kinds == [types EXCEPT ![t] = new]
      which == IF ShouldGenerate(old.templates, new.templates, edit.templates, reworded)
               THEN NotesToGenerate(kept, t, new) ELSE {}
      marks == OrdsChanged(old.fields, edit.fields) \/ TemplatesChanged(old.templates, edit.templates)
  IN  /\ schema' = IF marks THEN schema + 1 ELSE schema
      /\ schema' <= MaxSchema
      /\ skip_checks \/ Valid(new)
      /\ types' = kinds /\ notes' = table /\ Generate(kept, table, kinds, which)
      /\ UNCHANGED <<form, report>>

UpdateNotetype(t, edit, skip_checks, reworded) ==
  \E unclozed \in Unclozed(types[t], edit) : SaveNotetype(t, edit, skip_checks, reworded, unclozed)

Distinct(entries, part) == \A i, j \in DOMAIN entries : entries[i][part] = entries[j][part] => i = j
FieldEdits(old) ==
  {e \in UNION {[1..k -> [name : Names, had : 0..Len(old)]] : k \in 1..MaxFields} :
     Distinct(e, "name") /\ Distinct(e, "had")}
TemplateEdits(old, names) ==
  {e \in UNION {[1..k -> [front : {front \in Fronts : front \subseteq names}, had : 0..Len(old)]] : k \in 1..MaxTemplates} :
     Distinct(e, "had")}

SameFields(nt) == [i \in DOMAIN nt.fields |-> [name |-> nt.fields[i].name, had |-> i]]
SameTemplates(nt) == [i \in DOMAIN nt.templates |-> [front |-> nt.templates[i].front, had |-> i]]

(* The fields dialog.                                                       *)
EditFields(t) ==
  \E entries \in FieldEdits(types[t].fields) :
    UpdateNotetype(t, [kind |-> types[t].kind, fields |-> entries, templates |-> SameTemplates(types[t])], TRUE, FALSE)

(* The card types dialog; a cloze type keeps its one template.  (Bound: a    *)
(* front is reworded in an edit of its own.)                                *)
EditTemplates(t) ==
  \E entries \in TemplateEdits(types[t].templates, NamesOf(types[t].fields)), reworded \in BOOLEAN :
    /\ types[t].kind = Cloze => ~OrdsChanged(types[t].templates, entries)
    /\ reworded => entries = SameTemplates(types[t])
    /\ UpdateNotetype(t, [kind |-> types[t].kind, fields |-> SameFields(types[t]), templates |-> entries], FALSE, reworded)

(* restore_notetype_to_stock: the nth field and template become the stock's *)
Restore(t) ==
  \E stock \in Stocks[t], reworded \in BOOLEAN :
    UpdateNotetype(t, [kind |-> stock.kind, fields |-> SameFields(stock), templates |-> SameTemplates(stock)], FALSE, reworded)

---------------------------------------------------------------------------
(* Changing the type of notes, laid out in a dialog that stays open: where  *)
(* the text of each new field comes from, and, unless a cloze type is       *)
(* involved, which template takes over which.                               *)

OrdsOf(nt) == IF nt.kind = Normal THEN DOMAIN nt.templates ELSE 1..LastOrd
CardName(nt, ord) == IF nt.kind = Cloze THEN ord ELSE IF ord \in DOMAIN nt.templates THEN nt.templates[ord].id ELSE 0

TemplateMaps(old, new) ==
  IF Cloze \in {old.kind, new.kind} THEN {<<>>}
  ELSE {m \in Layouts \cap [DOMAIN new.templates -> 0..Len(old.templates)] :
          \A i, j \in DOMAIN m : m[i] = m[j] /\ m[i] # 0 => i = j}

(* What was laid out, in terms of the fields and card types themselves: the  *)
(* field each new field takes its text from, and which card becomes which.   *)
Sources(old, new, fields) ==
  [id \in {new.fields[i].id : i \in DOMAIN new.fields} |->
     LET i == CHOOSE i \in DOMAIN new.fields : new.fields[i].id = id
     IN  IF fields[i] = 0 THEN 0 ELSE old.fields[fields[i]].id]

ByOrdinal(old, new) == {<<CardName(old, o), CardName(new, o)>> : o \in OrdsOf(old) \cap OrdsOf(new)}
ByLayout(old, new, templates) ==
  {<<old.templates[templates[i]].id, new.templates[i].id>> : i \in {i \in DOMAIN templates : templates[i] # 0}}

WishOf(ns, old, new, t, fields, templates) ==
  [notes |-> ns, type |-> t, laid_out |-> templates # <<>>, from |-> Sources(old, new, fields),
   cards |-> IF templates = <<>> THEN ByOrdinal(old, new) ELSE ByLayout(old, new, templates)]

OpenChange(t, u) ==
  \E ns \in (SUBSET Of(t)) \ {{}},
     fields \in Layouts \cap [DOMAIN types[u].fields -> 0..Len(types[t].fields)],
     templates \in TemplateMaps(types[t], types[u]) :
    /\ form = NoForm /\ report = NoReport /\ schema < MaxSchema
    /\ form' = [schema |-> schema, notes |-> ns, old |-> t, new |-> u, fields |-> fields, templates |-> templates,
                wish |-> WishOf(ns, types[t], types[u], u, fields, templates)]
    /\ UNCHANGED <<types, notes, cards, schema, report>>

CloseChange ==
  /\ form # NoForm /\ form' = NoForm
  /\ UNCHANGED <<types, notes, cards, schema, report>>

CardsKeptAsTheyAre == cards
CardsRemapped ==
  LET ours == {c \in DOMAIN cards : cards[c].note \in form.notes}
      taken(o) == {i \in DOMAIN form.templates : form.templates[i] = o}
      unmapped == {o \in DOMAIN types[form.old].templates : taken(o) = {}}
  IN  IF form.templates = <<>>
      THEN IF types[form.new].kind = Normal
           THEN Without(cards, {c \in ours : cards[c].ord > Len(types[form.new].templates)})
           ELSE cards
      ELSE [c \in DOMAIN cards \ {c \in ours : cards[c].ord \in unmapped} |->
              IF c \in ours /\ taken(cards[c].ord) # {}
              THEN [cards[c] EXCEPT !.ord = CHOOSE i \in taken(@) : TRUE] ELSE cards[c]]

FieldsRemapped(text) ==
  [i \in DOMAIN form.fields |-> IF form.fields[i] \in DOMAIN text THEN text[form.fields[i]] ELSE NoText]

SchemaIsTaken == TRUE
SchemaIsCurrent == form.schema = schema

ChangeNotetype ==
  /\ form # NoForm /\ SchemaIsCurrent
  /\ \A n \in form.notes : Exists(n)
  /\ DOMAIN form.fields = DOMAIN types[form.new].fields
  /\ LET table == [n \in Notes |-> IF n \in form.notes
                                   THEN [type |-> form.new, fields |-> FieldsRemapped(notes[n].fields)]
                                   ELSE notes[n]]
     IN  notes' = table /\ Generate(CardsRemapped, table, types, form.notes)
  /\ schema' = schema + 1
  /\ form' = NoForm
  /\ UNCHANGED <<types, report>>

---------------------------------------------------------------------------
(* Empty cards are reported in a window that stays open, and deleted later. *)

EmptyCards(n) ==
  LET required == CardsRequired(n, types[notes[n].type], notes[n].fields, {})
  IN  {c \in CardsOf(cards, n) : \A w \in required : w.ord # cards[c].ord}

FindEmpty ==
  /\ report = NoReport /\ form = NoForm
  /\ report' = [n \in Notes |-> LET empty == IF Exists(n) THEN EmptyCards(n) ELSE {}
                                IN  [empty |-> empty, all |-> empty # {} /\ empty = CardsOf(cards, n)]]
  /\ UNCHANGED <<types, notes, cards, schema, form>>

(* With keep_notes a note that would go keeps its first card.               *)
ToDelete(n, keep_notes) ==
  IF keep_notes /\ report[n].all THEN report[n].empty \ {Nth(report[n].empty, 1)} ELSE report[n].empty

CloseReport ==
  /\ report # NoReport /\ report' = NoReport
  /\ UNCHANGED <<types, notes, cards, schema, form>>

DeleteEmpty(keep_notes) ==
  LET gone == (UNION {ToDelete(n, keep_notes) : n \in Notes}) \cap DOMAIN cards
      left == Without(cards, gone)
  IN  /\ report # NoReport /\ cards' = left
      /\ notes' = [n \in Notes |-> IF (\E c \in gone : cards[c].note = n) /\ CardsOf(left, n) = {}
                                   THEN NoNote ELSE notes[n]]
      /\ report' = NoReport
      /\ UNCHANGED <<types, schema, form>>

---------------------------------------------------------------------------
(* check_notetypes: the field counts always agree here, see FieldsFit.      *)

Duplicates == {c \in DOMAIN cards : \E d \in CardsOf(cards, cards[c].note) : d < c /\ cards[d].ord = cards[c].ord}
WithoutTemplate ==
  {c \in DOMAIN cards : LET nt == types[notes[cards[c].note].type]
                        IN  nt.kind = Normal /\ cards[c].ord > Len(nt.templates)}

CheckDatabase ==
  LET left == Without(cards, Duplicates \cup WithoutTemplate)
      all == {n \in Notes : Exists(n)}
  IN  /\ Generate(left, notes, types, all)
      /\ schema' = IF left # cards THEN schema + 1 ELSE schema
      /\ schema' <= MaxSchema
      /\ UNCHANGED <<types, notes, form, report>>

---------------------------------------------------------------------------
Init ==
  /\ types = Originals
  /\ notes = [n \in Notes |-> NoNote]
  /\ cards = <<>>
  /\ schema = 0
  /\ form = NoForm
  /\ report = NoReport

Next ==
  \/ \E n \in Notes : \E t \in Types : AddNote(n, t)
  \/ \E n \in Notes : UpdateNote(n) \/ RemoveNote(n)
  \/ \E t \in FieldsEdited : EditFields(t)
  \/ \E t \in Edited : EditTemplates(t)
  \/ \E t \in Types : Restore(t)
  \/ \E t, u \in Types : OpenChange(t, u)
  \/ CloseChange \/ ChangeNotetype
  \/ FindEmpty \/ CloseReport \/ \E keep \in BOOLEAN : DeleteEmpty(keep)
  \/ CheckDatabase

Spec == Init /\ [][Next]_vars

---------------------------------------------------------------------------
(* Properties                                                              *)

(* Every note has a text for each field of its type, as the type is now: a   *)
(* note that does not fit is refused by prepare_for_update when it is saved. *)
FieldsFit == \A n \in Notes : Exists(n) => DOMAIN notes[n].fields = DOMAIN types[notes[n].type].fields

(* Every card is a note's, no note has two cards with the same ordinal, and  *)
(* except for clozes every card has a template: without one it cannot be     *)
(* shown.  The database check would find nothing to remove.                  *)
CardsFit ==
  /\ \A c, d \in DOMAIN cards : cards[c].note = cards[d].note /\ cards[c].ord = cards[d].ord => c = d
  /\ \A c \in DOMAIN cards :
       /\ Exists(cards[c].note)
       /\ cards[c].ord \in OrdsOf(types[notes[cards[c].note].type])

(* Positions and names amount to fields and card types with an identity:    *)
(* texts, fronts and cards follow theirs through every edit, and a  *)
(* change of type does what was laid out when its dialog was opened.        *)
FrontIds(nt, i) == {nt.fields[j].id : j \in {j \in DOMAIN nt.fields : nt.fields[j].name \in nt.templates[i].front}}
NamedFronts(nt) ==
  IF nt.kind = Cloze THEN [o \in 1..LastOrd |-> FrontIds(nt, 1)]
  ELSE [id \in {nt.templates[i].id : i \in DOMAIN nt.templates} |->
          FrontIds(nt, CHOOSE i \in DOMAIN nt.templates : nt.templates[i].id = id)]
FieldIdsOf(nt) == {nt.fields[i].id : i \in DOMAIN nt.fields}
NamedTexts(n) ==
  IF ~Exists(n) THEN NoNote
  ELSE LET fields == types[notes[n].type].fields
       IN  [type |-> notes[n].type,
            text |-> [id \in FieldIdsOf(types[notes[n].type]) |->
                        notes[n].fields[CHOOSE i \in DOMAIN fields : fields[i].id = id]]]
NamedCard(c) == [note |-> cards[c].note, of |-> CardName(types[notes[cards[c].note].type], cards[c].ord)]

KindsBar == [t \in Types |-> types[t].kind]
FrontsBar == [t \in Types |-> NamedFronts(types[t])]
FieldsBar == [t \in Types |-> FieldIdsOf(types[t])]
TextsBar == [n \in Notes |-> NamedTexts(n)]
CardsBar == [c \in DOMAIN cards |-> NamedCard(c)]
WishBar ==
  IF form = NoForm THEN NoForm
  ELSE IF form.templates # <<>> THEN form.wish
  ELSE [form.wish EXCEPT !.cards = ByOrdinal(types[form.old], types[form.new])]

Named == INSTANCE NamedNotes WITH
  NoWish <- NoForm,
  Restorable <- {t \in Types : Stocks[t] # {}},
  kinds <- KindsBar, fronts <- FrontsBar, fields <- FieldsBar, texts <- TextsBar, cards <- CardsBar,
  wish <- WishBar, reported <- Reported
ImplementsNamed == Named!Spec

(* A note that has every card it calls for, and keeps one of them, has them  *)
(* all after any edit of it, its type or the type's fields, unless an empty   *)
(* card was deleted: no database check is needed to make up for cards that    *)
(* were not generated.  One exception: the text of a front stays the same     *)
(* while it comes to belong to another card type, or its names to other       *)
(* fields (should_generate_cards compares the texts by position).             *)
Complete(n) == Exists(n) /\ CardsRequired(n, types[notes[n].type], notes[n].fields, Ords(cards, n)) = {}
SameTextOtherMeaning(t) ==
  \E i \in DOMAIN types[t].templates \cap DOMAIN types'[t].templates :
    /\ types[t].templates[i].front = types'[t].templates[i].front
    /\ \/ types[t].templates[i].id # types'[t].templates[i].id
       \/ FrontIds(types[t], i) # FrontIds(types'[t], i)
StaysComplete ==
  [][\A n \in Notes : Complete(n) /\ Exists(n)' /\ CardsOf(cards, n)' # {} =>
       \/ Complete(n)'
       \/ report # NoReport /\ report' = NoReport
       \/ SameTextOtherMeaning(notes[n].type)]_vars

(* "This will force a full sync if templates or fields have been            *)
(* added/removed/reordered" (notetype/mod.rs).                              *)
StructureIsMarked ==
  [][\A t \in Types :
       (IdsOf(types[t].fields) # IdsOf(types'[t].fields) \/ IdsOf(types[t].templates) # IdsOf(types'[t].templates))
         => schema' # schema]_vars

==============================================================================
