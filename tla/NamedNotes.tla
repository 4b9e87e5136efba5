------------------------------ MODULE NamedNotes ------------------------------
(* What note types promise: a text belongs to a field and a card to a card    *)
(* type, whatever is reordered, renamed, added or removed around them.  Here  *)
(* fields and card types are things of their own; the collection only has     *)
(* positions and names for them, and Notetypes shows that these amount to it. *)
EXTENDS Naturals, FiniteSets

CONSTANTS Types, Restorable, Notes, NoNote, NoText, NoWish, Clozes, LastOrd

VARIABLES
  kinds,    \* for each note type, whether cards belong to card types or to clozes
  fronts,   \* for each note type, the fields on the front of each card type
  fields,   \* for each note type, its fields
  texts,    \* for each note, its type and the text of each field
  cards,    \* the cards that exist: whose and of which card type
  wish,     \* a change of note type that the user has laid out, or none
  reported  \* cards the user was told are empty

vars == <<kinds, fronts, fields, texts, cards, wish, reported>>

Exists(n) == texts[n] # NoNote
CardsOf(n) == {c \in DOMAIN cards : cards[c].note = n}
Having(n) == {cards[c].of : c \in CardsOf(n)}

(* A card type shows a text of its front; a cloze number is one of the texts. *)
Showing(n) ==
  LET t == texts[n].type
      text == texts[n].text
  IN  IF kinds[t] = "normal"
      THEN {k \in DOMAIN fronts[t] : \E f \in fronts[t][k] : text[f] # NoText}
      ELSE {IF k < LastOrd THEN k ELSE LastOrd : k \in UNION {Clozes[text[f]] : f \in fields[t]}}

(* Every card the note calls for exists.                                      *)
Complete(n) == Exists(n) /\ Showing(n) \subseteq Having(n)

(* Cards change in no other way than that some go and new ones come.          *)
OnlyLose(gone) == \A c \in DOMAIN cards \ gone : c \in DOMAIN cards' /\ cards'[c] = cards[c]
Lost == DOMAIN cards \ DOMAIN cards'

(* A new card is one its note calls for, or the first of a note without any.  *)
OnlyGain ==
  \A c \in DOMAIN cards' \ DOMAIN cards :
    \E n \in Notes :
      /\ cards'[c].note = n /\ Exists(n)'
      /\ cards'[c].of \in Showing(n)' \/ Having(n)' = {cards'[c].of}

AddNote(n) ==
  /\ ~Exists(n)
  /\ UNCHANGED <<kinds, fronts, fields, wish, reported>>
  /\ Complete(n)' /\ CardsOf(n)' # {}
  /\ \A m \in Notes \ {n} : texts'[m] = texts[m]
  /\ OnlyLose({}) /\ OnlyGain

UpdateNote(n) ==
  /\ Exists(n)
  /\ UNCHANGED <<kinds, fronts, fields, wish, reported>>
  /\ Complete(n)' /\ texts'[n].type = texts[n].type
  /\ \A m \in Notes \ {n} : texts'[m] = texts[m]
  /\ OnlyLose({}) /\ OnlyGain

RemoveNote(n) ==
  /\ Exists(n)
  /\ UNCHANGED <<kinds, fronts, fields, wish, reported>>
  /\ texts' = [texts EXCEPT ![n] = NoNote]
  /\ OnlyLose(CardsOf(n)) /\ Lost = CardsOf(n) /\ DOMAIN cards' \subseteq DOMAIN cards

(* A change that was laid out stays as it is, but which card becomes which if *)
(* that was left to the order of the card types.                              *)
KeepsWish ==
  \/ wish' = wish
  \/ /\ NoWish \notin {wish, wish'}
     /\ ~wish.laid_out /\ wish' = [wish EXCEPT !.cards = wish'.cards]

(* Changing a note type: notes keep the texts of the fields that remain, and  *)
(* lose the cards whose card type is gone, and only those.                    *)
Restructure(t) ==
  LET ours == {n \in Notes : Exists(n) /\ texts[n].type = t}
      lost == {c \in DOMAIN cards : cards[c].note \in ours /\ cards[c].of \notin DOMAIN fronts'[t]}
  IN  /\ KeepsWish /\ UNCHANGED reported
      /\ \A u \in Types \ {t} : kinds'[u] = kinds[u] /\ fields'[u] = fields[u] /\ fronts'[u] = fronts[u]
      /\ \A n \in Notes \ ours : texts'[n] = texts[n]
      /\ \A n \in ours :
           texts'[n] = [type |-> t,
                        text |-> [f \in fields'[t] |-> IF f \in fields[t] THEN texts[n].text[f] ELSE NoText]]
      /\ OnlyLose(lost) /\ Lost = lost /\ OnlyGain

(* A front keeps showing its remaining fields.  It shows another as well if   *)
(* none is left, or if a cloze type loses one (with it, its last cloze).      *)
EditFields(t) ==
  /\ DOMAIN fronts'[t] = DOMAIN fronts[t] /\ UNCHANGED kinds
  /\ \A k \in DOMAIN fronts[t] :
       LET left == fronts[t][k] \cap fields'[t]
       IN  \/ left # {} /\ fronts'[t][k] = left
           \/ /\ left = {} \/ (kinds[t] # "normal" /\ left # fronts[t][k])
              /\ \E f \in fields'[t] : fronts'[t][k] = left \cup {f}
  /\ Restructure(t)

EditTemplates(t) == UNCHANGED <<kinds, fields>> /\ Restructure(t)

(* Back to the defaults: fields and fronts may be anything afterwards.        *)
Restore(t) == Restructure(t)

OpenChange ==
  /\ wish = NoWish /\ wish' # NoWish
  /\ UNCHANGED <<kinds, fronts, fields, texts, cards, reported>>

CloseChange ==
  /\ wish' = NoWish
  /\ UNCHANGED <<kinds, fronts, fields, texts, cards, reported>>

(* The change is carried out as it was laid out: wish.from says where the     *)
(* text of a new field comes from, wish.cards which card becomes which.       *)
ApplyChange ==
  LET moved == {c \in DOMAIN cards : cards[c].note \in wish.notes}
      to(c) == {p[2] : p \in {q \in wish.cards : q[1] = cards[c].of}}
  IN  /\ wish # NoWish /\ wish' = NoWish /\ UNCHANGED <<kinds, fronts, fields, reported>>
      /\ DOMAIN wish.from = fields[wish.type] /\ \A n \in wish.notes : Exists(n)
      /\ \A n \in Notes \ wish.notes : texts'[n] = texts[n]
      /\ \A n \in wish.notes :
           /\ Complete(n)' /\ CardsOf(n)' # {}
           /\ texts'[n].type = wish.type
           /\ \A f \in fields[wish.type] :
                texts'[n].text[f] = IF wish.from[f] \in fields[texts[n].type]
                                    THEN texts[n].text[wish.from[f]] ELSE NoText
      /\ OnlyLose(moved)
      /\ \A c \in moved :
           IF to(c) = {} THEN c \notin DOMAIN cards'
           ELSE c \in DOMAIN cards' /\ \E k \in to(c) : cards'[c] = [cards[c] EXCEPT !.of = k]
      /\ OnlyGain

FindEmpty ==
  /\ UNCHANGED <<kinds, fronts, fields, texts, cards, wish>>
  /\ reported' = {c \in DOMAIN cards : cards[c].of \notin Showing(cards[c].note)}

(* Only cards that were reported are deleted, and a note with its last card.  *)
DeleteEmpty ==
  /\ reported' = {} /\ UNCHANGED <<kinds, fronts, fields, wish>>
  /\ Lost \subseteq reported /\ OnlyLose(reported) /\ DOMAIN cards' \subseteq DOMAIN cards
  /\ \A n \in Notes :
       \/ texts'[n] = texts[n]
       \/ texts'[n] = NoNote /\ CardsOf(n) # {} /\ CardsOf(n)' = {}

CheckDatabase ==
  /\ UNCHANGED <<kinds, fronts, fields, texts, wish, reported>>
  /\ OnlyLose({}) /\ OnlyGain
  /\ \A n \in Notes : Exists(n) => Complete(n)' /\ CardsOf(n)' # {}

Next ==
  \/ \E t \in Types : EditTemplates(t) \/ EditFields(t)
  \/ \E t \in Restorable : Restore(t)
  \/ \E n \in Notes : AddNote(n) \/ UpdateNote(n) \/ RemoveNote(n)
  \/ OpenChange \/ CloseChange \/ ApplyChange
  \/ FindEmpty \/ DeleteEmpty
  \/ CheckDatabase

Init ==
  /\ texts = [n \in Notes |-> NoNote] /\ DOMAIN cards = {}
  /\ wish = NoWish /\ reported = {}
  /\ \A t \in Types : \A k \in DOMAIN fronts[t] : fronts[t][k] \subseteq fields[t]

Spec == Init /\ [][Next]_vars
==============================================================================
