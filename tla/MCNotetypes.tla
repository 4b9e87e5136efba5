----------------------------- MODULE MCNotetypes -----------------------------
(* Instances of Notetypes: a normal type with two fields and one card type,  *)
(* or two after it is restored to its stock type, and a cloze type.          *)
EXTENDS Notetypes

TypeOf(kind, names, fronts) ==
  [kind |-> kind,
   fields |-> [i \in DOMAIN names |-> [id |-> i, name |-> names[i]]],
   templates |-> [i \in DOMAIN fronts |-> [id |-> i, front |-> fronts[i]]]]

Basic == TypeOf(Normal, <<"Front", "Back">>, <<{"Front"}>>)
Reversed == TypeOf(Normal, <<"Front", "Back">>, <<{"Front"}, {"Back"}>>)
ClozeType(names, front) == TypeOf(Cloze, names, <<front>>)
BasicAndCloze == [t \in Types |-> IF t = "basic" THEN Basic ELSE ClozeType(<<"Front", "Back">>, {"Front", "Back"})]
ReversedStock == [t \in Types |-> IF t = "basic" THEN {Reversed} ELSE {}]
Single == {{name} : name \in Names}
SomeLayouts == {<<2, 1>>, <<0, 1>>}
SomeClozes == [x \in Texts |-> IF x = "deleted" THEN {2} ELSE {}]
==============================================================================
