---------------------------- MODULE MCStudyQueues ----------------------------
(* Instances of StudyQueues: a and b are siblings, c is on its own         *)
EXTENDS StudyQueues

CONSTANTS a, b, c

TwoNotes == [x \in Cards |-> IF x = c THEN c ELSE a]
ByPosition == IF c \in Cards THEN <<a, b, c>> ELSE <<a, b>>
Preset(bury, dayMix, newMix) == [bury |-> bury, dayMix |-> dayMix, newMix |-> newMix]
Table(ka, kb, kc) == [x \in Cards |-> CASE x = a -> ka [] x = b -> kb [] OTHER -> kc]
SomeTables == {Table("Review", "New", "New")}
SomePresets ==
  {Preset(MainKinds, "after", "mixed"), Preset({"Review"}, "after", "before")}
FewPerDay == [new |-> 2, review |-> 3]
==============================================================================
