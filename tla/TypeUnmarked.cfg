SPECIFICATION Spec
CONSTANTS
  Types = {"basic", "cloze"}
  Notes = {"n1"}
  Names = {"Front", "Back"}
  Fronts <- Single
  NoNote = NoNote
  NoForm = NoForm
  Texts = {"", "deleted"}
  NoText = ""
  Clozes <- SomeClozes
  LastOrd = 2
  FieldsEdited = {"cloze"}
  Edited = {"basic"}
  Layouts <- SomeLayouts
  Originals <- BasicAndCloze
  Stocks <- ReversedStock
  MaxFields = 2
  MaxTemplates = 2
  MaxCards = 2
  MaxSchema = 1
PROPERTIES StructureIsMarked
CHECK_DEADLOCK FALSE
