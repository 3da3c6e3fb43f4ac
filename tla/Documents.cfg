SPECIFICATION Spec
CONSTANTS
  image = image  leaf = leaf  ports = ports  x = x  y = y  One = One  Two = Two
  Note = Note  Mark = Mark  Name = Name  Other = Other
  Merge = Merge  Off = Off  None = None  Null = Null  Empty = Empty
  Blank = Blank  NoText = NoText  NoValues = NoValues
  Names <- MCNames
  Texts <- MCTexts
  Defaults <- MCDefaults
  Vals <- MCVals
  Comments <- MCComments
  Anchors <- MCAnchors
  MaxEdits = 2
INVARIANTS SavedShowsCells UneditedAliasKept UneditedLinesKept
PROPERTIES ValueEditsChangeOnlyTheirLines TypedTextStays
CHECK_DEADLOCK FALSE
