SPECIFICATION FairSpec
CONSTANTS
  FuncKeys = {f1, f2, f5}
  Wired = {f1, f2}
  Others = {"rfid"}
  Typed <- SomeTyped
  Items <- SomeItems
  Glyphs = {"a", "b"}
  Digits = 2
  MaxQueue = 1
INVARIANTS TypeOK StatusFollows DiesOfChordOrFault ShownWhole
PROPERTIES FuncKeySeen RowHeals
