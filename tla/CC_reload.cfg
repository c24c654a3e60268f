SPECIFICATION FairSpec
CONSTANTS
  c1 = c1  c2 = c2  i1 = i1  i2 = i2
  Chain = {c1, c2}
  Io = {i1, i2}
  Main = Main
  Nobody = Nobody
  NoChain = NoChain
  Absent = Absent
  Torn = Torn
  MaxEdits = 2
  MaxSignals = 2
  WritesOverlap = FALSE
  WritesFail = FALSE
  SignalsOverlap = FALSE
INVARIANTS TypeOK StaysUp
PROPERTIES ReloadTakesEffect LookupsEnd
CHECK_DEADLOCK FALSE
