CONSTANTS
  a = a  b = b  w = w  tgz = tgz
  Archive = tgz
  Files <- TwoFiles
  FileKeys <- OneKeyEach
  Selections <- OneAtATime
  Keys = {1, 2}
  DefaultKeys = {}
  Words = {w}
  Blank = Blank  NoDoc = NoDoc  NoJob = NoJob
  MaxCustomColumns = 3
  MaxInFlight = 2
  MaxActions = 5
SPECIFICATION Spec
PROPERTY RemovalKeepsText
