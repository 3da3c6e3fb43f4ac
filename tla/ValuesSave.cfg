CONSTANTS
  a = a  b = b
  Files <- TwoFiles
  Archive = tgz
  NoFile = NoFile  NoJob = NoJob  Nothing = Nothing  Blank = Blank  Foreign = Foreign
  MaxColumns = 2
  MaxActs = 4
  MaxForeign = 1
SYMMETRY AnyOrder
SPECIFICATION Spec
INVARIANT ValuesAnswerIsKnown
 
