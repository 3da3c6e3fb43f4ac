SPECIFICATION Spec
CONSTANTS
  Repos = {r1, r2}
  Names = {n}
  OciCharts = {oc}
  LocalCharts = {lc}
  Files = {f1}
  NoChart = NoChart
  NoRepo = NoRepo
  NoFile = NoFile
  GuardWorks = TRUE
  DropCap = 1
  MaxActs = 5
INVARIANTS TypeOK ShownIsAsked FocusWaitEnds
PROPERTIES PairedWithShown 
CHECK_DEADLOCK FALSE
