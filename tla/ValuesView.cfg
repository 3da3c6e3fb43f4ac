SPECIFICATION Spec
CONSTANTS
  Charts = {"c1", "c2"}
  FirstChart = "c1"
  NoChart = "none"
  Keys = {"a", "b", "x", "y", "z"}
  NoKey = "none"
  Parent <- MCParent
  Tables <- MCTables
  FirstTable <- MCFirst
  Queries = {"q1", "q2"}
  NoQuery = ""
  Hits <- MCHits
  Aliases <- MCAliases
  MaxColumns = 2
  MaxAttempts = 2
  MaxActs = 5
INVARIANTS MatchesAreShown
PROPERTIES SearchLeavesNoTrace TypingStaysInSearch FocusAttemptsEnd ConfirmedIsAsked
CHECK_DEADLOCK FALSE
