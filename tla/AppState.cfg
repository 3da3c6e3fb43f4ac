CONSTANTS
  Charts = {nginx, redis, oci}
  OCICharts = {oci}
  Keys = {k1, k2, k3}
  Unreadable = Unreadable  NoJob = NoJob
  MaxRecentCharts = 2
  MaxChartUIStates = 2
  MaxTouches = 3
  MaxTasks = 4
SPECIFICATION Spec
INVARIANTS LeastRecentIsEvicted
PROPERTIES Implements ClickedIsRemoved UnreadableIsKept
CHECK_DEADLOCK FALSE
