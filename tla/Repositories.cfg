SPECIFICATION Spec
CONSTANTS
  Names = {a, b}
  Urls = {u, v}
  NoUrl = NoUrl
  None = None
  MaxRev = 2
  MaxTasks = 2
  MaxActs = 3
INVARIANTS NoLostUpdate ListingIsCurrent ReadIsAsked
SYMMETRY Symmetry
CHECK_DEADLOCK FALSE
