SPECIFICATION Spec
CONSTANTS
  UIDs = {e1, e2}
  Occurrences = {}
  Syncers = {loop}
  Writers = {}
  Kinds = {"delta"}
  PageSize = 1
  ToggleInFlight = TRUE
  MaxRev = 3
  MaxToggles = 2
  MaxAborts = 0
  MaxExpiries = 0
SYMMETRY Symmetry
INVARIANT NoLost
