SPECIFICATION FairSpec
CONSTANTS
  UIDs = {e1}
  Occurrences = {}
  Syncers = {loop, manual}
  Writers = {ipc}
  Kinds = {"list", "source"}
  PageSize = 1
  ToggleInFlight = TRUE
  MaxRev = 2
  MaxToggles = 2
  MaxAborts = 1
  MaxExpiries = 0
INVARIANT DisabledHasNoCursor
PROPERTY ListConverges
