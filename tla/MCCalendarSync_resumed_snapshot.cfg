SPECIFICATION Spec
CONSTANTS
  UIDs = {e1, e2}
  Occurrences = {}
  Syncers = {loop}
  Writers = {}
  Kinds = {"paged"}
  PageSize = 1
  ToggleInFlight = FALSE
  MaxRev = 3
  MaxToggles = 0
  MaxAborts = 1
  MaxExpiries = 0
SYMMETRY Symmetry
PROPERTY ResumedSnapshotIsWhole
