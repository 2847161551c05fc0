SPECIFICATION FairSpec
CONSTANTS
  UIDs = {e1, e2, o1}
  Occurrences = {o1}
  Syncers = {loop}
  Writers = {}
  Kinds = {"delta", "paged", "feed", "list"}
  PageSize = 1
  ToggleInFlight = FALSE
  MaxRev = 3
  MaxToggles = 1
  MaxAborts = 1
  MaxExpiries = 1
INVARIANT TypeOK
INVARIANT NoLost
INVARIANT NoGhost
PROPERTY RowsNeverGoBack
PROPERTY Converges
