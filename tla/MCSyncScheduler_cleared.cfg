SPECIFICATION Spec
CONSTANTS
  Accounts = {a, b}
  Loop = loop
  Manual = {m}
  MaxWake = 2
  MinInterval = 2
  Intervals = {3}
  Hints = {0, 1}
  MaxUsed = 2
SYMMETRY Symmetry
PROPERTY ClearedByRecovery
