SPECIFICATION FairSpec
CONSTANTS
  Accounts = {a, b}
  Loop = loop
  Manual = {m}
  MaxWake = 2
  MinInterval = 2
  Intervals = {3}
  Hints = {0, 1}
  MaxUsed = 2
INVARIANT TypeOK
INVARIANT NoAccountForgotten
INVARIANT PopupsBounded
PROPERTY Floored
PROPERTY AlwaysPolled
PROPERTY FlagSettles
