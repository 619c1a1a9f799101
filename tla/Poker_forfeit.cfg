SPECIFICATION Spec
CONSTANTS
  Players = 3
  StartingStack = 3
  SmallBlind = 1
  BigBlind = 2
  MaxHands = 2
  MaxTimeouts = 2
  MaxErrors = 3
  MaxRestarts = 0
INVARIANT TimeoutsForfeit
\* a match that is over does nothing
CHECK_DEADLOCK FALSE
