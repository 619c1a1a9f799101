SPECIFICATION Spec
CONSTANTS
  a1 = a1
  a2 = a2
  a3 = a3
  a4 = a4
  r1 = r1
  r2 = r2
  p1 = p1
  p2 = p2
  Agents = {a1, a2}
  Alpha = {a1, a2}
  Requests = {r1}
  Passes = {p1, p2}
  MaxJoins = 2
  MaxTickets = 3
  MaxPayments = 0
  MaxResets = 1
  MaxRestarts = 1
  MaxFaults = 0
SYMMETRY Symmetry
INVARIANT MatchedOnce
\* the queue may be empty with nobody able to join again
CHECK_DEADLOCK FALSE
