SPECIFICATION Spec
CONSTANTS
  a1 = a1
  a2 = a2
  a3 = a3
  a4 = a4
  r1 = r1
  r2 = r2
  p1 = p1
  p2 = p2
  Agents = {a1, a2, a3}
  Alpha = {a1, a2, a3}
  Requests = {r1}
  Passes = {p1}
  MaxJoins = 2
  MaxTickets = 6
  MaxPayments = 1
  MaxResets = 0
  MaxRestarts = 0
  MaxFaults = 0
SYMMETRY Symmetry
INVARIANT PlaysOnce
\* the queue may be empty with nobody able to join again
CHECK_DEADLOCK FALSE
