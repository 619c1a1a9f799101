SPECIFICATION Spec
CONSTANTS
  a1 = a1
  a2 = a2
  a3 = a3
  a4 = a4
  r1 = r1
  r2 = r2
  p1 = p1
  p2 = p2
  Agents = {a1, a2}
  Alpha = {}
  Requests = {r1}
  Passes = {p1}
  MaxJoins = 1
  MaxTickets = 2
  MaxPayments = 1
  MaxResets = 0
  MaxRestarts = 0
  MaxFaults = 0
INVARIANT RefundedUnmatched
\* the queue may be empty with nobody able to join again
CHECK_DEADLOCK FALSE
