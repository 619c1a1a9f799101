SPECIFICATION ServicesSpec
CONSTANTS
  Running = {"betting"}
  Managed = {m1, m2}
  Humans = {h1}
  Casts = {{m1, m2}, {m1, h1}}
  Calls = {c1}
  Funds = 1
  PlayEvents = 2
  TurnMatches = {"chess", "2048"}
  ThrowMatches = {"rps"}
  PullSeats <- MCPull
  Submits = {s1}
  MaxTurns <- MCTurns
  SideKeyed = {"rps", "2048"}
  MaxSubmits = 2
  Bettors = {u1, u2}
  Contestants = {x, y}
  MaxSlips = 3
  Amounts = {1, 2}
  Deposit = 3
  Asking = {a1, a2}
  MaxClients = 3
  MaxRetries = 1
INVARIANT ClaimsArePaid
CHECK_DEADLOCK FALSE
