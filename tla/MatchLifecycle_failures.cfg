SPECIFICATION FairSpec
CONSTANTS
  m1 = m1
  m2 = m2
  a1 = a1
  a2 = a2
  a3 = a3
  Matches <- OneMatch
  Agents <- TwoAgents
  Players <- OnePlayers
  MaxRestarts = 2
  MaxFaults = 2
  MaxChainFaults = 0
INVARIANT TypeOK
INVARIANT PaymentsBounded
INVARIANT OneEnding
PROPERTY MatchesClose
\* every match may be over and nothing left to do
CHECK_DEADLOCK FALSE
