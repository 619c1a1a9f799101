SPECIFICATION FairSpec
CONSTANTS
  m1 = m1
  m2 = m2
  a1 = a1
  a2 = a2
  a3 = a3
  Matches <- TwoMatches
  Agents <- ThreeAgents
  Players <- TwoPlayers
  MaxRestarts = 0
  MaxFaults = 0
  MaxChainFaults = 1
INVARIANT PlayersMarked
PROPERTY PaysCollectedStakes
PROPERTY ImplementsSettlement
PROPERTY AgentsFreed
\* every match may be over and nothing left to do
CHECK_DEADLOCK FALSE
