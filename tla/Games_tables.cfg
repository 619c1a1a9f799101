SPECIFICATION LoopSpec
CONSTANTS
  GameTypes = {"uno", "2048", "werewolf", "marrakech", "rps", "chess", "reversi", "poker"}
  DbErrors = 1
  MaxMissed <- MCMissed
  UnoDeck <- MCDeck
  UnoPlayers = 2
  UnoHand = 2
  RpsBestOf = 3
  RpsMaxRounds = 4
  RoleDeals <- MCRoles
  MaxCycles = 2
  MaxTalks = 1
  Size2048 = 2
  WinTile = 8
  MaxMoves2048 = 3
  MkSize = 3
  MkDirhams = 2
  MkCarpets = 2
  MkDice = {2}
  MkIdle = 1
  Decks <- MCDecks
  Players = 3
  StartingStack = 4
  SmallBlind = 1
  BigBlind = 2
  MaxHands = 2
  MaxTimeouts = 2
  MaxErrors = 3
  MaxRestarts = 1
INVARIANT LoopTypeOK
INVARIANT ChipsKept
INVARIANT AskedIsInHand
INVARIANT WinnerIsAhead
INVARIANT CardsKept
INVARIANT EmptyHandWins
INVARIANT AskedCanAct
INVARIANT ScoreIsEarned
INVARIANT PairsMergeOnce
 
INVARIANT DirhamsDecide
 
INVARIANT HandsRanked
INVARIANT MissesAreCounted
PROPERTY TurnsRunOut
PROPERTY StreetsAreSettled
