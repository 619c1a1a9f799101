------------------------------ MODULE Betting ------------------------------
(***************************************************************************)
(* BettingService: the bets of the spectators on one match, what they are  *)
(* offered for them, and their claims.  Amounts are whole; an offer counts *)
(* in hundredths of a token times the bets on the winner, so that shares   *)
(* stay whole.                                                             *)
(***************************************************************************)
EXTENDS Integers, FiniteSets, Functions

CONSTANTS Bettors,        \* users
          Contestants,    \* the agents of the match
          MaxSlips,       \* bound: the bets there may be
          Amounts,        \* what may be bet
          Deposit         \* what a bettor has

ASSUME BettingAssumption ==
  IsFiniteSet(Bettors) /\ MaxSlips \in Nat /\ Amounts \subseteq Nat /\ Deposit \in Nat

None  == "none"
Slips == 1 .. MaxSlips
Fee  == 5                 \* BETTING_FEE_PERCENT

VARIABLES
  matchStatus,   \* Match.status
  winner,        \* Match.result.winnerId
  slip,          \* where the placing of a bet stands, and the bet: [pc, user, on, amount]
  claimed,       \* Bet.claimed
  tag,           \* Bet.claimTag, of the user who claims
  claim,         \* where a claim of a user stands
  paid,          \* the bets with a claim that was paid
  purse,         \* what a user may bet with
  pot            \* the tokens the platform got with the bets

betVars == <<matchStatus, winner, slip, claimed, tag, claim, paid, purse, pot>>

NoSlip == [pc |-> "free", user |-> None, on |-> None, amount |-> 0]

BetInit ==
  /\ matchStatus = "active" /\ winner = None
  /\ slip = [b \in Slips |-> NoSlip] /\ claimed = {} /\ tag = [b \in Slips |-> None]
  /\ claim = [u \in Bettors |-> "free"] /\ paid = {}
  /\ purse = [u \in Bettors |-> Deposit] /\ pot = 0

-----------------------------------------------------------------------------
(* The match, to which the service only listens *)

MatchIsOver ==
  /\ matchStatus = "active"
  /\ \/ matchStatus' = "completed" /\ winner' \in Contestants \cup {None}
     \/ matchStatus' = "cancelled" /\ winner' = None
  /\ UNCHANGED <<slip, claimed, tag, claim, paid, purse, pot>>

-----------------------------------------------------------------------------
(* placeBet *)

\* The match must be open when it is read.  Bound: one bet is placed at a time, beside
\* the end of the match and the claims.
Places(b, u, on, amount) ==
  /\ matchStatus = "active"
  /\ slip[b] = NoSlip /\ \A n \in 1 .. b - 1 : slip[n].pc \in {"placed", "refused"}
  /\ slip' = [slip EXCEPT ![b] = [pc |-> "transfer", user |-> u, on |-> on, amount |-> amount]]
  /\ UNCHANGED <<matchStatus, winner, claimed, tag, claim, paid, purse, pot>>

\* A mutant of Stakes: the balance is not looked at, and a transfer that fails neither.
StakesUnchecked(b) ==
  LET s == slip[b]
  IN  /\ s.pc = "transfer"
      /\ slip' = [slip EXCEPT ![b].pc = "create"]
      /\ IF purse[s.user] < s.amount THEN UNCHANGED <<purse, pot>>
         ELSE /\ purse' = [purse EXCEPT ![s.user] = @ - s.amount]
              /\ pot' = pot + s.amount
      /\ UNCHANGED <<matchStatus, winner, claimed, tag, claim, paid>>

\* The stake is taken from the wallet, or a payment for it is verified.
Stakes(b) ==
  LET s == slip[b]
  IN  /\ s.pc = "transfer"
      /\ IF purse[s.user] < s.amount
         THEN slip' = [slip EXCEPT ![b].pc = "refused"] /\ UNCHANGED <<purse, pot>>
         ELSE /\ slip' = [slip EXCEPT ![b].pc = "create"]
              /\ purse' = [purse EXCEPT ![s.user] = @ - s.amount]
              /\ pot' = pot + s.amount
      /\ UNCHANGED <<matchStatus, winner, claimed, tag, claim, paid>>

\* The bet is created, and counts from now on, also if the match is over by now.
Creates(b) ==
  /\ slip[b].pc = "create"
  /\ slip' = [slip EXCEPT ![b].pc = "placed"]
  /\ UNCHANGED <<matchStatus, winner, claimed, tag, claim, paid, purse, pot>>

-----------------------------------------------------------------------------
(* calculatePool and what the users are offered *)

Bets          == {b \in Slips : slip[b].pc = "placed"}
BetsOf(u)     == {b \in Bets : slip[b].user = u}
Sum(bets)     == SumFunction([b \in bets |-> slip[b].amount])
On(bets, a)   == {b \in bets : slip[b].on = a}
TotalPool     == Sum(Bets)
Winnable      == Sum(On(Bets, winner))      \* totalBets of the winner

\* A mutant of Payout: without a winner everything goes back.
PayoutWithoutFee(bets) ==
  IF matchStatus = "cancelled" \/ (matchStatus = "completed" /\ winner = None)
  THEN 100 * Sum(bets)
  ELSE IF matchStatus = "completed" /\ On(bets, winner) # {}
  THEN (100 - Fee) * Sum(On(bets, winner)) * TotalPool
  ELSE 0

\* The payout for a user's bets: all of them if the match was cancelled, less the fee
\* without a winner, else a share of the pool (times Winnable) as large as that of
\* the bets on the winner.
Payout(bets) ==
  IF matchStatus = "cancelled" THEN 100 * Sum(bets)
  ELSE IF matchStatus = "completed" /\ winner = None THEN (100 - Fee) * Sum(bets)
  ELSE IF matchStatus = "completed" /\ On(bets, winner) # {}
  THEN (100 - Fee) * Sum(On(bets, winner)) * TotalPool
  ELSE 0

\* getMyBets: what canClaim and winnings come to.
Offered(u) == IF BetsOf(u) \subseteq claimed THEN 0 ELSE Payout(BetsOf(u))

\* getMyPendingClaims: the same for the bets that are not claimed.
PendingClaim(u) == Payout(BetsOf(u) \ claimed)

-----------------------------------------------------------------------------
(* claimBet *)

\* The paths of BetSchema: what is not among them an update leaves out, a filter not.
BetSchema == {"matchId", "userId", "walletAddress", "onAgentId", "onAgentA", "amount",
              "txHash", "claimed"}

\* The match must be settled; the bets of the user are marked and tagged at once.
Claims(u) ==
  LET mine == BetsOf(u) \ claimed
  IN  /\ claim[u] = "free" /\ matchStatus \in {"completed", "cancelled"} /\ mine # {}
      /\ claimed' = claimed \cup mine
      /\ tag' = [b \in Slips |-> IF b \in mine /\ "claimTag" \in BetSchema THEN u ELSE tag[b]]
      /\ claim' = [claim EXCEPT ![u] = "tagged"]
      /\ UNCHANGED <<matchStatus, winner, slip, paid, purse, pot>>

\* The bets that were just marked are looked up by their tag, and paid if there are any.
ClaimPays(u) ==
  LET found == {b \in Bets : tag[b] = u}
  IN  /\ claim[u] = "tagged"
      /\ claim' = [claim EXCEPT ![u] = "free"]
      /\ tag' = [b \in Slips |-> IF b \in found THEN None ELSE tag[b]]
      /\ paid' = IF Payout(found) > 0 THEN paid \cup found ELSE paid
      /\ UNCHANGED <<matchStatus, winner, slip, claimed, purse, pot>>

-----------------------------------------------------------------------------
BetNext ==
  \/ MatchIsOver
  \/ \E b \in Slips : \/ Stakes(b) \/ Creates(b)
                      \/ \E u \in Bettors, on \in Contestants, amount \in Amounts :
                            Places(b, u, on, amount)
  \/ \E u \in Bettors : Claims(u) \/ ClaimPays(u)

-----------------------------------------------------------------------------
(* Properties *)

\* What all users are offered together, in either list, is never more than the pool
\* less the fee, or the pool if the match was cancelled, though bets may come after the
\* end and some users have claimed; and there is that much in the pot.
OffersFitThePool ==
  LET per == IF winner = None THEN 1 ELSE Winnable
      net == (IF matchStatus = "cancelled" THEN 100 ELSE 100 - Fee) * TotalPool
  IN  /\ SumFunction([u \in Bettors |-> Offered(u)]) <= per * net
      /\ SumFunction([u \in Bettors |-> PendingClaim(u)]) <= per * net
      /\ TotalPool <= pot

\* A bet that wins, or whose stake goes back, is paid once it was claimed.
ClaimsArePaid ==
  \A u \in Bettors : claim[u] = "free" =>
    {b \in BetsOf(u) \cap claimed : Payout({b}) > 0} \subseteq paid
=============================================================================
