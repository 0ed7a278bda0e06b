----------------------------- MODULE SwapMoney ------------------------------
(***************************************************************************)
(* The money of a swap: what the quote route reviews (swap.ts), what the   *)
(* browser builds from a fresh route (execute.ts), what the server demands *)
(* of the simulations (persistence-validation.ts) and what the Move        *)
(* contract charges (swap.move), in base units, while the market moves,    *)
(* the deployment's policy changes and the contract's owner changes its    *)
(* shared Config.  SwapFlow has the time and the pages of the same swap.   *)
(***************************************************************************)
EXTENDS Integers

CONSTANTS
  Amounts,       \* gross inputs of the quotes
  Prices,        \* what the pools pay for a unit of input
  FeeRates,      \* in basis points
  Recipients,    \* fee wallets
  Slippage,      \* slippageBps of the quote
  NetGas,        \* what a transaction costs its sender, less the rebate
  ReceivesSui,   \* whether the coin received is also the coin of the gas
  Nothing

BpsDenominator == 10000
MaxServiceFeeBps == 250

ASSUME MoneyAssumption ==
  /\ Amounts \subseteq Nat \ {0} /\ Prices \subseteq Nat /\ NetGas \subseteq Int
  /\ FeeRates \subseteq 0..MaxServiceFeeBps
  /\ Slippage \in 1..1000 /\ ReceivesSui \in BOOLEAN

VARIABLES
  price,     \* of the pools
  policy,    \* the deployment's: fee, recipient, whether the package is set
  contract,  \* the contract's shared Config
  quote,     \* the signed quote the user reviews, or Nothing
  tx,        \* the transaction signed, or Nothing
  step,      \* how far the swap has come
  paid       \* what the chain has done for it, or Nothing

moneyVars == <<price, policy, contract, quote, tx, step, paid>>

Policy == [bps : FeeRates, to : Recipients, package : BOOLEAN]
Config == [bps : FeeRates, to : Recipients, paused : BOOLEAN]

(* calculateServiceFee, and calculate_fee of the contract. *)
ServiceFee(gross, bps) == (gross * bps) \div BpsDenominator

CalculateFee(gross, bps) ==
  (gross \div BpsDenominator) * bps + ((gross % BpsDenominator) * bps) \div BpsDenominator

MinimumOut(out) == (out * (BpsDenominator - Slippage)) \div BpsDenominator

MoneyInit ==
  /\ price \in Prices /\ policy \in Policy /\ contract \in Config
  /\ quote = Nothing /\ tx = Nothing /\ step = "start" /\ paid = Nothing

-----------------------------------------------------------------------------
(* buildSwapQuote: the fee first, then the route for what is left. *)
Quoted(gross) ==
  LET fee == ServiceFee(gross, policy.bps)
      out == (gross - fee) * price
  IN  [policy |-> policy, gross |-> gross, fee |-> fee, net |-> gross - fee,
       out |-> out, min |-> MinimumOut(out)]

BuildSwapQuote(gross) ==
  /\ step \in {"start", "refused"}
  /\ quote' = Quoted(gross) /\ quote'.net > 0 /\ quote'.min > 0
  /\ step' = "quoted" /\ tx' = Nothing
  /\ UNCHANGED <<price, policy, contract, paid>>

\* Mutant: the fresh route is not compared with the reviewed minimum.
AnyRoute(out) == TRUE

RouteHolds(out) == out >= quote.min

(* executeSwap, from the configuration it loads to the signature.  Fee and *)
(* recipient are the quote's: any other is refused.  The router gets the   *)
(* slippage, and sets the least output from the fresh route's (external).  *)
ExecuteSwap ==
  /\ step = "quoted" /\ policy = quote.policy
  /\ LET out == quote.net * price IN
       /\ RouteHolds(out)
       /\ tx' = [gross |-> quote.gross, net |-> quote.net, fee |-> quote.fee,
                 collect |-> quote.fee > 0 /\ quote.policy.package,
                 bps |-> quote.policy.bps, to |-> quote.policy.to,
                 least |-> MinimumOut(out)]
  /\ step' = "signed"
  /\ UNCHANGED <<price, policy, contract, quote, paid>>

-----------------------------------------------------------------------------
(* What the chain would do with the transaction now. *)

\* Mutant: collect_fee charges whatever is configured.
PolicyUnchecked == ~contract.paused

AssertPolicy == ~contract.paused /\ contract.bps = tx.bps /\ contract.to = tx.to

Succeeds == (tx.collect => AssertPolicy) /\ tx.net * price >= tx.least

Effects ==
  [fee |-> IF tx.collect THEN CalculateFee(tx.gross, contract.bps) ELSE tx.fee,
   to  |-> IF tx.collect THEN contract.to ELSE tx.to,
   got |-> tx.net * price]

(* assertSimulatedSwapOutcome, from the balance changes and the gas.  The  *)
(* gas used is never less than zero, whatever the storage rebate.          *)
GasUsed(net) == IF net > 0 THEN net ELSE 0
ReceivedBeforeGas(net) ==
  IF ReceivesSui THEN Effects.got - net + GasUsed(net) ELSE Effects.got

AssertSimulatedSwapOutcome(net) ==
  /\ quote.fee > 0 => (Effects.fee = quote.fee /\ Effects.to = policy.to)
  /\ ReceivedBeforeGas(net) >= quote.min

(* The quote is bound to the policy's fingerprint. *)
Accepted == policy = quote.policy /\ Succeeds /\ \E net \in NetGas : AssertSimulatedSwapOutcome(net)
Refused == policy # quote.policy \/ ~Succeeds \/ \E net \in NetGas : ~AssertSimulatedSwapOutcome(net)

Simulate(from, to) ==
  /\ step = from
  /\ \/ Accepted /\ step' = to
     \/ Refused /\ step' = "refused"
  /\ UNCHANGED <<price, policy, contract, quote, tx, paid>>

Preflight == Simulate("signed", "preflighted")
Relay == Simulate("preflighted", "submitted")

ChainExecutes ==
  /\ step = "submitted" /\ step' = "executed"
  /\ paid' = IF Succeeds THEN Effects ELSE Nothing
  /\ UNCHANGED <<price, policy, contract, quote, tx>>

-----------------------------------------------------------------------------
MarketMoves ==
  /\ price' \in Prices \ {price}
  /\ UNCHANGED <<policy, contract, quote, tx, step, paid>>

Redeploy ==
  /\ policy' \in Policy \ {policy}
  /\ UNCHANGED <<price, contract, quote, tx, step, paid>>

UpdateConfig ==
  /\ contract' \in Config \ {contract}
  /\ UNCHANGED <<price, policy, quote, tx, step, paid>>

(* The environment's moves matter until the swap has been executed. *)
MoneyNext ==
  \/ \E gross \in Amounts : BuildSwapQuote(gross)
  \/ ExecuteSwap \/ Preflight \/ Relay \/ ChainExecutes
  \/ step # "executed" /\ (MarketMoves \/ Redeploy \/ UpdateConfig)

MoneySpec == MoneyInit /\ [][MoneyNext]_moneyVars

-----------------------------------------------------------------------------
MoneyTypeOK ==
  /\ price \in Prices /\ policy \in Policy /\ contract \in Config
  /\ step \in {"start", "quoted", "signed", "preflighted", "submitted", "executed", "refused"}
  /\ quote = Nothing \/ \E gross \in Amounts, p \in Prices, pol \in Policy :
       LET fee == ServiceFee(gross, pol.bps)
           out == (gross - fee) * p
       IN quote = [policy |-> pol, gross |-> gross, fee |-> fee, net |-> gross - fee,
                   out |-> out, min |-> MinimumOut(out)]

(* "The exact fee policy the user reviewed" (swap.move:82): the fee paid,  *)
(* and to whom, are the quote's, in whichever of its two forms, though     *)
(* deployment and contract change their minds at any time, and though the  *)
(* contract computes it otherwise than the server does.                    *)
FeeAsReviewed ==
  paid # Nothing =>
    /\ paid.fee = quote.fee
    /\ quote.fee > 0 => paid.to = quote.policy.to

(* However the market moves after the review, the user gets no less than   *)
(* the reviewed minimum less the slippage once more.                       *)
PaidAboveFloor == paid # Nothing => paid.got >= MinimumOut(quote.min)

(* "Execution still refreshes routing and enforces the signed minimum      *)
(* received amount" (docs/RC15-QUOTE-ROUTE-COMMITMENT-HARDENING.md:9).     *)
ReviewedMinimum == paid # Nothing => paid.got >= quote.min
=============================================================================
