------------------------------ MODULE MCServer ------------------------------
(***************************************************************************)
(* Small instances, for TLC, of what a server process keeps and decides:   *)
(* circuits, RPC endpoints, rate limits, the money and the limits of a     *)
(* swap, prices, and what the deployment says of itself.  As in MCLive, a  *)
(* behaviour is one of `subject`, and the others stay where they began.    *)
(***************************************************************************)
EXTENDS CircuitBreaker, RpcPool, RateLimit, SwapMoney, Deployment, PriceFeed,
        QuoteTerms, TLC

VARIABLE subject

serverVars == <<vars, poolVars, limiterVars, moneyVars, deploymentVars, feedVars,
                termsVars, subject>>

AChain == CHOOSE chain \in Chains : TRUE

ServerInit ==
  /\ subject \in {"breaker", "pool", "limiter", "money", "deployment", "price",
                 "terms"}
  /\ \/ subject = "pool" /\ serves \in {s \in [Endpoints -> Chains] : s[Protected] = AChain}
     \/ serves = [e \in Endpoints |-> AChain]
  /\ \/ subject = "money"
     \/ /\ price = CHOOSE p \in Prices : TRUE
        /\ policy = CHOOSE p \in Policy : TRUE
        /\ contract = CHOOSE c \in Config : TRUE
  /\ \/ subject = "deployment"
     \/ config = [network |-> "mainnet", on |-> Production] /\ up = {}
  /\ Init /\ PoolInit /\ LimiterInit /\ MoneyInit /\ DeploymentInit
  /\ FeedInit /\ TermsInit

(* Calls are alike, so that they may be numbered as they come. *)
Numbered(S, where, new) ==
  \A c, d \in S : c < d /\ where[d] # new => where[c] # new

\* Bound: of the calls to endpoints, no more than two are under way at a time.
FewAtOnce ==
  Cardinality({c \in RpcCalls : rpc[c].at \in {"identity", "told", "run"}}) <= 2

ServerNext ==
  /\ UNCHANGED subject
  /\ \/ /\ subject = "breaker" /\ Next /\ Numbered(Calls, pc', "idle")
        /\ UNCHANGED <<poolVars, limiterVars, moneyVars, deploymentVars, feedVars, termsVars>>
     \/ /\ subject = "pool" /\ PoolNext /\ FewAtOnce'
        /\ Numbered(Reads, [c \in Reads |-> rpc'[c].at], "new")
        /\ UNCHANGED <<vars, limiterVars, moneyVars, deploymentVars, feedVars, termsVars>>
     \/ /\ subject = "limiter" /\ LimiterNext /\ Numbered(Clients, stage', "new")
        /\ UNCHANGED <<vars, poolVars, moneyVars, deploymentVars, feedVars, termsVars>>
     \/ /\ subject = "money" /\ MoneyNext
        /\ UNCHANGED <<vars, poolVars, limiterVars, deploymentVars, feedVars, termsVars>>
     \/ /\ subject = "deployment" /\ DeploymentNext
        /\ UNCHANGED <<vars, poolVars, limiterVars, moneyVars, feedVars, termsVars>>
     \/ /\ subject = "price" /\ FeedNext
        /\ UNCHANGED <<vars, poolVars, limiterVars, moneyVars, deploymentVars, termsVars>>
     \/ /\ subject = "terms" /\ TermsNext
        /\ UNCHANGED <<vars, poolVars, limiterVars, moneyVars, deploymentVars, feedVars>>

ServerSpec == ServerInit /\ [][ServerNext]_serverVars

MCNetGas == {-1000, 1000}
MCOrder == <<"pyth", "birdeye">>

Server(network, allowed, signs, maxSlippage, maxImpact, quoteTtl, minQuoteValidity) ==
  [network |-> network, allowed |-> allowed, signs |-> signs, maxSlippage |-> maxSlippage,
   maxImpact |-> maxImpact, quoteTtl |-> quoteTtl, minQuoteValidity |-> minQuoteValidity]
MCDeployments ==
  {Server("testnet", {}, FALSE, 1000, 300, 30, 5),
   Server("testnet", {"cetus"}, TRUE, 500, 300, 30, 5),
   Server("testnet", {"cetus", "bluefin"}, TRUE, 500, 300, 30, 5),
   Server("mainnet", {"cetus", "bluefin"}, TRUE, 500, 200, 30, 5),
   Server("mainnet", {"cetus"}, FALSE, 5000, 300, 5, 30)}

(* Each component's state has its type. *)
ServerTypeOK == TypeOK /\ PoolTypeOK /\ LimiterTypeOK /\ MoneyTypeOK /\ DeploymentTypeOK
                /\ FeedTypeOK /\ TermsTypeOK
=============================================================================
