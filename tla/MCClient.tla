------------------------------ MODULE MCClient ------------------------------
(***************************************************************************)
(* Small instances, for TLC, of what a page of the browser keeps: cached   *)
(* answers, its socket, the swap it shows, the amount it spends, the       *)
(* balances, the transactions and the positions it shows, and what it says *)
(* of the network.  As in MCLive, a behaviour is one of `subject`, and the *)
(* others stay where they began.                                           *)
(***************************************************************************)
EXTENDS Cache, RealtimeSocket, SwapFlow, WalletView, NetworkView,
        AccountPages, SpendAmount, TLC

VARIABLE subject

clientVars == <<vars, socketVars, flowVars, viewVars, netVars, pagesVars, spendVars,
                subject>>

APolicy == CHOOSE p \in Policies : TRUE

ClientInit ==
  /\ subject \in {"cache", "socket", "swap", "terms", "wallet", "network", "pages",
                  "amount"}
  /\ \/ subject = "cache"
     \/ /\ key = [c \in Calls |-> CHOOSE k \in Keys : TRUE]
        /\ force = [c \in Calls |-> FALSE]
  /\ subject = "socket" \/ strict = FALSE
  /\ policy = APolicy
  /\ subject = "pages" \/ open = "pool"
  /\ \/ subject = "amount"
     \/ coin = Gas /\ reserve = CHOOSE r \in Reserves : TRUE
  /\ Init /\ SocketInit /\ FlowInit /\ ViewInit /\ NetInit
  /\ PagesInit /\ SpendInit

(* Calls, sockets and swaps are alike, so that they may be numbered as     *)
(* they come.                                                              *)
Numbered(S, where, new) ==
  \A c, d \in S : c < d /\ where[d] # new => where[c] # new

(* Bound: where two runs of confirmSwap may overlap and the deployment may *)
(* change its policy, the settings stay as they are, and so does the price *)
(* impact; where these may change ("terms"), there is one run, and no      *)
(* change of policy.                                                       *)
AskedOnly ==
  /\ inputs.terms # NoTerms => inputs.terms.slippage = 1 /\ inputs.terms.limit = 3
  /\ answer # NoQuote => answer.impact = 3
OneRun == policy = APolicy /\ Cardinality({s \in Swaps : swap[s] # NoQuote}) <= 1

ClientNext ==
  /\ UNCHANGED subject
  /\ \/ /\ subject = "cache" /\ Next /\ Numbered(Calls, pc', "idle")
        /\ UNCHANGED <<socketVars, flowVars, viewVars, netVars, pagesVars, spendVars>>
     \/ /\ subject = "socket" /\ SocketNext /\ Numbered(Sockets, ws', "none")
        /\ UNCHANGED <<vars, flowVars, viewVars, netVars, pagesVars, spendVars>>
     \/ /\ subject = "swap" /\ FlowNext /\ Numbered(Swaps, swap', NoQuote)
        /\ AskedOnly'
        /\ UNCHANGED <<vars, socketVars, viewVars, netVars, pagesVars, spendVars>>
     \/ /\ subject = "terms" /\ FlowNext /\ Numbered(Swaps, swap', NoQuote)
        /\ OneRun'
        /\ UNCHANGED <<vars, socketVars, viewVars, netVars, pagesVars, spendVars>>
     \/ /\ subject = "wallet" /\ ViewNext
        /\ UNCHANGED <<vars, socketVars, flowVars, netVars, pagesVars, spendVars>>
     \/ /\ subject = "network" /\ NetNext
        /\ UNCHANGED <<vars, socketVars, flowVars, viewVars, pagesVars, spendVars>>
     \/ /\ subject = "pages" /\ PagesNext
        /\ UNCHANGED <<vars, socketVars, flowVars, viewVars, netVars, spendVars>>
     \/ /\ subject = "amount" /\ SpendNext
        /\ UNCHANGED <<vars, socketVars, flowVars, viewVars, netVars, pagesVars>>

ClientSpec == ClientInit /\ [][ClientNext]_clientVars

Symmetry == Permutations(Keys)

MCTerms ==
  {[asked |-> "a", slippage |-> 1, limit |-> 3], [asked |-> "b", slippage |-> 1, limit |-> 3],
   [asked |-> "a", slippage |-> 2, limit |-> 3], [asked |-> "a", slippage |-> 1, limit |-> 2]}

MCTyped == [digits : {0, 7, 12, 105}, places : 0..3]

(* Each component's state has its type. *)
ClientTypeOK == TypeOK /\ SocketTypeOK /\ FlowTypeOK /\ ViewTypeOK /\ NetTypeOK
                /\ PagesTypeOK /\ SpendTypeOK
=============================================================================
