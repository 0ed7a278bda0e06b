------------------------------ MODULE PriceFeed ------------------------------
(***************************************************************************)
(* The way of a market price, from the providers that fetchBestPrice       *)
(* (services/prices/index.ts) asks in turn, through the server's cache,    *)
(* the edge cache that GET /prices allows, and the page's cache            *)
(* (services/prices/client.ts), to the tokens of the swap page.  A price   *)
(* is the time its provider put on it, updatedAt; of the rest of it only   *)
(* whether it can be used matters.  A GET /prices is for several tokens,   *)
(* and has the price of one until it has settled for all.  Callers share   *)
(* loads as in Cache; the circuits of the providers are in CircuitBreaker. *)
(***************************************************************************)
EXTENDS Integers, Sequences

CONSTANTS
  Order,       \* priceProviderOrder
  Dated,       \* the providers whose every answer has a time (pyth.ts)
  MaxStale,    \* priceMaxStalenessMs
  Skew,        \* how far a provider's clock may be ahead
  PriceTtl,    \* ttlMs of the server's cache
  OthersWait,  \* how long the providers of the other tokens may keep a GET
  EdgeFresh,   \* s-maxage
  EdgeStale,   \* stale-while-revalidate
  PageTtl,     \* PRICE_CACHE_MS
  MaxClock,    \* bound on the clock
  NoPoint

ASSUME PriceFeedAssumption ==
  /\ {MaxStale, Skew, PriceTtl, OthersWait, EdgeFresh, EdgeStale, PageTtl, MaxClock}
       \subseteq Nat
  /\ Order \in Seq(STRING) /\ Order # <<>> /\ NoPoint \notin Int

VARIABLES
  clock,       \* Date.now(), alike everywhere
  loading,     \* which of Order the load under way asks, or 0
  stored,      \* the server's entry: a price, and when it was stored
  gathered,    \* what a GET /prices has while it awaits the other tokens
  edge,        \* the edge's
  page,        \* the page's
  edgeWaits, pageWaits,  \* whether a GET /prices is under way from there
  shown        \* the price last given to the tokens, and when

feedVars == <<clock, loading, stored, gathered, edge, page, edgeWaits, pageWaits, shown>>

Times == -Skew - 1..MaxClock + Skew + 1
Kept == [updatedAt : Times, at : 0..MaxClock] \cup {NoPoint}

FeedTypeOK ==
  /\ clock \in 0..MaxClock /\ loading \in 0..Len(Order)
  /\ {stored, gathered, edge, page, shown} \subseteq Kept
  /\ edgeWaits \in BOOLEAN /\ pageWaits \in BOOLEAN

FeedInit ==
  /\ clock = 0 /\ loading = 0
  /\ stored = NoPoint /\ gathered = NoPoint /\ edge = NoPoint
  /\ page = NoPoint /\ shown = NoPoint
  /\ edgeWaits = FALSE /\ pageWaits = FALSE

Now(updatedAt) == [updatedAt |-> updatedAt, at |-> clock]
Younger(kept, age) == kept # NoPoint /\ clock - kept.at < age

-----------------------------------------------------------------------------
\* Mutant: the price's age is not looked at.
AnyAge(updatedAt) == TRUE

(* validatePrice *)
Acceptable(updatedAt) == clock - updatedAt >= -Skew /\ clock - updatedAt <= MaxStale

(* What a provider's answer is stamped with: a time of its own, or, if it  *)
(* has none, that of its arrival.                                          *)
Stamps(provider) == Times \cup (IF provider \in Dated THEN {} ELSE {clock})

(* What a served price does to the page that waits for it. *)
PageTakes(updatedAt) == page' = Now(updatedAt) /\ shown' = Now(updatedAt)

(* The response, once Promise.allSettled has settled for every token. *)
EdgeTakes(updatedAt) ==
  /\ edge' = Now(updatedAt) /\ edgeWaits' = FALSE
  /\ pageWaits' = FALSE
  /\ IF pageWaits THEN PageTakes(updatedAt) ELSE UNCHANGED <<page, shown>>

AllSettled ==
  /\ gathered # NoPoint /\ gathered' = NoPoint
  /\ EdgeTakes(gathered.updatedAt)
  /\ UNCHANGED <<clock, loading, stored>>

(* A GET that waits for the price has it, but for one that has it already. *)
Gathers(updatedAt) == gathered' = IF gathered = NoPoint THEN Now(updatedAt) ELSE gathered

(* An acceptable price ends the load and is stored. *)
ProviderAnswers(updatedAt) ==
  /\ loading # 0
  /\ updatedAt \in Stamps(Order[loading]) /\ Acceptable(updatedAt)
  /\ loading' = 0
  /\ stored' = Now(updatedAt)
  /\ IF edgeWaits THEN Gathers(updatedAt) ELSE UNCHANGED gathered
  /\ UNCHANGED <<clock, edge, page, edgeWaits, pageWaits, shown>>

(* No answer in time, no key or feed, an open circuit, a price that is not *)
(* positive, too uncertain or too old: the next provider is asked, and     *)
(* after the last the load fails for all who wait for it.                  *)
ProviderFails ==
  /\ loading # 0
  /\ loading' = IF loading < Len(Order) THEN loading + 1 ELSE 0
  /\ IF loading' = 0 /\ gathered = NoPoint
       THEN edgeWaits' = FALSE /\ pageWaits' = FALSE
       ELSE UNCHANGED <<edgeWaits, pageWaits>>
  /\ UNCHANGED <<clock, stored, gathered, edge, page, shown>>

(* fetchBestPrice on the server: a hit, a load that is joined, or a new    *)
(* one.  `forEdge`: for GET /prices, not for a rate or a portfolio.        *)
FetchBestPrice(forEdge) ==
  IF Younger(stored, PriceTtl)
    THEN /\ IF forEdge THEN Gathers(stored.updatedAt) ELSE UNCHANGED gathered
         /\ UNCHANGED loading
    ELSE /\ loading' = (IF loading = 0 THEN 1 ELSE loading)
         /\ UNCHANGED gathered

(* fetchMarketRate, fetchPortfolio *)
ServerAsks ==
  FetchBestPrice(FALSE) /\ UNCHANGED <<clock, stored, edge, page, edgeWaits, pageWaits, shown>>

-----------------------------------------------------------------------------
(* fetchMarketPrices, on the page: its cache, or a GET that the edge may   *)
(* answer: fresh, or stale while it asks the server itself.                *)
PageHits ==
  /\ ~pageWaits /\ Younger(page, PageTtl)
  /\ shown' = Now(page.updatedAt)
  /\ UNCHANGED <<clock, loading, stored, gathered, edge, page, edgeWaits, pageWaits>>

EdgeHits ==
  /\ ~pageWaits /\ ~Younger(page, PageTtl)
  /\ Younger(edge, EdgeFresh + EdgeStale)
  /\ PageTakes(edge.updatedAt)
  /\ edgeWaits' = (edgeWaits \/ ~Younger(edge, EdgeFresh))
  /\ UNCHANGED <<clock, loading, stored, gathered, edge, pageWaits>>

PageAsks ==
  /\ ~pageWaits /\ ~Younger(page, PageTtl)
  /\ ~Younger(edge, EdgeFresh + EdgeStale)
  /\ pageWaits' = TRUE /\ edgeWaits' = TRUE
  /\ UNCHANGED <<clock, loading, stored, gathered, edge, page, shown>>

(* GET /prices reaches the server. *)
GetPrices ==
  /\ edgeWaits /\ loading = 0 /\ gathered = NoPoint
  /\ FetchBestPrice(TRUE)
  /\ UNCHANGED <<clock, stored, edge, page, edgeWaits, pageWaits, shown>>

(* The providers' timers end the wait for the other tokens. *)
FeedTick ==
  /\ clock < MaxClock /\ clock' = clock + 1
  /\ gathered # NoPoint => clock < gathered.at + OthersWait
  /\ UNCHANGED <<loading, stored, gathered, edge, page, edgeWaits, pageWaits, shown>>

FeedNext ==
  \/ ProviderFails \/ ServerAsks \/ PageHits \/ EdgeHits \/ PageAsks \/ GetPrices
  \/ AllSettled \/ FeedTick
  \/ \E updatedAt \in Times : ProviderAnswers(updatedAt)

FeedSpec == FeedInit /\ [][FeedNext]_feedVars

-----------------------------------------------------------------------------
(* A price is never older, when the server serves it, than the staleness   *)
(* it is rejected for, the life of the entry and the wait for the other    *)
(* tokens of the request, and on the page than that and the lives of the   *)
(* two caches on the way, however long a provider takes and whoever shares *)
(* whose load.                                                             *)
PriceAgeBounded ==
  /\ edge # NoPoint => edge.at - edge.updatedAt <= MaxStale + PriceTtl + OthersWait
  /\ shown # NoPoint =>
       shown.at - shown.updatedAt
         <= MaxStale + PriceTtl + OthersWait + EdgeFresh + EdgeStale + PageTtl

(* "Price-provider responses are rejected when stale"                      *)
(* (docs/SECURITY-AND-EXECUTION.md:17): what the page shows is not rejected *)
(* again, and may be older than any response that is accepted.             *)
ShownIsRecent == shown # NoPoint => shown.at - shown.updatedAt <= MaxStale
=============================================================================
