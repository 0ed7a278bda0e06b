------------------------------ MODULE SwapFlow ------------------------------
(***************************************************************************)
(* One page of src/components/swap/swap-interface.tsx with the calls it    *)
(* makes: the quote that follows the inputs, the review dialog, and the    *)
(* runs of `confirmSwap`, each of which is a closure over what the page    *)
(* showed when it was clicked and goes on whatever the page shows since.   *)
(* Behind it, the routes that issue, verify and simulate, and the relay    *)
(* that executes (ExecuteRoute has the relay's own steps).                 *)
(*                                                                         *)
(* Inputs are a pair of tokens and the terms: what is asked (amount,       *)
(* routing, deadline), the slippage, and the limit on the price impact.    *)
(* NoTerms stands for those no quote is asked for: no amount, one above    *)
(* the balance, or execution disabled.  A step is one run of the browser's *)
(* event loop, or a server's whole answer.  A timer may be late.           *)
(***************************************************************************)
EXTENDS Integers, FiniteSets

CONSTANTS
  Swaps,      \* runs of confirmSwap
  Pairs,      \* pairs of tokens
  Terms,      \* amounts and settings that can be asked for
  NoTerms,
  Impacts,    \* price impacts of routes
  Expert,     \* expertMode of the settings
  Signing,    \* the servers have a secret to sign quotes with
  Policies,   \* execution policy fingerprints of the deployment
  QuoteTtl,   \* quoteTtlMs
  Margin,     \* minQuoteValidityMs
  MaxQuotes,  \* bound on the quotes issued
  MaxMoment,    \* bound on the clock
  NoQuote

ASSUME SwapFlowAssumption ==
  /\ QuoteTtl \in Nat \ {0} /\ Margin \in 0..QuoteTtl
  /\ MaxQuotes \in Nat /\ MaxMoment \in Nat
  /\ Impacts \subseteq Int /\ Expert \in BOOLEAN /\ Signing \in BOOLEAN
  /\ \A t \in Terms : t = [asked |-> t.asked, slippage |-> t.slippage, limit |-> t.limit]
                     /\ t.limit \in Int
  /\ NoTerms \notin Terms

VARIABLES
  clock,       \* Date.now(), of the browser and of the servers
  policy,    \* the fingerprint the deployment computes
  issued,    \* quotes issued so far
  inputs,    \* amount, tokens and settings on the screen
  quote,     \* the quote on the screen, or NoQuote
  request,   \* where the effect's request is: its timer, its fetch
  answer,    \* the quote that is the answer on its way, or NoQuote
  phase,
  swap,      \* each run of confirmSwap: where it is and what it closed over
  relay,     \* POSTs of signed transactions the relay has not decided on
  executed   \* the runs whose transaction is on chain

page == <<inputs, quote, request, answer, phase>>
flowVars == <<clock, policy, issued, page, swap, relay, executed>>

Inputs == [pair : Pairs, terms : Terms \cup {NoTerms}]
Quotes == [id : 1..MaxQuotes, inputs : [pair : Pairs, terms : Terms], impact : Impacts,
           expiresAt : Nat, policy : Policies]
Stages == {"config", "verify", "route", "sign", "preflight", "execute",
           "submitted", "confirmed", "unverified", "failed"}
Runs == [at : Stages, shown : Inputs, quote : Quotes, built : Policies \cup {NoQuote}]

\* null is neither a quote nor a run.
ASSUME NoQuoteAssumption == NoQuote \notin Quotes /\ NoQuote \notin Runs

FlowTypeOK ==
  /\ clock \in 0..MaxMoment /\ policy \in Policies /\ issued \in 0..MaxQuotes
  /\ inputs \in Inputs
  /\ quote \in Quotes \cup {NoQuote}
  /\ request \in {"none", "timer", "sent"}
  /\ answer \in Quotes \cup {NoQuote}
  /\ phase \in {"idle", "quoting", "ready", "review", "signing", "submitted",
                "confirmed", "error"}
  /\ swap \in [Swaps -> Runs \cup {NoQuote}]
  /\ relay \subseteq Swaps /\ executed \subseteq Swaps

FlowInit ==
  /\ clock = 0 /\ policy \in Policies /\ issued = 0
  /\ inputs \in [pair : Pairs, terms : {NoTerms}]
  /\ quote = NoQuote /\ request = "none" /\ answer = NoQuote /\ phase = "idle"
  /\ swap = [s \in Swaps |-> NoQuote]
  /\ relay = {} /\ executed = {}

-----------------------------------------------------------------------------
(* The quote.  The effect runs again whenever an input, a token's balance  *)
(* or price, or the refresh key changes, whatever the phase: it aborts the *)
(* request before it and, for inputs that can be quoted, sets a timer.     *)

DialogOpen == phase \in {"review", "signing", "submitted", "confirmed"} /\ quote # NoQuote

\* Mutant: the request before is not aborted once it is answered.
RequoteKeepsAnswer(in, shown) ==
  IF in.terms = NoTerms
    THEN request' = "none" /\ quote' = NoQuote /\ answer' = NoQuote /\ phase' = "idle"
    ELSE request' = "timer" /\ quote' = shown /\ UNCHANGED <<answer, phase>>

Requote(in, shown) ==
  /\ answer' = NoQuote
  /\ IF in.terms = NoTerms
       THEN request' = "none" /\ quote' = NoQuote /\ phase' = "idle"
       ELSE request' = "timer" /\ quote' = shown /\ UNCHANGED phase

(* Typing, the token selector and the settings keep the quote on the       *)
(* screen until the next one replaces it.                                  *)
ChangeInputs ==
  /\ ~DialogOpen
  /\ \E in \in Inputs \ {inputs} : inputs' = in /\ Requote(in, quote)
  /\ UNCHANGED <<clock, policy, issued, swap, relay, executed>>

Flip ==
  /\ ~DialogOpen
  /\ \E in \in Inputs : /\ in.pair # inputs.pair \/ Cardinality(Pairs) = 1
                        /\ inputs' = in /\ Requote(in, NoQuote)
  /\ UNCHANGED <<clock, policy, issued, swap, relay, executed>>

(* A wallet or price refresh brings new token objects, and perhaps an      *)
(* amount above the balance.                                               *)
TokensRefreshed ==
  /\ \E in \in {inputs, [inputs EXCEPT !.terms = NoTerms]} :
       inputs' = in /\ Requote(in, quote)
  /\ UNCHANGED <<clock, policy, issued, swap, relay, executed>>

RefreshQuote ==
  /\ ~DialogOpen /\ phase # "quoting"
  /\ Requote(inputs, quote)
  /\ UNCHANGED <<clock, policy, issued, inputs, swap, relay, executed>>

QuoteTimerFires ==
  /\ request = "timer"
  /\ request' = "sent" /\ phase' = "quoting"
  /\ UNCHANGED <<clock, policy, issued, inputs, quote, answer, swap, relay, executed>>

IssueQuote ==
  /\ request = "sent" /\ answer = NoQuote /\ issued < MaxQuotes
  /\ issued' = issued + 1
  /\ \E impact \in Impacts :
       /\ impact <= inputs.terms.limit
       /\ answer' = [id |-> issued', inputs |-> inputs, impact |-> impact,
                     expiresAt |-> clock + QuoteTtl, policy |-> policy]
  /\ UNCHANGED <<clock, policy, inputs, quote, request, phase, swap, relay, executed>>

QuoteArrives ==
  /\ answer # NoQuote
  /\ quote' = answer /\ phase' = "ready" /\ request' = "none" /\ answer' = NoQuote
  /\ UNCHANGED <<clock, policy, issued, inputs, swap, relay, executed>>

QuoteFails ==
  /\ request = "sent"
  /\ quote' = NoQuote /\ phase' = "error" /\ request' = "none" /\ answer' = NoQuote
  /\ UNCHANGED <<clock, policy, issued, inputs, swap, relay, executed>>

(* Only a quote in phase "ready" is dropped when it expires. *)
QuoteExpires ==
  /\ phase = "ready" /\ quote # NoQuote /\ clock >= quote.expiresAt
  /\ quote' = NoQuote /\ phase' = "idle"
  /\ request' = "timer" /\ answer' = NoQuote
  /\ UNCHANGED <<clock, policy, issued, inputs, swap, relay, executed>>

-----------------------------------------------------------------------------
(* The dialog.  The button's idea of the time is a second old at most, so  *)
(* it may open on a quote that has just expired.                           *)

OpenReview ==
  /\ phase = "ready" /\ quote # NoQuote
  /\ phase' = "review"
  /\ UNCHANGED <<clock, policy, issued, inputs, quote, request, answer, swap, relay, executed>>

CloseReview ==
  /\ DialogOpen /\ phase \in {"review", "confirmed"}
  /\ phase' = "ready"
  /\ UNCHANGED <<clock, policy, issued, inputs, quote, request, answer, swap, relay, executed>>

Confirm(s) ==
  /\ DialogOpen /\ phase = "review" /\ swap[s] = NoQuote
  /\ clock < quote.expiresAt
  /\ Expert \/ quote.impact <= inputs.terms.limit
  /\ swap' = [swap EXCEPT ![s] = [at |-> "config", shown |-> inputs,
                                  quote |-> quote, built |-> NoQuote]]
  /\ phase' = "signing"
  /\ UNCHANGED <<clock, policy, issued, inputs, quote, request, answer, relay, executed>>

-----------------------------------------------------------------------------
(* executeSwap, between its awaits. *)

At(s, stage) == swap[s] # NoQuote /\ swap[s].at = stage
Reaches(s, stage) == swap' = [swap EXCEPT ![s].at = stage]
Unexpired(q) == clock < q.expiresAt

(* What every server route asks of the claims of a quote.  The slippage in *)
(* them is that of the screen, which only a signature holds to that quoted.*)
\* Mutant: the fingerprint is not compared.
VerifyExpiryOnly(s) ==
  LET q == swap[s].quote IN Unexpired(q) /\ q.expiresAt - clock >= Margin

VerifyQuoteClaims(s) ==
  LET q == swap[s].quote IN
    /\ q.policy = policy
    /\ Signing => q.inputs.terms.slippage = swap[s].shown.terms.slippage
    /\ Unexpired(q) /\ q.expiresAt - clock >= Margin

(* Of the claims and the request that are compared in the page, the coin   *)
(* types and the limit on the price impact are both the quote's, and the   *)
(* slippage is that of the screen in both: only what is asked can differ.  *)
\* Mutant: the quote is compared with itself.
MatchesItself(s) == swap[s].quote.inputs.terms.asked = swap[s].quote.inputs.terms.asked

QuoteMatchesRequest(s) == swap[s].quote.inputs.terms.asked = swap[s].shown.terms.asked

LoadRuntimeConfig(s) ==
  /\ At(s, "config")
  /\ swap[s].quote.policy = policy
  /\ clock <= swap[s].quote.expiresAt - Margin
  /\ QuoteMatchesRequest(s)
  /\ swap' = [swap EXCEPT ![s].at = "verify", ![s].built = policy]
  /\ UNCHANGED <<clock, policy, issued, page, relay, executed>>

VerifyQuote(s) ==
  /\ At(s, "verify") /\ VerifyQuoteClaims(s)
  /\ Reaches(s, "route")
  /\ UNCHANGED <<clock, policy, issued, page, relay, executed>>

BuildTransaction(s) ==
  /\ At(s, "route") /\ Unexpired(swap[s].quote)
  /\ Reaches(s, "sign")
  /\ UNCHANGED <<clock, policy, issued, page, relay, executed>>

Sign(s) ==
  /\ At(s, "sign") /\ Reaches(s, "preflight")
  /\ UNCHANGED <<clock, policy, issued, page, relay, executed>>

Preflight(s) ==
  /\ At(s, "preflight") /\ VerifyQuoteClaims(s)
  /\ Reaches(s, "execute") /\ relay' = relay \cup {s}
  /\ UNCHANGED <<clock, policy, issued, page, executed>>

(* Every POST has an idempotency key of its own, so the relay never has an *)
(* earlier run's answer for this one.                                      *)
RelayExecutes(s) ==
  /\ s \in relay /\ VerifyQuoteClaims(s)
  /\ executed' = executed \cup {s} /\ relay' = relay \ {s}
  /\ UNCHANGED <<clock, policy, issued, page, swap>>

RelayRefuses(s) ==
  /\ s \in relay /\ relay' = relay \ {s}
  /\ UNCHANGED <<clock, policy, issued, page, swap, executed>>

ExecuteAnswered(s) ==
  /\ At(s, "execute") /\ s \in executed
  /\ Reaches(s, "submitted") /\ phase' = "submitted"
  /\ UNCHANGED <<clock, policy, issued, inputs, quote, request, answer, relay, executed>>

Confirmed(s) ==
  /\ At(s, "submitted")
  /\ Reaches(s, "confirmed") /\ phase' = "confirmed"
  /\ UNCHANGED <<clock, policy, issued, inputs, quote, request, answer, relay, executed>>

ConfirmationFails(s) ==
  /\ At(s, "submitted")
  /\ Reaches(s, "unverified") /\ phase' = "submitted"
  /\ UNCHANGED <<clock, policy, issued, inputs, quote, request, answer, relay, executed>>

(* "Swap not submitted": a check or a call fails, the wallet refuses, or   *)
(* the answer to the POST is lost; the dialog comes back to be confirmed   *)
(* again.                                                                  *)
NotSubmitted(s) ==
  /\ \E at \in Stages \ {"submitted", "confirmed", "unverified", "failed"} : At(s, at)
  /\ Reaches(s, "failed") /\ phase' = "review"
  /\ UNCHANGED <<clock, policy, issued, inputs, quote, request, answer, relay, executed>>

-----------------------------------------------------------------------------
(* A deployment may change its policy, and change it back. *)
Redeploy ==
  /\ \E p \in Policies \ {policy} : policy' = p
  /\ UNCHANGED <<clock, issued, page, swap, relay, executed>>

FlowTick ==
  /\ clock < MaxMoment /\ clock' = clock + 1
  /\ UNCHANGED <<policy, issued, page, swap, relay, executed>>

QuoteStep == QuoteTimerFires \/ IssueQuote \/ QuoteArrives \/ QuoteFails \/ QuoteExpires
UserStep  == ChangeInputs \/ Flip \/ RefreshQuote \/ OpenReview \/ CloseReview
SwapStep(s) ==
  \/ Confirm(s) \/ LoadRuntimeConfig(s) \/ VerifyQuote(s) \/ BuildTransaction(s)
  \/ Sign(s) \/ Preflight(s) \/ RelayExecutes(s) \/ RelayRefuses(s)
  \/ ExecuteAnswered(s) \/ Confirmed(s) \/ ConfirmationFails(s) \/ NotSubmitted(s)

FlowNext ==
  \/ QuoteStep \/ UserStep \/ TokensRefreshed
  \/ \E s \in Swaps : SwapStep(s)
  \/ Redeploy \/ FlowTick

FlowSpec == FlowInit /\ [][FlowNext]_flowVars

-----------------------------------------------------------------------------
(* The quote on the screen is of the inputs on the screen, unless another  *)
(* one is on its way: the answer of a request that an input has overtaken  *)
(* never shows, whatever the runs of confirmSwap do to the phase.          *)
QuoteForInputs ==
  quote # NoQuote /\ request = "none" => quote.inputs = inputs

(* A transaction that reached the chain was built under what the screen    *)
(* asked for at the click, though the quote may be that of earlier inputs; *)
(* under its slippage, when quotes are signed; and of a quote within its   *)
(* limit on the price impact, except in expert mode, though it may have    *)
(* been lowered since the quote was asked for.                             *)
TermsHonoured ==
  \A s \in executed :
    LET quoted == swap[s].quote.inputs.terms
        shown  == swap[s].shown.terms
    IN /\ quoted.asked = shown.asked
       /\ Signing => quoted.slippage = shown.slippage
       /\ Expert \/ swap[s].quote.impact <= shown.limit

(* The relay executes only what was built under the policy it enforces     *)
(* itself, though the deployment may have changed it, and back, since the  *)
(* quote, the construction, or the signature.                              *)
RelayedUnderItsPolicy ==
  [][\A s \in Swaps : s \in executed' \ executed =>
       swap[s].built = policy /\ swap[s].quote.policy = policy]_flowVars

(* "Execution requires the reviewed setting to match the signed claim"     *)
(* (docs/RC15-QUOTE-SETTINGS-AND-BALANCE-HARDENING.md:15, of the limit on  *)
(* the price impact): request and claims both take it from the quote, so   *)
(* that a change of the setting since then is not refused.                 *)
ImpactLimitMatches ==
  \A s \in executed : swap[s].quote.inputs.terms.limit = swap[s].shown.terms.limit

InProgress(s) == \E at \in Stages \ {"confirmed", "unverified", "failed"} : At(s, at)

(* While a swap is being signed or awaits its confirmation, no other can   *)
(* be: "The transaction review dialog intentionally cannot be dismissed    *)
(* while a signature is being requested or while an already-submitted      *)
(* transaction is awaiting chain confirmation"                             *)
(* (docs/RC15-UX-AND-RUNTIME-HARDENING.md:9).  The quote's effect, though, *)
(* sets the phase whatever the dialog is in.                               *)
OneSwapAtATime ==
  \A s, t \in Swaps : InProgress(s) /\ InProgress(t) => s = t

(* A swap that the page reports as not submitted, and that is confirmed    *)
(* again from the same quote, is executed once: docs/PORTFOLIO-DATA-       *)
(* LAYER.md:10 speaks of safe retries, but of one key, and each run of     *)
(* confirmSwap has a key of its own.  Not so when an answer is lost.       *)
SafeRetry ==
  \A s, t \in executed : s # t /\ At(s, "failed") => swap[s].quote.id # swap[t].quote.id
=============================================================================
