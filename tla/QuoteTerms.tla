----------------------------- MODULE QuoteTerms -----------------------------
(***************************************************************************)
(* The limits a swap is held to, from the settings to the relay: the       *)
(* settings dialog, the quote route, the signed claims, the page's         *)
(* construction and the relay each check some of them, and each asks       *)
(* whatever server answers.  During a rolling deployment servers of unlike *)
(* configuration answer, so that every request may meet any of             *)
(* `Deployments`.  SwapFlow has the order of the calls and their times.    *)
(*                                                                         *)
(* Deadlines are in seconds: the dialog's are minutes, perhaps fractions.  *)
(***************************************************************************)
EXTENDS Integers, FiniteSets

CONSTANTS
  Deployments,   \* the configurations of the servers that answer
  SdkProviders,  \* getAllProviders()
  Families,      \* those of them that are of Cetus or DeepBook
  Slippages, Impacts, Deadlines,  \* bound: what is typed, or stored
  RouteImpacts,    \* bound: the price impacts of the routes found
  IdLengths,     \* bound: the lengths of the router's quoteID
  NoProof

ASSUME QuoteTermsAssumption ==
  /\ \A d \in Deployments :
       /\ d.network \in {"mainnet", "testnet", "devnet"}
       /\ d.quoteTtl \in 5..120 /\ d.minQuoteValidity \in 1..30
       /\ d.maxSlippage \in 1..5000 /\ d.maxImpact \in 10..5000
       /\ d.signs \in BOOLEAN
       /\ IsFiniteSet(d.allowed)
  /\ Families \subseteq SdkProviders
  /\ Slippages \cup Impacts \cup Deadlines \cup RouteImpacts \cup IdLengths \subseteq Nat

VARIABLES
  policyLimits,  \* what the page knows of the deployment's limits
  settings,      \* the settings on the screen
  proof,         \* the quote on the screen: its claims, or NoProof
  claimed,       \* the claims executeSwap sends, with the route it built
  relayed        \* what the relay last executed, and by which deployment

termsVars == <<policyLimits, settings, proof, claimed, relayed>>

Lower(a, b) == IF a < b THEN a ELSE b
Higher(a, b) == IF a > b THEN a ELSE b
Round(seconds) == ((seconds + 30) \div 60) * 60
Clamp(n, low, high) == Higher(low, Lower(high, n))

TermsTypeOK ==
  /\ policyLimits \in [maxSlippage : Nat, maxImpact : Nat]
  /\ settings \in [slippage : Nat, impact : Nat, deadline : Nat]
  /\ proof # NoProof => {proof.slippage, proof.impact, proof.deadline, proof.life,
                         proof.idLength} \subseteq Nat
  /\ claimed # NoProof => claimed.route \subseteq SdkProviders
  /\ relayed # NoProof => relayed.route \subseteq SdkProviders /\ relayed.by \in Deployments

TermsInit ==
  /\ policyLimits = [maxSlippage |-> 1000, maxImpact |-> 5000]
  /\ settings = [slippage |-> 50, impact |-> 300, deadline |-> 1200]
  /\ proof = NoProof /\ claimed = NoProof /\ relayed = NoProof

-----------------------------------------------------------------------------
(* The settings. *)

(* normalizeSwapSettings *)
NormalizeSwapSettings(s) ==
  [slippage |-> Clamp(s.slippage, 1, 1000), impact |-> Clamp(s.impact, 10, 5000),
   deadline |-> Clamp(Round(s.deadline), 60, 3600)]

Within(s, limits) ==
  [s EXCEPT !.slippage = Lower(@, limits.maxSlippage),
            !.impact   = Lower(@, limits.maxImpact)]

(* The page opens on what the settings of an earlier visit were. *)
RestoreSettings ==
  /\ \E s \in [slippage : Slippages, impact : Impacts, deadline : Deadlines] :
       settings' = NormalizeSwapSettings(s)
  /\ policyLimits' = [maxSlippage |-> 1000, maxImpact |-> 5000]
  /\ proof' = NoProof /\ claimed' = NoProof /\ UNCHANGED relayed

ReadPolicyLimits ==
  /\ \E d \in Deployments :
       policyLimits' = [maxSlippage |-> d.maxSlippage, maxImpact |-> d.maxImpact]
  /\ settings' = Within(settings, policyLimits')
  /\ UNCHANGED <<proof, claimed, relayed>>

(* The dialog rounds the slippage and the impact, not the deadline.  The   *)
(* quote on the screen stays until the next one replaces it.               *)
ChangeSetting ==
  /\ \/ \E n \in Slippages :
          settings' = [settings EXCEPT !.slippage = Higher(1, Lower(policyLimits.maxSlippage, n))]
     \/ \E n \in Impacts :
          settings' = [settings EXCEPT !.impact = Higher(10, Lower(policyLimits.maxImpact, n))]
     \/ \E n \in Deadlines : settings' = [settings EXCEPT !.deadline = Clamp(n, 60, 3600)]
  /\ UNCHANGED <<policyLimits, proof, claimed, relayed>>

-----------------------------------------------------------------------------
(* The quote. *)

(* The part of getExecutionPolicyFingerprint that is about these limits. *)
\* Mutant: a fingerprint of the limits, without the providers.
FingerprintOfLimits(d) == <<d.network, d.maxSlippage, d.maxImpact>>

Fingerprint(d) == <<d.network, d.maxSlippage, d.maxImpact, d.allowed>>

(* resolveProviders: the empty set where it throws. *)
ResolveProviders(d) ==
  LET known == IF d.network = "testnet" THEN Families ELSE SdkProviders
  IN IF d.allowed = {} THEN known
     ELSE IF d.allowed \subseteq known THEN d.allowed ELSE {}

IssueQuote ==
  \E d \in Deployments, deviation \in RouteImpacts, length \in IdLengths :
    LET impact == Lower(settings.impact, d.maxImpact)
    IN /\ settings.slippage <= d.maxSlippage /\ impact >= 10
       /\ d.network # "devnet" /\ ResolveProviders(d) # {}
       /\ deviation <= impact
       /\ proof' = [policy |-> Fingerprint(d), network |-> d.network,
                    slippage |-> settings.slippage, impact |-> impact,
                    deviation |-> deviation, deadline |-> Round(settings.deadline),
                    idLength |-> Lower(length, 256), life |-> d.quoteTtl,
                    signed |-> IF d.signs THEN settings.slippage ELSE 0]
  /\ UNCHANGED <<policyLimits, settings, claimed, relayed>>

QuoteRefused == proof' = NoProof /\ UNCHANGED <<policyLimits, settings, claimed, relayed>>

-----------------------------------------------------------------------------
(* executeSwap, then what the verification, preflight and execution routes *)
(* ask of the claims, each at the best moment of the quote's life: it asks *)
(* that the rest of it be at least the server's margin.                    *)

(* The claims are the quote's, save the slippage, which is the screen's:   *)
(* only the signature tells them apart.                                    *)
Claims == [proof EXCEPT !.slippage = settings.slippage]

Signed(d, claims) == d.signs => claims.signed = claims.slippage

VerifyQuoteClaims(d, claims) ==
  /\ claims.network = d.network /\ claims.policy = Fingerprint(d)
  /\ claims.slippage <= 5000
  /\ Signed(d, claims)
  /\ claims.life >= d.minQuoteValidity

ConstructionAccepts(d, claims) ==
  /\ settings.deadline % 60 = 0 /\ claims.deadline = settings.deadline
  /\ claims.policy = Fingerprint(d) /\ d.network # "devnet"
  /\ claims.slippage \in 1..1000
  /\ claims.life >= d.minQuoteValidity

(* The route is found anew, by the browser and among the providers of the  *)
(* configuration it has just loaded; none listed are all the SDK has.      *)
BuildRoute ==
  /\ proof # NoProof /\ claimed = NoProof
  /\ \E d, v \in Deployments :
       /\ ConstructionAccepts(d, Claims) /\ VerifyQuoteClaims(v, Claims)
       /\ \E p \in (IF d.allowed = {} THEN SdkProviders ELSE d.allowed \cap SdkProviders) :
            claimed' = [claims |-> Claims, route |-> {p}]
  /\ UNCHANGED <<policyLimits, settings, proof, relayed>>

(* validateSwapPersistencePayload *)
IdentifierFits(claims) == claims.idLength <= 160

(* Preflight and execution check the same; either may fail, or be late.    *)
RelayAccepts ==
  /\ claimed # NoProof
  /\ \E pre, d \in Deployments :
       /\ \A e \in {pre, d} : VerifyQuoteClaims(e, claimed.claims)
       /\ IdentifierFits(claimed.claims)
       /\ relayed' = [route |-> claimed.route, slippage |-> claimed.claims.slippage,
                      impact |-> claimed.claims.impact, of |-> claimed.claims.deviation,
                      by |-> d]
  /\ claimed' = NoProof
  /\ UNCHANGED <<policyLimits, settings, proof>>

GiveUpSwap ==
  /\ claimed # NoProof /\ claimed' = NoProof
  /\ UNCHANGED <<policyLimits, settings, proof, relayed>>

(* Bound: one swap, and while its claims are under way, which are those of *)
(* the click whatever the page does, the page does nothing.                *)
TermsNext ==
  \/ /\ claimed = NoProof /\ relayed = NoProof
     /\ \/ RestoreSettings \/ ReadPolicyLimits \/ ChangeSetting
        \/ IssueQuote \/ QuoteRefused \/ BuildRoute
  \/ RelayAccepts \/ GiveUpSwap

TermsSpec == TermsInit /\ [][TermsNext]_termsVars

-----------------------------------------------------------------------------
(* What a server executes is within its own policy, whichever server       *)
(* quoted it, configured its construction or verified it: the route is of  *)
(* the providers it allows, of Cetus and DeepBook where a testnet server   *)
(* has a list; and the limits, which only the issuing server compared with *)
(* its policy, are within this server's, the slippage where it signs.      *)
WithinPolicy ==
  relayed # NoProof =>
    LET d == relayed.by
    IN /\ d.network # "devnet"
       /\ d.allowed # {} => relayed.route \subseteq d.allowed
       /\ d.allowed # {} /\ d.network = "testnet" => relayed.route \subseteq Families
       /\ relayed.of <= relayed.impact /\ relayed.impact <= d.maxImpact
       /\ d.signs => relayed.slippage <= d.maxSlippage

(* Testnet routes are of Cetus and DeepBook                                *)
(* (docs/MAINNET-DEVNET-READINESS.md:60).  With no list configured the     *)
(* page asks for a route of any provider (execute.ts:147).                 *)
TestnetFamilies ==
  relayed # NoProof /\ relayed.by.network = "testnet" => relayed.route \subseteq Families

(* A quote that was just issued can be executed by the deployment that     *)
(* issued it, were it asked next (docs/RC15-QUOTE-SETTINGS-AND-BALANCE-    *)
(* HARDENING.md:7).  Not so: a slippage above 10 % (execute.ts:122), a     *)
(* fraction of a minute (execute.ts:113), an identifier of more than 160   *)
(* characters (persistence-validation.ts:48), a margin above the life of   *)
(* the quote (env.ts:132 and 136) are issued and refused.                  *)
IssuedIsUsable ==
  \A d \in Deployments :
    proof # NoProof /\ proof.policy = Fingerprint(d) /\ proof.life = d.quoteTtl
      /\ proof.slippage = settings.slippage /\ proof.deadline = Round(settings.deadline)
    => /\ ConstructionAccepts(d, Claims) /\ VerifyQuoteClaims(d, Claims)
       /\ IdentifierFits(Claims)
=============================================================================
