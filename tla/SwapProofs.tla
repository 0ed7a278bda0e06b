----------------------------- MODULE SwapProofs -----------------------------
(***************************************************************************)
(* Proofs about the terms of a swap (QuoteTerms), for any deployments and  *)
(* any settings, and about its money (SwapMoney), for any amounts, prices, *)
(* policies, slippage and gas.                                             *)
(*                                                                         *)
(* Terms: the claims are always those that some deployment issued, but for *)
(* the slippage, and the route is of its list (TermsInv); whoever verifies *)
(* the claims has the same policy, by the fingerprint.                     *)
(*                                                                         *)
(* Money: two facts of integer division, that the contract's way to        *)
(* compute the fee is the server's (SameFee), and that the least output    *)
(* grows with the output (MinimumGrows).  The transaction signed is of the *)
(* quote on the screen (OfQuote) from the signature to the chain, whatever *)
(* the market, the deployment and the contract's owner do meanwhile.       *)
(***************************************************************************)
EXTENDS QuoteTerms, SwapMoney, TLAPS

IsProof(c) ==
  DOMAIN c = {"policy", "network", "slippage", "impact", "deviation", "deadline",
              "idLength", "life", "signed"}

(* What the claims have of the deployment that issued them.                *)
IssuedBy(c, e) ==
  /\ c.policy = Fingerprint(e)
  /\ e.network # "devnet" /\ ResolveProviders(e) # {}
  /\ c.deviation <= c.impact /\ c.impact <= e.maxImpact
  /\ c.signed <= e.maxSlippage

ListedBy(route, e) == e.allowed # {} => route \subseteq e.allowed

SettingsOK ==
  /\ policyLimits \in [maxSlippage : Nat, maxImpact : Nat]
  /\ settings \in [slippage : Nat, impact : Nat, deadline : Nat]

TermsInv ==
  /\ SettingsOK
  /\ proof # NoProof => IsProof(proof) /\ \E e \in Deployments : IssuedBy(proof, e)
  /\ claimed # NoProof =>
       \E e \in Deployments : IssuedBy(claimed.claims, e) /\ ListedBy(claimed.route, e)
  /\ WithinPolicy

----------------------------------------------------------------------------
\* Deployments of one fingerprint have one policy.
LEMMA SamePolicy ==
  ASSUME NEW d, NEW e, Fingerprint(d) = Fingerprint(e)
  PROVE  /\ d.network = e.network /\ d.maxSlippage = e.maxSlippage
         /\ d.maxImpact = e.maxImpact /\ d.allowed = e.allowed
BY DEF Fingerprint

\* The limits of a setting are natural numbers, its lower limit a bound.
LEMMA LowerLimit ==
  ASSUME NEW a \in Nat, NEW b \in Nat
  PROVE  /\ Lower(a, b) \in Nat /\ Lower(a, b) <= b
         /\ Higher(1, Lower(a, b)) \in Nat /\ Higher(10, Lower(a, b)) \in Nat
BY DEF Lower, Higher

LEMMA Clamped ==
  ASSUME NEW n \in Nat
  PROVE  /\ Clamp(n, 1, 1000) \in Nat /\ Clamp(n, 10, 5000) \in Nat
         /\ Clamp(n, 60, 3600) \in Nat
         /\ Round(n) \in Nat
<1>1. (n + 30) \div 60 \in Nat
  OBVIOUS
<1>2. Round(n) \in Nat
  BY <1>1 DEF Round
<1>3. QED
  BY <1>2 DEF Clamp, Lower, Higher

\* What the assumption says of the limits.
LEMMA LimitTypes ==
  /\ \A d \in Deployments : d.maxSlippage \in Nat /\ d.maxImpact \in Nat
  /\ Slippages \subseteq Nat /\ Impacts \subseteq Nat /\ Deadlines \subseteq Nat
<1>1. \A d \in Deployments : d.maxSlippage \in 1..5000 /\ d.maxImpact \in 10..5000
  BY QuoteTermsAssumption
<1>2. Slippages \subseteq Nat /\ Impacts \subseteq Nat /\ Deadlines \subseteq Nat
  BY QuoteTermsAssumption
<1>3. ASSUME NEW d \in Deployments PROVE d.maxSlippage \in Nat /\ d.maxImpact \in Nat
  <2>1. PICK x, y : x = d.maxSlippage /\ y = d.maxImpact
    OBVIOUS
  <2>2. x \in 1..5000 /\ y \in 10..5000
    BY <1>1, <2>1
  <2>3. x \in Nat /\ y \in Nat
    BY <2>2
  <2>4. QED
    BY <2>1, <2>3
<1>4. QED
  BY <1>2, <1>3

LEMMA TermsInvStep == TermsInv /\ [TermsNext]_termsVars => TermsInv'
<1> SUFFICES ASSUME TermsInv, [TermsNext]_termsVars PROVE TermsInv'
  OBVIOUS
<1>0. /\ \A d \in Deployments : d.maxSlippage \in Nat /\ d.maxImpact \in Nat
      /\ Slippages \subseteq Nat /\ Impacts \subseteq Nat /\ Deadlines \subseteq Nat
  BY LimitTypes
<1>1. ASSUME RestoreSettings PROVE TermsInv'
  <2>1. PICK s \in [slippage : Slippages, impact : Impacts, deadline : Deadlines] :
          settings' = NormalizeSwapSettings(s)
    BY <1>1 DEF RestoreSettings
  <2>2. settings' \in [slippage : Nat, impact : Nat, deadline : Nat]
    <3>1. s.slippage \in Nat /\ s.impact \in Nat /\ s.deadline \in Nat
      BY <1>0
    <3>2. Round(s.deadline) \in Nat
      BY <3>1, Clamped
    <3>3. ASSUME NEW n \in Nat
          PROVE  /\ Clamp(n, 1, 1000) \in Nat /\ Clamp(n, 10, 5000) \in Nat
                 /\ Clamp(n, 60, 3600) \in Nat
      BY Clamped
    <3>4. QED
      BY <2>1, <3>1, <3>2, <3>3 DEF NormalizeSwapSettings
  <2>3. QED
    <3>1. policyLimits' \in [maxSlippage : Nat, maxImpact : Nat]
      BY <1>1 DEF RestoreSettings
    <3>2. proof' = NoProof /\ claimed' = NoProof /\ UNCHANGED relayed
      BY <1>1 DEF RestoreSettings
    <3>3. QED
      BY <2>2, <3>1, <3>2 DEF TermsInv, SettingsOK, WithinPolicy
<1>2. ASSUME ReadPolicyLimits PROVE TermsInv'
  <2>1. policyLimits' \in [maxSlippage : Nat, maxImpact : Nat]
    BY <1>0, <1>2 DEF ReadPolicyLimits
  <2>2. settings' \in [slippage : Nat, impact : Nat, deadline : Nat]
    <3>1. settings \in [slippage : Nat, impact : Nat, deadline : Nat]
          /\ policyLimits'.maxSlippage \in Nat /\ policyLimits'.maxImpact \in Nat
      BY <2>1 DEF TermsInv, SettingsOK
    <3>2. settings.slippage \in Nat /\ settings.impact \in Nat
      BY <3>1
    <3>3. /\ Lower(settings.slippage, policyLimits'.maxSlippage) \in Nat
          /\ Lower(settings.impact, policyLimits'.maxImpact) \in Nat
      BY <3>1, <3>2, LowerLimit, Zenon
    <3>4. settings' = [settings EXCEPT
                         !.slippage = Lower(settings.slippage, policyLimits'.maxSlippage),
                         !.impact   = Lower(settings.impact, policyLimits'.maxImpact)]
      BY <1>2 DEF ReadPolicyLimits, Within
    <3>5. QED
      BY <3>1, <3>3, <3>4
  <2>3. QED
    BY <1>2, <2>1, <2>2 DEF ReadPolicyLimits, TermsInv, SettingsOK, WithinPolicy
<1>3. ASSUME ChangeSetting PROVE TermsInv'
  <2>1. settings' \in [slippage : Nat, impact : Nat, deadline : Nat]
    <3>1. settings \in [slippage : Nat, impact : Nat, deadline : Nat]
          /\ policyLimits.maxSlippage \in Nat /\ policyLimits.maxImpact \in Nat
      BY DEF TermsInv, SettingsOK
    <3>2. CASE \E n \in Slippages :
                 settings' = [settings EXCEPT !.slippage = Higher(1, Lower(policyLimits.maxSlippage, n))]
      <4>1. PICK n \in Slippages : settings' = [settings EXCEPT !.slippage = Higher(1, Lower(policyLimits.maxSlippage, n))]
        BY <3>2
      <4>2. n \in Nat
        BY <1>0
      <4>3. Higher(1, Lower(policyLimits.maxSlippage, n)) \in Nat
        BY <3>1, <4>2, LowerLimit, Zenon
      <4>4. QED
        BY <3>1, <4>1, <4>3
    <3>3. CASE \E n \in Impacts :
                 settings' = [settings EXCEPT !.impact = Higher(10, Lower(policyLimits.maxImpact, n))]
      <4>1. PICK n \in Impacts : settings' = [settings EXCEPT !.impact = Higher(10, Lower(policyLimits.maxImpact, n))]
        BY <3>3
      <4>2. n \in Nat
        BY <1>0
      <4>3. Higher(10, Lower(policyLimits.maxImpact, n)) \in Nat
        BY <3>1, <4>2, LowerLimit, Zenon
      <4>4. QED
        BY <3>1, <4>1, <4>3
    <3>4. CASE \E n \in Deadlines : settings' = [settings EXCEPT !.deadline = Clamp(n, 60, 3600)]
      <4>1. PICK n \in Deadlines : settings' = [settings EXCEPT !.deadline = Clamp(n, 60, 3600)]
        BY <3>4
      <4>2. n \in Nat
        BY <1>0
      <4>3. Clamp(n, 60, 3600) \in Nat
        BY <4>2 DEF Clamp, Lower, Higher
      <4>4. QED
        BY <3>1, <4>1, <4>3
    <3>5. QED
      BY <1>3, <3>2, <3>3, <3>4 DEF ChangeSetting
  <2>2. QED
    BY <1>3, <2>1 DEF ChangeSetting, TermsInv, SettingsOK, WithinPolicy
<1>4. ASSUME IssueQuote PROVE TermsInv'
  <2>1. PICK d \in Deployments, deviation \in RouteImpacts, length \in IdLengths :
          /\ settings.slippage <= d.maxSlippage
          /\ d.network # "devnet" /\ ResolveProviders(d) # {}
          /\ deviation <= Lower(settings.impact, d.maxImpact)
          /\ proof' = [policy |-> Fingerprint(d), network |-> d.network,
                       slippage |-> settings.slippage,
                       impact |-> Lower(settings.impact, d.maxImpact),
                       deviation |-> deviation, deadline |-> Round(settings.deadline),
                       idLength |-> Lower(length, 256), life |-> d.quoteTtl,
                       signed |-> IF d.signs THEN settings.slippage ELSE 0]
    BY <1>4 DEF IssueQuote
  <2>2. IsProof(proof')
    BY <2>1 DEF IsProof
  <2>3. Lower(settings.impact, d.maxImpact) <= d.maxImpact
    <3>1. settings.impact \in Nat /\ d.maxImpact \in Nat
      BY <1>0 DEF TermsInv, SettingsOK
    <3>2. QED
      BY <3>1, LowerLimit, Zenon
  <2>4. proof'.signed <= d.maxSlippage
    BY <1>0, <2>1
  <2>5. IssuedBy(proof', d)
    BY <2>1, <2>3, <2>4 DEF IssuedBy
  <2>6. QED
    BY <1>4, <2>2, <2>5 DEF IssueQuote, TermsInv, SettingsOK, WithinPolicy
<1>5. ASSUME QuoteRefused PROVE TermsInv'
  BY <1>5 DEF QuoteRefused, TermsInv, SettingsOK, WithinPolicy
<1>6. ASSUME BuildRoute PROVE TermsInv'
  <2>1. PICK d \in Deployments :
          /\ ConstructionAccepts(d, Claims)
          /\ \E p \in (IF d.allowed = {} THEN SdkProviders ELSE d.allowed \cap SdkProviders) :
               claimed' = [claims |-> Claims, route |-> {p}]
    BY <1>6 DEF BuildRoute
  <2>2. PICK e \in Deployments : IssuedBy(proof, e) /\ IsProof(proof)
    BY <1>6 DEF BuildRoute, TermsInv
  <2>3. /\ Claims.policy = proof.policy /\ Claims.impact = proof.impact
        /\ Claims.deviation = proof.deviation /\ Claims.signed = proof.signed
    BY <2>2 DEF Claims, IsProof
  <2>4. IssuedBy(claimed'.claims, e)
    BY <2>1, <2>2, <2>3 DEF IssuedBy
  <2>5. d.allowed = e.allowed
    <3>1. Fingerprint(d) = Fingerprint(e)
      BY <2>1, <2>2, <2>3 DEF ConstructionAccepts, IssuedBy
    <3>2. QED
      BY <3>1, SamePolicy
  <2>6. ListedBy(claimed'.route, e)
    BY <2>1, <2>5 DEF ListedBy
  <2>7. QED
    BY <1>6, <2>4, <2>6 DEF BuildRoute, TermsInv, SettingsOK, WithinPolicy
<1>7. ASSUME RelayAccepts PROVE TermsInv'
  <2>1. PICK d \in Deployments :
          /\ VerifyQuoteClaims(d, claimed.claims)
          /\ relayed' = [route |-> claimed.route, slippage |-> claimed.claims.slippage,
                         impact |-> claimed.claims.impact, of |-> claimed.claims.deviation,
                         by |-> d]
    BY <1>7 DEF RelayAccepts
  <2>2. PICK e \in Deployments : IssuedBy(claimed.claims, e) /\ ListedBy(claimed.route, e)
    BY <1>7 DEF RelayAccepts, TermsInv
  <2>3. /\ d.network = e.network /\ d.maxSlippage = e.maxSlippage
        /\ d.maxImpact = e.maxImpact /\ d.allowed = e.allowed
    <3>1. Fingerprint(d) = Fingerprint(e)
      BY <2>1, <2>2 DEF VerifyQuoteClaims, IssuedBy
    <3>2. QED
      BY <3>1, SamePolicy
  <2>4. d.network # "devnet" /\ (d.allowed # {} => relayed'.route \subseteq d.allowed)
    BY <2>1, <2>2, <2>3 DEF IssuedBy, ListedBy
  <2>5. d.allowed # {} /\ d.network = "testnet" => d.allowed \subseteq Families
    BY <2>2, <2>3 DEF IssuedBy, ResolveProviders
  <2>6. relayed'.of <= relayed'.impact /\ relayed'.impact <= d.maxImpact
    BY <2>1, <2>2, <2>3 DEF IssuedBy
  <2>7. d.signs => relayed'.slippage <= d.maxSlippage
    BY <2>1, <2>2, <2>3 DEF VerifyQuoteClaims, Signed, IssuedBy
  <2>8. relayed'.by = d
    BY <2>1
  <2>9. WithinPolicy'
    BY <2>4, <2>5, <2>6, <2>7, <2>8 DEF WithinPolicy
  <2>10. QED
    BY <1>7, <2>9 DEF RelayAccepts, TermsInv, SettingsOK
<1>8. ASSUME GiveUpSwap PROVE TermsInv'
  BY <1>8 DEF GiveUpSwap, TermsInv, SettingsOK, WithinPolicy
<1>9. CASE UNCHANGED termsVars
  BY <1>9 DEF termsVars, TermsInv, SettingsOK, WithinPolicy
<1>10. QED
  BY <1>1, <1>2, <1>3, <1>4, <1>5, <1>6, <1>7, <1>8, <1>9 DEF TermsNext

(* What a server executes is within its own policy, whichever server       *)
(* quoted it, configured its construction or verified it (quote route,     *)
(* executeSwap, verifyQuoteClaims).                                        *)
THEOREM RelayedWithinPolicy == TermsSpec => []WithinPolicy
<1>1. TermsInit => TermsInv
  BY DEF TermsInit, TermsInv, SettingsOK, WithinPolicy
<1>2. TermsInv => WithinPolicy
  BY DEF TermsInv
<1>3. QED
  BY <1>1, <1>2, TermsInvStep, PTL DEF TermsSpec

-----------------------------------------------------------------------------
(* The money. *)

Underway == {"signed", "preflighted", "submitted", "executed"}

(* What executeSwap takes from the quote.                                  *)
OfQuote ==
  /\ tx.gross = quote.gross /\ tx.net = quote.net /\ tx.fee = quote.fee
  /\ tx.bps = quote.policy.bps /\ tx.to = quote.policy.to
  /\ tx.least \in Nat /\ tx.least >= MinimumOut(quote.min)

QuoteTypeOK ==
  /\ quote.gross \in Nat /\ quote.net \in Nat /\ quote.min \in Nat
  /\ quote.policy.bps \in Nat
  /\ quote.fee = ServiceFee(quote.gross, quote.policy.bps)

MoneyInv ==
  /\ price \in Prices /\ policy \in Policy
  /\ step \in Underway \cup {"quoted"} => QuoteTypeOK
  /\ step \in Underway => OfQuote
  /\ paid # Nothing => step = "executed"
  /\ FeeAsReviewed /\ PaidAboveFloor

----------------------------------------------------------------------------
(* Integer arithmetic. *)

\* Whole multiples of the denominator leave a division.
LEMMA DivideWhole ==
  ASSUME NEW a \in Nat, NEW b \in Nat
  PROVE  (BpsDenominator * a + b) \div BpsDenominator = a + b \div BpsDenominator
BY DEF BpsDenominator

\* calculate_fee of the contract and calculateServiceFee of the server.
LEMMA SameFee ==
  ASSUME NEW gross \in Nat, NEW bps \in Nat
  PROVE  CalculateFee(gross, bps) = ServiceFee(gross, bps)
<1> DEFINE q == gross \div BpsDenominator
           r == gross % BpsDenominator
<1>1. q \in Nat /\ r \in Nat /\ gross = BpsDenominator * q + r
  BY DEF BpsDenominator
<1>2. q * bps \in Nat /\ r * bps \in Nat
  BY <1>1
<1>3. gross * bps = BpsDenominator * (q * bps) + r * bps
  <2>1. ASSUME NEW x \in Nat, NEW y \in Nat
        PROVE  (BpsDenominator * x + y) * bps = BpsDenominator * (x * bps) + y * bps
    BY DEF BpsDenominator
  <2>2. QED
    BY <1>1, <2>1
<1> HIDE DEF q, r
<1>4. (gross * bps) \div BpsDenominator = q * bps + (r * bps) \div BpsDenominator
  BY <1>2, <1>3, DivideWhole
<1>5. QED
  BY <1>4 DEF CalculateFee, ServiceFee, q, r

\* A product of amounts is an amount.
LEMMA Products == \A x, y \in Nat : x * y \in Nat
OBVIOUS

\* A fee, and a least output, are amounts.
LEMMA AmountTypes ==
  /\ \A gross, bps \in Nat : ServiceFee(gross, bps) \in Nat
  /\ \A out \in Nat : MinimumOut(out) \in Nat
<1>1. \A n \in Nat : n \div BpsDenominator \in Nat
  BY DEF BpsDenominator
<1>2. \A gross, bps \in Nat : gross * bps \in Nat
  BY Products
<1>3. \A out \in Nat : out * (BpsDenominator - Slippage) \in Nat
  BY Products, MoneyAssumption DEF BpsDenominator
<1>4. QED
  BY <1>1, <1>2, <1>3 DEF ServiceFee, MinimumOut

\* More output allows no less.
LEMMA MinimumGrows ==
  ASSUME NEW a \in Nat, NEW b \in Nat, a <= b
  PROVE  MinimumOut(a) <= MinimumOut(b)
<1> DEFINE k == BpsDenominator - Slippage
<1>1. k \in Nat
  BY MoneyAssumption DEF BpsDenominator
<1>2. PICK d \in Nat : b = a + d
  BY SMT
<1> HIDE DEF k
<1>3. b * k = a * k + d * k /\ a * k \in Nat /\ b * k \in Nat /\ d * k \in Nat
  BY <1>1, <1>2
<1>4. ASSUME NEW m \in Nat, NEW n \in Nat, m <= n
      PROVE  m \div BpsDenominator <= n \div BpsDenominator
  BY <1>4 DEF BpsDenominator
<1>5. (a * k) \div BpsDenominator <= (b * k) \div BpsDenominator
  <2>1. a * k <= b * k
    BY <1>3
  <2>2. QED
    BY <1>3, <1>4, <2>1
<1>6. QED
  BY <1>5 DEF MinimumOut, k

----------------------------------------------------------------------------
(* The chain carries out what the quote says, as the contract was when the *)
(* user signed or not at all.                                              *)
LEMMA EffectsOfQuote ==
  ASSUME MoneyInv, step \in Underway, Succeeds
  PROVE  /\ Effects.fee = quote.fee
         /\ Effects.to = quote.policy.to
         /\ Effects.got >= MinimumOut(quote.min)
<1>1. OfQuote /\ QuoteTypeOK /\ price \in Nat
  BY MoneyAssumption DEF MoneyInv, OfQuote
<1>2. Effects.fee = quote.fee /\ Effects.to = quote.policy.to
  <2>1. CASE tx.collect
    <3>1. contract.bps = quote.policy.bps /\ contract.to = quote.policy.to
      BY <1>1, <2>1 DEF Succeeds, AssertPolicy, OfQuote
    <3>2. CalculateFee(tx.gross, contract.bps) = quote.fee
      BY <1>1, <3>1, SameFee DEF OfQuote, QuoteTypeOK
    <3>3. QED
      BY <2>1, <3>1, <3>2 DEF Effects
  <2>2. CASE ~tx.collect
    BY <1>1, <2>2 DEF Effects, OfQuote
  <2>3. QED
    BY <2>1, <2>2
<1>3. Effects.got >= MinimumOut(quote.min)
  <2>1. tx.net \in Nat /\ quote.min \in Nat
    BY <1>1 DEF OfQuote, QuoteTypeOK
  <2>2. tx.net * price \in Nat /\ MinimumOut(quote.min) \in Nat /\ tx.least \in Nat
    BY <1>1, <2>1, AmountTypes, Products DEF OfQuote
  <2>3. tx.net * price >= tx.least /\ tx.least >= MinimumOut(quote.min)
    BY <1>1 DEF Succeeds, OfQuote
  <2>4. Effects.got = tx.net * price
    BY DEF Effects
  <2>5. QED
    BY <2>2, <2>3, <2>4
<1>4. QED
  BY <1>2, <1>3

\* What the invariant says of the quote and of the transaction is of them alone.
LEMMA Undisturbed ==
  /\ UNCHANGED quote /\ QuoteTypeOK => QuoteTypeOK'
  /\ UNCHANGED <<quote, tx>> /\ OfQuote => OfQuote'
  /\ UNCHANGED <<quote, paid>> /\ FeeAsReviewed /\ PaidAboveFloor
       => FeeAsReviewed' /\ PaidAboveFloor'
BY DEF QuoteTypeOK, OfQuote, FeeAsReviewed, PaidAboveFloor

LEMMA MoneyInvStep == MoneyInv /\ [MoneyNext]_moneyVars => MoneyInv'
<1> USE MoneyAssumption
<1> SUFFICES ASSUME MoneyInv, [MoneyNext]_moneyVars PROVE MoneyInv'
  OBVIOUS
<1>1. ASSUME NEW gross \in Amounts, BuildSwapQuote(gross) PROVE MoneyInv'
  <2> DEFINE fee == ServiceFee(gross, policy.bps)
  <2>1. /\ quote' = Quoted(gross) /\ quote'.net > 0 /\ quote'.min > 0
        /\ step \in {"start", "refused"} /\ step' = "quoted" /\ UNCHANGED <<price, policy, paid>>
    BY <1>1 DEF BuildSwapQuote
  <2>2. paid = Nothing /\ paid' = Nothing
    BY <2>1 DEF MoneyInv
  <2>3. QuoteTypeOK'
    <3>1. gross \in Nat /\ policy.bps \in Nat /\ price \in Nat
      <4>1. policy.bps \in FeeRates /\ price \in Prices
        BY DEF MoneyInv, Policy
      <4>2. FeeRates \subseteq Nat /\ Prices \subseteq Nat /\ Amounts \subseteq Nat
        BY DEF MaxServiceFeeBps
      <4>3. QED
        BY <4>1, <4>2
    <3>2. fee \in Nat
      BY <3>1, AmountTypes
    <3> HIDE DEF fee
    <3>3. /\ quote'.gross = gross /\ quote'.policy = policy /\ quote'.fee = fee
          /\ quote'.net = gross - fee /\ quote'.min = MinimumOut((gross - fee) * price)
      BY <2>1 DEF Quoted, fee
    <3>4. gross - fee \in Nat /\ (gross - fee) * price \in Nat
      <4>1. gross - fee \in Nat
        BY <2>1, <3>1, <3>2, <3>3
      <4>2. QED
        BY <3>1, <4>1, Products
    <3>5. quote'.min \in Nat
      BY <3>3, <3>4, AmountTypes
    <3>6. QED
      BY <3>1, <3>3, <3>4, <3>5 DEF QuoteTypeOK, fee
  <2>4. QED
    <3>3. FeeAsReviewed' /\ PaidAboveFloor'
      BY <2>2 DEF FeeAsReviewed, PaidAboveFloor
    <3>4. QED
      BY <2>1, <2>2, <2>3, <3>3 DEF MoneyInv, Underway
<1>2. ASSUME ExecuteSwap PROVE MoneyInv'
  <2> DEFINE out == quote.net * price
  <2>1. /\ step = "quoted" /\ step' = "signed" /\ out >= quote.min
        /\ UNCHANGED <<price, policy, contract, quote, paid>>
    BY <1>2 DEF ExecuteSwap, RouteHolds
  <2>2. QuoteTypeOK /\ paid = Nothing
    BY <2>1 DEF MoneyInv
  <2>3. /\ tx'.gross = quote.gross /\ tx'.net = quote.net /\ tx'.fee = quote.fee
        /\ tx'.bps = quote.policy.bps /\ tx'.to = quote.policy.to /\ tx'.least = MinimumOut(out)
    BY <1>2 DEF ExecuteSwap
  <2>4. quote.min \in Nat /\ out \in Nat
    BY <2>2, Products DEF QuoteTypeOK, MoneyInv
  <2> HIDE DEF out
  <2>5. MinimumOut(out) \in Nat /\ MinimumOut(quote.min) \in Nat
    BY <2>4, AmountTypes
  <2>6. MinimumOut(out) >= MinimumOut(quote.min)
    BY <2>1, <2>4, <2>5, MinimumGrows
  <2>7. OfQuote'
    BY <2>1, <2>2, <2>3, <2>5, <2>6 DEF OfQuote, MinimumOut
  <2>8. QED
    BY <2>1, <2>2, <2>7, Undisturbed DEF MoneyInv
<1>3. ASSUME NEW from, NEW to, Simulate(from, to),
             from \in Underway, to \in Underway, from # "executed"
      PROVE  MoneyInv'
  <2>1. step = from /\ step' \in {to, "refused"} /\ UNCHANGED <<price, policy, contract, quote, tx, paid>>
    BY <1>3 DEF Simulate
  <2>2. OfQuote /\ QuoteTypeOK /\ paid = Nothing
    BY <1>3, <2>1 DEF MoneyInv, Underway
  <2>3. QED
    BY <2>1, <2>2, Undisturbed DEF MoneyInv
<1>4. ASSUME ChainExecutes PROVE MoneyInv'
  <2>1. /\ step = "submitted" /\ step' = "executed" /\ UNCHANGED <<price, policy, quote, tx>>
        /\ paid' # Nothing => Succeeds /\ paid' = Effects
    BY <1>4 DEF ChainExecutes
  <2>2. paid' # Nothing => FeeAsReviewed' /\ PaidAboveFloor'
    BY <2>1, EffectsOfQuote DEF FeeAsReviewed, PaidAboveFloor, Underway
  <2>3. QED
    <3>1. FeeAsReviewed' /\ PaidAboveFloor'
      BY <2>2 DEF FeeAsReviewed, PaidAboveFloor
    <3>2. QED
      BY <2>1, <3>1, Undisturbed DEF MoneyInv, Underway
<1>5. ASSUME MarketMoves \/ Redeploy \/ UpdateConfig PROVE MoneyInv'
  <2>1. price' \in Prices /\ policy' \in Policy /\ UNCHANGED <<quote, tx, step, paid>>
    BY <1>5 DEF MarketMoves, Redeploy, UpdateConfig, MoneyInv
  <2>2. QED
    BY <2>1, Undisturbed DEF MoneyInv
<1>6. CASE UNCHANGED moneyVars
  BY <1>6, Undisturbed DEF moneyVars, MoneyInv
<1>7. ASSUME Preflight \/ Relay PROVE MoneyInv'
  BY <1>3, <1>7 DEF Preflight, Relay, Underway
<1>8. QED
  BY <1>1, <1>2, <1>4, <1>5, <1>6, <1>7 DEF MoneyNext

-----------------------------------------------------------------------------
LEMMA MoneyInvInit == MoneyInit => MoneyInv
BY DEF MoneyInit, MoneyInv, Underway, FeeAsReviewed, PaidAboveFloor

(* Whatever is collected on-chain, in either of its forms, is the fee of   *)
(* the reviewed quote, and goes to its recipient (collect_fee).            *)
THEOREM FeeIsReviewed == MoneySpec => []FeeAsReviewed
<1>1. MoneyInv => FeeAsReviewed
  BY DEF MoneyInv
<1>2. QED
  BY <1>1, MoneyInvInit, MoneyInvStep, PTL DEF MoneySpec

(* The user gets no less than the reviewed minimum less the slippage once  *)
(* more (executeSwap's fresh route).                                       *)
THEOREM PaidAboveTheFloor == MoneySpec => []PaidAboveFloor
<1>1. MoneyInv => PaidAboveFloor
  BY DEF MoneyInv
<1>2. QED
  BY <1>1, MoneyInvInit, MoneyInvStep, PTL DEF MoneySpec
=============================================================================
