---------------------------- MODULE SpendAmount ----------------------------
(***************************************************************************)
(* The amount a page spends: the decimal texts of src/utils/formats.ts and *)
(* their conversion to and from base units (services/fees/service-fee.ts), *)
(* as the swap page and the send panel use them, from the field, MAX, the  *)
(* quick amounts and a flip, through the comparison with what may be       *)
(* spent, to the base units of the transaction.                            *)
(*                                                                         *)
(* A text of `places` digits after the point is the number `digits` over   *)
(* 10^places: "1.50" is [digits |-> 150, places |-> 2].                    *)
(***************************************************************************)
EXTENDS Integers, FiniteSets

CONSTANTS
  Coins,       \* coins, by their decimals
  Gas,         \* the coin that pays for gas, SUI
  Shown,       \* the digits after the point that a flip keeps, at most
  Typed,       \* bound: the texts that are typed
  Holdings,    \* bound: the balances that are read
  Reserves,    \* gasReserveMist: the page's own and what the server configures
  Nothing

ASSUME SpendAmountAssumption ==
  /\ Coins \subseteq Nat /\ Gas \in Coins /\ Shown \in Nat
  /\ Typed \subseteq [digits : Nat, places : Nat]
  /\ Holdings \subseteq Nat /\ Reserves \subseteq Nat
  /\ Nothing \notin Nat

VARIABLES
  coin,        \* pay
  held,       \* the balance the page knows, in base units, or Nothing
  reserve,     \* gasReserveMist
  text,        \* amount
  setBy,       \* what the text was last set by
  sent         \* the last transaction: its amount, and what might be spent

spendVars == <<coin, held, reserve, text, setBy, sent>>

Text(digits, places) == [digits |-> digits, places |-> places]
PowerOf10[n \in Nat] == IF n = 0 THEN 1 ELSE 10 * PowerOf10[n - 1]
Least(a, b) == IF a < b THEN a ELSE b

-----------------------------------------------------------------------------
(* Zeros at the end of the fraction are dropped. *)
Trimmed(digits, places) ==
  LET zeros == CHOOSE k \in 0..places :
                 /\ digits % PowerOf10[k] = 0
                 /\ \A j \in 0..places : digits % PowerOf10[j] = 0 => j <= k
  IN Text(digits \div PowerOf10[zeros], places - zeros)

(* baseUnitsToDecimalString *)
FromBaseUnits(units, decimals) == Trimmed(units, decimals)

(* decimalToBaseUnits; Nothing where it throws. *)
DecimalToBaseUnits(t, decimals) ==
  IF t.places > decimals THEN Nothing
  ELSE t.digits * PowerOf10[decimals - t.places]

(* The digits of t, had it `places` of them after the point. *)
Padded(t, places) == t.digits * PowerOf10[places - t.places]

\* Mutant: the digits are compared without the point.
ExceedsByDigits(t, limit) == t.digits > limit.digits

(* compareUnsignedDecimalText(t, limit) > 0 *)
Exceeds(t, limit) ==
  LET places == t.places + limit.places IN Padded(t, places) > Padded(limit, places)

(* subtractUnsignedDecimalText *)
Subtract(a, b) ==
  LET places == IF a.places > b.places THEN a.places ELSE b.places
      result == Padded(a, places) - Padded(b, places)
  IN IF result <= 0 THEN Text(0, 0) ELSE Trimmed(result, places)

(* scaleUnsignedDecimalText: to as many digits after the point as t has.   *)
Scale(t, percent, decimals) ==
  LET places == Least(t.places, decimals)
      units  == t.digits \div PowerOf10[t.places - places]
  IN Trimmed((units * percent) \div 100, places)

(* truncateDecimalText *)
Truncate(t, places) ==
  IF t.places <= places THEN Trimmed(t.digits, t.places)
  ELSE Trimmed(t.digits \div PowerOf10[t.places - places], places)

-----------------------------------------------------------------------------
(* maxSpendableText, spendableText *)
Spendable ==
  LET balance == FromBaseUnits(held, coin)
  IN IF coin = Gas THEN Subtract(balance, FromBaseUnits(reserve, Gas)) ELSE balance

SpendTypeOK ==
  /\ coin \in Coins /\ held \in Nat \cup {Nothing} /\ reserve \in Nat
  /\ text \in [digits : Nat, places : Nat]
  /\ setBy \in {"hand", "button", "flip"}
  /\ sent \in [units : Nat, of : Nat] \cup {Nothing}

SpendInit ==
  /\ coin \in Coins /\ held = Nothing /\ reserve \in Reserves
  /\ text = Text(1, 0) /\ setBy = "hand" /\ sent = Nothing

SetText(t, by) == text' = t /\ setBy' = by /\ UNCHANGED <<coin, held, reserve, sent>>

Types == \E t \in Typed : SetText(t, "hand")

(* The buttons are there once something may be spent. *)
Offered == held # Nothing /\ Spendable.digits > 0
UseMaximum == Offered /\ SetText(Spendable, "button")
UseQuickAmount ==
  Offered /\ \E percent \in {25, 50, 75} : SetText(Scale(Spendable, percent, coin), "button")

(* The quote's answer, in the other coin's decimals, becomes the amount.   *)
FlipAmount ==
  \E other \in Coins, out \in Holdings :
    /\ coin' = other /\ held' = Nothing
    /\ text' = Truncate(FromBaseUnits(out, other), Least(other, Shown))
    /\ setBy' = "flip" /\ UNCHANGED <<reserve, sent>>

ChooseCoin ==
  /\ coin' \in Coins \ {coin} /\ held' = Nothing /\ setBy' = "hand"
  /\ UNCHANGED <<reserve, text, sent>>

BalanceRead ==
  /\ held' \in Holdings \cup {Nothing}
  /\ UNCHANGED <<coin, reserve, text, setBy, sent>>

ConfigRead == reserve' \in Reserves /\ UNCHANGED <<coin, held, text, setBy, sent>>

(* validAmount, exceedsBalance, and the transaction's builder.             *)
Spend ==
  /\ text.digits > 0 /\ held # Nothing /\ ~Exceeds(text, Spendable)
  /\ LET units == DecimalToBaseUnits(text, coin)
     IN IF units = Nothing THEN UNCHANGED sent
        ELSE sent' = [units |-> units,
                      of |-> IF coin = Gas THEN held - reserve ELSE held]
  /\ UNCHANGED <<coin, held, reserve, text, setBy>>

SpendNext ==
  \/ Types \/ UseMaximum \/ UseQuickAmount \/ FlipAmount \/ ChooseCoin
  \/ BalanceRead \/ ConfigRead \/ Spend

SpendSpec == SpendInit /\ [][SpendNext]_spendVars

-----------------------------------------------------------------------------
(* What is sent is what may be spent, to the base unit, though the limit   *)
(* is a difference of texts and the comparison one of texts of unlike      *)
(* lengths; and what a button or a flip fills in, the builder takes: it    *)
(* has no digit too many for the coin.                                     *)
SpendFits ==
  /\ sent # Nothing => sent.units > 0 /\ sent.units <= sent.of
  /\ setBy # "hand" => DecimalToBaseUnits(text, coin) # Nothing

(* A quick amount is its share of what may be spent, to the base unit.  It *)
(* is not: a share of "1" has no digits after the point (formats.ts:106).  *)
QuickAmountIsShare ==
  Offered => \A percent \in {25, 50, 75} :
    DecimalToBaseUnits(Scale(Spendable, percent, coin), coin)
      = (DecimalToBaseUnits(Spendable, coin) * percent) \div 100
=============================================================================
