----------------------------- MODULE WalletView -----------------------------
(***************************************************************************)
(* useWalletData (src/hooks/use-wallet-data.ts): what a page shows of the  *)
(* balances of the connected account, while accounts change, refreshes     *)
(* overtake each other and calls fail.  A call has two steps: its promise  *)
(* settles, by an answer, a failure or the abortion of its signal, and     *)
(* what awaits it goes on, by when its signal may have been aborted too.   *)
(* What the calls share is in Cache.                                       *)
(***************************************************************************)
EXTENDS Integers, FiniteSets

CONSTANTS
  Accounts,    \* addresses
  MaxAsks,     \* bound on the calls made
  NoOne

ASSUME WalletViewAssumption == NoOne \notin Accounts /\ MaxAsks \in Nat

VARIABLES
  connected,   \* accountAddress, the hook's argument
  effectOf,    \* the address the hook's effect last ran for
  balances,    \* whose balances state.data has
  viewStatus,  \* state.status
  asks         \* the calls of refresh so far: requestId is their number

viewVars == <<connected, effectOf, balances, viewStatus, asks>>

Owners == Accounts \cup {NoOne}
Asks == [of : Accounts, got : {"pending", "data", "error", "done"}, aborted : BOOLEAN]

RequestId == Cardinality(DOMAIN asks)

ViewTypeOK ==
  /\ connected \in Owners /\ effectOf \in Owners /\ balances \in Owners
  /\ viewStatus \in {"idle", "loading", "ready", "error"}
  /\ asks \in [1..RequestId -> Asks] /\ RequestId \in 0..MaxAsks

ViewInit ==
  /\ connected = NoOne /\ effectOf = NoOne /\ balances = NoOne
  /\ viewStatus = "idle" /\ asks = [i \in {} |-> NoOne]

(* controller.abort(): a promise still pending is rejected (withAbortSignal). *)
Abandoned(ask) ==
  [ask EXCEPT !.aborted = TRUE, !.got = IF @ = "pending" THEN "error" ELSE @]

\* controller.current is the last call's.
AbortLast == [i \in DOMAIN asks |-> IF i = RequestId THEN Abandoned(asks[i]) ELSE asks[i]]

-----------------------------------------------------------------------------
(* refresh, up to its await. *)
Ask(a) ==
  IF a = NoOne
    THEN /\ asks' = AbortLast
         /\ balances' = NoOne /\ viewStatus' = "idle"
    ELSE /\ RequestId < MaxAsks
         /\ asks' = [i \in 1..RequestId + 1 |->
                       IF i \in DOMAIN asks THEN AbortLast[i]
                       ELSE [of |-> a, got |-> "pending", aborted |-> FALSE]]
         /\ viewStatus' = IF balances # NoOne THEN "ready" ELSE "loading"
         /\ UNCHANGED balances

(* The wallet's account changes and the page is drawn with it; the effect  *)
(* runs thereafter.                                                        *)
AccountChanges ==
  /\ connected' \in Owners \ {connected}
  /\ UNCHANGED <<effectOf, balances, viewStatus, asks>>

EffectRuns ==
  /\ effectOf # connected /\ effectOf' = connected
  /\ Ask(connected)
  /\ UNCHANGED connected

(* A transaction, an event of the socket, the clock, or the page comes     *)
(* into view: the effect's listeners, which are of the address it ran for. *)
Refreshes ==
  /\ effectOf # NoOne /\ Ask(effectOf)
  /\ UNCHANGED <<connected, effectOf>>

Settles(i) ==
  /\ asks[i].got = "pending"
  /\ \E got \in {"data", "error"} : asks' = [asks EXCEPT ![i].got = got]
  /\ UNCHANGED <<connected, effectOf, balances, viewStatus>>

\* Mutant: neither the signal nor the number of the call is looked at.
AnyCall(i) == TRUE

Current(i) == i = RequestId /\ ~asks[i].aborted

GoesOn(i) ==
  /\ asks[i].got \in {"data", "error"}
  /\ asks' = [asks EXCEPT ![i].got = "done"]
  /\ IF ~Current(i) THEN UNCHANGED <<balances, viewStatus>>
     ELSE IF asks[i].got = "data" THEN balances' = asks[i].of /\ viewStatus' = "ready"
     ELSE viewStatus' = "error" /\ UNCHANGED balances
  /\ UNCHANGED <<connected, effectOf>>

ViewNext ==
  \/ AccountChanges \/ EffectRuns \/ Refreshes
  \/ \E i \in DOMAIN asks : Settles(i) \/ GoesOn(i)

ViewSpec == ViewInit /\ [][ViewNext]_viewVars

-----------------------------------------------------------------------------
Awaited(i) == Current(i) /\ asks[i].got # "done"

(* Once the last call for the connected account has been answered, the     *)
(* balances shown are that account's, whatever calls for another account   *)
(* are answered, and in whatever order.                                    *)
SettledOnAccount ==
  (effectOf = connected /\ viewStatus = "ready" /\ ~\E i \in DOMAIN asks : Awaited(i))
    => balances = connected

(* "Account switches/disconnects are reflected without stale wallet state" *)
(* (README.md:65): after the effect of a switch has run, the balances that *)
(* the menu shows and the send panel spends from are the account's.        *)
ShowsOwnBalance == effectOf = connected /\ balances # NoOne => balances = connected
=============================================================================
