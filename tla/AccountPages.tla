---------------------------- MODULE AccountPages ----------------------------
(***************************************************************************)
(* The pages that show what an account has done or holds: activity, with   *)
(* its cursor (src/app/activity/page.tsx), portfolio (portfolio/page.tsx)  *)
(* and liquidity positions (pool/page.tsx), while accounts change, events  *)
(* ask for a reload and answers overtake each other.  One of the pages is  *)
(* open in a behaviour.  An account's history is its transactions 1, 2,    *)
(* ..., in the order of the chain; a page of it is PageSize of them, the   *)
(* newest first; the portfolio and the positions are those of the newest.  *)
(***************************************************************************)
EXTENDS Integers, FiniteSets

CONSTANTS
  Holders,     \* addresses
  PageSize,    \* limit
  MaxHeight,   \* bound on an account's transactions
  MaxLoads,    \* bound on the fetches
  Nobody

ASSUME AccountPagesAssumption ==
  /\ Nobody \notin Holders
  /\ {PageSize, MaxHeight, MaxLoads} \subseteq Nat \ {0}
  /\ PageSize < MaxHeight

VARIABLES
  open,        \* the page
  account,     \* wallet.accountAddress, as the page is drawn with it
  effectFor,   \* the account the page's effects last ran for
  height,      \* the transactions each account has
  latest,      \* the load whose number requestId.current is, or 0
  fetches,     \* what was asked for: by their numbers
  list,        \* what is shown: transactions, by account and number
  cursor,      \* the oldest transaction of the list, or 0
  more,        \* hasMore
  busy         \* loading

pagesVars == <<open, account, effectFor, height, latest, fetches, list, cursor, more, busy>>

Drawn == Holders \cup {Nobody}
Pages == {"activity", "portfolio", "pool"}
Made == Cardinality(DOMAIN fetches)
Items == Holders \X (1..MaxHeight)
Requests ==
  [of : Holders, before : 0..MaxHeight, signal : BOOLEAN, aborted : BOOLEAN,
   got : {"pending", "page", "error", "done"}, top : 0..MaxHeight]

PagesTypeOK ==
  /\ open \in Pages /\ {account, effectFor} \subseteq Drawn
  /\ height \in [Holders -> 0..MaxHeight] /\ latest \in 0..Made
  /\ fetches \in [1..Made -> Requests] /\ Made \in 0..MaxLoads
  /\ list \subseteq Items /\ cursor \in 0..MaxHeight
  /\ more \in BOOLEAN /\ busy \in BOOLEAN

PagesInit ==
  /\ open \in Pages
  /\ account = Nobody /\ effectFor = Nobody
  /\ height = [a \in Holders |-> PageSize + 1]
  /\ latest = 0 /\ fetches = [i \in {} |-> Nobody]
  /\ list = {} /\ cursor = 0 /\ more = FALSE /\ busy = FALSE

-----------------------------------------------------------------------------
(* The transactions of a page: those up to `top`, PageSize of them. *)
PageOf(a, top) == {<<a, n>> : n \in {k \in 1..top : k > top - PageSize}}
Bottom(top) == IF top > PageSize THEN top - PageSize + 1 ELSE 1

(* The cleanup of the effect before aborts its controller (pool page). *)
AbortSignalled ==
  [i \in DOMAIN fetches |-> [fetches[i] EXCEPT !.aborted = @ \/ fetches[i].signal]]

(* load and refreshPositions, up to the await; `before` is the cursor, or  *)
(* 0 on a reset.                                                           *)
Load(table, a, before, signal) ==
  /\ Made < MaxLoads
  /\ latest' = Made + 1 /\ busy' = TRUE
  /\ fetches' = [i \in 1..Made + 1 |->
                 IF i <= Made THEN table[i]
                 ELSE [of |-> a, before |-> before, signal |-> signal, aborted |-> FALSE,
                       got |-> "pending", top |-> 0]]

AccountSwitches ==
  /\ account' \in Drawn \ {account}
  /\ UNCHANGED <<open, effectFor, height, latest, fetches, list, cursor, more, busy>>

(* The account effect.  The pool page keeps what it shows until the answer. *)
LoadEffect ==
  /\ effectFor # account /\ effectFor' = account
  /\ IF open = "pool" /\ account # Nobody THEN UNCHANGED list ELSE list' = {}
  /\ cursor' = 0 /\ more' = FALSE
  /\ IF account = Nobody
       THEN latest' = 0 /\ fetches' = AbortSignalled /\ UNCHANGED busy
       ELSE Load(AbortSignalled, account, 0, open = "pool")
  /\ UNCHANGED <<open, account, height>>

(* A transaction is confirmed, the socket says so, the portfolio's timer   *)
(* fires, or the button: the closures are those of the last effect.        *)
Reload ==
  /\ effectFor # Nobody
  /\ Load(fetches, effectFor, 0, FALSE)
  /\ UNCHANGED <<open, account, effectFor, height, list, cursor, more>>

LoadOlder ==
  /\ open = "activity" /\ effectFor = account /\ account # Nobody
  /\ more /\ ~busy
  /\ Load(fetches, account, cursor, FALSE)
  /\ UNCHANGED <<open, account, effectFor, height, list, cursor, more>>

(* The server reads the chain, or fails. *)
Answers(i) ==
  /\ fetches[i].got = "pending"
  /\ \/ fetches' = [fetches EXCEPT ![i].got = "error"]
     \/ fetches' = [fetches EXCEPT ![i].got = "page",
                               ![i].top = IF fetches[i].before = 0 THEN height[fetches[i].of]
                                           ELSE fetches[i].before - 1]
  /\ UNCHANGED <<open, account, effectFor, height, latest, list, cursor, more, busy>>

\* Mutant: the number of the request is not looked at.
AnyLoad(i) == TRUE

(* The answer is still wanted. *)
Wanted(i) ==
  IF open = "pool" THEN ~fetches[i].aborted ELSE i = latest

(* What follows the await. *)
Resumes(i) ==
  /\ fetches[i].got \in {"page", "error"}
  /\ fetches' = [fetches EXCEPT ![i] = [@ EXCEPT !.got = "done", !.top = 0, !.before = 0]]
  /\ busy' = (busy /\ ~Wanted(i))
  /\ IF Wanted(i) /\ fetches[i].got = "page"
       THEN LET page == PageOf(fetches[i].of, fetches[i].top)
            IN /\ list' = IF fetches[i].before = 0 THEN page ELSE list \cup page
               /\ cursor' = Bottom(fetches[i].top)
               /\ more' = (Bottom(fetches[i].top) > 1)
       ELSE UNCHANGED <<list, cursor, more>>
  /\ UNCHANGED <<open, account, effectFor, height, latest>>

Transacts(a) ==
  /\ height[a] < MaxHeight
  /\ height' = [height EXCEPT ![a] = @ + 1]
  /\ UNCHANGED <<open, account, effectFor, latest, fetches, list, cursor, more, busy>>

PagesNext ==
  \/ AccountSwitches \/ LoadEffect \/ Reload \/ LoadOlder
  \/ \E i \in DOMAIN fetches : Answers(i) \/ Resumes(i)
  \/ \E a \in Holders : Transacts(a)

PagesSpec == PagesInit /\ [][PagesNext]_pagesVars

-----------------------------------------------------------------------------
(* What the activity and the portfolio show is of the account the page is  *)
(* for, and of its history a run without a gap, down to the cursor, which  *)
(* is where "Load older" goes on: whatever answers arrive late, and        *)
(* whatever the account does between two pages.                            *)
ListOfAccount ==
  open # "pool" =>
    \/ list = {}
    \/ \E top \in cursor..MaxHeight :
         cursor # 0 /\ list = {<<effectFor, n>> : n \in cursor..top}

(* "Account switches/disconnects are reflected without stale wallet state" *)
(* (README.md:65): not on the pool page, whose reloads nothing aborts.     *)
PositionsOfAccount ==
  open = "pool" /\ ~busy => \A item \in list : item[1] = effectFor
=============================================================================
