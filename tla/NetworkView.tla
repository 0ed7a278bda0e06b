---------------------------- MODULE NetworkView -----------------------------
(***************************************************************************)
(* useNetworkStatus (src/hooks/use-network-status.ts) on fetchJson         *)
(* (src/common/fetch-json.ts): what a page says of the network while it    *)
(* polls, retries, is hidden and shown, and while the browser goes offline *)
(* and comes back.  As in WalletView, a call settles first and what awaits *)
(* it goes on thereafter.                                                  *)
(***************************************************************************)
EXTENDS Integers, FiniteSets, Sequences

CONSTANTS
  MaxPolls,    \* bound on the calls of refresh
  MaxEvents,   \* bound on the events that wait to be heard
  Retries      \* retries of fetchJson

ASSUME NetworkViewAssumption == {MaxPolls, MaxEvents, Retries} \subseteq Nat

VARIABLES
  onLine,      \* navigator.onLine
  toTell,      \* the events of it that the page has still to hear, in order
  problem,     \* error
  known,       \* whether there are data
  loading,
  active,      \* activeController.current: the number of a call, or 0
  polls        \* the calls of refresh so far

netVars == <<onLine, toTell, problem, known, loading, active, polls>>

Polls == [got : {"pending", "asleep", "data", "error", "done"},
          failures : 0..Retries, aborted : BOOLEAN]
Last == Cardinality(DOMAIN polls)

NetTypeOK ==
  /\ onLine \in BOOLEAN /\ known \in BOOLEAN /\ loading \in BOOLEAN
  /\ toTell \in Seq({"offline", "online"}) /\ Len(toTell) <= MaxEvents
  /\ problem \in {"none", "offline", "unavailable"}
  /\ Last \in 0..MaxPolls /\ active \in 0..Last
  /\ polls \in [1..Last -> Polls]

NetInit ==
  /\ onLine = TRUE /\ toTell = <<>> /\ problem = "none"
  /\ known = FALSE /\ loading = TRUE /\ active = 0
  /\ polls = [i \in {} |-> 0]

(* The abortion wakes a sleeper and rejects a fetch; a call that has its   *)
(* answer keeps it.                                                        *)
AbortActive ==
  [i \in DOMAIN polls |->
     IF i # active THEN polls[i]
     ELSE [polls[i] EXCEPT !.aborted = TRUE,
                           !.got = IF @ \in {"pending", "asleep"} THEN "error" ELSE @]]

-----------------------------------------------------------------------------
(* refresh, up to its await. *)
Poll ==
  IF onLine
    THEN /\ Last < MaxPolls
         /\ polls' = [i \in 1..Last + 1 |->
                        IF i <= Last THEN AbortActive[i]
                        ELSE [got |-> "pending", failures |-> 0, aborted |-> FALSE]]
         /\ active' = Last + 1
         /\ UNCHANGED <<problem, loading>>
    ELSE /\ problem' = "offline" /\ loading' = FALSE
         /\ UNCHANGED <<polls, active>>

(* The effect's first, the timer's, or the page comes into view. *)
Refresh == Poll /\ UNCHANGED <<onLine, toTell, known>>

(* One attempt of fetchJson: an answer, or a failure that is retried, if   *)
(* it may be, after a pause; or one that is final.                         *)
AttemptEnds(i) ==
  /\ polls[i].got = "pending"
  /\ \/ polls' = [polls EXCEPT ![i].got = "data"]
     \/ polls' = [polls EXCEPT ![i].got = "error"]
     \/ /\ polls[i].failures < Retries
        /\ polls' = [polls EXCEPT ![i].got = "asleep", ![i].failures = @ + 1]
  /\ UNCHANGED <<onLine, toTell, problem, known, loading, active>>

TriesAgain(i) ==
  /\ polls[i].got = "asleep"
  /\ polls' = [polls EXCEPT ![i].got = "pending"]
  /\ UNCHANGED <<onLine, toTell, problem, known, loading, active>>

\* Mutant: the controller is forgotten whose ever it is.
ForgetsAny(i) == 0

Forgets(i) == IF active = i THEN 0 ELSE active

(* What follows the await, and `finally`. *)
Concludes(i) ==
  /\ polls[i].got \in {"data", "error"}
  /\ polls' = [polls EXCEPT ![i].got = "done"]
  /\ IF polls[i].aborted THEN UNCHANGED <<known, problem, loading>>
     ELSE /\ loading' = FALSE
          /\ IF polls[i].got = "data" THEN known' = TRUE /\ problem' = "none"
             ELSE problem' = "unavailable" /\ UNCHANGED known
  /\ active' = Forgets(i)
  /\ UNCHANGED <<onLine, toTell>>

-----------------------------------------------------------------------------
(* The browser's connection, and its events, which come a little later.    *)
ConnectionChanges ==
  /\ Len(toTell) < MaxEvents
  /\ onLine' = ~onLine
  /\ toTell' = Append(toTell, IF onLine THEN "offline" ELSE "online")
  /\ UNCHANGED <<problem, known, loading, active, polls>>

Hears(event) ==
  /\ toTell # <<>> /\ Head(toTell) = event
  /\ toTell' = Tail(toTell)

OnOffline ==
  /\ Hears("offline")
  /\ polls' = AbortActive /\ problem' = "offline" /\ loading' = FALSE
  /\ UNCHANGED <<onLine, known, active>>

OnOnline ==
  /\ Hears("online") /\ Poll
  /\ UNCHANGED <<onLine, known>>

NetNext ==
  \/ Refresh \/ ConnectionChanges \/ OnOffline \/ OnOnline
  \/ \E i \in DOMAIN polls : AttemptEnds(i) \/ TriesAgain(i) \/ Concludes(i)

NetSpec == NetInit /\ [][NetNext]_netVars

-----------------------------------------------------------------------------
(* While the browser is offline, and the page has been told, it says so:   *)
(* no answer to a call made before, and none of a call that was overtaken, *)
(* takes the notice away (l.108).                                          *)
OfflineSaysSo == ~onLine /\ toTell = <<>> => problem = "offline" /\ ~loading
=============================================================================
