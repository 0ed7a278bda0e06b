--------------------------- MODULE WalletSession ---------------------------
(***************************************************************************)
(* src/components/wallet/wallet-provider.tsx against the session routes:   *)
(* the account the page has connected, the session it believes in, and the *)
(* HTTP-only cookie that is the session.  The page's functions are chains  *)
(* of awaits that several events start and none cancels; each is a task    *)
(* here.  A request carries the cookie the browser holds when it is sent,  *)
(* and its answer sets the cookie when it arrives; `seen` is what the      *)
(* server was shown.                                                       *)
(*                                                                         *)
(* Sessions are configured and required, as in production.                 *)
(* The wallet may hold the prompt of a signature for as long as the user   *)
(* likes, and shows it whatever the page has done since.                   *)
(***************************************************************************)
EXTENDS Integers, FiniteSetsExt

CONSTANTS
  Addresses,   \* accounts of the wallet
  SessionTtl,  \* sessionTtlMs
  MaxPrompts,  \* bound on the tasks of the user's at one time
  MaxTasks,    \* bound on all tasks at one time
  MaxTokens,   \* bound on the challenges issued
  MaxClock,    \* bound on the clock
  Faults,      \* whether the calls to the session routes may fail
  Nobody

VARIABLES
  time,       \* Date.now()
  account,    \* accountAddress
  session,    \* the session of the page's state, or Nobody
  expiry,     \* whether the timer of the session's expiry is set
  cookie,     \* the session cookie, or Nobody
  challenge,  \* the token in the challenge cookie, or Nobody
  tokens,     \* challenges issued so far
  task,       \* the tasks under way
  left        \* history: the user has disconnected since the last connection

walletVars == <<time, account, session, expiry, cookie, challenge, tokens, task, left>>

Sessions == [address : Addresses, expiresAt : Nat]
Tasks == [kind : {"refresh", "enter", "verify", "disconnect", "logout"},
          at : {"connect", "fetch", "current", "logout", "challenge", "sign", "verify",
                "leave", "bye"},
          address : Addresses \cup {Nobody},
          seen : Sessions \cup {Nobody},
          token : 0..MaxTokens]

ASSUME WalletAssumption ==
  /\ {SessionTtl, MaxTokens, MaxClock} \subseteq Nat
  /\ {MaxPrompts, MaxTasks} \subseteq Nat /\ MaxPrompts < MaxTasks
  /\ Nobody \notin Tasks

WalletTypeOK ==
  /\ time \in 0..MaxClock
  /\ account \in Addresses \cup {Nobody}
  /\ session \in Sessions \cup {Nobody} /\ cookie \in Sessions \cup {Nobody}
  /\ expiry \in BOOLEAN /\ left \in BOOLEAN
  /\ challenge \in 1..MaxTokens \cup {Nobody} /\ tokens \in 0..MaxTokens
  /\ task \in [1..MaxTasks -> Tasks \cup {Nobody}]

(* readWalletSession: a cookie past its expiry is no session. *)
ReadSession == IF cookie # Nobody /\ time < cookie.expiresAt THEN cookie ELSE Nobody

Refresh(address) ==
  [kind |-> "refresh", at |-> "fetch", address |-> address, seen |-> ReadSession, token |-> 0]
Logout == [kind |-> "logout", at |-> "bye", address |-> Nobody, seen |-> Nobody, token |-> 0]
Begin(kind, at) ==
  [kind |-> kind, at |-> at, address |-> account, seen |-> Nobody, token |-> 0]

ByUser(t) == t.kind \in {"enter", "verify", "disconnect"}
Prompts == 1..MaxPrompts
Background == MaxPrompts+1..MaxTasks
Places(t) == IF ByUser(t) THEN Prompts ELSE Background
Free(places) == {i \in places : task[i] = Nobody}
Started(tasks, t) == [tasks EXCEPT ![Min({i \in Places(t) : tasks[i] = Nobody})] = t]

(* A page that has just loaded, with the cookie of an earlier visit or     *)
(* without; its first effect asks whose it is.                             *)
WalletInit ==
  /\ time = 0 /\ account = Nobody /\ session = Nobody /\ expiry = FALSE
  /\ cookie \in {Nobody} \cup {[address |-> a, expiresAt |-> SessionTtl] : a \in Addresses}
  /\ challenge = Nobody /\ tokens = 0
  /\ task = Started([i \in 1..MaxTasks |-> Nobody], Refresh(Nobody))
  /\ left = FALSE

-----------------------------------------------------------------------------
(* The effect on the session's expiry: it is set anew when the session     *)
(* comes or changes its expiry, or when the account changes.               *)
SetSession(s) ==
  /\ session' = s
  /\ expiry' = IF s = Nobody THEN FALSE
               ELSE IF session # Nobody /\ session.expiresAt = s.expiresAt THEN expiry
               ELSE TRUE

Running(i, at) == task[i] # Nobody /\ task[i].at = at
Ends(i) == task' = [task EXCEPT ![i] = Nobody]
Goes(i, at) == task' = [task EXCEPT ![i].at = at]

(* What the logout leaves of the cookie: its failure is swallowed. *)
LogoutLeaves == IF Faults THEN {Nobody, cookie} ELSE {Nobody}

(* refreshSession, and its first half when connectAndVerify awaits it. *)
AfterRefresh(i) ==
  IF task[i].kind = "enter"
    THEN task' = [task EXCEPT ![i].at = "current", ![i].seen = ReadSession]
    ELSE Ends(i)

RefreshAnswered(i) ==
  /\ Running(i, "fetch")
  /\ LET next == task[i].seen IN
       IF next # Nobody /\ task[i].address # Nobody /\ next.address # task[i].address
         THEN Goes(i, "logout") /\ UNCHANGED <<session, expiry>>
         ELSE SetSession(next) /\ AfterRefresh(i)
  /\ UNCHANGED <<time, account, cookie, challenge, tokens, left>>

\* Mutant: a failed refresh leaves the session as it was.
RefreshFailsQuietly(i) ==
  /\ Running(i, "fetch")
  /\ AfterRefresh(i)
  /\ UNCHANGED <<time, account, session, expiry, cookie, challenge, tokens, left>>

RefreshFails(i) ==
  /\ Faults /\ Running(i, "fetch")
  /\ SetSession(Nobody) /\ AfterRefresh(i)
  /\ UNCHANGED <<time, account, cookie, challenge, tokens, left>>

(* The logout of a stranger's session clears the cookie there is by then.  *)
RefreshLogsOut(i) ==
  /\ Running(i, "logout")
  /\ cookie' \in LogoutLeaves
  /\ SetSession(Nobody)
  /\ IF task[i].kind = "enter"
       THEN task' = [task EXCEPT ![i].at = "current",
                                 ![i].seen = IF cookie' = Nobody THEN Nobody ELSE ReadSession]
       ELSE Ends(i)
  /\ UNCHANGED <<time, account, challenge, tokens, left>>

(* connectAndVerify.  The account's change runs the refresh effect too.    *)
Connected(i) ==
  /\ Running(i, "connect")
  /\ Free(Background) # {}
  /\ \E a \in Addresses :
       LET entering == [task EXCEPT ![i].at = "fetch", ![i].address = a,
                                    ![i].seen = ReadSession]
       IN  /\ account' = a
           /\ task' = IF a = account THEN entering ELSE Started(entering, Refresh(a))
           /\ expiry' = (session # Nobody /\ (expiry \/ a # account))
  /\ left' = FALSE
  /\ UNCHANGED <<time, session, cookie, challenge, tokens>>

(* A read that fails is taken for a deployment without sessions, for which *)
(* nothing is to be signed.                                                *)
CurrentRead(i) ==
  /\ Running(i, "current")
  /\ LET current == task[i].seen IN
       \/ /\ SetSession(current)
          /\ IF current # Nobody /\ current.address = task[i].address
               THEN Ends(i) ELSE Goes(i, "challenge")
       \/ Faults /\ SetSession(Nobody) /\ Ends(i)
  /\ UNCHANGED <<time, account, cookie, challenge, tokens, left>>

(* verifyConnectedAccount: the challenge replaces the one before in the    *)
(* browser's only challenge cookie; the wallet signs; the route mints a    *)
(* session for the address of the challenge.                               *)
Challenged(i) ==
  /\ Running(i, "challenge") /\ tokens < MaxTokens
  /\ tokens' = tokens + 1 /\ challenge' = tokens'
  /\ task' = [task EXCEPT ![i].at = "sign", ![i].token = tokens']
  /\ UNCHANGED <<time, account, session, expiry, cookie, left>>

Signed(i) ==
  /\ Running(i, "sign") /\ challenge = task[i].token
  /\ Goes(i, "verify")
  /\ UNCHANGED <<time, account, session, expiry, cookie, challenge, tokens, left>>

Verified(i) ==
  /\ Running(i, "verify")
  /\ LET s == [address |-> task[i].address, expiresAt |-> time + SessionTtl] IN
       cookie' = s /\ SetSession(s)
  /\ challenge' = Nobody
  /\ Ends(i)
  /\ UNCHANGED <<time, account, tokens, left>>

(* The wallet refuses, or a call fails. *)
TaskFails(i) ==
  /\ \E at \in {"connect", "challenge", "sign", "verify"} : Running(i, at)
  /\ Ends(i)
  /\ UNCHANGED <<time, account, session, expiry, cookie, challenge, tokens, left>>

(* The logout that a change of account sends without waiting for it. *)
LoggedOut(i) ==
  /\ Running(i, "bye") /\ task[i].kind = "logout"
  /\ cookie' \in LogoutLeaves
  /\ Ends(i)
  /\ UNCHANGED <<time, account, session, expiry, challenge, tokens, left>>

(* disconnect: the wallet first, then the logout, then the page's state.   *)
WalletLeft(i) ==
  /\ Running(i, "leave") /\ Goes(i, "bye")
  /\ UNCHANGED <<time, account, session, expiry, cookie, challenge, tokens, left>>

Disconnected(i) ==
  /\ Running(i, "bye") /\ task[i].kind = "disconnect"
  /\ Free(Background) # {}
  /\ cookie' \in LogoutLeaves
  /\ account' = Nobody /\ SetSession(Nobody)
  /\ task' = LET ended == [task EXCEPT ![i] = Nobody] IN
               IF account = Nobody THEN ended
               ELSE Started(ended, [Refresh(Nobody) EXCEPT !.seen = IF cookie' = Nobody THEN Nobody ELSE ReadSession])
  /\ left' = TRUE
  /\ UNCHANGED <<time, challenge, tokens>>

-----------------------------------------------------------------------------
(* What starts a task. *)

UserStarts ==
  /\ Free(Prompts) # {}
  /\ \/ task' = Started(task, Begin("enter", "connect"))
     \/ account # Nobody /\ task' = Started(task, Begin("verify", "challenge"))
     \/ account # Nobody /\ task' = Started(task, Begin("disconnect", "leave"))
  /\ UNCHANGED <<time, account, session, expiry, cookie, challenge, tokens, left>>

(* visibilitychange and online. *)
PageShown ==
  /\ Free(Background) # {}
  /\ task' = Started(task, Refresh(account))
  /\ UNCHANGED <<time, account, session, expiry, cookie, challenge, tokens, left>>

(* The wallet's change event: another account, or none. *)
WalletChanges ==
  /\ account # Nobody /\ Cardinality(Free(Background)) >= 2
  /\ \E a \in (Addresses \cup {Nobody}) \ {account} :
       /\ account' = a
       /\ task' = Started(Started(task, Logout), Refresh(a))
  /\ SetSession(Nobody)
  /\ UNCHANGED <<time, cookie, challenge, tokens, left>>

SessionExpires ==
  /\ expiry /\ session # Nobody /\ time >= session.expiresAt
  /\ Free(Background) # {}
  /\ task' = Started(task, Refresh(account)) /\ expiry' = FALSE
  /\ UNCHANGED <<time, account, session, cookie, challenge, tokens, left>>

WalletTick ==
  /\ time < MaxClock /\ time' = time + 1
  /\ UNCHANGED <<account, session, expiry, cookie, challenge, tokens, task, left>>

(* Answers, and failures, of the network; the wallet's are the user's. *)
NetworkAnswers(i) ==
  \/ RefreshAnswered(i) \/ RefreshFails(i) \/ RefreshLogsOut(i) \/ CurrentRead(i)
  \/ Verified(i) \/ LoggedOut(i) \/ Disconnected(i)
Prompted(i) == Connected(i) \/ Challenged(i) \/ Signed(i) \/ WalletLeft(i) \/ TaskFails(i)

WalletNext ==
  \/ \E i \in 1..MaxTasks : NetworkAnswers(i) \/ Prompted(i)
  \/ UserStarts \/ PageShown \/ WalletChanges \/ SessionExpires \/ WalletTick

(* Every request is answered or fails, and a timer that is due fires.      *)
(* That it has to wait for a free task is the bound's doing, not the       *)
(* code's, so it is strongly fair.  Of the user nothing is assumed.        *)
WalletSpec == WalletInit /\ [][WalletNext]_walletVars
WalletFairSpec ==
  /\ WalletSpec
  /\ \A i \in 1..MaxTasks : WF_walletVars(NetworkAnswers(i))
  /\ SF_walletVars(SessionExpires)

-----------------------------------------------------------------------------
(* "Do not let the client keep presenting an expired HTTP-only wallet      *)
(* session as authenticated" (l.147): however late the answers come, and   *)
(* though a refresh may fail, the page gives an expired session up.        *)
ExpiredIsDropped ==
  (session # Nobody /\ time >= session.expiresAt)
    ~> (session = Nobody \/ time < session.expiresAt)

(* "Disconnect and account/network changes clear the server session"       *)
(* (docs/RC15-WALLET-SESSIONS-FEES-AND-MARKET-DATA.md:15): once the user   *)
(* has disconnected, and nothing is under way, the browser holds none.     *)
DisconnectClears ==
  left /\ account = Nobody /\ (\A i \in 1..MaxTasks : task[i] = Nobody) => ReadSession = Nobody
=============================================================================
