---------------------------- MODULE RealtimeSocket ----------------------------
(***************************************************************************)
(* RealtimeSocket (src/services/realtime/websocket.ts) as the hook         *)
(* useWebSocket (src/hooks/use-websocket.ts) drives it: one object that    *)
(* makes a WebSocket, takes its events, and makes another one after a      *)
(* delay when it closes.  Event handlers act on the object whichever       *)
(* WebSocket they belong to.                                               *)
(*                                                                         *)
(* The browser's WebSocket is external: close() and a lost connection make *)
(* it "closing", after which it receives nothing more, and its close event *)
(* comes later.                                                            *)
(***************************************************************************)
EXTENDS Integers, FiniteSets, Sequences

CONSTANTS
  Sockets,   \* the WebSockets that may be made, a bound
  Topics,    \* RealtimeTopic
  MaxSeq,    \* bound on sequence numbers
  NoSocket

ASSUME RealtimeAssumption ==
  /\ MaxSeq \in Nat
  /\ NoSocket \notin Sockets
  /\ IsFiniteSet(Sockets)

VARIABLES
  strict,          \* development build: StrictMode mounts every effect twice
  hook,            \* "new", "mounted" or "unmounted"
  socket,          \* this.socket
  ws,              \* readyState of each WebSocket
  manuallyClosed,
  retrying,        \* this.attempts > 0
  timer,           \* the timer in this.reconnectTimer is pending
  lostTimers,      \* pending timers that are no longer in this.reconnectTimer
  heartbeat,       \* the heartbeat interval runs
  last,            \* lastSequenceByTopic
  state,           \* info.state
  heard            \* history: the numbers delivered to the listener, by topic

conn == <<socket, ws, manuallyClosed, retrying, timer, lostTimers, heartbeat,
          state>>
socketVars == <<strict, hook, conn, last, heard>>

Live    == {w \in Sockets : ws[w] \in {"connecting", "open"}}
Pending == timer \/ lostTimers > 0

SocketTypeOK ==
  /\ strict \in BOOLEAN
  /\ hook \in {"new", "mounted", "unmounted"}
  /\ socket \in Sockets \cup {NoSocket}
  /\ ws \in [Sockets -> {"none", "connecting", "open", "closing", "closed"}]
  /\ {manuallyClosed, retrying, timer, heartbeat} \subseteq BOOLEAN
  /\ lostTimers \in Nat
  /\ last \in [Topics -> 0..MaxSeq]
  /\ state \in {"idle", "connecting", "open", "reconnecting", "closed"}
  /\ heard \in [Topics -> Seq(1..MaxSeq)]

SocketInit ==
  /\ strict \in BOOLEAN
  /\ hook = "new"
  /\ socket = NoSocket
  /\ ws = [w \in Sockets |-> "none"]
  /\ manuallyClosed = FALSE /\ retrying = FALSE
  /\ timer = FALSE /\ lostTimers = 0
  /\ heartbeat = FALSE
  /\ last = [t \in Topics |-> 0]
  /\ state = "idle"
  /\ heard = [t \in Topics |-> <<>>]

----------------------------------------------------------------------------
(* The methods of the object. *)

\* Mutant: the error that comes before the close event schedules one, too.
ScheduleTwice(t, lost) ==
  /\ retrying' = TRUE
  /\ state' = "reconnecting"
  /\ timer' = TRUE
  /\ lostTimers' = IF t THEN lost + 2 ELSE lost + 1

\* scheduleReconnect, called while t says whether the timer it knows is pending
\* and `lost` are pending that it does not: it never clears one.
ScheduleReconnect(t, lost) ==
  /\ retrying' = TRUE
  /\ state' = "reconnecting"
  /\ timer' = TRUE
  /\ lostTimers' = IF t THEN lost + 1 ELSE lost

Connected == socket \in Live

\* A WebSocket is made, as w, and takes the place of whatever `socket` is.
Opened(w) ==
  /\ ws[w] = "none"
  /\ ws' = [ws EXCEPT ![w] = "connecting"]
  /\ socket' = w
  /\ state' = IF retrying THEN "reconnecting" ELSE "connecting"
  /\ UNCHANGED retrying

\* connect(), while the timers are t and lost.  The constructor may throw.
Connect(t, lost) ==
  \/ /\ Connected
     /\ timer' = t /\ lostTimers' = lost
     /\ UNCHANGED <<socket, ws, manuallyClosed, retrying, state>>
  \/ /\ ~Connected
     /\ manuallyClosed' = FALSE
     /\ \/ /\ \E w \in Sockets : Opened(w)
           /\ timer' = t /\ lostTimers' = lost
        \/ /\ ScheduleReconnect(t, lost)
           /\ UNCHANGED <<socket, ws>>

StopHeartbeat == heartbeat' = FALSE

\* Mutant: a WebSocket that is still connecting is left alone.
OpenSocket == {w \in Sockets : w = socket /\ ws[w] = "open"}

\* What close() closes.
CurrentSocket == {w \in Live : w = socket}

\* close(): it clears the timer it knows.
Close ==
  /\ manuallyClosed' = TRUE
  /\ timer' = FALSE
  /\ StopHeartbeat
  /\ ws' = [w \in Sockets |-> IF w \in CurrentSocket THEN "closing" ELSE ws[w]]
  /\ socket' = NoSocket
  /\ last' = [t \in Topics |-> 0]
  /\ state' = "closed"
  /\ UNCHANGED <<retrying, lostTimers>>

----------------------------------------------------------------------------
(* The hook. *)

Mount ==
  /\ hook = "new" /\ ~strict
  /\ hook' = "mounted"
  /\ Connect(FALSE, 0)
  /\ UNCHANGED <<strict, heartbeat, last, heard>>

\* StrictMode: connect(), close() and connect() again, in one go; the timer of
\* a constructor that throws is cleared in between.
MountTwice ==
  /\ hook = "new" /\ strict
  /\ hook' = "mounted"
  /\ \/ /\ \E v, w \in Sockets :
             /\ v # w
             /\ ws' = [ws EXCEPT ![v] = "closing", ![w] = "connecting"]
             /\ socket' = w
        /\ state' = "connecting"
        /\ UNCHANGED <<retrying, timer, lostTimers>>
     \/ /\ ScheduleReconnect(FALSE, 0)
        /\ UNCHANGED <<socket, ws>>
  /\ UNCHANGED <<strict, manuallyClosed, heartbeat, last, heard>>

\* The listener goes, and the object is closed.
Unmount ==
  /\ hook = "mounted"
  /\ hook' = "unmounted"
  /\ Close
  /\ UNCHANGED <<strict, heard>>

----------------------------------------------------------------------------
(* Timers and events. *)

TimerFires ==
  /\ \/ timer /\ Connect(FALSE, lostTimers)
     \/ lostTimers > 0 /\ Connect(timer, lostTimers - 1)
  /\ UNCHANGED <<strict, hook, heartbeat, last, heard>>

OnOpen(w) ==
  /\ ws[w] = "connecting"
  /\ ws' = [ws EXCEPT ![w] = "open"]
  /\ retrying' = FALSE
  /\ state' = "open"
  /\ heartbeat' = TRUE
  /\ UNCHANGED <<strict, hook, socket, manuallyClosed, timer, lostTimers, last, heard>>

\* The connection fails or is lost.
Lose(w) ==
  /\ w \in Live
  /\ ws' = [ws EXCEPT ![w] = "closing"]
  /\ UNCHANGED <<strict, hook, socket, manuallyClosed, retrying, timer, lostTimers,
                 heartbeat, state, last, heard>>

OnClose(w) ==
  /\ ws[w] = "closing"
  /\ ws' = [ws EXCEPT ![w] = "closed"]
  /\ StopHeartbeat
  /\ socket' = NoSocket
  /\ \/ /\ manuallyClosed
        /\ state' = "closed"
        /\ UNCHANGED <<retrying, timer, lostTimers>>
     \/ /\ ~manuallyClosed
        /\ ScheduleReconnect(timer, lostTimers)
  /\ UNCHANGED <<strict, hook, manuallyClosed, last, heard>>

\* Mutant: only a repetition of the last number is dropped.
NotLast(t, n) == n # last[t]

\* Duplicate and out-of-order numbers are dropped.
New(t, n) == n > last[t]

\* A frame with a topic and a sequence number.
OnMessage(w, t, n) ==
  /\ ws[w] = "open"
  /\ New(t, n)
  /\ last' = [last EXCEPT ![t] = n]
  /\ heard' = IF hook = "mounted" THEN [heard EXCEPT ![t] = Append(@, n)] ELSE heard
  /\ UNCHANGED <<strict, hook, conn>>

SocketNext ==
  \/ Mount \/ MountTwice \/ Unmount
  \/ TimerFires
  \/ \E w \in Sockets :
       \/ OnOpen(w) \/ Lose(w) \/ OnClose(w)
       \/ \E t \in Topics, n \in 1..MaxSeq : OnMessage(w, t, n)

SocketSpec == SocketInit /\ [][SocketNext]_socketVars

----------------------------------------------------------------------------
(* Properties *)

\* One thing leads to a connection at a time: a WebSocket that has not reported
\* its end, or a timer, whatever fails.  StrictMode's second mount adds another
\* for good, since the close event of a WebSocket already replaced makes the
\* object lose the one it has; but the leak never grows.
OneAtATime ==
  Cardinality({w \in Sockets : ws[w] \in {"connecting", "open", "closing"}})
    + lostTimers + (IF timer THEN 1 ELSE 0)
      <= IF strict THEN 2 ELSE 1

\* "Explicit teardown" (services/realtime/README.md:3): after close() nothing
\* is connected and no timer will connect again.
TornDown ==
  hook = "unmounted" /\ ~strict => Live = {} /\ ~Pending

\* RC15-CLIENT-RESILIENCE.md:21, "Duplicate or out-of-order sequenced events
\* are dropped": a listener hears the numbers of a topic in increasing order,
\* across reconnections, and from two sockets at once.
InOrder ==
  \A t \in Topics : \A i, j \in DOMAIN heard[t] : i < j => heard[t][i] < heard[t][j]
===============================================================================
