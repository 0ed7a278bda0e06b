----------------------------- MODULE PageProofs -----------------------------
(***************************************************************************)
(* What a page of the browser guarantees for every number of sockets, runs *)
(* of confirmSwap, calls, accounts and events: its socket, the swap it     *)
(* shows, the balances, what it says of the network, the lists of an       *)
(* account, and the amount that is typed, for texts of any length.  One    *)
(* section for each component.                                             *)
(***************************************************************************)
EXTENDS MCClient, CacheProofs, FiniteSetTheorems, WellFoundedInduction, TLAPS

----------------------------------------------------------------------------
(* The socket.                                                             *)
(*                                                                         *)
(* What leads to a connection is counted: a step uses one such thing up    *)
(* for each that it makes, mounting aside, so that the count of a page     *)
(* never grows once it is mounted.                                         *)

Leading == {w \in Sockets : ws[w] \in {"connecting", "open", "closing"}}
Timers == lostTimers + (IF timer THEN 1 ELSE 0)

SocketInv ==
  /\ SocketTypeOK
  /\ OneAtATime
  /\ hook = "new" => Leading = {} /\ Timers = 0 /\ socket = NoSocket
  /\ ~strict => lostTimers = 0 /\ \A w \in Live : w = socket
  /\ ~strict /\ hook = "unmounted" => manuallyClosed /\ Live = {} /\ Timers = 0

HeardInv ==
  /\ InOrder
  /\ hook # "unmounted" =>
       \A t \in Topics : \A i \in DOMAIN heard[t] : heard[t][i] <= last[t]

LEMMA OneMore ==
  ASSUME NEW n \in Nat, NEW b
  PROVE  n + (IF b THEN 1 ELSE 0) \in Nat
OBVIOUS

LEMMA SocketFlags ==
  ASSUME SocketTypeOK
  PROVE  /\ manuallyClosed \in BOOLEAN /\ retrying \in BOOLEAN
         /\ timer \in BOOLEAN /\ heartbeat \in BOOLEAN
         /\ lostTimers \in Nat /\ Timers \in Nat
<1>1. lostTimers \in Nat /\ Timers \in Nat
  BY OneMore DEF SocketTypeOK, Timers
<1>2. QED
  BY <1>1 DEF SocketTypeOK

LEMMA NoTimers ==
  ASSUME SocketTypeOK, Timers = 0
  PROVE  lostTimers = 0 /\ ~timer
BY SocketFlags DEF Timers

LEMMA ActiveCount ==
  ASSUME SocketTypeOK
  PROVE  IsFiniteSet(Leading) /\ Cardinality(Leading) \in Nat
BY RealtimeAssumption, FS_Subset, FS_CardinalityType DEF Leading

LEMMA ActiveCountNext ==
  ASSUME SocketTypeOK'
  PROVE  Cardinality(Leading') \in Nat /\ Timers' \in Nat
<1>1. Cardinality(Leading') \in Nat
  BY RealtimeAssumption, FS_Subset, FS_CardinalityType DEF Leading
<1>2. Timers' \in Nat
  <2>1. lostTimers' \in Nat
    BY DEF SocketTypeOK
  <2>2. QED
    BY <2>1, OneMore DEF Timers
<1>3. QED
  BY <1>1, <1>2

\* What one call of connect() makes: nothing, a WebSocket, or a timer.
LEMMA ConnectOnce ==
  ASSUME SocketTypeOK, NEW t \in BOOLEAN, NEW lost \in Nat, Connect(t, lost)
  PROVE  /\ socket' \in Sockets \cup {NoSocket}
         /\ ws' \in [Sockets -> {"none", "connecting", "open", "closing", "closed"}]
         /\ manuallyClosed' \in BOOLEAN /\ retrying' \in BOOLEAN /\ timer' \in BOOLEAN
         /\ lostTimers' \in Nat
         /\ state' \in {"idle", "connecting", "open", "reconnecting", "closed"}
         /\ Cardinality(Leading') + Timers'
              <= Cardinality(Leading) + lost + (IF t THEN 1 ELSE 0) + 1
         /\ Connected => Cardinality(Leading') + Timers'
              = Cardinality(Leading) + lost + (IF t THEN 1 ELSE 0)
         /\ ~t => lostTimers' = lost
         /\ Live' \subseteq Live \cup {socket'}
         /\ Live = {} \/ socket' = socket \/ socket \notin Live
<1> USE DEF Timers
<1>0. IsFiniteSet(Leading) /\ Cardinality(Leading) \in Nat
  BY ActiveCount
<1> DEFINE n == IF t THEN 1 ELSE 0
<1>5. n \in {0, 1} /\ manuallyClosed \in BOOLEAN /\ retrying \in BOOLEAN
  BY DEF SocketTypeOK
<1>1. CASE /\ Connected
           /\ timer' = t /\ lostTimers' = lost
           /\ UNCHANGED <<socket, ws, manuallyClosed, retrying, state>>
  <2>1. Leading' = Leading /\ Live' = Live
    BY <1>1 DEF Leading, Live
  <2>2. QED
    BY <1>0, <1>1, <2>1 DEF SocketTypeOK, Connected
<1>2. ASSUME NEW w \in Sockets, Opened(w), ~Connected, manuallyClosed' = FALSE,
             timer' = t, lostTimers' = lost
      PROVE  /\ socket' \in Sockets \cup {NoSocket}
             /\ ws' \in [Sockets -> {"none", "connecting", "open", "closing", "closed"}]
             /\ manuallyClosed' \in BOOLEAN /\ retrying' \in BOOLEAN /\ timer' \in BOOLEAN
             /\ state' \in {"idle", "connecting", "open", "reconnecting", "closed"}
             /\ Cardinality(Leading') = Cardinality(Leading) + 1
             /\ Live' \subseteq Live \cup {socket'}
  <2>1. /\ ws[w] = "none" /\ ws' = [ws EXCEPT ![w] = "connecting"]
        /\ socket' = w /\ UNCHANGED retrying
        /\ state' \in {"reconnecting", "connecting"}
    BY <1>2 DEF Opened
  <2>2. w \notin Leading /\ Leading' = Leading \cup {w}
    BY <2>1 DEF Leading, SocketTypeOK
  <2>3. Cardinality(Leading') = Cardinality(Leading) + 1
    BY <1>0, <2>2, FS_AddElement
  <2>4. Live' \subseteq Live \cup {w}
    BY <2>1 DEF Live, SocketTypeOK
  <2>5. retrying' \in BOOLEAN /\ manuallyClosed' \in BOOLEAN /\ timer' \in BOOLEAN
    BY <1>2, <1>5, <2>1
  <2>6. ws' \in [Sockets -> {"none", "connecting", "open", "closing", "closed"}]
    BY <2>1 DEF SocketTypeOK
  <2>7. QED
    BY <2>1, <2>3, <2>4, <2>5, <2>6
<1>3. CASE /\ ~Connected
           /\ manuallyClosed' = FALSE
           /\ ScheduleReconnect(t, lost)
           /\ UNCHANGED <<socket, ws>>
  <2>1. Leading' = Leading /\ Live' = Live
    BY <1>3 DEF Leading, Live
  <2>2. retrying' = TRUE /\ timer' = TRUE /\ manuallyClosed' = FALSE
    BY <1>3 DEF ScheduleReconnect
  <2>3. /\ state' = "reconnecting" /\ UNCHANGED <<socket, ws>>
        /\ lostTimers' = IF t THEN lost + 1 ELSE lost
    BY <1>3 DEF ScheduleReconnect
  <2>4. lostTimers' = lost + n
    BY <2>3
  <2>5. Timers' = lost + n + 1
    BY <1>5, <2>2, <2>4
  <2>6. Cardinality(Leading') + Timers' = Cardinality(Leading) + lost + n + 1
    BY <1>0, <1>5, <2>1, <2>5
  <2>7. lostTimers' \in Nat /\ (~t => lostTimers' = lost)
    BY <1>5, <2>4
  <2>8. /\ socket' \in Sockets \cup {NoSocket}
        /\ ws' \in [Sockets -> {"none", "connecting", "open", "closing", "closed"}]
        /\ ~Connected
        /\ Live = {} \/ socket' = socket \/ socket \notin Live
        /\ Live' \subseteq Live \cup {socket'}
    BY <1>3, <2>1, <2>3 DEF SocketTypeOK
  <2>9. retrying' \in BOOLEAN /\ timer' \in BOOLEAN /\ manuallyClosed' \in BOOLEAN
    BY <2>2
  <2>10. /\ Cardinality(Leading') + Timers'
              <= Cardinality(Leading) + lost + (IF t THEN 1 ELSE 0) + 1
         /\ state' \in {"idle", "connecting", "open", "reconnecting", "closed"}
    BY <1>0, <1>5, <2>3, <2>6
  <2>11. QED
    BY <2>7, <2>8, <2>9, <2>10
<1>4. CASE /\ ~Connected /\ manuallyClosed' = FALSE
           /\ \E w \in Sockets : Opened(w)
           /\ timer' = t /\ lostTimers' = lost
  <2>1. /\ socket' \in Sockets \cup {NoSocket}
        /\ ws' \in [Sockets -> {"none", "connecting", "open", "closing", "closed"}]
        /\ manuallyClosed' \in BOOLEAN /\ retrying' \in BOOLEAN /\ timer' \in BOOLEAN
        /\ state' \in {"idle", "connecting", "open", "reconnecting", "closed"}
        /\ Cardinality(Leading') = Cardinality(Leading) + 1
        /\ Live' \subseteq Live \cup {socket'}
    BY <1>2, <1>4
  <2>2. Timers' = lost + n
    BY <1>4
  <2>3. Cardinality(Leading') + Timers' = Cardinality(Leading) + lost + n + 1
    BY <1>0, <1>5, <2>1, <2>2
  <2>4. QED
    BY <1>0, <1>4, <1>5, <2>1, <2>3 DEF Connected
<1>6. QED
  BY <1>1, <1>3, <1>4 DEF Connect

Most == IF strict THEN 2 ELSE 1

LEMMA Counted ==
  ASSUME SocketTypeOK
  PROVE  OneAtATime <=> Cardinality(Leading) + Timers <= Most
<1>1. Cardinality(Leading) \in Nat
  BY ActiveCount
<1>2. QED
  BY <1>1 DEF OneAtATime, Leading, Timers, Most, SocketTypeOK

\* A step keeps the count when each thing it makes takes another one's place.
LEMMA CountKept ==
  ASSUME SocketInv, SocketTypeOK', UNCHANGED strict,
         Cardinality(Leading') + Timers' <= Cardinality(Leading) + Timers
  PROVE  OneAtATime'
<1>1. /\ Cardinality(Leading) \in Nat /\ Cardinality(Leading') \in Nat
      /\ Timers \in Nat /\ Timers' \in Nat /\ Most \in Nat
      /\ Most' = Most
  <2>1. Cardinality(Leading) \in Nat
    BY ActiveCount DEF SocketInv
  <2>2. Timers \in Nat
    BY DEF Timers, SocketInv, SocketTypeOK
  <2>3. QED
    BY <2>1, <2>2, ActiveCountNext DEF Most
<1>2. Cardinality(Leading) + Timers <= Most
  BY Counted DEF SocketInv
<1>3. Cardinality(Leading') + Timers' <= Most'
  BY <1>1, <1>2
<1>4. QED
  BY <1>1, <1>3 DEF OneAtATime, Leading, Timers, Most, SocketTypeOK

\* connect() called with one timer less than there is, or by the first mount.
LEMMA ConnectKeeps ==
  ASSUME SocketInv, NEW t \in BOOLEAN, NEW lost \in Nat, Connect(t, lost),
         UNCHANGED <<strict, heartbeat, last, heard>>,
         hook' \in {"mounted", hook}, hook' # "new",
         \/ lost + (IF t THEN 1 ELSE 0) + 1 = Timers
         \/ hook = "new" /\ ~t /\ lost = 0 /\ hook' = "mounted"
  PROVE  SocketInv'
<1> DEFINE n == IF t THEN 1 ELSE 0
<1>1. SocketTypeOK'
  BY ConnectOnce DEF SocketInv, SocketTypeOK
<1>2. OneAtATime'
  <2>1. CASE lost + n + 1 = Timers
    <3>1. Cardinality(Leading) \in Nat
      BY ActiveCount DEF SocketInv
    <3>2. Cardinality(Leading') + Timers' <= Cardinality(Leading) + lost + n + 1
      BY ConnectOnce DEF SocketInv
    <3>3. Cardinality(Leading') + Timers' <= Cardinality(Leading) + Timers
      BY <2>1, <3>1, <3>2
    <3>4. QED
      BY <1>1, <3>3, CountKept
  <2>2. CASE hook = "new" /\ ~t /\ lost = 0
    <3>1. Leading = {} /\ Cardinality(Leading) = 0
      BY <2>2, FS_EmptySet DEF SocketInv
    <3>2. Cardinality(Leading') + Timers' <= 1
      BY <2>2, <3>1, ConnectOnce DEF SocketInv
    <3>3. Cardinality(Leading') \in Nat /\ Timers' \in Nat
      BY <1>1, ActiveCountNext
    <3>4. QED
      BY <1>1, <3>2, <3>3 DEF OneAtATime, Leading, Timers, SocketTypeOK
  <2>3. QED
    BY <2>1, <2>2
<1>3. ASSUME ~strict'
      PROVE  lostTimers' = 0 /\ \A w \in Live' : w = socket'
  <2>1. lost = 0 /\ ~t
    BY <1>3 DEF SocketInv, SocketTypeOK, Timers
  <2>2. Live' \subseteq {socket'}
    BY <1>3, ConnectOnce DEF SocketInv
  <2>3. QED
    BY <2>1, <2>2, ConnectOnce DEF SocketInv
<1>4. ~(~strict' /\ hook' = "unmounted")
  <2>1. SUFFICES ASSUME ~strict, hook' = "unmounted" PROVE FALSE
    OBVIOUS
  <2>2. hook = "unmounted" /\ Timers = 0
    BY <2>1 DEF SocketInv
  <2>3. QED
    BY <2>2
<1>5. QED
  BY <1>1, <1>2, <1>3, <1>4 DEF SocketInv

\* A WebSocket that ends is one thing less; what follows makes at most one.
LEMMA CloseKeeps ==
  ASSUME SocketInv, NEW w \in Sockets, OnClose(w)
  PROVE  SocketInv'
<1>1. /\ ws[w] = "closing" /\ ws' = [ws EXCEPT ![w] = "closed"]
      /\ socket' = NoSocket
      /\ UNCHANGED <<strict, hook, manuallyClosed, last, heard>>
      /\ heartbeat' = FALSE
  BY DEF OnClose, StopHeartbeat
<1>2. \/ manuallyClosed /\ state' = "closed" /\ UNCHANGED <<retrying, timer, lostTimers>>
      \/ /\ ~manuallyClosed /\ retrying' = TRUE /\ state' = "reconnecting"
         /\ timer' = TRUE
         /\ lostTimers' = IF timer THEN lostTimers + 1 ELSE lostTimers
  BY DEF OnClose, ScheduleReconnect
<1>3. SocketTypeOK'
  <2>1. /\ retrying' \in BOOLEAN /\ timer' \in BOOLEAN /\ lostTimers' \in Nat
        /\ state' \in {"idle", "connecting", "open", "reconnecting", "closed"}
    <3>1. /\ retrying \in BOOLEAN /\ timer \in BOOLEAN /\ lostTimers \in Nat
      BY SocketFlags DEF SocketInv
    <3>2. retrying' \in BOOLEAN /\ timer' \in BOOLEAN
      BY <1>2, <3>1, Zenon
    <3>3. lostTimers' \in Nat
      BY <1>2, <3>1
    <3>4. QED
      BY <1>2, <3>2, <3>3
  <2>2. ws' \in [Sockets -> {"none", "connecting", "open", "closing", "closed"}]
    BY <1>1 DEF SocketInv, SocketTypeOK
  <2>3. manuallyClosed' \in BOOLEAN /\ heartbeat' \in BOOLEAN
    BY <1>1 DEF SocketInv, SocketTypeOK
  <2>4. QED
    BY <1>1, <2>1, <2>2, <2>3 DEF SocketInv, SocketTypeOK
<1>4. /\ w \in Leading /\ Leading' = Leading \ {w} /\ Live' = Live
      /\ \A v \in Live : v \in Leading \ {w}
  BY <1>1 DEF Leading, Live, SocketInv, SocketTypeOK
<1>5. /\ Cardinality(Leading) \in Nat /\ IsFiniteSet(Leading)
      /\ Cardinality(Leading') = Cardinality(Leading) - 1
      /\ Cardinality(Leading') \in Nat
  BY <1>3, <1>4, ActiveCount, ActiveCountNext, FS_RemoveElement DEF SocketInv
<1>6. Timers \in Nat /\ (Timers' = Timers \/ Timers' = Timers + 1)
  BY <1>2 DEF Timers, SocketInv, SocketTypeOK
<1>7. OneAtATime'
  BY <1>1, <1>3, <1>5, <1>6, CountKept
<1>8. Cardinality(Leading) + Timers <= Most
  BY Counted DEF SocketInv
<1>9. ASSUME ~strict
      PROVE  lostTimers' = 0 /\ Live' = {}
  <2>1. Cardinality(Leading') = 0 /\ Timers = 0
    BY <1>5, <1>6, <1>8, <1>9 DEF Most
  <2>2. lostTimers = 0 /\ ~timer
    BY <2>1, <1>9 DEF Timers, SocketInv, SocketTypeOK
  <2>3. IsFiniteSet(Leading')
    BY <1>4, <1>5, FS_RemoveElement
  <2>4. Leading' = {}
    BY <2>1, <2>3, FS_EmptySet
  <2>5. QED
    BY <1>2, <1>4, <2>2, <2>4
<1>10. ASSUME ~strict, hook = "unmounted"
       PROVE  manuallyClosed' /\ Live' = {} /\ Timers' = 0
  BY <1>1, <1>2, <1>4, <1>10 DEF SocketInv, Timers
<1>11. QED
  BY <1>1, <1>3, <1>4, <1>7, <1>9, <1>10 DEF SocketInv

LEMMA MountKeeps ==
  ASSUME SocketInv, Mount \/ MountTwice
  PROVE  SocketInv'
<1>1. CASE Mount
  BY <1>1, ConnectKeeps DEF Mount
<1>2. CASE MountTwice
  <2> USE DEF MountTwice
  <2>1. /\ Leading = {} /\ lostTimers = 0 /\ ~timer /\ strict /\ strict' /\ hook' = "mounted"
        /\ UNCHANGED <<strict, manuallyClosed, heartbeat, last, heard>>
    BY <1>2 DEF SocketInv, Timers, SocketTypeOK
  <2>2. CASE /\ \E v, w \in Sockets :
                  /\ v # w
                  /\ ws' = [ws EXCEPT ![v] = "closing", ![w] = "connecting"]
                  /\ socket' = w
             /\ state' = "connecting"
             /\ UNCHANGED <<retrying, timer, lostTimers>>
    <3>1. PICK v, w \in Sockets :
            /\ v # w
            /\ ws' = [ws EXCEPT ![v] = "closing", ![w] = "connecting"]
            /\ socket' = w
      BY <2>2
    <3>2. SocketTypeOK'
      BY <2>1, <2>2, <3>1 DEF SocketInv, SocketTypeOK
    <3>3. Leading' = {v} \cup {w}
      BY <2>1, <3>1 DEF Leading, SocketInv, SocketTypeOK
    <3>4. Cardinality(Leading') = 2
      <4>1. IsFiniteSet({v}) /\ Cardinality({v}) = 1
        BY FS_Singleton
      <4>2. QED
        BY <3>1, <3>3, <4>1, FS_AddElement, 1 + 1 = 2
    <3>5. OneAtATime'
      BY <2>1, <2>2, <3>4 DEF OneAtATime, Leading
    <3>6. QED
      BY <2>1, <3>2, <3>5 DEF SocketInv
  <2>3. CASE ScheduleReconnect(FALSE, 0) /\ UNCHANGED <<socket, ws>>
    <3>1. /\ retrying' = TRUE /\ state' = "reconnecting" /\ timer' = TRUE
          /\ lostTimers' = 0
      BY <2>3 DEF ScheduleReconnect
    <3>2. SocketTypeOK'
      BY <2>1, <2>3, <3>1 DEF SocketInv, SocketTypeOK
    <3>3. Leading' = {} /\ Cardinality(Leading') = 0
      BY <2>1, <2>3, FS_EmptySet DEF Leading
    <3>4. OneAtATime'
      BY <2>1, <3>1, <3>3 DEF OneAtATime, Leading
    <3>5. QED
      BY <2>1, <3>2, <3>4 DEF SocketInv
  <2>4. QED
    BY <1>2, <2>2, <2>3
<1>3. QED
  BY <1>1, <1>2

LEMMA UnmountKeeps ==
  ASSUME SocketInv, Unmount
  PROVE  SocketInv'
<1>1. /\ hook' = "unmounted" /\ manuallyClosed' = TRUE /\ timer' = FALSE
      /\ heartbeat' = FALSE /\ socket' = NoSocket /\ state' = "closed"
      /\ ws' = [w \in Sockets |-> IF w \in CurrentSocket THEN "closing" ELSE ws[w]]
      /\ last' = [t \in Topics |-> 0]
      /\ UNCHANGED <<strict, heard, retrying, lostTimers>>
  BY DEF Unmount, Close, StopHeartbeat
<1>2. SocketTypeOK'
  <2>1. /\ manuallyClosed' \in BOOLEAN /\ retrying' \in BOOLEAN /\ timer' \in BOOLEAN
        /\ heartbeat' \in BOOLEAN /\ lostTimers' \in Nat
    BY <1>1, SocketFlags DEF SocketInv
  <2>2. ws' \in [Sockets -> {"none", "connecting", "open", "closing", "closed"}]
    BY <1>1 DEF SocketInv, SocketTypeOK
  <2>3. last' \in [Topics -> 0..MaxSeq]
    BY <1>1, RealtimeAssumption
  <2>4. QED
    BY <1>1, <2>1, <2>2, <2>3 DEF SocketInv, SocketTypeOK
<1>3. Leading' = Leading /\ Live' = {w \in Live : w # socket}
  BY <1>1 DEF Leading, Live, CurrentSocket, SocketInv, SocketTypeOK
<1>4. Timers' <= Timers /\ Timers' = lostTimers
  BY <1>1 DEF Timers, SocketInv, SocketTypeOK
<1>5. OneAtATime'
  <2>1. /\ Timers \in Nat /\ Timers' \in Nat /\ Cardinality(Leading) \in Nat
    BY <1>2, ActiveCount, ActiveCountNext, SocketFlags DEF SocketInv
  <2>2. Cardinality(Leading') + Timers' <= Cardinality(Leading) + Timers
    BY <1>3, <1>4, <2>1
  <2>3. QED
    BY <1>1, <1>2, <2>2, CountKept
<1>6. ~strict => lostTimers' = 0 /\ Timers' = 0 /\ Live' = {}
  BY <1>1, <1>3, <1>4 DEF SocketInv
<1>7. QED
  BY <1>1, <1>2, <1>5, <1>6 DEF SocketInv

LEMMA SocketStep == SocketInv /\ [SocketNext]_socketVars => SocketInv'
<1> SUFFICES ASSUME SocketInv, [SocketNext]_socketVars
             PROVE  SocketInv'
  OBVIOUS
<1>1. CASE TimerFires
  <2>1. timer \in BOOLEAN /\ lostTimers \in Nat
    BY SocketFlags DEF SocketInv
  <2>5. hook # "new" /\ hook' = hook
    <3>1. (timer \/ lostTimers > 0) /\ hook' = hook
      BY <1>1, Zenon DEF TimerFires
    <3>2. hook = "new" => lostTimers = 0 /\ ~timer
      BY NoTimers DEF SocketInv
    <3>3. QED
      BY <2>1, <3>1, <3>2
  <2>2. CASE timer /\ Connect(FALSE, lostTimers)
    <3>1. lostTimers + (IF FALSE THEN 1 ELSE 0) + 1 = Timers
      BY <2>1, <2>2 DEF Timers
    <3>2. QED
      BY <1>1, <2>1, <2>2, <2>5, <3>1, ConnectKeeps DEF TimerFires
  <2>3. CASE lostTimers > 0 /\ Connect(timer, lostTimers - 1)
    <3>1. lostTimers - 1 \in Nat /\ lostTimers - 1 + (IF timer THEN 1 ELSE 0) + 1 = Timers
      BY <2>1, <2>3 DEF Timers
    <3>2. QED
      BY <1>1, <2>1, <2>3, <2>5, <3>1, ConnectKeeps DEF TimerFires
  <2>4. QED
    BY <1>1, <2>2, <2>3 DEF TimerFires
\* What neither makes nor ends anything.
<1>2. ASSUME SocketTypeOK', Leading' = Leading, Live' \subseteq Live,
             UNCHANGED <<strict, hook, socket, manuallyClosed, timer, lostTimers>>
      PROVE  SocketInv'
  <2>1. Timers' = Timers /\ Timers \in Nat /\ Cardinality(Leading) \in Nat
    BY <1>2, ActiveCount DEF Timers, SocketInv, SocketTypeOK
  <2>2. OneAtATime'
    BY <1>2, <2>1, CountKept
  <2>3. QED
    BY <1>2, <2>1, <2>2 DEF SocketInv
<1>3. ASSUME NEW w \in Sockets, OnOpen(w)
      PROVE  SocketInv'
  <2>1. SocketTypeOK'
    BY <1>3 DEF OnOpen, SocketInv, SocketTypeOK
  <2>2. Leading' = Leading /\ Live' = Live
    BY <1>3 DEF OnOpen, Leading, Live, SocketInv, SocketTypeOK
  <2>3. QED
    BY <1>2, <1>3, <2>1, <2>2 DEF OnOpen
<1>4. ASSUME NEW w \in Sockets, Lose(w)
      PROVE  SocketInv'
  <2>1. SocketTypeOK'
    BY <1>4 DEF Lose, SocketInv, SocketTypeOK
  <2>2. Leading' = Leading /\ Live' \subseteq Live
    BY <1>4 DEF Lose, Leading, Live, SocketInv, SocketTypeOK
  <2>3. QED
    BY <1>2, <1>4, <2>1, <2>2 DEF Lose
<1>5. ASSUME NEW w \in Sockets, NEW t \in Topics, NEW n \in 1..MaxSeq,
             OnMessage(w, t, n)
      PROVE  SocketInv'
  <2>1. last' \in [Topics -> 0..MaxSeq]
    BY <1>5, RealtimeAssumption DEF OnMessage, SocketInv, SocketTypeOK
  <2>2. heard' \in [Topics -> Seq(1..MaxSeq)]
    BY <1>5 DEF OnMessage, SocketInv, SocketTypeOK
  <2>3. UNCHANGED <<strict, hook, conn>>
    BY <1>5 DEF OnMessage
  <2>4. SocketTypeOK'
    BY <2>1, <2>2, <2>3 DEF SocketInv, SocketTypeOK, conn
  <2>5. Leading' = Leading /\ Live' = Live
    BY <2>3 DEF Leading, Live, conn
  <2>6. QED
    BY <1>2, <2>3, <2>4, <2>5 DEF conn
<1>6. CASE UNCHANGED socketVars
  <2>1. SocketTypeOK' /\ Leading' = Leading /\ Live' = Live
    BY <1>6 DEF socketVars, conn, SocketInv, SocketTypeOK, Leading, Live
  <2>2. QED
    BY <1>2, <1>6, <2>1 DEF socketVars, conn
<1>7. QED
  BY <1>1, <1>3, <1>4, <1>5, <1>6, CloseKeeps, MountKeeps, UnmountKeeps
     DEF SocketNext

LEMMA SocketStart == SocketInit => SocketInv /\ HeardInv
<1> SUFFICES ASSUME SocketInit PROVE SocketInv /\ HeardInv
  OBVIOUS
<1>1. SocketTypeOK
  <2>1. last \in [Topics -> 0..MaxSeq]
    BY RealtimeAssumption DEF SocketInit
  <2>2. heard \in [Topics -> Seq(1..MaxSeq)]
    <3>1. <<>> \in Seq(1..MaxSeq)
      OBVIOUS
    <3>2. QED
      BY <3>1 DEF SocketInit
  <2>3. ws \in [Sockets -> {"none", "connecting", "open", "closing", "closed"}]
    BY DEF SocketInit
  <2>4. {manuallyClosed, retrying, timer, heartbeat} \subseteq BOOLEAN
    BY Zenon DEF SocketInit
  <2>5. QED
    BY <2>1, <2>2, <2>3, <2>4 DEF SocketInit, SocketTypeOK
<1>2. Leading = {} /\ Timers = 0 /\ Live = {} /\ socket = NoSocket
  BY DEF SocketInit, Leading, Live, Timers
<1>3. OneAtATime
  <2>1. Cardinality(Leading) = 0
    BY <1>2, FS_EmptySet
  <2>2. QED
    BY <1>1, <1>2, <2>1, NoTimers DEF OneAtATime, Leading
<1>4. HeardInv
  BY DEF SocketInit, HeardInv, InOrder
<1>5. QED
  BY <1>1, <1>2, <1>3, <1>4 DEF SocketInit, SocketInv

LEMMA HeardNumber ==
  ASSUME NEW sq \in Seq(1..MaxSeq), NEW i \in DOMAIN sq
  PROVE  sq[i] \in Nat
BY RealtimeAssumption

LEMMA HeardStep ==
  SocketInv /\ HeardInv /\ [SocketNext]_socketVars => HeardInv'
<1> SUFFICES ASSUME SocketInv, HeardInv, [SocketNext]_socketVars
             PROVE  HeardInv'
  OBVIOUS
<1>1. ASSUME UNCHANGED <<last, heard>>, hook' = hook \/ hook # "unmounted"
      PROVE  HeardInv'
  BY <1>1 DEF HeardInv, InOrder
<1>2. CASE Mount \/ MountTwice \/ TimerFires
  BY <1>1, <1>2 DEF Mount, MountTwice, TimerFires
<1>3. CASE Unmount
  BY <1>3 DEF Unmount, HeardInv, InOrder
<1>4. ASSUME NEW w \in Sockets, OnOpen(w) \/ Lose(w) \/ OnClose(w)
      PROVE  HeardInv'
  BY <1>1, <1>4 DEF OnOpen, Lose, OnClose
<1>5. ASSUME NEW w \in Sockets, NEW t \in Topics, NEW n \in 1..MaxSeq,
             OnMessage(w, t, n)
      PROVE  HeardInv'
  <2>1. /\ last[t] \in 0..MaxSeq /\ n > last[t] /\ n \in Nat
        /\ last' = [last EXCEPT ![t] = n]
        /\ hook' = hook
        /\ \A q \in Topics : last[q] \in Nat /\ heard[q] \in Seq(1..MaxSeq)
    BY <1>5, RealtimeAssumption DEF OnMessage, New, conn, SocketInv, SocketTypeOK
  <2>2. CASE hook # "mounted" /\ heard' = heard
    <3>1. \A q \in Topics : last'[q] \in Nat /\ last[q] <= last'[q]
      BY <2>1 DEF SocketInv, SocketTypeOK
    <3>2. ASSUME hook' # "unmounted", NEW q \in Topics, NEW i \in DOMAIN heard'[q]
          PROVE  heard'[q][i] <= last'[q]
      <4>1. i \in DOMAIN heard[q] /\ hook # "unmounted"
        BY <2>1, <2>2, <3>2
      <4>2. heard[q][i] \in Nat
        BY <2>1, <4>1, HeardNumber
      <4>3. heard[q][i] <= last[q]
        BY <4>1 DEF HeardInv
      <4>4. QED
        BY <2>1, <2>2, <3>1, <4>2, <4>3
    <3>3. QED
      BY <2>2, <3>2 DEF HeardInv, InOrder
  <2>3. CASE hook = "mounted" /\ heard' = [heard EXCEPT ![t] = Append(heard[t], n)]
    <3> DEFINE h == heard[t]
    <3>1. /\ h \in Seq(1..MaxSeq)
          /\ heard'[t] = Append(h, n)
          /\ last'[t] = n
          /\ \A q \in Topics : q # t => heard'[q] = heard[q] /\ last'[q] = last[q]
      BY <2>1, <2>3 DEF SocketInv, SocketTypeOK
    <3>2. /\ DOMAIN h = 1..Len(h) /\ Len(h) \in Nat
          /\ DOMAIN Append(h, n) = 1..(Len(h) + 1)
          /\ \A i \in 1..Len(h) : Append(h, n)[i] = h[i]
          /\ Append(h, n)[Len(h) + 1] = n
      BY <3>1
    <3>3. \A i \in 1..Len(h) : h[i] \in Nat /\ h[i] <= last[t] /\ h[i] < n
      <4> SUFFICES ASSUME NEW i \in 1..Len(h)
                   PROVE  h[i] \in Nat /\ h[i] <= last[t] /\ h[i] < n
        OBVIOUS
      <4>1. h[i] \in Nat
        BY <3>1, <3>2, HeardNumber
      <4>2. h[i] <= last[t]
        BY <2>3, <3>2 DEF HeardInv
      <4>3. QED
        BY <2>1, <4>1, <4>2
    <3>4. \A i, j \in 1..Len(h) : i < j => h[i] < h[j]
      BY <3>2 DEF HeardInv, InOrder
    <3>5. \A i, j \in 1..(Len(h) + 1) : i < j => Append(h, n)[i] < Append(h, n)[j]
      BY <3>2, <3>3, <3>4
    <3>6. \A i \in 1..(Len(h) + 1) : Append(h, n)[i] <= n
      BY <2>1, <3>2, <3>3
    <3>7. InOrder'
      BY <3>1, <3>2, <3>5 DEF HeardInv, InOrder
    <3>8. \A q \in Topics : \A i \in DOMAIN heard'[q] : heard'[q][i] <= last'[q]
      BY <2>3, <3>1, <3>2, <3>6 DEF HeardInv
    <3>9. QED
      BY <3>7, <3>8 DEF HeardInv
  <2>4. QED
    BY <1>5, <2>2, <2>3 DEF OnMessage
<1>6. CASE UNCHANGED socketVars
  BY <1>1, <1>6 DEF socketVars
<1>7. QED
  BY <1>2, <1>3, <1>4, <1>5, <1>6 DEF SocketNext

\* However connections fail, timers fire and events interleave, one thing at a
\* time leads to a connection, in a production build; the leak of a second one
\* that StrictMode's double mount causes never grows.
THEOREM OneConnection == SocketSpec => []OneAtATime
<1>1. SocketInv => OneAtATime
  BY DEF SocketInv
<1>2. QED
  BY <1>1, SocketStart, SocketStep, PTL DEF SocketSpec

\* After close() nothing is connected and nothing will connect again, in a
\* production build, whichever WebSocket the object held.
THEOREM TeardownIsFinal == SocketSpec => []TornDown
<1>1. SocketInv => TornDown
  <2> SUFFICES ASSUME SocketInv, hook = "unmounted", ~strict
               PROVE  Live = {} /\ ~Pending
    BY DEF TornDown
  <2>1. Live = {} /\ Timers = 0
    BY DEF SocketInv
  <2>2. QED
    BY <2>1, NoTimers DEF SocketInv, Pending
<1>2. QED
  BY <1>1, SocketStart, SocketStep, PTL DEF SocketSpec

\* The listener hears the numbers of a topic in increasing order, across any
\* number of reconnections and from two sockets at once.
THEOREM EventsInOrder == SocketSpec => []InOrder
<1>1. HeardInv => InOrder
  BY DEF HeardInv
<1>2. QED
  BY <1>1, SocketStart, SocketStep, HeardStep, PTL DEF SocketSpec

----------------------------------------------------------------------------
(* The swap.                                                               *)
(*                                                                         *)
(* An answer on its way is one to the inputs on the screen: each step that *)
(* changes them forgets it.  A run that has passed the first check keeps   *)
(* what that compared, and so do its POST and its transaction.  Whatever a *)
(* run closed over it keeps, so that what it was confirmed under, and what *)
(* the relay has verified, stays so.                                       *)

QuoteInv ==
  /\ answer # NoQuote => request = "sent" /\ answer.inputs = inputs
  /\ request # "none" \/ quote # NoQuote => inputs.terms # NoTerms
  /\ QuoteForInputs

PastCheck(s) ==
  \/ s \in relay \cup executed
  \/ swap[s] # NoQuote /\ swap[s].at \notin {"config", "failed"}

KeepsCheck(s) ==
  /\ swap[s] # NoQuote
  /\ QuoteMatchesRequest(s) /\ swap[s].built = swap[s].quote.policy

RunsInv == \A s \in Swaps : PastCheck(s) => KeepsCheck(s)

ImpactAllowed(s) == Expert \/ swap[s].quote.impact <= swap[s].shown.terms.limit
SlippageQuoted(s) ==
  Signing => swap[s].quote.inputs.terms.slippage = swap[s].shown.terms.slippage

LimitsInv == \A s \in Swaps :
  /\ swap[s] # NoQuote => ImpactAllowed(s)
  /\ s \in executed => swap[s] # NoQuote /\ SlippageQuoted(s)

FlowInv == FlowTypeOK /\ QuoteInv /\ RunsInv /\ LimitsInv

LEMMA QuoteKept == QuoteInv /\ [FlowNext]_flowVars => QuoteInv'
<1> SUFFICES ASSUME QuoteInv, [FlowNext]_flowVars
             PROVE  QuoteInv'
  OBVIOUS
<1>1. ASSUME UNCHANGED <<inputs, quote, request, answer>>
      PROVE  QuoteInv'
  BY <1>1 DEF QuoteInv, QuoteForInputs
<1>2. ASSUME NEW in, NEW shown, inputs' = in, Requote(in, shown)
      PROVE  QuoteInv'
  BY <1>2 DEF Requote, QuoteInv, QuoteForInputs
<1>3. CASE ChangeInputs \/ Flip \/ TokensRefreshed \/ RefreshQuote
  BY <1>2, <1>3 DEF ChangeInputs, Flip, TokensRefreshed, RefreshQuote
<1>4. CASE QuoteStep
  BY <1>4 DEF QuoteStep, QuoteTimerFires, IssueQuote, QuoteArrives, QuoteFails,
              QuoteExpires, QuoteInv, QuoteForInputs
<1>5. CASE OpenReview \/ CloseReview
  BY <1>1, <1>5 DEF OpenReview, CloseReview
<1>6. ASSUME NEW s \in Swaps, SwapStep(s)
      PROVE  QuoteInv'
  <2>1. CASE Confirm(s) \/ ExecuteAnswered(s) \/ Confirmed(s) \/ ConfirmationFails(s)
             \/ NotSubmitted(s)
    BY <1>1, <2>1 DEF Confirm, ExecuteAnswered, Confirmed, ConfirmationFails, NotSubmitted
  <2>2. CASE LoadRuntimeConfig(s) \/ VerifyQuote(s) \/ BuildTransaction(s) \/ Sign(s)
             \/ Preflight(s) \/ RelayExecutes(s) \/ RelayRefuses(s)
    BY <1>1, <2>2 DEF LoadRuntimeConfig, VerifyQuote, BuildTransaction, Sign, Preflight,
                      RelayExecutes, RelayRefuses, page
  <2>3. QED
    BY <1>6, <2>1, <2>2 DEF SwapStep
<1>7. CASE Redeploy \/ FlowTick \/ UNCHANGED flowVars
  BY <1>1, <1>7 DEF Redeploy, FlowTick, flowVars, page
<1>8. QED
  BY <1>3, <1>4, <1>5, <1>6, <1>7 DEF FlowNext, UserStep

\* A run that goes on keeps what it closed over.
LEMMA RunMoves ==
  ASSUME FlowTypeOK, NEW s \in Swaps, swap[s] # NoQuote,
         NEW stage \in Stages, Reaches(s, stage)
  PROVE  /\ swap' \in [Swaps -> Runs \cup {NoQuote}]
         /\ swap'[s] \in Runs /\ swap'[s] # NoQuote
         /\ swap'[s] = [at |-> stage, shown |-> swap[s].shown,
                        quote |-> swap[s].quote, built |-> swap[s].built]
         /\ \A t \in Swaps : t # s => swap'[t] = swap[t]
<1>1. /\ swap[s] \in Runs
      /\ swap' = [swap EXCEPT ![s] = [swap[s] EXCEPT !.at = stage]]
  BY DEF FlowTypeOK, Reaches
<1>2. [swap[s] EXCEPT !.at = stage]
        = [at |-> stage, shown |-> swap[s].shown, quote |-> swap[s].quote,
           built |-> swap[s].built]
  BY <1>1 DEF Runs
<1>3. [swap[s] EXCEPT !.at = stage] \in Runs
  BY <1>1, <1>2 DEF Runs
<1>4. QED
  BY <1>1, <1>2, <1>3, NoQuoteAssumption DEF FlowTypeOK

LEMMA RunKept ==
  ASSUME FlowTypeOK, RunsInv, NEW s \in Swaps, swap[s] # NoQuote,
         NEW stage \in Stages, Reaches(s, stage),
         PastCheck(s) \/ stage = "failed",
         \A t \in Swaps : t \in relay' \cup executed' => PastCheck(t)
  PROVE  RunsInv'
<1>1. /\ swap'[s] = [at |-> stage, shown |-> swap[s].shown,
                     quote |-> swap[s].quote, built |-> swap[s].built]
      /\ swap'[s] # NoQuote
      /\ \A t \in Swaps : t # s => swap'[t] = swap[t]
  BY RunMoves
<1>2. swap'[s].at = stage
  BY <1>1
<1>3. ASSUME NEW t \in Swaps, PastCheck(t)'
      PROVE  KeepsCheck(t)'
  <2>1. PastCheck(t)
    <3>1. CASE t \in relay' \cup executed'
      BY <3>1
    <3>2. CASE t = s /\ t \notin relay' \cup executed'
      <4>1. swap'[t].at \notin {"config", "failed"}
        BY <1>3, <3>2 DEF PastCheck
      <4>2. QED
        BY <1>2, <3>2, <4>1
    <3>3. CASE t # s /\ t \notin relay' \cup executed'
      BY <1>1, <1>3, <3>3 DEF PastCheck
    <3>4. QED
      BY <3>1, <3>2, <3>3
  <2>2. KeepsCheck(t)
    BY <2>1 DEF RunsInv
  <2>3. CASE t = s
    BY <1>1, <2>2, <2>3 DEF KeepsCheck, QuoteMatchesRequest
  <2>4. CASE t # s
    BY <1>1, <2>2, <2>4 DEF KeepsCheck, QuoteMatchesRequest
  <2>5. QED
    BY <2>3, <2>4
<1>4. QED
  BY <1>3 DEF RunsInv

LEMMA LoadedRun ==
  ASSUME NEW r \in Runs, NEW p \in Policies
  PROVE  /\ [r EXCEPT !.at = "verify", !.built = p]
              = [at |-> "verify", shown |-> r.shown, quote |-> r.quote, built |-> p]
         /\ [at |-> "verify", shown |-> r.shown, quote |-> r.quote, built |-> p] \in Runs
<1>1. r = [at |-> r.at, shown |-> r.shown, quote |-> r.quote, built |-> r.built]
  BY DEF Runs
<1>2. r.shown \in Inputs /\ r.quote \in Quotes
  BY DEF Runs
<1>3. "verify" \in Stages
  BY DEF Stages
<1>4. [r EXCEPT !.at = "verify", !.built = p]
        = [at |-> "verify", shown |-> r.shown, quote |-> r.quote, built |-> p]
  <2> DEFINE q == [r EXCEPT !.at = "verify", !.built = p]
  <2>1. DOMAIN r = {"at", "shown", "quote", "built"}
    BY <1>1
  <2>2. q = [f \in DOMAIN r |-> IF f = "built" THEN p ELSE IF f = "at" THEN "verify" ELSE r[f]]
    OBVIOUS
  <2>3. QED
    BY <2>1, <2>2
<1>5. QED
  BY <1>2, <1>3, <1>4 DEF Runs

LEMMA RunsStep ==
  FlowTypeOK /\ RunsInv /\ [FlowNext]_flowVars => RunsInv'
<1> SUFFICES ASSUME FlowTypeOK, RunsInv, [FlowNext]_flowVars
             PROVE  RunsInv'
  OBVIOUS
<1>1. ASSUME swap' = swap, relay' \cup executed' \subseteq relay \cup executed
      PROVE  RunsInv'
  BY <1>1 DEF RunsInv, PastCheck, KeepsCheck, QuoteMatchesRequest
<1>2. CASE QuoteStep \/ UserStep \/ TokensRefreshed \/ Redeploy \/ FlowTick
           \/ UNCHANGED flowVars
  <2>1. UNCHANGED <<swap, relay, executed>>
    BY <1>2 DEF QuoteStep, QuoteTimerFires, IssueQuote, QuoteArrives, QuoteFails,
                QuoteExpires, UserStep, ChangeInputs, Flip, RefreshQuote, OpenReview,
                CloseReview, TokensRefreshed, Redeploy, FlowTick, flowVars
  <2>2. QED
    BY <1>1, <2>1
<1>3. ASSUME NEW s \in Swaps, SwapStep(s)
      PROVE  RunsInv'
  <2>1. CASE Confirm(s)
    <3>1. s \notin relay \cup executed
      BY <2>1 DEF Confirm, RunsInv, PastCheck, KeepsCheck
    <3>2. /\ swap'[s].at = "config"
          /\ \A t \in Swaps : t # s => swap'[t] = swap[t]
          /\ UNCHANGED <<relay, executed>>
      BY <2>1 DEF Confirm, FlowTypeOK
    <3>3. ASSUME NEW t \in Swaps, PastCheck(t)'
          PROVE  KeepsCheck(t)'
      <4>1. t # s
        BY <3>1, <3>2, <3>3 DEF PastCheck
      <4>2. KeepsCheck(t)
        BY <3>2, <3>3, <4>1 DEF PastCheck, RunsInv
      <4>3. QED
        BY <3>2, <4>1, <4>2 DEF KeepsCheck, QuoteMatchesRequest
    <3>4. QED
      BY <3>3 DEF RunsInv
  <2>2. CASE LoadRuntimeConfig(s)
    <3>1. /\ swap[s] \in Runs /\ swap[s] # NoQuote /\ policy \in Policies
          /\ swap' = [swap EXCEPT ![s] = [swap[s] EXCEPT !.at = "verify", !.built = policy]]
          /\ swap[s].quote.policy = policy /\ QuoteMatchesRequest(s)
          /\ UNCHANGED <<relay, executed>>
      BY <2>2 DEF LoadRuntimeConfig, At, FlowTypeOK
    <3>2. /\ [swap[s] EXCEPT !.at = "verify", !.built = policy]
               = [at |-> "verify", shown |-> swap[s].shown, quote |-> swap[s].quote,
                  built |-> policy]
          /\ [at |-> "verify", shown |-> swap[s].shown, quote |-> swap[s].quote,
              built |-> policy] \in Runs
      BY <3>1, LoadedRun
    <3>3. KeepsCheck(s)'
      <4>1. /\ swap'[s] = [at |-> "verify", shown |-> swap[s].shown,
                           quote |-> swap[s].quote, built |-> policy]
            /\ swap'[s] # NoQuote
        BY <3>1, <3>2, NoQuoteAssumption DEF FlowTypeOK
      <4>2. QED
        BY <3>1, <4>1 DEF KeepsCheck, QuoteMatchesRequest
    <3>4. ASSUME NEW t \in Swaps, t # s, PastCheck(t)'
          PROVE  KeepsCheck(t)'
      <4>1. swap'[t] = swap[t]
        BY <3>1, <3>4 DEF FlowTypeOK
      <4>2. KeepsCheck(t)
        BY <3>1, <3>4, <4>1 DEF PastCheck, RunsInv
      <4>3. QED
        BY <4>1, <4>2 DEF KeepsCheck, QuoteMatchesRequest
    <3>5. QED
      BY <3>3, <3>4 DEF RunsInv
  <2>3. CASE VerifyQuote(s) \/ BuildTransaction(s) \/ Sign(s) \/ Preflight(s)
             \/ ExecuteAnswered(s) \/ Confirmed(s) \/ ConfirmationFails(s)
    <3>1. PastCheck(s) /\ swap[s] # NoQuote
      BY <2>3 DEF VerifyQuote, BuildTransaction, Sign, Preflight, ExecuteAnswered,
                  Confirmed, ConfirmationFails, At, PastCheck
    <3>2. \E stage \in Stages : Reaches(s, stage)
      BY <2>3 DEF VerifyQuote, BuildTransaction, Sign, Preflight, ExecuteAnswered,
                  Confirmed, ConfirmationFails, Stages
    <3>3. relay' \cup executed' \subseteq relay \cup executed \cup {s}
      BY <2>3 DEF VerifyQuote, BuildTransaction, Sign, Preflight, ExecuteAnswered,
                  Confirmed, ConfirmationFails
    <3>4. \A t \in Swaps : t \in relay' \cup executed' => PastCheck(t)
      BY <3>1, <3>3 DEF PastCheck
    <3>5. QED
      BY <3>1, <3>2, <3>4, RunKept
  <2>4. CASE NotSubmitted(s)
    <3>1. swap[s] # NoQuote /\ Reaches(s, "failed") /\ UNCHANGED <<relay, executed>>
      BY <2>4 DEF NotSubmitted, At
    <3>2. "failed" \in Stages /\ \A t \in Swaps : t \in relay' \cup executed' => PastCheck(t)
      BY <3>1 DEF Stages, PastCheck
    <3>3. QED
      BY <3>1, <3>2, RunKept
  <2>5. CASE RelayExecutes(s) \/ RelayRefuses(s)
    BY <1>1, <2>5 DEF RelayExecutes, RelayRefuses
  <2>6. QED
    BY <1>3, <2>1, <2>2, <2>3, <2>4, <2>5 DEF SwapStep
<1>4. QED
  BY <1>2, <1>3 DEF FlowNext

\* A step that changes at most the page, to something of its type.
LEMMA FlowTypesOfPage ==
  ASSUME FlowTypeOK, UNCHANGED <<clock, policy, issued, swap, relay, executed>>,
         inputs' \in Inputs, quote' \in Quotes \cup {NoQuote},
         request' \in {"none", "timer", "sent"}, answer' \in Quotes \cup {NoQuote},
         phase' \in {"idle", "quoting", "ready", "review", "signing", "submitted",
                     "confirmed", "error"}
  PROVE  FlowTypeOK'
BY DEF FlowTypeOK

LEMMA FlowTypes == FlowTypeOK /\ QuoteInv /\ [FlowNext]_flowVars => FlowTypeOK'
<1> SUFFICES ASSUME FlowTypeOK, QuoteInv, [FlowNext]_flowVars
             PROVE  FlowTypeOK'
  OBVIOUS
<1>1. ASSUME NEW in \in Inputs, NEW shown \in Quotes \cup {NoQuote},
             inputs' = in, Requote(in, shown),
             UNCHANGED <<clock, policy, issued, swap, relay, executed>>
      PROVE  FlowTypeOK'
  BY <1>1, FlowTypesOfPage DEF Requote, FlowTypeOK
<1>2. CASE ChangeInputs \/ Flip \/ RefreshQuote
  BY <1>1, <1>2 DEF ChangeInputs, Flip, RefreshQuote, FlowTypeOK
<1>3. CASE TokensRefreshed
  <2>1. inputs \in Inputs /\ [inputs EXCEPT !.terms = NoTerms] \in Inputs
    BY DEF FlowTypeOK, Inputs
  <2>2. QED
    BY <1>1, <1>3, <2>1 DEF TokensRefreshed, FlowTypeOK
<1>4. CASE IssueQuote
  <2>1. /\ issued' \in 0..MaxQuotes /\ issued' \in 1..MaxQuotes
        /\ clock + QuoteTtl \in Nat
    BY <1>4, SwapFlowAssumption DEF IssueQuote, FlowTypeOK
  <2>2. answer' \in Quotes
    <3>1. inputs \in [pair : Pairs, terms : Terms]
      BY <1>4 DEF IssueQuote, FlowTypeOK, QuoteInv, Inputs
    <3>2. QED
      BY <1>4, <2>1, <3>1 DEF IssueQuote, FlowTypeOK, Quotes
  <2>3. QED
    BY <1>4, <2>1, <2>2 DEF IssueQuote, FlowTypeOK
<1>5. CASE QuoteTimerFires \/ QuoteArrives \/ QuoteFails \/ QuoteExpires
  BY <1>5, FlowTypesOfPage
     DEF QuoteTimerFires, QuoteArrives, QuoteFails, QuoteExpires, FlowTypeOK
<1>6. CASE OpenReview \/ CloseReview
  BY <1>6, FlowTypesOfPage DEF OpenReview, CloseReview, FlowTypeOK
<1>7. ASSUME NEW s \in Swaps, SwapStep(s)
      PROVE  FlowTypeOK'
  <2>1. CASE Confirm(s)
    <3>1. quote \in Quotes /\ inputs \in Inputs
      BY <2>1 DEF Confirm, DialogOpen, FlowTypeOK
    <3>2. [at |-> "config", shown |-> inputs, quote |-> quote, built |-> NoQuote] \in Runs
      BY <3>1 DEF Runs, Stages
    <3>3. swap' \in [Swaps -> Runs \cup {NoQuote}]
      BY <2>1, <3>2 DEF Confirm, FlowTypeOK
    <3>4. QED
      BY <2>1, <3>3 DEF Confirm, FlowTypeOK
  <2>2. CASE LoadRuntimeConfig(s)
    <3>1. swap[s] \in Runs /\ policy \in Policies
      BY <2>2 DEF LoadRuntimeConfig, At, FlowTypeOK
    <3>2. swap' = [swap EXCEPT ![s] = [swap[s] EXCEPT !.at = "verify", !.built = policy]]
      BY <2>2 DEF LoadRuntimeConfig
    <3>3. [swap[s] EXCEPT !.at = "verify", !.built = policy] \in Runs
      BY <3>1, LoadedRun
    <3>4. swap' \in [Swaps -> Runs \cup {NoQuote}]
      BY <3>2, <3>3 DEF FlowTypeOK
    <3>5. QED
      BY <2>2, <3>4 DEF LoadRuntimeConfig, FlowTypeOK, page
  <2>3. CASE VerifyQuote(s) \/ BuildTransaction(s) \/ Sign(s) \/ Preflight(s)
             \/ ExecuteAnswered(s) \/ Confirmed(s) \/ ConfirmationFails(s) \/ NotSubmitted(s)
    <3>1. swap[s] # NoQuote /\ \E stage \in Stages : Reaches(s, stage)
      BY <2>3 DEF VerifyQuote, BuildTransaction, Sign, Preflight, ExecuteAnswered,
                  Confirmed, ConfirmationFails, NotSubmitted, At, Stages
    <3>2. swap' \in [Swaps -> Runs \cup {NoQuote}]
      BY <3>1, RunMoves
    <3>3. /\ UNCHANGED <<clock, policy, issued, inputs, quote, request, answer, executed>>
          /\ phase' \in {phase, "submitted", "confirmed", "review"}
          /\ relay' \subseteq relay \cup {s}
      BY <2>3 DEF VerifyQuote, BuildTransaction, Sign, Preflight, ExecuteAnswered,
                  Confirmed, ConfirmationFails, NotSubmitted, page
    <3>4. QED
      BY <3>2, <3>3 DEF FlowTypeOK
  <2>4. CASE RelayExecutes(s) \/ RelayRefuses(s)
    BY <2>4 DEF RelayExecutes, RelayRefuses, FlowTypeOK, page
  <2>5. QED
    BY <1>7, <2>1, <2>2, <2>3, <2>4 DEF SwapStep
<1>8. CASE Redeploy \/ FlowTick \/ UNCHANGED flowVars
  BY <1>8, SwapFlowAssumption DEF Redeploy, FlowTick, flowVars, page, FlowTypeOK
<1>9. QED
  BY <1>2, <1>3, <1>4, <1>5, <1>6, <1>7, <1>8 DEF FlowNext, QuoteStep, UserStep

\* A run keeps what it closed over, and begins within the limit on the screen.
LEMMA RunsStay ==
  ASSUME FlowTypeOK, [FlowNext]_flowVars, NEW s \in Swaps
  PROVE  /\ swap[s] # NoQuote => /\ swap'[s] # NoQuote /\ swap'[s].quote = swap[s].quote
                                 /\ swap'[s].shown = swap[s].shown
         /\ swap[s] = NoQuote /\ swap'[s] # NoQuote => ImpactAllowed(s)'
         /\ s \in executed' \ executed => SlippageQuoted(s)
<1> DEFINE Goal ==
      /\ swap[s] # NoQuote => /\ swap'[s] # NoQuote /\ swap'[s].quote = swap[s].quote
                              /\ swap'[s].shown = swap[s].shown
      /\ swap[s] = NoQuote /\ swap'[s] # NoQuote => ImpactAllowed(s)'
      /\ s \in executed' \ executed => SlippageQuoted(s)
<1>1. CASE QuoteStep \/ UserStep \/ TokensRefreshed \/ Redeploy \/ FlowTick
           \/ UNCHANGED flowVars
  <2>1. UNCHANGED <<swap, executed>>
    BY <1>1 DEF QuoteStep, QuoteTimerFires, IssueQuote, QuoteArrives, QuoteFails,
                QuoteExpires, UserStep, ChangeInputs, Flip, RefreshQuote, OpenReview,
                CloseReview, TokensRefreshed, Redeploy, FlowTick, flowVars
  <2>2. QED
    BY <2>1
<1>2. ASSUME NEW t \in Swaps, SwapStep(t) PROVE Goal
  <2>1. CASE Confirm(t)
    <3>1. /\ swap[t] = NoQuote /\ UNCHANGED executed
          /\ swap' = [swap EXCEPT ![t] = [at |-> "config", shown |-> inputs,
                                          quote |-> quote, built |-> NoQuote]]
          /\ Expert \/ quote.impact <= inputs.terms.limit
      BY <2>1 DEF Confirm
    <3>2. CASE s = t
      <4>1. swap'[s].shown = inputs /\ swap'[s].quote = quote
        BY <3>1, <3>2 DEF FlowTypeOK
      <4>2. ImpactAllowed(s)'
        BY <3>1, <4>1 DEF ImpactAllowed
      <4>3. QED
        BY <3>1, <3>2, <4>2
    <3>3. CASE s # t
      <4>1. swap'[s] = swap[s]
        BY <3>1, <3>3 DEF FlowTypeOK
      <4>2. QED
        BY <3>1, <4>1
    <3>4. QED
      BY <3>2, <3>3
  <2>2. CASE LoadRuntimeConfig(t)
    <3>1. /\ swap[t] \in Runs /\ policy \in Policies /\ swap[t] # NoQuote /\ UNCHANGED executed
          /\ swap' = [swap EXCEPT ![t] = [swap[t] EXCEPT !.at = "verify", !.built = policy]]
      BY <2>2 DEF LoadRuntimeConfig, At, FlowTypeOK
    <3>2. CASE s = t
      <4>1. /\ [swap[s] EXCEPT !.at = "verify", !.built = policy]
                 = [at |-> "verify", shown |-> swap[s].shown, quote |-> swap[s].quote,
                    built |-> policy]
            /\ [at |-> "verify", shown |-> swap[s].shown, quote |-> swap[s].quote,
                built |-> policy] \in Runs
        BY <3>1, <3>2, LoadedRun
      <4>2. /\ swap'[s] = [at |-> "verify", shown |-> swap[s].shown,
                           quote |-> swap[s].quote, built |-> policy]
            /\ swap'[s] # NoQuote
        BY <3>1, <3>2, <4>1, NoQuoteAssumption DEF FlowTypeOK
      <4>3. QED
        BY <3>1, <3>2, <4>2
    <3>3. CASE s # t
      <4>1. swap'[s] = swap[s]
        BY <3>1, <3>3 DEF FlowTypeOK
      <4>2. QED
        BY <3>1, <4>1
    <3>4. QED
      BY <3>2, <3>3
  <2>3. CASE VerifyQuote(t) \/ BuildTransaction(t) \/ Sign(t) \/ Preflight(t)
             \/ ExecuteAnswered(t) \/ Confirmed(t) \/ ConfirmationFails(t) \/ NotSubmitted(t)
    <3>1. /\ swap[t] # NoQuote /\ \E stage \in Stages : Reaches(t, stage)
          /\ UNCHANGED executed
      BY <2>3 DEF VerifyQuote, BuildTransaction, Sign, Preflight, ExecuteAnswered,
                  Confirmed, ConfirmationFails, NotSubmitted, At, Stages
    <3>2. PICK stage \in Stages : Reaches(t, stage)
      BY <3>1
    <3>3. /\ swap'[t] # NoQuote
          /\ swap'[t] = [at |-> stage, shown |-> swap[t].shown,
                         quote |-> swap[t].quote, built |-> swap[t].built]
          /\ \A u \in Swaps : u # t => swap'[u] = swap[u]
      BY <3>1, <3>2, RunMoves
    <3>4. swap'[t].quote = swap[t].quote /\ swap'[t].shown = swap[t].shown
      BY <3>3
    <3>5. QED
      BY <3>1, <3>3, <3>4
  <2>4. CASE RelayRefuses(t)
    BY <2>4 DEF RelayRefuses
  <2>5. CASE RelayExecutes(t)
    <3>1. UNCHANGED swap /\ executed' = executed \cup {t} /\ SlippageQuoted(t)
      BY <2>5 DEF RelayExecutes, VerifyQuoteClaims, SlippageQuoted, page
    <3>2. QED
      BY <3>1
  <2>6. QED
    BY <1>2, <2>1, <2>2, <2>3, <2>4, <2>5 DEF SwapStep
<1>3. QED
  BY <1>1, <1>2 DEF FlowNext

\* Only the relay executes.
LEMMA RelayedFirst ==
  ASSUME [FlowNext]_flowVars, NEW s \in Swaps, s \in executed' \ executed
  PROVE  RelayExecutes(s)
<1>1. \E t \in Swaps : SwapStep(t)
  BY DEF FlowNext, flowVars, QuoteStep, QuoteTimerFires, IssueQuote, QuoteArrives, QuoteFails,
         QuoteExpires, UserStep, ChangeInputs, Flip, RefreshQuote, OpenReview, CloseReview,
         TokensRefreshed, Redeploy, FlowTick
<1>2. QED
  BY <1>1
     DEF SwapStep, Confirm, LoadRuntimeConfig, VerifyQuote, BuildTransaction, Sign, Preflight,
         RelayExecutes, RelayRefuses, ExecuteAnswered, Confirmed, ConfirmationFails,
         NotSubmitted

LEMMA LimitsStep ==
  ASSUME FlowTypeOK, RunsInv, LimitsInv, [FlowNext]_flowVars PROVE LimitsInv'
<1> SUFFICES ASSUME NEW s \in Swaps
             PROVE  /\ swap'[s] # NoQuote => ImpactAllowed(s)'
                    /\ s \in executed' => swap'[s] # NoQuote /\ SlippageQuoted(s)'
  BY DEF LimitsInv
<1>1. /\ swap[s] # NoQuote => ImpactAllowed(s)
      /\ s \in executed => swap[s] # NoQuote /\ SlippageQuoted(s)
  BY DEF LimitsInv
<1>2. CASE swap[s] = NoQuote
  <2>1. s \notin relay \cup executed
    BY <1>2 DEF RunsInv, PastCheck, KeepsCheck
  <2>2. s \notin executed'
    BY <2>1, RelayedFirst DEF RelayExecutes
  <2>3. QED
    BY <1>2, <2>2, RunsStay
<1>3. CASE swap[s] # NoQuote
  <2>1. /\ swap'[s] # NoQuote /\ swap'[s].quote = swap[s].quote
        /\ swap'[s].shown = swap[s].shown
    BY <1>3, RunsStay
  <2>2. ImpactAllowed(s)'
    BY <1>1, <1>3, <2>1 DEF ImpactAllowed
  <2>3. s \in executed' => SlippageQuoted(s)
    BY <1>1, RunsStay
  <2>4. s \in executed' => SlippageQuoted(s)'
    BY <2>1, <2>3 DEF SlippageQuoted
  <2>5. QED
    BY <2>1, <2>2, <2>4
<1>4. QED
  BY <1>2, <1>3

LEMMA FlowStart == FlowInit => FlowInv
<1> SUFFICES ASSUME FlowInit PROVE FlowInv
  OBVIOUS
<1>1. FlowTypeOK
  BY SwapFlowAssumption DEF FlowInit, FlowTypeOK, Inputs
<1>2. QuoteInv
  BY SwapFlowAssumption DEF FlowInit, QuoteInv, QuoteForInputs
<1>3. RunsInv
  BY DEF FlowInit, RunsInv, PastCheck
<1>4. LimitsInv
  BY DEF FlowInit, LimitsInv
<1>5. QED
  BY <1>1, <1>2, <1>3, <1>4 DEF FlowInv

LEMMA FlowStep == FlowInv /\ [FlowNext]_flowVars => FlowInv'
BY FlowTypes, QuoteKept, RunsStep, LimitsStep DEF FlowInv

\* The state of a page and of its swaps has its type, for any numbers of them.
THEOREM FlowTypeCorrect == FlowSpec => []FlowTypeOK
<1>1. FlowInv => FlowTypeOK
  BY DEF FlowInv
<1>2. QED
  BY <1>1, FlowStart, FlowStep, PTL DEF FlowSpec

\* However inputs, refreshes, answers and swaps interleave, the quote shown is
\* of the inputs shown, unless another one has been asked for.
THEOREM QuoteShownIsForInputs == FlowSpec => []QuoteForInputs
<1>1. FlowInv => QuoteForInputs
  BY DEF FlowInv, QuoteInv
<1>2. QED
  BY <1>1, FlowStart, FlowStep, PTL DEF FlowSpec

\* Whatever the page shows by then, a run of confirmSwap executes what the screen
\* asked for at the click, of a quote within its limit on the price impact, or in
\* expert mode, and under its slippage, if quotes are signed.
THEOREM TermsAreHonoured == FlowSpec => []TermsHonoured
<1>1. FlowInv => TermsHonoured
  <2> SUFFICES ASSUME FlowInv, NEW s \in Swaps, s \in executed
               PROVE  /\ QuoteMatchesRequest(s) /\ SlippageQuoted(s) /\ ImpactAllowed(s)
    BY DEF FlowInv, FlowTypeOK, QuoteMatchesRequest, SlippageQuoted, ImpactAllowed,
           TermsHonoured
  <2>1. KeepsCheck(s)
    BY DEF FlowInv, RunsInv, PastCheck
  <2>2. QED
    BY <2>1 DEF FlowInv, LimitsInv, KeepsCheck
<1>2. QED
  BY <1>1, FlowStart, FlowStep, PTL DEF FlowSpec

\* However often the policy changes, and changes back, what the relay executes
\* was quoted and built under the one it enforces at that moment.
THEOREM RelayedUnderOwnPolicy == FlowSpec => RelayedUnderItsPolicy
<1>1. ASSUME FlowInv, [FlowNext]_flowVars, NEW s \in Swaps, s \in executed' \ executed
      PROVE  swap[s].built = policy /\ swap[s].quote.policy = policy
  <2>1. RelayExecutes(s)
    BY <1>1, RelayedFirst
  <2>2. s \in relay /\ swap[s].quote.policy = policy
    BY <2>1 DEF RelayExecutes, VerifyQuoteClaims
  <2>3. swap[s].built = swap[s].quote.policy
    BY <1>1, <2>2 DEF FlowInv, RunsInv, PastCheck, KeepsCheck
  <2>4. QED
    BY <2>2, <2>3
<1>2. FlowInv /\ [FlowNext]_flowVars
        => [\A s \in Swaps : s \in executed' \ executed =>
              swap[s].built = policy /\ swap[s].quote.policy = policy]_flowVars
  BY <1>1
<1>3. QED
  BY <1>2, FlowStart, FlowStep, PTL DEF FlowSpec, RelayedUnderItsPolicy

----------------------------------------------------------------------------
(* The balances.                                                           *)
(*                                                                         *)
(* Only the last call counts.  It is for the account that the effect ran   *)
(* for, and once it is done what is shown is its answer; where there is    *)
(* none, or it was aborted, nothing is shown as ready.                     *)

Stopped == RequestId = 0 \/ asks[RequestId].aborted

ViewInv ==
  /\ ViewTypeOK
  /\ Stopped => viewStatus = "idle"
  /\ ~Stopped => asks[RequestId].of = effectOf
  /\ ~Stopped /\ asks[RequestId].got = "done" /\ viewStatus = "ready"
       => balances = effectOf

LEMMA CountTo ==
  ASSUME NEW n \in Nat
  PROVE  Cardinality(1..n) = n
BY FS_Interval

LEMMA AsksNumbered ==
  ASSUME ViewTypeOK
  PROVE  /\ RequestId \in 0..MaxAsks /\ RequestId \in Nat
         /\ DOMAIN asks = 1..RequestId
         /\ \A i \in 1..RequestId : asks[i] \in Asks
BY WalletViewAssumption DEF ViewTypeOK

LEMMA AsksTyped ==
  ASSUME NEW n \in 0..MaxAsks, asks' \in [1..n -> Asks]
  PROVE  RequestId' = n
<1>1. n \in Nat /\ DOMAIN asks' = 1..n
  BY WalletViewAssumption
<1>2. QED
  BY <1>1, CountTo DEF RequestId

LEMMA Abandons ==
  ASSUME NEW ask \in Asks
  PROVE  /\ Abandoned(ask) \in Asks
         /\ Abandoned(ask).aborted = TRUE
         /\ Abandoned(ask).of = ask.of
BY DEF Asks, Abandoned

\* A call of refresh: the one before is aborted, and if there is an account it
\* is asked for, as the last one.
LEMMA AskKeeps ==
  ASSUME ViewInv, NEW a \in Owners, Ask(a), effectOf' = a, connected' \in Owners
  PROVE  ViewInv'
<1>1. /\ RequestId \in 0..MaxAsks /\ RequestId \in Nat
      /\ DOMAIN asks = 1..RequestId
      /\ \A i \in 1..RequestId : asks[i] \in Asks
  BY AsksNumbered DEF ViewInv
<1>2. AbortLast \in [1..RequestId -> Asks]
  BY <1>1, Abandons DEF AbortLast
<1>3. CASE a = NoOne
  <2>1. asks' = AbortLast /\ balances' = NoOne /\ viewStatus' = "idle"
    BY <1>3 DEF Ask
  <2>2. RequestId' = RequestId /\ asks' \in [1..RequestId -> Asks]
    BY <1>1, <1>2, <2>1, AsksTyped
  <2>3. Stopped'
    <3>1. CASE RequestId = 0
      BY <2>2, <3>1 DEF Stopped
    <3>2. CASE RequestId # 0
      <4>1. RequestId \in 1..RequestId
        BY <1>1, <3>2
      <4>2. asks'[RequestId] = Abandoned(asks[RequestId])
        BY <1>1, <2>1, <4>1 DEF AbortLast
      <4>3. QED
        BY <1>1, <2>2, <4>1, <4>2, Abandons DEF Stopped
    <3>3. QED
      BY <3>1, <3>2
  <2>4. ViewTypeOK'
    BY <1>1, <2>1, <2>2 DEF ViewInv, ViewTypeOK, Owners
  <2>5. QED
    BY <2>1, <2>3, <2>4 DEF ViewInv
<1>4. CASE a # NoOne
  <2> DEFINE new == [of |-> a, got |-> "pending", aborted |-> FALSE]
             n == RequestId + 1
  <2>1. /\ RequestId < MaxAsks
        /\ asks' = [i \in 1..n |-> IF i \in DOMAIN asks THEN AbortLast[i] ELSE new]
        /\ viewStatus' \in {"ready", "loading"} /\ balances' = balances
    BY <1>4 DEF Ask
  <2>2. new \in Asks
    BY <1>4 DEF Owners, Asks
  <2>3. n \in 0..MaxAsks /\ n \in 1..n /\ n \notin 1..RequestId
    BY <1>1, <2>1, WalletViewAssumption
  <2>4. asks' \in [1..n -> Asks]
    BY <1>1, <1>2, <2>1, <2>2
  <2>5. RequestId' = n
    BY <2>3, <2>4, AsksTyped
  <2>6. asks'[n] = new
    BY <1>1, <2>1, <2>3
  <2>7. ViewTypeOK'
    BY <2>1, <2>3, <2>4, <2>5 DEF ViewInv, ViewTypeOK
  <2>8. ~Stopped'
    BY <1>1, <2>3, <2>5, <2>6 DEF Stopped
  <2>9. asks'[RequestId'].of = effectOf' /\ asks'[RequestId'].got # "done"
    BY <2>5, <2>6
  <2>10. QED
    BY <2>7, <2>8, <2>9 DEF ViewInv
<1>5. QED
  BY <1>3, <1>4

\* A call moves on, and keeps whose it is and whether it was aborted.
LEMMA AskMoves ==
  ASSUME ViewTypeOK, NEW i \in DOMAIN asks, NEW result \in {"data", "error", "done"},
         asks' = [asks EXCEPT ![i].got = result]
  PROVE  /\ RequestId' = RequestId /\ asks' \in [1..RequestId -> Asks]
         /\ asks'[i].got = result
         /\ \A k \in 1..RequestId : /\ asks'[k].of = asks[k].of
                                    /\ asks'[k].aborted = asks[k].aborted
                                    /\ k # i => asks'[k] = asks[k]
<1>1. /\ RequestId \in 0..MaxAsks /\ DOMAIN asks = 1..RequestId
      /\ \A k \in 1..RequestId : asks[k] \in Asks
      /\ asks \in [1..RequestId -> Asks]
  BY AsksNumbered DEF ViewTypeOK
<1>2. /\ [asks[i] EXCEPT !.got = result] \in Asks
      /\ [asks[i] EXCEPT !.got = result].got = result
      /\ [asks[i] EXCEPT !.got = result].of = asks[i].of
      /\ [asks[i] EXCEPT !.got = result].aborted = asks[i].aborted
  BY <1>1 DEF Asks
<1>3. asks' = [asks EXCEPT ![i] = [asks[i] EXCEPT !.got = result]]
  OBVIOUS
<1>4. asks' \in [1..RequestId -> Asks]
  BY <1>1, <1>2, <1>3
<1>5. RequestId' = RequestId
  BY <1>1, <1>4, AsksTyped
<1>6. QED
  BY <1>1, <1>2, <1>3, <1>4, <1>5

LEMMA ViewStep == ViewInv /\ [ViewNext]_viewVars => ViewInv'
<1> SUFFICES ASSUME ViewInv, [ViewNext]_viewVars
             PROVE  ViewInv'
  OBVIOUS
<1>1. CASE AccountChanges
  <2>1. RequestId' = RequestId /\ Stopped' = Stopped
    BY <1>1 DEF AccountChanges, RequestId, Stopped
  <2>2. QED
    BY <1>1, <2>1 DEF AccountChanges, ViewInv, ViewTypeOK
<1>2. CASE EffectRuns
  BY <1>2, AskKeeps DEF EffectRuns, ViewInv, ViewTypeOK
<1>3. CASE Refreshes
  BY <1>3, AskKeeps DEF Refreshes, ViewInv, ViewTypeOK
<1>4. ASSUME NEW i \in DOMAIN asks, Settles(i)
      PROVE  ViewInv'
  <2>1. PICK result \in {"data", "error"} : asks' = [asks EXCEPT ![i].got = result]
    BY <1>4 DEF Settles
  <2>2. /\ RequestId' = RequestId /\ asks' \in [1..RequestId -> Asks]
        /\ asks'[i].got = result
        /\ \A k \in 1..RequestId : /\ asks'[k].of = asks[k].of
                                   /\ asks'[k].aborted = asks[k].aborted
                                   /\ k # i => asks'[k] = asks[k]
    BY <2>1, AskMoves DEF ViewInv
  <2>3. RequestId # 0 => RequestId \in 1..RequestId
    BY AsksNumbered DEF ViewInv
  <2>4. Stopped' = Stopped
    BY <2>2, <2>3 DEF Stopped
  <2>5. RequestId # 0 /\ asks'[RequestId].got = "done" => asks[RequestId].got = "done"
    BY <2>1, <2>2, <2>3
  <2>6. ~Stopped => RequestId # 0
    BY DEF Stopped
  <2>7. ViewTypeOK'
    BY <1>4, <2>2 DEF Settles, ViewInv, ViewTypeOK
  <2>8. UNCHANGED <<effectOf, balances, viewStatus>>
    BY <1>4 DEF Settles
  <2>9. QED
    BY <2>2, <2>3, <2>4, <2>5, <2>6, <2>7, <2>8 DEF ViewInv
<1>5. ASSUME NEW i \in DOMAIN asks, GoesOn(i)
      PROVE  ViewInv'
  <2>1. /\ RequestId' = RequestId /\ asks' \in [1..RequestId -> Asks]
        /\ asks'[i].got = "done"
        /\ \A k \in 1..RequestId : /\ asks'[k].of = asks[k].of
                                   /\ asks'[k].aborted = asks[k].aborted
                                   /\ k # i => asks'[k] = asks[k]
    BY <1>5, AskMoves DEF GoesOn, ViewInv
  <2>2. /\ i \in 1..RequestId /\ asks[i] \in Asks /\ RequestId \in Nat
        /\ (RequestId # 0 => RequestId \in 1..RequestId)
    BY AsksNumbered DEF ViewInv
  <2>3. Stopped' = Stopped /\ (~Stopped => RequestId # 0)
    BY <2>1, <2>2 DEF Stopped
  <2>4. effectOf' = effectOf
    BY <1>5 DEF GoesOn
  <2>5. ViewTypeOK'
    BY <1>5, <2>1, <2>2 DEF GoesOn, ViewInv, ViewTypeOK, Asks, Owners
  <2>6. CASE ~Current(i)
    <3>1. UNCHANGED <<balances, viewStatus>>
      BY <1>5, <2>6 DEF GoesOn
    <3>2. ~Stopped => i # RequestId
      BY <2>6 DEF Current, Stopped
    <3>3. QED
      BY <2>1, <2>2, <2>3, <2>4, <2>5, <3>1, <3>2 DEF ViewInv
  <2>7. CASE Current(i)
    <3>1. i = RequestId /\ ~Stopped /\ asks[i].of = effectOf
      BY <2>2, <2>7 DEF Current, Stopped, ViewInv
    <3>2. viewStatus' = "ready" => balances' = effectOf'
      BY <1>5, <2>4, <2>7, <3>1 DEF GoesOn
    <3>3. QED
      BY <2>1, <2>2, <2>3, <2>4, <2>5, <3>1, <3>2 DEF ViewInv
  <2>8. QED
    BY <2>6, <2>7
<1>6. CASE UNCHANGED viewVars
  <2>1. RequestId' = RequestId /\ Stopped' = Stopped
    BY <1>6 DEF viewVars, RequestId, Stopped
  <2>2. QED
    BY <1>6, <2>1 DEF viewVars, ViewInv, ViewTypeOK
<1>7. QED
  BY <1>1, <1>2, <1>3, <1>4, <1>5, <1>6 DEF ViewNext

LEMMA ViewStart == ViewInit => ViewInv
<1> SUFFICES ASSUME ViewInit PROVE ViewInv
  OBVIOUS
<1>1. DOMAIN asks = {} /\ RequestId = 0 /\ 1..0 = {}
  BY FS_EmptySet DEF ViewInit, RequestId
<1>2. asks \in [1..RequestId -> Asks]
  BY <1>1 DEF ViewInit
<1>3. ViewTypeOK
  BY <1>1, <1>2, WalletViewAssumption DEF ViewInit, ViewTypeOK, Owners
<1>4. QED
  BY <1>1, <1>3 DEF ViewInit, ViewInv, Stopped

\* For any accounts and any number of calls, however they settle and go on, the
\* balances shown once the last one has been answered are the account's.
THEOREM SettlesOnAccount == ViewSpec => []SettledOnAccount
<1>1. ViewInv => SettledOnAccount
  <2> SUFFICES ASSUME ViewInv, effectOf = connected, viewStatus = "ready",
                      ~\E i \in DOMAIN asks : Awaited(i)
               PROVE  balances = connected
    BY DEF SettledOnAccount
  <2>1. ~Stopped
    BY DEF ViewInv
  <2>2. RequestId \in DOMAIN asks /\ Current(RequestId)
    BY <2>1, AsksNumbered DEF ViewInv, Stopped, Current
  <2>3. asks[RequestId].got = "done"
    BY <2>2 DEF Awaited
  <2>4. QED
    BY <2>1, <2>3 DEF ViewInv
<1>2. QED
  BY <1>1, ViewStart, ViewStep, PTL DEF ViewSpec

----------------------------------------------------------------------------
(* The network.                                                            *)
(*                                                                         *)
(* The last event that waits is the state the browser is in, so that one   *)
(* who is offline and has heard everything has heard that; since then no   *)
(* call was made, and of those before only the active one was not aborted, *)
(* which the event did.                                                    *)

NetInv ==
  /\ NetTypeOK
  /\ toTell # <<>> => toTell[Len(toTell)] = IF onLine THEN "online" ELSE "offline"
  /\ \A i \in DOMAIN polls : i = active \/ polls[i].aborted \/ polls[i].got = "done"
  /\ ~onLine /\ toTell = <<>> =>
       /\ problem = "offline" /\ ~loading
       /\ \A i \in DOMAIN polls : polls[i].aborted \/ polls[i].got = "done"

LEMMA PollsNumbered ==
  ASSUME NetTypeOK
  PROVE  /\ Last \in 0..MaxPolls /\ Last \in Nat /\ DOMAIN polls = 1..Last
         /\ \A i \in 1..Last : polls[i] \in Polls
<1>1. MaxPolls \in Nat
  BY NetworkViewAssumption
<1>2. QED
  BY <1>1 DEF NetTypeOK

LEMMA PollsTyped ==
  ASSUME NEW n \in 0..MaxPolls, polls' \in [1..n -> Polls]
  PROVE  Last' = n
<1>1. MaxPolls \in Nat
  BY NetworkViewAssumption
<1>2. n \in Nat /\ DOMAIN polls' = 1..n
  BY <1>1
<1>3. QED
  BY <1>2, CountTo DEF Last

LEMMA Aborts ==
  ASSUME NetTypeOK
  PROVE  /\ AbortActive \in [1..Last -> Polls]
         /\ \A i \in 1..Last : /\ AbortActive[i].aborted = (polls[i].aborted \/ i = active)
                               /\ i # active => AbortActive[i] = polls[i]
<1>1. ASSUME NEW p \in Polls
      PROVE  LET q == [p EXCEPT !.aborted = TRUE,
                                !.got = IF @ \in {"pending", "asleep"} THEN "error" ELSE @]
             IN q \in Polls /\ q.aborted = TRUE
  BY DEF Polls
<1>2. \A i \in 1..Last : polls[i].aborted \in BOOLEAN
  BY PollsNumbered DEF Polls
<1>3. QED
  BY <1>1, <1>2, PollsNumbered DEF AbortActive

\* A call that moves on, and keeps whether it was aborted.
LEMMA PollMoves ==
  ASSUME NetTypeOK, NEW i \in DOMAIN polls, NEW p \in Polls,
         p.aborted = polls[i].aborted, polls' = [polls EXCEPT ![i] = p]
  PROVE  /\ Last' = Last /\ polls' \in [1..Last -> Polls] /\ polls'[i] = p
         /\ \A k \in 1..Last : /\ polls'[k].aborted = polls[k].aborted
                               /\ k # i => polls'[k] = polls[k]
<1>1. polls' \in [1..Last -> Polls]
  BY PollsNumbered DEF NetTypeOK
<1>2. Last' = Last
  BY <1>1, PollsNumbered, PollsTyped
<1>3. QED
  BY <1>1, <1>2, PollsNumbered DEF NetTypeOK

\* What waits to be heard, when an event has been.
LEMMA Heard ==
  ASSUME NetInv, NEW event, Hears(event)
  PROVE  /\ toTell' \in Seq({"offline", "online"}) /\ Len(toTell') <= MaxEvents
         /\ toTell' # <<>> =>
              toTell'[Len(toTell')] = IF onLine THEN "online" ELSE "offline"
         /\ toTell' = <<>> => event = IF onLine THEN "online" ELSE "offline"
<1>1. /\ toTell \in Seq({"offline", "online"}) /\ toTell # <<>> /\ Len(toTell) <= MaxEvents
      /\ toTell' = Tail(toTell) /\ event = Head(toTell)
      /\ toTell[Len(toTell)] = IF onLine THEN "online" ELSE "offline"
      /\ MaxEvents \in Nat
  BY NetworkViewAssumption DEF Hears, NetInv, NetTypeOK
<1>2. /\ toTell' \in Seq({"offline", "online"})
      /\ Len(toTell') = Len(toTell) - 1 /\ Len(toTell) \in Nat \ {0}
      /\ \A k \in 1..Len(toTell') : toTell'[k] = toTell[k + 1]
      /\ event = toTell[1]
  BY <1>1
<1>3. CASE toTell' # <<>>
  <2>1. Len(toTell') \in 1..Len(toTell') /\ Len(toTell') + 1 = Len(toTell)
    BY <1>2, <1>3
  <2>2. toTell'[Len(toTell')] = toTell[Len(toTell)]
    BY <1>2, <2>1
  <2>3. QED
    BY <1>1, <1>2, <1>3, <2>2
<1>4. CASE toTell' = <<>>
  <2>1. Len(toTell) = 1
    BY <1>2, <1>4
  <2>2. QED
    BY <1>1, <1>2, <1>4, <2>1
<1>5. QED
  BY <1>3, <1>4

\* A call of refresh, whatever has been heard: it aborts the active call, or,
\* offline, says so and makes none.
LEMMA PollKeeps ==
  ASSUME NetInv, Poll, UNCHANGED <<onLine, known>>,
         toTell' \in Seq({"offline", "online"}), Len(toTell') <= MaxEvents,
         toTell' # <<>> => toTell'[Len(toTell')] = (IF onLine THEN "online" ELSE "offline"),
         toTell' = <<>> /\ ~onLine => toTell = <<>>
  PROVE  NetInv'
<1>1. CASE onLine
  <2> DEFINE new == [got |-> "pending", failures |-> 0, aborted |-> FALSE]
             n == Last + 1
  <2>1. /\ Last < MaxPolls
        /\ polls' = [i \in 1..n |-> IF i <= Last THEN AbortActive[i] ELSE new]
        /\ active' = n /\ UNCHANGED <<problem, loading>>
    BY <1>1 DEF Poll
  <2>2. /\ Last \in Nat /\ Last \in 0..MaxPolls /\ DOMAIN polls = 1..Last
        /\ MaxPolls \in Nat /\ Retries \in Nat
    BY PollsNumbered, NetworkViewAssumption DEF NetInv
  <2>3. n \in 0..MaxPolls /\ n \in 0..n
    BY <2>1, <2>2
  <2>4. new \in Polls
    BY <2>2 DEF Polls
  <2>5. polls' \in [1..n -> Polls]
    BY <2>1, <2>2, <2>4, Aborts DEF NetInv
  <2>6. Last' = n
    BY <2>3, <2>5, PollsTyped
  <2>7. NetTypeOK'
    BY <2>1, <2>3, <2>5, <2>6 DEF NetInv, NetTypeOK
  <2>8. ASSUME NEW i \in DOMAIN polls', i # active'
        PROVE  polls'[i].aborted \/ polls'[i].got = "done"
    <3>1. i \in 1..Last /\ i <= Last /\ polls'[i] = AbortActive[i]
      BY <2>1, <2>2, <2>8
    <3>2. i = active \/ polls[i].aborted \/ polls[i].got = "done"
      BY <2>2, <3>1 DEF NetInv
    <3>3. QED
      BY <3>1, <3>2, Aborts DEF NetInv
  <2>9. onLine'
    BY <1>1
  <2>10. QED
    BY <2>7, <2>8, <2>9 DEF NetInv
<1>2. CASE ~onLine
  <2>1. problem' = "offline" /\ loading' = FALSE /\ UNCHANGED <<polls, active>>
    BY <1>2 DEF Poll
  <2>2. Last' = Last
    BY <2>1 DEF Last
  <2>3. NetTypeOK'
    BY <2>1, <2>2 DEF NetInv, NetTypeOK
  <2>4. QED
    BY <1>2, <2>1, <2>3 DEF NetInv
<1>3. QED
  BY <1>1, <1>2

LEMMA NetStep == NetInv /\ [NetNext]_netVars => NetInv'
<1> SUFFICES ASSUME NetInv, [NetNext]_netVars
             PROVE  NetInv'
  OBVIOUS
<1>1. CASE Refresh
  BY <1>1, PollKeeps DEF Refresh, NetInv, NetTypeOK
<1>2. CASE OnOnline
  <2>1. /\ toTell' \in Seq({"offline", "online"}) /\ Len(toTell') <= MaxEvents
        /\ toTell' # <<>> =>
             toTell'[Len(toTell')] = IF onLine THEN "online" ELSE "offline"
        /\ toTell' = <<>> => "online" = IF onLine THEN "online" ELSE "offline"
    BY <1>2, Heard DEF OnOnline
  <2>2. Poll /\ UNCHANGED <<onLine, known>>
    BY <1>2 DEF OnOnline
  <2>3. QED
    BY <2>1, <2>2, PollKeeps
<1>3. CASE OnOffline
  <2>1. /\ toTell' \in Seq({"offline", "online"}) /\ Len(toTell') <= MaxEvents
        /\ toTell' # <<>> =>
             toTell'[Len(toTell')] = IF onLine THEN "online" ELSE "offline"
    BY <1>3, Heard DEF OnOffline
  <2>2. /\ polls' = AbortActive /\ problem' = "offline" /\ loading' = FALSE
        /\ UNCHANGED <<onLine, known, active>>
    BY <1>3 DEF OnOffline
  <2>3. Last' = Last /\ polls' \in [1..Last -> Polls]
    BY <2>2, Aborts, PollsNumbered, PollsTyped DEF NetInv
  <2>4. NetTypeOK'
    BY <2>1, <2>2, <2>3 DEF NetInv, NetTypeOK
  <2>5. \A i \in DOMAIN polls' : polls'[i].aborted \/ polls'[i].got = "done"
    BY <2>2, <2>3, Aborts, PollsNumbered DEF NetInv
  <2>6. QED
    BY <2>1, <2>2, <2>4, <2>5 DEF NetInv
<1>4. CASE ConnectionChanges
  <2>1. /\ toTell \in Seq({"offline", "online"}) /\ MaxEvents \in Nat
        /\ Len(toTell) < MaxEvents /\ onLine \in BOOLEAN /\ onLine' = ~onLine
        /\ toTell' = Append(toTell, IF onLine THEN "offline" ELSE "online")
        /\ UNCHANGED <<problem, known, loading, active, polls>>
    BY <1>4, NetworkViewAssumption DEF ConnectionChanges, NetInv, NetTypeOK
  <2>2. /\ toTell' \in Seq({"offline", "online"}) /\ toTell' # <<>>
        /\ Len(toTell') = Len(toTell) + 1 /\ Len(toTell') <= MaxEvents
        /\ toTell'[Len(toTell')] = IF onLine THEN "offline" ELSE "online"
    BY <2>1
  <2>3. Last' = Last
    BY <2>1 DEF Last
  <2>4. NetTypeOK'
    BY <2>1, <2>2, <2>3 DEF NetInv, NetTypeOK
  <2>5. QED
    BY <2>1, <2>2, <2>4 DEF NetInv
<1>5. ASSUME NEW i \in DOMAIN polls, AttemptEnds(i) \/ TriesAgain(i) \/ Concludes(i)
      PROVE  NetInv'
  <2>1. polls[i] \in Polls /\ i \in 1..Last /\ Last \in Nat
    BY PollsNumbered DEF NetInv
  <2>2. \E p \in Polls :
          /\ p.aborted = polls[i].aborted /\ polls' = [polls EXCEPT ![i] = p]
          /\ Concludes(i) => p.got = "done"
    <3>1. ASSUME NEW g \in {"pending", "asleep", "data", "error", "done"}
          PROVE  /\ [polls[i] EXCEPT !.got = g] \in Polls
                 /\ [polls[i] EXCEPT !.got = g].aborted = polls[i].aborted
                 /\ [polls[i] EXCEPT !.got = g].got = g
      BY <2>1 DEF Polls
    <3>2. CASE AttemptEnds(i) /\ polls[i].failures < Retries
               /\ polls' = [polls EXCEPT ![i].got = "asleep", ![i].failures = @ + 1]
      <4> DEFINE q == [got |-> "asleep", failures |-> polls[i].failures + 1,
                       aborted |-> polls[i].aborted]
      <4>1. q \in Polls
        BY <2>1, <3>2, NetworkViewAssumption DEF Polls
      <4>2. polls' = [polls EXCEPT ![i] = q]
        <5> DEFINE r == [polls[i] EXCEPT !.got = "asleep", !.failures = @ + 1]
        <5>1. DOMAIN polls[i] = {"got", "failures", "aborted"}
          BY <2>1 DEF Polls
        <5>2. r = [f \in DOMAIN polls[i] |->
                     IF f = "failures" THEN polls[i].failures + 1
                     ELSE IF f = "got" THEN "asleep" ELSE polls[i][f]]
          OBVIOUS
        <5>3. r = q
          BY <5>1, <5>2
        <5>4. polls' = [polls EXCEPT ![i] = r]
          BY <3>2
        <5>5. QED
          BY <5>3, <5>4
      <4>3. ~Concludes(i)
        BY <3>2 DEF AttemptEnds, Concludes
      <4>4. QED
        BY <4>1, <4>2, <4>3
    <3>3. CASE \E g \in {"pending", "data", "error", "done"} :
                 /\ polls' = [polls EXCEPT ![i].got = g]
                 /\ Concludes(i) => g = "done"
      BY <3>1, <3>3
    <3>4. QED
      BY <1>5, <3>2, <3>3 DEF AttemptEnds, TriesAgain, Concludes
  <2>3. PICK p \in Polls :
          /\ p.aborted = polls[i].aborted /\ polls' = [polls EXCEPT ![i] = p]
          /\ Concludes(i) => p.got = "done"
    BY <2>2
  <2>4. /\ Last' = Last /\ polls' \in [1..Last -> Polls] /\ polls'[i] = p
        /\ \A k \in 1..Last : /\ polls'[k].aborted = polls[k].aborted
                              /\ k # i => polls'[k] = polls[k]
    BY <2>3, PollMoves DEF NetInv
  <2>5. /\ UNCHANGED <<onLine, toTell>>
        /\ Concludes(i) \/ UNCHANGED <<problem, known, loading, active>>
    BY <1>5 DEF AttemptEnds, TriesAgain, Concludes
  <2>6. polls[i].got # "done"
    BY <1>5 DEF AttemptEnds, TriesAgain, Concludes
  <2>7. CASE Concludes(i)
    <3>1. /\ active' = Forgets(i)
          /\ polls[i].aborted => UNCHANGED <<problem, loading>>
          /\ problem' \in {problem, "none", "unavailable"}
          /\ loading' \in {loading, FALSE} /\ known' \in {known, TRUE}
      BY <2>7 DEF Concludes
    <3>2. NetTypeOK'
      <4>1. loading' \in BOOLEAN /\ known' \in BOOLEAN /\ onLine' \in BOOLEAN
        BY <2>5, <3>1 DEF NetInv, NetTypeOK
      <4>2. active' \in 0..Last
        BY <2>1, <3>1 DEF NetInv, NetTypeOK, Forgets
      <4>3. QED
        BY <2>4, <2>5, <3>1, <4>1, <4>2 DEF NetInv, NetTypeOK
    <3>3. \A k \in DOMAIN polls' : k = active' \/ polls'[k].aborted \/ polls'[k].got = "done"
      BY <2>3, <2>4, <2>7, <3>1, PollsNumbered DEF NetInv, Forgets
    <3>4. ~onLine /\ toTell = <<>> => polls[i].aborted
      BY <2>6 DEF NetInv
    <3>5. ~onLine' /\ toTell' = <<>> =>
            /\ problem' = "offline" /\ ~loading'
            /\ \A k \in DOMAIN polls' : polls'[k].aborted \/ polls'[k].got = "done"
      BY <2>3, <2>4, <2>5, <2>7, <3>1, <3>4, PollsNumbered DEF NetInv
    <3>6. QED
      BY <2>5, <3>2, <3>3, <3>5 DEF NetInv
  <2>8. CASE ~Concludes(i)
    <3>1. UNCHANGED <<onLine, toTell, problem, known, loading, active>>
      BY <2>5, <2>8
    <3>2. NetTypeOK'
      BY <2>4, <3>1 DEF NetInv, NetTypeOK
    <3>3. \A k \in DOMAIN polls' : k = active' \/ polls'[k].aborted \/ polls'[k].got = "done"
      BY <2>4, <2>6, <3>1, PollsNumbered DEF NetInv
    <3>4. ~onLine' /\ toTell' = <<>> =>
            /\ problem' = "offline" /\ ~loading'
            /\ \A k \in DOMAIN polls' : polls'[k].aborted \/ polls'[k].got = "done"
      BY <2>4, <2>6, <3>1, PollsNumbered DEF NetInv
    <3>5. QED
      BY <3>1, <3>2, <3>3, <3>4 DEF NetInv
  <2>9. QED
    BY <2>7, <2>8
<1>6. CASE UNCHANGED netVars
  <2>1. Last' = Last
    BY <1>6 DEF netVars, Last
  <2>2. QED
    BY <1>6, <2>1 DEF netVars, NetInv, NetTypeOK
<1>7. QED
  BY <1>1, <1>2, <1>3, <1>4, <1>5, <1>6 DEF NetNext

LEMMA NetStart == NetInit => NetInv
<1> SUFFICES ASSUME NetInit PROVE NetInv
  OBVIOUS
<1>1. DOMAIN polls = {} /\ Last = 0 /\ 1..0 = {}
  BY FS_EmptySet DEF NetInit, Last
<1>2. toTell = <<>> /\ toTell \in Seq({"offline", "online"}) /\ Len(toTell) = 0
  BY DEF NetInit
<1>3. MaxEvents \in Nat /\ MaxPolls \in Nat
  BY NetworkViewAssumption
<1>4. polls \in [1..Last -> Polls] /\ Last \in 0..MaxPolls /\ active \in 0..Last
  BY <1>1, <1>3 DEF NetInit
<1>5. onLine \in BOOLEAN /\ known \in BOOLEAN /\ loading \in BOOLEAN
  BY DEF NetInit
<1>6. NetTypeOK
  BY <1>2, <1>3, <1>4, <1>5 DEF NetInit, NetTypeOK
<1>7. QED
  BY <1>1, <1>2, <1>6 DEF NetInit, NetInv

\* For any number of polls, retries and changes of the connection, a page that
\* has been told that the browser is offline says so, whatever is answered late.
THEOREM SaysOffline == NetSpec => []OfflineSaysSo
<1>1. NetInv => OfflineSaysSo
  BY DEF NetInv, OfflineSaysSo
<1>2. QED
  BY <1>1, NetStart, NetStep, PTL DEF NetSpec

----------------------------------------------------------------------------
(* The lists of an account.                                                *)
(*                                                                         *)
(* What is shown is a run of the account's transactions down to the        *)
(* cursor, and the load whose answer is still wanted, the latest, is for   *)
(* that account, and either begins anew or goes on from that cursor.       *)

Shows(a, from) ==
  \/ list = {} /\ from = 0
  \/ \E top \in from..MaxHeight : from # 0 /\ list = {<<a, n>> : n \in from..top}

GoesOnFrom(f) ==
  /\ f.got \in {"pending", "page"} => f.of = effectFor /\ f.before \in {0, cursor} \ {1}
  /\ f.got = "page" => f.top # 0 /\ (f.before # 0 => f.top = f.before - 1)

ListInv ==
  /\ Shows(effectFor, cursor)
  /\ more => cursor > 1
  /\ latest # 0 => GoesOnFrom(fetches[latest])

PagesInv ==
  /\ PagesTypeOK
  /\ \A a \in Holders : height[a] # 0
  /\ open # "pool" => ListInv

LEMMA Page ==
  ASSUME NEW a \in Holders, NEW top \in 1..MaxHeight
  PROVE  /\ Bottom(top) \in 1..top /\ Bottom(top) \in 0..MaxHeight
         /\ PageOf(a, top) = {<<a, n>> : n \in Bottom(top)..top}
         /\ PageOf(a, top) \subseteq Items
<1>1. PageSize \in Nat \ {0} /\ MaxHeight \in Nat \ {0} /\ top \in Nat
  BY AccountPagesAssumption
<1>2. Bottom(top) \in 1..top
  BY <1>1 DEF Bottom
<1>3. {k \in 1..top : k > top - PageSize} = Bottom(top)..top
  BY <1>1 DEF Bottom
<1>4. Bottom(top)..top \subseteq 1..MaxHeight
  BY <1>1, <1>2
<1>5. QED
  BY <1>1, <1>2, <1>3, <1>4 DEF PageOf, Items

LEMMA Joins ==
  ASSUME NEW a, NEW bottom \in Nat, NEW mid \in Nat, NEW top \in Nat,
         bottom < mid, mid <= top
  PROVE  {<<a, n>> : n \in mid..top} \cup {<<a, n>> : n \in bottom..(mid - 1)}
           = {<<a, n>> : n \in bottom..top}
<1>1. (mid..top) \cup (bottom..(mid - 1)) = bottom..top
  OBVIOUS
<1>2. QED
  BY <1>1

LEMMA FetchesNumbered ==
  ASSUME PagesTypeOK
  PROVE  /\ Made \in 0..MaxLoads /\ Made \in Nat /\ DOMAIN fetches = 1..Made
         /\ \A i \in 1..Made : fetches[i] \in Requests
         /\ latest \in 0..Made /\ (latest # 0 => latest \in 1..Made)
<1>1. MaxLoads \in Nat
  BY AccountPagesAssumption
<1>2. QED
  BY <1>1 DEF PagesTypeOK

LEMMA FetchesTyped ==
  ASSUME NEW n \in 0..MaxLoads, fetches' \in [1..n -> Requests]
  PROVE  Made' = n
<1>1. MaxLoads \in Nat
  BY AccountPagesAssumption
<1>2. n \in Nat /\ DOMAIN fetches' = 1..n
  BY <1>1
<1>3. QED
  BY <1>2, CountTo DEF Made

LEMMA SignalAborts ==
  ASSUME PagesTypeOK
  PROVE  AbortSignalled \in [1..Made -> Requests]
<1>1. ASSUME NEW f \in Requests, NEW b \in BOOLEAN
      PROVE  [f EXCEPT !.aborted = b] \in Requests
  BY <1>1 DEF Requests
<1>2. ASSUME NEW i \in 1..Made
      PROVE  (fetches[i].aborted \/ fetches[i].signal) \in BOOLEAN
  OBVIOUS
<1>3. QED
  BY <1>1, <1>2, FetchesNumbered DEF AbortSignalled

\* A load that is made is the latest.
LEMMA LoadMakes ==
  ASSUME PagesTypeOK, NEW table \in [1..Made -> Requests], NEW a \in Holders,
         NEW before \in 0..MaxHeight, NEW signal \in BOOLEAN,
         Load(table, a, before, signal)
  PROVE  /\ Made' \in 0..MaxLoads /\ fetches' \in [1..Made' -> Requests]
         /\ latest' = Made' /\ latest' # 0 /\ busy' \in BOOLEAN
         /\ fetches'[latest'].of = a /\ fetches'[latest'].before = before
         /\ fetches'[latest'].got = "pending"
<1> DEFINE new == [of |-> a, before |-> before, signal |-> signal, aborted |-> FALSE,
                   got |-> "pending", top |-> 0]
           n == Made + 1
<1>1. /\ Made < MaxLoads /\ latest' = n /\ busy' = TRUE
      /\ fetches' = [i \in 1..n |-> IF i <= Made THEN table[i] ELSE new]
  BY DEF Load
<1>2. Made \in Nat /\ MaxLoads \in Nat /\ MaxHeight \in Nat
  BY FetchesNumbered, AccountPagesAssumption
<1>3. n \in 0..MaxLoads /\ n \in 1..n /\ ~(n <= Made)
  BY <1>1, <1>2
<1>4. new \in Requests
  BY <1>2 DEF Requests
<1>5. fetches' \in [1..n -> Requests]
  BY <1>1, <1>2, <1>4
<1>6. Made' = n
  BY <1>3, <1>5, FetchesTyped
<1>7. fetches'[n] = new
  BY <1>1, <1>3
<1>8. busy' \in BOOLEAN
  BY <1>1
<1>9. latest' # 0 /\ latest' = Made' /\ Made' \in 0..MaxLoads
  BY <1>1, <1>2, <1>3, <1>6
<1>10. fetches' \in [1..Made' -> Requests]
  BY <1>5, <1>6
<1>11. fetches'[latest'] = new
  BY <1>1, <1>7
<1>12. new.of = a /\ new.before = before /\ new.got = "pending"
  OBVIOUS
<1> HIDE DEF new
<1>13. QED
  BY <1>8, <1>9, <1>10, <1>11, <1>12

\* One that is answered or resumed.
LEMMA FetchMoves ==
  ASSUME PagesTypeOK, NEW i \in DOMAIN fetches, NEW f \in Requests,
         fetches' = [fetches EXCEPT ![i] = f]
  PROVE  /\ Made' = Made /\ fetches' \in [1..Made -> Requests]
         /\ fetches'[i] = f
         /\ \A k \in 1..Made : k # i => fetches'[k] = fetches[k]
<1>1. fetches' \in [1..Made -> Requests]
  BY DEF PagesTypeOK
<1>2. Made' = Made
  BY <1>1, FetchesNumbered, FetchesTyped
<1>3. QED
  BY <1>1, <1>2, FetchesNumbered DEF PagesTypeOK

LEMMA EffectKeeps == PagesInv /\ LoadEffect => PagesInv'
<1> SUFFICES ASSUME PagesInv, LoadEffect
             PROVE  PagesInv'
  OBVIOUS
<1>1. /\ effectFor' = account /\ account \in Drawn
      /\ UNCHANGED <<open, account, height>>
      /\ list' \in {list, {}} /\ (open # "pool" => list' = {})
      /\ cursor' = 0 /\ more' = FALSE
      /\ AbortSignalled \in [1..Made -> Requests]
      /\ MaxHeight \in Nat
  BY SignalAborts, AccountPagesAssumption DEF LoadEffect, PagesInv, PagesTypeOK
<1>2. CASE account = Nobody
  <2>1. latest' = 0 /\ fetches' = AbortSignalled /\ busy' = busy
    BY <1>2 DEF LoadEffect
  <2>2. Made' = Made /\ Made \in 0..MaxLoads /\ 0 \in 0..Made
    BY <1>1, <2>1, FetchesNumbered, FetchesTyped DEF PagesInv
  <2>3. PagesTypeOK'
    <3>1. {account', effectFor'} \subseteq Drawn
      BY <1>1
    <3>2. list' \subseteq Items /\ cursor' \in 0..MaxHeight
      BY <1>1 DEF PagesInv, PagesTypeOK
    <3> more' \in BOOLEAN
      BY <1>1
    <3>3. QED
      BY <1>1, <2>1, <2>2, <3>1, <3>2 DEF PagesInv, PagesTypeOK
  <2>4. QED
    BY <1>1, <2>1, <2>3 DEF PagesInv, ListInv, Shows
<1>3. CASE account # Nobody
  <2>1. /\ account \in Holders /\ (open = "pool") \in BOOLEAN /\ 0 \in 0..MaxHeight
        /\ Load(AbortSignalled, account, 0, open = "pool")
    BY <1>1, <1>3 DEF LoadEffect, Drawn
  <2>2. /\ Made' \in 0..MaxLoads /\ fetches' \in [1..Made' -> Requests]
        /\ latest' = Made' /\ latest' # 0 /\ busy' \in BOOLEAN
        /\ fetches'[latest'].of = account /\ fetches'[latest'].before = 0
        /\ fetches'[latest'].got = "pending"
    BY <1>1, <2>1, LoadMakes DEF PagesInv
  <2>3. PagesTypeOK'
    <3>1. {account', effectFor'} \subseteq Drawn
      BY <1>1
    <3>2. list' \subseteq Items /\ cursor' \in 0..MaxHeight
      BY <1>1 DEF PagesInv, PagesTypeOK
    <3> more' \in BOOLEAN
      BY <1>1
    <3>3. latest' \in 0..Made'
      BY <2>2, AccountPagesAssumption
    <3>4. QED
      BY <1>1, <2>2, <3>1, <3>2, <3>3 DEF PagesInv, PagesTypeOK
  <2>4. GoesOnFrom(fetches[latest])'
    BY <1>1, <2>2 DEF GoesOnFrom
  <2>5. QED
    BY <1>1, <2>3, <2>4 DEF PagesInv, ListInv, Shows
<1>4. QED
  BY <1>2, <1>3

\* A load for the account that the list is of, from its cursor or from the top.
LEMMA LoadKeeps ==
  ASSUME PagesInv, effectFor # Nobody, NEW before \in 0..MaxHeight,
         before \in {0, cursor} \ {1},
         Load(fetches, effectFor, before, FALSE),
         UNCHANGED <<open, account, effectFor, height, list, cursor, more>>
  PROVE  PagesInv'
<1>1. effectFor \in Holders /\ fetches \in [1..Made -> Requests]
  BY DEF PagesInv, PagesTypeOK, Drawn
<1>2. /\ Made' \in 0..MaxLoads /\ fetches' \in [1..Made' -> Requests]
      /\ latest' = Made' /\ latest' # 0 /\ busy' \in BOOLEAN
      /\ fetches'[latest'].of = effectFor /\ fetches'[latest'].before = before
      /\ fetches'[latest'].got = "pending"
  BY <1>1, LoadMakes DEF PagesInv
<1>3. latest' \in 0..Made'
  BY <1>2, AccountPagesAssumption
<1>4. PagesTypeOK'
  BY <1>2, <1>3 DEF PagesInv, PagesTypeOK
<1>5. GoesOnFrom(fetches[latest])'
  BY <1>2 DEF GoesOnFrom
<1>6. QED
  BY <1>4, <1>5 DEF PagesInv, ListInv, Shows

LEMMA AnswerKeeps ==
  ASSUME PagesInv, NEW i \in DOMAIN fetches, Answers(i)
  PROVE  PagesInv'
<1> DEFINE r == fetches[i]
           upTo == IF r.before = 0 THEN height[r.of] ELSE r.before - 1
<1>1. /\ i \in 1..Made /\ r \in Requests /\ r.got = "pending"
      /\ MaxHeight \in Nat /\ (latest # 0 => latest \in 1..Made)
      /\ UNCHANGED <<open, account, effectFor, height, latest, list, cursor, more, busy>>
  BY FetchesNumbered, AccountPagesAssumption DEF Answers, PagesInv
<1>2. height[r.of] \in 1..MaxHeight /\ r.before \in 0..MaxHeight
  BY <1>1 DEF PagesInv, PagesTypeOK, Requests
<1>3. upTo \in 0..MaxHeight
  BY <1>1, <1>2
<1>4. PICK f \in Requests :
        /\ fetches' = [fetches EXCEPT ![i] = f]
        /\ f.of = r.of /\ f.before = r.before
        /\ f.got # "error" => f.got = "page" /\ f.top = upTo
  <2>1. CASE fetches' = [fetches EXCEPT ![i].got = "error"]
    <3> DEFINE e == [r EXCEPT !.got = "error"]
    <3>1. e \in Requests /\ e.of = r.of /\ e.before = r.before /\ e.got = "error"
      BY <1>1 DEF Requests
    <3>2. fetches' = [fetches EXCEPT ![i] = e]
      BY <2>1
    <3> HIDE DEF e
    <3>3. QED
      BY <3>1, <3>2
  <2>2. CASE fetches' = [fetches EXCEPT ![i].got = "page", ![i].top = upTo]
    <3> DEFINE q == [of |-> r.of, before |-> r.before, signal |-> r.signal,
                     aborted |-> r.aborted, got |-> "page", top |-> upTo]
               e == [r EXCEPT !.got = "page", !.top = upTo]
    <3>1. q \in Requests
      BY <1>1, <1>3 DEF Requests
    <3>2. DOMAIN r = {"of", "before", "signal", "aborted", "got", "top"}
      BY <1>1 DEF Requests
    <3> HIDE DEF upTo
    <3>3. e = [g \in DOMAIN r |-> IF g = "top" THEN upTo
                                  ELSE IF g = "got" THEN "page" ELSE r[g]]
      OBVIOUS
    <3>4. e = q
      BY <3>2, <3>3
    <3>5. fetches' = [fetches EXCEPT ![i] = e]
      BY <2>2
    <3>6. q.of = r.of /\ q.before = r.before /\ q.got = "page" /\ q.top = upTo
      OBVIOUS
    <3>7. fetches' = [fetches EXCEPT ![i] = q]
      BY <3>4, <3>5
    <3> HIDE DEF q
    <3>8. QED
      BY <3>1, <3>6, <3>7
  <2>3. QED
    BY <2>1, <2>2 DEF Answers
<1>5. /\ Made' = Made /\ fetches' \in [1..Made -> Requests] /\ fetches'[i] = f
      /\ \A k \in 1..Made : k # i => fetches'[k] = fetches[k]
  BY <1>4, FetchMoves DEF PagesInv
<1>6. PagesTypeOK'
  BY <1>1, <1>5 DEF PagesInv, PagesTypeOK
<1>7. ASSUME open # "pool", latest # 0
      PROVE  GoesOnFrom(fetches[latest])'
  <2>1. CASE latest # i
    BY <1>1, <1>5, <1>7, <2>1 DEF PagesInv, ListInv, GoesOnFrom
  <2>2. CASE latest = i
    <3>1. r.of = effectFor /\ r.before \in {0, cursor} \ {1}
      BY <1>1, <1>7, <2>2 DEF PagesInv, ListInv, GoesOnFrom
    <3>2. upTo # 0 /\ (r.before # 0 => upTo = r.before - 1)
      BY <1>2, <3>1
    <3>3. QED
      BY <1>1, <1>4, <1>5, <2>2, <3>1, <3>2 DEF GoesOnFrom
  <2>3. QED
    BY <2>1, <2>2
<1>8. QED
  BY <1>1, <1>6, <1>7 DEF PagesInv, ListInv, Shows

LEMMA ResumeKeeps ==
  ASSUME PagesInv, NEW i \in DOMAIN fetches, Resumes(i)
  PROVE  PagesInv'
<1> DEFINE r == fetches[i]
           f == [r EXCEPT !.got = "done", !.top = 0, !.before = 0]
           q == [of |-> r.of, before |-> 0, signal |-> r.signal,
                 aborted |-> r.aborted, got |-> "done", top |-> 0]
<1>1. /\ i \in 1..Made /\ r \in Requests /\ r.got \in {"page", "error"}
      /\ MaxHeight \in Nat /\ (latest # 0 => latest \in 1..Made)
      /\ fetches' = [fetches EXCEPT ![i] = f]
      /\ UNCHANGED <<open, account, effectFor, height, latest>>
  BY FetchesNumbered, AccountPagesAssumption DEF Resumes, PagesInv
<1>2. f = q
  <2>1. DOMAIN r = {"of", "before", "signal", "aborted", "got", "top"}
    BY <1>1 DEF Requests
  <2>2. f = [g \in DOMAIN r |-> IF g = "before" THEN 0 ELSE IF g = "top" THEN 0
                                ELSE IF g = "got" THEN "done" ELSE r[g]]
    OBVIOUS
  <2>3. QED
    BY <2>1, <2>2
<1>3. q \in Requests
  BY <1>1 DEF Requests
<1>4. /\ Made' = Made /\ fetches' \in [1..Made -> Requests] /\ fetches'[i].got = "done"
      /\ \A k \in 1..Made : k # i => fetches'[k] = fetches[k]
  BY <1>1, <1>2, <1>3, FetchMoves DEF PagesInv
<1>5. busy' \in BOOLEAN
  BY DEF Resumes
<1>6. CASE ~(Wanted(i) /\ r.got = "page")
  <2>1. UNCHANGED <<list, cursor, more>>
    BY <1>6 DEF Resumes
  <2>2. PagesTypeOK'
    BY <1>1, <1>4, <1>5, <2>1 DEF PagesInv, PagesTypeOK
  <2>3. open # "pool" /\ latest # 0 => GoesOnFrom(fetches[latest])'
    BY <1>1, <1>4, <2>1 DEF PagesInv, ListInv, GoesOnFrom
  <2>4. QED
    BY <1>1, <2>1, <2>2, <2>3 DEF PagesInv, ListInv, Shows
<1>7. CASE Wanted(i) /\ r.got = "page"
  <2>1. /\ list' = IF r.before = 0 THEN PageOf(r.of, r.top) ELSE list \cup PageOf(r.of, r.top)
        /\ cursor' = Bottom(r.top) /\ more' = (Bottom(r.top) > 1)
    BY <1>7 DEF Resumes
  <2>2. r.of \in Holders /\ r.top \in 0..MaxHeight /\ r.before \in 0..MaxHeight
    BY <1>1 DEF Requests
  <2>3. more' \in BOOLEAN
    BY <2>1
  <2>4. /\ Bottom(r.top) \in 0..MaxHeight /\ PageOf(r.of, r.top) \subseteq Items
    <3>1. CASE r.top # 0
      BY <1>1, <2>2, <3>1, Page
    <3>2. CASE r.top = 0
      <4>1. PageSize \in Nat \ {0} /\ MaxHeight \in Nat \ {0}
        BY AccountPagesAssumption
      <4>2. Bottom(0) = 1 /\ PageOf(r.of, 0) = {}
        BY <4>1 DEF Bottom, PageOf
      <4>3. QED
        BY <3>2, <4>1, <4>2
    <3>3. QED
      BY <3>1, <3>2
  <2>5. PagesTypeOK'
    <3>1. list' \subseteq Items /\ cursor' \in 0..MaxHeight
      BY <2>1, <2>4 DEF PagesInv, PagesTypeOK
    <3>2. QED
      BY <1>1, <1>4, <1>5, <2>3, <3>1 DEF PagesInv, PagesTypeOK
  <2>6. ASSUME open # "pool"
        PROVE  ListInv'
    <3>1. i = latest /\ latest # 0
      BY <1>1, <1>7, <2>6 DEF Wanted
    <3>2. /\ r.of = effectFor /\ r.before \in {0, cursor} \ {1}
          /\ r.top # 0 /\ (r.before # 0 => r.top = r.before - 1)
      BY <1>7, <2>6, <3>1 DEF PagesInv, ListInv, GoesOnFrom
    <3>3. /\ Bottom(r.top) \in 1..r.top /\ r.top \in 1..MaxHeight
          /\ PageOf(r.of, r.top) = {<<effectFor, n>> : n \in Bottom(r.top)..r.top}
      BY <1>1, <2>2, <3>2, Page
    <3>4. \E top \in cursor'..MaxHeight :
            list' = {<<effectFor, n>> : n \in cursor'..top}
      <4>1. CASE r.before = 0
        <5>1. r.top \in cursor'..MaxHeight
          BY <1>1, <2>1, <3>3
        <5>2. QED
          BY <2>1, <3>3, <4>1, <5>1
      <4>2. CASE r.before # 0
        <5>1. cursor # 0 /\ r.top = cursor - 1 /\ cursor \in 0..MaxHeight
          BY <3>2, <4>2 DEF PagesInv, PagesTypeOK
        <5>2. PICK top \in cursor..MaxHeight : list = {<<effectFor, n>> : n \in cursor..top}
          BY <2>6, <5>1 DEF PagesInv, ListInv, Shows
        <5>3. /\ cursor' \in Nat /\ cursor \in Nat /\ top \in Nat
              /\ cursor' < cursor /\ cursor <= top
          BY <1>1, <2>1, <3>3, <5>1
        <5>4. list' = {<<effectFor, n>> : n \in cursor..top}
                        \cup {<<effectFor, n>> : n \in cursor'..(cursor - 1)}
          BY <2>1, <3>3, <4>2, <5>1, <5>2
        <5>5. list' = {<<effectFor, n>> : n \in cursor'..top}
          BY <5>3, <5>4, Joins
        <5>6. QED
          BY <1>1, <5>1, <5>3, <5>5
      <4>3. QED
        BY <4>1, <4>2
    <3>5. cursor' # 0
      BY <1>1, <2>1, <3>3
    <3> more' => cursor' > 1
      BY <2>1, Zenon
    <3>6. GoesOnFrom(fetches[latest])'
      BY <1>1, <1>4, <3>1 DEF GoesOnFrom
    <3>7. QED
      BY <1>1, <3>4, <3>5, <3>6 DEF ListInv, Shows
  <2>7. QED
    BY <1>1, <2>5, <2>6 DEF PagesInv
<1>8. QED
  BY <1>6, <1>7

LEMMA PagesStep == PagesInv /\ [PagesNext]_pagesVars => PagesInv'
<1> SUFFICES ASSUME PagesInv, [PagesNext]_pagesVars
             PROVE  PagesInv'
  OBVIOUS
<1>1. ASSUME UNCHANGED <<open, effectFor, latest, fetches, list, cursor, more, busy>>,
             account' \in Drawn, height' \in [Holders -> 0..MaxHeight],
             \A a \in Holders : height'[a] # 0
      PROVE  PagesInv'
  <2>1. Made' = Made
    BY <1>1 DEF Made
  <2>2. QED
    BY <1>1, <2>1 DEF PagesInv, PagesTypeOK, ListInv, Shows, GoesOnFrom
<1>2. CASE AccountSwitches
  BY <1>1, <1>2 DEF AccountSwitches, PagesInv, PagesTypeOK
<1>3. CASE Reload
  <2>1. 0 \in 0..MaxHeight /\ 0 \in {0, cursor} \ {1}
    BY AccountPagesAssumption
  <2>2. QED
    BY <1>3, <2>1, LoadKeeps DEF Reload
<1>4. CASE LoadOlder
  <2>1. /\ effectFor = account /\ account # Nobody /\ cursor \in 0..MaxHeight
        /\ cursor > 1 /\ Load(fetches, effectFor, cursor, FALSE)
        /\ UNCHANGED <<open, account, effectFor, height, list, cursor, more>>
    BY <1>4 DEF LoadOlder, PagesInv, PagesTypeOK, ListInv
  <2>2. cursor \in {0, cursor} \ {1}
    BY <2>1
  <2>3. QED
    BY <2>1, <2>2, LoadKeeps
<1>5. ASSUME NEW a \in Holders, Transacts(a)
      PROVE  PagesInv'
  <2>1. /\ height[a] \in 1..MaxHeight /\ height[a] < MaxHeight /\ MaxHeight \in Nat
        /\ height \in [Holders -> 0..MaxHeight]
        /\ height' = [height EXCEPT ![a] = height[a] + 1]
        /\ UNCHANGED <<open, account, effectFor, latest, fetches, list, cursor, more, busy>>
    BY <1>5, AccountPagesAssumption DEF Transacts, PagesInv, PagesTypeOK
  <2>2. height[a] + 1 \in 1..MaxHeight
    BY <2>1
  <2>3. height' \in [Holders -> 0..MaxHeight] /\ \A b \in Holders : height'[b] # 0
    BY <2>1, <2>2 DEF PagesInv
  <2>4. QED
    BY <1>1, <2>1, <2>3 DEF PagesInv, PagesTypeOK
<1>6. CASE UNCHANGED pagesVars
  BY <1>1, <1>6 DEF pagesVars, PagesInv, PagesTypeOK
<1>7. QED
  BY <1>2, <1>3, <1>4, <1>5, <1>6, EffectKeeps, AnswerKeeps, ResumeKeeps DEF PagesNext

LEMMA PagesStart == PagesInit => PagesInv
<1> SUFFICES ASSUME PagesInit PROVE PagesInv
  OBVIOUS
<1>1. /\ PageSize \in Nat \ {0} /\ MaxHeight \in Nat \ {0} /\ MaxLoads \in Nat \ {0}
      /\ PageSize < MaxHeight
  BY AccountPagesAssumption
<1>2. DOMAIN fetches = {} /\ Made = 0 /\ 1..0 = {}
  BY FS_EmptySet DEF PagesInit, Made
<1>3. height \in [Holders -> 0..MaxHeight] /\ \A a \in Holders : height[a] # 0
  BY <1>1 DEF PagesInit
<1>4. fetches \in [1..Made -> Requests] /\ Made \in 0..MaxLoads /\ latest \in 0..Made
  BY <1>1, <1>2 DEF PagesInit
<1>5. more \in BOOLEAN /\ busy \in BOOLEAN
  BY DEF PagesInit
<1>6. PagesTypeOK
  BY <1>1, <1>3, <1>4, <1>5 DEF PagesInit, PagesTypeOK, Drawn
<1>7. QED
  BY <1>3, <1>6 DEF PagesInit, PagesInv, ListInv, Shows

\* For any accounts, page size and number of loads, whatever overtakes what, the
\* list is a run of the account's history down to the cursor.
THEOREM ListsAccount == PagesSpec => []ListOfAccount
<1>1. PagesInv => ListOfAccount
  BY DEF PagesInv, ListInv, Shows, ListOfAccount
<1>2. QED
  BY <1>1, PagesStart, PagesStep, PTL DEF PagesSpec

----------------------------------------------------------------------------
(* The amount.                                                             *)
(*                                                                         *)
(* The powers of ten are defined by recursion.  That they are what their   *)
(* definition says is shown from partial tables of them, and what holds of *)
(* them all by the smallest exponent of which it would not hold.           *)

Table(g, n) ==
  \A k \in 0..n : g[k] = IF k = 0 THEN 1 ELSE 10 * g[k - 1]

LEMMA SmallestExponent ==
  ASSUME NEW S \in SUBSET Nat, S # {}
  PROVE  \E n \in S : \A m \in S : n <= m
<1> DEFINE Less == OpToRel(<, Nat)
<1>1. IsWellFoundedOn(Less, Nat)
  BY NatLessThanWellFounded
<1>2. \A m, n \in Nat : <<m, n>> \in Less <=> m < n
  BY DEF OpToRel
<1> HIDE DEF Less
<1>3. PICK n \in S : \A m \in S : ~(<<m, n>> \in Less)
  BY <1>1, WFMin
<1>4. ASSUME NEW m \in S
      PROVE  n <= m
  <2>1. m \in Nat /\ n \in Nat /\ ~(m < n)
    BY <1>2, <1>3, <1>4
  <2>2. QED
    BY <2>1
<1>5. QED
  BY <1>4

LEMMA TablesExist == \A n \in Nat : \E g \in [Nat -> Nat] : Table(g, n)
<1> DEFINE S == {n \in Nat : ~\E g \in [Nat -> Nat] : Table(g, n)}
<1> SUFFICES ASSUME S # {} PROVE FALSE
  OBVIOUS
<1>1. PICK n \in S : \A m \in S : n <= m
  <2>1. S \in SUBSET Nat
    OBVIOUS
  <2> HIDE DEF S
  <2>2. QED
    BY <2>1, SmallestExponent
<1>2. CASE n = 0
  <2>1. [k \in Nat |-> 1] \in [Nat -> Nat] /\ Table([k \in Nat |-> 1], 0)
    BY DEF Table
  <2>2. QED
    BY <1>1, <1>2, <2>1
<1>3. CASE n # 0
  <2>1. n \in Nat /\ n - 1 \in Nat /\ n - 1 \notin S
    BY <1>1, <1>3
  <2>2. PICK g \in [Nat -> Nat] : Table(g, n - 1)
    BY <2>1
  <2> DEFINE h == [g EXCEPT ![n] = 10 * g[n - 1]]
  <2>3. h \in [Nat -> Nat]
    BY <2>1, <2>2
  <2>4. Table(h, n)
    BY <2>1, <2>2 DEF Table
  <2>5. QED
    BY <1>1, <2>3, <2>4
<1>4. QED
  BY <1>2, <1>3

LEMMA TablesAgree ==
  ASSUME NEW g, NEW h, NEW m \in Nat, NEW n \in Nat, Table(g, m), Table(h, n)
  PROVE  \A k \in Nat : k <= m /\ k <= n => g[k] = h[k]
<1> DEFINE S == {k \in Nat : k <= m /\ k <= n /\ g[k] # h[k]}
<1> SUFFICES ASSUME S # {} PROVE FALSE
  OBVIOUS
<1>1. PICK k \in S : \A j \in S : k <= j
  <2>1. S \in SUBSET Nat
    OBVIOUS
  <2> HIDE DEF S
  <2>2. QED
    BY <2>1, SmallestExponent
<1>2. k \in 0..m /\ k \in 0..n /\ k \in Nat
  BY <1>1
<1>3. CASE k = 0
  BY <1>1, <1>2, <1>3 DEF Table
<1>4. CASE k # 0
  <2>1. k - 1 \in Nat /\ k - 1 \notin S /\ k - 1 <= m /\ k - 1 <= n
    BY <1>1, <1>2, <1>4
  <2>2. g[k - 1] = h[k - 1]
    BY <2>1
  <2>3. QED
    BY <1>1, <1>2, <1>4, <2>2 DEF Table
<1>5. QED
  BY <1>3, <1>4

LEMMA PowersDefined ==
  \A n \in Nat : PowerOf10[n] = IF n = 0 THEN 1 ELSE 10 * PowerOf10[n - 1]
<1> DEFINE T(n) == CHOOSE g \in [Nat -> Nat] : Table(g, n)
           f == [n \in Nat |-> T(n)[n]]
<1>1. ASSUME NEW n \in Nat
      PROVE  T(n) \in [Nat -> Nat] /\ Table(T(n), n)
  BY TablesExist
<1> HIDE DEF T
<1>2. ASSUME NEW n \in Nat
      PROVE  f[n] = IF n = 0 THEN 1 ELSE 10 * f[n - 1]
  <2>1. T(n)[n] = IF n = 0 THEN 1 ELSE 10 * T(n)[n - 1]
    BY <1>1 DEF Table
  <2>2. CASE n = 0
    BY <2>1, <2>2
  <2>3. CASE n # 0
    <3>1. n - 1 \in Nat /\ n - 1 <= n /\ n - 1 <= n - 1
      BY <2>3
    <3>2. T(n)[n - 1] = T(n - 1)[n - 1]
      BY <1>1, <3>1, TablesAgree
    <3>3. QED
      BY <2>1, <2>3, <3>1, <3>2
  <2>4. QED
    BY <2>2, <2>3
<1>3. f = [n \in Nat |-> IF n = 0 THEN 1 ELSE 10 * f[n - 1]]
  BY <1>2
<1> HIDE DEF f
<1>4. PowerOf10 = [n \in Nat |-> IF n = 0 THEN 1 ELSE 10 * PowerOf10[n - 1]]
  BY <1>3 DEF PowerOf10
<1>5. QED
  BY <1>4

LEMMA Powers == \A n \in Nat : PowerOf10[n] \in Nat /\ PowerOf10[n] > 0
<1> DEFINE S == {n \in Nat : ~(PowerOf10[n] \in Nat /\ PowerOf10[n] > 0)}
<1> SUFFICES ASSUME S # {} PROVE FALSE
  OBVIOUS
<1>1. PICK n \in S : \A m \in S : n <= m
  <2>1. S \in SUBSET Nat
    OBVIOUS
  <2> HIDE DEF S
  <2>2. QED
    BY <2>1, SmallestExponent
<1>2. CASE n = 0
  BY <1>1, <1>2, PowersDefined
<1>3. CASE n # 0
  <2>1. n - 1 \in Nat /\ n - 1 \notin S
    BY <1>1, <1>3
  <2>2. PowerOf10[n - 1] \in Nat /\ PowerOf10[n - 1] > 0
    BY <2>1
  <2>3. PowerOf10[n] = 10 * PowerOf10[n - 1]
    BY <1>1, <1>3, PowersDefined
  <2>4. QED
    BY <1>1, <2>2, <2>3
<1>4. QED
  BY <1>2, <1>3

LEMMA TimesTen ==
  ASSUME NEW a \in Nat, NEW b \in Nat
  PROVE  10 * (a * b) = a * (10 * b)
OBVIOUS

LEMMA PowersAdd ==
  ASSUME NEW a \in Nat, NEW b \in Nat
  PROVE  PowerOf10[a + b] = PowerOf10[a] * PowerOf10[b]
<1> DEFINE S == {n \in Nat : PowerOf10[a + n] # PowerOf10[a] * PowerOf10[n]}
<1> SUFFICES ASSUME S # {} PROVE FALSE
  OBVIOUS
<1>1. PICK n \in S : \A m \in S : n <= m
  <2>1. S \in SUBSET Nat
    OBVIOUS
  <2> HIDE DEF S
  <2>2. QED
    BY <2>1, SmallestExponent
<1>2. n \in Nat /\ PowerOf10[a + n] # PowerOf10[a] * PowerOf10[n]
  BY <1>1
<1>3. CASE n = 0
  <2>1. PowerOf10[n] = 1 /\ a + n = a /\ PowerOf10[a] \in Nat
    BY <1>3, PowersDefined, Powers
  <2>2. QED
    BY <1>2, <2>1
<1>4. CASE n # 0
  <2>1. n - 1 \in Nat /\ n - 1 \notin S
    BY <1>1, <1>4
  <2>2. PowerOf10[a + (n - 1)] = PowerOf10[a] * PowerOf10[n - 1]
    BY <2>1
  <2>3. PowerOf10[n] = 10 * PowerOf10[n - 1]
    BY <1>2, <1>4, PowersDefined
  <2>4. a + n \in Nat /\ a + n # 0 /\ (a + n) - 1 = a + (n - 1)
    BY <1>2, <1>4
  <2>5. PowerOf10[a + n] = 10 * PowerOf10[a + (n - 1)]
    BY <2>4, PowersDefined
  <2>6. 10 * (PowerOf10[a] * PowerOf10[n - 1]) = PowerOf10[a] * (10 * PowerOf10[n - 1])
    BY <2>1, Powers, TimesTen
  <2>7. QED
    BY <1>2, <2>2, <2>3, <2>5, <2>6
<1>5. QED
  BY <1>3, <1>4

LEMMA PowersSplit ==
  ASSUME NEW n \in Nat, NEW k \in 0..n
  PROVE  PowerOf10[n] = PowerOf10[n - k] * PowerOf10[k]
<1>1. n - k \in Nat /\ k \in Nat /\ (n - k) + k = n
  OBVIOUS
<1>2. QED
  BY <1>1, PowersAdd

\* The arithmetic of texts.
LEMMA ExactQuotient ==
  ASSUME NEW n \in Nat, NEW m \in Nat, m > 0, n % m = 0
  PROVE  n \div m \in Nat /\ n = (n \div m) * m
OBVIOUS

LEMMA CancelEqual ==
  ASSUME NEW a \in Int, NEW b \in Int, NEW c \in Nat, c > 0, a * c = b * c
  PROVE  a = b
OBVIOUS

LEMMA CancelLess ==
  ASSUME NEW a \in Int, NEW b \in Int, NEW c \in Nat, c > 0, a * c <= b * c
  PROVE  a <= b
OBVIOUS

LEMMA Products ==
  ASSUME NEW a \in Int, NEW b \in Int, NEW c \in Int
  PROVE  /\ a * b \in Int /\ a * b = b * a
         /\ (a * b) * c = a * (b * c) /\ (a * b) * c = (a * c) * b
         /\ (a - b) * c = a * c - b * c
OBVIOUS

LEMMA Scales ==
  ASSUME NEW a \in Int, NEW b \in Int, NEW c \in Nat, a <= b
  PROVE  a * c <= b * c
OBVIOUS

Texts == [digits : Nat, places : Nat]

\* t stands for v base units of a coin with d decimals.
Worth(t, v, d) == t.digits * PowerOf10[d] = v * PowerOf10[t.places]

LEMMA MostZeros ==
  ASSUME NEW n \in Nat, NEW p \in Nat
  PROVE  \E k \in 0..p : /\ n % PowerOf10[k] = 0
                         /\ \A j \in 0..p : n % PowerOf10[j] = 0 => j <= k
<1> DEFINE S == {m \in 0..p : n % PowerOf10[p - m] = 0}
<1>1. p \in S
  <2>1. p \in 0..p /\ p - p = 0 /\ PowerOf10[0] = 1
    BY PowersDefined
  <2>2. n % 1 = 0
    OBVIOUS
  <2>3. QED
    BY <2>1, <2>2
<1>2. S \in SUBSET Nat
  OBVIOUS
<1>3. PICK m \in S : \A i \in S : m <= i
  <2> HIDE DEF S
  <2>1. QED
    BY <1>1, <1>2, SmallestExponent
<1>4. p - m \in 0..p /\ n % PowerOf10[p - m] = 0
  BY <1>3
<1>5. ASSUME NEW j \in 0..p, n % PowerOf10[j] = 0
      PROVE  j <= p - m
  <2>1. p - j \in 0..p /\ p - (p - j) = j
    OBVIOUS
  <2>2. p - j \in S
    BY <1>5, <2>1
  <2>3. m <= p - j /\ m \in Nat
    BY <1>2, <1>3, <2>2
  <2>4. QED
    BY <2>3
<1>6. QED
  BY <1>4, <1>5

\* Dropping zeros changes neither what a text is worth nor adds a digit.
LEMMA TrimKeeps ==
  ASSUME NEW n \in Nat, NEW p \in Nat
  PROVE  /\ Trimmed(n, p) \in Texts /\ Trimmed(n, p).places <= p
         /\ \A v \in Int, d \in Nat : n * PowerOf10[d] = v * PowerOf10[p]
                                        => Worth(Trimmed(n, p), v, d)
<1> DEFINE zeros == CHOOSE k \in 0..p : /\ n % PowerOf10[k] = 0
                                        /\ \A j \in 0..p : n % PowerOf10[j] = 0 => j <= k
           q == n \div PowerOf10[zeros]
<1>1. zeros \in 0..p /\ n % PowerOf10[zeros] = 0
  BY MostZeros
<1>2. Trimmed(n, p) = [digits |-> q, places |-> p - zeros]
  BY DEF Trimmed, Text
<1> HIDE DEF zeros
<1>3. zeros \in Nat /\ p - zeros \in Nat /\ p - zeros <= p
  BY <1>1
<1>4. PowerOf10[zeros] \in Nat /\ PowerOf10[zeros] > 0 /\ PowerOf10[p - zeros] \in Nat
  BY <1>3, Powers
<1>5. q \in Nat /\ n = q * PowerOf10[zeros]
  BY <1>1, <1>4, ExactQuotient
<1>6. PowerOf10[p] = PowerOf10[p - zeros] * PowerOf10[zeros]
  BY <1>1, PowersSplit
<1> HIDE DEF q
<1>7. ASSUME NEW v \in Int, NEW d \in Nat, n * PowerOf10[d] = v * PowerOf10[p]
      PROVE  q * PowerOf10[d] = v * PowerOf10[p - zeros]
  <2>1. PowerOf10[d] \in Nat
    BY Powers
  <2>2. n * PowerOf10[d] = (q * PowerOf10[d]) * PowerOf10[zeros]
    BY <1>4, <1>5, <2>1, Products
  <2>3. v * PowerOf10[p] = (v * PowerOf10[p - zeros]) * PowerOf10[zeros]
    BY <1>4, <1>6, Products
  <2>4. q * PowerOf10[d] \in Int /\ v * PowerOf10[p - zeros] \in Int
    BY <1>4, <1>5, <2>1, Products
  <2>5. QED
    BY <1>4, <1>7, <2>2, <2>3, <2>4, CancelEqual
<1>8. Trimmed(n, p) \in Texts /\ Trimmed(n, p).places <= p
  BY <1>2, <1>3, <1>5 DEF Texts
<1>9. QED
  BY <1>2, <1>7, <1>8 DEF Worth

LEMMA PaddedType ==
  ASSUME NEW t \in Texts, NEW places \in Nat, t.places <= places
  PROVE  /\ Padded(t, places) \in Nat
         /\ PowerOf10[places] = PowerOf10[t.places] * PowerOf10[places - t.places]
<1>1. t.digits \in Nat /\ t.places \in Nat /\ places - t.places \in Nat
  BY DEF Texts
<1>2. PowerOf10[places - t.places] \in Nat /\ PowerOf10[t.places] \in Nat
  BY <1>1, Powers
<1>3. t.places + (places - t.places) = places
  BY <1>1
<1>4. PowerOf10[places] = PowerOf10[t.places] * PowerOf10[places - t.places]
  BY <1>1, <1>3, PowersAdd
<1>5. Padded(t, places) \in Nat
  <2>1. t.digits * PowerOf10[places - t.places] \in Nat
    BY <1>1, <1>2
  <2>2. QED
    BY <2>1 DEF Padded
<1>6. QED
  BY <1>4, <1>5

\* A text that does not exceed what v is worth is at most v to the base unit.
LEMMA NotExceeding ==
  ASSUME NEW t \in Texts, NEW l \in Texts, NEW v \in Int, NEW d \in Nat,
         Worth(l, v, d), t.places <= d, ~Exceeds(t, l)
  PROVE  t.digits * PowerOf10[d - t.places] <= v
<1> DEFINE pt == PowerOf10[t.places]
           pl == PowerOf10[l.places]
           pd == PowerOf10[d]
           rest == PowerOf10[d - t.places]
<1>1. /\ t.digits \in Nat /\ t.places \in Nat /\ l.digits \in Nat /\ l.places \in Nat
      /\ d - t.places \in Nat
  BY DEF Texts
<1>2. pt \in Nat /\ pl \in Nat /\ pd \in Nat /\ rest \in Nat /\ pt > 0 /\ pl > 0 /\ pd > 0
  BY <1>1, Powers
<1>3. t.digits * pl <= l.digits * pt
  <2>1. Padded(t, t.places + l.places) = t.digits * pl
    <3>1. (t.places + l.places) - t.places = l.places
      BY <1>1
    <3>2. QED
      BY <3>1 DEF Padded
  <2>2. Padded(l, t.places + l.places) = l.digits * pt
    <3>1. (t.places + l.places) - l.places = t.places
      BY <1>1
    <3>2. QED
      BY <3>1 DEF Padded
  <2>3. ~(t.digits * pl > l.digits * pt)
    BY <2>1, <2>2 DEF Exceeds
  <2>4. t.digits * pl \in Int /\ l.digits * pt \in Int
    BY <1>1, <1>2, Products
  <2>5. QED
    BY <2>3, <2>4
<1>4. l.digits * pd = v * pl
  BY DEF Worth
<1>5. pd = rest * pt
  BY <1>1, PowersSplit
<1> HIDE DEF pt, pl, pd, rest
<1>6. (t.digits * pl) * pd <= (l.digits * pt) * pd
  BY <1>1, <1>2, <1>3, Scales
<1>7. (t.digits * pl) * pd = (t.digits * pd) * pl
  BY <1>1, <1>2, Products
<1>8. (l.digits * pt) * pd = (v * pt) * pl
  BY <1>1, <1>2, <1>4, Products
<1>9. t.digits * pd <= v * pt
  BY <1>1, <1>2, <1>6, <1>7, <1>8, Products, CancelLess
<1>10. t.digits * pd = (t.digits * rest) * pt
  BY <1>1, <1>2, <1>5, Products
<1>11. t.digits * rest <= v
  BY <1>1, <1>2, <1>9, <1>10, Products, CancelLess
<1>12. QED
  BY <1>11 DEF rest

\* The difference of two texts is worth the difference, or shows nothing left.
LEMMA Difference ==
  ASSUME NEW a \in Texts, NEW b \in Texts, NEW v \in Int, NEW w \in Int, NEW d \in Nat,
         Worth(a, v, d), Worth(b, w, d), a.places <= d, b.places <= d
  PROVE  /\ Subtract(a, b) \in Texts /\ Subtract(a, b).places <= d
         /\ Subtract(a, b).digits = 0 \/ Worth(Subtract(a, b), v - w, d)
<1> DEFINE places == IF a.places > b.places THEN a.places ELSE b.places
           result == Padded(a, places) - Padded(b, places)
<1>1. /\ a.places \in Nat /\ b.places \in Nat /\ a.digits \in Nat /\ b.digits \in Nat
      /\ places \in Nat /\ a.places <= places /\ b.places <= places /\ places <= d
  BY DEF Texts
<1>2. Subtract(a, b) = IF result <= 0 THEN Text(0, 0) ELSE Trimmed(result, places)
  BY DEF Subtract
<1> HIDE DEF places
<1>3. Padded(a, places) \in Nat /\ Padded(b, places) \in Nat /\ result \in Int
  BY <1>1, PaddedType
<1>4. CASE result <= 0
  <2>1. Subtract(a, b) = [digits |-> 0, places |-> 0]
    BY <1>2, <1>4 DEF Text
  <2>2. QED
    BY <2>1 DEF Texts
<1>5. CASE ~(result <= 0)
  <2>1. result \in Nat /\ Subtract(a, b) = Trimmed(result, places)
    BY <1>2, <1>3, <1>5
  <2>2. ASSUME NEW t \in Texts, NEW u \in Int, Worth(t, u, d), t.places <= places
        PROVE  Padded(t, places) * PowerOf10[d] = u * PowerOf10[places]
    <3> DEFINE pd == PowerOf10[d]
               pt == PowerOf10[t.places]
               extra == PowerOf10[places - t.places]
    <3>1. t.digits \in Nat /\ t.places \in Nat /\ places - t.places \in Nat
      BY <1>1, <2>2 DEF Texts
    <3>2. pd \in Nat /\ pt \in Nat /\ extra \in Nat
      BY <3>1, Powers
    <3>3. t.digits * pd = u * pt
      BY <2>2 DEF Worth
    <3>4. Padded(t, places) = t.digits * extra
      BY DEF Padded
    <3>5. PowerOf10[places] = pt * extra
      BY <1>1, <2>2, PaddedType
    <3> HIDE DEF pd, pt, extra
    <3>6. (t.digits * extra) * pd = (t.digits * pd) * extra
      BY <3>1, <3>2, Products
    <3>7. (u * pt) * extra = u * (pt * extra)
      BY <2>2, <3>2, Products
    <3>8. QED
      BY <3>3, <3>4, <3>5, <3>6, <3>7 DEF pd
  <2>3. result * PowerOf10[d] = (v - w) * PowerOf10[places]
    <3>1. PowerOf10[d] \in Nat /\ PowerOf10[places] \in Nat
      BY <1>1, Powers
    <3>2. result * PowerOf10[d]
            = Padded(a, places) * PowerOf10[d] - Padded(b, places) * PowerOf10[d]
      BY <1>3, <3>1, Products
    <3>3. (v - w) * PowerOf10[places] = v * PowerOf10[places] - w * PowerOf10[places]
      BY <3>1, Products
    <3>4. QED
      BY <1>1, <2>2, <3>2, <3>3
  <2>4. v - w \in Int
    OBVIOUS
  <2> HIDE DEF result
  <2>5. Trimmed(result, places) \in Texts /\ Trimmed(result, places).places <= places
    BY <1>1, <2>1, TrimKeeps
  <2>6. Worth(Trimmed(result, places), v - w, d)
    BY <1>1, <2>1, <2>3, <2>4, TrimKeeps
  <2>7. Trimmed(result, places).places <= d
    BY <1>1, <2>5 DEF Texts
  <2>8. QED
    BY <2>1, <2>5, <2>6, <2>7
<1>6. QED
  BY <1>4, <1>5

SpendInv ==
  /\ SpendTypeOK
  /\ sent # Nothing => sent.units > 0 /\ sent.units <= sent.of
  /\ setBy # "hand" => text.places <= coin

LEMMA Quotients ==
  ASSUME NEW n \in Nat, NEW m \in Nat, m > 0
  PROVE  n \div m \in Nat
OBVIOUS

\* What may be spent is a text of the coin, worth the balance less the reserve.
LEMMA SpendableWorth ==
  ASSUME SpendTypeOK, held # Nothing
  PROVE  /\ Spendable \in Texts /\ Spendable.places <= coin
         /\ \/ Spendable.digits = 0
            \/ Worth(Spendable, IF coin = Gas THEN held - reserve ELSE held, coin)
<1>1. coin \in Nat /\ held \in Nat /\ reserve \in Nat /\ held \in Int /\ reserve \in Int
  BY SpendAmountAssumption DEF SpendTypeOK
<1>2. /\ FromBaseUnits(held, coin) \in Texts /\ FromBaseUnits(held, coin).places <= coin
      /\ Worth(FromBaseUnits(held, coin), held, coin)
  BY <1>1, TrimKeeps DEF FromBaseUnits
<1>3. /\ FromBaseUnits(reserve, coin) \in Texts
      /\ FromBaseUnits(reserve, coin).places <= coin
      /\ Worth(FromBaseUnits(reserve, coin), reserve, coin)
  BY <1>1, TrimKeeps DEF FromBaseUnits
<1>4. CASE coin = Gas
  <2>1. Spendable = Subtract(FromBaseUnits(held, coin), FromBaseUnits(reserve, coin))
    BY <1>4 DEF Spendable
  <2>2. QED
    BY <1>1, <1>2, <1>3, <1>4, <2>1, Difference
<1>5. CASE coin # Gas
  BY <1>2, <1>5 DEF Spendable
<1>6. QED
  BY <1>4, <1>5

LEMMA ScaleFits ==
  ASSUME NEW t \in Texts, NEW percent \in Nat, NEW d \in Nat
  PROVE  Scale(t, percent, d) \in Texts /\ Scale(t, percent, d).places <= d
<1> DEFINE places == Least(t.places, d)
           units  == t.digits \div PowerOf10[t.places - places]
<1>1. /\ t.digits \in Nat /\ t.places \in Nat
      /\ places \in Nat /\ places <= d /\ t.places - places \in Nat
  BY DEF Texts, Least
<1>2. units \in Nat
  BY <1>1, Powers, Quotients
<1>3. Scale(t, percent, d) = Trimmed((units * percent) \div 100, places)
  BY DEF Scale
<1> HIDE DEF places, units
<1>4. units * percent \in Nat
  BY <1>2
<1>5. (units * percent) \div 100 \in Nat
  BY <1>4, Quotients
<1>6. /\ Trimmed((units * percent) \div 100, places) \in Texts
      /\ Trimmed((units * percent) \div 100, places).places <= places
  BY <1>1, <1>5, TrimKeeps
<1>7. Trimmed((units * percent) \div 100, places).places <= d
  BY <1>1, <1>6 DEF Texts
<1>8. QED
  BY <1>3, <1>6, <1>7

LEMMA TruncateFits ==
  ASSUME NEW t \in Texts, NEW places \in Nat
  PROVE  Truncate(t, places) \in Texts /\ Truncate(t, places).places <= places
<1>1. t.digits \in Nat /\ t.places \in Nat
  BY DEF Texts
<1>2. CASE t.places <= places
  <2>1. Truncate(t, places) = Trimmed(t.digits, t.places)
    BY <1>2 DEF Truncate
  <2>2. Truncate(t, places) \in Texts /\ Truncate(t, places).places <= t.places
    BY <1>1, <2>1, TrimKeeps
  <2>3. QED
    BY <1>1, <1>2, <2>2 DEF Texts
<1>3. CASE ~(t.places <= places)
  <2>1. t.places - places \in Nat
    BY <1>1, <1>3
  <2>2. t.digits \div PowerOf10[t.places - places] \in Nat
    BY <1>1, <2>1, Powers, Quotients
  <2>3. Truncate(t, places) = Trimmed(t.digits \div PowerOf10[t.places - places], places)
    BY <1>3 DEF Truncate
  <2>4. QED
    BY <2>2, <2>3, TrimKeeps
<1>4. QED
  BY <1>2, <1>3

LEMMA BuilderTakes ==
  ASSUME NEW t \in Texts, NEW d \in Nat
  PROVE  /\ t.places <= d => /\ DecimalToBaseUnits(t, d) = t.digits * PowerOf10[d - t.places]
                             /\ DecimalToBaseUnits(t, d) \in Nat
                             /\ DecimalToBaseUnits(t, d) # Nothing
                             /\ t.digits > 0 => DecimalToBaseUnits(t, d) > 0
         /\ ~(t.places <= d) => DecimalToBaseUnits(t, d) = Nothing
<1>1. t.digits \in Nat /\ t.places \in Nat
  BY DEF Texts
<1>2. CASE t.places <= d
  <2>1. d - t.places \in Nat
    BY <1>1, <1>2
  <2>2. PowerOf10[d - t.places] \in Nat /\ PowerOf10[d - t.places] > 0
    BY <2>1, Powers
  <2>3. DecimalToBaseUnits(t, d) = t.digits * PowerOf10[d - t.places]
    BY <1>1, <1>2 DEF DecimalToBaseUnits
  <2>4. /\ t.digits * PowerOf10[d - t.places] \in Nat
        /\ t.digits > 0 => t.digits * PowerOf10[d - t.places] > 0
    BY <1>1, <2>2
  <2>5. QED
    BY <1>2, <2>3, <2>4, SpendAmountAssumption
<1>3. CASE ~(t.places <= d)
  BY <1>1, <1>3 DEF DecimalToBaseUnits
<1>4. QED
  BY <1>2, <1>3

LEMMA SpendKeeps == SpendInv /\ Spend => SpendInv'
<1> SUFFICES ASSUME SpendInv, Spend
             PROVE  SpendInv'
  OBVIOUS
<1> DEFINE units == DecimalToBaseUnits(text, coin)
           of == IF coin = Gas THEN held - reserve ELSE held
<1>1. /\ text.digits > 0 /\ held # Nothing /\ ~Exceeds(text, Spendable)
      /\ IF units = Nothing THEN UNCHANGED sent ELSE sent' = [units |-> units, of |-> of]
      /\ UNCHANGED <<coin, held, reserve, text, setBy>>
  BY DEF Spend
<1>2. /\ coin \in Nat /\ held \in Nat /\ reserve \in Nat /\ of \in Int
      /\ text \in Texts /\ text.digits \in Nat /\ text.places \in Nat
  BY <1>1, SpendAmountAssumption DEF SpendInv, SpendTypeOK, Texts
<1>3. CASE units = Nothing
  BY <1>1, <1>3 DEF SpendInv, SpendTypeOK
<1>4. CASE units # Nothing
  <2>1. text.places <= coin
    BY <1>2, <1>4, BuilderTakes
  <2>2. units = text.digits * PowerOf10[coin - text.places] /\ units \in Nat /\ units > 0
    BY <1>1, <1>2, <2>1, BuilderTakes
  <2>3. /\ Spendable \in Texts
        /\ Spendable.digits = 0 \/ Worth(Spendable, of, coin)
    BY <1>1, SpendableWorth DEF SpendInv
  <2> HIDE DEF units, of
  <2>4. units <= of
    <3>1. CASE Worth(Spendable, of, coin)
      BY <1>1, <1>2, <2>1, <2>2, <2>3, <3>1, NotExceeding
    <3>2. CASE Spendable.digits = 0
      <4>1. Worth(Spendable, 0, coin)
        <5>1. Spendable.places \in Nat
          BY <2>3 DEF Texts
        <5>2. PowerOf10[coin] \in Nat /\ PowerOf10[Spendable.places] \in Nat
          BY <1>2, <5>1, Powers
        <5>3. QED
          BY <3>2, <5>2 DEF Worth
      <4>2. units <= 0
        BY <1>1, <1>2, <2>1, <2>2, <2>3, <4>1, NotExceeding
      <4>3. QED
        BY <2>2, <4>2
    <3>3. QED
      BY <2>3, <3>1, <3>2
  <2>5. of \in Nat
    BY <1>2, <2>2, <2>4
  <2>6. sent' = [units |-> units, of |-> of]
    BY <1>1, <1>4
  <2>7. sent' \in [units : Nat, of : Nat] /\ sent'.units = units /\ sent'.of = of
    BY <2>2, <2>5, <2>6
  <2>8. QED
    BY <1>1, <2>2, <2>4, <2>7 DEF SpendInv, SpendTypeOK
<1>5. QED
  BY <1>3, <1>4

LEMMA SpendStep == SpendInv /\ [SpendNext]_spendVars => SpendInv'
<1> SUFFICES ASSUME SpendInv, [SpendNext]_spendVars
             PROVE  SpendInv'
  OBVIOUS
<1>1. coin \in Nat /\ Coins \subseteq Nat /\ Shown \in Nat /\ Holdings \subseteq Nat
  BY SpendAmountAssumption DEF SpendInv, SpendTypeOK
<1>2. ASSUME NEW t \in Texts, NEW by \in {"hand", "button"}, SetText(t, by),
             by = "button" => t.places <= coin
      PROVE  SpendInv'
  BY <1>2 DEF SetText, SpendInv, SpendTypeOK, Texts
<1>3. CASE Types
  BY <1>2, <1>3, SpendAmountAssumption DEF Types, Texts
<1>4. CASE UseMaximum
  BY <1>2, <1>4, SpendableWorth DEF UseMaximum, Offered, SpendInv
<1>5. CASE UseQuickAmount
  <2>1. PICK percent \in {25, 50, 75} : SetText(Scale(Spendable, percent, coin), "button")
    BY <1>5 DEF UseQuickAmount
  <2>2. Spendable \in Texts
    BY <1>5, SpendableWorth DEF UseQuickAmount, Offered, SpendInv
  <2>3. percent \in Nat
    OBVIOUS
  <2>4. /\ Scale(Spendable, percent, coin) \in Texts
        /\ Scale(Spendable, percent, coin).places <= coin
    BY <1>1, <2>2, <2>3, ScaleFits
  <2>5. QED
    BY <1>2, <2>1, <2>4
<1>6. CASE FlipAmount
  <2>1. PICK other \in Coins, out \in Holdings :
          /\ coin' = other /\ held' = Nothing
          /\ text' = Truncate(FromBaseUnits(out, other), Least(other, Shown))
          /\ setBy' = "flip" /\ UNCHANGED <<reserve, sent>>
    BY <1>6 DEF FlipAmount
  <2>2. other \in Nat /\ out \in Nat /\ Least(other, Shown) \in Nat
        /\ Least(other, Shown) <= other
    BY <1>1 DEF Least
  <2>3. FromBaseUnits(out, other) \in Texts
    BY <2>2, TrimKeeps DEF FromBaseUnits
  <2>4. text' \in Texts /\ text'.places <= Least(other, Shown)
    BY <2>1, <2>2, <2>3, TruncateFits
  <2>5. text'.places <= coin'
    BY <2>1, <2>2, <2>4 DEF Texts
  <2>6. QED
    BY <2>1, <2>4, <2>5 DEF SpendInv, SpendTypeOK, Texts
<1>7. CASE ChooseCoin
  BY <1>7 DEF ChooseCoin, SpendInv, SpendTypeOK
<1>8. CASE BalanceRead
  BY <1>1, <1>8 DEF BalanceRead, SpendInv, SpendTypeOK
<1>9. CASE ConfigRead
  BY <1>9, SpendAmountAssumption DEF ConfigRead, SpendInv, SpendTypeOK
<1>10. CASE UNCHANGED spendVars
  BY <1>10 DEF spendVars, SpendInv, SpendTypeOK
<1>11. QED
  BY <1>3, <1>4, <1>5, <1>6, <1>7, <1>8, <1>9, <1>10, SpendKeeps DEF SpendNext

LEMMA SpendStart == SpendInit => SpendInv
<1> SUFFICES ASSUME SpendInit PROVE SpendInv
  OBVIOUS
<1>1. text = [digits |-> 1, places |-> 0] /\ text \in Texts
  BY DEF SpendInit, Text, Texts
<1>2. QED
  BY <1>1, SpendAmountAssumption DEF SpendInit, SpendInv, SpendTypeOK, Texts

\* For any coins, balances, reserves and texts, what is sent is at most what may
\* be spent, to the base unit, and the builder takes what a button fills in.
THEOREM SpendsWhatFits == SpendSpec => []SpendFits
<1>1. SpendInv => SpendFits
  <2> SUFFICES ASSUME SpendInv PROVE SpendFits
    OBVIOUS
  <2>1. coin \in Nat /\ text \in Texts
    BY SpendAmountAssumption DEF SpendInv, SpendTypeOK, Texts
  <2>2. QED
    BY <2>1, BuilderTakes DEF SpendInv, SpendFits
<1>2. QED
  BY <1>1, SpendStart, SpendStep, PTL DEF SpendSpec
----------------------------------------------------------------------------
(* The whole page.                                                         *)
(*                                                                         *)
(* The instances that TLC checks hold all components at once and let one   *)
(* of them move.  That such a behaviour is one of each component is what   *)
(* makes the runs and the theorems speak of the same thing.                *)

LEMMA PartsStart ==
  ClientInit => /\ Init /\ SocketInit /\ FlowInit /\ ViewInit
                /\ NetInit /\ PagesInit /\ SpendInit
BY DEF ClientInit

LEMMA PartsStep ==
  [ClientNext]_clientVars =>
    /\ [Next]_vars /\ [SocketNext]_socketVars /\ [FlowNext]_flowVars
    /\ [ViewNext]_viewVars /\ [NetNext]_netVars /\ [PagesNext]_pagesVars
    /\ [SpendNext]_spendVars
BY DEF ClientNext, clientVars

\* A behaviour of the page, whichever component moves, is one of each of its
\* components: the specification that the runs check implements theirs.
THEOREM PageIsItsParts ==
  ClientSpec => /\ Spec /\ SocketSpec /\ FlowSpec /\ ViewSpec
                /\ NetSpec /\ PagesSpec /\ SpendSpec
BY PartsStart, PartsStep, PTL
   DEF ClientSpec, Spec, SocketSpec, FlowSpec, ViewSpec, NetSpec, PagesSpec, SpendSpec

\* The state of each component of the page has its type, for all values of the
\* constants.
THEOREM ClientTypeCorrect == ClientSpec => []ClientTypeOK
<1>1. Spec => []TypeOK
  BY TypeCorrect
<1>2. SocketSpec => []SocketTypeOK
  <2>1. SocketInv => SocketTypeOK
    BY DEF SocketInv
  <2>2. QED
    BY <2>1, SocketStart, SocketStep, PTL DEF SocketSpec
<1>3. FlowSpec => []FlowTypeOK
  BY FlowTypeCorrect
<1>4. ViewSpec => []ViewTypeOK
  <2>1. ViewInv => ViewTypeOK
    BY DEF ViewInv
  <2>2. QED
    BY <2>1, ViewStart, ViewStep, PTL DEF ViewSpec
<1>5. NetSpec => []NetTypeOK
  <2>1. NetInv => NetTypeOK
    BY DEF NetInv
  <2>2. QED
    BY <2>1, NetStart, NetStep, PTL DEF NetSpec
<1>6. PagesSpec => []PagesTypeOK
  <2>1. PagesInv => PagesTypeOK
    BY DEF PagesInv
  <2>2. QED
    BY <2>1, PagesStart, PagesStep, PTL DEF PagesSpec
<1>7. SpendSpec => []SpendTypeOK
  <2>1. SpendInv => SpendTypeOK
    BY DEF SpendInv
  <2>2. QED
    BY <2>1, SpendStart, SpendStep, PTL DEF SpendSpec
<1>8. TypeOK /\ SocketTypeOK /\ FlowTypeOK /\ ViewTypeOK /\ NetTypeOK /\ PagesTypeOK
        /\ SpendTypeOK => ClientTypeOK
  BY DEF ClientTypeOK
<1>9. QED
  BY <1>1, <1>2, <1>3, <1>4, <1>5, <1>6, <1>7, <1>8, PageIsItsParts, PTL
=============================================================================
