------------------------- MODULE ConcurrencyBudget -------------------------
(***************************************************************************)
(* Admission control of src/services/security/concurrency.ts for one scope *)
(* of one server process.  Requests that find the scope's budget used up   *)
(* wait in a FIFO queue with a timer each.  The scope's BudgetState is     *)
(* created on demand and dropped from the Map `budgets` when it is idle:   *)
(* a waiter's timer keeps the object it was queued in, while release looks *)
(* the scope up in the Map again.                                          *)
(*                                                                         *)
(* Each step is one run of the event loop.  The object that request r      *)
(* creates, if it creates one, is called r.                                *)
(***************************************************************************)
EXTENDS Integers, Sequences, FiniteSets, SequencesExt

CONSTANTS
  Requests,      \* calls of withConcurrencyBudget
  Concurrency,   \* options.concurrency
  QueueLimit,    \* options.queueLimit
  None

ASSUME BudgetAssumption ==
  /\ Concurrency \in Nat \ {0} /\ QueueLimit \in Nat
  /\ None \notin Requests
  /\ IsFiniteSet(Requests)

VARIABLES
  scope,    \* budgets.get(scope): which BudgetState the Map holds
  active,   \* state.active of each object
  queue,    \* state.queue of each object
  home,     \* the object in whose queue each waiting request was put
  pc        \* where each request is

vars == <<scope, active, queue, home, pc>>

TypeOK ==
  /\ scope \in Requests \cup {None}
  /\ active \in [Requests -> 0..Concurrency]
  /\ queue \in [Requests -> Seq(Requests)]
  /\ \A s \in Requests : Len(queue[s]) <= QueueLimit
  /\ home \in [Requests -> Requests \cup {None}]
  /\ pc \in [Requests ->
               {"idle", "waiting", "working", "done", "refused", "timedOut"}]

Init ==
  /\ scope = None
  /\ active = [s \in Requests |-> 0]
  /\ queue = [s \in Requests |-> <<>>]
  /\ home = [r \in Requests |-> None]
  /\ pc = [r \in Requests |-> "idle"]

Goto(r, where) == pc' = [pc EXCEPT ![r] = where]

Working == {r \in Requests : pc[r] = "working"}
Waiting == {r \in Requests : pc[r] = "waiting"}

----------------------------------------------------------------------------
(* acquire *)

\* stateFor: the Map's object, or a new one that r creates.
StateFor(r) == IF scope = None THEN r ELSE scope

Room(s) == active[s] < Concurrency

Admit(r) ==
  LET s == StateFor(r)
  IN /\ pc[r] = "idle"
     /\ Room(s)
     /\ scope' = s
     /\ active' = [active EXCEPT ![s] = @ + 1]
     /\ Goto(r, "working")
     /\ UNCHANGED <<queue, home>>

\* Mutant: the queue may exceed its limit by one.
QueueFullLate(s) == Len(queue[s]) > QueueLimit

QueueFull(s) == Len(queue[s]) >= QueueLimit

\* Mutant: the newcomer is put in front (unshift for push).
WaitInFront(r) ==
  LET s == StateFor(r)
  IN /\ pc[r] = "idle"
     /\ ~Room(s) /\ ~QueueFull(s)
     /\ scope' = s
     /\ queue' = [queue EXCEPT ![s] = <<r>> \o @]
     /\ home' = [home EXCEPT ![r] = s]
     /\ Goto(r, "waiting")
     /\ UNCHANGED active

Wait(r) ==
  LET s == StateFor(r)
  IN /\ pc[r] = "idle"
     /\ ~Room(s) /\ ~QueueFull(s)
     /\ scope' = s
     /\ queue' = [queue EXCEPT ![s] = Append(@, r)]
     /\ home' = [home EXCEPT ![r] = s]
     /\ Goto(r, "waiting")
     /\ UNCHANGED active

\* 503, "Server is at capacity."
Refuse(r) ==
  LET s == StateFor(r)
  IN /\ pc[r] = "idle"
     /\ ~Room(s) /\ QueueFull(s)
     /\ scope' = s
     /\ Goto(r, "refused")
     /\ UNCHANGED <<active, queue, home>>

----------------------------------------------------------------------------
(* release, and the timers *)

Idle(n, q) == n = 0 /\ q = <<>>

\* Mutant: a release that wakes nobody.
WakesNobody(n, q) == 0

\* How many waiters the loop of release admits when n requests are left.
Wakes(n, q) ==
  IF n >= Concurrency THEN 0
  ELSE IF Concurrency - n < Len(q) THEN Concurrency - n ELSE Len(q)

\* work() settles and its slot goes to the first in the queue of the object
\* that the Map holds now.
Finish(r) ==
  LET left == IF active[scope] > 0 THEN active[scope] - 1 ELSE 0
      n    == Wakes(left, queue[scope])
      woken == {queue[scope][i] : i \in 1..n}
      rest == SubSeq(queue[scope], n + 1, Len(queue[scope]))
  IN /\ pc[r] = "working"
     /\ \/ /\ scope = None
           /\ Goto(r, "done")
           /\ UNCHANGED <<scope, active, queue>>
        \/ /\ scope # None
           /\ active' = [active EXCEPT ![scope] = left + n]
           /\ queue' = [queue EXCEPT ![scope] = rest]
           /\ pc' = [q \in Requests |-> IF q = r THEN "done"
                                        ELSE IF q \in woken THEN "working"
                                        ELSE pc[q]]
           /\ scope' = IF Idle(left + n, rest) THEN None ELSE scope
     /\ UNCHANGED home

\* 503, "Server is busy.": the timer, which only an admission clears.
TimesOut(r) ==
  LET s == home[r]
  IN /\ pc[r] = "waiting"
     /\ \/ \E i \in DOMAIN queue[s] :
             /\ queue[s][i] = r
             /\ queue' = [queue EXCEPT ![s] = RemoveAt(@, i)]
        \/ /\ \A i \in DOMAIN queue[s] : queue[s][i] # r
           /\ UNCHANGED queue
     /\ Goto(r, "timedOut")
     /\ scope' = IF Idle(active[s], queue'[s]) THEN None ELSE scope
     /\ UNCHANGED <<active, home>>

Next ==
  \E r \in Requests :
    Admit(r) \/ Wait(r) \/ Refuse(r) \/ Finish(r) \/ TimesOut(r)

Spec == Init /\ [][Next]_vars

\* Admitted work settles: its upstream calls carry timeouts.  Timers are not
\* assumed to fire, so that the queue itself has to let its waiters in.
FairSpec == Spec /\ \A r \in Requests : WF_vars(Finish(r))

----------------------------------------------------------------------------
(* Properties *)

\* The budget: work runs for at most Concurrency requests at once
\* (concurrency.ts:81-85), although the counter that says so is dropped and
\* made anew while requests come and go.
Bounded == Cardinality(Working) <= Concurrency

\* No wake-up is lost: a request waits only while every slot is taken.
NoIdleSlot == Waiting # {} => Cardinality(Working) = Concurrency

\* Map and closures agree: the object in the Map counts all the work in hand,
\* and is the one whose queue every waiter stands in and its timer removes it
\* from; an idle scope is forgotten, so that the Map does not grow.
OneBudget ==
  /\ scope = None => Working = {}
  /\ scope # None => active[scope] = Cardinality(Working) /\ Working # {}
  /\ \A r \in Waiting : home[r] = scope /\ r \in ToSet(queue[scope])

\* The scope is a FIFO admission queue, and stays one through timeouts and
\* through the dropping of its state.
Line == IF scope = None THEN <<>> ELSE queue[scope]
Abstract == INSTANCE AdmissionQueue WITH inside <- Working, line <- Line
IsAdmissionQueue == Abstract!Spec

\* As long as admitted work settles, every request that waits is admitted or
\* told to retry: the FIFO queue starves nobody.
Answered ==
  \A r \in Requests : pc[r] = "waiting" ~> pc[r] \in {"working", "done", "timedOut"}
============================================================================
