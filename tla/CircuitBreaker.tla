--------------------------- MODULE CircuitBreaker ---------------------------
(***************************************************************************)
(* withCircuitBreaker (src/services/upstream/circuit-breaker.ts) for one   *)
(* key: the calls of one server process to one upstream share a failure    *)
(* count, the time until which the circuit is open, and the flag that a    *)
(* half-open probe is under way.  A call reads that state when it starts   *)
(* and writes it when its operation settles, however much later.           *)
(***************************************************************************)
EXTENDS Integers

CONSTANTS
  Calls,      \* calls of withCircuitBreaker
  Threshold,  \* failureThreshold
  Cooldown,   \* cooldownMs, in units of the clock
  Prompt,     \* operations settle within a cooldown of their start
  MaxTime     \* bound on the clock

ASSUME BreakerAssumption ==
  /\ Threshold \in Nat \ {0} /\ Cooldown \in Nat \ {0}
  /\ MaxTime \in Nat
  /\ Prompt \in BOOLEAN

VARIABLES
  now,          \* Date.now()
  failures,     \* state.failures
  openedUntil,  \* state.openedUntil, 0 when the circuit is closed
  probe,        \* state.halfOpenProbe
  pc,           \* where each call is; a "probing" one has set the flag
  at,           \* when each call started
  streak        \* history: upstream failures since it last answered

vars == <<now, failures, openedUntil, probe, pc, at, streak>>

Running == {c \in Calls : pc[c] \in {"running", "probing"}}
Probing == {c \in Calls : pc[c] = "probing"}

TypeOK ==
  /\ now \in Nat \ {0}
  /\ failures \in Nat
  /\ openedUntil \in Nat
  /\ openedUntil # 0 => openedUntil > Cooldown
  /\ probe \in BOOLEAN
  /\ pc \in [Calls -> {"idle", "running", "probing", "settled", "rejected"}]
  /\ at \in [Calls -> Nat]
  /\ streak \in Nat

Init ==
  /\ now = 1
  /\ failures = 0 /\ openedUntil = 0 /\ probe = FALSE
  /\ pc = [c \in Calls |-> "idle"]
  /\ at = [c \in Calls |-> 0]
  /\ streak = 0

Goto(c, where) == pc' = [pc EXCEPT ![c] = where]

Open     == openedUntil > now
HalfOpen == openedUntil # 0 /\ openedUntil <= now

----------------------------------------------------------------------------
(* A call starts. *)

Rejected(c) ==
  /\ pc[c] = "idle"
  /\ Open \/ (HalfOpen /\ probe)
  /\ Goto(c, "rejected")
  /\ UNCHANGED <<now, failures, openedUntil, probe, at, streak>>

Pass(c) ==
  /\ pc[c] = "idle"
  /\ openedUntil = 0
  /\ Goto(c, "running")
  /\ at' = [at EXCEPT ![c] = now]
  /\ UNCHANGED <<now, failures, openedUntil, probe, streak>>

\* Mutant: whoever comes while the circuit is half open may probe.
ProbeAnyway(c) ==
  /\ pc[c] = "idle"
  /\ HalfOpen
  /\ probe' = TRUE
  /\ Goto(c, "probing")
  /\ at' = [at EXCEPT ![c] = now]
  /\ UNCHANGED <<now, failures, openedUntil, streak>>

Probe(c) ==
  /\ pc[c] = "idle"
  /\ HalfOpen /\ ~probe
  /\ probe' = TRUE
  /\ Goto(c, "probing")
  /\ at' = [at EXCEPT ![c] = now]
  /\ UNCHANGED <<now, failures, openedUntil, streak>>

----------------------------------------------------------------------------
(* Its operation settles. *)

\* The operation returned a value: the circuit closes.
Closes(c) ==
  /\ c \in Running
  /\ failures' = 0 /\ openedUntil' = 0 /\ probe' = FALSE
  /\ Goto(c, "settled")
  /\ UNCHANGED <<now, at>>

Success(c) == Closes(c) /\ streak' = 0

\* A value that does not come from the upstream: the price loader has nothing
\* to ask of a provider for an asset without that provider's identifier.
Skip(c) == Closes(c) /\ UNCHANGED streak

\* Mutant: the circuit opens without a cooldown.
UntilNow == now

Until == now + Cooldown

Trips(n) == n >= Threshold

\* A failure that shouldCountFailure counts.
Fail(c) ==
  /\ c \in Running
  /\ probe' = FALSE
  /\ failures' = failures + 1
  /\ openedUntil' = IF Trips(failures + 1) THEN Until ELSE openedUntil
  /\ streak' = streak + 1
  /\ Goto(c, "settled")
  /\ UNCHANGED <<now, at>>

\* Mutant: an error that is not counted leaves the flag as it is.
ErrorKeepsFlag(c) ==
  /\ c \in Running
  /\ Goto(c, "settled")
  /\ UNCHANGED <<now, failures, openedUntil, probe, at, streak>>

\* An error that is the caller's own fault.
Error(c) ==
  /\ c \in Running
  /\ probe' = FALSE
  /\ Goto(c, "settled")
  /\ UNCHANGED <<now, failures, openedUntil, at, streak>>

Tick ==
  /\ now < MaxTime
  /\ Prompt => \A c \in Running : now + 1 < at[c] + Cooldown
  /\ now' = now + 1
  /\ UNCHANGED <<failures, openedUntil, probe, pc, at, streak>>

Next ==
  \/ \E c \in Calls :
       \/ Rejected(c) \/ Pass(c) \/ Probe(c)
       \/ Success(c) \/ Skip(c) \/ Fail(c) \/ Error(c)
  \/ Tick

Spec == Init /\ [][Next]_vars

----------------------------------------------------------------------------
(* Properties *)

\* The upstream is not locked out for good: while the flag refuses probes, a
\* call that set it is still under way and will clear it when it settles.
NoLockout == probe => Probing # {}

\* A failure that comes in while the circuit is not closed, the probe's or a
\* late one, opens it for a whole cooldown, at the first failure and not after
\* another Threshold of them.
Reopens ==
  [][failures' > failures /\ openedUntil # 0 => openedUntil' = now + Cooldown]_vars

\* A probe is alone with the upstream: no other call is under way while it
\* runs.  Holds where operations settle within a cooldown (the defaults of
\* config/env.ts, timeouts of 5 and 8 seconds against a cooldown of 15).
ProbeAlone == \A c \in Probing : Running = {c}

\* RC15-UPSTREAM-CIRCUIT-BREAKER-RESILIENCE.md:27, "After
\* UPSTREAM_FAILURE_THRESHOLD consecutive retryable failures, the circuit opens":
\* so many failures of the upstream with no answer of it in between leave the
\* circuit open, or half open.
TripsOnStreak == streak >= Threshold => openedUntil # 0
============================================================================
