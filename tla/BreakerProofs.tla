---------------------------- MODULE BreakerProofs ----------------------------
(***************************************************************************)
(* Proofs about CircuitBreaker, for any number of calls and any threshold  *)
(* and cooldown.  That a circuit which is not closed has reached its       *)
(* threshold (Tripped) gives Reopens.  With prompt operations a call that  *)
(* passed a closed circuit settles before the circuit that others opened   *)
(* behind it is half open (Outlived), which leaves the probe alone.        *)
(***************************************************************************)
EXTENDS CircuitBreaker, TLAPS

Tripped == openedUntil # 0 => failures >= Threshold

BreakerInv == TypeOK /\ NoLockout /\ Tripped

LEMMA BreakerInit == Init => BreakerInv
<1>1. ASSUME Init PROVE TypeOK
  <2>1. probe \in BOOLEAN
    BY <1>1, Zenon DEF Init
  <2>2. /\ now = 1 /\ failures = 0 /\ openedUntil = 0 /\ streak = 0
        /\ pc = [c \in Calls |-> "idle"] /\ at = [c \in Calls |-> 0]
    BY <1>1, Zenon DEF Init
  <2>3. QED
    BY <2>1, <2>2 DEF TypeOK
<1>2. Init => NoLockout
  BY Zenon DEF Init, NoLockout
<1>3. Init => Tripped
  BY DEF Init, Tripped
<1>4. QED
  BY <1>1, <1>2, <1>3 DEF BreakerInv

LEMMA TypeStep == TypeOK /\ [Next]_vars => TypeOK'
<1> SUFFICES ASSUME TypeOK, [Next]_vars PROVE TypeOK'
  OBVIOUS
<1> USE BreakerAssumption DEF TypeOK
<1>1. ASSUME NEW c \in Calls, Rejected(c) \/ Pass(c) \/ Probe(c)
      PROVE  TypeOK'
  BY <1>1 DEF Rejected, Pass, Probe, Goto
<1>2. ASSUME NEW c \in Calls, Closes(c), streak' \in Nat
      PROVE  TypeOK'
  BY <1>2 DEF Closes, Goto
<1>3. ASSUME NEW c \in Calls, Success(c) \/ Skip(c)
      PROVE  TypeOK'
  <2>1. Closes(c)
    BY <1>3 DEF Success, Skip
  <2>2. streak' \in Nat
    BY <1>3 DEF Success, Skip
  <2>3. QED
    BY <1>2, <2>1, <2>2
<1>4. ASSUME NEW c \in Calls, Fail(c)
      PROVE  TypeOK'
  <2>1. openedUntil' = now + Cooldown \/ openedUntil' = openedUntil
    BY <1>4 DEF Fail, Until
  <2>2. probe' \in BOOLEAN
    BY <1>4, Zenon DEF Fail
  <2>3. QED
    BY <1>4, <2>1, <2>2 DEF Fail, Goto
<1>5. ASSUME NEW c \in Calls, Error(c)
      PROVE  TypeOK'
  BY <1>5 DEF Error, Goto
<1>6. CASE Tick
  BY <1>6 DEF Tick
<1>7. CASE UNCHANGED vars
  BY <1>7 DEF vars
<1>8. QED
  BY <1>1, <1>3, <1>4, <1>5, <1>6, <1>7 DEF Next

LEMMA FlagStep == TypeOK /\ NoLockout /\ [Next]_vars => NoLockout'
<1> SUFFICES ASSUME TypeOK, NoLockout, [Next]_vars, probe'
             PROVE  Probing' # {}
  BY DEF NoLockout
<1>1. ASSUME NEW c \in Calls, Probe(c)
      PROVE  Probing' # {}
  <2>1. pc'[c] = "probing"
    BY <1>1 DEF Probe, Goto, TypeOK
  <2>2. QED
    BY <2>1 DEF Probing
<1>2. ASSUME NEW c \in Calls, Rejected(c) \/ Pass(c)
      PROVE  Probing' # {}
  <2>1. probe
    BY <1>2, Zenon DEF Rejected, Pass
  <2>2. PICK p \in Calls : pc[p] = "probing"
    BY <2>1 DEF NoLockout, Probing
  <2>3. pc'[p] = "probing"
    BY <1>2, <2>2 DEF Rejected, Pass, Goto, TypeOK
  <2>4. QED
    BY <2>3 DEF Probing
<1>3. ASSUME NEW c \in Calls, Success(c) \/ Skip(c) \/ Fail(c) \/ Error(c)
      PROVE  FALSE
  BY <1>3 DEF Success, Skip, Closes, Fail, Error
<1>4. CASE Tick \/ UNCHANGED vars
  <2>1. probe /\ Probing' = Probing
    BY <1>4, Zenon DEF Tick, vars, Probing
  <2>2. QED
    BY <2>1 DEF NoLockout
<1>5. QED
  BY <1>1, <1>2, <1>3, <1>4 DEF Next

LEMMA TrippedStep == TypeOK /\ Tripped /\ [Next]_vars => Tripped'
<1> SUFFICES ASSUME TypeOK, Tripped, [Next]_vars PROVE Tripped'
  OBVIOUS
<1> USE BreakerAssumption DEF Tripped, TypeOK
<1>1. ASSUME NEW c \in Calls, Rejected(c) \/ Pass(c) \/ Probe(c) \/ Error(c)
      PROVE  Tripped'
  BY <1>1 DEF Rejected, Pass, Probe, Error
<1>2. ASSUME NEW c \in Calls, Success(c) \/ Skip(c)
      PROVE  Tripped'
  BY <1>2 DEF Success, Skip, Closes
<1>3. ASSUME NEW c \in Calls, Fail(c)
      PROVE  Tripped'
  BY <1>3 DEF Fail, Trips
<1>4. CASE Tick \/ UNCHANGED vars
  BY <1>4 DEF Tick, vars
<1>5. QED
  BY <1>1, <1>2, <1>3, <1>4 DEF Next

LEMMA BreakerStep == BreakerInv /\ [Next]_vars => BreakerInv'
BY TypeStep, FlagStep, TrippedStep DEF BreakerInv

THEOREM Inductive == Spec => []BreakerInv
BY BreakerInit, BreakerStep, PTL DEF Spec

\* The flag of a half-open circuit is always some running call's to clear:
\* an upstream is never locked out for good.
THEOREM FlagIsHeld == Spec => []NoLockout
<1>1. BreakerInv => NoLockout
  BY DEF BreakerInv
<1>2. QED
  BY <1>1, Inductive, PTL

\* One counted failure is enough to open a circuit that is not closed.
THEOREM OneFailureReopens == Spec => Reopens
<1>1. ASSUME BreakerInv, [Next]_vars
      PROVE  [failures' > failures /\ openedUntil # 0
                => openedUntil' = now + Cooldown]_vars
  <2> SUFFICES ASSUME failures' > failures, openedUntil # 0
               PROVE  openedUntil' = now + Cooldown
    OBVIOUS
  <2> USE <1>1, BreakerAssumption DEF BreakerInv, TypeOK
  <2>1. ASSUME NEW c \in Calls, Fail(c)
        PROVE  openedUntil' = now + Cooldown
    BY <2>1 DEF Fail, Trips, Until, Tripped
  <2>2. ASSUME NEW c \in Calls,
               Rejected(c) \/ Pass(c) \/ Probe(c) \/ Success(c) \/ Skip(c) \/ Error(c)
        PROVE  FALSE
    BY <2>2 DEF Rejected, Pass, Probe, Success, Skip, Closes, Error
  <2>3. CASE Tick \/ UNCHANGED vars
    BY <2>3 DEF Tick, vars
  <2>4. QED
    BY <2>1, <2>2, <2>3 DEF Next
<1>2. QED
  BY <1>1, Inductive, PTL DEF Spec, Reopens

----------------------------------------------------------------------------
(* Prompt operations *)

\* Every call under way is younger than a cooldown, and one that passed a
\* closed circuit is so young that the circuit, if open by now, stays open
\* until it is not.
Outlived ==
  /\ \A c \in Running : at[c] <= now /\ now < at[c] + Cooldown
  /\ \A c \in Calls :
       pc[c] = "running" /\ openedUntil # 0 => at[c] + Cooldown <= openedUntil

\* A probe under way holds the flag of a half-open circuit, alone.
Alone ==
  \A c \in Probing : probe /\ HalfOpen /\ Running = {c}

AloneInv == Outlived /\ Alone

LEMMA RunningOutlasts ==
  ASSUME TypeOK, Outlived, HalfOpen, NEW c \in Calls
  PROVE  pc[c] # "running"
<1> SUFFICES ASSUME pc[c] = "running" PROVE FALSE
  OBVIOUS
<1>1. c \in Running
  BY DEF Running
<1>2. QED
  BY <1>1, BreakerAssumption DEF Outlived, HalfOpen, TypeOK

\* No call under way can move a clock past its own cooldown.
LEMMA PromptStep ==
  ASSUME Prompt, TypeOK, AloneInv, [Next]_vars
  PROVE  Outlived'
<1> USE BreakerAssumption DEF TypeOK, AloneInv, Outlived
<1>1. ASSUME NEW c \in Calls, Rejected(c)
      PROVE  Outlived'
  BY <1>1 DEF Rejected, Goto, Running
<1>2. ASSUME NEW c \in Calls, Pass(c)
      PROVE  Outlived'
  BY <1>2 DEF Pass, Goto, Running
<1>3. ASSUME NEW c \in Calls, Probe(c)
      PROVE  Outlived'
  BY <1>3 DEF Probe, Goto, Running
<1>4. ASSUME NEW c \in Calls, Success(c) \/ Skip(c)
      PROVE  Outlived'
  BY <1>4 DEF Success, Skip, Closes, Goto, Running
<1>5. ASSUME NEW c \in Calls, Fail(c)
      PROVE  Outlived'
  BY <1>5 DEF Fail, Goto, Running, Until
<1>6. ASSUME NEW c \in Calls, Error(c)
      PROVE  Outlived'
  BY <1>6 DEF Error, Goto, Running
<1>7. CASE Tick
  <2>1. \A c \in Running : now + 1 < at[c] + Cooldown
    BY <1>7, Zenon DEF Tick
  <2>2. QED
    BY <1>7, <2>1 DEF Tick, Running
<1>8. CASE UNCHANGED vars
  BY <1>8 DEF vars, Running
<1>9. QED
  BY <1>1, <1>2, <1>3, <1>4, <1>5, <1>6, <1>7, <1>8 DEF Next

LEMMA AloneStep ==
  ASSUME Prompt, BreakerInv, AloneInv, [Next]_vars
  PROVE  Alone'
<1> USE BreakerAssumption DEF BreakerInv, TypeOK
<1>1. ASSUME NEW c \in Calls, Rejected(c)
      PROVE  Alone'
  <2>1. Running' = Running /\ Probing' = Probing
    BY <1>1 DEF Rejected, Goto, Running, Probing
  <2>2. HalfOpen' = HalfOpen /\ probe' = probe
    BY <1>1 DEF Rejected, HalfOpen
  <2>3. QED
    BY <2>1, <2>2, Zenon DEF AloneInv, Alone
<1>2. ASSUME NEW c \in Calls, Pass(c)
      PROVE  Alone'
  <2>1. Probing = {}
    BY <1>2 DEF Pass, AloneInv, Alone, HalfOpen
  <2>2. Probing' = {}
    BY <1>2, <2>1 DEF Pass, Goto, Probing
  <2>3. QED
    BY <2>2 DEF Alone
<1>3. ASSUME NEW c \in Calls, Probe(c)
      PROVE  Alone'
  <2>1. Probing = {}
    BY <1>3, Zenon DEF Probe, AloneInv, Alone
  <2>2. Running = {}
    <3>1. HalfOpen
      BY <1>3, Zenon DEF Probe
    <3>2. QED
      BY <2>1, <3>1, RunningOutlasts DEF AloneInv, Running, Probing
  <2>3. Running' = {c} /\ Probing' = {c}
    BY <1>3, <2>1, <2>2 DEF Probe, Goto, Running, Probing
  <2>4. HalfOpen'
    BY <1>3 DEF Probe, HalfOpen
  <2>5. probe'
    BY <1>3, Zenon DEF Probe
  <2>6. QED
    BY <2>3, <2>4, <2>5 DEF Alone
<1>4. ASSUME NEW c \in Calls, Success(c) \/ Skip(c) \/ Fail(c) \/ Error(c)
      PROVE  Alone'
  <2>1. c \in Running /\ pc' = [pc EXCEPT ![c] = "settled"]
    BY <1>4 DEF Success, Skip, Closes, Fail, Error, Goto
  <2>2. \A p \in Probing : p = c
    BY <2>1 DEF AloneInv, Alone
  <2>3. Probing' = {}
    BY <2>1, <2>2 DEF Probing
  <2>4. QED
    BY <2>3 DEF Alone
<1>5. CASE Tick
  <2>1. Running' = Running /\ Probing' = Probing /\ probe' = probe
    BY <1>5 DEF Tick, Running, Probing
  <2>2. HalfOpen => HalfOpen'
    BY <1>5 DEF Tick, HalfOpen
  <2>3. QED
    BY <2>1, <2>2, Zenon DEF AloneInv, Alone
<1>6. CASE UNCHANGED vars
  BY <1>6 DEF vars, AloneInv, Alone, Running, Probing, HalfOpen
<1>7. QED
  BY <1>1, <1>2, <1>3, <1>4, <1>5, <1>6 DEF Next

\* Where operations settle within a cooldown, a recovery probe is the only
\* call the upstream sees.
THEOREM PromptProbeIsAlone == ASSUME Prompt PROVE Spec => []ProbeAlone
<1>1. Init => AloneInv
  BY DEF Init, AloneInv, Outlived, Alone, Running, Probing
<1>2. BreakerInv /\ AloneInv /\ [Next]_vars => AloneInv'
  BY PromptStep, AloneStep DEF AloneInv, BreakerInv
<1>3. AloneInv => ProbeAlone
  BY DEF AloneInv, Alone, ProbeAlone
<1>4. QED
  BY <1>1, <1>2, <1>3, Inductive, PTL DEF Spec
============================================================================
