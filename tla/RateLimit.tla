----------------------------- MODULE RateLimit -----------------------------
(***************************************************************************)
(* src/services/security/rate-limit.ts for one key: the row that counts a  *)
(* window of time in the database and, when that does not answer, the      *)
(* entry of the process that serves the request.  The window is that of    *)
(* the time at which the request came in; the row may be written, or the   *)
(* write may fail, some time later.  Entries that have ended are removed   *)
(* now and then, as any request comes in.                                  *)
(***************************************************************************)
EXTENDS Integers, FiniteSets

CONSTANTS
  Clients,     \* requests
  Processes,   \* processes of the deployment
  Limit,       \* limit of the scope
  Window,      \* windowMs
  PruneGap,    \* time between two removals (60 s)
  Delay,       \* the longest the database takes to answer or to fail
  MaxInstant,  \* bound on the clock
  Absent

ASSUME RateLimitAssumption ==
  /\ Limit \in Nat \ {0} /\ Window \in Nat \ {0}
  /\ Delay \in Nat /\ Delay < Window /\ PruneGap \in Nat
  /\ MaxInstant \in Nat
  /\ IsFiniteSet(Clients)

VARIABLES
  instant,   \* Date.now()
  bucket,    \* count of each window's row in the database; 0: no row
  window,    \* each process's entry: its count and its end
  pruned,    \* lastPruneAt of each process
  stage,     \* where each request is
  came,      \* the time it read when it came in
  by,        \* the process that serves it
  via        \* who admitted it

limiterVars == <<instant, bucket, window, pruned, stage, came, by, via>>

Buckets == 0..(MaxInstant \div Window)
BucketOf(t) == t \div Window
Entries == [count : Nat, resetAt : Nat]
NoEntry == [count |-> 0, resetAt |-> 0]

LimiterTypeOK ==
  /\ instant \in Nat
  /\ bucket \in [Buckets -> Nat]
  /\ window \in [Processes -> Entries] /\ pruned \in [Processes -> Int]
  /\ stage \in [Clients -> {"new", "asking", "admitted", "refused"}]
  /\ came \in [Clients -> Nat] /\ by \in [Clients -> Processes]
  /\ via \in [Clients -> {"db", "memory", Absent}]

LimiterInit ==
  /\ instant = 0
  /\ bucket = [b \in Buckets |-> 0]
  /\ window = [p \in Processes |-> NoEntry]
  /\ pruned = [p \in Processes |-> -PruneGap]
  /\ stage = [r \in Clients |-> "new"]
  /\ came = [r \in Clients |-> 0]
  /\ by \in [Clients -> Processes]
  /\ via = [r \in Clients |-> Absent]

-----------------------------------------------------------------------------
Decide(r, count, source) ==
  IF count > Limit
    THEN stage' = [stage EXCEPT ![r] = "refused"] /\ UNCHANGED via
    ELSE stage' = [stage EXCEPT ![r] = "admitted"] /\ via' = [via EXCEPT ![r] = source]

(* prune: the entry is removed with all that have ended. *)
Prune(p) ==
  IF instant - pruned[p] < PruneGap
    THEN UNCHANGED <<window, pruned>>
    ELSE /\ pruned' = [pruned EXCEPT ![p] = instant]
         /\ window' = [window EXCEPT ![p] = IF @.resetAt <= instant THEN NoEntry ELSE @]

Comes(r) ==
  /\ stage[r] = "new" /\ instant <= MaxInstant
  /\ stage' = [stage EXCEPT ![r] = "asking"]
  /\ came' = [came EXCEPT ![r] = instant]
  /\ Prune(by[r])
  /\ UNCHANGED <<instant, bucket, by, via>>

(* A request of another key. *)
OtherComes(p) == Prune(p) /\ UNCHANGED <<instant, bucket, stage, came, by, via>>

(* The upsert increments and returns the row in one statement. *)
Counts(r) ==
  /\ stage[r] = "asking"
  /\ bucket' = [bucket EXCEPT ![BucketOf(came[r])] = @ + 1]
  /\ Decide(r, bucket'[BucketOf(came[r])], "db")
  /\ UNCHANGED <<instant, window, pruned, came, by>>

Entry(old, t) ==
  IF old.resetAt <= t THEN [count |-> 1, resetAt |-> t + Window]
                      ELSE [old EXCEPT !.count = @ + 1]

CountsInMemory(r) ==
  /\ stage[r] = "asking"
  /\ window' = [window EXCEPT ![by[r]] = Entry(@, came[r])]
  /\ Decide(r, window'[by[r]].count, "memory")
  /\ UNCHANGED <<instant, bucket, pruned, came, by>>

\* Mutant: the sweep takes a row as soon as its window is over.
ExpiredAtReset(b) == (b + 1) * Window

(* The sweep of the cleanup job: a row outlives its window by another.     *)
ExpiresAt(b) == (b + 2) * Window

Sweep ==
  /\ \E b \in Buckets : bucket[b] > 0 /\ ExpiresAt(b) < instant
  /\ bucket' = [b \in Buckets |-> IF ExpiresAt(b) < instant THEN 0 ELSE bucket[b]]
  /\ UNCHANGED <<instant, window, pruned, stage, came, by, via>>

LimiterTick ==
  /\ instant < MaxInstant + Window + Delay
  /\ \A r \in Clients : stage[r] = "asking" => instant < came[r] + Delay
  /\ instant' = instant + 1
  /\ UNCHANGED <<bucket, window, pruned, stage, came, by, via>>

LimiterNext ==
  \/ \E r \in Clients : Comes(r) \/ Counts(r) \/ CountsInMemory(r)
  \/ \E p \in Processes : OtherComes(p)
  \/ Sweep \/ LimiterTick

LimiterSpec == LimiterInit /\ [][LimiterNext]_limiterVars

-----------------------------------------------------------------------------
Admitted(source) == {r \in Clients : stage[r] = "admitted" /\ via[r] = source}
In(b, rs) == {r \in rs : BucketOf(came[r]) = b}

(* Across all processes, the database admits no more than the limit of the *)
(* requests that came in one window, though a row may be swept while a     *)
(* request of its window is still to be counted.                           *)
WindowBounded == \A b \in Buckets : Cardinality(In(b, Admitted("db"))) <= Limit

(* A process that counts by itself admits no more than the limit in any    *)
(* window's length that ends before its entry does, of those that came     *)
(* since it last removed what had ended.                                   *)
SinceBegun(p) ==
  {r \in Admitted("memory") : by[r] = p /\ came[r] >= window[p].resetAt - Window}
Recent(p) == {r \in SinceBegun(p) : came[r] >= pruned[p]}
FallbackBounded == \A p \in Processes : Cardinality(Recent(p)) <= Limit

(* "Persistence failure must not disable abuse protection; fall through to *)
(* the bounded process-local limiter" (rate-limit.ts:66-67): those that    *)
(* still waited for the database when the entry was removed begin another, *)
(* whose window is that of their own, earlier time, beside those that the  *)
(* removed entry admitted.                                                 *)
LocallyBounded ==
  \A p \in Processes : window[p] # NoEntry => Cardinality(SinceBegun(p)) <= Limit
=============================================================================
