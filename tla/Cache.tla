-------------------------------- MODULE Cache --------------------------------
(***************************************************************************)
(* src/utils/cache.ts: a bounded Map of values that expire, and a Map of   *)
(* the loads under way, which the callers of `cached` share.  Callers are  *)
(* those of services/wallet/client.ts and portfolio/client.ts: a forced    *)
(* one invalidates its key first, and may stop waiting by its AbortSignal  *)
(* without ending the load it shares.                                      *)
(*                                                                         *)
(* Values are versions of what the upstream holds for a key; the load that *)
(* call c starts is called c.  One step is one run of the event loop.      *)
(***************************************************************************)
EXTENDS Integers, FiniteSets, Functions

CONSTANTS
  Calls,       \* calls of `cached`
  Keys,        \* cache keys, none a prefix of another
  Ttl,         \* ttlMs of every call
  MaxEntries,  \* MAX_CACHE_ENTRIES
  PruneGap,    \* least time between two prunings of a Map within its limit
  MaxTime,     \* bound on the clock
  MaxVersion,  \* bound on the changes at the upstream
  None

ASSUME CacheAssumption ==
  /\ Ttl \in Nat \ {0} /\ MaxEntries \in Nat \ {0} /\ PruneGap \in Nat
  /\ MaxTime \in Nat /\ MaxVersion \in Nat
  /\ None \notin Calls
  /\ IsFiniteSet(Keys)

VARIABLES
  now,          \* Date.now()
  memory,       \* the Map of entries, a function on the keys it has
  inflight,     \* the load under way for each key, or None
  lastPruneAt,
  upstream,     \* version of each key's value at the upstream
  key,          \* the key each call asks for
  force,        \* whether the call invalidates it first
  pc,           \* where each call is
  on,           \* the load it waits for
  load,         \* where each load is
  value,        \* the version each load has read
  got,          \* the version each call was served
  asked,        \* history: version at the upstream when the call was made
  floor,        \* history: newest version served for the key before the call
  newest        \* history: newest version served for each key

cache == <<memory, inflight, lastPruneAt>>
calls == <<key, force, pc, on, got, asked, floor, newest>>
loads == <<load, value>>
vars  == <<now, cache, upstream, calls, loads>>

Entries == [version : Nat, expiresAt : Nat, touchedAt : Nat]

TypeOK ==
  /\ now \in Nat
  /\ DOMAIN memory \subseteq Keys /\ \A k \in DOMAIN memory : memory[k] \in Entries
  /\ inflight \in [Keys -> Calls \cup {None}]
  /\ lastPruneAt \in Int
  /\ upstream \in [Keys -> Nat]
  /\ key \in [Calls -> Keys] /\ force \in [Calls -> BOOLEAN]
  /\ pc \in [Calls -> {"idle", "waiting", "served", "failed", "aborted"}]
  /\ on \in [Calls -> Calls \cup {None}]
  /\ load \in [Calls -> {"none", "sent", "read", "stored", "failed"}]
  /\ value \in [Calls -> Nat] /\ got \in [Calls -> Nat]
  /\ asked \in [Calls -> Nat] /\ floor \in [Calls -> Nat]
  /\ newest \in [Keys -> Nat]

Init ==
  /\ now = 0
  /\ memory = [k \in {} |-> None]
  /\ inflight = [k \in Keys |-> None]
  /\ lastPruneAt = -PruneGap
  /\ upstream = [k \in Keys |-> 0]
  /\ key \in [Calls -> Keys] /\ force \in [Calls -> BOOLEAN]
  /\ pc = [c \in Calls |-> "idle"]
  /\ on = [c \in Calls |-> None]
  /\ load = [c \in Calls |-> "none"]
  /\ value = [c \in Calls |-> 0] /\ got = [c \in Calls |-> 0]
  /\ asked = [c \in Calls |-> 0] /\ floor = [c \in Calls |-> 0]
  /\ newest = [k \in Keys |-> 0]

----------------------------------------------------------------------------
(* The Map. *)

Without(table, gone) == Restrict(table, DOMAIN table \ gone)

Expired(table) == {k \in DOMAIN table : table[k].expiresAt <= now}

\* The tables that evicting the least recently touched entries may leave.
Evicted(table) ==
  {Restrict(table, kept) :
     kept \in {S \in SUBSET DOMAIN table :
                 /\ Cardinality(S) = MaxEntries
                 /\ \A k \in S, gone \in DOMAIN table \ S :
                      table[gone].touchedAt <= table[k].touchedAt}}

Over(table) == Cardinality(DOMAIN table) > MaxEntries

\* pruneExpired
Pruned(table, last) ==
  IF now - last < PruneGap /\ ~Over(table) THEN {table}
  ELSE LET live == Without(table, Expired(table))
       IN IF Over(live) THEN Evicted(live) ELSE {live}

PrunedAt(table, last) ==
  IF now - last < PruneGap /\ ~Over(table) THEN last ELSE now

\* Mutant: an entry that eviction does not know the age of.
EntryUntouched(v) == [version |-> v, expiresAt |-> now + Ttl]

Entry(v) == [version |-> v, expiresAt |-> now + Ttl, touchedAt |-> now]

With(table, k, v) ==
  [x \in DOMAIN table \cup {k} |-> IF x = k THEN Entry(v) ELSE table[x]]

\* Mutant: pruned before the entry is added only.
WritePrunedBefore(k, v) ==
  \E before \in Pruned(memory, lastPruneAt) :
    /\ memory' = With(before, k, v)
    /\ lastPruneAt' = PrunedAt(memory, lastPruneAt)

\* writeCache: pruned before and after the entry is added.
Write(k, v) ==
  \E before \in Pruned(memory, lastPruneAt) :
    LET last  == PrunedAt(memory, lastPruneAt)
        table == With(before, k, v)
    IN /\ memory' \in Pruned(table, last)
       /\ lastPruneAt' = PrunedAt(table, last)

----------------------------------------------------------------------------
(* cached *)

Later(m, n) == IF m >= n THEN m ELSE n

\* Callers D are served version v of key k.
Serve(D, k, v) ==
  /\ pc' = [c \in Calls |-> IF c \in D THEN "served" ELSE pc[c]]
  /\ got' = [c \in Calls |-> IF c \in D THEN v ELSE got[c]]
  /\ newest' = [newest EXCEPT ![k] = IF D = {} THEN @ ELSE Later(@, v)]

\* Mutant: an invalidation forgets the load under way, so that a forced call
\* starts one of its own.
ForgottenLoad(c) ==
  IF force[c] THEN [inflight EXCEPT ![key[c]] = None] ELSE inflight

\* invalidateCache leaves the loads under way alone.
Loading(c) == inflight

\* A forced call drops the key's entry; then a value is read, a load joined,
\* or a load begun, without an await in between.
Call(c) ==
  LET k     == key[c]
      table == IF force[c] THEN Without(memory, {k}) ELSE memory
      fresh == k \in DOMAIN table \ Expired(table)
  IN /\ pc[c] = "idle"
     /\ asked' = [asked EXCEPT ![c] = upstream[k]]
     /\ floor' = [floor EXCEPT ![c] = newest[k]]
     /\ \/ /\ fresh
           /\ memory' = [table EXCEPT ![k].touchedAt = now]
           /\ Serve({c}, k, table[k].version)
           /\ UNCHANGED <<inflight, on, load>>
        \/ /\ ~fresh
           /\ memory' = Without(table, {k})
           /\ pc' = [pc EXCEPT ![c] = "waiting"]
           /\ \/ /\ Loading(c)[k] # None
                 /\ on' = [on EXCEPT ![c] = inflight[k]]
                 /\ UNCHANGED <<inflight, load>>
              \/ /\ Loading(c)[k] = None
                 /\ on' = [on EXCEPT ![c] = c]
                 /\ inflight' = [inflight EXCEPT ![k] = c]
                 /\ load' = [load EXCEPT ![c] = "sent"]
           /\ UNCHANGED <<got, newest>>
     /\ UNCHANGED <<now, lastPruneAt, upstream, key, force, value>>

\* The upstream evaluates the load's request.
Read(c) ==
  /\ load[c] = "sent"
  /\ load' = [load EXCEPT ![c] = "read"]
  /\ value' = [value EXCEPT ![c] = upstream[key[c]]]
  /\ UNCHANGED <<now, cache, upstream, calls>>

Sharers(c) == {d \in Calls : pc[d] = "waiting" /\ on[d] = c}

\* Mutant: the load's entry stays.
StillLoading(c) == inflight

\* finally(() => inflight.delete(key))
Unloaded(c) == [inflight EXCEPT ![key[c]] = None]

\* The answer arrives: it is cached and served to all who share the load.
Settle(c) ==
  /\ load[c] = "read"
  /\ load' = [load EXCEPT ![c] = "stored"]
  /\ Write(key[c], value[c])
  /\ inflight' = Unloaded(c)
  /\ Serve(Sharers(c), key[c], value[c])
  /\ UNCHANGED <<now, upstream, key, force, on, asked, floor, value>>

\* The request fails, or the signal of the caller that made it aborts it
\* (services/portfolio/client.ts): with it fail all who share it.
Fail(c) ==
  /\ load[c] \in {"sent", "read"}
  /\ load' = [load EXCEPT ![c] = "failed"]
  /\ inflight' = Unloaded(c)
  /\ pc' = [d \in Calls |-> IF d \in Sharers(c) THEN "failed" ELSE pc[d]]
  /\ UNCHANGED <<now, memory, lastPruneAt, upstream, key, force, on, got, asked,
                 floor, newest, value>>

\* withAbortSignal
Abort(c) ==
  /\ pc[c] = "waiting"
  /\ pc' = [pc EXCEPT ![c] = "aborted"]
  /\ UNCHANGED <<now, cache, upstream, key, force, on, got, asked, floor, newest,
                 loads>>

----------------------------------------------------------------------------
(* The environment. *)

Change(k) ==
  /\ upstream[k] < MaxVersion
  /\ upstream' = [upstream EXCEPT ![k] = @ + 1]
  /\ UNCHANGED <<now, cache, calls, loads>>

Tick ==
  /\ now < MaxTime
  /\ now' = now + 1
  /\ UNCHANGED <<cache, upstream, calls, loads>>

Next ==
  \/ \E c \in Calls : Call(c) \/ Read(c) \/ Settle(c) \/ Fail(c) \/ Abort(c)
  \/ \E k \in Keys : Change(k)
  \/ Tick

Spec == Init /\ [][Next]_vars

----------------------------------------------------------------------------
(* Properties *)

\* The Map stays within MAX_CACHE_ENTRIES, although it is pruned at intervals
\* and by writers of other keys.
Bounded == Cardinality(DOMAIN memory) <= MaxEntries

\* The Map of loads tells the truth (cache.ts:55-62): a key's entry is a load
\* that is really under way, and every load under way is its key's entry, so
\* that no key is ever loaded twice at once and nobody waits for a load that is
\* over.
OneLoadPerKey ==
  /\ \A k \in Keys : inflight[k] # None =>
       key[inflight[k]] = k /\ load[inflight[k]] \in {"sent", "read"}
  /\ \A c \in Calls : load[c] \in {"sent", "read"} => inflight[key[c]] = c
  /\ \A c \in Calls : pc[c] = "waiting" => inflight[key[c]] = on[c] /\ on[c] # None

\* Reads do not go back in time: a caller is never served an older version of
\* a key than one that was served, to anybody, before it called.  Invalidation,
\* expiry, eviction and failed loads in between notwithstanding.
NeverBackInTime ==
  \A c \in Calls : pc[c] = "served" => got[c] >= floor[c]

\* RC15-QUOTE-SETTINGS-AND-BALANCE-HARDENING.md:55, "Confirmed transactions
\* ... invalidate the short wallet cache and trigger an immediate balance
\* refresh, avoiding a stale Swap balance": a forced call is served nothing
\* older than what the upstream held when it was made.
ForcedIsFresh ==
  \A c \in Calls : force[c] /\ pc[c] = "served" => got[c] >= asked[c]
==============================================================================
