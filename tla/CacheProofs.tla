----------------------------- MODULE CacheProofs -----------------------------
(***************************************************************************)
(* Proofs about Cache, for any number of callers and keys.  Nobody is      *)
(* served a value older than one served before (NeverBackInTime) because a *)
(* key has one load at a time, and none while it has an entry (LoadInv):   *)
(* whatever is cached or has been read is then at least as new as whatever *)
(* has been served (VersionInv).                                           *)
(***************************************************************************)
EXTENDS Cache, FiniteSetTheorems, TLAPS

Active(c) == load[c] \in {"sent", "read"}

----------------------------------------------------------------------------
(* What the operations leave in the Map. *)

Part(t, table) ==
  /\ DOMAIN t \subseteq DOMAIN table
  /\ \A k \in DOMAIN t : t[k] = table[k]

\* Pruning removes entries and changes none.
LEMMA PrunedPart ==
  ASSUME NEW table, NEW last, NEW t \in Pruned(table, last)
  PROVE  Part(t, table)
<1> DEFINE live == Without(table, Expired(table))
<1>1. Part(live, table)
  BY DEF Without, Restrict, Part
<1>2. ASSUME t \in Evicted(live) PROVE Part(t, table)
  <2>1. PICK S \in SUBSET DOMAIN live : t = Restrict(live, S)
    BY <1>2 DEF Evicted
  <2>2. DOMAIN t = S /\ \A k \in S : t[k] = live[k]
    BY <2>1 DEF Restrict
  <2> HIDE DEF live
  <2>3. QED
    BY <1>1, <2>1, <2>2 DEF Part
<1>3. t = table \/ t = live \/ t \in Evicted(live)
  BY DEF Pruned
<1>4. QED
  BY <1>1, <1>2, <1>3 DEF Part

\* Pruning leaves no more than MaxEntries.
LEMMA PrunedBounded ==
  ASSUME NEW table, DOMAIN table \subseteq Keys, NEW last, NEW t \in Pruned(table, last)
  PROVE  Cardinality(DOMAIN t) <= MaxEntries
<1> USE CacheAssumption
<1> DEFINE live == Without(table, Expired(table))
<1>1. /\ DOMAIN live \subseteq DOMAIN table
  BY DEF Without, Restrict
<1>2. Cardinality(DOMAIN table) \in Nat /\ Cardinality(DOMAIN live) \in Nat
  BY <1>1, FS_Subset, FS_CardinalityType
<1>3. CASE t = table /\ ~Over(table)
  BY <1>2, <1>3 DEF Over
<1>4. CASE t = live /\ ~Over(live)
  BY <1>2, <1>4 DEF Over
<1>5. CASE t \in Evicted(live)
  <2>1. PICK S \in SUBSET DOMAIN live : t = Restrict(live, S) /\ Cardinality(S) = MaxEntries
    BY <1>5 DEF Evicted
  <2>2. DOMAIN t = S
    BY <2>1 DEF Restrict
  <2>3. QED
    BY <2>1, <2>2
<1>6. QED
  BY <1>3, <1>4, <1>5 DEF Pruned

\* A write adds its own entry, changes no other, and stays within the limit.
LEMMA WriteShape ==
  ASSUME NEW k \in Keys, NEW v, Write(k, v), DOMAIN memory \subseteq Keys
  PROVE  /\ DOMAIN memory' \subseteq DOMAIN memory \cup {k}
         /\ \A x \in DOMAIN memory' :
              memory'[x] = IF x = k THEN Entry(v) ELSE memory[x]
         /\ Cardinality(DOMAIN memory') <= MaxEntries
<1>1. PICK before \in Pruned(memory, lastPruneAt) :
        memory' \in Pruned(With(before, k, v), PrunedAt(memory, lastPruneAt))
  BY DEF Write
<1> DEFINE table == With(before, k, v)
<1>2. Part(before, memory)
  BY PrunedPart
<1>3. Part(memory', table)
  BY <1>1, PrunedPart
<1>4. /\ DOMAIN table = DOMAIN before \cup {k}
      /\ \A x \in DOMAIN table : table[x] = IF x = k THEN Entry(v) ELSE before[x]
  BY DEF With
<1> HIDE DEF table
<1>5. Cardinality(DOMAIN memory') <= MaxEntries
  <2>1. DOMAIN table \subseteq Keys
    BY <1>2, <1>4 DEF Part
  <2>2. QED
    BY <1>1, <2>1, PrunedBounded DEF table
<1>6. QED
  BY <1>2, <1>3, <1>4, <1>5 DEF Part

\* A call adds no entry, and changes no version.
LEMMA CallShape ==
  ASSUME TypeOK, NEW c \in Calls, Call(c)
  PROVE  /\ DOMAIN memory' \subseteq DOMAIN memory
         /\ \A x \in DOMAIN memory' :
              memory'[x] \in Entries /\ memory'[x].version = memory[x].version
<1> DEFINE k == key[c]
           table == IF force[c] THEN Without(memory, {k}) ELSE memory
<1>1. Part(table, memory)
  BY DEF Without, Restrict, Part
<1>2. \A x \in DOMAIN memory : memory[x] \in Entries
  BY DEF TypeOK
<1>3. now \in Nat
  BY DEF TypeOK
<1>4. \/ /\ k \in DOMAIN table
         /\ memory' = [table EXCEPT ![k].touchedAt = now]
      \/ memory' = Without(table, {k})
  BY DEF Call
<1> HIDE DEF k, table
<1>5. CASE memory' = [table EXCEPT ![k].touchedAt = now] /\ k \in DOMAIN table
  BY <1>1, <1>2, <1>3, <1>5 DEF Part, Entries
<1>6. CASE memory' = Without(table, {k})
  <2>1. Part(memory', table)
    BY <1>6 DEF Without, Restrict, Part
  <2>2. QED
    BY <1>1, <1>2, <2>1 DEF Part
<1>7. QED
  BY <1>4, <1>5, <1>6

----------------------------------------------------------------------------
(* Types. *)

LEMMA TypeInit == Init => TypeOK
<1> SUFFICES ASSUME Init PROVE TypeOK
  OBVIOUS
<1> USE CacheAssumption
<1>1. DOMAIN memory = {}
  BY DEF Init
<1>2. force \in [Calls -> BOOLEAN]
  BY Zenon DEF Init
<1>3. QED
  BY <1>1, <1>2 DEF Init, TypeOK

LEMMA TypeStep == TypeOK /\ [Next]_vars => TypeOK'
<1> SUFFICES ASSUME TypeOK, [Next]_vars PROVE TypeOK'
  OBVIOUS
<1> USE CacheAssumption
<1>1. ASSUME NEW c \in Calls, Call(c)
      PROVE  TypeOK'
  <2>1. DOMAIN memory' \subseteq Keys /\ \A k \in DOMAIN memory' : memory'[k] \in Entries
    BY <1>1, CallShape DEF TypeOK
  <2>2. /\ asked' \in [Calls -> Nat] /\ floor' \in [Calls -> Nat]
        /\ UNCHANGED <<now, lastPruneAt, upstream, key, force, value>>
    BY <1>1 DEF Call, TypeOK
  <2>3. ASSUME NEW k \in DOMAIN memory, Serve({c}, key[c], memory[k].version),
               UNCHANGED <<inflight, on, load>>
        PROVE  /\ pc' \in [Calls -> {"idle", "waiting", "served", "failed", "aborted"}]
               /\ got' \in [Calls -> Nat] /\ newest' \in [Keys -> Nat]
               /\ inflight' \in [Keys -> Calls \cup {None}]
               /\ on' \in [Calls -> Calls \cup {None}]
               /\ load' \in [Calls -> {"none", "sent", "read", "stored", "failed"}]
    <3>1. memory[k].version \in Nat
      BY DEF TypeOK, Entries
    <3>2. QED
      BY <2>3, <3>1 DEF Serve, Later, TypeOK
  <2>4. CASE \E k \in DOMAIN memory : /\ Serve({c}, key[c], memory[k].version)
                                      /\ UNCHANGED <<inflight, on, load>>
    BY <2>1, <2>2, <2>3, <2>4 DEF TypeOK
  <2>5. CASE /\ pc' = [pc EXCEPT ![c] = "waiting"]
             /\ UNCHANGED <<got, newest>>
             /\ \/ /\ on' = [on EXCEPT ![c] = inflight[key[c]]]
                   /\ UNCHANGED <<inflight, load>>
                \/ /\ on' = [on EXCEPT ![c] = c]
                   /\ inflight' = [inflight EXCEPT ![key[c]] = c]
                   /\ load' = [load EXCEPT ![c] = "sent"]
    BY <2>1, <2>2, <2>5 DEF TypeOK
  <2>6. QED
    BY <1>1, <2>4, <2>5 DEF Call, Without, Restrict, Loading
<1>2. ASSUME NEW c \in Calls, Read(c)
      PROVE  TypeOK'
  BY <1>2 DEF Read, TypeOK, cache, calls
<1>3. ASSUME NEW c \in Calls, Settle(c)
      PROVE  TypeOK'
  <2>1. Write(key[c], value[c])
    BY <1>3 DEF Settle
  <2>2. key[c] \in Keys /\ value[c] \in Nat /\ DOMAIN memory \subseteq Keys
    BY DEF TypeOK
  <2>3. Entry(value[c]) \in Entries
    BY <2>2 DEF Entry, Entries, TypeOK
  <2>4. DOMAIN memory' \subseteq Keys /\ \A k \in DOMAIN memory' : memory'[k] \in Entries
    BY <2>1, <2>2, <2>3, WriteShape DEF TypeOK
  <2>5. lastPruneAt' \in Int
    BY <2>1 DEF Write, PrunedAt, TypeOK
  <2>6. /\ pc' \in [Calls -> {"idle", "waiting", "served", "failed", "aborted"}]
        /\ got' \in [Calls -> Nat] /\ newest' \in [Keys -> Nat]
    BY <1>3, <2>2 DEF Settle, Serve, Later, TypeOK
  <2>7. QED
    BY <1>3, <2>4, <2>5, <2>6 DEF Settle, Unloaded, TypeOK
<1>4. ASSUME NEW c \in Calls, Fail(c)
      PROVE  TypeOK'
  BY <1>4 DEF Fail, Unloaded, TypeOK
<1>5. ASSUME NEW c \in Calls, Abort(c)
      PROVE  TypeOK'
  BY <1>5 DEF Abort, TypeOK, cache, loads
<1>6. ASSUME NEW k \in Keys, Change(k)
      PROVE  TypeOK'
  BY <1>6 DEF Change, TypeOK, cache, calls, loads
<1>7. CASE Tick
  BY <1>7 DEF Tick, TypeOK, cache, calls, loads
<1>8. CASE UNCHANGED vars
  BY <1>8 DEF vars, TypeOK, cache, calls, loads
<1>9. QED
  BY <1>1, <1>2, <1>3, <1>4, <1>5, <1>6, <1>7, <1>8 DEF Next

\* The cache, its loads and its callers keep their types.
THEOREM TypeCorrect == Spec => []TypeOK
<1>1. Init => TypeOK
  BY TypeInit
<1>2. TypeOK /\ [Next]_vars => TypeOK'
  BY TypeStep
<1>3. QED
  BY <1>1, <1>2, PTL DEF Spec
----------------------------------------------------------------------------
(* Loads and entries. *)

\* A key that is being loaded has no entry.
NoEntryYet == \A c \in Calls : Active(c) => key[c] \notin DOMAIN memory

LoadInv == OneLoadPerKey /\ NoEntryYet

LEMMA LoadInit == Init => LoadInv
BY DEF Init, LoadInv, OneLoadPerKey, NoEntryYet, Active

\* A step of r ends the load of its key.
LEMMA LoadEnds ==
  ASSUME TypeOK, LoadInv, NEW c \in Calls, Active(c),
         load' = [load EXCEPT ![c] = "stored"] \/ load' = [load EXCEPT ![c] = "failed"],
         inflight' = Unloaded(c),
         \A d \in Calls : pc'[d] = "waiting" => pc[d] = "waiting" /\ d \notin Sharers(c),
         UNCHANGED <<key, on>>,
         DOMAIN memory' \subseteq DOMAIN memory \cup {key[c]}
  PROVE  LoadInv'
<1> USE CacheAssumption
<1>1. inflight[key[c]] = c /\ key[c] \in Keys
  BY DEF LoadInv, OneLoadPerKey, Active, TypeOK
<1>2. inflight' = [inflight EXCEPT ![key[c]] = None]
  BY DEF Unloaded
<1>3. \A d \in Calls : Active(d)' => Active(d) /\ d # c /\ key[d] # key[c]
  BY <1>1 DEF Active, TypeOK, LoadInv, OneLoadPerKey
<1>4. \A d \in Calls : pc'[d] = "waiting" => key[d] # key[c]
  BY <1>1 DEF Sharers, LoadInv, OneLoadPerKey
<1>5. \A k \in Keys : inflight'[k] # None =>
        k # key[c] /\ inflight'[k] = inflight[k] /\ load'[inflight[k]] = load[inflight[k]]
  BY <1>1, <1>2 DEF TypeOK, LoadInv, OneLoadPerKey
<1>6. OneLoadPerKey'
  <2>1. \A k \in Keys : inflight'[k] # None =>
          key'[inflight'[k]] = k /\ load'[inflight'[k]] \in {"sent", "read"}
    BY <1>5 DEF LoadInv, OneLoadPerKey
  <2>2. \A d \in Calls : load'[d] \in {"sent", "read"} => inflight'[key'[d]] = d
    BY <1>2, <1>3 DEF Active, LoadInv, OneLoadPerKey, TypeOK
  <2>3. \A d \in Calls : pc'[d] = "waiting" =>
          inflight'[key'[d]] = on'[d] /\ on'[d] # None
    BY <1>2, <1>4 DEF LoadInv, OneLoadPerKey, TypeOK
  <2>4. QED
    BY <2>1, <2>2, <2>3 DEF OneLoadPerKey
<1>7. NoEntryYet'
  BY <1>3 DEF NoEntryYet, LoadInv
<1>8. QED
  BY <1>6, <1>7 DEF LoadInv

LEMMA LoadStep == TypeOK /\ LoadInv /\ [Next]_vars => LoadInv'
<1> SUFFICES ASSUME TypeOK, LoadInv, [Next]_vars PROVE LoadInv'
  OBVIOUS
<1> USE CacheAssumption
<1>1. ASSUME NEW c \in Calls, Call(c)
      PROVE  LoadInv'
  <2>1. DOMAIN memory' \subseteq DOMAIN memory
    BY <1>1, CallShape
  <2>2. UNCHANGED key
    BY <1>1 DEF Call
  <2>3. CASE /\ \A d \in Calls : pc'[d] = "waiting" => pc[d] = "waiting"
             /\ UNCHANGED <<inflight, on, load>>
    BY <2>1, <2>2, <2>3 DEF LoadInv, OneLoadPerKey, NoEntryYet, Active
  <2>4. CASE /\ inflight[key[c]] # None
             /\ pc' = [pc EXCEPT ![c] = "waiting"]
             /\ on' = [on EXCEPT ![c] = inflight[key[c]]]
             /\ UNCHANGED <<inflight, load>>
    BY <2>1, <2>2, <2>4 DEF LoadInv, OneLoadPerKey, NoEntryYet, Active, TypeOK
  <2>5. CASE /\ inflight[key[c]] = None
             /\ pc' = [pc EXCEPT ![c] = "waiting"]
             /\ on' = [on EXCEPT ![c] = c]
             /\ inflight' = [inflight EXCEPT ![key[c]] = c]
             /\ load' = [load EXCEPT ![c] = "sent"]
             /\ key[c] \notin DOMAIN memory'
    <3>1. \A d \in Calls : Active(d) => key[d] # key[c] /\ d # c
      BY <2>5 DEF LoadInv, OneLoadPerKey, Active
    <3>2. \A d \in Calls : pc[d] = "waiting" => key[d] # key[c]
      BY <2>5 DEF LoadInv, OneLoadPerKey
    <3>3. NoEntryYet'
      BY <2>1, <2>2, <2>5 DEF LoadInv, NoEntryYet, Active, TypeOK
    <3>4. \A k \in Keys : inflight'[k] # None =>
            key'[inflight'[k]] = k /\ load'[inflight'[k]] \in {"sent", "read"}
      BY <2>2, <2>5 DEF LoadInv, OneLoadPerKey, TypeOK
    <3>5. \A d \in Calls : load'[d] \in {"sent", "read"} => inflight'[key'[d]] = d
      BY <2>2, <2>5, <3>1 DEF LoadInv, OneLoadPerKey, Active, TypeOK
    <3>6. \A d \in Calls : pc'[d] = "waiting" =>
            inflight'[key'[d]] = on'[d] /\ on'[d] # None
      BY <2>2, <2>5, <3>2 DEF LoadInv, OneLoadPerKey, TypeOK
    <3>7. QED
      BY <3>3, <3>4, <3>5, <3>6 DEF LoadInv, OneLoadPerKey
  <2>6. \A v : Serve({c}, key[c], v)
          => \A d \in Calls : pc'[d] = "waiting" => pc[d] = "waiting"
    BY DEF Serve
  <2>7. \A table : key[c] \notin DOMAIN Without(table, {key[c]})
    BY DEF Without, Restrict
  <2>8. QED
    BY <1>1, <2>3, <2>4, <2>5, <2>6, <2>7 DEF Call, Loading
<1>2. ASSUME NEW c \in Calls, Read(c)
      PROVE  LoadInv'
  BY <1>2 DEF Read, LoadInv, OneLoadPerKey, NoEntryYet, Active, cache, calls, TypeOK
<1>3. ASSUME NEW c \in Calls, Settle(c)
      PROVE  LoadInv'
  <2>1. DOMAIN memory' \subseteq DOMAIN memory \cup {key[c]}
    BY <1>3, WriteShape DEF Settle, TypeOK
  <2>2. \A d \in Calls : pc'[d] = "waiting" => pc[d] = "waiting" /\ d \notin Sharers(c)
    BY <1>3 DEF Settle, Serve
  <2>3. QED
    BY <1>3, <2>1, <2>2, LoadEnds DEF Settle, Active
<1>4. ASSUME NEW c \in Calls, Fail(c)
      PROVE  LoadInv'
  <2>1. \A d \in Calls : pc'[d] = "waiting" => pc[d] = "waiting" /\ d \notin Sharers(c)
    BY <1>4 DEF Fail
  <2>2. QED
    BY <1>4, <2>1, LoadEnds DEF Fail, Active
<1>5. ASSUME NEW c \in Calls, Abort(c)
      PROVE  LoadInv'
  BY <1>5 DEF Abort, LoadInv, OneLoadPerKey, NoEntryYet, Active, cache, loads, TypeOK
<1>6. CASE \/ \E k \in Keys : Change(k)
           \/ Tick
           \/ UNCHANGED vars
  BY <1>6 DEF Change, Tick, vars, LoadInv, OneLoadPerKey, NoEntryYet, Active, cache,
              calls, loads
<1>7. QED
  BY <1>1, <1>2, <1>3, <1>4, <1>5, <1>6 DEF Next
----------------------------------------------------------------------------
(* Versions. *)

\* What is cached, or read and on its way, is between what has been served and
\* what the upstream holds.
UpToDate ==
  /\ \A k \in Keys : newest[k] <= upstream[k]
  /\ \A k \in DOMAIN memory :
       newest[k] <= memory[k].version /\ memory[k].version <= upstream[k]
  /\ \A c \in Calls : load[c] = "read" =>
       newest[key[c]] <= value[c] /\ value[c] <= upstream[key[c]]

\* What a caller has to be served is no newer than what has been served.
FloorHolds == \A c \in Calls : pc[c] # "idle" => floor[c] <= newest[key[c]]

VersionInv == UpToDate /\ FloorHolds /\ NeverBackInTime

LEMMA VersionInit == Init => VersionInv
BY DEF Init, VersionInv, UpToDate, FloorHolds, NeverBackInTime

\* Serving a version of a key that is not behind keeps all callers in order.
LEMMA Served ==
  ASSUME TypeOK, VersionInv, NEW D \in SUBSET Calls, NEW k \in Keys, NEW v \in Nat,
         Serve(D, k, v), newest[k] <= v,
         \A d \in D : key[d] = k,
         \A d \in Calls : floor'[d] = floor[d] \/ (d \in D /\ floor'[d] = newest[k]),
         \A d \in D : pc[d] = "idle" => floor'[d] = newest[k],
         UNCHANGED key
  PROVE  FloorHolds' /\ NeverBackInTime'
<1>0. Later(newest[k], v) = v
  BY DEF Later, TypeOK
<1>1. newest' = [newest EXCEPT ![k] = IF D = {} THEN newest[k] ELSE v]
  BY <1>0 DEF Serve
<1>2. \A x \in Keys : newest'[x] \in Nat /\ newest[x] <= newest'[x]
  BY <1>1 DEF TypeOK
<1>3. \A d \in Calls : floor[d] \in Nat /\ floor'[d] \in Nat /\ key[d] \in Keys
                         /\ newest[key[d]] \in Nat
  BY DEF TypeOK
<1>4. \A d \in D : floor'[d] <= newest[k] /\ newest'[k] = v
  BY <1>1, <1>3 DEF VersionInv, FloorHolds, TypeOK
<1>5. \A d \in Calls : d \notin D => pc'[d] = pc[d] /\ got'[d] = got[d] /\ floor'[d] = floor[d]
  BY DEF Serve
<1>6. \A d \in D : got'[d] = v
  BY DEF Serve
<1>7. FloorHolds'
  BY <1>2, <1>3, <1>4, <1>5 DEF VersionInv, FloorHolds
<1>8. NeverBackInTime'
  BY <1>3, <1>4, <1>5, <1>6 DEF VersionInv, NeverBackInTime, TypeOK
<1>9. QED
  BY <1>7, <1>8

LEMMA VersionStep == TypeOK /\ LoadInv /\ VersionInv /\ [Next]_vars => VersionInv'
<1> SUFFICES ASSUME TypeOK, LoadInv, VersionInv, [Next]_vars PROVE VersionInv'
  OBVIOUS
<1> USE CacheAssumption
<1>1. ASSUME NEW c \in Calls, Call(c)
      PROVE  VersionInv'
  <2>1. /\ DOMAIN memory' \subseteq DOMAIN memory
        /\ \A x \in DOMAIN memory' : memory'[x].version = memory[x].version
    BY <1>1, CallShape
  <2>2. /\ floor' = [floor EXCEPT ![c] = newest[key[c]]]
        /\ pc[c] = "idle" /\ key[c] \in Keys
        /\ UNCHANGED <<upstream, key, value>>
    BY <1>1 DEF Call, TypeOK
  <2>3. ASSUME key[c] \in DOMAIN memory, UNCHANGED <<inflight, on, load>>,
               Serve({c}, key[c], memory[key[c]].version)
        PROVE  VersionInv'
    <3> DEFINE v == memory[key[c]].version
    <3>1. v \in Nat /\ newest[key[c]] <= v /\ v <= upstream[key[c]]
      BY <2>3 DEF VersionInv, UpToDate, TypeOK, Entries
    <3> HIDE DEF v
    <3>2. newest' = [newest EXCEPT ![key[c]] = v]
      <4>1. newest[key[c]] \in Nat
        BY <2>2 DEF TypeOK
      <4>2. Later(newest[key[c]], v) = v
        BY <3>1, <4>1 DEF Later
      <4>3. QED
        BY <2>3, <4>2 DEF Serve, v
    <3>3. \A d \in Calls : load[d] = "read" => key[d] # key[c]
      BY <2>3 DEF LoadInv, NoEntryYet, Active
    <3>4. FloorHolds' /\ NeverBackInTime'
      <4>1. Serve({c}, key[c], v)
        BY <2>3 DEF v
      <4>2. \A d \in Calls : floor'[d] = floor[d] \/ (d \in {c} /\ floor'[d] = newest[key[c]])
        BY <2>2 DEF TypeOK
      <4>3. \A d \in {c} : key[d] = key[c] /\ floor'[d] = newest[key[c]]
        BY <2>2 DEF TypeOK
      <4>4. {c} \in SUBSET Calls
        OBVIOUS
      <4>5. QED
        BY <2>2, <3>1, <4>1, <4>2, <4>3, <4>4, Served
    <3>5. UpToDate'
      <4>1. \A k \in Keys : newest'[k] <= upstream'[k]
        BY <2>2, <3>1, <3>2 DEF VersionInv, UpToDate, TypeOK
      <4>2. \A k \in DOMAIN memory' :
              newest'[k] <= memory'[k].version /\ memory'[k].version <= upstream'[k]
        <5>1. ASSUME NEW k \in DOMAIN memory'
              PROVE  newest'[k] <= memory'[k].version /\ memory'[k].version <= upstream'[k]
          <6>1. CASE k = key[c]
            BY <2>1, <2>2, <3>1, <3>2, <5>1, <6>1 DEF v, TypeOK
          <6>2. CASE k # key[c]
            BY <2>1, <2>2, <3>2, <5>1, <6>2 DEF VersionInv, UpToDate, TypeOK
          <6>3. QED
            BY <6>1, <6>2
        <5>2. QED
          BY <5>1
      <4>3. \A d \in Calls : load'[d] = "read" =>
              newest'[key'[d]] <= value'[d] /\ value'[d] <= upstream'[key'[d]]
        BY <2>2, <2>3, <3>2, <3>3 DEF VersionInv, UpToDate, TypeOK
      <4>4. QED
        BY <4>1, <4>2, <4>3 DEF UpToDate
    <3>6. QED
      BY <3>4, <3>5 DEF VersionInv
  <2>4. ASSUME pc' = [pc EXCEPT ![c] = "waiting"], UNCHANGED <<got, newest>>,
               \A d \in Calls : load'[d] = "read" => load[d] = "read"
        PROVE  VersionInv'
    <3>1. UpToDate'
      BY <2>1, <2>2, <2>4 DEF VersionInv, UpToDate
    <3>2. FloorHolds' /\ NeverBackInTime'
      BY <2>2, <2>4 DEF VersionInv, FloorHolds, NeverBackInTime, TypeOK
    <3>3. QED
      BY <3>1, <3>2 DEF VersionInv
  <2>5. \/ /\ key[c] \in DOMAIN memory
           /\ UNCHANGED <<inflight, on, load>>
           /\ Serve({c}, key[c], memory[key[c]].version)
        \/ /\ pc' = [pc EXCEPT ![c] = "waiting"]
           /\ UNCHANGED <<got, newest>>
           /\ load' = load \/ load' = [load EXCEPT ![c] = "sent"]
    BY <1>1 DEF Call, Without, Restrict, Loading
  <2>6. QED
    BY <2>3, <2>4, <2>5 DEF TypeOK
<1>2. ASSUME NEW c \in Calls, Read(c)
      PROVE  VersionInv'
  BY <1>2 DEF Read, VersionInv, UpToDate, FloorHolds, NeverBackInTime, cache, calls, TypeOK
<1>3. ASSUME NEW c \in Calls, Settle(c)
      PROVE  VersionInv'
  <2> DEFINE k == key[c]
             v == value[c]
  <2>1. /\ k \in Keys /\ v \in Nat
        /\ newest[k] <= v /\ v <= upstream[k]
    BY <1>3 DEF Settle, VersionInv, UpToDate, TypeOK
  <2>2. /\ DOMAIN memory' \subseteq DOMAIN memory \cup {k}
        /\ \A x \in DOMAIN memory' : memory'[x] = IF x = k THEN Entry(v) ELSE memory[x]
    BY <1>3, WriteShape DEF Settle, TypeOK
  <2>3. UNCHANGED <<upstream, key, floor, value>> /\ Serve(Sharers(c), k, v)
    BY <1>3 DEF Settle
  <2>4. \A d \in Sharers(c) : d \in Calls /\ key[d] = k /\ pc[d] = "waiting"
    BY <1>3 DEF Sharers, Settle, LoadInv, OneLoadPerKey, TypeOK
  <2>5. \A d \in Calls : load'[d] = "read" => load[d] = "read" /\ key[d] # k
    BY <1>3 DEF Settle, LoadInv, OneLoadPerKey, TypeOK
  <2>6. newest' = newest \/ newest' = [newest EXCEPT ![k] = v]
    BY <2>1, <2>3 DEF Serve, Later, TypeOK
  <2>7. Entry(v).version = v
    BY DEF Entry
  <2>8. FloorHolds' /\ NeverBackInTime'
    <3>1. Sharers(c) \in SUBSET Calls
      BY DEF Sharers
    <3>2. \A d \in Calls : floor'[d] = floor[d]
      BY <2>3
    <3> HIDE DEF k, v
    <3>3. QED
      BY <2>1, <2>3, <2>4, <3>1, <3>2, Served
  <2> HIDE DEF k, v
  <2>9. \A x \in Keys : newest'[x] <= upstream'[x]
    BY <2>1, <2>3, <2>6 DEF VersionInv, UpToDate, TypeOK
  <2>10. ASSUME NEW x \in DOMAIN memory'
         PROVE  newest'[x] <= memory'[x].version /\ memory'[x].version <= upstream'[x]
    <3>1. CASE x = k
      BY <2>1, <2>2, <2>3, <2>6, <2>7, <2>10, <3>1 DEF TypeOK
    <3>2. CASE x # k
      BY <2>2, <2>3, <2>6, <2>10, <3>2 DEF VersionInv, UpToDate, TypeOK
    <3>3. QED
      BY <3>1, <3>2
  <2>11. \A d \in Calls : load'[d] = "read" =>
           newest'[key'[d]] <= value'[d] /\ value'[d] <= upstream'[key'[d]]
    BY <2>3, <2>5, <2>6 DEF VersionInv, UpToDate, TypeOK
  <2>12. QED
    BY <2>8, <2>9, <2>10, <2>11 DEF VersionInv, UpToDate
<1>4. ASSUME NEW c \in Calls, Fail(c)
      PROVE  VersionInv'
  BY <1>4 DEF Fail, Sharers, VersionInv, UpToDate, FloorHolds, NeverBackInTime, TypeOK
<1>5. ASSUME NEW c \in Calls, Abort(c)
      PROVE  VersionInv'
  BY <1>5 DEF Abort, VersionInv, UpToDate, FloorHolds, NeverBackInTime, cache, loads, TypeOK
<1>6. ASSUME NEW k \in Keys, Change(k)
      PROVE  VersionInv'
  <2>1. /\ \A x \in Keys : upstream[x] \in Nat /\ upstream'[x] \in Nat
                             /\ upstream[x] <= upstream'[x]
        /\ UNCHANGED <<memory, key, pc, got, floor, newest, load, value>>
    BY <1>6 DEF Change, cache, calls, loads, TypeOK
  <2>2. /\ \A x \in Keys : newest[x] \in Nat
        /\ \A x \in DOMAIN memory : x \in Keys /\ memory[x].version \in Nat
        /\ \A c \in Calls : key[c] \in Keys /\ value[c] \in Nat
    BY DEF TypeOK, Entries
  <2>3. UpToDate'
    BY <2>1, <2>2 DEF VersionInv, UpToDate
  <2>4. FloorHolds' /\ NeverBackInTime'
    BY <2>1 DEF VersionInv, FloorHolds, NeverBackInTime
  <2>5. QED
    BY <2>3, <2>4 DEF VersionInv
<1>7. CASE Tick \/ UNCHANGED vars
  BY <1>7 DEF Tick, vars, VersionInv, UpToDate, FloorHolds, NeverBackInTime, cache, calls, loads
<1>8. QED
  BY <1>1, <1>2, <1>3, <1>4, <1>5, <1>6, <1>7 DEF Next
----------------------------------------------------------------------------
(* The theorems. *)

CacheInv == TypeOK /\ LoadInv /\ VersionInv

LEMMA Inductive == Spec => []CacheInv
<1>1. Init => CacheInv
  BY TypeInit, LoadInit, VersionInit DEF CacheInv
<1>2. CacheInv /\ [Next]_vars => CacheInv'
  BY TypeStep, LoadStep, VersionStep DEF CacheInv
<1>3. QED
  BY <1>1, <1>2, PTL DEF Spec

\* Every key has one load at a time, and the Map of loads knows it.
THEOREM SingleFlight == Spec => []OneLoadPerKey
<1>1. CacheInv => OneLoadPerKey
  BY DEF CacheInv, LoadInv
<1>2. QED
  BY Inductive, <1>1, PTL

\* Nobody is served an older value of a key than one served before the call.
THEOREM ReadsGoForward == Spec => []NeverBackInTime
<1>1. CacheInv => NeverBackInTime
  BY DEF CacheInv, VersionInv
<1>2. QED
  BY Inductive, <1>1, PTL

\* The Map stays within its limit, for any number of keys.
THEOREM WithinLimit == Spec => []Bounded
<1> USE CacheAssumption
<1>1. Init => Bounded
  <2>1. Init => Cardinality(DOMAIN memory) = 0
    BY FS_EmptySet DEF Init
  <2>2. QED
    BY <2>1 DEF Bounded
<1>2. TypeOK /\ Bounded /\ [Next]_vars => Bounded'
  <2> SUFFICES ASSUME TypeOK, Bounded, [Next]_vars PROVE Bounded'
    OBVIOUS
  <2>1. ASSUME DOMAIN memory' \subseteq DOMAIN memory
        PROVE  Bounded'
    <3>1. IsFiniteSet(DOMAIN memory)
      BY FS_Subset DEF TypeOK
    <3>2. /\ Cardinality(DOMAIN memory') <= Cardinality(DOMAIN memory)
          /\ Cardinality(DOMAIN memory') \in Nat /\ Cardinality(DOMAIN memory) \in Nat
      BY <2>1, <3>1, FS_Subset, FS_CardinalityType
    <3>3. QED
      BY <3>2 DEF Bounded
  <2>2. ASSUME NEW c \in Calls, Call(c)
        PROVE  Bounded'
    BY <2>1, <2>2, CallShape
  <2>3. ASSUME NEW c \in Calls, Settle(c)
        PROVE  Bounded'
    BY <2>3, WriteShape DEF Settle, Bounded, TypeOK
  <2>4. ASSUME UNCHANGED memory
        PROVE  Bounded'
    BY <2>4 DEF Bounded
  <2>5. QED
    BY <2>2, <2>3, <2>4 DEF Next, Read, Fail, Abort, Change, Tick, vars, cache
<1>3. QED
  BY TypeCorrect, <1>1, <1>2, PTL DEF Spec
==============================================================================
